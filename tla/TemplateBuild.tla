---------------------------- MODULE TemplateBuild ----------------------------
(***************************************************************************)
(* The builds of one template: the API's handlers that request, start and  *)
(* delete builds, its build cache and template cache, the env_builds rows  *)
(* of the database, and the template manager that makes the files.         *)
(*                                                                         *)
(* A run is one start request: its handler and the goroutine it leaves     *)
(* behind, with the TemplateCreate stream that opens.  A lookup is         *)
(* the part of a sandbox creation that asks TemplateCache.Get for a build. *)
(* A start names a build of the template.                                  *)
(***************************************************************************)
EXTENDS Integers, FiniteSets

CONSTANTS
  Builds, Runs, Lookups,
  Parts,           \* the files of a build: memory, root filesystem, snapshot
  NoBuild, NoRun,
  MaxMishaps       \* lapses, breaks, faults and restarts: a bound of the model

ASSUME NoneAssumption == NoBuild \notin Builds /\ NoRun \notin Runs
ASSUME RunsAssumption == IsFiniteSet(Runs)
ASSUME BoundAssumption == MaxMishaps \in Nat

VARIABLES
  template,     \* the envs row exists
  rows,         \* build -> status of its env_builds row ("asked": not inserted yet)
  finishedAt,   \* build -> when FinishEnvBuild last finished it
  clock,
  entry,        \* BuildCache: the item of the template, and the status in it
  counter,      \* BuildCache.counter
  pc, of,       \* run -> where it is, and the build it is of
  tm,           \* run -> where the template manager's handler is
  pending,      \* run -> the parts that its upload has yet to write
  files,        \* build -> part -> the run that wrote it to the bucket
  cached,       \* TemplateCache: the build of the template
  found,        \* lookup -> what its query returned, until it sets the cache
  crossed,      \* an Invalidate came between a lookup's query and its Set
  deleter, listed,  \* DeleteTemplatesTemplateID, and the builds it found
  overlapped,   \* a run began while another of its build was not over
  lapses,       \* items that expired during a build,
  breaks,       \* streams that broke,
  faults,       \* statements of a run that failed,
  restarts      \* restarts of the API

db      == <<template, rows, finishedAt, clock>>
build   == <<entry, counter>>
run     == <<pc, of>>
manager == <<tm, pending, files>>
lookups == <<cached, found, crossed>>
deletion == <<deleter, listed>>
bounds  == <<lapses, breaks, faults, restarts>>
vars    == <<db, build, run, manager, lookups, deletion, overlapped, bounds>>

-----------------------------------------------------------------------------
NoEntry == [build |-> NoBuild, status |-> "none"]
Item(b, s) == [build |-> b, status |-> s]

HasRow(b) == rows[b] \in {"waiting", "building", "failed", "uploaded"}

\* Between Create and the SetDone or Delete that answers it.
ActivePC == {"setBuilding", "giveUp", "rpc", "recv", "finish", "ready", "failRow", "failDone"}
Active == {r \in Runs : pc[r] \in ActivePC}

\* The template manager may still change the files of a build.
Working == {r \in Runs : tm[r] \in {"build", "version", "upload", "remove", "return"}}

MayGoWrong == lapses + breaks + faults + restarts < MaxMishaps

GoTo(r, l) == pc' = [pc EXCEPT ![r] = l]
Manage(r, l) == tm' = [tm EXCEPT ![r] = l]

Init ==
  /\ template = FALSE /\ rows = [b \in Builds |-> "none"]
  /\ finishedAt = [b \in Builds |-> 0] /\ clock = 0
  /\ entry = NoEntry /\ counter = 0
  /\ pc = [r \in Runs |-> "idle"] /\ of = [r \in Runs |-> NoBuild]
  /\ tm = [r \in Runs |-> "none"] /\ pending = [r \in Runs |-> {}]
  /\ files = [b \in Builds |-> [p \in Parts |-> NoRun]]
  /\ cached = NoBuild
  /\ found = [g \in Lookups |-> NoBuild] /\ crossed = FALSE
  /\ deleter = "idle" /\ listed = {} /\ overlapped = FALSE
  /\ lapses = 0 /\ breaks = 0 /\ faults = 0 /\ restarts = 0

-----------------------------------------------------------------------------
(* TemplateRequestBuild.  The first request makes the template.             *)

RequestBuild(b) ==
  /\ rows[b] = "none" /\ (template \/ \A c \in Builds : rows[c] = "none")
  /\ rows' = [rows EXCEPT ![b] = "asked"]
  /\ UNCHANGED <<template, finishedAt, clock>>
  /\ UNCHANGED <<build, run, manager, lookups, deletion, overlapped, bounds>>

\* The transaction: the row of the template that it changes first serialises it
\* with others, and is made anew if a deletion came in between.
InsertBuild(b) ==
  /\ rows[b] = "asked"
  /\ template' = TRUE
  /\ rows' = [c \in Builds |-> IF c = b THEN "waiting"
                               ELSE IF rows[c] = "waiting" THEN "failed" ELSE rows[c]]
  /\ UNCHANGED <<finishedAt, clock>>
  /\ UNCHANGED <<build, run, manager, lookups, deletion, overlapped, bounds>>

-----------------------------------------------------------------------------
(* BuildCache.                                                              *)

\* The item expires when nothing touched it for five minutes.
Expire ==
  /\ entry # NoEntry
  /\ entry' = NoEntry
  /\ \/ entry.status # "building" /\ UNCHANGED lapses
     \/ entry.status = "building" /\ MayGoWrong /\ lapses' = lapses + 1
  /\ UNCHANGED <<db, counter, run, manager, lookups, deletion, overlapped>>
  /\ UNCHANGED <<breaks, faults, restarts>>

\* Mutant: SetDone leaves the counter alone.
SetDoneUncounted(r, status) ==
  /\ entry' = IF entry.build = of[r] THEN Item(of[r], status) ELSE entry
  /\ UNCHANGED counter

\* Whoever finds another build's item, or none, changes nothing.  The item is
\* changed after it was read without a lock: had it expired meanwhile, nobody
\* sees it any more.
SetDone(r, status) ==
  \/ /\ entry.build = of[r]
     /\ entry' = Item(of[r], status) /\ counter' = counter - 1
  \/ /\ entry.build # of[r]
     /\ UNCHANGED <<entry, counter>>

-----------------------------------------------------------------------------
(* PostTemplatesTemplateIDBuildsBuildID, the handler.                       *)

\* No status of the build is refused.
StartLookup(r, b) ==
  /\ pc[r] = "idle" /\ template /\ HasRow(b)
  /\ of' = [of EXCEPT ![r] = b] /\ GoTo(r, "create")
  /\ UNCHANGED <<db, build, manager, lookups, deletion, overlapped, bounds>>

Overlaps(r) == \E o \in (Active \cup Working) \ {r} : of[o] = of[r]

\* Mutant: a build in progress is not looked at.
CreateUnchecked(r) ==
  /\ pc[r] = "create"
  /\ entry' = Item(of[r], "building") /\ counter' = counter + 1
  /\ overlapped' = (overlapped \/ Overlaps(r))
  /\ GoTo(r, "setBuilding")
  /\ UNCHANGED <<db, of, manager, lookups, deletion, bounds>>

Create(r) ==
  /\ pc[r] = "create"
  /\ \/ /\ entry.status = "building" /\ GoTo(r, "done")
        /\ UNCHANGED <<build, overlapped>>
     \/ /\ entry.status # "building"
        /\ entry' = Item(of[r], "building") /\ counter' = counter + 1
        /\ overlapped' = (overlapped \/ Overlaps(r))
        /\ GoTo(r, "setBuilding")
  /\ UNCHANGED <<db, of, manager, lookups, deletion, bounds>>

\* An update of a row that was deleted changes nothing, and is no error.  That it
\* sets finished_at too is left out: the column is read of uploaded builds only.
EnvBuildSetStatus(b, s) == rows' = IF HasRow(b) THEN [rows EXCEPT ![b] = s] ELSE rows

DbFault == MayGoWrong /\ faults' = faults + 1

SetBuilding(r) ==
  /\ pc[r] = "setBuilding"
  /\ \/ EnvBuildSetStatus(of[r], "building") /\ GoTo(r, "rpc") /\ UNCHANGED faults
     \/ DbFault /\ GoTo(r, "giveUp") /\ UNCHANGED rows
  /\ UNCHANGED <<template, finishedAt, clock, build, of, manager, lookups, deletion>>
  /\ UNCHANGED <<overlapped, lapses, breaks, restarts>>

\* BuildCache.Delete removes the item of the template, whichever build has it.
GiveUp(r) ==
  /\ pc[r] = "giveUp"
  /\ entry' = NoEntry /\ counter' = counter - 1
  /\ GoTo(r, "done")
  /\ UNCHANGED <<db, of, manager, lookups, deletion, overlapped, bounds>>

-----------------------------------------------------------------------------
(* Its goroutine, and TemplateManager.CreateTemplate.                       *)

TemplateCreate(r) ==
  /\ pc[r] = "rpc"
  /\ \/ Manage(r, "build") /\ GoTo(r, "recv")
     \/ GoTo(r, "failRow") /\ UNCHANGED tm
  /\ UNCHANGED <<db, build, of, pending, files, lookups, deletion, overlapped, bounds>>

\* Mutant: a lost log ends the goroutine.
AppendEndsRun(r) ==
  /\ pc[r] = "recv" /\ entry.build # of[r]
  /\ GoTo(r, "done")
  /\ UNCHANGED <<db, build, of, manager, lookups, deletion, overlapped, bounds>>

\* A log arrives for a build that the cache does not have (any more).
AppendFails(r) ==
  /\ pc[r] = "recv" /\ entry.build # of[r]
  /\ GoTo(r, "failRow")
  /\ UNCHANGED <<db, build, of, manager, lookups, deletion, overlapped, bounds>>

Recv(r) ==
  /\ pc[r] = "recv"
  /\ \/ tm[r] = "ok" /\ GoTo(r, "finish")
     \/ tm[r] = "error" /\ GoTo(r, "failRow")
  /\ UNCHANGED <<db, build, of, manager, lookups, deletion, overlapped, bounds>>

\* The connection is lost; the template manager may not know yet.
StreamBreaks(r) ==
  /\ pc[r] = "recv" /\ MayGoWrong /\ breaks' = breaks + 1
  /\ GoTo(r, "failRow")
  /\ UNCHANGED <<db, build, of, manager, lookups, deletion, overlapped>>
  /\ UNCHANGED <<lapses, faults, restarts>>

FinishEnvBuild(b) ==
  \/ /\ HasRow(b)
     /\ rows' = [rows EXCEPT ![b] = "uploaded"]
     /\ clock' = clock + 1 /\ finishedAt' = [finishedAt EXCEPT ![b] = clock + 1]
  \/ ~HasRow(b) /\ UNCHANGED <<rows, clock, finishedAt>>

Finish(r) ==
  /\ pc[r] = "finish"
  /\ \/ FinishEnvBuild(of[r]) /\ GoTo(r, "ready") /\ UNCHANGED faults
     \/ DbFault /\ GoTo(r, "failRow") /\ UNCHANGED <<rows, clock, finishedAt>>
  /\ UNCHANGED <<template, build, of, manager, lookups, deletion>>
  /\ UNCHANGED <<overlapped, lapses, breaks, restarts>>

\* Mutant: an error of SetDone returns before the template cache is invalidated.
SetReadyReturns(r) ==
  /\ pc[r] = "ready" /\ SetDone(r, "ready")
  /\ GoTo(r, IF entry.build = of[r] THEN "invalidate" ELSE "done")
  /\ UNCHANGED <<db, of, manager, lookups, deletion, overlapped, bounds>>

\* An error of SetDone is only reported.
SetReady(r) ==
  /\ pc[r] = "ready" /\ SetDone(r, "ready")
  /\ GoTo(r, "invalidate")
  /\ UNCHANGED <<db, of, manager, lookups, deletion, overlapped, bounds>>

\* TemplateCache.Invalidate.
Invalidate ==
  /\ cached' = NoBuild
  /\ crossed' = (crossed \/ \E g \in Lookups : found[g] # NoBuild)
  /\ UNCHANGED found

InvalidateTemplate(r) ==
  /\ pc[r] = "invalidate" /\ Invalidate
  /\ GoTo(r, "done")
  /\ UNCHANGED <<db, build, of, manager, deletion, overlapped, bounds>>

\* Mutant: the row gets the status of the API instead of the database's.
FailRowAsError(r) ==
  /\ pc[r] = "failRow"
  /\ EnvBuildSetStatus(of[r], "error") /\ GoTo(r, "failDone")
  /\ UNCHANGED <<template, finishedAt, clock, build, of, manager, lookups, deletion>>
  /\ UNCHANGED <<overlapped, bounds>>

FailRow(r) ==
  /\ pc[r] = "failRow"
  /\ \/ EnvBuildSetStatus(of[r], "failed") /\ UNCHANGED faults
     \/ DbFault /\ UNCHANGED rows
  /\ GoTo(r, "failDone")
  /\ UNCHANGED <<template, finishedAt, clock, build, of, manager, lookups, deletion>>
  /\ UNCHANGED <<overlapped, lapses, breaks, restarts>>

SetError(r) ==
  /\ pc[r] = "failDone" /\ SetDone(r, "error")
  /\ GoTo(r, "done")
  /\ UNCHANGED <<db, of, manager, lookups, deletion, overlapped, bounds>>

-----------------------------------------------------------------------------
(* serverStore.TemplateCreate in the template manager.                      *)

\* Upload begins, and envd's version is asked for meanwhile.
BuildImage(r) ==
  /\ tm[r] = "build"
  /\ \/ Manage(r, "version") /\ pending' = [pending EXCEPT ![r] = Parts]
     \/ Manage(r, "error") /\ UNCHANGED pending
  /\ UNCHANGED <<db, build, run, files, lookups, deletion, overlapped, bounds>>

EnvdVersion(r) ==
  /\ tm[r] = "version"
  /\ Manage(r, "upload") \/ Manage(r, "remove")
  /\ UNCHANGED <<db, build, run, pending, files, lookups, deletion, overlapped, bounds>>

\* The goroutines of Upload run on until the handler returns, which cancels them.
UploadPart(r, p) ==
  /\ tm[r] \in {"version", "upload", "remove", "return"} /\ p \in pending[r]
  /\ pending' = [pending EXCEPT ![r] = @ \ {p}]
  /\ files' = [files EXCEPT ![of[r]][p] = r]
  /\ UNCHANGED <<db, build, run, tm, lookups, deletion, overlapped, bounds>>

\* Mutant: the upload is not waited for.
UploadDoneEarly(r) ==
  /\ tm[r] = "upload"
  /\ Manage(r, "ok")
  /\ UNCHANGED <<db, build, run, pending, files, lookups, deletion, overlapped, bounds>>

\* A failing upload leaves err as it was: the deferred call removes nothing.
UploadDone(r) ==
  /\ tm[r] = "upload"
  /\ \/ pending[r] = {} /\ Manage(r, "ok") /\ UNCHANGED pending
     \/ pending[r] # {} /\ Manage(r, "error") /\ pending' = [pending EXCEPT ![r] = {}]
  /\ UNCHANGED <<db, build, run, files, lookups, deletion, overlapped, bounds>>

RemoveFiles(r) ==
  /\ tm[r] = "remove"
  /\ Manage(r, "return")
  /\ \/ files' = [files EXCEPT ![of[r]] = [p \in Parts |-> NoRun]]
     \/ UNCHANGED files
  /\ UNCHANGED <<db, build, run, pending, lookups, deletion, overlapped, bounds>>

Return(r) ==
  /\ tm[r] = "return"
  /\ Manage(r, "error") /\ pending' = [pending EXCEPT ![r] = {}]
  /\ UNCHANGED <<db, build, run, files, lookups, deletion, overlapped, bounds>>

-----------------------------------------------------------------------------
(* TemplateCache.Get, and DeleteTemplatesTemplateID.                        *)

\* GetEnv: the uploaded build that was finished last.
IsNewest(b) ==
  /\ rows[b] = "uploaded"
  /\ \A c \in Builds : rows[c] = "uploaded" => finishedAt[c] <= finishedAt[b]

\* A hit is answered at once.  The alias cache may lack the name even if the
\* template is cached: then, too, the database is asked.
GetEnv(g) ==
  /\ found[g] = NoBuild
  /\ \E b \in Builds :
       IsNewest(b) /\ found' = [found EXCEPT ![g] = b]
  /\ UNCHANGED <<db, build, run, manager, cached, crossed, deletion, overlapped, bounds>>

Set(g) ==
  /\ found[g] # NoBuild
  /\ cached' = found[g] /\ found' = [found EXCEPT ![g] = NoBuild]
  /\ UNCHANGED <<db, build, run, manager, crossed, deletion, overlapped, bounds>>

TemplateExpires ==
  /\ cached # NoBuild /\ cached' = NoBuild
  /\ UNCHANGED <<db, build, run, manager, found, crossed, deletion, overlapped, bounds>>

DeleteLookup ==
  /\ deleter = "idle" /\ template
  /\ deleter' = "env" /\ listed' = {b \in Builds : HasRow(b)}
  /\ UNCHANGED <<db, build, run, manager, lookups, overlapped, bounds>>

\* The rows of the builds go with the template's.
DeleteEnv ==
  /\ deleter = "env"
  /\ deleter' = "files" /\ template' = FALSE
  /\ rows' = [b \in Builds |-> IF HasRow(b) THEN "deleted" ELSE rows[b]]
  /\ UNCHANGED <<finishedAt, clock, listed>>
  /\ UNCHANGED <<build, run, manager, lookups, overlapped, bounds>>

\* The first build that cannot be deleted ends the loop.
DeleteBuilds ==
  /\ deleter = "files"
  /\ deleter' = "invalidate"
  /\ \E removed \in SUBSET listed :
       files' = [b \in Builds |-> IF b \in removed THEN [p \in Parts |-> NoRun] ELSE files[b]]
  /\ listed' = {}
  /\ UNCHANGED <<db, build, run, tm, pending, lookups, overlapped, bounds>>

DeleteInvalidate ==
  /\ deleter = "invalidate" /\ Invalidate
  /\ deleter' = "done"
  /\ UNCHANGED <<db, build, run, manager, listed, overlapped, bounds>>

-----------------------------------------------------------------------------
\* The API loses its memory; database, bucket and template manager keep theirs.
Restart ==
  /\ MayGoWrong /\ restarts' = restarts + 1
  /\ rows' = [b \in Builds |-> IF rows[b] = "asked" THEN "none" ELSE rows[b]]
  /\ entry' = NoEntry /\ counter' = 0 /\ cached' = NoBuild
  /\ pc' = [r \in Runs |-> IF pc[r] = "idle" THEN "idle" ELSE "done"]
  /\ found' = [g \in Lookups |-> NoBuild]
  /\ deleter' = IF deleter = "idle" THEN "idle" ELSE "done"
  /\ UNCHANGED <<template, finishedAt, clock, of, manager, crossed, listed>>
  /\ UNCHANGED <<overlapped, lapses, breaks, faults>>

Handle(r) ==
  \/ Create(r) \/ SetBuilding(r) \/ GiveUp(r) \/ TemplateCreate(r) \/ AppendFails(r)
  \/ Recv(r) \/ Finish(r) \/ SetReady(r) \/ InvalidateTemplate(r) \/ FailRow(r) \/ SetError(r)

Work(r) ==
  \/ BuildImage(r) \/ EnvdVersion(r) \/ UploadDone(r) \/ RemoveFiles(r) \/ Return(r)
  \/ \E p \in Parts : UploadPart(r, p)

Look(g) == GetEnv(g) \/ Set(g)

Delete == DeleteLookup \/ DeleteEnv \/ DeleteBuilds \/ DeleteInvalidate

Next ==
  \/ \E b \in Builds : RequestBuild(b) \/ InsertBuild(b)
  \/ \E r \in Runs : Handle(r) \/ Work(r) \/ StreamBreaks(r) \/ \E b \in Builds : StartLookup(r, b)
  \/ \E g \in Lookups : Look(g)
  \/ Expire \/ TemplateExpires \/ Delete \/ Restart

Spec == Init /\ [][Next]_vars

-----------------------------------------------------------------------------
RowStatus == {"none", "asked", "waiting", "building", "failed", "uploaded", "deleted"}

TypeOK ==
  /\ template \in BOOLEAN /\ rows \in [Builds -> RowStatus]
  /\ finishedAt \in [Builds -> Nat] /\ clock \in Nat
  /\ entry \in {NoEntry} \cup [build : Builds, status : {"building", "ready", "error"}]
  /\ counter \in Int
  /\ pc \in [Runs -> ActivePC \cup {"idle", "create", "invalidate", "done"}]
  /\ of \in [Runs -> Builds \cup {NoBuild}]
  /\ \A r \in Runs : (of[r] = NoBuild) => (pc[r] = "idle" /\ tm[r] = "none")
  /\ tm \in [Runs -> {"none", "build", "version", "upload", "remove", "return", "ok", "error"}]
  /\ pending \in [Runs -> SUBSET Parts]
  /\ files \in [Builds -> [Parts -> Runs \cup {NoRun}]]
  /\ cached \in Builds \cup {NoBuild}
  /\ found \in [Lookups -> Builds \cup {NoBuild}] /\ crossed \in BOOLEAN
  /\ deleter \in {"idle", "env", "files", "invalidate", "done"} /\ listed \subseteq Builds
  /\ overlapped \in BOOLEAN
  /\ lapses \in Nat /\ breaks \in Nat /\ faults \in Nat /\ restarts \in Nat

(***************************************************************************)
(* "Create creates a new build if it doesn't exist in the cache or the     *)
(* build was already finished": as long as no item expires during a build, *)
(* one run of the template is active at a time, and unless a connection    *)
(* breaks or the API restarts no two ever touch the files of one build.    *)
(* And a start is refused only while a run of the build in the way really  *)
(* is active: nothing blocks a template for good.                          *)
(***************************************************************************)
OneBuildAtATime ==
  /\ lapses = 0 => \A r, o \in Active : r = o
  /\ lapses = 0 /\ breaks = 0 /\ restarts = 0 => ~overlapped
  /\ entry.status = "building" => \E r \in Active : of[r] = entry.build

(***************************************************************************)
(* The counter of builds in progress comes out even, and only builds whose *)
(* item expired are ever left in it: it never falls short.                 *)
(***************************************************************************)
CounterSettles ==
  /\ lapses = 0 => counter = Cardinality(Active)
  /\ counter >= Cardinality(Active)

(***************************************************************************)
(* A build that the database says is uploaded has all its files, and of    *)
(* one run (memory and disk belong together), whatever failed before and   *)
(* whoever restarted it: unless two runs of it overlapped.                 *)
(***************************************************************************)
UploadedIsWhole ==
  ~overlapped =>
    \A b \in Builds : rows[b] = "uploaded" =>
      \E r \in Runs : of[r] = b /\ \A p \in Parts : files[b][p] = r

(***************************************************************************)
(* New sandboxes use the newest build: the template cache holds an older   *)
(* one only until the run that uploaded the newer has invalidated it, and  *)
(* a deleted one only until the deletion has; unless a lookup had queried  *)
(* the database before and sets the cache after.                           *)
(***************************************************************************)
CacheFollowsBuilds ==
  cached # NoBuild /\ ~crossed =>
    /\ \A b \in Builds :
         rows[b] = "uploaded" /\ finishedAt[b] > finishedAt[cached] =>
           \E r \in Runs : of[r] = b /\ pc[r] \in {"ready", "invalidate"}
    /\ rows[cached] = "deleted" => deleter \in {"files", "invalidate"}

(***************************************************************************)
(* A build whose row says "building" has a run that will yet settle it,    *)
(* unless the API restarted or a statement of a run failed.                *)
(***************************************************************************)
BuildingIsSettled ==
  faults = 0 /\ restarts = 0 =>
    \A b \in Builds : rows[b] = "building" =>
      \E r \in Runs : of[r] = b /\ pc[r] \in {"rpc", "recv", "finish", "failRow"}

=============================================================================
