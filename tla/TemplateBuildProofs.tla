------------------------- MODULE TemplateBuildProofs -------------------------
(***************************************************************************)
(* What TemplateBuild promises, proved for any number of builds, runs,     *)
(* lookups and mishaps.                                                    *)
(***************************************************************************)
EXTENDS TemplateBuild, FiniteSetTheorems, TLAPS

USE DEF ActivePC, GoTo, Manage

-----------------------------------------------------------------------------
(* Types.  A run has a build from its first step on.                        *)

LEMMA InitType == Init => TypeOK
<1> SUFFICES ASSUME Init PROVE TypeOK OBVIOUS
<1>1. template \in BOOLEAN /\ crossed \in BOOLEAN /\ overlapped \in BOOLEAN BY DEF Init
<1>2. rows \in [Builds -> RowStatus] BY DEF Init, RowStatus
<1>3. pending \in [Runs -> SUBSET Parts] BY DEF Init
<1> QED BY <1>1, <1>2, <1>3 DEF Init, TypeOK

LEMMA SetDoneType ==
  ASSUME TypeOK, NEW r \in Runs, of[r] # NoBuild,
         NEW status \in {"ready", "error"}, SetDone(r, status)
  PROVE  /\ entry' \in {NoEntry} \cup [build : Builds, status : {"building", "ready", "error"}]
         /\ counter' \in Int
  BY NoneAssumption DEF TypeOK, SetDone, Item

LEMMA SetStatusType ==
  ASSUME TypeOK, NEW b, NEW s \in {"building", "failed"}, EnvBuildSetStatus(b, s)
  PROVE  rows' \in [Builds -> RowStatus]
  BY DEF TypeOK, EnvBuildSetStatus, RowStatus

LEMMA HandleType ==
  ASSUME TypeOK, NEW r \in Runs, Handle(r)
  PROVE  TypeOK'
<1> USE NoneAssumption DEF TypeOK, RowStatus, db, build, run, manager, lookups, deletion, bounds
<1>1. CASE Create(r)
  <2>1. overlapped' \in BOOLEAN BY <1>1 DEF Create
  <2>2. entry' \in {NoEntry} \cup [build : Builds, status : {"building", "ready", "error"}]
    BY <1>1 DEF Create, Item
  <2>3. pc' \in [Runs -> ActivePC \cup {"idle", "create", "invalidate", "done"}]
    BY <1>1 DEF Create
  <2> QED BY <1>1, <2>1, <2>2, <2>3 DEF Create
<1>2. CASE SetBuilding(r)
  <2>1. rows' \in [Builds -> RowStatus] BY <1>2, SetStatusType DEF SetBuilding
  <2> QED BY <1>2, <2>1 DEF SetBuilding, DbFault
<1>3. CASE GiveUp(r) BY <1>3 DEF GiveUp
<1>4. CASE TemplateCreate(r)
  <2>1. /\ pc' \in [Runs -> ActivePC \cup {"idle", "create", "invalidate", "done"}]
        /\ tm' \in [Runs -> {"none", "build", "version", "upload", "remove", "return", "ok", "error"}]
    BY <1>4 DEF TemplateCreate, GoTo, Manage, ActivePC
  <2>2. \A o \in Runs : (of[o] = NoBuild) => (pc'[o] = "idle" /\ tm'[o] = "none")
    BY <1>4 DEF TemplateCreate, GoTo, Manage
  <2>3. UNCHANGED <<db, build, of, pending, files, lookups, deletion, overlapped, bounds>>
    BY <1>4 DEF TemplateCreate
  <2> QED BY <2>1, <2>2, <2>3
<1>5. CASE AppendFails(r) BY <1>5 DEF AppendFails
<1>6. CASE Recv(r) BY <1>6 DEF Recv
<1>7. CASE Finish(r)
  <2>1. of[r] \in Builds BY <1>7 DEF Finish
  <2>2. /\ rows' \in [Builds -> RowStatus]
        /\ finishedAt' \in [Builds -> Nat] /\ clock' \in Nat
    <3>1. CASE FinishEnvBuild(of[r])
      <4>1. CASE HasRow(of[r]) BY <2>1, <3>1, <4>1 DEF FinishEnvBuild
      <4>2. CASE ~HasRow(of[r]) BY <3>1, <4>2 DEF FinishEnvBuild
      <4> QED BY <4>1, <4>2
    <3>2. CASE UNCHANGED <<rows, clock, finishedAt>> BY <3>2
    <3> QED BY <1>7, <3>1, <3>2 DEF Finish
  <2> QED BY <1>7, <2>2 DEF Finish, DbFault
<1>8. CASE SetReady(r)
  <2>1. of[r] # NoBuild BY <1>8 DEF SetReady
  <2> QED BY <1>8, <2>1, SetDoneType DEF SetReady
<1>9. CASE InvalidateTemplate(r) BY <1>9 DEF InvalidateTemplate, Invalidate
<1>10. CASE FailRow(r)
  <2>1. rows' \in [Builds -> RowStatus] BY <1>10, SetStatusType DEF FailRow
  <2> QED BY <1>10, <2>1 DEF FailRow, DbFault
<1>11. CASE SetError(r)
  <2>1. of[r] # NoBuild BY <1>11 DEF SetError
  <2> QED BY <1>11, <2>1, SetDoneType DEF SetError
<1> QED
  BY <1>1, <1>2, <1>3, <1>4, <1>5, <1>6, <1>7, <1>8, <1>9, <1>10, <1>11 DEF Handle

LEMMA WorkType ==
  ASSUME TypeOK, NEW r \in Runs, Work(r)
  PROVE  TypeOK'
<1> USE DEF TypeOK, db, build, run, manager, lookups, deletion, bounds
<1>1. CASE BuildImage(r)
  <2>1. pending' \in [Runs -> SUBSET Parts] BY <1>1 DEF BuildImage
  <2> QED BY <1>1, <2>1 DEF BuildImage
<1>2. CASE EnvdVersion(r) BY <1>2 DEF EnvdVersion
<1>3. CASE UploadDone(r)
  <2>1. /\ tm' \in [Runs -> {"none", "build", "version", "upload", "remove", "return", "ok", "error"}]
        /\ pending' \in [Runs -> SUBSET Parts]
    BY <1>3 DEF UploadDone, Manage
  <2>2. \A o \in Runs : (of[o] = NoBuild) => tm'[o] = "none"
    BY <1>3 DEF UploadDone, Manage
  <2>3. UNCHANGED <<db, build, run, files, lookups, deletion, overlapped, bounds>>
    BY <1>3 DEF UploadDone
  <2> QED BY <2>1, <2>2, <2>3
<1>4. CASE RemoveFiles(r) BY <1>4 DEF RemoveFiles
<1>5. CASE Return(r) BY <1>5 DEF Return
<1>6. ASSUME NEW p \in Parts, UploadPart(r, p) PROVE TypeOK' BY <1>6 DEF UploadPart
<1> QED BY <1>1, <1>2, <1>3, <1>4, <1>5, <1>6 DEF Work

LEMMA TypeStep == TypeOK /\ [Next]_vars => TypeOK'
<1> SUFFICES ASSUME TypeOK, [Next]_vars PROVE TypeOK' OBVIOUS
<1> USE DEF TypeOK, RowStatus, db, build, run, manager, lookups, deletion, bounds
<1>1. ASSUME NEW b \in Builds, RequestBuild(b) \/ InsertBuild(b) PROVE TypeOK'
  <2>1. CASE RequestBuild(b) BY <2>1 DEF RequestBuild
  <2>2. CASE InsertBuild(b)
    <3>1. template' \in BOOLEAN BY <2>2 DEF InsertBuild
    <3>2. rows' \in [Builds -> RowStatus] BY <2>2 DEF InsertBuild
    <3> QED BY <2>2, <3>1, <3>2 DEF InsertBuild
  <2> QED BY <1>1, <2>1, <2>2
<1>2. ASSUME NEW r \in Runs, Handle(r) PROVE TypeOK' BY ONLY TypeOK, <1>2, HandleType
<1>3. ASSUME NEW r \in Runs, Work(r) PROVE TypeOK' BY ONLY TypeOK, <1>3, WorkType
<1>4. ASSUME NEW r \in Runs, StreamBreaks(r) PROVE TypeOK' BY <1>4 DEF StreamBreaks
<1>5. ASSUME NEW r \in Runs, NEW b \in Builds, StartLookup(r, b) PROVE TypeOK'
  BY <1>5, NoneAssumption DEF StartLookup
<1>6. ASSUME NEW g \in Lookups, Look(g) PROVE TypeOK' BY <1>6 DEF Look, GetEnv, Set
<1>7. CASE Expire BY <1>7 DEF Expire
<1>8. CASE TemplateExpires BY <1>8 DEF TemplateExpires
<1>9. CASE Delete
  <2>1. CASE DeleteLookup BY <2>1 DEF DeleteLookup
  <2>2. CASE DeleteEnv
    <3>1. template' \in BOOLEAN BY <2>2 DEF DeleteEnv
    <3>2. rows' \in [Builds -> RowStatus] BY <2>2 DEF DeleteEnv
    <3> QED BY <2>2, <3>1, <3>2 DEF DeleteEnv
  <2>3. CASE DeleteBuilds BY <2>3 DEF DeleteBuilds
  <2>4. CASE DeleteInvalidate
    <3>1. crossed' \in BOOLEAN BY <2>4 DEF DeleteInvalidate, Invalidate
    <3> QED BY <2>4, <3>1 DEF DeleteInvalidate, Invalidate
  <2> QED BY <1>9, <2>1, <2>2, <2>3, <2>4 DEF Delete
<1>10. CASE Restart BY <1>10 DEF Restart
<1>11. CASE UNCHANGED vars BY <1>11 DEF vars
<1> QED
  BY <1>1, <1>2, <1>3, <1>4, <1>5, <1>6, <1>7, <1>8, <1>9, <1>10, <1>11 DEF Next

\* TypeOK: every variable keeps its type, whatever builds, fails and restarts.
THEOREM TypeCorrect == Spec => []TypeOK
  BY InitType, TypeStep, PTL DEF Spec

-----------------------------------------------------------------------------
(* One build at a time.  Few actions concern the item or who is active.     *)

Quiet == UNCHANGED <<entry, counter, of, overlapped, lapses>> /\ Active' = Active

LEMMA HandleQuiet ==
  ASSUME TypeOK, NEW r \in Runs, Handle(r)
  PROVE  Quiet \/ Create(r) \/ GiveUp(r) \/ SetReady(r) \/ SetError(r)
<1> USE DEF Quiet, Active, TypeOK, build, run, bounds
<1>1. CASE SetBuilding(r) BY <1>1 DEF SetBuilding
<1>2. CASE TemplateCreate(r) BY <1>2 DEF TemplateCreate
<1>3. CASE AppendFails(r) BY <1>3 DEF AppendFails
<1>4. CASE Recv(r) BY <1>4 DEF Recv
<1>5. CASE Finish(r) BY <1>5 DEF Finish
<1>6. CASE InvalidateTemplate(r) BY <1>6 DEF InvalidateTemplate
<1>7. CASE FailRow(r) BY <1>7 DEF FailRow
<1> QED BY ONLY Handle(r), <1>1, <1>2, <1>3, <1>4, <1>5, <1>6, <1>7 DEF Handle

LEMMA WorkKeeps ==
  ASSUME NEW r \in Runs, Work(r)
  PROVE  UNCHANGED <<db, build, run, lookups, deletion, overlapped, bounds>>
  BY DEF Work, BuildImage, EnvdVersion, UploadDone, RemoveFiles, Return, UploadPart

\* The actions that are not quiet.
Loud ==
  \/ \E r \in Runs : Create(r) \/ GiveUp(r) \/ SetReady(r) \/ SetError(r)
  \/ \E r \in Runs, b \in Builds : StartLookup(r, b)
  \/ Expire \/ Restart

LEMMA QuietOrLoud ==
  ASSUME TypeOK, [Next]_vars
  PROVE  Quiet \/ Loud
<1> USE DEF Quiet
<1>1. ASSUME NEW b \in Builds, RequestBuild(b) \/ InsertBuild(b) PROVE Quiet
  BY <1>1 DEF RequestBuild, InsertBuild, build, run, bounds, Active
<1>2. ASSUME NEW r \in Runs, Handle(r) PROVE Quiet \/ Loud
  BY ONLY TypeOK, <1>2, HandleQuiet DEF Loud
<1>3. ASSUME NEW r \in Runs, Work(r) PROVE Quiet
  BY <1>3, WorkKeeps DEF build, run, bounds, Active
<1>4. ASSUME NEW r \in Runs, StreamBreaks(r) PROVE Quiet
  BY <1>4 DEF StreamBreaks, build, run, Active, TypeOK
<1>5. ASSUME NEW g \in Lookups, Look(g) PROVE Quiet
  BY <1>5 DEF Look, GetEnv, Set, build, run, bounds, Active
<1>6. CASE TemplateExpires BY <1>6 DEF TemplateExpires, build, run, bounds, Active
<1>7. CASE Delete
  BY <1>7 DEF Delete, DeleteLookup, DeleteEnv, DeleteBuilds, DeleteInvalidate, build, run, bounds, Active
<1>8. CASE UNCHANGED vars BY <1>8 DEF vars, build, run, bounds, Active
<1> QED BY <1>1, <1>2, <1>3, <1>4, <1>5, <1>6, <1>7, <1>8 DEF Next, Loud

\* What the loud actions do to the set of active runs.
LEMMA CreateStep ==
  ASSUME TypeOK, NEW r \in Runs, Create(r)
  PROVE  /\ UNCHANGED <<of, bounds, manager>> /\ r \notin Active
         /\ \/ UNCHANGED <<entry, counter, overlapped>> /\ Active' = Active
            \/ /\ entry.status # "building" /\ entry' = Item(of[r], "building")
               /\ counter' = counter + 1 /\ Active' = Active \cup {r}
               /\ overlapped' = (overlapped \/ Overlaps(r))
  BY DEF Create, Active, TypeOK, build

LEMMA LeaveStep ==
  ASSUME TypeOK, NEW r \in Runs, GiveUp(r) \/ SetReady(r) \/ SetError(r)
  PROVE  /\ UNCHANGED <<of, overlapped, bounds, manager>>
         /\ r \in Active /\ Active' = Active \ {r}
         /\ \/ entry' = NoEntry /\ counter' = counter - 1
            \/ /\ entry.build = of[r] /\ counter' = counter - 1
               /\ entry'.status # "building"
            \/ entry.build # of[r] /\ UNCHANGED <<entry, counter>>
<1>1. CASE GiveUp(r) BY <1>1 DEF GiveUp, Active, TypeOK
<1>2. CASE SetReady(r) BY <1>2 DEF SetReady, SetDone, Item, Active, TypeOK
<1>3. CASE SetError(r) BY <1>3 DEF SetError, SetDone, Item, Active, TypeOK
<1> QED BY <1>1, <1>2, <1>3

LEMMA StartStep ==
  ASSUME TypeOK, NEW r \in Runs, NEW b \in Builds, StartLookup(r, b)
  PROVE  /\ UNCHANGED <<entry, counter, overlapped, bounds, manager>>
         /\ r \notin Active /\ Active' = Active
         /\ \A o \in Runs : o # r => of'[o] = of[o] /\ pc'[o] = pc[o]
  BY DEF StartLookup, Active, TypeOK, build

LEMMA RestartStep ==
  ASSUME Restart
  PROVE  /\ Active' = {} /\ entry' = NoEntry /\ counter' = 0
         /\ UNCHANGED <<of, overlapped, lapses, tm>> /\ restarts' = restarts + 1
  BY DEF Restart, Active, manager

BuildInv ==
  /\ lapses = 0 => \A r \in Active : entry = Item(of[r], "building")
  /\ lapses = 0 => \A r, o \in Active : r = o
  /\ entry.status = "building" => \E r \in Active : of[r] = entry.build

LEMMA BuildStep == TypeOK /\ BuildInv /\ [Next]_vars => BuildInv'
<1> SUFFICES ASSUME TypeOK, BuildInv, [Next]_vars PROVE BuildInv' OBVIOUS
<1>0. Active \subseteq Runs BY DEF Active
<1>1. CASE Quiet BY <1>1 DEF BuildInv, Quiet
<1>2. ASSUME NEW r \in Runs, Create(r) PROVE BuildInv'
  <2>1. CASE UNCHANGED <<entry, counter, overlapped>> /\ Active' = Active
    BY <1>2, <2>1, CreateStep DEF BuildInv, bounds
  <2>2. CASE entry.status # "building" /\ Active' = Active \cup {r}
             /\ entry' = Item(of[r], "building")
    <3>1. lapses = 0 => Active = {} BY <2>2 DEF BuildInv, Item
    <3> QED BY <1>0, <1>2, <2>2, <3>1, CreateStep DEF BuildInv, Item, bounds
  <2> QED BY <1>2, <2>1, <2>2, CreateStep
<1>3. ASSUME NEW r \in Runs, GiveUp(r) \/ SetReady(r) \/ SetError(r) PROVE BuildInv'
  <2>1. /\ UNCHANGED <<of, lapses>> /\ r \in Active /\ Active' = Active \ {r}
        /\ \/ entry'.status # "building"
           \/ entry.build # of[r] /\ entry' = entry
    BY <1>3, LeaveStep DEF NoEntry, bounds
  <2> QED BY <2>1 DEF BuildInv
<1>4. ASSUME NEW r \in Runs, NEW b \in Builds, StartLookup(r, b) PROVE BuildInv'
  <2>1. \A o \in Active : of'[o] = of[o] BY <1>0, <1>4, StartStep
  <2> QED BY <1>4, <2>1, StartStep DEF BuildInv, bounds
<1>5. CASE Expire
  <2>1. Active' = Active /\ of' = of /\ entry' = NoEntry BY <1>5 DEF Expire, Active, run
  <2>2. CASE entry.status = "building"
    <3>1. lapses' # 0 BY <1>5, <2>2 DEF Expire, TypeOK
    <3> QED BY <2>1, <3>1 DEF BuildInv, NoEntry
  <2>3. CASE entry.status # "building"
    <3>1. lapses = 0 => Active = {} BY <2>3 DEF BuildInv, Item
    <3>2. lapses' = lapses BY <1>5, <2>3 DEF Expire
    <3> QED BY <2>1, <3>1, <3>2 DEF BuildInv, NoEntry
  <2> QED BY <2>2, <2>3
<1>6. CASE Restart BY <1>6, RestartStep DEF BuildInv, NoEntry
<1> QED BY <1>1, <1>2, <1>3, <1>4, <1>5, <1>6, QuietOrLoud DEF Loud

-----------------------------------------------------------------------------
(* Unless something goes wrong, the template manager works only for a run   *)
(* that listens to it.                                                      *)

CallInv ==
  \A r \in Runs : pc[r] \in {"idle", "create", "setBuilding", "giveUp", "rpc"} => tm[r] = "none"

ListenInv ==
  lapses = 0 /\ breaks = 0 /\ restarts = 0 =>
    ~overlapped /\ \A r \in Working : pc[r] = "recv"

OverlapInv == CallInv /\ ListenInv

LEMMA HandleOverlap ==
  ASSUME TypeOK, BuildInv, OverlapInv, NEW r \in Runs, Handle(r)
  PROVE  OverlapInv'
<1> USE DEF OverlapInv, CallInv, ListenInv, Working, TypeOK, manager, bounds
<1>1. CASE Create(r)
  <2>1. UNCHANGED <<lapses, breaks, restarts, tm>> /\ pc[r] = "create"
        /\ \A o \in Runs : o # r => pc'[o] = pc[o]
    BY <1>1 DEF Create
  <2>2. tm[r] = "none" BY <2>1
  <2>3. CallInv' BY <1>1, <2>1, <2>2 DEF Create
  <2>4. lapses = 0 /\ breaks = 0 /\ restarts = 0 => ~overlapped'
    <3>1. CASE UNCHANGED overlapped BY <3>1
    <3>2. CASE entry.status # "building" /\ overlapped' = (overlapped \/ Overlaps(r))
      <4> SUFFICES ASSUME lapses = 0, breaks = 0, restarts = 0 PROVE ~overlapped' OBVIOUS
      <4>1. Active = {} BY <3>2 DEF BuildInv, Item
      <4>2. Working = {} BY <4>1 DEF Active
      <4>3. ~Overlaps(r) BY <4>1, <4>2 DEF Overlaps
      <4> QED BY <3>2, <4>3
    <3> QED BY <1>1, <3>1, <3>2, CreateStep
  <2> QED BY <2>1, <2>2, <2>3, <2>4
<1>2. CASE SetBuilding(r) BY <1>2 DEF SetBuilding
<1>3. CASE GiveUp(r) BY <1>3 DEF GiveUp
<1>4. CASE TemplateCreate(r) BY <1>4 DEF TemplateCreate
<1>5. CASE AppendFails(r)
  <2>1. lapses # 0 BY <1>5 DEF AppendFails, BuildInv, Active, Item
  <2> QED BY <1>5, <2>1 DEF AppendFails
<1>6. CASE Recv(r) BY <1>6 DEF Recv
<1>7. CASE Finish(r) BY <1>7 DEF Finish
<1>8. CASE SetReady(r) BY <1>8 DEF SetReady
<1>9. CASE InvalidateTemplate(r) BY <1>9 DEF InvalidateTemplate
<1>10. CASE FailRow(r) BY <1>10 DEF FailRow
<1>11. CASE SetError(r) BY <1>11 DEF SetError
<1> QED
  BY ONLY Handle(r), <1>1, <1>2, <1>3, <1>4, <1>5, <1>6, <1>7, <1>8, <1>9, <1>10, <1>11 DEF Handle

LEMMA WorkOverlap ==
  ASSUME TypeOK, OverlapInv, NEW r \in Runs, Work(r)
  PROVE  OverlapInv'
<1>1. UNCHANGED <<pc, overlapped, lapses, breaks, restarts>> BY WorkKeeps DEF run, bounds
<1>2. r \in Working /\ \A o \in Runs : o # r => tm'[o] = tm[o]
  BY DEF Work, BuildImage, EnvdVersion, UploadDone, RemoveFiles, Return, UploadPart, Working, TypeOK
<1>3. pc[r] \notin {"idle", "create", "setBuilding", "giveUp", "rpc"}
  BY <1>2 DEF OverlapInv, CallInv, Working
<1> QED BY <1>1, <1>2, <1>3 DEF OverlapInv, CallInv, ListenInv, Working

LEMMA OverlapStep == TypeOK /\ BuildInv /\ OverlapInv /\ [Next]_vars => OverlapInv'
<1> SUFFICES ASSUME TypeOK, BuildInv, OverlapInv, [Next]_vars PROVE OverlapInv' OBVIOUS
<1> USE DEF OverlapInv, CallInv, ListenInv, Working
<1>0. ASSUME UNCHANGED <<pc, tm, overlapped, lapses, breaks, restarts>> PROVE OverlapInv'
  BY <1>0
<1>1. ASSUME NEW b \in Builds, RequestBuild(b) \/ InsertBuild(b) PROVE OverlapInv'
  BY <1>0, <1>1 DEF RequestBuild, InsertBuild, run, manager, bounds
<1>2. ASSUME NEW r \in Runs, Handle(r) PROVE OverlapInv'
  BY ONLY TypeOK, BuildInv, OverlapInv, <1>2, HandleOverlap
<1>3. ASSUME NEW r \in Runs, Work(r) PROVE OverlapInv'
  BY ONLY TypeOK, OverlapInv, <1>3, WorkOverlap
<1>4. ASSUME NEW r \in Runs, StreamBreaks(r) PROVE OverlapInv'
  BY <1>4 DEF StreamBreaks, manager, TypeOK
<1>5. ASSUME NEW r \in Runs, NEW b \in Builds, StartLookup(r, b) PROVE OverlapInv'
  BY <1>5 DEF StartLookup, manager, bounds, TypeOK
<1>6. ASSUME NEW g \in Lookups, Look(g) PROVE OverlapInv'
  BY <1>0, <1>6 DEF Look, GetEnv, Set, run, manager, bounds
<1>7. CASE Expire BY <1>7 DEF Expire, run, manager, TypeOK
<1>8. CASE TemplateExpires BY <1>0, <1>8 DEF TemplateExpires, run, manager, bounds
<1>9. CASE Delete
  BY <1>0, <1>9 DEF Delete, DeleteLookup, DeleteEnv, DeleteBuilds, DeleteInvalidate, run, manager, bounds
<1>10. CASE Restart BY <1>10 DEF Restart, manager, TypeOK
<1>11. CASE UNCHANGED vars BY <1>0, <1>11 DEF vars, run, manager, bounds
<1> QED
  BY <1>1, <1>2, <1>3, <1>4, <1>5, <1>6, <1>7, <1>8, <1>9, <1>10, <1>11 DEF Next

-----------------------------------------------------------------------------
(* The counter.                                                             *)

CountInv ==
  /\ lapses = 0 => counter = Cardinality(Active)
  /\ counter >= Cardinality(Active)

LEMMA ActiveFinite == IsFiniteSet(Active)
  BY RunsAssumption, FS_Subset DEF Active

LEMMA CountStep == TypeOK /\ BuildInv /\ CountInv /\ [Next]_vars => CountInv'
<1> SUFFICES ASSUME TypeOK, BuildInv, CountInv, [Next]_vars PROVE CountInv' OBVIOUS
<1>0. /\ IsFiniteSet(Active) /\ Cardinality(Active) \in Nat
      /\ counter \in Int /\ lapses \in Nat
  BY ActiveFinite, FS_CardinalityType DEF TypeOK
<1>1. CASE Quiet BY <1>1 DEF CountInv, Quiet
<1>2. ASSUME NEW r \in Runs, Create(r) PROVE CountInv'
  <2>1. CASE UNCHANGED <<entry, counter, overlapped>> /\ Active' = Active
    BY <1>2, <2>1, CreateStep DEF CountInv, bounds
  <2>2. CASE counter' = counter + 1 /\ Active' = Active \cup {r}
    <3>1. Cardinality(Active \cup {r}) = Cardinality(Active) + 1
      BY <1>0, <1>2, CreateStep, FS_AddElement
    <3> QED BY <1>0, <1>2, <2>2, <3>1, CreateStep DEF CountInv, bounds
  <2> QED BY <1>2, <2>1, <2>2, CreateStep
<1>3. ASSUME NEW r \in Runs, GiveUp(r) \/ SetReady(r) \/ SetError(r) PROVE CountInv'
  <2>1. Cardinality(Active') = Cardinality(Active) - 1 /\ lapses' = lapses
    BY <1>0, <1>3, LeaveStep, FS_RemoveElement DEF bounds
  <2>2. CASE counter' = counter - 1 BY <1>0, <2>1, <2>2 DEF CountInv
  <2>3. CASE entry.build # of[r] /\ counter' = counter
    <3>1. lapses # 0 BY <1>3, <2>3, LeaveStep DEF BuildInv, Item
    <3> QED BY <1>0, <2>1, <2>3, <3>1 DEF CountInv
  <2> QED BY <1>3, <2>2, <2>3, LeaveStep
<1>4. ASSUME NEW r \in Runs, NEW b \in Builds, StartLookup(r, b) PROVE CountInv'
  BY <1>4, StartStep DEF CountInv, bounds
<1>5. CASE Expire
  <2>1. Active' = Active /\ counter' = counter /\ lapses' \in {lapses, lapses + 1}
    BY <1>5 DEF Expire, Active, run
  <2> QED BY <1>0, <2>1 DEF CountInv
<1>6. CASE Restart
  <2>1. Cardinality(Active') = 0 BY <1>6, RestartStep, FS_EmptySet
  <2> QED BY <1>6, <2>1, RestartStep DEF CountInv
<1> QED BY <1>1, <1>2, <1>3, <1>4, <1>5, <1>6, QuietOrLoud DEF Loud

IInv == TypeOK /\ BuildInv /\ OverlapInv /\ CountInv

LEMMA InitInv == Init => IInv
<1> SUFFICES ASSUME Init PROVE IInv OBVIOUS
<1>1. Active = {} BY DEF Init, Active
<1>2. Working = {} BY DEF Init, Working
<1>3. CountInv BY <1>1, FS_EmptySet DEF Init, CountInv
<1>4. BuildInv BY <1>1 DEF Init, BuildInv, NoEntry
<1>5. OverlapInv BY <1>2 DEF Init, OverlapInv, CallInv, ListenInv
<1> QED BY <1>3, <1>4, <1>5, InitType DEF IInv

LEMMA InvStep == IInv /\ [Next]_vars => IInv'
  BY TypeStep, BuildStep, OverlapStep, CountStep DEF IInv

LEMMA Invariance == Spec => []IInv
  BY InitInv, InvStep, PTL DEF Spec

\* OneBuildAtATime: Create lets no second run in, and refuses only for a run that is active.
THEOREM OneAtATime == Spec => []OneBuildAtATime
<1>1. IInv => OneBuildAtATime
  BY DEF IInv, BuildInv, OverlapInv, ListenInv, OneBuildAtATime
<1> QED BY <1>1, Invariance, PTL

\* CounterSettles: the counter of builds in progress is theirs, and never less.
THEOREM CounterIsRight == Spec => []CounterSettles
<1>1. IInv => CounterSettles BY DEF IInv, CountInv, CounterSettles
<1> QED BY <1>1, Invariance, PTL

-----------------------------------------------------------------------------
(* The rows.  Only an insert makes one, only Finish says "uploaded".        *)

Was(b) == HasRow(b) \/ rows[b] = "deleted"

RowMoves(b) ==
  /\ Was(b) => Was(b)'
  /\ rows[b] = "deleted" => rows'[b] = "deleted"
  /\ HasRow(b)' => HasRow(b) \/ rows[b] = "asked"
  /\ rows'[b] = "uploaded" => rows[b] = "uploaded" \/ \E r \in Runs : Finish(r) /\ of[r] = b

LEMMA HandleRows ==
  ASSUME TypeOK, NEW r \in Runs, Handle(r), NEW b \in Builds
  PROVE  RowMoves(b)
<1> USE DEF RowMoves, Was, HasRow
<1>0. ASSUME UNCHANGED rows PROVE RowMoves(b) BY <1>0
<1>1. CASE SetBuilding(r) BY <1>1 DEF SetBuilding, EnvBuildSetStatus, TypeOK
<1>2. CASE Finish(r) BY <1>2 DEF Finish, FinishEnvBuild, TypeOK
<1>3. CASE FailRow(r) BY <1>3 DEF FailRow, EnvBuildSetStatus, TypeOK
<1>4. CASE ~(SetBuilding(r) \/ Finish(r) \/ FailRow(r))
  BY <1>0, <1>4 DEF Handle, Create, GiveUp, TemplateCreate, AppendFails, Recv, SetReady,
     InvalidateTemplate, SetError, db
<1> QED BY <1>1, <1>2, <1>3, <1>4

LEMMA RowsStep ==
  ASSUME TypeOK, [Next]_vars, NEW b \in Builds
  PROVE  RowMoves(b)
<1>0. ASSUME UNCHANGED rows PROVE RowMoves(b) BY <1>0 DEF RowMoves, Was, HasRow
<1>1. ASSUME NEW c \in Builds, RequestBuild(c) PROVE RowMoves(b)
  BY <1>1 DEF RequestBuild, RowMoves, Was, HasRow, TypeOK
<1>2. ASSUME NEW c \in Builds, InsertBuild(c) PROVE RowMoves(b)
  BY <1>2 DEF InsertBuild, RowMoves, Was, HasRow, TypeOK
<1>3. ASSUME NEW r \in Runs, Handle(r) PROVE RowMoves(b) BY ONLY TypeOK, <1>3, HandleRows
<1>4. ASSUME NEW r \in Runs, Work(r) PROVE RowMoves(b) BY <1>0, <1>4, WorkKeeps DEF db
<1>5. ASSUME NEW r \in Runs, StreamBreaks(r) PROVE RowMoves(b) BY <1>0, <1>5 DEF StreamBreaks, db
<1>6. ASSUME NEW r \in Runs, NEW c \in Builds, StartLookup(r, c) PROVE RowMoves(b)
  BY <1>0, <1>6 DEF StartLookup, db
<1>7. ASSUME NEW g \in Lookups, Look(g) PROVE RowMoves(b)
  BY <1>0, <1>7 DEF Look, GetEnv, Set, db
<1>8. CASE Expire BY <1>0, <1>8 DEF Expire, db
<1>9. CASE TemplateExpires BY <1>0, <1>9 DEF TemplateExpires, db
<1>10. CASE DeleteEnv BY <1>10 DEF DeleteEnv, RowMoves, Was, HasRow, TypeOK
<1>11. CASE DeleteLookup \/ DeleteBuilds \/ DeleteInvalidate
  BY <1>0, <1>11 DEF DeleteLookup, DeleteBuilds, DeleteInvalidate, db
<1>12. CASE Restart BY <1>12 DEF Restart, RowMoves, Was, HasRow, TypeOK
<1>13. CASE UNCHANGED vars BY <1>0, <1>13 DEF vars, db
<1> QED
  BY <1>1, <1>2, <1>3, <1>4, <1>5, <1>6, <1>7, <1>8, <1>9, <1>10, <1>11, <1>12, <1>13
  DEF Next, Delete

-----------------------------------------------------------------------------
(* A run's build has, or had, a row; what a deletion works on is deleted.   *)

KnownInv ==
  /\ \A r \in Runs : pc[r] = "idle" => of[r] = NoBuild
  /\ \A r \in Runs, b \in Builds : of[r] = b => Was(b)

ListedInv ==
  /\ deleter = "env" => \A b \in listed : Was(b)
  /\ deleter = "files" => \A b \in listed : rows[b] = "deleted"

\* No step but a StartLookup and a Restart changes of or leads to "idle".
LEMMA OfKept ==
  ASSUME TypeOK, [Next]_vars,
         ~ \E r \in Runs, b \in Builds : StartLookup(r, b)
  PROVE  of' = of /\ \A r \in Runs : pc'[r] = "idle" => pc[r] = "idle"
<1> USE DEF run, TypeOK
<1>1. ASSUME NEW b \in Builds, RequestBuild(b) \/ InsertBuild(b)
      PROVE  UNCHANGED run
  BY <1>1 DEF RequestBuild, InsertBuild
<1>2. ASSUME NEW r \in Runs, Handle(r)
      PROVE  of' = of /\ \A o \in Runs : pc'[o] = "idle" => pc[o] = "idle"
  BY <1>2 DEF Handle, Create, SetBuilding, GiveUp, TemplateCreate, AppendFails, Recv, Finish,
     SetReady, InvalidateTemplate, FailRow, SetError
<1>3. ASSUME NEW r \in Runs, Work(r) PROVE UNCHANGED run BY <1>3, WorkKeeps
<1>4. ASSUME NEW r \in Runs, StreamBreaks(r)
      PROVE  of' = of /\ \A o \in Runs : pc'[o] = "idle" => pc[o] = "idle"
  BY <1>4 DEF StreamBreaks
<1>5. ASSUME NEW g \in Lookups, Look(g) PROVE UNCHANGED run BY <1>5 DEF Look, GetEnv, Set
<1>6. CASE Expire \/ TemplateExpires \/ Delete \/ UNCHANGED vars
  <2>1. UNCHANGED run
    BY <1>6 DEF Expire, TemplateExpires, Delete, DeleteLookup, DeleteEnv, DeleteBuilds,
       DeleteInvalidate, vars
  <2> QED BY <2>1
<1>7. CASE Restart BY <1>7 DEF Restart
<1> QED BY <1>1, <1>2, <1>3, <1>4, <1>5, <1>6, <1>7 DEF Next

LEMMA KnownStep == TypeOK /\ KnownInv /\ [Next]_vars => KnownInv'
<1> SUFFICES ASSUME TypeOK, KnownInv, [Next]_vars PROVE KnownInv' OBVIOUS
<1>1. \A b \in Builds : Was(b) => Was(b)' BY RowsStep DEF RowMoves
<1>2. ASSUME NEW r \in Runs, NEW b \in Builds, StartLookup(r, b) PROVE KnownInv'
  <2>1. Was(b)' BY <1>1, <1>2 DEF StartLookup, Was
  <2>2. of' = [of EXCEPT ![r] = b] /\ pc' = [pc EXCEPT ![r] = "create"]
    BY <1>2 DEF StartLookup
  <2>3. \A o \in Runs, c \in Builds : of'[o] = c => Was(c)'
    BY <1>1, <2>1, <2>2 DEF KnownInv, TypeOK
  <2> QED BY <2>2, <2>3 DEF KnownInv, TypeOK
<1>3. CASE ~ \E r \in Runs, b \in Builds : StartLookup(r, b)
  BY <1>1, <1>3, OfKept DEF KnownInv
<1> QED BY <1>2, <1>3

LEMMA ListedStep == TypeOK /\ ListedInv /\ [Next]_vars => ListedInv'
<1> SUFFICES ASSUME TypeOK, ListedInv, [Next]_vars PROVE ListedInv' OBVIOUS
<1>0. listed \subseteq Builds BY DEF TypeOK
<1>1. \A b \in Builds : (Was(b) => Was(b)') /\ (rows[b] = "deleted" => rows'[b] = "deleted")
  BY RowsStep DEF RowMoves
<1>2. CASE UNCHANGED deletion BY <1>0, <1>1, <1>2 DEF ListedInv, deletion
<1>3. CASE Delete
  <2>1. CASE DeleteLookup BY <2>1 DEF DeleteLookup, ListedInv, Was, HasRow, db
  <2>2. CASE DeleteEnv BY <1>0, <2>2 DEF DeleteEnv, ListedInv, Was, HasRow
  <2>3. CASE DeleteBuilds BY <2>3 DEF DeleteBuilds, ListedInv
  <2>4. CASE DeleteInvalidate BY <2>4 DEF DeleteInvalidate, ListedInv
  <2> QED BY <1>3, <2>1, <2>2, <2>3, <2>4 DEF Delete
<1>4. CASE Restart BY <1>4 DEF Restart, ListedInv
<1>5. UNCHANGED deletion \/ Delete \/ Restart
  <2>1. ASSUME NEW b \in Builds, RequestBuild(b) \/ InsertBuild(b) PROVE UNCHANGED deletion
    BY <2>1 DEF RequestBuild, InsertBuild
  <2>2. ASSUME NEW r \in Runs, Handle(r) PROVE UNCHANGED deletion
    BY <2>2 DEF Handle, Create, SetBuilding, GiveUp, TemplateCreate, AppendFails, Recv, Finish,
       SetReady, InvalidateTemplate, FailRow, SetError
  <2>3. ASSUME NEW r \in Runs, Work(r) PROVE UNCHANGED deletion BY <2>3, WorkKeeps
  <2>4. ASSUME NEW r \in Runs, StreamBreaks(r) \/ \E b \in Builds : StartLookup(r, b)
        PROVE  UNCHANGED deletion
    BY <2>4 DEF StreamBreaks, StartLookup
  <2>5. ASSUME NEW g \in Lookups, Look(g) PROVE UNCHANGED deletion
    BY <2>5 DEF Look, GetEnv, Set
  <2> QED BY <2>1, <2>2, <2>3, <2>4, <2>5 DEF Next, Expire, TemplateExpires, vars
<1> QED BY <1>2, <1>3, <1>4, <1>5

-----------------------------------------------------------------------------
(* Frames: which step moves which run, and which writes which files.        *)

LEMMA RunMoves ==
  ASSUME TypeOK, [Next]_vars, NEW o \in Runs
  PROVE  \/ pc'[o] = pc[o] /\ of'[o] = of[o]
         \/ Handle(o) \/ StreamBreaks(o) \/ (\E b \in Builds : StartLookup(o, b)) \/ Restart
<1> DEFINE Same == pc'[o] = pc[o] /\ of'[o] = of[o]
<1> USE DEF run, TypeOK
<1>1. ASSUME NEW b \in Builds, RequestBuild(b) \/ InsertBuild(b) PROVE Same
  BY <1>1 DEF RequestBuild, InsertBuild
<1>2. ASSUME NEW r \in Runs, Handle(r), r # o PROVE Same
  BY <1>2 DEF Handle, Create, SetBuilding, GiveUp, TemplateCreate, AppendFails, Recv, Finish,
     SetReady, InvalidateTemplate, FailRow, SetError
<1>3. ASSUME NEW r \in Runs, Work(r) PROVE Same BY <1>3, WorkKeeps
<1>4. ASSUME NEW r \in Runs, StreamBreaks(r), r # o PROVE Same BY <1>4 DEF StreamBreaks
<1>5. ASSUME NEW r \in Runs, NEW b \in Builds, StartLookup(r, b), r # o PROVE Same
  BY <1>5 DEF StartLookup
<1>6. ASSUME NEW g \in Lookups, Look(g) PROVE Same BY <1>6 DEF Look, GetEnv, Set
<1>7. CASE Expire \/ TemplateExpires \/ Delete \/ UNCHANGED vars
  BY <1>7 DEF Expire, TemplateExpires, Delete, DeleteLookup, DeleteEnv, DeleteBuilds,
     DeleteInvalidate, vars
<1> QED BY <1>1, <1>2, <1>3, <1>4, <1>5, <1>6, <1>7 DEF Next

LEMMA ManagerMoves ==
  ASSUME TypeOK, [Next]_vars
  PROVE  \/ UNCHANGED manager
         \/ DeleteBuilds /\ UNCHANGED <<tm, pending, rows, pc, of>>
         \/ \E r \in Runs : /\ TemplateCreate(r) /\ UNCHANGED <<pending, files, rows, of>>
                            /\ \A o \in Runs : o # r => tm'[o] = tm[o]
         \/ \E r \in Runs : /\ Work(r) /\ UNCHANGED <<rows, pc, of>>
                            /\ \A o \in Runs : o # r => tm'[o] = tm[o] /\ pending'[o] = pending[o]
<1>1. ASSUME NEW b \in Builds, RequestBuild(b) \/ InsertBuild(b) PROVE UNCHANGED manager
  BY <1>1 DEF RequestBuild, InsertBuild
<1>2. ASSUME NEW r \in Runs, Handle(r), ~TemplateCreate(r) PROVE UNCHANGED manager
  BY <1>2 DEF Handle, Create, SetBuilding, GiveUp, AppendFails, Recv, Finish,
     SetReady, InvalidateTemplate, FailRow, SetError
<1>3. ASSUME NEW r \in Runs, TemplateCreate(r)
      PROVE  /\ UNCHANGED <<pending, files, rows, of>>
             /\ \A o \in Runs : o # r => tm'[o] = tm[o]
  BY <1>3 DEF TemplateCreate, db, TypeOK
<1>4. ASSUME NEW r \in Runs, Work(r)
      PROVE  /\ UNCHANGED <<rows, pc, of>>
             /\ \A o \in Runs : o # r => tm'[o] = tm[o] /\ pending'[o] = pending[o]
  <2>1. UNCHANGED <<rows, pc, of>> BY <1>4, WorkKeeps DEF db, run
  <2> QED BY <1>4, <2>1 DEF Work, BuildImage, EnvdVersion, UploadDone, RemoveFiles, Return,
          UploadPart, TypeOK
<1>5. ASSUME NEW r \in Runs, StreamBreaks(r) \/ \E b \in Builds : StartLookup(r, b)
      PROVE  UNCHANGED manager
  BY <1>5 DEF StreamBreaks, StartLookup
<1>6. ASSUME NEW g \in Lookups, Look(g) PROVE UNCHANGED manager BY <1>6 DEF Look, GetEnv, Set
<1>7. CASE Expire \/ TemplateExpires \/ Restart \/ UNCHANGED vars
  BY <1>7 DEF Expire, TemplateExpires, Restart, vars
<1>8. CASE DeleteLookup \/ DeleteEnv \/ DeleteInvalidate
  BY <1>8 DEF DeleteLookup, DeleteEnv, DeleteInvalidate
<1>9. CASE DeleteBuilds BY <1>9 DEF DeleteBuilds, db, run
<1> QED BY <1>1, <1>2, <1>3, <1>4, <1>5, <1>6, <1>7, <1>8, <1>9 DEF Next, Delete

-----------------------------------------------------------------------------
(* Unless runs overlapped, a build is one run's alone.                      *)

Busy == Active \cup Working

AloneInv == ~overlapped => \A r, o \in Busy : of[r] = of[o] => r = o

LEMMA BusyStep ==
  ASSUME TypeOK, CallInv, [Next]_vars, ~ \E r \in Runs : Create(r)
  PROVE  overlapped' = overlapped /\ \A o \in Busy' : o \in Busy /\ of'[o] = of[o]
<1>1. overlapped' = overlapped
  <2>1. CASE Quiet BY <2>1 DEF Quiet
  <2>2. CASE Loud
    BY <2>2, LeaveStep, StartStep, RestartStep DEF Loud, Expire
  <2> QED BY <2>1, <2>2, QuietOrLoud
<1> SUFFICES ASSUME NEW o \in Runs, o \in Busy' PROVE o \in Busy /\ of'[o] = of[o]
  BY <1>1 DEF Busy, Active, Working
<1> USE DEF Busy, Active, Working
<1>2. CASE \E b \in Builds : StartLookup(o, b)
  <2>1. tm[o] = "none" /\ tm' = tm /\ pc'[o] = "create"
    BY <1>2 DEF StartLookup, CallInv, manager, TypeOK
  <2> QED BY <2>1
<1>3. CASE Handle(o)
  <2>1. pc[o] \in ActivePC \/ (InvalidateTemplate(o) /\ tm' = tm)
    BY <1>3 DEF Handle, Create, SetBuilding, GiveUp, TemplateCreate, AppendFails, Recv, Finish,
       SetReady, InvalidateTemplate, FailRow, SetError, manager
  <2>2. of'[o] = of[o]
    BY <1>3 DEF Handle, Create, SetBuilding, GiveUp, TemplateCreate, AppendFails, Recv, Finish,
       SetReady, InvalidateTemplate, FailRow, SetError, run
  <2>3. InvalidateTemplate(o) => pc'[o] = "done" BY DEF InvalidateTemplate, TypeOK
  <2> QED BY <2>1, <2>2, <2>3
<1>4. CASE StreamBreaks(o) BY <1>4 DEF StreamBreaks
<1>5. CASE Restart BY <1>5 DEF Restart, manager
<1>6. CASE pc'[o] = pc[o] /\ of'[o] = of[o]
  <2>1. CASE tm'[o] = tm[o] BY <1>6, <2>1
  <2>2. CASE Work(o)
    <3>1. o \in Working
      BY <2>2 DEF Work, BuildImage, EnvdVersion, UploadDone, RemoveFiles, Return, UploadPart
    <3> QED BY <1>6, <3>1
  <2>3. CASE TemplateCreate(o) BY <1>6, <2>3 DEF TemplateCreate
  <2> QED BY <2>1, <2>2, <2>3, ManagerMoves DEF manager
<1> QED BY <1>2, <1>3, <1>4, <1>5, <1>6, RunMoves

LEMMA AloneStep == TypeOK /\ CallInv /\ AloneInv /\ [Next]_vars => AloneInv'
<1> SUFFICES ASSUME TypeOK, CallInv, AloneInv, [Next]_vars PROVE AloneInv' OBVIOUS
<1>1. ASSUME NEW r \in Runs, Create(r) PROVE AloneInv'
  <2>1. of' = of /\ tm' = tm BY <1>1, CreateStep DEF manager
  <2>2. Working' = Working BY <2>1 DEF Working
  <2>3. CASE UNCHANGED <<entry, counter, overlapped>> /\ Active' = Active
    BY <2>1, <2>2, <2>3 DEF AloneInv, Busy
  <2>4. CASE Active' = Active \cup {r} /\ overlapped' = (overlapped \/ Overlaps(r))
    <3>1. Busy' = Busy \cup {r}
      BY <2>2, <2>4 DEF Busy
    <3>2. ~overlapped' => /\ ~overlapped
                          /\ \A o \in Busy \ {r} : of[o] # of[r]
      BY <2>4 DEF Overlaps, Busy
    <3> QED BY <2>1, <3>1, <3>2 DEF AloneInv
  <2> QED BY <1>1, <2>3, <2>4, CreateStep
<1>2. CASE ~ \E r \in Runs : Create(r) BY <1>2, BusyStep DEF AloneInv
<1> QED BY <1>1, <1>2

LEMMA NotOverlapped ==
  ASSUME TypeOK, [Next]_vars, ~overlapped'
  PROVE  ~overlapped
<1>1. ASSUME NEW r \in Runs, Create(r) PROVE ~overlapped BY <1>1, CreateStep
<1>2. CASE Quiet BY <1>2 DEF Quiet
<1>3. CASE Loud BY <1>1, <1>3, LeaveStep, StartStep, RestartStep DEF Loud, Expire
<1> QED BY <1>2, <1>3, QuietOrLoud

-----------------------------------------------------------------------------
(* Whole files.                                                             *)

\* The handler says "ok" when its upload is over, and Finish follows an "ok".
OkInv ==
  \A r \in Runs : (tm[r] = "ok" => pending[r] = {}) /\ (pc[r] = "finish" => tm[r] = "ok")

\* The row of a build about to be made does not say "uploaded" ...
CallRowInv ==
  ~overlapped => \A r \in Runs, b \in Builds : pc[r] = "rpc" /\ of[r] = b => rows[b] # "uploaded"

\* ... a run's upload finds its files as it left them ...
Wrote(r) == tm[r] \in {"version", "upload"} \/ (tm[r] = "ok" /\ pc[r] \in {"recv", "finish"})

WroteInv ==
  ~overlapped =>
    \A r \in Runs, b \in Builds : Wrote(r) /\ of[r] = b /\ HasRow(b) =>
      \A p \in Parts \ pending[r] : files[b][p] = r

\* ... and nobody works on an uploaded build.
WholeInv ==
  ~overlapped =>
    \A b \in Builds : rows[b] = "uploaded" =>
      /\ \E r \in Runs : of[r] = b /\ \A p \in Parts : files[b][p] = r
      /\ \A o \in Working : of[o] # b

FilesInv == OkInv /\ CallRowInv /\ WroteInv /\ WholeInv

LEMMA OkStep == TypeOK /\ CallInv /\ OkInv /\ [Next]_vars => OkInv'
<1> SUFFICES ASSUME TypeOK, CallInv, OkInv, [Next]_vars, NEW r \in Runs
             PROVE  /\ tm'[r] = "ok" => pending'[r] = {}
                    /\ pc'[r] = "finish" => tm'[r] = "ok"
  BY DEF OkInv
<1> USE DEF OkInv, TypeOK
<1>1. tm'[r] = "ok" => pending'[r] = {}
  <2>1. CASE UNCHANGED manager BY <2>1 DEF manager
  <2>2. CASE UNCHANGED <<tm, pending>> BY <2>2
  <2>3. CASE TemplateCreate(r) /\ UNCHANGED pending BY <2>3 DEF TemplateCreate
  <2>4. CASE Work(r)
    BY <2>4 DEF Work, BuildImage, EnvdVersion, UploadDone, RemoveFiles, Return, UploadPart
  <2>5. CASE tm'[r] = tm[r] /\ pending'[r] = pending[r] BY <2>5
  <2> QED BY <2>1, <2>2, <2>3, <2>4, <2>5, ManagerMoves
<1>2. pc'[r] = "finish" => pc[r] = "finish" \/ Recv(r)
  <2>1. CASE pc'[r] = pc[r] BY <2>1
  <2>2. CASE Handle(r)
    BY <2>2 DEF Handle, Create, SetBuilding, GiveUp, TemplateCreate, AppendFails, Recv, Finish,
       SetReady, InvalidateTemplate, FailRow, SetError
  <2>3. CASE StreamBreaks(r) BY <2>3 DEF StreamBreaks
  <2>4. CASE \E b \in Builds : StartLookup(r, b) BY <2>4 DEF StartLookup
  <2>5. CASE Restart BY <2>5 DEF Restart
  <2> QED BY <2>1, <2>2, <2>3, <2>4, <2>5, RunMoves
<1>3. tm[r] = "ok" /\ pc'[r] = "finish" => tm'[r] = "ok"
  <2>1. CASE TemplateCreate(r) BY <2>1 DEF TemplateCreate
  <2>2. CASE Work(r)
    BY <2>2 DEF Work, BuildImage, EnvdVersion, UploadDone, RemoveFiles, Return, UploadPart
  <2> QED BY <2>1, <2>2, ManagerMoves DEF manager
<1>4. Recv(r) /\ pc'[r] = "finish" => tm[r] = "ok" BY DEF Recv
<1> QED BY <1>1, <1>2, <1>3, <1>4

LEMMA CallRowStep ==
  TypeOK /\ CallInv /\ AloneInv /\ KnownInv /\ CallRowInv /\ [Next]_vars => CallRowInv'
<1> SUFFICES ASSUME TypeOK, CallInv, AloneInv, KnownInv, CallRowInv, [Next]_vars, ~overlapped',
                    NEW r \in Runs, NEW b \in Builds, pc'[r] = "rpc", of'[r] = b
             PROVE  rows'[b] # "uploaded"
  BY DEF CallRowInv
<1> USE DEF TypeOK
<1>1. ~overlapped BY NotOverlapped
<1>2. CASE SetBuilding(r)
  <2>1. of[r] = b /\ rows' = IF HasRow(b) THEN [rows EXCEPT ![b] = "building"] ELSE rows
    BY <1>2 DEF SetBuilding, EnvBuildSetStatus, run
  <2> QED BY <2>1 DEF HasRow
<1>3. CASE pc[r] = "rpc" /\ of[r] = b
  <2>1. rows[b] # "uploaded" BY <1>1, <1>3 DEF CallRowInv
  <2>2. ASSUME NEW o \in Runs, Finish(o), of[o] = b PROVE FALSE
    <3>1. r \in Busy /\ o \in Busy /\ pc[o] = "finish"
      BY <1>3, <2>2 DEF Finish, Busy, Active
    <3> QED BY <1>1, <1>3, <2>2, <3>1 DEF AloneInv
  <2> QED BY <2>1, <2>2, RowsStep DEF RowMoves
<1>4. SetBuilding(r) \/ (pc[r] = "rpc" /\ of[r] = b)
  <2>1. CASE Handle(r)
    BY <2>1 DEF Handle, Create, SetBuilding, GiveUp, TemplateCreate, AppendFails, Recv, Finish,
       SetReady, InvalidateTemplate, FailRow, SetError
  <2>2. CASE StreamBreaks(r) BY <2>2 DEF StreamBreaks
  <2>3. CASE \E c \in Builds : StartLookup(r, c) BY <2>3 DEF StartLookup
  <2>4. CASE Restart BY <2>4 DEF Restart
  <2> QED BY <2>1, <2>2, <2>3, <2>4, RunMoves
<1> QED BY <1>2, <1>3, <1>4

LEMMA WroteStep ==
  TypeOK /\ CallInv /\ AloneInv /\ KnownInv /\ ListedInv /\ WroteInv /\ [Next]_vars => WroteInv'
<1> SUFFICES ASSUME TypeOK, CallInv, AloneInv, KnownInv, ListedInv, WroteInv, [Next]_vars,
                    ~overlapped', NEW r \in Runs, NEW b \in Builds,
                    Wrote(r)', of'[r] = b, HasRow(b)',
                    NEW p \in Parts \ pending'[r]
             PROVE  files'[b][p] = r
  BY DEF WroteInv
<1> USE DEF TypeOK
<1>1. ~overlapped BY NotOverlapped
<1>2. of[r] = b
  <2>1. ASSUME NEW c \in Builds, StartLookup(r, c) PROVE FALSE
    BY <2>1 DEF StartLookup, CallInv, Wrote, manager
  <2>2. CASE Handle(r)
    BY <2>2 DEF Handle, Create, SetBuilding, GiveUp, TemplateCreate, AppendFails, Recv, Finish,
       SetReady, InvalidateTemplate, FailRow, SetError, run
  <2> QED BY <2>1, <2>2, RunMoves DEF StreamBreaks, Restart
<1>3. HasRow(b) BY <1>2, RowsStep DEF RowMoves, KnownInv, Was, HasRow
<1>4. Wrote(r) \/ BuildImage(r)
  <2>1. CASE Work(r)
    BY <2>1, WorkKeeps DEF run, Work, BuildImage, EnvdVersion, UploadDone, RemoveFiles, Return,
       UploadPart, Wrote
  <2>2. CASE TemplateCreate(r) BY <2>2 DEF TemplateCreate, Wrote
  <2>3. CASE tm'[r] = tm[r] /\ ~TemplateCreate(r)
    <3>1. pc'[r] \in {"recv", "finish"} => pc[r] \in {"recv", "finish"}
      <4>1. CASE Handle(r)
        BY <2>3, <4>1 DEF Handle, Create, SetBuilding, GiveUp, AppendFails, Recv, Finish,
           SetReady, InvalidateTemplate, FailRow, SetError
      <4>2. CASE StreamBreaks(r) BY <4>2 DEF StreamBreaks
      <4>3. CASE \E c \in Builds : StartLookup(r, c) BY <4>3 DEF StartLookup
      <4>4. CASE Restart BY <4>4 DEF Restart
      <4> QED BY <4>1, <4>2, <4>3, <4>4, RunMoves
    <3> QED BY <2>3, <3>1 DEF Wrote
  <2> QED BY <2>1, <2>2, <2>3, ManagerMoves DEF manager
<1>5. CASE BuildImage(r) BY <1>5 DEF BuildImage, Wrote
<1>6. CASE Wrote(r) /\ UNCHANGED <<pending, files>>
  BY <1>1, <1>2, <1>3, <1>6 DEF WroteInv
<1>7. CASE Wrote(r) /\ DeleteBuilds /\ UNCHANGED pending
  <2>1. b \notin listed BY <1>3, <1>7 DEF DeleteBuilds, ListedInv, HasRow
  <2>2. files'[b] = files[b] BY <1>7, <2>1 DEF DeleteBuilds
  <2> QED BY <1>1, <1>2, <1>3, <1>7, <2>2 DEF WroteInv
<1>8. ASSUME Wrote(r), NEW o \in Runs, o # r, Work(o), pending'[r] = pending[r]
      PROVE  files'[b][p] = r
  <2>1. r \in Busy BY <1>8 DEF Busy, Active, Working, Wrote
  <2>2. o \in Busy
    BY <1>8 DEF Busy, Working, Work, BuildImage, EnvdVersion, UploadDone, RemoveFiles, Return, UploadPart
  <2>3. of[o] # b BY <1>1, <1>2, <1>8, <2>1, <2>2 DEF AloneInv
  <2>4. files'[b] = files[b]
    BY <1>8, <2>3 DEF Work, BuildImage, EnvdVersion, UploadDone, RemoveFiles, Return, UploadPart
  <2> QED BY <1>1, <1>2, <1>3, <1>8, <2>4 DEF WroteInv
<1>9. CASE Wrote(r) /\ Work(r)
  <2>1. ASSUME NEW q \in Parts, UploadPart(r, q) PROVE files'[b][p] = r
    <3>1. files'[b] = [files[b] EXCEPT ![q] = r] /\ pending'[r] = pending[r] \ {q}
      BY <1>2, <2>1 DEF UploadPart
    <3>2. CASE p = q BY <3>1, <3>2
    <3>3. CASE p # q BY <1>1, <1>2, <1>3, <1>9, <3>1, <3>3 DEF WroteInv
    <3> QED BY <3>2, <3>3
  <2>2. CASE EnvdVersion(r) \/ UploadDone(r)
    <3>1. UNCHANGED <<pending, files>>
      BY <2>2 DEF EnvdVersion, UploadDone, Wrote
    <3> QED BY <1>1, <1>2, <1>3, <1>9, <3>1 DEF WroteInv
  <2>3. ~(RemoveFiles(r) \/ Return(r)) BY DEF RemoveFiles, Return, Wrote
  <2> QED BY <1>5, <1>9, <2>1, <2>2, <2>3 DEF Work
<1> QED BY <1>4, <1>5, <1>6, <1>7, <1>8, <1>9, ManagerMoves DEF manager

LEMMA WholeStep ==
  TypeOK /\ CallInv /\ AloneInv /\ KnownInv /\ ListedInv /\ FilesInv /\ [Next]_vars => WholeInv'
<1> SUFFICES ASSUME TypeOK, CallInv, AloneInv, KnownInv, ListedInv, FilesInv, [Next]_vars,
                    ~overlapped', NEW b \in Builds, rows'[b] = "uploaded"
             PROVE  /\ \E r \in Runs : of'[r] = b /\ \A p \in Parts : files'[b][p] = r
                    /\ \A o \in Working' : of'[o] # b
  BY DEF WholeInv
<1> USE DEF TypeOK
<1>1. ~overlapped BY NotOverlapped
<1>2. CASE rows[b] # "uploaded"
  <2>1. PICK r \in Runs : Finish(r) /\ of[r] = b BY <1>2, RowsStep DEF RowMoves
  <2>2. UNCHANGED <<of, tm, pending, files>> /\ HasRow(b) /\ pc[r] = "finish"
    BY <1>2, <2>1 DEF Finish, FinishEnvBuild, manager
  <2>3. tm[r] = "ok" /\ pending[r] = {} BY <2>2 DEF FilesInv, OkInv
  <2>4. \A p \in Parts : files[b][p] = r
    BY <1>1, <2>1, <2>2, <2>3 DEF FilesInv, WroteInv, Wrote
  <2>5. \A o \in Working : of[o] # b
    BY <1>1, <2>1, <2>2, <2>3 DEF AloneInv, Busy, Active, Working
  <2> QED BY <2>1, <2>2, <2>4, <2>5 DEF Working
<1>3. CASE rows[b] = "uploaded"
  <2>1. PICK r \in Runs : of[r] = b /\ \A p \in Parts : files[b][p] = r
    BY <1>1, <1>3 DEF FilesInv, WholeInv
  <2>2. \A o \in Working : of[o] # b BY <1>1, <1>3 DEF FilesInv, WholeInv
  <2>3. of'[r] = b
    <3>1. pc[r] # "idle" BY <2>1, NoneAssumption DEF KnownInv
    <3>2. ~ \E c \in Builds : StartLookup(r, c) BY <3>1 DEF StartLookup
    <3>3. CASE Handle(r)
      BY <2>1, <3>3 DEF Handle, Create, SetBuilding, GiveUp, TemplateCreate, AppendFails, Recv,
         Finish, SetReady, InvalidateTemplate, FailRow, SetError, run
    <3> QED BY <2>1, <3>2, <3>3, RunMoves DEF StreamBreaks, Restart
  <2>4. files'[b] = files[b]
    <3>1. CASE DeleteBuilds
      <4>1. b \notin listed BY <1>3, <3>1 DEF DeleteBuilds, ListedInv
      <4> QED BY <3>1, <4>1 DEF DeleteBuilds
    <3>2. ASSUME NEW o \in Runs, Work(o) PROVE files'[b] = files[b]
      <4>1. of[o] # b
        BY <2>2, <3>2 DEF Working, Work, BuildImage, EnvdVersion, UploadDone, RemoveFiles, Return,
           UploadPart
      <4> QED BY <3>2, <4>1 DEF Work, BuildImage, EnvdVersion, UploadDone, RemoveFiles, Return,
              UploadPart
    <3> QED BY <3>1, <3>2, ManagerMoves DEF manager
  <2>5. ASSUME NEW o \in Runs, o \in Working', of'[o] = b PROVE FALSE
    <3>1. CASE o \in Working
      <4>1. of[o] # b /\ tm[o] # "none" BY <2>2, <3>1 DEF Working
      <4>2. ~ \E c \in Builds : StartLookup(o, c) BY <4>1 DEF StartLookup, CallInv
      <4>3. CASE Handle(o)
        BY <2>5, <4>1, <4>3 DEF Handle, Create, SetBuilding, GiveUp, TemplateCreate, AppendFails,
           Recv, Finish, SetReady, InvalidateTemplate, FailRow, SetError, run
      <4> QED BY <2>5, <4>1, <4>2, <4>3, RunMoves DEF StreamBreaks, Restart
    <3>2. CASE o \notin Working
      <4>1. TemplateCreate(o)
        <5>1. ~Work(o)
          BY <3>2 DEF Working, Work, BuildImage, EnvdVersion, UploadDone, RemoveFiles, Return,
             UploadPart
        <5> QED BY <2>5, <3>2, <5>1, ManagerMoves DEF manager, Working
      <4>2. of[o] = b /\ pc[o] = "rpc" BY <2>5, <4>1 DEF TemplateCreate
      <4> QED BY <1>1, <1>3, <4>2 DEF FilesInv, CallRowInv
    <3> QED BY <3>1, <3>2
  <2>6. Working' \subseteq Runs BY DEF Working
  <2> QED BY <2>1, <2>3, <2>4, <2>5, <2>6
<1> QED BY <1>2, <1>3

RowInv == KnownInv /\ ListedInv /\ AloneInv /\ FilesInv

LEMMA InitRow == Init => RowInv
<1> SUFFICES ASSUME Init PROVE RowInv OBVIOUS
<1>1. Busy = {} BY DEF Init, Busy, Active, Working
<1>2. KnownInv /\ ListedInv BY NoneAssumption DEF Init, KnownInv, ListedInv
<1>3. AloneInv BY <1>1 DEF AloneInv
<1>4. FilesInv BY DEF Init, FilesInv, OkInv, CallRowInv, WroteInv, Wrote, WholeInv
<1> QED BY <1>2, <1>3, <1>4 DEF RowInv

LEMMA RowStep == IInv /\ RowInv /\ [Next]_vars => RowInv'
<1> SUFFICES ASSUME IInv, RowInv, [Next]_vars PROVE RowInv' OBVIOUS
<1>1. TypeOK /\ CallInv /\ KnownInv /\ ListedInv /\ AloneInv /\ FilesInv
  BY DEF IInv, OverlapInv, RowInv
<1>2. OkInv /\ CallRowInv /\ WroteInv BY <1>1 DEF FilesInv
<1>3. KnownInv' /\ ListedInv' /\ AloneInv' BY <1>1, KnownStep, ListedStep, AloneStep
<1>4. OkInv' /\ CallRowInv' BY <1>1, <1>2, OkStep, CallRowStep
<1>5. WroteInv' /\ WholeInv' BY <1>1, <1>2, WroteStep, WholeStep
<1> QED BY <1>3, <1>4, <1>5 DEF RowInv, FilesInv

LEMMA RowInvariance == Spec => []RowInv
  BY Invariance, InitRow, RowStep, PTL DEF Spec

\* UploadedIsWhole: an uploaded build has all its files, of one run.
THEOREM UploadsAreWhole == Spec => []UploadedIsWhole
<1>1. RowInv => UploadedIsWhole BY DEF RowInv, FilesInv, WholeInv, UploadedIsWhole
<1> QED BY <1>1, RowInvariance, PTL

-----------------------------------------------------------------------------
(* A build that is being made is settled.                                   *)

Settles(b) == \E r \in Runs : of[r] = b /\ pc[r] \in {"rpc", "recv", "finish", "failRow"}

LEMMA HandleSettles ==
  ASSUME TypeOK, NEW r \in Runs, Handle(r), UNCHANGED faults,
         NEW b \in Builds, rows'[b] = "building", rows[b] = "building" => Settles(b)
  PROVE  Settles(b)'
<1> USE DEF Settles, TypeOK
<1>0. of' = of /\ \A o \in Runs : o # r => pc'[o] = pc[o]
  BY DEF Handle, Create, SetBuilding, GiveUp, TemplateCreate, AppendFails, Recv,
     Finish, SetReady, InvalidateTemplate, FailRow, SetError, run
<1>1. CASE SetBuilding(r)
  <2>1. /\ EnvBuildSetStatus(of[r], "building") /\ pc'[r] = "rpc"
    BY <1>1 DEF SetBuilding, DbFault
  <2>2. CASE of[r] = b BY <1>0, <2>1, <2>2
  <2>3. CASE of[r] # b
    <3>1. rows[b] = "building" BY <2>1, <2>3 DEF EnvBuildSetStatus
    <3> QED BY <1>0, <1>1, <3>1 DEF SetBuilding
  <2> QED BY <2>2, <2>3
<1>2. CASE Finish(r)
  <2>1. FinishEnvBuild(of[r]) /\ pc[r] = "finish" BY <1>2 DEF Finish, DbFault
  <2>2. of[r] # b \/ ~HasRow(b) BY <2>1 DEF FinishEnvBuild
  <2>3. rows[b] = "building" BY <2>1, <2>2 DEF FinishEnvBuild
  <2> QED BY <1>0, <2>2, <2>3 DEF HasRow
<1>3. CASE FailRow(r)
  <2>1. EnvBuildSetStatus(of[r], "failed") BY <1>3 DEF FailRow, DbFault
  <2>2. of[r] # b \/ ~HasRow(b) BY <2>1 DEF EnvBuildSetStatus
  <2>3. rows[b] = "building" BY <2>1, <2>2 DEF EnvBuildSetStatus
  <2> QED BY <1>0, <2>2, <2>3 DEF HasRow
<1>4. CASE ~(SetBuilding(r) \/ Finish(r) \/ FailRow(r))
  <2>1. UNCHANGED rows
    BY <1>4 DEF Handle, Create, GiveUp, TemplateCreate, AppendFails, Recv, SetReady,
       InvalidateTemplate, SetError, db
  <2>2. pc[r] \in {"rpc", "recv"} => pc'[r] \in {"recv", "finish", "failRow"}
    BY <1>4 DEF Handle, Create, GiveUp, TemplateCreate, AppendFails, Recv, SetReady,
       InvalidateTemplate, SetError
  <2>3. pc[r] \notin {"finish", "failRow"}
    BY <1>4 DEF Handle, Create, GiveUp, TemplateCreate, AppendFails, Recv, SetReady,
       InvalidateTemplate, SetError
  <2> QED BY <1>0, <2>1, <2>2, <2>3
<1> QED BY <1>1, <1>2, <1>3, <1>4

LEMMA SettledStep == TypeOK /\ KnownInv /\ BuildingIsSettled /\ [Next]_vars => BuildingIsSettled'
<1> SUFFICES ASSUME TypeOK, KnownInv, BuildingIsSettled, [Next]_vars,
                    faults' = 0, restarts' = 0, NEW b \in Builds, rows'[b] = "building"
             PROVE  Settles(b)'
  BY DEF BuildingIsSettled, Settles
<1> USE DEF TypeOK, Settles
<1>1. faults = 0 /\ restarts = 0 /\ ~Restart
  <2>1. ASSUME NEW r \in Runs, Handle(r) PROVE faults = 0 /\ restarts = 0
    BY <2>1 DEF Handle, Create, SetBuilding, GiveUp, TemplateCreate, AppendFails, Recv,
       Finish, SetReady, InvalidateTemplate, FailRow, SetError, DbFault, bounds
  <2>2. ASSUME NEW r \in Runs, Work(r) PROVE faults = 0 /\ restarts = 0
    BY <2>2, WorkKeeps DEF bounds
  <2>3. ASSUME NEW r \in Runs, StreamBreaks(r) \/ \E c \in Builds : StartLookup(r, c)
        PROVE  faults = 0 /\ restarts = 0
    BY <2>3 DEF StreamBreaks, StartLookup, bounds
  <2>4. ~Restart BY DEF Restart
  <2> QED BY <2>1, <2>2, <2>3, <2>4 DEF Next, RequestBuild, InsertBuild, Look, GetEnv, Set, Expire,
          TemplateExpires, Delete, DeleteLookup, DeleteEnv, DeleteBuilds, DeleteInvalidate, vars, bounds
<1>2. rows[b] = "building" => Settles(b) BY <1>1 DEF BuildingIsSettled
<1>3. ASSUME NEW r \in Runs, Handle(r) PROVE Settles(b)'
  <2>1. UNCHANGED faults
    BY <1>1, <1>3 DEF Handle, Create, SetBuilding, GiveUp, TemplateCreate, AppendFails, Recv,
       Finish, SetReady, InvalidateTemplate, FailRow, SetError, DbFault, bounds
  <2> QED BY <1>2, <1>3, <2>1, HandleSettles
<1>4. CASE ~ \E r \in Runs : Handle(r)
  <2>1. rows[b] = "building"
    <3>1. ASSUME NEW c \in Builds, RequestBuild(c) \/ InsertBuild(c) PROVE rows[b] = "building"
      BY <3>1 DEF RequestBuild, InsertBuild
    <3>2. ASSUME NEW r \in Runs, Work(r) PROVE rows[b] = "building" BY <3>2, WorkKeeps DEF db
    <3> QED BY <1>1, <1>4, <3>1, <3>2 DEF Next, StreamBreaks, StartLookup, Look, GetEnv, Set, Expire,
            TemplateExpires, Delete, DeleteLookup, DeleteEnv, DeleteBuilds, DeleteInvalidate, vars, db
  <2>2. PICK r \in Runs : of[r] = b /\ pc[r] \in {"rpc", "recv", "finish", "failRow"}
    BY <1>2, <2>1
  <2>3. StreamBreaks(r) => of'[r] = b /\ pc'[r] = "failRow" BY <2>2 DEF StreamBreaks
  <2>4. ~ \E c \in Builds : StartLookup(r, c) BY <2>2 DEF StartLookup
  <2> QED BY <1>1, <1>4, <2>2, <2>3, <2>4, RunMoves
<1> QED BY <1>3, <1>4

\* BuildingIsSettled: a row that says "building" has a run that will change it.
THEOREM BuildsSettle == Spec => []BuildingIsSettled
<1>1. Init => BuildingIsSettled BY DEF Init, BuildingIsSettled
<1>2. IInv /\ RowInv => TypeOK /\ KnownInv BY DEF IInv, RowInv
<1> QED BY <1>1, <1>2, Invariance, RowInvariance, SettledStep, PTL DEF Spec

-----------------------------------------------------------------------------
(* What the template cache holds, and what a lookup will set it to.         *)

ClockInv == \A b \in Builds : finishedAt[b] <= clock

Sought(c) == c = cached \/ \E g \in Lookups : found[g] = c

Follows(c) ==
  /\ \A b \in Builds :
       rows[b] = "uploaded" /\ finishedAt[b] > finishedAt[c] =>
         \E r \in Runs : of[r] = b /\ pc[r] \in {"ready", "invalidate"}
  /\ rows[c] = "deleted" => deleter \in {"files", "invalidate"}

FollowInv == ~crossed => \A c \in Builds : Sought(c) => Follows(c)

Invalidates == (\E r \in Runs : InvalidateTemplate(r)) \/ DeleteInvalidate \/ Restart

LEMMA InvalidateForgets ==
  ASSUME TypeOK, Invalidates, ~crossed', NEW c \in Builds
  PROVE  ~Sought(c)'
<1> USE NoneAssumption DEF TypeOK, Sought
<1>1. CASE Invalidate BY <1>1 DEF Invalidate
<1>2. CASE Restart BY <1>2 DEF Restart
<1> QED BY <1>1, <1>2 DEF Invalidates, InvalidateTemplate, DeleteInvalidate

LEMMA LookupMoves ==
  ASSUME TypeOK, [Next]_vars, ~Invalidates, NEW c \in Builds, Sought(c)'
  PROVE  crossed' = crossed /\ (Sought(c) \/ (IsNewest(c) /\ UNCHANGED <<db, run, deletion>>))
<1> USE NoneAssumption DEF TypeOK, Sought, lookups
<1>1. CASE UNCHANGED lookups BY <1>1
<1>2. ASSUME NEW g \in Lookups, GetEnv(g)
      PROVE  crossed' = crossed /\ (Sought(c) \/ (IsNewest(c) /\ UNCHANGED <<db, run, deletion>>))
  <2>1. PICK b \in Builds : IsNewest(b) /\ found' = [found EXCEPT ![g] = b] BY <1>2 DEF GetEnv
  <2>2. UNCHANGED <<db, run, deletion, cached, crossed>> BY <1>2 DEF GetEnv
  <2>3. CASE b = c BY <2>1, <2>2, <2>3
  <2>4. CASE b # c BY <2>1, <2>2, <2>4
  <2> QED BY <2>3, <2>4
<1>3. ASSUME NEW g \in Lookups, Set(g) PROVE crossed' = crossed /\ Sought(c) BY <1>3 DEF Set
<1>4. CASE TemplateExpires BY <1>4 DEF TemplateExpires
<1>5. ASSUME NEW r \in Runs, Handle(r), ~InvalidateTemplate(r) PROVE UNCHANGED lookups
  BY <1>5 DEF Handle, Create, SetBuilding, GiveUp, TemplateCreate, AppendFails, Recv,
     Finish, SetReady, FailRow, SetError
<1>6. ASSUME NEW r \in Runs, Work(r) PROVE UNCHANGED lookups BY <1>6, WorkKeeps
<1>7. ASSUME NEW r \in Runs, StreamBreaks(r) \/ \E b \in Builds : StartLookup(r, b)
      PROVE  UNCHANGED lookups
  BY <1>7 DEF StreamBreaks, StartLookup
<1>8. ASSUME NEW b \in Builds, RequestBuild(b) \/ InsertBuild(b) PROVE UNCHANGED lookups
  BY <1>8 DEF RequestBuild, InsertBuild
<1>9. CASE Expire \/ DeleteLookup \/ DeleteEnv \/ DeleteBuilds \/ UNCHANGED vars
  BY <1>1, <1>9 DEF Expire, DeleteLookup, DeleteEnv, DeleteBuilds, vars
<1> QED BY <1>1, <1>2, <1>3, <1>4, <1>5, <1>6, <1>7, <1>8, <1>9 DEF Next, Delete, Look, Invalidates

\* FinishEnvBuild makes the newest build, of a run that has yet to invalidate.
LEMMA FinishFollows ==
  ASSUME TypeOK, ClockInv, NEW r \in Runs, Finish(r)
  PROVE  ClockInv' /\ \A c \in Builds : Follows(c) => Follows(c)'
<1> USE DEF TypeOK, ClockInv, Follows
<1>1. deleter' = deleter /\ of' = of /\ pc[r] = "finish" BY DEF Finish, deletion
<1>2. CASE UNCHANGED <<rows, clock, finishedAt>>
  <2>1. \A o \in Runs : pc[o] \in {"ready", "invalidate"} => pc'[o] = pc[o] BY DEF Finish
  <2>2. ASSUME NEW b \in Builds, \E o \in Runs : of[o] = b /\ pc[o] \in {"ready", "invalidate"}
        PROVE  \E o \in Runs : of'[o] = b /\ pc'[o] \in {"ready", "invalidate"}
    <3>1. PICK o \in Runs : of[o] = b /\ pc[o] \in {"ready", "invalidate"} BY <2>2
    <3> QED BY <1>1, <2>1, <3>1
  <2>3. rows' = rows /\ finishedAt' = finishedAt /\ clock' = clock BY <1>2
  <2>4. ClockInv' BY <2>3
  <2>5. ASSUME NEW c \in Builds, Follows(c) PROVE Follows(c)' BY <1>1, <2>2, <2>3, <2>5
  <2> QED BY <2>4, <2>5
<1>3. CASE ~UNCHANGED <<rows, clock, finishedAt>>
  <2> DEFINE d == of[r]
  <2>1. /\ d \in Builds /\ HasRow(d) /\ rows' = [rows EXCEPT ![d] = "uploaded"]
        /\ clock' = clock + 1 /\ finishedAt' = [finishedAt EXCEPT ![d] = clock + 1]
        /\ pc' = [pc EXCEPT ![r] = "ready"]
    BY <1>3 DEF Finish, FinishEnvBuild, HasRow
  <2>2. ClockInv' BY <2>1
  <2>3. ASSUME NEW c \in Builds, Follows(c) PROVE Follows(c)'
    <3>1. finishedAt[c] <= finishedAt'[c] BY <2>1
    <3>2. ASSUME NEW b \in Builds, rows'[b] = "uploaded", finishedAt'[b] > finishedAt'[c]
          PROVE  \E o \in Runs : of'[o] = b /\ pc'[o] \in {"ready", "invalidate"}
      <4>1. CASE b = d BY <1>1, <2>1, <4>1
      <4>2. CASE b # d
        <5>1. rows[b] = "uploaded" /\ finishedAt[b] > finishedAt[c] BY <2>1, <3>1, <3>2, <4>2
        <5>2. PICK o \in Runs : of[o] = b /\ pc[o] \in {"ready", "invalidate"} BY <2>3, <5>1
        <5> QED BY <1>1, <2>1, <5>2
      <4> QED BY <4>1, <4>2
    <3>3. rows'[c] = "deleted" => deleter' \in {"files", "invalidate"} BY <1>1, <2>1, <2>3
    <3> QED BY <3>2, <3>3
  <2> QED BY <2>2, <2>3
<1> QED BY <1>2, <1>3

\* Steps that finish nothing and forget nothing.
LEMMA OtherFollows ==
  ASSUME TypeOK, KnownInv, [Next]_vars, ~Invalidates, ~ \E r \in Runs : Finish(r),
         NEW c \in Builds, Follows(c)
  PROVE  Follows(c)'
<1> USE DEF TypeOK
<1>1. finishedAt' = finishedAt
  <2>1. ASSUME NEW r \in Runs, Handle(r), ~Finish(r) PROVE finishedAt' = finishedAt
    BY <2>1 DEF Handle, Create, SetBuilding, GiveUp, TemplateCreate, AppendFails, Recv,
       SetReady, InvalidateTemplate, FailRow, SetError, db
  <2>2. ASSUME NEW r \in Runs, Work(r) PROVE finishedAt' = finishedAt BY <2>2, WorkKeeps DEF db
  <2> QED BY <2>1, <2>2 DEF Next, RequestBuild, InsertBuild, StreamBreaks, StartLookup, Look, GetEnv,
          Set, Expire, TemplateExpires, Delete, DeleteLookup, DeleteEnv, DeleteBuilds,
          DeleteInvalidate, Restart, vars, db
<1>2. \A b \in Builds : rows'[b] = "uploaded" => rows[b] = "uploaded" BY RowsStep DEF RowMoves
<1>3. ASSUME NEW r \in Runs, pc[r] \in {"ready", "invalidate"}
      PROVE  of'[r] = of[r] /\ pc'[r] \in {"ready", "invalidate"}
  <2>1. CASE Handle(r)
    BY <1>3, <2>1 DEF Handle, Create, SetBuilding, GiveUp, TemplateCreate, AppendFails, Recv,
       Finish, SetReady, InvalidateTemplate, FailRow, SetError, run, Invalidates
  <2>2. ~StreamBreaks(r) /\ ~ \E b \in Builds : StartLookup(r, b)
    BY <1>3 DEF StreamBreaks, StartLookup
  <2> QED BY <1>3, <2>1, <2>2, RunMoves DEF Invalidates
<1>4. rows'[c] = "deleted" => deleter' \in {"files", "invalidate"}
  <2>1. CASE DeleteEnv BY <2>1 DEF DeleteEnv
  <2>2. CASE DeleteBuilds BY <2>2 DEF DeleteBuilds
  <2>3. CASE DeleteLookup BY <2>3 DEF DeleteLookup, Follows, db
  <2>4. CASE ~Delete
    <3>1. deleter' = deleter
      <4>1. ASSUME NEW r \in Runs, Handle(r) PROVE deleter' = deleter
        BY <4>1 DEF Handle, Create, SetBuilding, GiveUp, TemplateCreate, AppendFails, Recv,
           Finish, SetReady, InvalidateTemplate, FailRow, SetError, deletion
      <4>2. ASSUME NEW r \in Runs, Work(r) PROVE deleter' = deleter BY <4>2, WorkKeeps DEF deletion
      <4> QED BY <2>4, <4>1, <4>2 DEF Next, RequestBuild, InsertBuild, StreamBreaks, StartLookup,
              Look, GetEnv, Set, Expire, TemplateExpires, Invalidates, vars, deletion
    <3>2. rows'[c] = "deleted" => rows[c] = "deleted"
      <4>1. ASSUME NEW b \in Builds, RequestBuild(b) \/ InsertBuild(b)
            PROVE  rows'[c] = "deleted" => rows[c] = "deleted"
        BY <4>1 DEF RequestBuild, InsertBuild
      <4>2. ASSUME NEW r \in Runs, Handle(r), rows' # rows
            PROVE  rows'[c] = "deleted" => rows[c] = "deleted"
        BY <4>2 DEF Handle, Create, SetBuilding, GiveUp, TemplateCreate, AppendFails, Recv,
           Finish, FinishEnvBuild, SetReady, InvalidateTemplate, FailRow, SetError,
           EnvBuildSetStatus, db
      <4>3. ASSUME NEW r \in Runs, Work(r) PROVE rows' = rows BY <4>3, WorkKeeps DEF db
      <4> QED BY <2>4, <4>1, <4>2, <4>3 DEF Next, StreamBreaks, StartLookup,
              Look, GetEnv, Set, Expire, TemplateExpires, Invalidates, vars, db
    <3> QED BY <3>1, <3>2 DEF Follows
  <2> QED BY <2>1, <2>2, <2>3, <2>4 DEF Delete, Invalidates
<1> QED BY <1>1, <1>2, <1>3, <1>4 DEF Follows

LEMMA FollowStep ==
  TypeOK /\ KnownInv /\ ClockInv /\ FollowInv /\ [Next]_vars => ClockInv' /\ FollowInv'
<1> SUFFICES ASSUME TypeOK, KnownInv, ClockInv, FollowInv, [Next]_vars
             PROVE  ClockInv' /\ FollowInv'
  OBVIOUS
<1>1. ClockInv'
  <2>1. ASSUME NEW r \in Runs, Handle(r), ~Finish(r) PROVE UNCHANGED <<finishedAt, clock>>
    BY <2>1 DEF Handle, Create, SetBuilding, GiveUp, TemplateCreate, AppendFails, Recv,
       SetReady, InvalidateTemplate, FailRow, SetError, db
  <2>2. ASSUME NEW r \in Runs, Work(r) PROVE UNCHANGED <<finishedAt, clock>>
    BY <2>2, WorkKeeps DEF db
  <2>3. (\E r \in Runs : Finish(r)) \/ UNCHANGED <<finishedAt, clock>>
    BY <2>1, <2>2 DEF Next, RequestBuild, InsertBuild, StreamBreaks, StartLookup, Look, GetEnv,
       Set, Expire, TemplateExpires, Delete, DeleteLookup, DeleteEnv, DeleteBuilds,
       DeleteInvalidate, Restart, vars, db
  <2> QED BY <2>3, FinishFollows DEF ClockInv
<1>2. CASE Invalidates BY <1>1, <1>2, InvalidateForgets DEF FollowInv
<1>3. ASSUME ~Invalidates, ~crossed', NEW c \in Builds, Sought(c)' PROVE Follows(c)'
  <2>1. CASE IsNewest(c) /\ UNCHANGED <<db, run, deletion>>
    BY <2>1 DEF IsNewest, Follows, db, TypeOK
  <2>2. CASE Sought(c) /\ crossed' = crossed
    <3>1. Follows(c) BY <1>3, <2>2 DEF FollowInv
    <3> QED BY <1>3, <3>1, FinishFollows, OtherFollows
  <2> QED BY <1>3, <2>1, <2>2, LookupMoves
<1> QED BY <1>1, <1>2, <1>3 DEF FollowInv

\* CacheFollowsBuilds: the cache holds the newest build until the newer's run invalidates it.
THEOREM CacheFollows == Spec => []CacheFollowsBuilds
<1>1. Init => ClockInv /\ FollowInv BY DEF Init, ClockInv, FollowInv, Follows
<1>2. IInv /\ RowInv => TypeOK /\ KnownInv BY DEF IInv, RowInv
<1>3. TypeOK /\ FollowInv => CacheFollowsBuilds
  BY DEF TypeOK, FollowInv, Sought, Follows, CacheFollowsBuilds
<1> QED BY <1>1, <1>2, <1>3, Invariance, RowInvariance, FollowStep, PTL DEF Spec

=============================================================================
