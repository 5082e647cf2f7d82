--------------------------- MODULE InstanceCache ---------------------------
(***************************************************************************)
(* The API server's view of running sandboxes: the instance cache          *)
(* (packages/api/internal/cache/instance), the hooks the orchestrator      *)
(* client installs in it (packages/api/internal/orchestrator), the HTTP    *)
(* handlers that read and expire its entries, the evictor, and the loop    *)
(* that reconciles it with the node.                                       *)
(*                                                                         *)
(* Processes: one per HTTP request, one insert and one delete hook per     *)
(* InstanceInfo, the evictor and the sync loop.  A step is the code        *)
(* between two accesses to state another goroutine can change.  Time is    *)
(* abstracted to `expired`; one node and its gRPC server are modelled by   *)
(* what the API sees of them.                                              *)
(***************************************************************************)
EXTENDS Integers, FiniteSets

CONSTANTS
  Sandboxes,       \* sandbox ids
  Instances,       \* InstanceInfo objects; bounds the calls of Add
  Vms,             \* virtual machines the node may ever start (bound)
  Requests,        \* HTTP requests (bound)
  MaxSyncs,        \* rounds of the sync loop (bound)
  MaxNodeLosses,   \* times the node disappears from Nomad (bound)
  MaxVmDeaths,     \* VMs that die by themselves (bound)
  NoSandbox, NoInstance, NoVm

ASSUME CacheAssumption ==
  /\ NoSandbox \notin Sandboxes
  /\ NoInstance \notin Instances
  /\ NoVm \notin Vms
  /\ Instances \cap Vms = {}
  /\ MaxSyncs \in Nat
  /\ MaxNodeLosses \in Nat
  /\ MaxVmDeaths \in Nat

\* An API process makes only so many instances; it is what lets them be counted.
ASSUME InstancesAssumption == IsFiniteSet(Instances)

VARIABLES
  (* the cache *)
  running,       \* lifecycleCache.running
  pausing,       \* InstanceCache.pausing
  count,         \* sandboxCounter
  (* the InstanceInfo objects *)
  owner,         \* Instance.SandboxID; NoSandbox: not created yet
  start,         \* StartTime: own for a created one, its VM's for a listed one
  expired,       \* IsExpired()
  autoPause,     \* AutoPause
  outcome,       \* Pausing, a SetOnce
  insertHook,    \* where the insertInstance goroutine is
  deleteHook,    \* where the onEvict goroutine is
  (* the evictor *)
  evScan,        \* what is left of the pass's copy of the map
  evCur,         \* found expired, about to be removed
  (* HTTP requests *)
  mode,          \* "kill" or "pause": the flag its InstanceCache.Delete gets
  rpc,           \* where its handler is; "ok" and "failed" are answers
  rsb,           \* the sandbox it names
  rgot,          \* the instance or pausing entry it looked up
  rval,          \* the instance its second lookup (GetAndRemove) found
  (* the sync loop *)
  sPC,           \* "items": a List answer waits to be used
  sList,         \* the List answer, what is left of it to be looked up
  sGone,         \* cached but not listed, to be expired
  sCur,          \* found absent, to be added
  syncs,
  (* the node and the API's table of nodes *)
  vm,            \* the node's sandbox map
  started,       \* VMs started so far
  known,         \* the node is in o.nodes
  usage,         \* node.CPUUsage, in sandboxes
  dns,           \* the sandbox has a DNS record
  losses, deaths,
  (* the database *)
  build,         \* the snapshot build made by an instance's delete hook
  image,         \* the VM that build captured
  last           \* the build GetLastSnapshot returns

cacheVars   == <<running, pausing>>
instVars    == <<owner, start, expired, autoPause, outcome>>
hookVars    == <<insertHook, deleteHook>>
evictorVars == <<evScan, evCur>>
reqVars     == <<mode, rpc, rsb, rgot, rval>>
syncVars    == <<sPC, sList, sGone, sCur, syncs>>
nodeVars    == <<vm, started, known, losses, deaths>>
statVars    == <<count, usage, dns>>
dbVars      == <<build, image, last>>

vars == <<cacheVars, instVars, hookVars, evictorVars, reqVars, syncVars,
          nodeVars, statVars, dbVars>>
-----------------------------------------------------------------------------
RequestPC == {"new", "delGet", "delExpire", "delStore", "delMark", "waitPause",
              "keep", "dbKill", "lookup", "waitResume", "snapshot", "place", "add",
              "ok", "failed"}
InsertPC  == {"off", "node", "mark", "done"}
DeletePC  == {"off", "node", "branch", "mark", "newBuild", "pauseRpc", "status",
              "unmarkOk", "pauseOk", "fail", "deleteRpc", "return", "done"}

TypeOK ==
  /\ running \in [Sandboxes -> Instances \cup {NoInstance}]
  /\ pausing \in [Sandboxes -> Instances \cup {NoInstance}]
  /\ count \in Int
  /\ owner \in [Instances -> Sandboxes \cup {NoSandbox}]
  /\ start \in [Instances -> Instances \cup Vms \cup {NoVm}]
  /\ expired \in [Instances -> BOOLEAN]
  /\ autoPause \in [Instances -> BOOLEAN]
  /\ outcome \in [Instances -> {"pending", "ok", "failed"}]
  /\ insertHook \in [Instances -> InsertPC]
  /\ deleteHook \in [Instances -> DeletePC]
  /\ evScan \subseteq Instances
  /\ evCur \in Instances \cup {NoInstance}
  /\ mode \in [Requests -> {"none", "kill", "pause"}]
  /\ rpc \in [Requests -> RequestPC]
  /\ rsb \in [Requests -> Sandboxes \cup {NoSandbox}]
  /\ rgot \in [Requests -> Instances \cup {NoInstance}]
  /\ rval \in [Requests -> Instances \cup {NoInstance}]
  /\ sPC \in {"loop", "items"}
  /\ sGone \subseteq Sandboxes
  /\ sList \in [Sandboxes -> Vms \cup {NoVm}]
  /\ sCur \in Sandboxes \cup {NoSandbox}
  /\ syncs \in 0..MaxSyncs
  /\ vm \in [Sandboxes -> Vms \cup {NoVm}]
  /\ started \subseteq Vms
  /\ known \in BOOLEAN
  /\ usage \in Int
  /\ dns \in [Sandboxes -> BOOLEAN]
  /\ losses \in 0..MaxNodeLosses
  /\ deaths \in 0..MaxVmDeaths
  /\ build \in [Instances -> {"none", "building", "success", "deleted"}]
  /\ image \in [Instances -> Vms \cup {NoVm}]
  /\ last \in [Sandboxes -> Instances \cup {NoInstance}]
  /\ \A r \in Requests :
       /\ rpc[r] # "new" => rsb[r] \in Sandboxes
       /\ rpc[r] \in {"delExpire", "delStore", "delMark"} => rval[r] \in Instances
       /\ rpc[r] = "delMark" => mode[r] = "pause"
       /\ \/ rpc[r] \in {"waitPause", "waitResume", "keep"}
          \/ rpc[r] \in {"delGet", "delExpire", "delStore", "delMark"} /\ mode[r] = "pause"
          => rgot[r] \in Instances

\* The API process has just started: its maps are empty, it is connected to
\* no node, and the node may already run sandboxes that a previous API process
\* created.
Init ==
  /\ running = [s \in Sandboxes |-> NoInstance]
  /\ pausing = [s \in Sandboxes |-> NoInstance]
  /\ count = 0
  /\ owner = [i \in Instances |-> NoSandbox]
  /\ start = [i \in Instances |-> NoVm]
  /\ expired = [i \in Instances |-> FALSE]
  /\ autoPause = [i \in Instances |-> FALSE]
  /\ outcome = [i \in Instances |-> "pending"]
  /\ insertHook = [i \in Instances |-> "off"]
  /\ deleteHook = [i \in Instances |-> "off"]
  /\ evScan = {} /\ evCur = NoInstance
  /\ mode = [r \in Requests |-> "none"]
  /\ rpc = [r \in Requests |-> "new"]
  /\ rsb = [r \in Requests |-> NoSandbox]
  /\ rgot = [r \in Requests |-> NoInstance]
  /\ rval = [r \in Requests |-> NoInstance]
  /\ sPC = "loop" /\ sGone = {} /\ sCur = NoSandbox /\ syncs = 0
  /\ sList = [s \in Sandboxes |-> NoVm]
  /\ vm \in [Sandboxes -> Vms \cup {NoVm}]
  /\ \A s, t \in Sandboxes : vm[s] = vm[t] /\ vm[s] # NoVm => s = t
  /\ started = {vm[s] : s \in Sandboxes} \ {NoVm}
  /\ known = FALSE /\ usage = 0 /\ losses = 0 /\ deaths = 0
  /\ dns = [s \in Sandboxes |-> FALSE]
  /\ build = [i \in Instances |-> "none"]
  /\ image = [i \in Instances |-> NoVm]
  /\ last = [s \in Sandboxes |-> NoInstance]

-----------------------------------------------------------------------------
(* Operations of the cache, used by the steps below.                       *)

\* lifecycleCache.Get: an expired item is not found.
Available(s) == running[s] # NoInstance /\ ~expired[running[s]]

\* InstanceCache.MarkAsPausing
MarkAsPausing(i) ==
  pausing' = IF autoPause[i] /\ pausing[owner[i]] = NoInstance
               THEN [pausing EXCEPT ![owner[i]] = i]
               ELSE pausing

\* InstanceCache.UnmarkAsPausing: the entry is recognised by its StartTime.
UnmarkAsPausing(i) ==
  LET p == pausing[owner[i]]
  IN pausing' = IF p # NoInstance /\ start[p] = start[i]
                  THEN [pausing EXCEPT ![owner[i]] = NoInstance]
                  ELSE pausing

\* NewInstanceInfo and InstanceCache.Set: the insert hook is started only
\* for an instance that was not refused by SetIfAbsent.
NewInstance(i, s, st, ap) ==
  /\ owner[i] = NoSandbox
  /\ owner' = [owner EXCEPT ![i] = s]
  /\ start' = [start EXCEPT ![i] = st]
  /\ autoPause' = [autoPause EXCEPT ![i] = ap]

\* (Fault) the test for a present key is missing.
SetAlways(i, s) == /\ running' = [running EXCEPT ![s] = i]
                   /\ insertHook' = [insertHook EXCEPT ![i] = "node"]

SetIfAbsent(i, s) ==
  IF running[s] = NoInstance
    THEN /\ running' = [running EXCEPT ![s] = i]
         /\ insertHook' = [insertHook EXCEPT ![i] = "node"]
    ELSE UNCHANGED <<running, insertHook>>

SetExpired(i) == expired' = [expired EXCEPT ![i] = TRUE]
-----------------------------------------------------------------------------
(* The evictor: lifecycleCache.Start.                                      *)

\* the 50 ms pass begins with a copy of the map
EvictorWake ==
  /\ evScan = {} /\ evCur = NoInstance
  /\ evScan' = {running[s] : s \in Sandboxes} \ {NoInstance}
  /\ UNCHANGED <<cacheVars, instVars, hookVars, evCur, reqVars, syncVars,
                 nodeVars, statVars, dbVars>>

\* (Fault) instances that pause are left to a timer nobody sets.
EvictorCheckSkipping(i) ==
  /\ evCur = NoInstance
  /\ i \in evScan
  /\ evScan' = evScan \ {i}
  /\ evCur' = IF expired[i] /\ ~autoPause[i] THEN i ELSE NoInstance
  /\ UNCHANGED <<cacheVars, instVars, hookVars, reqVars, syncVars, nodeVars,
                 statVars, dbVars>>

EvictorCheck(i) ==
  /\ evCur = NoInstance
  /\ i \in evScan
  /\ evScan' = evScan \ {i}
  /\ evCur' = IF expired[i] THEN i ELSE NoInstance
  /\ UNCHANGED <<cacheVars, instVars, hookVars, reqVars, syncVars, nodeVars,
                 statVars, dbVars>>

\* RemoveCb removes whatever is under the key now and hands that to onEvict
EvictorRemove ==
  /\ evCur # NoInstance
  /\ LET s == owner[evCur]
         i == running[s]
     IN IF i = NoInstance
          THEN UNCHANGED <<running, deleteHook>>
          ELSE /\ running' = [running EXCEPT ![s] = NoInstance]
               /\ deleteHook' = [deleteHook EXCEPT ![i] = "node"]
  /\ evCur' = NoInstance
  /\ UNCHANGED <<pausing, instVars, insertHook, evScan, reqVars, syncVars,
                 nodeVars, statVars, dbVars>>
-----------------------------------------------------------------------------
(* The insert hook: getInsertInstanceFunction.                             *)

InsertHookNode(i) ==
  /\ insertHook[i] = "node"
  /\ IF known THEN /\ usage' = usage + 1
                   /\ dns' = [dns EXCEPT ![owner[i]] = TRUE]
              ELSE UNCHANGED <<usage, dns>>
  /\ insertHook' = [insertHook EXCEPT ![i] = "mark"]
  /\ UNCHANGED <<cacheVars, instVars, deleteHook, evictorVars, reqVars,
                 syncVars, nodeVars, count, dbVars>>

\* after the analytics call
InsertHookMark(i) ==
  /\ insertHook[i] = "mark"
  /\ MarkAsPausing(i)
  /\ insertHook' = [insertHook EXCEPT ![i] = "done"]
  /\ UNCHANGED <<running, instVars, deleteHook, evictorVars, reqVars,
                 syncVars, nodeVars, statVars, dbVars>>
-----------------------------------------------------------------------------
(* The delete hook: getDeleteInstanceFunction, PauseInstance and the       *)
(* counter update of the OnEviction callback.                              *)

HookGoto(i, l) == deleteHook' = [deleteHook EXCEPT ![i] = l]

\* (Fault) the usage is given back only by an instance that is not paused.
DeleteHookNodeKeepingUsage(i) ==
  /\ deleteHook[i] = "node"
  /\ IF known THEN /\ usage' = IF autoPause[i] THEN usage ELSE usage - 1
                   /\ dns' = [dns EXCEPT ![owner[i]] = FALSE]
                   /\ HookGoto(i, "branch")
              ELSE /\ UNCHANGED <<usage, dns>>
                   /\ HookGoto(i, "return")
  /\ UNCHANGED <<cacheVars, instVars, insertHook, evictorVars, reqVars,
                 syncVars, nodeVars, count, dbVars>>

\* without the node the hook returns, leaving Pausing unset
DeleteHookNode(i) ==
  /\ deleteHook[i] = "node"
  /\ IF known THEN /\ usage' = usage - 1
                   /\ dns' = [dns EXCEPT ![owner[i]] = FALSE]
                   /\ HookGoto(i, "branch")
              ELSE /\ UNCHANGED <<usage, dns>>
                   /\ HookGoto(i, "return")
  /\ UNCHANGED <<cacheVars, instVars, insertHook, evictorVars, reqVars,
                 syncVars, nodeVars, count, dbVars>>

DeleteHookBranch(i) ==
  /\ deleteHook[i] = "branch"
  /\ HookGoto(i, IF autoPause[i] THEN "mark" ELSE "deleteRpc")
  /\ UNCHANGED <<cacheVars, instVars, insertHook, evictorVars, reqVars,
                 syncVars, nodeVars, statVars, dbVars>>

DeleteHookMark(i) ==
  /\ deleteHook[i] = "mark"
  /\ MarkAsPausing(i)
  /\ HookGoto(i, "newBuild")
  /\ UNCHANGED <<running, instVars, insertHook, evictorVars, reqVars,
                 syncVars, nodeVars, statVars, dbVars>>

\* (Fault) the hook returns when the build cannot be made: no PauseDone(err).
NewSnapshotBuildUnanswered(i) ==
  /\ deleteHook[i] = "newBuild"
  /\ \/ /\ build' = [build EXCEPT ![i] = "building"]
        /\ HookGoto(i, "pauseRpc")
     \/ /\ HookGoto(i, "return")
        /\ UNCHANGED build
  /\ UNCHANGED <<cacheVars, instVars, insertHook, evictorVars, reqVars,
                 syncVars, nodeVars, statVars, image, last>>

NewSnapshotBuild(i) ==
  /\ deleteHook[i] = "newBuild"
  /\ \/ /\ build' = [build EXCEPT ![i] = "building"]
        /\ HookGoto(i, "pauseRpc")
     \/ /\ HookGoto(i, "fail")
        /\ UNCHANGED build
  /\ UNCHANGED <<cacheVars, instVars, insertHook, evictorVars, reqVars,
                 syncVars, nodeVars, statVars, image, last>>

\* (Fault) the node keeps the VM it has paused in its map.
PauseRpcKeepingVm(i) ==
  /\ deleteHook[i] = "pauseRpc"
  /\ LET s == owner[i]
     IN \/ /\ known /\ vm[s] # NoVm
           /\ image' = [image EXCEPT ![i] = vm[s]]
           /\ HookGoto(i, "status")
        \/ /\ HookGoto(i, "fail")
           /\ UNCHANGED image
  /\ UNCHANGED <<cacheVars, instVars, insertHook, evictorVars, reqVars,
                 syncVars, nodeVars, statVars, build, last>>

\* (Fault) PauseInstance drops the error of snapshotInstance.
PauseRpcUnchecked(i) ==
  /\ deleteHook[i] = "pauseRpc"
  /\ LET s == owner[i]
     IN IF known /\ vm[s] # NoVm
          THEN /\ image' = [image EXCEPT ![i] = vm[s]]
               /\ vm' = [vm EXCEPT ![s] = NoVm]
          ELSE UNCHANGED <<image, vm>>
  /\ HookGoto(i, "status")
  /\ UNCHANGED <<cacheVars, instVars, insertHook, evictorVars, reqVars,
                 syncVars, started, known, losses, deaths, statVars, build, last>>

\* snapshotInstance: the node pauses whatever VM it has under the id; it may
\* refuse, not know the id, or its answer may be lost after the pause
PauseRpc(i) ==
  /\ deleteHook[i] = "pauseRpc"
  /\ LET s == owner[i]
     IN \/ /\ known /\ vm[s] # NoVm
           /\ image' = [image EXCEPT ![i] = vm[s]]
           /\ vm' = [vm EXCEPT ![s] = NoVm]
           /\ \/ HookGoto(i, "status")
              \/ HookGoto(i, "fail")
        \/ /\ HookGoto(i, "fail")
           /\ UNCHANGED <<image, vm>>
  /\ UNCHANGED <<cacheVars, instVars, insertHook, evictorVars, reqVars,
                 syncVars, started, known, losses, deaths, statVars, build, last>>

\* (Fault) PauseInstance drops the error of EnvBuildSetStatus.
EnvBuildSetStatusUnchecked(i) ==
  /\ deleteHook[i] = "status"
  /\ HookGoto(i, "unmarkOk")
  /\ \/ /\ build' = [build EXCEPT ![i] = "success"]
        /\ last' = [last EXCEPT ![owner[i]] = i]
     \/ UNCHANGED <<build, last>>
  /\ UNCHANGED <<cacheVars, instVars, insertHook, evictorVars, reqVars,
                 syncVars, nodeVars, statVars, image>>

\* EnvBuildSetStatus updates no row, without an error, if the snapshot's
\* env has been deleted meanwhile
EnvBuildSetStatus(i) ==
  /\ deleteHook[i] = "status"
  /\ \/ /\ HookGoto(i, "unmarkOk")
        /\ IF build[i] = "building"
             THEN /\ build' = [build EXCEPT ![i] = "success"]
                  /\ last' = [last EXCEPT ![owner[i]] = i]
             ELSE UNCHANGED <<build, last>>
     \/ /\ HookGoto(i, "fail")
        /\ UNCHANGED <<build, last>>
  /\ UNCHANGED <<cacheVars, instVars, insertHook, evictorVars, reqVars,
                 syncVars, nodeVars, statVars, image>>

\* before PauseDone, so that whoever it wakes does not find the entry
DeleteHookUnmark(i) ==
  /\ deleteHook[i] = "unmarkOk"
  /\ UnmarkAsPausing(i)
  /\ HookGoto(i, "pauseOk")
  /\ UNCHANGED <<running, instVars, insertHook, evictorVars, reqVars,
                 syncVars, nodeVars, statVars, dbVars>>

\* (Fault) the hook returns the error without PauseDone(err).
PauseDoneOnlyOk(i) ==
  /\ deleteHook[i] \in {"pauseOk", "fail"}
  /\ outcome' = [outcome EXCEPT ![i] =
                   IF deleteHook[i] = "pauseOk" THEN "ok" ELSE @]
  /\ HookGoto(i, "return")
  /\ UNCHANGED <<cacheVars, owner, start, expired, autoPause, insertHook,
                 evictorVars, reqVars, syncVars, nodeVars, statVars, dbVars>>

PauseDone(i) ==
  /\ deleteHook[i] \in {"pauseOk", "fail"}
  /\ outcome' = [outcome EXCEPT ![i] =
                   IF outcome[i] # "pending" THEN @
                   ELSE IF deleteHook[i] = "pauseOk" THEN "ok" ELSE "failed"]
  /\ HookGoto(i, "return")
  /\ UNCHANGED <<cacheVars, owner, start, expired, autoPause, insertHook,
                 evictorVars, reqVars, syncVars, nodeVars, statVars, dbVars>>

\* SandboxService.Delete: the node stops whatever VM it has under the id, or
\* the call fails
DeleteRpc(i) ==
  /\ deleteHook[i] = "deleteRpc"
  /\ \/ known /\ vm' = [vm EXCEPT ![owner[i]] = NoVm]
     \/ UNCHANGED vm
  /\ HookGoto(i, "return")
  /\ UNCHANGED <<cacheVars, instVars, insertHook, evictorVars, reqVars,
                 syncVars, started, known, losses, deaths, statVars, dbVars>>

\* the deferred UnmarkAsPausing, then UpdateCounters, which nobody reads
DeleteHookReturn(i) ==
  /\ deleteHook[i] = "return"
  /\ UnmarkAsPausing(i)
  /\ count' = count - 1
  /\ HookGoto(i, "done")
  /\ UNCHANGED <<running, instVars, insertHook, evictorVars, reqVars,
                 syncVars, nodeVars, usage, dns, dbVars>>

-----------------------------------------------------------------------------
(* HTTP handlers.                                                          *)

Found(r, l, i) == /\ rpc' = [rpc EXCEPT ![r] = l]
                  /\ rgot' = [rgot EXCEPT ![r] = i]

Goto(r, l) == rpc' = [rpc EXCEPT ![r] = l] /\ UNCHANGED rgot

\* a 2xx answer is "ok", a 4xx or 5xx one "failed"
Answer(r, a) == Found(r, a, NoInstance)

Request(r, s, m) == /\ rpc[r] = "new"
                    /\ mode' = [mode EXCEPT ![r] = m]
                    /\ rsb' = [rsb EXCEPT ![r] = s]
                    /\ UNCHANGED rval

Unused(s) == /\ vm[s] = NoVm
             /\ \A i \in Instances : owner[i] # s
             /\ \A r \in Requests : rsb[r] # s

\* PostSandboxes draws a fresh id and goes straight to the node
Create(r, s) ==
  /\ Request(r, s, "none")
  /\ Unused(s)
  /\ Goto(r, "place")
  /\ UNCHANGED <<cacheVars, instVars, hookVars, evictorVars, syncVars, nodeVars,
                 statVars, dbVars>>

Resume(r, s) ==
  /\ Request(r, s, "none")
  /\ IF Available(s) THEN Answer(r, "failed") ELSE Goto(r, "lookup")
  /\ UNCHANGED <<cacheVars, instVars, hookVars, evictorVars, syncVars, nodeVars,
                 statVars, dbVars>>

Refresh(r, s) ==
  /\ Request(r, s, "none")
  /\ IF Available(s) THEN Found(r, "keep", running[s]) ELSE Answer(r, "failed")
  /\ UNCHANGED <<cacheVars, instVars, hookVars, evictorVars, syncVars, nodeVars,
                 statVars, dbVars>>

Pause(r, s) ==
  /\ Request(r, s, "pause")
  /\ IF Available(s) THEN Found(r, "delGet", running[s])
     ELSE Answer(r, "failed")
  /\ UNCHANGED <<cacheVars, instVars, hookVars, evictorVars, syncVars, nodeVars,
                 statVars, dbVars>>

Kill(r, s) ==
  /\ Request(r, s, "kill")
  /\ Goto(r, IF Available(s) THEN "delGet" ELSE "dbKill")
  /\ UNCHANGED <<cacheVars, instVars, hookVars, evictorVars, syncVars, nodeVars,
                 statVars, dbVars>>

\* a sandbox that is not cached is killed by deleting the env of its
\* snapshots, and all their builds with it
KillPaused(r) ==
  /\ rpc[r] = "dbKill"
  /\ LET rows == {i \in Instances : owner[i] = rsb[r] /\ build[i] \in {"building", "success"}}
     IN \/ /\ Answer(r, IF rows = {} THEN "failed" ELSE "ok")
           /\ build' = [i \in Instances |-> IF i \in rows THEN "deleted" ELSE build[i]]
           /\ last' = [last EXCEPT ![rsb[r]] = NoInstance]
        \/ Answer(r, "failed") /\ UNCHANGED <<build, last>>
  /\ UNCHANGED <<cacheVars, instVars, hookVars, evictorVars, mode, rsb, rval,
                 syncVars, nodeVars, statVars, image>>

\* (Fault) Delete does not look at `found`.
DeleteGetUnchecked(r) ==
  /\ rpc[r] = "delGet"
  /\ Goto(r, "delExpire") /\ rval' = [rval EXCEPT ![r] = running[rsb[r]]]
  /\ UNCHANGED <<cacheVars, instVars, hookVars, evictorVars, mode, rsb, syncVars,
                 nodeVars, statVars, dbVars>>

\* InstanceCache.Delete looks the sandbox up for itself
DeleteGet(r) ==
  /\ rpc[r] = "delGet"
  /\ IF Available(rsb[r])
       THEN Goto(r, "delExpire") /\ rval' = [rval EXCEPT ![r] = running[rsb[r]]]
       ELSE Answer(r, "failed") /\ UNCHANGED rval
  /\ UNCHANGED <<cacheVars, instVars, hookVars, evictorVars, mode, rsb, syncVars,
                 nodeVars, statVars, dbVars>>

\* (Fault) GetAndRemove removes, as its name says.
DeleteExpireAndRemove(r) ==
  /\ rpc[r] = "delExpire"
  /\ SetExpired(rval[r])
  /\ running' = [running EXCEPT ![rsb[r]] = NoInstance]
  /\ Goto(r, "delStore")
  /\ UNCHANGED <<pausing, owner, start, autoPause, outcome, hookVars,
                 evictorVars, mode, rsb, rval, syncVars, nodeVars, statVars, dbVars>>

DeleteExpire(r) ==
  /\ rpc[r] = "delExpire"
  /\ SetExpired(rval[r])
  /\ Goto(r, "delStore")
  /\ UNCHANGED <<cacheVars, owner, start, autoPause, outcome, hookVars,
                 evictorVars, mode, rsb, rval, syncVars, nodeVars, statVars, dbVars>>

DeleteStore(r) ==
  /\ rpc[r] = "delStore"
  /\ autoPause' = [autoPause EXCEPT ![rval[r]] = (mode[r] = "pause")]
  /\ IF mode[r] = "pause" THEN Goto(r, "delMark") ELSE Answer(r, "ok")
  /\ UNCHANGED <<cacheVars, owner, start, expired, outcome, hookVars,
                 evictorVars, mode, rsb, rval, syncVars, nodeVars, statVars, dbVars>>

DeleteMark(r) ==
  /\ rpc[r] = "delMark"
  /\ MarkAsPausing(rval[r])
  /\ rval' = [rval EXCEPT ![r] = NoInstance]
  /\ Goto(r, "waitPause")
  /\ UNCHANGED <<running, instVars, hookVars, evictorVars, mode, rsb,
                 syncVars, nodeVars, statVars, dbVars>>

\* the pause handler waits on the instance of its first lookup
WaitPause(r) ==
  /\ rpc[r] = "waitPause"
  /\ outcome[rgot[r]] # "pending"
  /\ Answer(r, outcome[rgot[r]])
  /\ UNCHANGED <<cacheVars, instVars, hookVars, evictorVars, mode, rsb, rval,
                 syncVars, nodeVars, statVars, dbVars>>

\* the client gives up and the request's context ends
WaitCancelled(r) ==
  /\ rpc[r] \in {"waitPause", "waitResume"}
  /\ Answer(r, "failed")
  /\ UNCHANGED <<cacheVars, instVars, hookVars, evictorVars, mode, rsb, rval,
                 syncVars, nodeVars, statVars, dbVars>>

\* KeepAliveFor after its Get: the end time is late enough already, or it is
\* moved, or the instance is too old and what is cached now is expired; the
\* node is told the new end time, which may fail the request
KeepAlive(r) ==
  /\ rpc[r] = "keep"
  /\ \/ /\ \E a \in {"ok", "failed"} : Answer(r, a)
        /\ \/ UNCHANGED expired
           \/ expired' = [expired EXCEPT ![rgot[r]] = FALSE]
     \/ /\ Answer(r, "failed")
        /\ Available(rsb[r])
        /\ SetExpired(running[rsb[r]])
  /\ UNCHANGED <<cacheVars, owner, start, autoPause, outcome, hookVars,
                 evictorVars, mode, rsb, rval, syncVars, nodeVars, statVars, dbVars>>

\* WaitForPause: an entry of the pausing map, or ErrPausingInstanceNotFound
ResumeLookup(r) ==
  /\ rpc[r] = "lookup"
  /\ LET p == pausing[rsb[r]]
     IN IF p = NoInstance THEN Goto(r, "snapshot") ELSE Found(r, "waitResume", p)
  /\ UNCHANGED <<cacheVars, instVars, hookVars, evictorVars, mode, rsb, rval,
                 syncVars, nodeVars, statVars, dbVars>>

ResumeWait(r) ==
  /\ rpc[r] = "waitResume"
  /\ outcome[rgot[r]] # "pending"
  /\ IF outcome[rgot[r]] = "ok" THEN Found(r, "snapshot", NoInstance)
                                ELSE Answer(r, "failed")
  /\ UNCHANGED <<cacheVars, instVars, hookVars, evictorVars, mode, rsb, rval,
                 syncVars, nodeVars, statVars, dbVars>>

ResumeSnapshot(r) ==
  /\ rpc[r] = "snapshot"
  /\ IF last[rsb[r]] = NoInstance THEN Answer(r, "failed") ELSE Goto(r, "place")
  /\ UNCHANGED <<cacheVars, instVars, hookVars, evictorVars, mode, rsb, rval,
                 syncVars, nodeVars, statVars, dbVars>>

\* CreateSandbox's Create RPC: the VM is started and the answer arrives, or
\* the answer is lost, or the node refuses; the retries end the same ways
Place(r) ==
  /\ rpc[r] = "place"
  /\ \/ /\ known
        /\ \E v \in Vms \ started :
             /\ started' = started \cup {v}
             /\ vm' = [vm EXCEPT ![rsb[r]] = v]
        /\ Goto(r, "add") \/ Answer(r, "failed")
     \/ Answer(r, "failed") /\ UNCHANGED <<vm, started>>
  /\ UNCHANGED <<cacheVars, instVars, hookVars, evictorVars, mode, rsb, rval,
                 syncVars, known, losses, deaths, statVars, dbVars>>

\* InstanceCache.Add of the new sandbox; UpdateCounters counts it whether or
\* not SetIfAbsent took it
Add(r, i, ap) ==
  /\ rpc[r] = "add"
  /\ NewInstance(i, rsb[r], i, ap)
  /\ SetIfAbsent(i, rsb[r])
  /\ count' = count + 1
  /\ Answer(r, "ok")
  /\ UNCHANGED <<pausing, expired, outcome, deleteHook, evictorVars, mode, rsb,
                 rval, syncVars, nodeVars, usage, dns, dbVars>>
-----------------------------------------------------------------------------
(* The sync loop: syncNode and InstanceCache.Sync.                         *)

SyncIdle == /\ sPC = "loop" /\ sGone = {} /\ sCur = NoSandbox
            /\ \A s \in Sandboxes : sList[s] = NoVm

\* the List RPC answers; it may be old by the time it is used
SyncList ==
  /\ SyncIdle /\ syncs < MaxSyncs /\ known
  /\ syncs' = syncs + 1
  /\ sList' = vm
  /\ sPC' = "items"
  /\ UNCHANGED <<cacheVars, instVars, hookVars, evictorVars, reqVars, sGone,
                 sCur, nodeVars, statVars, dbVars>>

SyncItems ==
  /\ sPC = "items"
  /\ sGone' = {s \in Sandboxes : Available(s) /\ sList[s] = NoVm}
  /\ sPC' = "loop"
  /\ UNCHANGED <<cacheVars, instVars, hookVars, evictorVars, reqVars, sList,
                 sCur, syncs, nodeVars, statVars, dbVars>>

\* Remove looks the key up again
SyncRemove(s) ==
  /\ s \in sGone
  /\ IF Available(s) THEN SetExpired(running[s]) ELSE UNCHANGED expired
  /\ sGone' = sGone \ {s}
  /\ UNCHANGED <<cacheVars, owner, start, autoPause, outcome, hookVars,
                 evictorVars, reqVars, sPC, sList, sCur, syncs, nodeVars,
                 statVars, dbVars>>

SyncExists(s) ==
  /\ sPC = "loop" /\ sGone = {} /\ sCur = NoSandbox /\ sList[s] # NoVm
  /\ IF Available(s)
       THEN sList' = [sList EXCEPT ![s] = NoVm] /\ UNCHANGED sCur
       ELSE sCur' = s /\ UNCHANGED sList
  /\ UNCHANGED <<cacheVars, instVars, hookVars, evictorVars, reqVars, sPC,
                 sGone, syncs, nodeVars, statVars, dbVars>>

SyncAdd(i, ap) ==
  /\ sCur # NoSandbox
  /\ NewInstance(i, sCur, sList[sCur], ap)
  /\ SetIfAbsent(i, sCur)
  /\ count' = count + 1
  /\ sCur' = NoSandbox /\ sList' = [sList EXCEPT ![sCur] = NoVm]
  /\ UNCHANGED <<pausing, expired, outcome, deleteHook, evictorVars, reqVars,
                 sPC, sGone, syncs, nodeVars, usage, dns, dbVars>>

\* Nomad no longer lists the node: its client is closed and it is forgotten
NodeLost ==
  /\ SyncIdle /\ known /\ losses < MaxNodeLosses
  /\ losses' = losses + 1
  /\ known' = FALSE
  /\ UNCHANGED <<cacheVars, instVars, hookVars, evictorVars, reqVars, syncVars,
                 vm, started, deaths, statVars, dbVars>>

\* connectToNode makes a Node with no usage, whatever the cache holds
ConnectToNode ==
  /\ SyncIdle /\ ~known
  /\ known' = TRUE
  /\ usage' = 0
  /\ UNCHANGED <<cacheVars, instVars, hookVars, evictorVars, reqVars, syncVars,
                 vm, started, losses, deaths, count, dns, dbVars>>
-----------------------------------------------------------------------------
(* The environment.                                                        *)

\* the end time passes
Expire(i) ==
  /\ owner[i] # NoSandbox /\ running[owner[i]] = i
  /\ ~expired[i]
  /\ SetExpired(i)
  /\ UNCHANGED <<cacheVars, owner, start, autoPause, outcome, hookVars,
                 evictorVars, reqVars, syncVars, nodeVars, statVars, dbVars>>

\* a VM dies and the node forgets it
VmDies(s) ==
  /\ vm[s] # NoVm /\ deaths < MaxVmDeaths
  /\ deaths' = deaths + 1
  /\ vm' = [vm EXCEPT ![s] = NoVm]
  /\ UNCHANGED <<cacheVars, instVars, hookVars, evictorVars, reqVars, syncVars,
                 started, known, losses, statVars, dbVars>>
-----------------------------------------------------------------------------
Evictor == EvictorWake \/ EvictorRemove \/ \E i \in Instances : EvictorCheck(i)

InsertHook(i) == InsertHookNode(i) \/ InsertHookMark(i)

DeleteHook(i) == \/ DeleteHookNode(i) \/ DeleteHookBranch(i) \/ DeleteHookMark(i)
                 \/ NewSnapshotBuild(i) \/ PauseRpc(i) \/ EnvBuildSetStatus(i)
                 \/ DeleteHookUnmark(i) \/ PauseDone(i) \/ DeleteRpc(i)
                 \/ DeleteHookReturn(i)

Arrive(r) == \E s \in Sandboxes : Create(r, s) \/ Resume(r, s) \/ Refresh(r, s)
                                   \/ Pause(r, s) \/ Kill(r, s)

Handle(r) == \/ KillPaused(r) \/ DeleteGet(r) \/ DeleteExpire(r) \/ DeleteStore(r) \/ DeleteMark(r)
             \/ WaitPause(r) \/ KeepAlive(r)
             \/ ResumeLookup(r) \/ ResumeWait(r) \/ ResumeSnapshot(r)
             \/ Place(r)
             \/ \E i \in Instances, ap \in BOOLEAN : Add(r, i, ap)

Sync == \/ SyncItems
        \/ \E s \in Sandboxes : SyncRemove(s) \/ SyncExists(s)
        \/ \E i \in Instances, ap \in BOOLEAN : SyncAdd(i, ap)

Environment == \/ SyncList \/ NodeLost \/ ConnectToNode
               \/ \E i \in Instances : Expire(i)
               \/ \E s \in Sandboxes : VmDies(s)
               \/ \E r \in Requests : WaitCancelled(r)

Next == \/ Evictor \/ Sync \/ Environment
        \/ \E i \in Instances : InsertHook(i) \/ DeleteHook(i)
        \/ \E r \in Requests : Arrive(r) \/ Handle(r)

Spec == Init /\ [][Next]_vars

\* The evictor and the sync loop never stop, a hook that has been started is
\* run (its calls end by cacheHookTimeout), and so is a handler; nothing
\* makes a client call, a node fail or a sandbox expire.
Fairness ==
  /\ WF_vars(Evictor)
  /\ WF_vars(Sync)
  /\ \A i \in Instances : WF_vars(InsertHook(i)) /\ WF_vars(DeleteHook(i))
  /\ \A r \in Requests : WF_vars(Handle(r))

FairSpec == Spec /\ Fairness
-----------------------------------------------------------------------------
(* What is checked.                                                        *)

\* Where an instance is in its life, as InstanceLifecycle sees it.
Phase(i) == IF owner[i] = NoSandbox THEN "new"
            ELSE IF running[owner[i]] = i THEN "cached"
            ELSE IF deleteHook[i] = "off" THEN "refused"
            ELSE IF deleteHook[i] = "done" THEN "gone"
            ELSE "evicted"

\* Whatever requests, evictor, hooks and sync do, every instance lives the
\* life InstanceLifecycle describes: at most one is cached per sandbox, and
\* each one that was cached gets exactly one delete hook.
Lifecycle == INSTANCE InstanceLifecycle WITH phase <- [i \in Instances |-> Phase(i)]
Refinement == Lifecycle!LSpec

\* RemoveCb takes out whatever is under the key, not the value whose expiry
\* the evictor checked; the two are nevertheless always the same, because
\* nobody else removes from or overwrites lifecycleCache.running.
EvictorHoldsWhatItChecked ==
  evCur # NoInstance => running[owner[evCur]] = evCur

HooksQuiet == \A i \in Instances : /\ insertHook[i] \in {"off", "done"}
                                   /\ deleteHook[i] \in {"off", "done"}

InPhase(p) == {i \in Instances : Phase(i) = p}

\* The node's usage is written by insert and delete hooks that run in any
\* order; once none is running it is what the cache holds, as long as the
\* node was not forgotten.
UsageSettles ==
  HooksQuiet /\ losses = 0 => usage = Cardinality(InPhase("cached"))

\* A pause is reported as done, to the pause request and to the resumes that
\* wait for it, only if a VM was captured and its build marked successful
\* (or deleted since by a kill).
PauseBacked == \A i \in Instances : outcome[i] = "ok" =>
                  image[i] # NoVm /\ build[i] \in {"success", "deleted"}

\* The stretch of a delete hook that pauses: from its MarkAsPausing to
\* PauseDone, with every error of PauseInstance in between.
Pausing == {"mark", "newBuild", "pauseRpc", "status", "unmarkOk", "pauseOk", "fail"}

\* A delete hook that began to pause leaves the pause only with Pausing set,
\* whether the build could not be made (NewSnapshotBuild), the node failed
\* (snapshotInstance), the status was not written or all went well.
PauseAnswered == [][\A i \in Instances :
  deleteHook[i] \in Pausing /\ deleteHook'[i] \notin Pausing => outcome'[i] # "pending"]_vars

\* A VM is captured by at most one snapshot: the node forgets it before it
\* answers, so no second hook, nor an instance the sync loop adds, pauses it
\* again.
SavedOnce == \A i, j \in Instances : image[i] = image[j] /\ image[i] # NoVm => i = j

\* An instance that has expired and is not refreshed leaves the cache, and
\* its delete hook runs to the end.
ExpiredIsEvicted == \A i \in Instances :
  (Phase(i) = "cached" /\ expired[i]) ~> (Phase(i) = "gone" \/ ~expired[i])

\* A pause or resume request that waits for an instance whose delete hook
\* has started to pause it is answered or goes on.
WaiterReleased == \A r \in Requests, i \in Instances :
  (rpc[r] \in {"waitPause", "waitResume"} /\ rgot[r] = i /\ deleteHook[i] = "newBuild")
     ~> rpc[r] \notin {"waitPause", "waitResume"}

\* A pause request has expired the instance of s but not yet marked it, or
\* the pause itself is running.
PauseUnderWay(s) ==
  \/ \E r \in Requests : mode[r] = "pause" /\ rsb[r] = s /\ rpc[r] \in {"delStore", "delMark"}
  \/ \E i \in Instances : owner[i] = s /\ deleteHook[i] \in {"newBuild", "pauseRpc", "status"}

\* "Wait for any pausing for this sandbox in progress" (sandbox_resume.go):
\* a resume does not go on to the snapshots while a pause is under way.
\* Violated: Delete expires the instance, so that Get no longer finds it,
\* before it puts it in the pausing map.
ResumeWaits == [][\A r \in Requests :
  rpc[r] = "lookup" /\ rpc'[r] = "snapshot" => ~PauseUnderWay(rsb[r])]_vars

\* "Set end time to now and trigger the eviction" (lifecycle_cache.go): a
\* sandbox whose kill was answered stays expired.  Violated: KeepAliveFor,
\* which looked the instance up before, sets a new end time after.
KilledStaysKilled == \A r \in Requests :
  mode[r] = "kill" /\ rpc[r] = "ok" /\ rval[r] # NoInstance => expired[rval[r]]

=============================================================================
