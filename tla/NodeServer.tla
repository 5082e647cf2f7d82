----------------------------- MODULE NodeServer -----------------------------
(***************************************************************************)
(* The server of a node (packages/orchestrator/internal/server) and what   *)
(* it does to run a sandbox (internal/sandbox): Create brings up a slot,   *)
(* a root filesystem, a page fault handler and a Firecracker process, and  *)
(* registers for each a function that cleans it up; Delete and Pause take  *)
(* the sandbox out of the map and stop it; one goroutine per sandbox waits *)
(* for its end.  Whoever stops a sandbox runs its cleanup, once.           *)
(*                                                                         *)
(* A call c of Create stands for the Sandbox object it makes, too.  Its    *)
(* cleanup list is the first cleanup[c] members of CleanupOrder: functions *)
(* are registered in that order and run from the last to the first.  (The  *)
(* one that removes private files is left out.)                            *)
(***************************************************************************)
EXTENDS NetworkPool, FiniteSets

CONSTANTS
  Ids,                      \* sandbox ids
  Requests,                 \* calls of Delete and Pause (bound)
  maxParalellSnapshotting,
  MaxRestarts,              \* restarts of the process (bound)
  DisconnectFails,          \* the kernel may fail to disconnect a device in time
  NoId, NoCall, NoRequest

ASSUME ServerAssumption ==
  /\ NoId \notin Ids
  /\ NoCall \notin Calls
  /\ NoRequest \notin Requests
  /\ maxParalellSnapshotting \in Nat \ {0}
  /\ MaxRestarts \in Nat
  /\ DisconnectFails \in BOOLEAN

VARIABLES
  (* server *)
  sandboxes,   \* server.sandboxes
  dns,         \* the records of the node's DNS server
  pauseQueue,  \* what is left of the semaphore
  pauseMu,     \* who holds it
  restarts,
  (* one Create call and the Sandbox it makes *)
  pc,          \* where Create is; "ok" and "error" are answers
  sid,         \* Config.SandboxId
  cleanup,     \* cleanup functions registered so far
  left,        \* those that Cleanup.Run has still to run
  priority,    \* the priority cleanup function is registered
  run,         \* Cleanup.Run: "no", "priority", "list", "done"
  vm,          \* the Firecracker process; "booting" has loaded no snapshot yet
  uffd,        \* the page fault handler
  mount,       \* the NBD mount of the root filesystem
  cache,       \* its overlay cache
  finished,    \* CowDevice.finishedOperations holds its token
  life,        \* where the goroutine that waits for the sandbox is
  stopping,    \* a "go sbx.Stop()" was spawned and has not run yet
  (* one Delete or Pause call *)
  rpc,         \* where it is
  rid,         \* the sandbox id it names
  rgot,        \* the sandbox it found
  permit       \* it holds a permit of pauseQueue

serverVars == <<sandboxes, dns>>
queueVars  == <<pauseQueue, pauseMu, permit>>
ownVars    == <<pc, sid>>
cleanVars  == <<cleanup, left, priority, run>>
mountVars  == <<mount, cache, finished>>
procVars   == <<vm, uffd>>
lifeVars   == <<life, stopping>>
reqVars    == <<rpc, rid, rgot>>

vars == <<poolVars, serverVars, queueVars, ownVars, cleanVars, mountVars,
          procVars, lifeVars, reqVars, restarts>>

CleanupOrder == <<"slot", "rootfs", "uffd", "dns">>
-----------------------------------------------------------------------------
CreatePC == {"new", "get", "getNew", "overlay", "uffd", "fc", "boot", "resume",
             "envd", "insert", "cleanup", "ok", "error", "gone"}
LifePC   == {"off", "wait", "stop", "remove", "done"}
DeletePC == {"delDns", "delRemove", "delStop", "delWait"}
PausePC  == {"acquire", "lock", "get", "pauseDns", "pauseRemove", "files", "memory",
             "eject", "export", "addSnapshot"}

TypeOK ==
  /\ PoolTypeOK
  /\ sandboxes \in [Ids -> Calls \cup {NoCall}]
  /\ dns \in [Ids -> Slots \cup {NoSlot}]
  /\ pauseQueue \in 0..maxParalellSnapshotting
  /\ pauseMu \in Requests \cup {NoRequest}
  /\ restarts \in 0..MaxRestarts
  /\ pc \in [Calls -> CreatePC]
  /\ sid \in [Calls -> Ids \cup {NoId}]
  /\ cleanup \in [Calls -> 0..4]
  /\ left \in [Calls -> 0..4]
  /\ priority \in [Calls -> BOOLEAN]
  /\ run \in [Calls -> {"no", "priority", "list", "done"}]
  /\ vm \in [Calls -> {"none", "booting", "running", "killed", "exited"}]
  /\ uffd \in [Calls -> {"none", "serving", "stopped", "exited"}]
  /\ mount \in [Calls -> {"none", "opening", "open", "failed", "closing", "late",
                          "closed", "stuck", "released"}]
  /\ cache \in [Calls -> {"none", "open", "ejected", "closed"}]
  /\ finished \in [Calls -> BOOLEAN]
  /\ life \in [Calls -> LifePC]
  /\ stopping \in [Calls -> BOOLEAN]
  /\ rpc \in [Requests -> {"new", "ok", "error"} \cup DeletePC \cup PausePC]
  /\ rid \in [Requests -> Ids \cup {NoId}]
  /\ rgot \in [Requests -> Calls \cup {NoCall}]
  /\ permit \in [Requests -> BOOLEAN]
  /\ \A c \in Calls : pc[c] # "new" => sid[c] \in Ids
  /\ \A r \in Requests :
       /\ rpc[r] # "new" => rid[r] \in Ids
       /\ rpc[r] \in (DeletePC \cup PausePC) \ {"acquire", "lock", "get"} => rgot[r] \in Calls

Init ==
  /\ PoolInit
  /\ sandboxes = [s \in Ids |-> NoCall]
  /\ dns = [s \in Ids |-> NoSlot]
  /\ pauseQueue = maxParalellSnapshotting
  /\ pauseMu = NoRequest
  /\ restarts = 0
  /\ pc = [c \in Calls |-> "new"]
  /\ sid = [c \in Calls |-> NoId]
  /\ cleanup = [c \in Calls |-> 0]
  /\ left = [c \in Calls |-> 0]
  /\ priority = [c \in Calls |-> FALSE]
  /\ run = [c \in Calls |-> "no"]
  /\ vm = [c \in Calls |-> "none"]
  /\ uffd = [c \in Calls |-> "none"]
  /\ mount = [c \in Calls |-> "none"]
  /\ cache = [c \in Calls |-> "none"]
  /\ finished = [c \in Calls |-> FALSE]
  /\ life = [c \in Calls |-> "off"]
  /\ stopping = [c \in Calls |-> FALSE]
  /\ rpc = [r \in Requests |-> "new"]
  /\ rid = [r \in Requests |-> NoId]
  /\ rgot = [r \in Requests |-> NoCall]
  /\ permit = [r \in Requests |-> FALSE]
-----------------------------------------------------------------------------
(* Small helpers: move a Create call, its goroutine or a request.          *)

Move(c, from, to) == pc[c] = from /\ pc' = [pc EXCEPT ![c] = to]
LifeGoto(c, from, to) == life[c] = from /\ life' = [life EXCEPT ![c] = to]
ReqGoto(r, from, to) == rpc[r] = from /\ rpc' = [rpc EXCEPT ![r] = to]

Alive(c) == vm[c] \in {"booting", "running"}
Kill(c) == vm' = IF Alive(c) THEN [vm EXCEPT ![c] = "killed"] ELSE vm
StopUffd(c) == uffd' = IF uffd[c] = "serving" THEN [uffd EXCEPT ![c] = "stopped"] ELSE uffd

\* (Fault) Cleanup.Run without the once.
BeginCleanupAgain(c) == run' = [run EXCEPT ![c] = "priority"]

\* Cleanup.Run by whoever comes first; the others wait until it is done.
BeginCleanup(c) == run' = IF run[c] = "no" THEN [run EXCEPT ![c] = "priority"] ELSE run

\* (Fault) The deferred release is not the same as releaseLock.
ReleasePermitAlways(r) == /\ pauseQueue' = pauseQueue + 1
                          /\ permit' = [permit EXCEPT ![r] = FALSE]

\* releaseOnce.
ReleasePermit(r) == IF permit[r] THEN /\ pauseQueue' = pauseQueue + 1
                                      /\ permit' = [permit EXCEPT ![r] = FALSE]
                                 ELSE UNCHANGED <<pauseQueue, permit>>
-----------------------------------------------------------------------------
(* server.Create and NewSandbox.                                           *)

Create(c, s) == /\ Move(c, "new", "get")
                /\ sid' = [sid EXCEPT ![c] = s]
                /\ UNCHANGED <<poolVars, serverVars, queueVars, cleanVars, mountVars,
                               procVars, lifeVars, reqVars, restarts>>

\* The template is there (else Create fails), so Pool.Get, and its cleanup
\* function.
GetReused(c) == /\ Move(c, "get", "overlay")
                /\ TakeReused(c)
                /\ cleanup' = [cleanup EXCEPT ![c] = 1]
                /\ UNCHANGED <<serverVars, queueVars, sid, left, priority, run, mountVars,
                               procVars, lifeVars, reqVars, restarts>>

GetNoReused(c) == /\ Move(c, "get", "getNew")
                  /\ reusedSlots = <<>>
                  /\ UNCHANGED <<poolVars, serverVars, queueVars, sid, cleanVars,
                                 mountVars, procVars, lifeVars, reqVars, restarts>>

GetNew(c) == /\ Move(c, "getNew", "overlay")
             /\ TakeNew(c)
             /\ cleanup' = [cleanup EXCEPT ![c] = 1]
             /\ UNCHANGED <<serverVars, queueVars, sid, left, priority, run, mountVars,
                            procVars, lifeVars, reqVars, restarts>>

\* The overlay's cache file, its cleanup function, and "go rootfsOverlay.Start".
NewCowDevice(c) == /\ Move(c, "overlay", "uffd")
                   /\ cleanup' = [cleanup EXCEPT ![c] = 2]
                   /\ mount' = [mount EXCEPT ![c] = "opening"]
                   /\ cache' = [cache EXCEPT ![c] = "open"]
                   /\ UNCHANGED <<poolVars, serverVars, queueVars, sid, left, priority, run,
                                  finished, procVars, lifeVars, reqVars, restarts>>

UffdStart(c) == /\ Move(c, "uffd", "fc")
                /\ cleanup' = [cleanup EXCEPT ![c] = 3]
                /\ uffd' = [uffd EXCEPT ![c] = "serving"]
                /\ UNCHANGED <<poolVars, serverVars, queueVars, sid, left, priority, run,
                               mountVars, vm, lifeVars, reqVars, restarts>>

\* Process.Start up to cmd.Start.
FcStart(c) == /\ Move(c, "fc", "boot")
              /\ vm' = [vm EXCEPT ![c] = "booting"]
              /\ UNCHANGED <<poolVars, serverVars, queueVars, sid, cleanVars, mountVars,
                             uffd, lifeVars, reqVars, restarts>>

\* The process answers on its socket, and CowDevice.Path waits for the mount.
RootfsPath(c) == /\ Move(c, "boot", "resume")
                 /\ mount[c] = "open"
                 /\ UNCHANGED <<poolVars, serverVars, queueVars, sid, cleanVars,
                                mountVars, procVars, lifeVars, reqVars, restarts>>

\* Load the snapshot, with the page fault handler's help, resume, and register
\* the function that stops it all.
ResumeVM(c) == /\ Move(c, "resume", "envd")
               /\ vm[c] = "booting" /\ uffd[c] = "serving"
               /\ vm' = [vm EXCEPT ![c] = "running"]
               /\ priority' = [priority EXCEPT ![c] = TRUE]
               /\ UNCHANGED <<poolVars, serverVars, queueVars, sid, cleanup, left, run,
                              mountVars, uffd, lifeVars, reqVars, restarts>>

\* envd is initialised; an old one's failure to answer is only logged, so the
\* VM may be gone.
DnsAdd(c) == /\ Move(c, "envd", "insert")
             /\ dns' = [dns EXCEPT ![sid[c]] = ips[c]]
             /\ cleanup' = [cleanup EXCEPT ![c] = 4]
             /\ UNCHANGED <<poolVars, sandboxes, queueVars, sid, left, priority, run, mountVars,
                            procVars, lifeVars, reqVars, restarts>>

Insert(c) == /\ Move(c, "insert", "ok")
             /\ sandboxes' = [sandboxes EXCEPT ![sid[c]] = c]
             /\ LifeGoto(c, "off", "wait")
             /\ UNCHANGED <<poolVars, dns, queueVars, sid, cleanVars, mountVars,
                            procVars, stopping, reqVars, restarts>>

\* Any of these may fail or run into the request's deadline; Create then runs
\* the cleanup itself.  A failing Path, or failing to link it, leaves the
\* Firecracker process that was just started.
CreateFails(c) ==
  /\ \/ pc[c] \in {"get", "getNew", "overlay", "uffd", "fc", "envd"}
     \/ pc[c] = "boot" /\ mount[c] \in {"open", "failed"}
  /\ pc' = [pc EXCEPT ![c] = "cleanup"]
  /\ BeginCleanup(c)
  /\ UNCHANGED <<poolVars, serverVars, queueVars, sid, cleanup, left, priority, mountVars,
                 procVars, lifeVars, reqVars, restarts>>

\* Here Process.Start stops the process before it returns the error.
FcFails(c) ==
  /\ pc[c] \in {"boot", "resume"}
  /\ pc' = [pc EXCEPT ![c] = "cleanup"]
  /\ Kill(c)
  /\ BeginCleanup(c)
  /\ UNCHANGED <<poolVars, serverVars, queueVars, sid, cleanup, left, priority, mountVars,
                 uffd, lifeVars, reqVars, restarts>>

CreateError(c) == /\ Move(c, "cleanup", "error")
                  /\ run[c] = "done"
                  /\ UNCHANGED <<poolVars, serverVars, queueVars, sid, cleanVars,
                                 mountVars, procVars, lifeVars, reqVars, restarts>>

CreateStep(c) == \/ GetReused(c) \/ GetNoReused(c) \/ GetNew(c) \/ NewCowDevice(c)
                 \/ UffdStart(c) \/ FcStart(c) \/ RootfsPath(c) \/ ResumeVM(c)
                 \/ DnsAdd(c) \/ Insert(c)
                 \/ CreateFails(c) \/ FcFails(c) \/ CreateError(c)
-----------------------------------------------------------------------------
(* Cleanup.Run, in whichever goroutine came first.                         *)

\* (Fault) The process is stopped where the list stops the other resources.
RunPriorityKeepingVm(c) == /\ run[c] = "priority"
                           /\ run' = [run EXCEPT ![c] = "list"]
                           /\ left' = [left EXCEPT ![c] = cleanup[c]]
                           /\ UNCHANGED <<poolVars, serverVars, queueVars, ownVars,
                                          cleanup, priority, mountVars, procVars,
                                          lifeVars, reqVars, restarts>>

RunPriority(c) == /\ run[c] = "priority"
                  /\ run' = [run EXCEPT ![c] = "list"]
                  /\ left' = [left EXCEPT ![c] = cleanup[c]]
                  /\ IF priority[c] THEN Kill(c) /\ StopUffd(c)
                                    ELSE UNCHANGED procVars
                  /\ UNCHANGED <<poolVars, serverVars, queueVars, ownVars, cleanup,
                                 priority, mountVars, lifeVars, reqVars, restarts>>

Last(c, f) == run[c] = "list" /\ left[c] > 0 /\ CleanupOrder[left[c]] = f
Done(c, f) == Last(c, f) /\ left' = [left EXCEPT ![c] = @ - 1]

RemoveDns(s, k) == dns' = IF dns[s] = k THEN [dns EXCEPT ![s] = NoSlot] ELSE dns

\* (Fault) Only Delete and Pause remove the record.
CleanDnsForgotten(c) == /\ Done(c, "dns")
                        /\ UNCHANGED <<poolVars, serverVars, queueVars, ownVars, cleanup,
                                       priority, run, mountVars, procVars, lifeVars,
                                       reqVars, restarts>>

CleanDns(c) == /\ Done(c, "dns")
               /\ RemoveDns(sid[c], ips[c])
               /\ UNCHANGED <<poolVars, sandboxes, queueVars, ownVars, cleanup, priority, run,
                              mountVars, procVars, lifeVars, reqVars, restarts>>

CleanUffd(c) == /\ Done(c, "uffd")
                /\ StopUffd(c)
                /\ UNCHANGED <<poolVars, serverVars, queueVars, ownVars, cleanup, priority, run,
                               mountVars, vm, lifeVars, reqVars, restarts>>

\* CowDevice.Close: disconnect, tell Export that no write is pending (even if
\* the disconnect failed), close the cache unless a snapshot took it, and
\* release the device once it is disconnected.  The mount may still be opening
\* when Create failed.
CloseMount(c) == /\ Last(c, "rootfs")
                 /\ mount[c] \in {"open", "failed", "opening"}
                 /\ \/ mount' = [mount EXCEPT ![c] = IF @ = "opening" THEN "closing" ELSE "closed"]
                    \/ /\ DisconnectFails /\ mount[c] = "open"
                       /\ mount' = [mount EXCEPT ![c] = "late"]
                 /\ finished' = [finished EXCEPT ![c] = TRUE]
                 /\ UNCHANGED <<poolVars, serverVars, queueVars, ownVars, cleanVars,
                                cache, procVars, lifeVars, reqVars, restarts>>

\* DirectPathMount.Close has no connection to close when no device was got: it
\* panics, the gRPC server recovers, and what is left of the list never runs.
CloseMountPanics(c) == /\ Last(c, "rootfs")
                       /\ mount[c] \in {"opening", "failed"}
                       /\ run' = [run EXCEPT ![c] = "done"]
                       /\ UNCHANGED <<poolVars, serverVars, queueVars, ownVars, cleanup, left,
                                      priority, mountVars, procVars, lifeVars, reqVars,
                                      restarts>>

CloseOverlay(c) == /\ mount[c] = "closed"
                   /\ Done(c, "rootfs")
                   /\ mount' = [mount EXCEPT ![c] = "released"]
                   /\ cache' = [cache EXCEPT ![c] = IF @ = "open" THEN "closed" ELSE @]
                   /\ UNCHANGED <<poolVars, serverVars, queueVars, ownVars, cleanup, priority, run,
                                  finished, procVars, lifeVars, reqVars, restarts>>

CleanSlot(c) == /\ Done(c, "slot")
                /\ Return(c)
                /\ UNCHANGED <<serverVars, queueVars, ownVars, cleanup, priority, run, mountVars,
                               procVars, lifeVars, reqVars, restarts>>

RunEnds(c) == /\ run[c] = "list" /\ left[c] = 0
              /\ run' = [run EXCEPT ![c] = "done"]
              /\ UNCHANGED <<poolVars, serverVars, queueVars, ownVars, cleanup, left, priority,
                             mountVars, procVars, lifeVars, reqVars, restarts>>

Cleanup(c) == \/ RunPriority(c) \/ CleanDns(c) \/ CleanUffd(c)
              \/ CloseMount(c) \/ CloseMountPanics(c) \/ CloseOverlay(c)
              \/ CleanSlot(c) \/ RunEnds(c)
-----------------------------------------------------------------------------
(* The goroutine of a sandbox, and Stop spawned by a pause.                *)

\* (Fault) Wait listens to the page fault handler only.
WaitEndsUffd(c) == /\ uffd[c] = "exited"
                   /\ LifeGoto(c, "wait", "stop")
                   /\ BeginCleanup(c)
                   /\ UNCHANGED <<poolVars, serverVars, queueVars, ownVars, cleanup, left,
                                  priority, mountVars, procVars, stopping, reqVars,
                                  restarts>>

\* Sandbox.Wait: one of the two processes ended, so stop the other.
WaitEnds(c) == /\ vm[c] = "exited" \/ uffd[c] = "exited"
               /\ LifeGoto(c, "wait", "stop")
               /\ BeginCleanup(c)
               /\ UNCHANGED <<poolVars, serverVars, queueVars, ownVars, cleanup, left, priority,
                              mountVars, procVars, stopping, reqVars, restarts>>

\* (Fault) A second Run returns at once, as behind a flag instead of a sync.Once.
StopEndsUnwaited(c) == /\ vm[c] = "exited" /\ uffd[c] = "exited"
                       /\ LifeGoto(c, "stop", "remove")
                       /\ UNCHANGED <<poolVars, serverVars, queueVars, ownVars, cleanVars,
                                      mountVars, procVars, stopping, reqVars, restarts>>

StopEnds(c) == /\ run[c] = "done" /\ vm[c] = "exited" /\ uffd[c] = "exited"
               /\ LifeGoto(c, "stop", "remove")
               /\ UNCHANGED <<poolVars, serverVars, queueVars, ownVars, cleanVars,
                              mountVars, procVars, stopping, reqVars, restarts>>

\* By the id, whatever sandbox has it now.
LifeRemove(c) == /\ LifeGoto(c, "remove", "done")
                 /\ sandboxes' = [sandboxes EXCEPT ![sid[c]] = NoCall]
                 /\ UNCHANGED <<poolVars, dns, queueVars, ownVars, cleanVars, mountVars,
                                procVars, stopping, reqVars, restarts>>

SpawnedStop(c) == /\ stopping[c]
                  /\ stopping' = [stopping EXCEPT ![c] = FALSE]
                  /\ BeginCleanup(c)
                  /\ UNCHANGED <<poolVars, serverVars, queueVars, ownVars, cleanup, left,
                                 priority, mountVars, procVars, life, reqVars, restarts>>

Life(c) == WaitEnds(c) \/ StopEnds(c) \/ LifeRemove(c) \/ SpawnedStop(c)
-----------------------------------------------------------------------------
(* server.Delete.                                                          *)

Delete(r, s) == /\ rpc[r] = "new"
                /\ rid' = [rid EXCEPT ![r] = s]
                /\ rgot' = [rgot EXCEPT ![r] = sandboxes[s]]
                /\ rpc' = [rpc EXCEPT ![r] = IF sandboxes[s] = NoCall THEN "error" ELSE "delDns"]
                /\ UNCHANGED <<poolVars, serverVars, queueVars, ownVars, cleanVars,
                               mountVars, procVars, lifeVars, restarts>>

DeleteDns(r) == /\ ReqGoto(r, "delDns", "delRemove")
                /\ RemoveDns(rid[r], ips[rgot[r]])
                /\ UNCHANGED <<poolVars, sandboxes, queueVars, ownVars, cleanVars,
                               mountVars, procVars, lifeVars, rid, rgot, restarts>>

DeleteRemove(r) == /\ ReqGoto(r, "delRemove", "delStop")
                   /\ sandboxes' = [sandboxes EXCEPT ![rid[r]] = NoCall]
                   /\ UNCHANGED <<poolVars, dns, queueVars, ownVars, cleanVars, mountVars,
                                  procVars, lifeVars, rid, rgot, restarts>>

DeleteStop(r) == /\ ReqGoto(r, "delStop", "delWait")
                 /\ BeginCleanup(rgot[r])
                 /\ UNCHANGED <<poolVars, serverVars, queueVars, ownVars, cleanup, left,
                                priority, mountVars, procVars, lifeVars, rid, rgot,
                                restarts>>

DeleteOk(r) == /\ ReqGoto(r, "delWait", "ok")
               /\ run[rgot[r]] = "done"
               /\ UNCHANGED <<poolVars, serverVars, queueVars, ownVars, cleanVars,
                              mountVars, procVars, lifeVars, rid, rgot, restarts>>
-----------------------------------------------------------------------------
(* server.Pause and Sandbox.Snapshot.                                      *)

Pause(r, s) == /\ ReqGoto(r, "new", "acquire")
               /\ rid' = [rid EXCEPT ![r] = s]
               /\ UNCHANGED <<poolVars, serverVars, queueVars, ownVars, cleanVars,
                              mountVars, procVars, lifeVars, rgot, restarts>>

PauseAcquire(r) == /\ ReqGoto(r, "acquire", "lock")
                   /\ pauseQueue > 0
                   /\ pauseQueue' = pauseQueue - 1
                   /\ permit' = [permit EXCEPT ![r] = TRUE]
                   /\ UNCHANGED <<poolVars, serverVars, pauseMu, ownVars, cleanVars,
                                  mountVars, procVars, lifeVars, rid, rgot, restarts>>

\* The caller's context ended in the queue.
PauseAcquireFails(r) == /\ ReqGoto(r, "acquire", "error")
                        /\ UNCHANGED <<poolVars, serverVars, queueVars, ownVars,
                                       cleanVars, mountVars, procVars, lifeVars, rid,
                                       rgot, restarts>>

\* (Fault) Get and Remove without the mutex.
PauseLockFree(r) == /\ ReqGoto(r, "lock", "get")
                    /\ UNCHANGED <<poolVars, serverVars, queueVars, ownVars, cleanVars,
                                   mountVars, procVars, lifeVars, rid, rgot, restarts>>

PauseLock(r) == /\ ReqGoto(r, "lock", "get")
                /\ pauseMu = NoRequest
                /\ pauseMu' = r
                /\ UNCHANGED <<poolVars, serverVars, pauseQueue, permit, ownVars,
                               cleanVars, mountVars, procVars, lifeVars, rid, rgot,
                               restarts>>

PauseGet(r) == /\ rpc[r] = "get"
               /\ IF sandboxes[rid[r]] = NoCall
                  THEN /\ rpc' = [rpc EXCEPT ![r] = "error"]
                       /\ pauseMu' = NoRequest
                       /\ ReleasePermit(r)
                       /\ UNCHANGED rgot
                  ELSE /\ rpc' = [rpc EXCEPT ![r] = "pauseDns"]
                       /\ rgot' = [rgot EXCEPT ![r] = sandboxes[rid[r]]]
                       /\ UNCHANGED queueVars
               /\ UNCHANGED <<poolVars, serverVars, ownVars, cleanVars, mountVars,
                              procVars, lifeVars, rid, restarts>>

PauseDns(r) == /\ ReqGoto(r, "pauseDns", "pauseRemove")
               /\ RemoveDns(rid[r], ips[rgot[r]])
               /\ UNCHANGED <<poolVars, sandboxes, queueVars, ownVars, cleanVars,
                              mountVars, procVars, lifeVars, rid, rgot, restarts>>

PauseRemove(r) == /\ ReqGoto(r, "pauseRemove", "files")
                  /\ sandboxes' = [sandboxes EXCEPT ![rid[r]] = NoCall]
                  /\ pauseMu' = NoRequest
                  /\ UNCHANGED <<poolVars, dns, pauseQueue, permit, ownVars, cleanVars,
                                 mountVars, procVars, lifeVars, rid, rgot, restarts>>

TemplateFiles(r) == /\ ReqGoto(r, "files", "memory")
                    /\ UNCHANGED <<poolVars, serverVars, queueVars, ownVars, cleanVars,
                                   mountVars, procVars, lifeVars, rid, rgot, restarts>>

\* (Fault) releaseOnce is deferred after this return.
TemplateFilesFailKeepingPermit(r) ==
  /\ ReqGoto(r, "files", "error")
  /\ UNCHANGED <<poolVars, serverVars, queueVars, ownVars, cleanVars, mountVars,
                 procVars, lifeVars, rid, rgot, restarts>>

\* This return comes before the deferred Stop: the sandbox is in no map and
\* runs on.
TemplateFilesFail(r) == /\ ReqGoto(r, "files", "error")
                        /\ ReleasePermit(r)
                        /\ UNCHANGED <<poolVars, serverVars, pauseMu, ownVars, cleanVars,
                                       mountVars, procVars, lifeVars, rid, rgot, restarts>>

\* Pause the VM, capture its memory and let the next pause begin.
SnapshotMemory(r) == /\ ReqGoto(r, "memory", "eject")
                     /\ vm[rgot[r]] = "running"
                     /\ ReleasePermit(r)
                     /\ UNCHANGED <<poolVars, serverVars, pauseMu, ownVars, cleanVars,
                                    mountVars, procVars, lifeVars, rid, rgot, restarts>>

\* (Fault) The sandbox is to be stopped by Pause's own deferred Stop.
EjectCacheOnly(r) == /\ ReqGoto(r, "eject", "export")
                     /\ cache[rgot[r]] \in {"open", "closed"}
                     /\ cache' = [cache EXCEPT ![rgot[r]] = IF @ = "open" THEN "ejected" ELSE @]
                     /\ UNCHANGED <<poolVars, serverVars, queueVars, ownVars, cleanVars,
                                    mount, finished, procVars, lifeVars, rid, rgot,
                                    restarts>>

\* Take the overlay's cache over and stop the sandbox.
EjectCache(r) == /\ ReqGoto(r, "eject", "export")
                 /\ cache[rgot[r]] \in {"open", "closed"}
                 /\ cache' = [cache EXCEPT ![rgot[r]] = IF @ = "open" THEN "ejected" ELSE @]
                 /\ stopping' = [stopping EXCEPT ![rgot[r]] = TRUE]
                 /\ UNCHANGED <<poolVars, serverVars, queueVars, ownVars, cleanVars,
                                mount, finished, procVars, life, rid, rgot, restarts>>

\* (Fault) Export does not wait.
ExportAtOnce(r) == /\ ReqGoto(r, "export", "addSnapshot")
                   /\ cache[rgot[r]] = "ejected"
                   /\ cache' = [cache EXCEPT ![rgot[r]] = "closed"]
                   /\ UNCHANGED <<poolVars, serverVars, queueVars, ownVars, cleanVars,
                                  mount, finished, procVars, lifeVars, rid, rgot,
                                  restarts>>

\* (Fault) Export leaves the cache it has written out open.
ExportRootfsUnclosed(r) == /\ ReqGoto(r, "export", "addSnapshot")
                           /\ finished[rgot[r]]
                           /\ cache[rgot[r]] = "ejected"
                           /\ finished' = [finished EXCEPT ![rgot[r]] = FALSE]
                           /\ UNCHANGED <<poolVars, serverVars, queueVars, ownVars,
                                          cleanVars, mount, cache, procVars, lifeVars,
                                          rid, rgot, restarts>>

\* Wait for finishedOperations, write the cache out and close it.
ExportRootfs(r) == /\ ReqGoto(r, "export", "addSnapshot")
                   /\ finished[rgot[r]]
                   /\ cache[rgot[r]] = "ejected"
                   /\ finished' = [finished EXCEPT ![rgot[r]] = FALSE]
                   /\ cache' = [cache EXCEPT ![rgot[r]] = "closed"]
                   /\ UNCHANGED <<poolVars, serverVars, queueVars, ownVars, cleanVars,
                                  mount, procVars, lifeVars, rid, rgot, restarts>>

AddSnapshot(r) == /\ ReqGoto(r, "addSnapshot", "ok")
                  /\ stopping' = [stopping EXCEPT ![rgot[r]] = TRUE]
                  /\ UNCHANGED <<poolVars, serverVars, queueVars, ownVars, cleanVars,
                                 mountVars, procVars, life, rid, rgot, restarts>>

\* Every later error returns through the deferred "go sbx.Stop()".
SnapshotFails(r) == /\ rpc' = [rpc EXCEPT ![r] = "error"]
                    /\ ReleasePermit(r)
                    /\ stopping' = [stopping EXCEPT ![rgot[r]] = TRUE]
                    /\ UNCHANGED <<poolVars, serverVars, pauseMu, ownVars, cleanVars,
                                   mountVars, procVars, life, rid, rgot, restarts>>

PauseFails(r) == /\ \/ rpc[r] \in {"memory", "eject", "addSnapshot"}
                    \/ rpc[r] = "export" /\ finished[rgot[r]]
                 /\ SnapshotFails(r)

ExportTimesOut(r) == /\ rpc[r] = "export" /\ ~finished[rgot[r]]
                     /\ SnapshotFails(r)

RequestProceeds(r) ==
  \/ DeleteDns(r) \/ DeleteRemove(r) \/ DeleteStop(r) \/ DeleteOk(r)
  \/ PauseAcquire(r) \/ PauseLock(r) \/ PauseGet(r) \/ PauseDns(r) \/ PauseRemove(r)
  \/ TemplateFiles(r) \/ TemplateFilesFail(r) \/ SnapshotMemory(r) \/ EjectCache(r)
  \/ ExportRootfs(r) \/ AddSnapshot(r) \/ PauseFails(r)

RequestStep(r) == RequestProceeds(r) \/ PauseAcquireFails(r) \/ ExportTimesOut(r)
-----------------------------------------------------------------------------
(* The processes of a sandbox, its mount, and the server's process.        *)

VmExits(c) == /\ vm[c] \in {"booting", "running", "killed"}
              /\ vm' = [vm EXCEPT ![c] = "exited"]
              /\ UNCHANGED <<poolVars, serverVars, queueVars, ownVars, cleanVars,
                             mountVars, uffd, lifeVars, reqVars, restarts>>

\* The handler failed, or was told to stop.
UffdExits(c) == /\ uffd[c] \in {"serving", "stopped"}
                /\ uffd' = [uffd EXCEPT ![c] = "exited"]
                /\ UNCHANGED <<poolVars, serverVars, queueVars, ownVars, cleanVars,
                               mountVars, vm, lifeVars, reqVars, restarts>>

\* When CowDevice.Close came before, nobody disconnects the device again and
\* ReleaseDevice finds it in use for ever.
MountOpens(c) == /\ mount[c] \in {"opening", "closing"}
                 /\ mount' = [mount EXCEPT ![c] = IF @ = "opening" THEN "open" ELSE "stuck"]
                 /\ UNCHANGED <<poolVars, serverVars, queueVars, ownVars, cleanVars,
                                cache, finished, procVars, lifeVars, reqVars, restarts>>

MountFails(c) == /\ mount[c] \in {"opening", "closing"}
                 /\ mount' = [mount EXCEPT ![c] = IF @ = "opening" THEN "failed" ELSE "closed"]
                 /\ UNCHANGED <<poolVars, serverVars, queueVars, ownVars, cleanVars,
                                cache, finished, procVars, lifeVars, reqVars, restarts>>

Disconnected(c) == /\ mount[c] = "late"
                   /\ mount' = [mount EXCEPT ![c] = "closed"]
                   /\ UNCHANGED <<poolVars, serverVars, queueVars, ownVars, cleanVars,
                                  cache, finished, procVars, lifeVars, reqVars, restarts>>

\* Nomad restarts the process: its memory is gone, and so are the handlers in
\* it; Firecracker processes run in sessions of their own and may live on.
Restart ==
  /\ restarts < MaxRestarts
  /\ restarts' = restarts + 1
  /\ PoolRestart
  /\ sandboxes' = [s \in Ids |-> NoCall]
  /\ dns' = [s \in Ids |-> NoSlot]
  /\ pauseQueue' = maxParalellSnapshotting
  /\ pauseMu' = NoRequest
  /\ permit' = [r \in Requests |-> FALSE]
  /\ pc' = [c \in Calls |-> IF pc[c] = "new" THEN "new" ELSE "gone"]
  /\ cleanup' = [c \in Calls |-> 0]
  /\ left' = [c \in Calls |-> 0]
  /\ priority' = [c \in Calls |-> FALSE]
  /\ run' = [c \in Calls |-> "no"]
  /\ mount' = [c \in Calls |-> "none"]
  /\ cache' = [c \in Calls |-> "none"]
  /\ finished' = [c \in Calls |-> FALSE]
  /\ uffd' = [c \in Calls |-> "none"]
  /\ life' = [c \in Calls |-> "off"]
  /\ stopping' = [c \in Calls |-> FALSE]
  /\ rpc' = [r \in Requests |-> IF rpc[r] = "new" THEN "new" ELSE "error"]
  /\ rgot' = [r \in Requests |-> NoCall]
  /\ UNCHANGED <<sid, vm, rid>>

PopulateStep == /\ Populate
                /\ UNCHANGED <<serverVars, queueVars, ownVars, cleanVars, mountVars,
                               procVars, lifeVars, reqVars, restarts>>

Next == \/ PopulateStep
        \/ \E c \in Calls :
             \/ \E s \in Ids : Create(c, s)
             \/ CreateStep(c) \/ Cleanup(c) \/ Life(c)
             \/ VmExits(c) \/ UffdExits(c) \/ MountOpens(c) \/ MountFails(c)
             \/ Disconnected(c)
        \/ \E r \in Requests :
             \/ \E s \in Ids : Delete(r, s) \/ Pause(r, s)
             \/ RequestStep(r)
        \/ Restart

Spec == Init /\ [][Next]_vars

\* Create as a careful caller uses it: for an id of which no sandbox is listed
\* or being created, when every Delete and Pause has been answered.
Careful == \A c \in Calls : pc[c] = "new" /\ pc'[c] = "get" =>
  /\ sandboxes[sid'[c]] = NoCall
  /\ \A d \in Calls : sid[d] = sid'[c] => pc[d] \in {"ok", "error", "gone"}
  /\ \A r \in Requests : rpc[r] \in {"new", "ok", "error"}

CarefulSpec == Init /\ [][Next /\ Careful]_vars

\* Goroutines are scheduled, a killed process ends, and a page fault handler
\* that is told to stop does.  No deadline is relied on.
FairSpec == /\ Spec
            /\ \A c \in Calls : /\ WF_vars(Cleanup(c)) /\ WF_vars(SpawnedStop(c))
                                /\ WF_vars(WaitEnds(c) \/ StopEnds(c) \/ LifeRemove(c))
                                /\ WF_vars(vm[c] = "killed" /\ VmExits(c))
                                /\ WF_vars(uffd[c] = "stopped" /\ UffdExits(c))
            /\ \A r \in Requests : WF_vars(RequestProceeds(r))
-----------------------------------------------------------------------------
(* What the node promises.                                                 *)

\* The slot is this sandbox's until its cleanup has returned it.
Holds(c) == cleanup[c] > 0 /\ (run[c] \in {"no", "priority"} \/ left[c] > 0)

Pooled == {newSlots[i] : i \in DOMAIN newSlots}
          \cup {reusedSlots[i] : i \in DOMAIN reusedSlots}
          \cup ({popSlot} \ {NoSlot})

\* Slots change hands the way SlotOwnership describes: nobody is handed a slot
\* that another sandbox has, however cleanups, Delete, Pause and the sandbox's
\* own goroutine meet in Cleanup.Run.
Owners == INSTANCE SlotOwnership WITH
            reserved <- kv,
            pooled <- Pooled,
            holds <- [c \in Calls |-> IF Holds(c) THEN ips[c] ELSE NoSlot],
            served <- {c \in Calls : ips[c] # NoSlot \/ pc[c] = "gone"}

Refinement == Owners!OSpec

\* Two VMs never run on one slot, not even one that a crash of the server left
\* behind beside one of the new process.
OneVmPerSlot == \A c, d \in Calls :
  c # d /\ vm[c] = "running" /\ vm[d] = "running" => ips[c] # ips[d]

\* A DNS record leads to a slot that a sandbox of that id still has, so that
\* no client reaches the next sandbox that is given the slot.
RecordsLeadHome == \A s \in Ids : dns[s] # NoSlot =>
  \E c \in Calls : sid[c] = s /\ ips[c] = dns[s] /\ Holds(c)

\* Two pauses never work on the same sandbox.
PausedOnce == \A q, r \in Requests :
  /\ q # r /\ rgot[q] = rgot[r]
  /\ rpc[q] \in {"files", "memory", "eject", "export", "addSnapshot"}
  => rpc[r] \notin PausePC

\* A snapshot's disk is written out when nothing writes to it any more: the
\* VM was stopped and its device disconnected after the memory was captured
\* (if the kernel can disconnect it: Export does not hear of a failure).
DiskIsFinal == \A r \in Requests : rpc[r] = "addSnapshot" =>
  /\ vm[rgot[r]] \notin {"booting", "running"}
  /\ ~DisconnectFails => mount[rgot[r]] \in {"closed", "released"}

\* No permit of the pause queue is made up: the free and the held ones are
\* all there are.
PermitsAddUp ==
  pauseQueue + Cardinality({r \in Requests : permit[r]}) = maxParalellSnapshotting

\* Nor is one lost: a Pause holds a permit exactly from Acquire until it has
\* captured the memory or returns before that, and one that was answered, on
\* whatever path, holds none.
PermitsConserved ==
  /\ PermitsAddUp
  /\ \A r \in Requests : permit[r] <=>
       rpc[r] \in {"lock", "get", "pauseDns", "pauseRemove", "files", "memory"}

\* What EjectCache took out of c's overlay is Export's to close.  Export does
\* not close it where it times out or fails (cow.go:74-84), and CowDevice.Close
\* skips an ejected cache: that one stays for good.
CacheLost(c) == /\ cache[c] = "ejected"
                /\ \E r \in Requests : rgot[r] = c /\ rpc[r] \in {"export", "error"}

\* When the goroutine of a sandbox ends, whoever ran the cleanup, its slot is
\* returned, both processes have exited, its device is released, no id leads
\* to it, and its overlay's cache is closed, but for the one that a Pause is
\* still exporting or failed to export.
EndedIsReleased == \A c \in Calls : life[c] = "done" =>
  /\ ~Holds(c)
  /\ vm[c] = "exited" /\ uffd[c] = "exited"
  /\ mount[c] = "released"
  /\ cache[c] = "closed" \/ CacheLost(c)
  /\ \A s \in Ids : sandboxes[s] # c

\* A sandbox that was started and whose VM has ended gives its slot back and
\* leaves the map.
EndedIsFreed == \A c \in Calls :
  life[c] = "wait" /\ vm[c] = "exited" ~>
    ~Holds(c) /\ \A s \in Ids : sandboxes[s] # c

\* A Delete or Pause that was begun is answered, without the help of a
\* deadline: what it waits for (a permit, the mutex, the cleanup, the last
\* write to the disk) comes.
RequestIsAnswered == \A r \in Requests :
  rpc[r] # "new" ~> rpc[r] \in {"ok", "error"}

(* What the code says and does not do.                                     *)

\* The API takes a sandbox that List leaves out for one that is "not in
\* Orchestrator anymore" and forgets it; a running one that nobody asked to
\* stop must be listed, at least under a careful caller.
RunningIsListed == \A c \in Calls :
  /\ pc[c] = "ok" /\ vm[c] = "running" /\ run[c] = "no"
  /\ \A r \in Requests : rgot[r] # c
  => sandboxes[sid[c]] # NoCall
=============================================================================
