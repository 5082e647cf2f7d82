------------------------ MODULE NodeServerPauseProofs -----------------------
(***************************************************************************)
(* Proofs about Pause: two pauses never work on one sandbox, and the disk  *)
(* of a snapshot is written out when nothing writes to it any more.        *)
(***************************************************************************)
EXTENDS NodeServerProofs

USE ServerAssumption, PoolAssumption
    DEF poolVars, serverVars, queueVars, ownVars, cleanVars, mountVars, procVars,
        lifeVars, reqVars, CreatePC, LifePC, DeletePC, PausePC


-----------------------------------------------------------------------------
(* Who works on a sandbox.                                                 *)

Past == {"files", "memory", "eject", "export", "addSnapshot"}

\* The mutex is held from the lookup to the removal, and a pause past its
\* removal has a sandbox that no lookup finds.
PauseInv ==
  /\ PausedOnce
  /\ \A r \in Requests :
       /\ rpc[r] \in {"get", "pauseDns", "pauseRemove"} => pauseMu = r
       /\ rpc[r] \in Past => \A s \in Ids : sandboxes[s] # rgot[r]

\* No request has begun.
LEMMA PauseInit == Init => PauseInv
  BY DEF Init, PauseInv, PausedOnce, Past

\* Every step keeps lookup and removal under the mutex.
LEMMA PauseStep ==
  ASSUME TypeOK, MapInv, PauseInv, Next
  PROVE  PauseInv'
<1>1. ASSUME NEW c \in Calls, NEW s \in Ids, Create(c, s) PROVE PauseInv'
  BY <1>1 DEF TypeOK, MapInv, PauseInv, PausedOnce, Past, Create, Move
<1>2. ASSUME NEW c \in Calls, GetReused(c) PROVE PauseInv'
  BY <1>2 DEF TypeOK, MapInv, PauseInv, PausedOnce, Past, GetReused, Move
<1>3. ASSUME NEW c \in Calls, GetNoReused(c) PROVE PauseInv'
  BY <1>3 DEF TypeOK, MapInv, PauseInv, PausedOnce, Past, GetNoReused,
     Move
<1>4. ASSUME NEW c \in Calls, GetNew(c) PROVE PauseInv'
  BY <1>4 DEF TypeOK, MapInv, PauseInv, PausedOnce, Past, GetNew, Move
<1>5. ASSUME NEW c \in Calls, NewCowDevice(c) PROVE PauseInv'
  BY <1>5 DEF TypeOK, MapInv, PauseInv, PausedOnce, Past, NewCowDevice,
     Move
<1>6. ASSUME NEW c \in Calls, UffdStart(c) PROVE PauseInv'
  BY <1>6 DEF TypeOK, MapInv, PauseInv, PausedOnce, Past, UffdStart, Move
<1>7. ASSUME NEW c \in Calls, FcStart(c) PROVE PauseInv'
  BY <1>7 DEF TypeOK, MapInv, PauseInv, PausedOnce, Past, FcStart, Move
<1>8. ASSUME NEW c \in Calls, RootfsPath(c) PROVE PauseInv'
  BY <1>8 DEF TypeOK, MapInv, PauseInv, PausedOnce, Past, RootfsPath, Move
<1>9. ASSUME NEW c \in Calls, ResumeVM(c) PROVE PauseInv'
  BY <1>9 DEF TypeOK, MapInv, PauseInv, PausedOnce, Past, ResumeVM, Move
<1>10. ASSUME NEW c \in Calls, DnsAdd(c) PROVE PauseInv'
  BY <1>10 DEF TypeOK, MapInv, PauseInv, PausedOnce, Past, DnsAdd, Move
<1>11. ASSUME NEW c \in Calls, Insert(c) PROVE PauseInv'
  BY <1>11 DEF TypeOK, MapInv, PauseInv, PausedOnce, Past, Insert, Move,
     LifeGoto
<1>12. ASSUME NEW c \in Calls, CreateFails(c) PROVE PauseInv'
  BY <1>12 DEF TypeOK, MapInv, PauseInv, PausedOnce, Past, CreateFails,
     BeginCleanup
<1>13. ASSUME NEW c \in Calls, FcFails(c) PROVE PauseInv'
  BY <1>13 DEF TypeOK, MapInv, PauseInv, PausedOnce, Past, FcFails,
     BeginCleanup, Kill, Alive
<1>14. ASSUME NEW c \in Calls, CreateError(c) PROVE PauseInv'
  BY <1>14 DEF TypeOK, MapInv, PauseInv, PausedOnce, Past, CreateError,
     Move
<1>15. ASSUME NEW c \in Calls, RunPriority(c) PROVE PauseInv'
  BY <1>15 DEF TypeOK, MapInv, PauseInv, PausedOnce, Past, RunPriority,
     Kill, Alive, StopUffd
<1>16. ASSUME NEW c \in Calls, CleanDns(c) PROVE PauseInv'
  BY <1>16 DEF TypeOK, MapInv, PauseInv, PausedOnce, Past, CleanDns, Done,
     Last, RemoveDns
<1>17. ASSUME NEW c \in Calls, CleanUffd(c) PROVE PauseInv'
  BY <1>17 DEF TypeOK, MapInv, PauseInv, PausedOnce, Past, CleanUffd,
     Done, Last, StopUffd
<1>18. ASSUME NEW c \in Calls, CloseMount(c) PROVE PauseInv'
  BY <1>18 DEF TypeOK, MapInv, PauseInv, PausedOnce, Past, CloseMount,
     Last
<1>19. ASSUME NEW c \in Calls, CloseMountPanics(c) PROVE PauseInv'
  BY <1>19 DEF TypeOK, MapInv, PauseInv, PausedOnce, Past,
     CloseMountPanics, Last
<1>20. ASSUME NEW c \in Calls, CloseOverlay(c) PROVE PauseInv'
  BY <1>20 DEF TypeOK, MapInv, PauseInv, PausedOnce, Past, CloseOverlay,
     Done, Last
<1>21. ASSUME NEW c \in Calls, CleanSlot(c) PROVE PauseInv'
  BY <1>21 DEF TypeOK, MapInv, PauseInv, PausedOnce, Past, CleanSlot,
     Done, Last
<1>22. ASSUME NEW c \in Calls, RunEnds(c) PROVE PauseInv'
  BY <1>22 DEF TypeOK, MapInv, PauseInv, PausedOnce, Past, RunEnds
<1>23. ASSUME NEW c \in Calls, WaitEnds(c) PROVE PauseInv'
  BY <1>23 DEF TypeOK, MapInv, PauseInv, PausedOnce, Past, WaitEnds,
     LifeGoto, BeginCleanup
<1>24. ASSUME NEW c \in Calls, StopEnds(c) PROVE PauseInv'
  BY <1>24 DEF TypeOK, MapInv, PauseInv, PausedOnce, Past, StopEnds,
     LifeGoto
<1>25. ASSUME NEW c \in Calls, LifeRemove(c) PROVE PauseInv'
  BY <1>25 DEF TypeOK, MapInv, PauseInv, PausedOnce, Past, LifeRemove,
     LifeGoto
<1>26. ASSUME NEW c \in Calls, SpawnedStop(c) PROVE PauseInv'
  BY <1>26 DEF TypeOK, MapInv, PauseInv, PausedOnce, Past, SpawnedStop,
     BeginCleanup
<1>27. ASSUME NEW c \in Calls, VmExits(c) PROVE PauseInv'
  BY <1>27 DEF TypeOK, MapInv, PauseInv, PausedOnce, Past, VmExits
<1>28. ASSUME NEW c \in Calls, UffdExits(c) PROVE PauseInv'
  BY <1>28 DEF TypeOK, MapInv, PauseInv, PausedOnce, Past, UffdExits
<1>29. ASSUME NEW c \in Calls, MountOpens(c) PROVE PauseInv'
  BY <1>29 DEF TypeOK, MapInv, PauseInv, PausedOnce, Past, MountOpens
<1>30. ASSUME NEW c \in Calls, MountFails(c) PROVE PauseInv'
  BY <1>30 DEF TypeOK, MapInv, PauseInv, PausedOnce, Past, MountFails
<1>31. ASSUME NEW c \in Calls, Disconnected(c) PROVE PauseInv'
  BY <1>31 DEF TypeOK, MapInv, PauseInv, PausedOnce, Past, Disconnected
<1>32. ASSUME NEW r \in Requests, NEW s \in Ids, Delete(r, s) PROVE PauseInv'
  BY <1>32 DEF TypeOK, MapInv, PauseInv, PausedOnce, Past, Delete
<1>33. ASSUME NEW r \in Requests, NEW s \in Ids, Pause(r, s) PROVE PauseInv'
  BY <1>33 DEF TypeOK, MapInv, PauseInv, PausedOnce, Past, Pause, ReqGoto
<1>34. ASSUME NEW r \in Requests, DeleteDns(r) PROVE PauseInv'
  BY <1>34 DEF TypeOK, MapInv, PauseInv, PausedOnce, Past, DeleteDns,
     ReqGoto, RemoveDns
<1>35. ASSUME NEW r \in Requests, DeleteRemove(r) PROVE PauseInv'
  BY <1>35 DEF TypeOK, MapInv, PauseInv, PausedOnce, Past, DeleteRemove,
     ReqGoto
<1>36. ASSUME NEW r \in Requests, DeleteStop(r) PROVE PauseInv'
  BY <1>36 DEF TypeOK, MapInv, PauseInv, PausedOnce, Past, DeleteStop,
     ReqGoto, BeginCleanup
<1>37. ASSUME NEW r \in Requests, DeleteOk(r) PROVE PauseInv'
  BY <1>37 DEF TypeOK, MapInv, PauseInv, PausedOnce, Past, DeleteOk,
     ReqGoto
<1>38. ASSUME NEW r \in Requests, PauseAcquire(r) PROVE PauseInv'
  BY <1>38 DEF TypeOK, MapInv, PauseInv, PausedOnce, Past, PauseAcquire,
     ReqGoto
<1>39. ASSUME NEW r \in Requests, PauseAcquireFails(r) PROVE PauseInv'
  BY <1>39 DEF TypeOK, MapInv, PauseInv, PausedOnce, Past,
     PauseAcquireFails, ReqGoto
<1>40. ASSUME NEW r \in Requests, PauseLock(r) PROVE PauseInv'
  BY <1>40 DEF TypeOK, MapInv, PauseInv, PausedOnce, Past, PauseLock,
     ReqGoto
<1>41. ASSUME NEW r \in Requests, PauseGet(r) PROVE PauseInv'
  <2>1. UNCHANGED sandboxes
    BY <1>41 DEF PauseGet
  <2>2. CASE sandboxes[rid[r]] = NoCall
    <3>1. rpc' = [rpc EXCEPT ![r] = "error"] /\ pauseMu' = NoRequest /\ rgot' = rgot
      BY <1>41, <2>2 DEF PauseGet
    <3>2. pauseMu = r
      BY <1>41 DEF PauseInv, PauseGet
    <3>3. rpc'[r] = "error" /\ \A q \in Requests : q # r => rpc'[q] = rpc[q]
      BY <3>1 DEF TypeOK
    <3> QED BY <2>1, <3>1, <3>2, <3>3 DEF PauseInv, PausedOnce, Past
  <2>3. CASE sandboxes[rid[r]] # NoCall
    <3>1. /\ rpc' = [rpc EXCEPT ![r] = "pauseDns"] /\ pauseMu' = pauseMu
          /\ rgot' = [rgot EXCEPT ![r] = sandboxes[rid[r]]]
      BY <1>41, <2>3 DEF PauseGet
    <3>2. /\ rpc'[r] = "pauseDns"
          /\ \A q \in Requests : q # r => rpc'[q] = rpc[q] /\ rgot'[q] = rgot[q]
      BY <3>1 DEF TypeOK
    <3>3. pauseMu = r
      BY <1>41 DEF PauseInv, PauseGet
    <3>4. rid[r] \in Ids /\ rgot'[r] = sandboxes[rid[r]]
      BY <1>41, <3>1 DEF TypeOK, PauseGet
    <3>5. \A q \in Requests : rpc[q] \in Past => rgot[q] # rgot'[r]
      BY <3>4 DEF PauseInv
    <3>6. PausedOnce'
      BY <3>2, <3>5 DEF PauseInv, PausedOnce, Past
    <3>7. \A q \in Requests :
            /\ rpc'[q] \in {"get", "pauseDns", "pauseRemove"} => pauseMu' = q
            /\ rpc'[q] \in Past => \A s \in Ids : sandboxes'[s] # rgot'[q]
      BY <2>1, <3>1, <3>2, <3>3 DEF PauseInv, Past
    <3> QED BY <3>6, <3>7 DEF PauseInv
  <2> QED BY <2>2, <2>3
<1>42. ASSUME NEW r \in Requests, PauseDns(r) PROVE PauseInv'
  BY <1>42 DEF TypeOK, MapInv, PauseInv, PausedOnce, Past, PauseDns,
     ReqGoto, RemoveDns
<1>43. ASSUME NEW r \in Requests, PauseRemove(r) PROVE PauseInv'
  BY <1>43 DEF TypeOK, MapInv, PauseInv, PausedOnce, Past, PauseRemove,
     ReqGoto
<1>44. ASSUME NEW r \in Requests, TemplateFiles(r) PROVE PauseInv'
  BY <1>44 DEF TypeOK, MapInv, PauseInv, PausedOnce, Past, TemplateFiles,
     ReqGoto
<1>45. ASSUME NEW r \in Requests, TemplateFilesFail(r) PROVE PauseInv'
  BY <1>45 DEF TypeOK, MapInv, PauseInv, PausedOnce, Past,
     TemplateFilesFail, ReqGoto, ReleasePermit
<1>46. ASSUME NEW r \in Requests, SnapshotMemory(r) PROVE PauseInv'
  BY <1>46 DEF TypeOK, MapInv, PauseInv, PausedOnce, Past, SnapshotMemory,
     ReqGoto, ReleasePermit
<1>47. ASSUME NEW r \in Requests, EjectCache(r) PROVE PauseInv'
  BY <1>47 DEF TypeOK, MapInv, PauseInv, PausedOnce, Past, EjectCache,
     ReqGoto
<1>48. ASSUME NEW r \in Requests, ExportRootfs(r) PROVE PauseInv'
  BY <1>48 DEF TypeOK, MapInv, PauseInv, PausedOnce, Past, ExportRootfs,
     ReqGoto
<1>49. ASSUME NEW r \in Requests, AddSnapshot(r) PROVE PauseInv'
  BY <1>49 DEF TypeOK, MapInv, PauseInv, PausedOnce, Past, AddSnapshot,
     ReqGoto
<1>50. ASSUME NEW r \in Requests, PauseFails(r) PROVE PauseInv'
  BY <1>50 DEF TypeOK, MapInv, PauseInv, PausedOnce, Past, PauseFails,
     SnapshotFails, ReleasePermit
<1>51. ASSUME NEW r \in Requests, ExportTimesOut(r) PROVE PauseInv'
  BY <1>51 DEF TypeOK, MapInv, PauseInv, PausedOnce, Past, ExportTimesOut,
     SnapshotFails, ReleasePermit
<1>52. ASSUME Restart PROVE PauseInv'
  BY <1>52 DEF TypeOK, MapInv, PauseInv, PausedOnce, Past, Restart
<1>53. ASSUME PopulateStep PROVE PauseInv'
  BY <1>53 DEF TypeOK, MapInv, PauseInv, PausedOnce, Past, PopulateStep
<1> QED
  BY <1>1, <1>2, <1>3, <1>4, <1>5, <1>6, <1>7, <1>8, <1>9, <1>10, <1>11,
     <1>12, <1>13, <1>14, <1>15, <1>16, <1>17, <1>18, <1>19, <1>20, <1>21,
     <1>22, <1>23, <1>24, <1>25, <1>26, <1>27, <1>28, <1>29, <1>30, <1>31,
     <1>32, <1>33, <1>34, <1>35, <1>36, <1>37, <1>38, <1>39, <1>40, <1>41,
     <1>42, <1>43, <1>44, <1>45, <1>46, <1>47, <1>48, <1>49, <1>50, <1>51,
     <1>52, <1>53
  DEF Next, CreateStep, Cleanup, Life, RequestStep, RequestProceeds

\* The mutex makes lookup and removal one step: a sandbox is paused once.
THEOREM PausedAtMostOnce == Spec => []PausedOnce
<1>1. IInv /\ PauseInv /\ UNCHANGED vars => PauseInv'
  BY DEF PauseInv, PausedOnce, vars
<1>2. IInv /\ PauseInv /\ [Next]_vars => PauseInv'
  BY <1>1, PauseStep DEF IInv
<1>3. PauseInv => PausedOnce
  BY DEF PauseInv
<1> QED BY <1>2, <1>3, PauseInit, Inductive, PTL DEF Spec

-----------------------------------------------------------------------------
(* The disk of a snapshot.                                                 *)

\* Once Path has answered the device was open; it is closed by the cleanup
\* only, after the VM was killed, and finishedOperations hears of it then.
DiskInv ==
  /\ \A c \in Calls :
       /\ pc[c] \in {"resume", "envd", "insert", "ok"} =>
            mount[c] \in {"open", "closed", "late", "released"}
       /\ mount[c] \in {"closing", "closed", "late", "stuck", "released"} \/ finished[c] =>
            run[c] \in {"list", "done"}
       /\ run[c] \in {"list", "done"} /\ priority[c] => ~Alive(c)
       /\ finished[c] /\ pc[c] = "ok" => mount[c] # "open"
       /\ ~DisconnectFails => mount[c] # "late"
  /\ \A r \in Requests : rpc[r] = "addSnapshot" => mount[rgot[r]] # "open"

\* No device is mounted.
LEMMA DiskInit == Init => DiskInv
  BY DEF Init, DiskInv

\* Every step keeps the order of kill, disconnect and export.
LEMMA DiskStep ==
  ASSUME TypeOK, StageInv, MapInv, DiskInv, Next
  PROVE  DiskInv'
<1>1. ASSUME NEW c \in Calls, NEW s \in Ids, Create(c, s) PROVE DiskInv'
  BY <1>1 DEF TypeOK, StageInv, MapInv, DiskInv, Alive, Create, Move
<1>2. ASSUME NEW c \in Calls, GetReused(c) PROVE DiskInv'
  BY <1>2 DEF TypeOK, StageInv, MapInv, DiskInv, Alive, GetReused, Move
<1>3. ASSUME NEW c \in Calls, GetNoReused(c) PROVE DiskInv'
  BY <1>3 DEF TypeOK, StageInv, MapInv, DiskInv, Alive, GetNoReused, Move
<1>4. ASSUME NEW c \in Calls, GetNew(c) PROVE DiskInv'
  BY <1>4 DEF TypeOK, StageInv, MapInv, DiskInv, Alive, GetNew, Move
<1>5. ASSUME NEW c \in Calls, NewCowDevice(c) PROVE DiskInv'
  BY <1>5 DEF TypeOK, StageInv, MapInv, DiskInv, Alive, NewCowDevice, Move
<1>6. ASSUME NEW c \in Calls, UffdStart(c) PROVE DiskInv'
  BY <1>6 DEF TypeOK, StageInv, MapInv, DiskInv, Alive, UffdStart, Move
<1>7. ASSUME NEW c \in Calls, FcStart(c) PROVE DiskInv'
  BY <1>7 DEF TypeOK, StageInv, MapInv, DiskInv, Alive, FcStart, Move
<1>8. ASSUME NEW c \in Calls, RootfsPath(c) PROVE DiskInv'
  BY <1>8 DEF TypeOK, StageInv, MapInv, DiskInv, Alive, RootfsPath, Move
<1>9. ASSUME NEW c \in Calls, ResumeVM(c) PROVE DiskInv'
  BY <1>9 DEF TypeOK, StageInv, MapInv, DiskInv, Alive, ResumeVM, Move
<1>10. ASSUME NEW c \in Calls, DnsAdd(c) PROVE DiskInv'
  BY <1>10 DEF TypeOK, StageInv, MapInv, DiskInv, Alive, DnsAdd, Move
<1>11. ASSUME NEW c \in Calls, Insert(c) PROVE DiskInv'
  BY <1>11 DEF TypeOK, StageInv, MapInv, DiskInv, Alive, Insert, Move,
     LifeGoto
<1>12. ASSUME NEW c \in Calls, CreateFails(c) PROVE DiskInv'
  BY <1>12 DEF TypeOK, StageInv, MapInv, DiskInv, Alive, CreateFails,
     BeginCleanup
<1>13. ASSUME NEW c \in Calls, FcFails(c) PROVE DiskInv'
  BY <1>13 DEF TypeOK, StageInv, MapInv, DiskInv, Alive, FcFails,
     BeginCleanup, Kill, Alive
<1>14. ASSUME NEW c \in Calls, CreateError(c) PROVE DiskInv'
  BY <1>14 DEF TypeOK, StageInv, MapInv, DiskInv, Alive, CreateError, Move
<1>15. ASSUME NEW c \in Calls, RunPriority(c) PROVE DiskInv'
  BY <1>15 DEF TypeOK, StageInv, MapInv, DiskInv, Alive, RunPriority,
     Kill, Alive, StopUffd
<1>16. ASSUME NEW c \in Calls, CleanDns(c) PROVE DiskInv'
  BY <1>16 DEF TypeOK, StageInv, MapInv, DiskInv, Alive, CleanDns, Done,
     Last, RemoveDns
<1>17. ASSUME NEW c \in Calls, CleanUffd(c) PROVE DiskInv'
  BY <1>17 DEF TypeOK, StageInv, MapInv, DiskInv, Alive, CleanUffd, Done,
     Last, StopUffd
<1>18. ASSUME NEW c \in Calls, CloseMount(c) PROVE DiskInv'
  BY <1>18 DEF TypeOK, StageInv, MapInv, DiskInv, Alive, CloseMount, Last
<1>19. ASSUME NEW c \in Calls, CloseMountPanics(c) PROVE DiskInv'
  BY <1>19 DEF TypeOK, StageInv, MapInv, DiskInv, Alive, CloseMountPanics,
     Last
<1>20. ASSUME NEW c \in Calls, CloseOverlay(c) PROVE DiskInv'
  BY <1>20 DEF TypeOK, StageInv, MapInv, DiskInv, Alive, CloseOverlay,
     Done, Last
<1>21. ASSUME NEW c \in Calls, CleanSlot(c) PROVE DiskInv'
  BY <1>21 DEF TypeOK, StageInv, MapInv, DiskInv, Alive, CleanSlot, Done,
     Last
<1>22. ASSUME NEW c \in Calls, RunEnds(c) PROVE DiskInv'
  BY <1>22 DEF TypeOK, StageInv, MapInv, DiskInv, Alive, RunEnds
<1>23. ASSUME NEW c \in Calls, WaitEnds(c) PROVE DiskInv'
  BY <1>23 DEF TypeOK, StageInv, MapInv, DiskInv, Alive, WaitEnds,
     LifeGoto, BeginCleanup
<1>24. ASSUME NEW c \in Calls, StopEnds(c) PROVE DiskInv'
  BY <1>24 DEF TypeOK, StageInv, MapInv, DiskInv, Alive, StopEnds,
     LifeGoto
<1>25. ASSUME NEW c \in Calls, LifeRemove(c) PROVE DiskInv'
  BY <1>25 DEF TypeOK, StageInv, MapInv, DiskInv, Alive, LifeRemove,
     LifeGoto
<1>26. ASSUME NEW c \in Calls, SpawnedStop(c) PROVE DiskInv'
  BY <1>26 DEF TypeOK, StageInv, MapInv, DiskInv, Alive, SpawnedStop,
     BeginCleanup
<1>27. ASSUME NEW c \in Calls, VmExits(c) PROVE DiskInv'
  BY <1>27 DEF TypeOK, StageInv, MapInv, DiskInv, Alive, VmExits
<1>28. ASSUME NEW c \in Calls, UffdExits(c) PROVE DiskInv'
  BY <1>28 DEF TypeOK, StageInv, MapInv, DiskInv, Alive, UffdExits
<1>29. ASSUME NEW c \in Calls, MountOpens(c) PROVE DiskInv'
  BY <1>29 DEF TypeOK, StageInv, MapInv, DiskInv, Alive, MountOpens
<1>30. ASSUME NEW c \in Calls, MountFails(c) PROVE DiskInv'
  BY <1>30 DEF TypeOK, StageInv, MapInv, DiskInv, Alive, MountFails
<1>31. ASSUME NEW c \in Calls, Disconnected(c) PROVE DiskInv'
  BY <1>31 DEF TypeOK, StageInv, MapInv, DiskInv, Alive, Disconnected
<1>32. ASSUME NEW r \in Requests, NEW s \in Ids, Delete(r, s) PROVE DiskInv'
  BY <1>32 DEF TypeOK, StageInv, MapInv, DiskInv, Alive, Delete
<1>33. ASSUME NEW r \in Requests, NEW s \in Ids, Pause(r, s) PROVE DiskInv'
  BY <1>33 DEF TypeOK, StageInv, MapInv, DiskInv, Alive, Pause, ReqGoto
<1>34. ASSUME NEW r \in Requests, DeleteDns(r) PROVE DiskInv'
  BY <1>34 DEF TypeOK, StageInv, MapInv, DiskInv, Alive, DeleteDns,
     ReqGoto, RemoveDns
<1>35. ASSUME NEW r \in Requests, DeleteRemove(r) PROVE DiskInv'
  BY <1>35 DEF TypeOK, StageInv, MapInv, DiskInv, Alive, DeleteRemove,
     ReqGoto
<1>36. ASSUME NEW r \in Requests, DeleteStop(r) PROVE DiskInv'
  BY <1>36 DEF TypeOK, StageInv, MapInv, DiskInv, Alive, DeleteStop,
     ReqGoto, BeginCleanup
<1>37. ASSUME NEW r \in Requests, DeleteOk(r) PROVE DiskInv'
  BY <1>37 DEF TypeOK, StageInv, MapInv, DiskInv, Alive, DeleteOk, ReqGoto
<1>38. ASSUME NEW r \in Requests, PauseAcquire(r) PROVE DiskInv'
  BY <1>38 DEF TypeOK, StageInv, MapInv, DiskInv, Alive, PauseAcquire,
     ReqGoto
<1>39. ASSUME NEW r \in Requests, PauseAcquireFails(r) PROVE DiskInv'
  BY <1>39 DEF TypeOK, StageInv, MapInv, DiskInv, Alive,
     PauseAcquireFails, ReqGoto
<1>40. ASSUME NEW r \in Requests, PauseLock(r) PROVE DiskInv'
  BY <1>40 DEF TypeOK, StageInv, MapInv, DiskInv, Alive, PauseLock,
     ReqGoto
<1>41. ASSUME NEW r \in Requests, PauseGet(r) PROVE DiskInv'
  BY <1>41 DEF TypeOK, StageInv, MapInv, DiskInv, Alive, PauseGet,
     ReleasePermit
<1>42. ASSUME NEW r \in Requests, PauseDns(r) PROVE DiskInv'
  BY <1>42 DEF TypeOK, StageInv, MapInv, DiskInv, Alive, PauseDns,
     ReqGoto, RemoveDns
<1>43. ASSUME NEW r \in Requests, PauseRemove(r) PROVE DiskInv'
  BY <1>43 DEF TypeOK, StageInv, MapInv, DiskInv, Alive, PauseRemove,
     ReqGoto
<1>44. ASSUME NEW r \in Requests, TemplateFiles(r) PROVE DiskInv'
  BY <1>44 DEF TypeOK, StageInv, MapInv, DiskInv, Alive, TemplateFiles,
     ReqGoto
<1>45. ASSUME NEW r \in Requests, TemplateFilesFail(r) PROVE DiskInv'
  BY <1>45 DEF TypeOK, StageInv, MapInv, DiskInv, Alive,
     TemplateFilesFail, ReqGoto, ReleasePermit
<1>46. ASSUME NEW r \in Requests, SnapshotMemory(r) PROVE DiskInv'
  BY <1>46 DEF TypeOK, StageInv, MapInv, DiskInv, Alive, SnapshotMemory,
     ReqGoto, ReleasePermit
<1>47. ASSUME NEW r \in Requests, EjectCache(r) PROVE DiskInv'
  BY <1>47 DEF TypeOK, StageInv, MapInv, DiskInv, Alive, EjectCache,
     ReqGoto
<1>48. ASSUME NEW r \in Requests, ExportRootfs(r) PROVE DiskInv'
  BY <1>48 DEF TypeOK, StageInv, MapInv, DiskInv, Alive, ExportRootfs,
     ReqGoto
<1>49. ASSUME NEW r \in Requests, AddSnapshot(r) PROVE DiskInv'
  BY <1>49 DEF TypeOK, StageInv, MapInv, DiskInv, Alive, AddSnapshot,
     ReqGoto
<1>50. ASSUME NEW r \in Requests, PauseFails(r) PROVE DiskInv'
  BY <1>50 DEF TypeOK, StageInv, MapInv, DiskInv, Alive, PauseFails,
     SnapshotFails, ReleasePermit
<1>51. ASSUME NEW r \in Requests, ExportTimesOut(r) PROVE DiskInv'
  BY <1>51 DEF TypeOK, StageInv, MapInv, DiskInv, Alive, ExportTimesOut,
     SnapshotFails, ReleasePermit
<1>52. ASSUME Restart PROVE DiskInv'
  BY <1>52 DEF TypeOK, StageInv, MapInv, DiskInv, Alive, Restart
<1>53. ASSUME PopulateStep PROVE DiskInv'
  BY <1>53 DEF TypeOK, StageInv, MapInv, DiskInv, Alive, PopulateStep
<1> QED
  BY <1>1, <1>2, <1>3, <1>4, <1>5, <1>6, <1>7, <1>8, <1>9, <1>10, <1>11,
     <1>12, <1>13, <1>14, <1>15, <1>16, <1>17, <1>18, <1>19, <1>20, <1>21,
     <1>22, <1>23, <1>24, <1>25, <1>26, <1>27, <1>28, <1>29, <1>30, <1>31,
     <1>32, <1>33, <1>34, <1>35, <1>36, <1>37, <1>38, <1>39, <1>40, <1>41,
     <1>42, <1>43, <1>44, <1>45, <1>46, <1>47, <1>48, <1>49, <1>50, <1>51,
     <1>52, <1>53
  DEF Next, CreateStep, Cleanup, Life, RequestStep, RequestProceeds

\* Export waits for the token that only the cleanup, after the kill, gives.
THEOREM SnapshotDiskIsFinal == Spec => []DiskIsFinal
<1>1. IInv /\ DiskInv /\ UNCHANGED vars => DiskInv'
  BY DEF DiskInv, Alive, vars
<1>2. IInv /\ DiskInv /\ [Next]_vars => DiskInv'
  BY <1>1, DiskStep DEF IInv
<1>3. IInv /\ DiskInv => DiskIsFinal
  <2> SUFFICES ASSUME IInv, DiskInv, NEW r \in Requests, rpc[r] = "addSnapshot"
               PROVE  /\ vm[rgot[r]] \notin {"booting", "running"}
                      /\ ~DisconnectFails => mount[rgot[r]] \in {"closed", "released"}
    BY DEF DiskIsFinal
  <2>1. rgot[r] \in Calls /\ pc[rgot[r]] = "ok"
    BY DEF IInv, TypeOK, MapInv
  <2>2. mount[rgot[r]] \in {"closed", "late", "released"} /\ run[rgot[r]] \in {"list", "done"}
    BY <2>1 DEF DiskInv
  <2> QED BY <2>1, <2>2 DEF DiskInv, Alive, IInv, StageInv
<1> QED BY <1>2, <1>3, DiskInit, Inductive, PTL DEF Spec

-----------------------------------------------------------------------------
(* What has been released when a sandbox's goroutine ends.                 *)

\* The list of a started sandbox runs to its end, past its device; its
\* goroutine goes on only then, with both processes exited.  Its cache was made
\* before, and only a Pause that is exporting it or failed to has it ejected.
DoneInv == \A c \in Calls :
  /\ pc[c] = "ok" /\ run[c] = "done" => left[c] = 0
  /\ pc[c] = "ok" /\ run[c] \in {"list", "done"} /\ left[c] < 2 =>
       mount[c] = "released" /\ cache[c] # "open"
  /\ life[c] \in {"remove", "done"} =>
       run[c] = "done" /\ vm[c] = "exited" /\ uffd[c] = "exited"
  /\ life[c] = "done" => \A s \in Ids : sandboxes[s] # c
  /\ pc[c] \in {"uffd", "fc", "boot", "resume", "envd", "insert", "ok"} => cache[c] # "none"
  /\ cache[c] = "ejected" => CacheLost(c)

\* No sandbox has been started.
LEMMA DoneInit == Init => DoneInv
  BY DEF Init, DoneInv, CacheLost

\* Every step keeps the order of cleanup, exits and removal.
LEMMA DoneStep ==
  ASSUME TypeOK, StageInv, MapInv, DiskInv, DoneInv, Next
  PROVE  DoneInv'
<1>1. ASSUME NEW c \in Calls, NEW s \in Ids, Create(c, s) PROVE DoneInv'
  BY <1>1 DEF TypeOK, StageInv, MapInv, DiskInv, DoneInv, CacheLost, Create, Move
<1>2. ASSUME NEW c \in Calls, GetReused(c) PROVE DoneInv'
  BY <1>2 DEF TypeOK, StageInv, MapInv, DiskInv, DoneInv, CacheLost, GetReused, Move
<1>3. ASSUME NEW c \in Calls, GetNoReused(c) PROVE DoneInv'
  BY <1>3 DEF TypeOK, StageInv, MapInv, DiskInv, DoneInv, CacheLost, GetNoReused, Move
<1>4. ASSUME NEW c \in Calls, GetNew(c) PROVE DoneInv'
  BY <1>4 DEF TypeOK, StageInv, MapInv, DiskInv, DoneInv, CacheLost, GetNew, Move
<1>5. ASSUME NEW c \in Calls, NewCowDevice(c) PROVE DoneInv'
  BY <1>5 DEF TypeOK, StageInv, MapInv, DiskInv, DoneInv, CacheLost, NewCowDevice, Move
<1>6. ASSUME NEW c \in Calls, UffdStart(c) PROVE DoneInv'
  BY <1>6 DEF TypeOK, StageInv, MapInv, DiskInv, DoneInv, CacheLost, UffdStart, Move
<1>7. ASSUME NEW c \in Calls, FcStart(c) PROVE DoneInv'
  BY <1>7 DEF TypeOK, StageInv, MapInv, DiskInv, DoneInv, CacheLost, FcStart, Move
<1>8. ASSUME NEW c \in Calls, RootfsPath(c) PROVE DoneInv'
  BY <1>8 DEF TypeOK, StageInv, MapInv, DiskInv, DoneInv, CacheLost, RootfsPath, Move
<1>9. ASSUME NEW c \in Calls, ResumeVM(c) PROVE DoneInv'
  BY <1>9 DEF TypeOK, StageInv, MapInv, DiskInv, DoneInv, CacheLost, ResumeVM, Move
<1>10. ASSUME NEW c \in Calls, DnsAdd(c) PROVE DoneInv'
  BY <1>10 DEF TypeOK, StageInv, MapInv, DiskInv, DoneInv, CacheLost, DnsAdd, Move
<1>11. ASSUME NEW c \in Calls, Insert(c) PROVE DoneInv'
  BY <1>11 DEF TypeOK, StageInv, MapInv, DiskInv, DoneInv, CacheLost, Insert, Move,
     LifeGoto
<1>12. ASSUME NEW c \in Calls, CreateFails(c) PROVE DoneInv'
  BY <1>12 DEF TypeOK, StageInv, MapInv, DiskInv, DoneInv, CacheLost, CreateFails,
     BeginCleanup
<1>13. ASSUME NEW c \in Calls, FcFails(c) PROVE DoneInv'
  BY <1>13 DEF TypeOK, StageInv, MapInv, DiskInv, DoneInv, CacheLost, Alive, FcFails,
     BeginCleanup, Kill
<1>14. ASSUME NEW c \in Calls, CreateError(c) PROVE DoneInv'
  BY <1>14 DEF TypeOK, StageInv, MapInv, DiskInv, DoneInv, CacheLost, CreateError, Move
<1>15. ASSUME NEW c \in Calls, RunPriority(c) PROVE DoneInv'
  BY <1>15 DEF TypeOK, StageInv, MapInv, DiskInv, DoneInv, CacheLost, Alive,
     RunPriority, Kill, StopUffd
<1>16. ASSUME NEW c \in Calls, CleanDns(c) PROVE DoneInv'
  BY <1>16, Places DEF TypeOK, StageInv, MapInv, DiskInv, DoneInv, CacheLost, CleanDns,
     Done, Last, RemoveDns
<1>17. ASSUME NEW c \in Calls, CleanUffd(c) PROVE DoneInv'
  BY <1>17, Places DEF TypeOK, StageInv, MapInv, DiskInv, DoneInv, CacheLost,
     CleanUffd, Done, Last, StopUffd
<1>18. ASSUME NEW c \in Calls, CloseMount(c) PROVE DoneInv'
  BY <1>18, Places DEF TypeOK, StageInv, MapInv, DiskInv, DoneInv, CacheLost,
     CloseMount, Last
<1>19. ASSUME NEW c \in Calls, CloseMountPanics(c) PROVE DoneInv'
  BY <1>19, Places DEF TypeOK, StageInv, MapInv, DiskInv, DoneInv, CacheLost,
     CloseMountPanics, Last
<1>20. ASSUME NEW c \in Calls, CloseOverlay(c) PROVE DoneInv'
  BY <1>20, Places DEF TypeOK, StageInv, MapInv, DiskInv, DoneInv, CacheLost,
     CloseOverlay, Done, Last
<1>21. ASSUME NEW c \in Calls, CleanSlot(c) PROVE DoneInv'
  BY <1>21, Places DEF TypeOK, StageInv, MapInv, DiskInv, DoneInv, CacheLost,
     CleanSlot, Done, Last
<1>22. ASSUME NEW c \in Calls, RunEnds(c) PROVE DoneInv'
  BY <1>22 DEF TypeOK, StageInv, MapInv, DiskInv, DoneInv, CacheLost, RunEnds
<1>23. ASSUME NEW c \in Calls, WaitEnds(c) PROVE DoneInv'
  BY <1>23 DEF TypeOK, StageInv, MapInv, DiskInv, DoneInv, CacheLost, WaitEnds,
     LifeGoto, BeginCleanup
<1>24. ASSUME NEW c \in Calls, StopEnds(c) PROVE DoneInv'
  BY <1>24 DEF TypeOK, StageInv, MapInv, DiskInv, DoneInv, CacheLost, StopEnds,
     LifeGoto
<1>25. ASSUME NEW c \in Calls, LifeRemove(c) PROVE DoneInv'
  BY <1>25 DEF TypeOK, StageInv, MapInv, DiskInv, DoneInv, CacheLost, LifeRemove,
     LifeGoto
<1>26. ASSUME NEW c \in Calls, SpawnedStop(c) PROVE DoneInv'
  BY <1>26 DEF TypeOK, StageInv, MapInv, DiskInv, DoneInv, CacheLost, SpawnedStop,
     BeginCleanup
<1>27. ASSUME NEW c \in Calls, VmExits(c) PROVE DoneInv'
  BY <1>27 DEF TypeOK, StageInv, MapInv, DiskInv, DoneInv, CacheLost, Alive, VmExits
<1>28. ASSUME NEW c \in Calls, UffdExits(c) PROVE DoneInv'
  BY <1>28 DEF TypeOK, StageInv, MapInv, DiskInv, DoneInv, CacheLost, UffdExits
<1>29. ASSUME NEW c \in Calls, MountOpens(c) PROVE DoneInv'
  BY <1>29 DEF TypeOK, StageInv, MapInv, DiskInv, DoneInv, CacheLost, MountOpens
<1>30. ASSUME NEW c \in Calls, MountFails(c) PROVE DoneInv'
  BY <1>30 DEF TypeOK, StageInv, MapInv, DiskInv, DoneInv, CacheLost, MountFails
<1>31. ASSUME NEW c \in Calls, Disconnected(c) PROVE DoneInv'
  BY <1>31 DEF TypeOK, StageInv, MapInv, DiskInv, DoneInv, CacheLost, Alive,
     Disconnected
<1>32. ASSUME NEW r \in Requests, NEW s \in Ids, Delete(r, s) PROVE DoneInv'
  BY <1>32 DEF TypeOK, StageInv, MapInv, DiskInv, DoneInv, CacheLost, Delete
<1>33. ASSUME NEW r \in Requests, NEW s \in Ids, Pause(r, s) PROVE DoneInv'
  BY <1>33 DEF TypeOK, StageInv, MapInv, DiskInv, DoneInv, CacheLost, Pause, ReqGoto
<1>34. ASSUME NEW r \in Requests, DeleteDns(r) PROVE DoneInv'
  BY <1>34 DEF TypeOK, StageInv, MapInv, DiskInv, DoneInv, CacheLost, DeleteDns,
     ReqGoto, RemoveDns
<1>35. ASSUME NEW r \in Requests, DeleteRemove(r) PROVE DoneInv'
  BY <1>35 DEF TypeOK, StageInv, MapInv, DiskInv, DoneInv, CacheLost, DeleteRemove,
     ReqGoto
<1>36. ASSUME NEW r \in Requests, DeleteStop(r) PROVE DoneInv'
  BY <1>36 DEF TypeOK, StageInv, MapInv, DiskInv, DoneInv, CacheLost, DeleteStop,
     ReqGoto, BeginCleanup
<1>37. ASSUME NEW r \in Requests, DeleteOk(r) PROVE DoneInv'
  BY <1>37 DEF TypeOK, StageInv, MapInv, DiskInv, DoneInv, CacheLost, DeleteOk, ReqGoto
<1>38. ASSUME NEW r \in Requests, PauseAcquire(r) PROVE DoneInv'
  BY <1>38 DEF TypeOK, StageInv, MapInv, DiskInv, DoneInv, CacheLost, PauseAcquire,
     ReqGoto
<1>39. ASSUME NEW r \in Requests, PauseAcquireFails(r) PROVE DoneInv'
  BY <1>39 DEF TypeOK, StageInv, MapInv, DiskInv, DoneInv, CacheLost,
     PauseAcquireFails, ReqGoto
<1>40. ASSUME NEW r \in Requests, PauseLock(r) PROVE DoneInv'
  BY <1>40 DEF TypeOK, StageInv, MapInv, DiskInv, DoneInv, CacheLost, PauseLock,
     ReqGoto
<1>41. ASSUME NEW r \in Requests, PauseGet(r) PROVE DoneInv'
  BY <1>41 DEF TypeOK, StageInv, MapInv, DiskInv, DoneInv, CacheLost, PauseGet,
     ReleasePermit
<1>42. ASSUME NEW r \in Requests, PauseDns(r) PROVE DoneInv'
  BY <1>42 DEF TypeOK, StageInv, MapInv, DiskInv, DoneInv, CacheLost, PauseDns,
     ReqGoto, RemoveDns
<1>43. ASSUME NEW r \in Requests, PauseRemove(r) PROVE DoneInv'
  BY <1>43 DEF TypeOK, StageInv, MapInv, DiskInv, DoneInv, CacheLost, PauseRemove,
     ReqGoto
<1>44. ASSUME NEW r \in Requests, TemplateFiles(r) PROVE DoneInv'
  BY <1>44 DEF TypeOK, StageInv, MapInv, DiskInv, DoneInv, CacheLost, TemplateFiles,
     ReqGoto
<1>45. ASSUME NEW r \in Requests, TemplateFilesFail(r) PROVE DoneInv'
  BY <1>45 DEF TypeOK, StageInv, MapInv, DiskInv, DoneInv, CacheLost,
     TemplateFilesFail, ReqGoto, ReleasePermit
<1>46. ASSUME NEW r \in Requests, SnapshotMemory(r) PROVE DoneInv'
  BY <1>46 DEF TypeOK, StageInv, MapInv, DiskInv, DoneInv, CacheLost, SnapshotMemory,
     ReqGoto, ReleasePermit
<1>47. ASSUME NEW r \in Requests, EjectCache(r) PROVE DoneInv'
  BY <1>47 DEF TypeOK, StageInv, MapInv, DiskInv, DoneInv, CacheLost, EjectCache,
     ReqGoto
<1>48. ASSUME NEW r \in Requests, ExportRootfs(r) PROVE DoneInv'
  BY <1>48 DEF TypeOK, StageInv, MapInv, DiskInv, DoneInv, CacheLost, ExportRootfs,
     ReqGoto
<1>49. ASSUME NEW r \in Requests, AddSnapshot(r) PROVE DoneInv'
  BY <1>49 DEF TypeOK, StageInv, MapInv, DiskInv, DoneInv, CacheLost, AddSnapshot,
     ReqGoto
<1>50. ASSUME NEW r \in Requests, PauseFails(r) PROVE DoneInv'
  BY <1>50 DEF TypeOK, StageInv, MapInv, DiskInv, DoneInv, CacheLost, PauseFails,
     SnapshotFails, ReleasePermit
<1>51. ASSUME NEW r \in Requests, ExportTimesOut(r) PROVE DoneInv'
  BY <1>51 DEF TypeOK, StageInv, MapInv, DiskInv, DoneInv, CacheLost, ExportTimesOut,
     SnapshotFails, ReleasePermit
<1>52. ASSUME Restart PROVE DoneInv'
  BY <1>52 DEF TypeOK, StageInv, MapInv, DiskInv, DoneInv, CacheLost, Restart
<1>53. ASSUME PopulateStep PROVE DoneInv'
  BY <1>53 DEF TypeOK, StageInv, MapInv, DiskInv, DoneInv, CacheLost, PopulateStep
<1> QED
  BY <1>1, <1>2, <1>3, <1>4, <1>5, <1>6, <1>7, <1>8, <1>9, <1>10, <1>11,
     <1>12, <1>13, <1>14, <1>15, <1>16, <1>17, <1>18, <1>19, <1>20, <1>21,
     <1>22, <1>23, <1>24, <1>25, <1>26, <1>27, <1>28, <1>29, <1>30, <1>31,
     <1>32, <1>33, <1>34, <1>35, <1>36, <1>37, <1>38, <1>39, <1>40, <1>41,
     <1>42, <1>43, <1>44, <1>45, <1>46, <1>47, <1>48, <1>49, <1>50, <1>51,
     <1>52, <1>53
  DEF Next, CreateStep, Cleanup, Life, RequestStep, RequestProceeds

\* Once a sandbox's goroutine has ended, all its resources are released, but for
\* the cache of a snapshot that is being exported or could not be.
THEOREM EndedReleasesAll == Spec => []EndedIsReleased
<1>1. IInv /\ DiskInv /\ DoneInv /\ UNCHANGED vars => DiskInv' /\ DoneInv'
  BY DEF DiskInv, DoneInv, CacheLost, Alive, vars
<1>2. IInv /\ DiskInv /\ DoneInv /\ [Next]_vars => DiskInv' /\ DoneInv'
  BY <1>1, DiskStep, DoneStep DEF IInv
<1>3. IInv /\ DoneInv => EndedIsReleased
  <2> SUFFICES ASSUME IInv, DoneInv, NEW c \in Calls, life[c] = "done"
               PROVE  /\ ~Holds(c) /\ vm[c] = "exited" /\ uffd[c] = "exited"
                      /\ mount[c] = "released"
                      /\ cache[c] = "closed" \/ CacheLost(c)
                      /\ \A s \in Ids : sandboxes[s] # c
    BY DEF EndedIsReleased
  <2>1. pc[c] = "ok"
    BY DEF IInv, MapInv
  <2>2. run[c] = "done" /\ left[c] = 0
    BY <2>1 DEF DoneInv
  <2>3. ~Holds(c) /\ vm[c] = "exited" /\ uffd[c] = "exited" /\ mount[c] = "released"
        /\ \A s \in Ids : sandboxes[s] # c
    BY <2>1, <2>2 DEF DoneInv, Holds
  <2>4. cache[c] \in {"none", "open", "ejected", "closed"}
    BY DEF IInv, TypeOK
  <2>5. cache[c] \notin {"none", "open"} /\ (cache[c] = "ejected" => CacheLost(c))
    BY <2>1, <2>2 DEF DoneInv
  <2> QED BY <2>3, <2>4, <2>5
<1> QED BY <1>2, <1>3, DiskInit, DoneInit, Inductive, PTL DEF Spec

=============================================================================
