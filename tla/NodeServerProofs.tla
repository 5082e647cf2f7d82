-------------------------- MODULE NodeServerProofs --------------------------
(***************************************************************************)
(* Proofs about NodeServer, for any number of slots, sandbox ids, calls,   *)
(* requests, permits, failures and restarts.                               *)
(***************************************************************************)
EXTENDS NodeServer, FiniteSetTheorems, SequenceTheorems, TLAPS

USE ServerAssumption, PoolAssumption
    DEF poolVars, serverVars, queueVars, ownVars, cleanVars, mountVars, procVars,
        lifeVars, reqVars, CreatePC, LifePC, DeletePC, PausePC

-----------------------------------------------------------------------------
(* Types, and the permits of the pause queue, on which the range of what   *)
(* is left of it depends.                                                  *)

Holders == {r \in Requests : permit[r]}

\* Who holds a permit is on its way from acquiring it to capturing the memory,
\* and whoever is on that way holds one.
PermitInv ==
  /\ IsFiniteSet(Holders)
  /\ PermitsAddUp
  /\ \A r \in Requests : permit[r] <=>
       rpc[r] \in {"lock", "get", "pauseDns", "pauseRemove", "files", "memory"}

\* The empty pool has the types.
LEMMA PoolTypeInit == PoolInit => PoolTypeOK
  BY DEF PoolInit, PoolTypeOK

\* The new server has the types.
LEMMA TypeInit == Init => TypeOK
<1> SUFFICES ASSUME Init PROVE TypeOK
  OBVIOUS
<1>1. PoolTypeOK
  BY PoolTypeInit DEF Init
<1>2. /\ pauseQueue \in 0..maxParalellSnapshotting
      /\ restarts \in 0..MaxRestarts
  BY DEF Init
<1>3. /\ priority \in [Calls -> BOOLEAN]
      /\ finished \in [Calls -> BOOLEAN]
      /\ stopping \in [Calls -> BOOLEAN]
      /\ permit \in [Requests -> BOOLEAN]
  BY DEF Init
<1> QED BY <1>1, <1>2, <1>3 DEF Init, TypeOK

\* The full semaphore: nobody holds a permit.
LEMMA PermitInit == Init => PermitInv
<1> SUFFICES ASSUME Init PROVE PermitInv
  OBVIOUS
<1>1. Holders = {}
  BY DEF Init, Holders
<1>2. IsFiniteSet(Holders) /\ Cardinality(Holders) = 0
  BY <1>1, FS_EmptySet
<1> QED BY <1>1, <1>2 DEF Init, PermitInv, PermitsAddUp, Holders

\* The pool's operations keep its types.
LEMMA PopulateType ==
  ASSUME PoolTypeOK, Populate
  PROVE  PoolTypeOK'
<1>1. CASE CreateNetworkSlot
  BY <1>1 DEF PoolTypeOK, CreateNetworkSlot
<1>2. CASE CreateNetworkSlotFails
  BY <1>2 DEF PoolTypeOK, CreateNetworkSlotFails, Fault
<1>3. CASE PopulateSend
  <2>1. popSlot \in Slots
    BY <1>3 DEF PoolTypeOK, PopulateSend
  <2>2. newSlots' \in Seq(Slots) /\ Len(newSlots') = Len(newSlots) + 1
    BY <1>3, <2>1, AppendProperties DEF PoolTypeOK, PopulateSend
  <2> QED BY <1>3, <2>2 DEF PoolTypeOK, PopulateSend
<1> QED BY <1>1, <1>2, <1>3 DEF Populate

\* Get takes the head of a channel.
LEMMA TakeType ==
  ASSUME PoolTypeOK, NEW c \in Calls, TakeReused(c) \/ TakeNew(c)
  PROVE  PoolTypeOK'
<1>1. CASE TakeReused(c)
  <2>1. /\ Head(reusedSlots) \in Slots /\ Tail(reusedSlots) \in Seq(Slots)
        /\ Len(Tail(reusedSlots)) = Len(reusedSlots) - 1
    BY <1>1, HeadTailProperties DEF PoolTypeOK, TakeReused
  <2> QED BY <1>1, <2>1 DEF PoolTypeOK, TakeReused
<1>2. CASE TakeNew(c)
  <2>1. /\ Head(newSlots) \in Slots /\ Tail(newSlots) \in Seq(Slots)
        /\ Len(Tail(newSlots)) = Len(newSlots) - 1
    BY <1>2, HeadTailProperties DEF PoolTypeOK, TakeNew
  <2> QED BY <1>2, <2>1 DEF PoolTypeOK, TakeNew
<1> QED BY <1>1, <1>2

\* Return appends a slot or deletes its key.
LEMMA ReturnType ==
  ASSUME PoolTypeOK, NEW c \in Calls, ips[c] \in Slots, Return(c)
  PROVE  PoolTypeOK'
<1>1. CASE Len(reusedSlots) < ReusedSlotsPoolSize /\ reusedSlots' = Append(reusedSlots, ips[c])
  <2>1. reusedSlots' \in Seq(Slots) /\ Len(reusedSlots') = Len(reusedSlots) + 1
    BY <1>1, AppendProperties DEF PoolTypeOK
  <2> QED BY <1>1, <2>1 DEF PoolTypeOK, Return
<1>2. CASE Release(ips[c]) /\ UNCHANGED reusedSlots
  BY <1>2 DEF PoolTypeOK, Return, Release, Fault
<1> QED BY <1>1, <1>2 DEF Return

\* A restart empties the channels.
LEMMA RestartType ==
  ASSUME PoolTypeOK, PoolRestart
  PROVE  PoolTypeOK'
  BY DEF PoolTypeOK, PoolRestart

\* Giving the permit back keeps the count, whether one is held or not.
LEMMA ReleaseKeepsPermits ==
  ASSUME TypeOK, PermitInv, NEW r \in Requests, ReleasePermit(r)
  PROVE  IsFiniteSet(Holders') /\ PermitsAddUp' /\ ~permit'[r]
<1>1. CASE permit[r]
  <2>1. r \in Holders /\ Holders' = Holders \ {r}
    BY <1>1 DEF TypeOK, Holders, ReleasePermit
  <2>2. IsFiniteSet(Holders') /\ Cardinality(Holders') = Cardinality(Holders) - 1
    BY <2>1, FS_RemoveElement DEF PermitInv
  <2>3. pauseQueue \in Nat /\ pauseQueue' = pauseQueue + 1 /\ Cardinality(Holders) \in Nat
    BY <1>1, FS_CardinalityType DEF TypeOK, PermitInv, ReleasePermit
  <2> QED BY <1>1, <2>2, <2>3 DEF TypeOK, PermitInv, PermitsAddUp, Holders, ReleasePermit
<1>2. CASE ~permit[r]
  BY <1>2 DEF PermitInv, PermitsAddUp, Holders, ReleasePermit
<1> QED BY <1>1, <1>2

\* What is left of the semaphore stays in its range.
LEMMA ReleaseType ==
  ASSUME TypeOK, PermitInv, NEW r \in Requests, ReleasePermit(r)
  PROVE  pauseQueue' \in 0..maxParalellSnapshotting /\ permit' \in [Requests -> BOOLEAN]
<1>1. IsFiniteSet(Holders') /\ PermitsAddUp'
  BY ReleaseKeepsPermits
<1>2. Cardinality(Holders') \in Nat /\ pauseQueue' + Cardinality(Holders') = maxParalellSnapshotting
  BY <1>1, FS_CardinalityType DEF PermitsAddUp, Holders
<1>3. pauseQueue' \in Nat
  BY DEF TypeOK, ReleasePermit
<1>4. permit' \in [Requests -> BOOLEAN]
  <2>1. permit' = [permit EXCEPT ![r] = FALSE] \/ permit' = permit
    BY DEF ReleasePermit
  <2> QED BY <2>1 DEF TypeOK
<1> QED BY <1>2, <1>3, <1>4

\* Every step keeps count of the permits.
LEMMA PermitStep ==
  ASSUME TypeOK, PermitInv, Next
  PROVE  PermitInv'
<1>1. ASSUME NEW c \in Calls, NEW s \in Ids, Create(c, s) PROVE PermitInv'
  BY <1>1 DEF TypeOK, PermitInv, PermitsAddUp, Holders, Create, Move
<1>2. ASSUME NEW c \in Calls, GetReused(c) PROVE PermitInv'
  BY <1>2 DEF TypeOK, PermitInv, PermitsAddUp, Holders, GetReused,
     Move
<1>3. ASSUME NEW c \in Calls, GetNoReused(c) PROVE PermitInv'
  BY <1>3 DEF TypeOK, PermitInv, PermitsAddUp, Holders, GetNoReused,
     Move
<1>4. ASSUME NEW c \in Calls, GetNew(c) PROVE PermitInv'
  BY <1>4 DEF TypeOK, PermitInv, PermitsAddUp, Holders, GetNew, Move
<1>5. ASSUME NEW c \in Calls, NewCowDevice(c) PROVE PermitInv'
  BY <1>5 DEF TypeOK, PermitInv, PermitsAddUp, Holders, NewCowDevice,
     Move
<1>6. ASSUME NEW c \in Calls, UffdStart(c) PROVE PermitInv'
  BY <1>6 DEF TypeOK, PermitInv, PermitsAddUp, Holders, UffdStart,
     Move
<1>7. ASSUME NEW c \in Calls, FcStart(c) PROVE PermitInv'
  BY <1>7 DEF TypeOK, PermitInv, PermitsAddUp, Holders, FcStart, Move
<1>8. ASSUME NEW c \in Calls, RootfsPath(c) PROVE PermitInv'
  BY <1>8 DEF TypeOK, PermitInv, PermitsAddUp, Holders, RootfsPath,
     Move
<1>9. ASSUME NEW c \in Calls, ResumeVM(c) PROVE PermitInv'
  BY <1>9 DEF TypeOK, PermitInv, PermitsAddUp, Holders, ResumeVM, Move
<1>10. ASSUME NEW c \in Calls, DnsAdd(c) PROVE PermitInv'
  BY <1>10 DEF TypeOK, PermitInv, PermitsAddUp, Holders, DnsAdd, Move
<1>11. ASSUME NEW c \in Calls, Insert(c) PROVE PermitInv'
  BY <1>11 DEF TypeOK, PermitInv, PermitsAddUp, Holders, Insert, Move,
     LifeGoto
<1>12. ASSUME NEW c \in Calls, CreateFails(c) PROVE PermitInv'
  BY <1>12 DEF TypeOK, PermitInv, PermitsAddUp, Holders, CreateFails,
     BeginCleanup
<1>13. ASSUME NEW c \in Calls, FcFails(c) PROVE PermitInv'
  BY <1>13 DEF TypeOK, PermitInv, PermitsAddUp, Holders, FcFails,
     BeginCleanup, Kill, Alive
<1>14. ASSUME NEW c \in Calls, CreateError(c) PROVE PermitInv'
  BY <1>14 DEF TypeOK, PermitInv, PermitsAddUp, Holders, CreateError,
     Move
<1>15. ASSUME NEW c \in Calls, RunPriority(c) PROVE PermitInv'
  BY <1>15 DEF TypeOK, PermitInv, PermitsAddUp, Holders, RunPriority,
     Kill, Alive, StopUffd
<1>16. ASSUME NEW c \in Calls, CleanDns(c) PROVE PermitInv'
  BY <1>16 DEF TypeOK, PermitInv, PermitsAddUp, Holders, CleanDns,
     Done, Last, RemoveDns
<1>17. ASSUME NEW c \in Calls, CleanUffd(c) PROVE PermitInv'
  BY <1>17 DEF TypeOK, PermitInv, PermitsAddUp, Holders, CleanUffd,
     Done, Last, StopUffd
<1>18. ASSUME NEW c \in Calls, CloseMount(c) PROVE PermitInv'
  BY <1>18 DEF TypeOK, PermitInv, PermitsAddUp, Holders, CloseMount,
     Last
<1>19. ASSUME NEW c \in Calls, CloseMountPanics(c) PROVE PermitInv'
  BY <1>19 DEF TypeOK, PermitInv, PermitsAddUp, Holders,
     CloseMountPanics, Last
<1>20. ASSUME NEW c \in Calls, CloseOverlay(c) PROVE PermitInv'
  BY <1>20 DEF TypeOK, PermitInv, PermitsAddUp, Holders, CloseOverlay,
     Done, Last
<1>21. ASSUME NEW c \in Calls, CleanSlot(c) PROVE PermitInv'
  BY <1>21 DEF TypeOK, PermitInv, PermitsAddUp, Holders, CleanSlot,
     Done, Last
<1>22. ASSUME NEW c \in Calls, RunEnds(c) PROVE PermitInv'
  BY <1>22 DEF TypeOK, PermitInv, PermitsAddUp, Holders, RunEnds
<1>23. ASSUME NEW c \in Calls, WaitEnds(c) PROVE PermitInv'
  BY <1>23 DEF TypeOK, PermitInv, PermitsAddUp, Holders, WaitEnds,
     LifeGoto, BeginCleanup
<1>24. ASSUME NEW c \in Calls, StopEnds(c) PROVE PermitInv'
  BY <1>24 DEF TypeOK, PermitInv, PermitsAddUp, Holders, StopEnds,
     LifeGoto
<1>25. ASSUME NEW c \in Calls, LifeRemove(c) PROVE PermitInv'
  BY <1>25 DEF TypeOK, PermitInv, PermitsAddUp, Holders, LifeRemove,
     LifeGoto
<1>26. ASSUME NEW c \in Calls, SpawnedStop(c) PROVE PermitInv'
  BY <1>26 DEF TypeOK, PermitInv, PermitsAddUp, Holders, SpawnedStop,
     BeginCleanup
<1>27. ASSUME NEW c \in Calls, VmExits(c) PROVE PermitInv'
  BY <1>27 DEF TypeOK, PermitInv, PermitsAddUp, Holders, VmExits
<1>28. ASSUME NEW c \in Calls, UffdExits(c) PROVE PermitInv'
  BY <1>28 DEF TypeOK, PermitInv, PermitsAddUp, Holders, UffdExits
<1>29. ASSUME NEW c \in Calls, MountOpens(c) PROVE PermitInv'
  BY <1>29 DEF TypeOK, PermitInv, PermitsAddUp, Holders, MountOpens
<1>30. ASSUME NEW c \in Calls, MountFails(c) PROVE PermitInv'
  BY <1>30 DEF TypeOK, PermitInv, PermitsAddUp, Holders, MountFails
<1>31. ASSUME NEW c \in Calls, Disconnected(c) PROVE PermitInv'
  BY <1>31 DEF TypeOK, PermitInv, PermitsAddUp, Holders, Disconnected
<1>32. ASSUME NEW r \in Requests, NEW s \in Ids, Delete(r, s) PROVE PermitInv'
  BY <1>32 DEF TypeOK, PermitInv, PermitsAddUp, Holders, Delete
<1>33. ASSUME NEW r \in Requests, NEW s \in Ids, Pause(r, s) PROVE PermitInv'
  BY <1>33 DEF TypeOK, PermitInv, PermitsAddUp, Holders, Pause,
     ReqGoto
<1>34. ASSUME NEW r \in Requests, DeleteDns(r) PROVE PermitInv'
  BY <1>34 DEF TypeOK, PermitInv, PermitsAddUp, Holders, DeleteDns,
     ReqGoto, RemoveDns
<1>35. ASSUME NEW r \in Requests, DeleteRemove(r) PROVE PermitInv'
  BY <1>35 DEF TypeOK, PermitInv, PermitsAddUp, Holders, DeleteRemove,
     ReqGoto
<1>36. ASSUME NEW r \in Requests, DeleteStop(r) PROVE PermitInv'
  BY <1>36 DEF TypeOK, PermitInv, PermitsAddUp, Holders, DeleteStop,
     ReqGoto, BeginCleanup
<1>37. ASSUME NEW r \in Requests, DeleteOk(r) PROVE PermitInv'
  BY <1>37 DEF TypeOK, PermitInv, PermitsAddUp, Holders, DeleteOk,
     ReqGoto
<1>38. ASSUME NEW r \in Requests, PauseAcquire(r) PROVE PermitInv'
  <2>1. r \notin Holders /\ Holders' = Holders \cup {r}
    BY <1>38 DEF TypeOK, PermitInv, Holders, PauseAcquire, ReqGoto
  <2>2. IsFiniteSet(Holders') /\ Cardinality(Holders') = Cardinality(Holders) + 1
    BY <2>1, FS_AddElement DEF PermitInv
  <2>3. pauseQueue \in Nat /\ pauseQueue' = pauseQueue - 1 /\ Cardinality(Holders) \in Nat
    BY <1>38, FS_CardinalityType DEF TypeOK, PermitInv, PauseAcquire
  <2>4. PermitsAddUp'
    BY <2>2, <2>3 DEF PermitInv, PermitsAddUp, Holders
  <2>5. \A q \in Requests : permit'[q] <=>
          rpc'[q] \in {"lock", "get", "pauseDns", "pauseRemove", "files", "memory"}
    BY <1>38 DEF TypeOK, PermitInv, PauseAcquire, ReqGoto
  <2> QED BY <2>2, <2>4, <2>5 DEF PermitInv
<1>39. ASSUME NEW r \in Requests, PauseAcquireFails(r) PROVE PermitInv'
  BY <1>39 DEF TypeOK, PermitInv, PermitsAddUp, Holders,
     PauseAcquireFails, ReqGoto
<1>40. ASSUME NEW r \in Requests, PauseLock(r) PROVE PermitInv'
  BY <1>40 DEF TypeOK, PermitInv, PermitsAddUp, Holders, PauseLock,
     ReqGoto
<1>41. ASSUME NEW r \in Requests, PauseGet(r) PROVE PermitInv'
  <2>1. CASE sandboxes[rid[r]] = NoCall
    <3>1. ReleasePermit(r) /\ rpc' = [rpc EXCEPT ![r] = "error"]
      BY <1>41, <2>1 DEF PauseGet
    <3>2. IsFiniteSet(Holders') /\ PermitsAddUp' /\ ~permit'[r]
      BY <3>1, ReleaseKeepsPermits
    <3>3. \A q \in Requests : permit'[q] <=> permit[q] /\ q # r
      BY <3>1, <3>2 DEF TypeOK, ReleasePermit
    <3> QED BY <3>1, <3>2, <3>3 DEF TypeOK, PermitInv
  <2>2. CASE sandboxes[rid[r]] # NoCall
    BY <1>41, <2>2 DEF TypeOK, PermitInv, PermitsAddUp, Holders, PauseGet
  <2> QED BY <2>1, <2>2
<1>42. ASSUME NEW r \in Requests, PauseDns(r) PROVE PermitInv'
  BY <1>42 DEF TypeOK, PermitInv, PermitsAddUp, Holders, PauseDns,
     ReqGoto, RemoveDns
<1>43. ASSUME NEW r \in Requests, PauseRemove(r) PROVE PermitInv'
  BY <1>43 DEF TypeOK, PermitInv, PermitsAddUp, Holders, PauseRemove,
     ReqGoto
<1>44. ASSUME NEW r \in Requests, TemplateFiles(r) PROVE PermitInv'
  BY <1>44 DEF TypeOK, PermitInv, PermitsAddUp, Holders,
     TemplateFiles, ReqGoto
<1>45. ASSUME NEW r \in Requests, TemplateFilesFail(r) PROVE PermitInv'
  <2>1. ReleasePermit(r)
    BY <1>45 DEF TemplateFilesFail, ReqGoto
  <2>2. IsFiniteSet(Holders') /\ PermitsAddUp' /\ ~permit'[r]
    BY <2>1, ReleaseKeepsPermits
  <2>3. \A q \in Requests : permit'[q] <=> permit[q] /\ q # r
    BY <2>1, <2>2 DEF TypeOK, ReleasePermit
  <2>4. \A q \in Requests : rpc'[q] = IF q = r THEN "error" ELSE rpc[q]
    BY <1>45 DEF TypeOK, TemplateFilesFail, ReqGoto
  <2> QED BY <2>2, <2>3, <2>4 DEF PermitInv
<1>46. ASSUME NEW r \in Requests, SnapshotMemory(r) PROVE PermitInv'
  <2>1. ReleasePermit(r)
    BY <1>46 DEF SnapshotMemory, ReqGoto
  <2>2. IsFiniteSet(Holders') /\ PermitsAddUp' /\ ~permit'[r]
    BY <2>1, ReleaseKeepsPermits
  <2>3. \A q \in Requests : permit'[q] <=> permit[q] /\ q # r
    BY <2>1, <2>2 DEF TypeOK, ReleasePermit
  <2>4. \A q \in Requests : rpc'[q] = IF q = r THEN "eject" ELSE rpc[q]
    BY <1>46 DEF TypeOK, SnapshotMemory, ReqGoto
  <2> QED BY <2>2, <2>3, <2>4 DEF PermitInv
<1>47. ASSUME NEW r \in Requests, EjectCache(r) PROVE PermitInv'
  BY <1>47 DEF TypeOK, PermitInv, PermitsAddUp, Holders, EjectCache,
     ReqGoto
<1>48. ASSUME NEW r \in Requests, ExportRootfs(r) PROVE PermitInv'
  BY <1>48 DEF TypeOK, PermitInv, PermitsAddUp, Holders, ExportRootfs,
     ReqGoto
<1>49. ASSUME NEW r \in Requests, AddSnapshot(r) PROVE PermitInv'
  BY <1>49 DEF TypeOK, PermitInv, PermitsAddUp, Holders, AddSnapshot,
     ReqGoto
<1>50. ASSUME NEW r \in Requests, PauseFails(r) PROVE PermitInv'
  <2>1. ReleasePermit(r)
    BY <1>50 DEF PauseFails, SnapshotFails
  <2>2. IsFiniteSet(Holders') /\ PermitsAddUp' /\ ~permit'[r]
    BY <2>1, ReleaseKeepsPermits
  <2>3. \A q \in Requests : permit'[q] <=> permit[q] /\ q # r
    BY <2>1, <2>2 DEF TypeOK, ReleasePermit
  <2>4. \A q \in Requests : rpc'[q] = IF q = r THEN "error" ELSE rpc[q]
    BY <1>50 DEF TypeOK, PauseFails, SnapshotFails
  <2> QED BY <2>2, <2>3, <2>4 DEF PermitInv
<1>51. ASSUME NEW r \in Requests, ExportTimesOut(r) PROVE PermitInv'
  <2>1. ReleasePermit(r)
    BY <1>51 DEF ExportTimesOut, SnapshotFails
  <2>2. IsFiniteSet(Holders') /\ PermitsAddUp' /\ ~permit'[r]
    BY <2>1, ReleaseKeepsPermits
  <2>3. \A q \in Requests : permit'[q] <=> permit[q] /\ q # r
    BY <2>1, <2>2 DEF TypeOK, ReleasePermit
  <2>4. \A q \in Requests : rpc'[q] = IF q = r THEN "error" ELSE rpc[q]
    BY <1>51 DEF TypeOK, ExportTimesOut, SnapshotFails
  <2> QED BY <2>2, <2>3, <2>4 DEF PermitInv
<1>52. ASSUME Restart PROVE PermitInv'
  <2>1. Holders' = {} /\ pauseQueue' = maxParalellSnapshotting
    BY <1>52 DEF Holders, Restart
  <2>2. IsFiniteSet(Holders') /\ Cardinality(Holders') = 0
    BY <2>1, FS_EmptySet
  <2> QED BY <1>52, <2>1, <2>2 DEF PermitInv, PermitsAddUp, Holders, Restart
<1>53. ASSUME PopulateStep PROVE PermitInv'
  BY <1>53 DEF TypeOK, PermitInv, PermitsAddUp, Holders, PopulateStep
<1> QED
  BY <1>1, <1>2, <1>3, <1>4, <1>5, <1>6, <1>7, <1>8, <1>9, <1>10, <1>11,
     <1>12, <1>13, <1>14, <1>15, <1>16, <1>17, <1>18, <1>19, <1>20, <1>21,
     <1>22, <1>23, <1>24, <1>25, <1>26, <1>27, <1>28, <1>29, <1>30, <1>31,
     <1>32, <1>33, <1>34, <1>35, <1>36, <1>37, <1>38, <1>39, <1>40, <1>41,
     <1>42, <1>43, <1>44, <1>45, <1>46, <1>47, <1>48, <1>49, <1>50, <1>51,
     <1>52, <1>53
  DEF Next, CreateStep, Cleanup, Life, RequestStep, RequestProceeds

-----------------------------------------------------------------------------
(* What is known of a sandbox by how far its Create has come, and who may  *)
(* refer to it.                                                            *)

\* What the cleanup list holds at each step of Create, that nobody begins the
\* cleanup of a sandbox that is still being created, and that a VM runs only
\* while the function that stops it has not been called.
StageInv == \A c \in Calls :
  /\ pc[c] \in {"new", "get", "getNew"} => cleanup[c] = 0 /\ ips[c] = NoSlot
  /\ pc[c] = "overlay" => cleanup[c] = 1
  /\ pc[c] = "uffd" => cleanup[c] = 2
  /\ pc[c] \in {"fc", "boot", "resume", "envd"} => cleanup[c] = 3
  /\ pc[c] \in {"insert", "ok"} => cleanup[c] = 4
  /\ pc[c] = "gone" => cleanup[c] = 0
  /\ cleanup[c] > 0 => ips[c] # NoSlot
  /\ left[c] <= cleanup[c]
  /\ run[c] # "no" => pc[c] \in {"cleanup", "ok", "error"}
  /\ pc[c] \in {"envd", "insert", "ok"} => priority[c]
  /\ vm[c] = "running" => \/ pc[c] = "gone"
                          \/ cleanup[c] > 0 /\ priority[c] /\ run[c] \in {"no", "priority"}

\* The map, the requests and the goroutines know only sandboxes whose Create
\* has answered, under their own id.
MapInv ==
  /\ \A s \in Ids : sandboxes[s] # NoCall =>
       pc[sandboxes[s]] = "ok" /\ sid[sandboxes[s]] = s
  /\ \A r \in Requests : rgot[r] # NoCall =>
       pc[rgot[r]] = "ok" /\ sid[rgot[r]] = rid[r]
  /\ \A r \in Requests : rpc[r] \in {"new", "acquire", "lock", "get"} => rgot[r] = NoCall
  /\ \A c \in Calls : life[c] # "off" \/ stopping[c] => pc[c] = "ok"

\* No Create has begun.
LEMMA StageInit == Init => StageInv /\ MapInv
  BY DEF Init, PoolInit, StageInv, MapInv

\* The cleanup functions by their place in the list.
LEMMA Places ==
  ASSUME TypeOK, NEW c \in Calls
  PROVE  /\ Last(c, "slot") => left[c] = 1
         /\ Last(c, "rootfs") => left[c] = 2
         /\ Last(c, "uffd") => left[c] = 3
         /\ Last(c, "dns") => left[c] = 4
<1>1. left[c] \in 0..4
  BY DEF TypeOK
<1>2. /\ CleanupOrder[1] = "slot" /\ CleanupOrder[2] = "rootfs"
      /\ CleanupOrder[3] = "uffd" /\ CleanupOrder[4] = "dns"
  BY DEF CleanupOrder
<1> QED BY <1>1, <1>2 DEF Last

\* Every step keeps a sandbox's resources in line with the stage of its Create.
LEMMA StageStep ==
  ASSUME TypeOK, StageInv, MapInv, Next
  PROVE  StageInv'
<1>1. ASSUME NEW c \in Calls, NEW s \in Ids, Create(c, s) PROVE StageInv'
  BY <1>1 DEF TypeOK, StageInv, MapInv, Create, Move
<1>2. ASSUME NEW c \in Calls, GetReused(c) PROVE StageInv'
  <2>1. ips'[c] \in Slots /\ \A d \in Calls : d # c => ips'[d] = ips[d]
    BY <1>2, HeadTailProperties DEF TypeOK, PoolTypeOK, GetReused, TakeReused
  <2> QED BY <1>2, <2>1 DEF TypeOK, StageInv, GetReused, Move
<1>3. ASSUME NEW c \in Calls, GetNoReused(c) PROVE StageInv'
  BY <1>3 DEF TypeOK, StageInv, MapInv, GetNoReused, Move
<1>4. ASSUME NEW c \in Calls, GetNew(c) PROVE StageInv'
  <2>1. ips'[c] \in Slots /\ \A d \in Calls : d # c => ips'[d] = ips[d]
    BY <1>4, HeadTailProperties DEF TypeOK, PoolTypeOK, GetNew, TakeNew
  <2> QED BY <1>4, <2>1 DEF TypeOK, StageInv, GetNew, Move
<1>5. ASSUME NEW c \in Calls, NewCowDevice(c) PROVE StageInv'
  BY <1>5 DEF TypeOK, StageInv, MapInv, NewCowDevice, Move
<1>6. ASSUME NEW c \in Calls, UffdStart(c) PROVE StageInv'
  BY <1>6 DEF TypeOK, StageInv, MapInv, UffdStart, Move
<1>7. ASSUME NEW c \in Calls, FcStart(c) PROVE StageInv'
  BY <1>7 DEF TypeOK, StageInv, MapInv, FcStart, Move
<1>8. ASSUME NEW c \in Calls, RootfsPath(c) PROVE StageInv'
  BY <1>8 DEF TypeOK, StageInv, MapInv, RootfsPath, Move
<1>9. ASSUME NEW c \in Calls, ResumeVM(c) PROVE StageInv'
  BY <1>9 DEF TypeOK, StageInv, MapInv, ResumeVM, Move
<1>10. ASSUME NEW c \in Calls, DnsAdd(c) PROVE StageInv'
  BY <1>10 DEF TypeOK, StageInv, MapInv, DnsAdd, Move
<1>11. ASSUME NEW c \in Calls, Insert(c) PROVE StageInv'
  BY <1>11 DEF TypeOK, StageInv, MapInv, Insert, Move, LifeGoto
<1>12. ASSUME NEW c \in Calls, CreateFails(c) PROVE StageInv'
  BY <1>12 DEF TypeOK, StageInv, MapInv, CreateFails, BeginCleanup
<1>13. ASSUME NEW c \in Calls, FcFails(c) PROVE StageInv'
  BY <1>13 DEF TypeOK, StageInv, MapInv, FcFails, BeginCleanup, Kill,
     Alive
<1>14. ASSUME NEW c \in Calls, CreateError(c) PROVE StageInv'
  BY <1>14 DEF TypeOK, StageInv, MapInv, CreateError, Move
<1>15. ASSUME NEW c \in Calls, RunPriority(c) PROVE StageInv'
  BY <1>15 DEF TypeOK, StageInv, MapInv, RunPriority, Kill, Alive,
     StopUffd
<1>16. ASSUME NEW c \in Calls, CleanDns(c) PROVE StageInv'
  BY <1>16 DEF TypeOK, StageInv, MapInv, CleanDns, Done, Last, RemoveDns
<1>17. ASSUME NEW c \in Calls, CleanUffd(c) PROVE StageInv'
  BY <1>17 DEF TypeOK, StageInv, MapInv, CleanUffd, Done, Last, StopUffd
<1>18. ASSUME NEW c \in Calls, CloseMount(c) PROVE StageInv'
  BY <1>18 DEF TypeOK, StageInv, MapInv, CloseMount, Last
<1>19. ASSUME NEW c \in Calls, CloseMountPanics(c) PROVE StageInv'
  BY <1>19 DEF TypeOK, StageInv, MapInv, CloseMountPanics, Last
<1>20. ASSUME NEW c \in Calls, CloseOverlay(c) PROVE StageInv'
  BY <1>20 DEF TypeOK, StageInv, MapInv, CloseOverlay, Done, Last
<1>21. ASSUME NEW c \in Calls, CleanSlot(c) PROVE StageInv'
  <2>1. UNCHANGED ips
    BY <1>21 DEF CleanSlot, Return
  <2> QED BY <1>21, <2>1 DEF TypeOK, StageInv, CleanSlot, Done, Last
<1>22. ASSUME NEW c \in Calls, RunEnds(c) PROVE StageInv'
  BY <1>22 DEF TypeOK, StageInv, MapInv, RunEnds
<1>23. ASSUME NEW c \in Calls, WaitEnds(c) PROVE StageInv'
  BY <1>23 DEF TypeOK, StageInv, MapInv, WaitEnds, LifeGoto, BeginCleanup
<1>24. ASSUME NEW c \in Calls, StopEnds(c) PROVE StageInv'
  BY <1>24 DEF TypeOK, StageInv, MapInv, StopEnds, LifeGoto
<1>25. ASSUME NEW c \in Calls, LifeRemove(c) PROVE StageInv'
  BY <1>25 DEF TypeOK, StageInv, MapInv, LifeRemove, LifeGoto
<1>26. ASSUME NEW c \in Calls, SpawnedStop(c) PROVE StageInv'
  BY <1>26 DEF TypeOK, StageInv, MapInv, SpawnedStop, BeginCleanup
<1>27. ASSUME NEW c \in Calls, VmExits(c) PROVE StageInv'
  BY <1>27 DEF TypeOK, StageInv, MapInv, VmExits
<1>28. ASSUME NEW c \in Calls, UffdExits(c) PROVE StageInv'
  BY <1>28 DEF TypeOK, StageInv, MapInv, UffdExits
<1>29. ASSUME NEW c \in Calls, MountOpens(c) PROVE StageInv'
  BY <1>29 DEF TypeOK, StageInv, MapInv, MountOpens
<1>30. ASSUME NEW c \in Calls, MountFails(c) PROVE StageInv'
  BY <1>30 DEF TypeOK, StageInv, MapInv, MountFails
<1>31. ASSUME NEW c \in Calls, Disconnected(c) PROVE StageInv'
  BY <1>31 DEF TypeOK, StageInv, MapInv, Disconnected
<1>32. ASSUME NEW r \in Requests, NEW s \in Ids, Delete(r, s) PROVE StageInv'
  BY <1>32 DEF TypeOK, StageInv, MapInv, Delete
<1>33. ASSUME NEW r \in Requests, NEW s \in Ids, Pause(r, s) PROVE StageInv'
  BY <1>33 DEF TypeOK, StageInv, MapInv, Pause, ReqGoto
<1>34. ASSUME NEW r \in Requests, DeleteDns(r) PROVE StageInv'
  BY <1>34 DEF TypeOK, StageInv, MapInv, DeleteDns, ReqGoto, RemoveDns
<1>35. ASSUME NEW r \in Requests, DeleteRemove(r) PROVE StageInv'
  BY <1>35 DEF TypeOK, StageInv, MapInv, DeleteRemove, ReqGoto
<1>36. ASSUME NEW r \in Requests, DeleteStop(r) PROVE StageInv'
  BY <1>36 DEF TypeOK, StageInv, MapInv, DeleteStop, ReqGoto, BeginCleanup
<1>37. ASSUME NEW r \in Requests, DeleteOk(r) PROVE StageInv'
  BY <1>37 DEF TypeOK, StageInv, MapInv, DeleteOk, ReqGoto
<1>38. ASSUME NEW r \in Requests, PauseAcquire(r) PROVE StageInv'
  BY <1>38 DEF TypeOK, StageInv, MapInv, PauseAcquire, ReqGoto
<1>39. ASSUME NEW r \in Requests, PauseAcquireFails(r) PROVE StageInv'
  BY <1>39 DEF TypeOK, StageInv, MapInv, PauseAcquireFails, ReqGoto
<1>40. ASSUME NEW r \in Requests, PauseLock(r) PROVE StageInv'
  BY <1>40 DEF TypeOK, StageInv, MapInv, PauseLock, ReqGoto
<1>41. ASSUME NEW r \in Requests, PauseGet(r) PROVE StageInv'
  BY <1>41 DEF TypeOK, StageInv, MapInv, PauseGet, ReleasePermit
<1>42. ASSUME NEW r \in Requests, PauseDns(r) PROVE StageInv'
  BY <1>42 DEF TypeOK, StageInv, MapInv, PauseDns, ReqGoto, RemoveDns
<1>43. ASSUME NEW r \in Requests, PauseRemove(r) PROVE StageInv'
  BY <1>43 DEF TypeOK, StageInv, MapInv, PauseRemove, ReqGoto
<1>44. ASSUME NEW r \in Requests, TemplateFiles(r) PROVE StageInv'
  BY <1>44 DEF TypeOK, StageInv, MapInv, TemplateFiles, ReqGoto
<1>45. ASSUME NEW r \in Requests, TemplateFilesFail(r) PROVE StageInv'
  BY <1>45 DEF TypeOK, StageInv, MapInv, TemplateFilesFail, ReqGoto,
     ReleasePermit
<1>46. ASSUME NEW r \in Requests, SnapshotMemory(r) PROVE StageInv'
  BY <1>46 DEF TypeOK, StageInv, MapInv, SnapshotMemory, ReqGoto,
     ReleasePermit
<1>47. ASSUME NEW r \in Requests, EjectCache(r) PROVE StageInv'
  BY <1>47 DEF TypeOK, StageInv, MapInv, EjectCache, ReqGoto
<1>48. ASSUME NEW r \in Requests, ExportRootfs(r) PROVE StageInv'
  BY <1>48 DEF TypeOK, StageInv, MapInv, ExportRootfs, ReqGoto
<1>49. ASSUME NEW r \in Requests, AddSnapshot(r) PROVE StageInv'
  BY <1>49 DEF TypeOK, StageInv, MapInv, AddSnapshot, ReqGoto
<1>50. ASSUME NEW r \in Requests, PauseFails(r) PROVE StageInv'
  BY <1>50 DEF TypeOK, StageInv, MapInv, PauseFails, SnapshotFails,
     ReleasePermit
<1>51. ASSUME NEW r \in Requests, ExportTimesOut(r) PROVE StageInv'
  BY <1>51 DEF TypeOK, StageInv, MapInv, ExportTimesOut, SnapshotFails,
     ReleasePermit
<1>52. ASSUME Restart PROVE StageInv'
  <2>1. UNCHANGED ips
    BY <1>52 DEF Restart, PoolRestart
  <2> QED BY <1>52, <2>1 DEF TypeOK, StageInv, Restart
<1>53. ASSUME PopulateStep PROVE StageInv'
  <2>1. UNCHANGED ips
    BY <1>53 DEF PopulateStep, Populate, CreateNetworkSlot, CreateNetworkSlotFails, PopulateSend
  <2> QED BY <1>53, <2>1 DEF StageInv, PopulateStep
<1> QED
  BY <1>1, <1>2, <1>3, <1>4, <1>5, <1>6, <1>7, <1>8, <1>9, <1>10, <1>11,
     <1>12, <1>13, <1>14, <1>15, <1>16, <1>17, <1>18, <1>19, <1>20, <1>21,
     <1>22, <1>23, <1>24, <1>25, <1>26, <1>27, <1>28, <1>29, <1>30, <1>31,
     <1>32, <1>33, <1>34, <1>35, <1>36, <1>37, <1>38, <1>39, <1>40, <1>41,
     <1>42, <1>43, <1>44, <1>45, <1>46, <1>47, <1>48, <1>49, <1>50, <1>51,
     <1>52, <1>53
  DEF Next, CreateStep, Cleanup, Life, RequestStep, RequestProceeds

\* Every step keeps the map, requests and goroutines to finished Creates.
LEMMA MapStep ==
  ASSUME TypeOK, StageInv, MapInv, Next
  PROVE  MapInv'
<1>1. ASSUME NEW c \in Calls, NEW s \in Ids, Create(c, s) PROVE MapInv'
  BY <1>1 DEF TypeOK, StageInv, MapInv, Create, Move
<1>2. ASSUME NEW c \in Calls, GetReused(c) PROVE MapInv'
  BY <1>2 DEF TypeOK, StageInv, MapInv, GetReused, Move
<1>3. ASSUME NEW c \in Calls, GetNoReused(c) PROVE MapInv'
  BY <1>3 DEF TypeOK, StageInv, MapInv, GetNoReused, Move
<1>4. ASSUME NEW c \in Calls, GetNew(c) PROVE MapInv'
  BY <1>4 DEF TypeOK, StageInv, MapInv, GetNew, Move
<1>5. ASSUME NEW c \in Calls, NewCowDevice(c) PROVE MapInv'
  BY <1>5 DEF TypeOK, StageInv, MapInv, NewCowDevice, Move
<1>6. ASSUME NEW c \in Calls, UffdStart(c) PROVE MapInv'
  BY <1>6 DEF TypeOK, StageInv, MapInv, UffdStart, Move
<1>7. ASSUME NEW c \in Calls, FcStart(c) PROVE MapInv'
  BY <1>7 DEF TypeOK, StageInv, MapInv, FcStart, Move
<1>8. ASSUME NEW c \in Calls, RootfsPath(c) PROVE MapInv'
  BY <1>8 DEF TypeOK, StageInv, MapInv, RootfsPath, Move
<1>9. ASSUME NEW c \in Calls, ResumeVM(c) PROVE MapInv'
  BY <1>9 DEF TypeOK, StageInv, MapInv, ResumeVM, Move
<1>10. ASSUME NEW c \in Calls, DnsAdd(c) PROVE MapInv'
  BY <1>10 DEF TypeOK, StageInv, MapInv, DnsAdd, Move
<1>11. ASSUME NEW c \in Calls, Insert(c) PROVE MapInv'
  BY <1>11 DEF TypeOK, StageInv, MapInv, Insert, Move, LifeGoto
<1>12. ASSUME NEW c \in Calls, CreateFails(c) PROVE MapInv'
  BY <1>12 DEF TypeOK, StageInv, MapInv, CreateFails, BeginCleanup
<1>13. ASSUME NEW c \in Calls, FcFails(c) PROVE MapInv'
  BY <1>13 DEF TypeOK, StageInv, MapInv, FcFails, BeginCleanup, Kill,
     Alive
<1>14. ASSUME NEW c \in Calls, CreateError(c) PROVE MapInv'
  BY <1>14 DEF TypeOK, StageInv, MapInv, CreateError, Move
<1>15. ASSUME NEW c \in Calls, RunPriority(c) PROVE MapInv'
  BY <1>15 DEF TypeOK, StageInv, MapInv, RunPriority, Kill, Alive,
     StopUffd
<1>16. ASSUME NEW c \in Calls, CleanDns(c) PROVE MapInv'
  BY <1>16 DEF TypeOK, StageInv, MapInv, CleanDns, Done, Last, RemoveDns
<1>17. ASSUME NEW c \in Calls, CleanUffd(c) PROVE MapInv'
  BY <1>17 DEF TypeOK, StageInv, MapInv, CleanUffd, Done, Last, StopUffd
<1>18. ASSUME NEW c \in Calls, CloseMount(c) PROVE MapInv'
  BY <1>18 DEF TypeOK, StageInv, MapInv, CloseMount, Last
<1>19. ASSUME NEW c \in Calls, CloseMountPanics(c) PROVE MapInv'
  BY <1>19 DEF TypeOK, StageInv, MapInv, CloseMountPanics, Last
<1>20. ASSUME NEW c \in Calls, CloseOverlay(c) PROVE MapInv'
  BY <1>20 DEF TypeOK, StageInv, MapInv, CloseOverlay, Done, Last
<1>21. ASSUME NEW c \in Calls, CleanSlot(c) PROVE MapInv'
  BY <1>21 DEF TypeOK, StageInv, MapInv, CleanSlot, Done, Last
<1>22. ASSUME NEW c \in Calls, RunEnds(c) PROVE MapInv'
  BY <1>22 DEF TypeOK, StageInv, MapInv, RunEnds
<1>23. ASSUME NEW c \in Calls, WaitEnds(c) PROVE MapInv'
  BY <1>23 DEF TypeOK, StageInv, MapInv, WaitEnds, LifeGoto, BeginCleanup
<1>24. ASSUME NEW c \in Calls, StopEnds(c) PROVE MapInv'
  BY <1>24 DEF TypeOK, StageInv, MapInv, StopEnds, LifeGoto
<1>25. ASSUME NEW c \in Calls, LifeRemove(c) PROVE MapInv'
  BY <1>25 DEF TypeOK, StageInv, MapInv, LifeRemove, LifeGoto
<1>26. ASSUME NEW c \in Calls, SpawnedStop(c) PROVE MapInv'
  BY <1>26 DEF TypeOK, StageInv, MapInv, SpawnedStop, BeginCleanup
<1>27. ASSUME NEW c \in Calls, VmExits(c) PROVE MapInv'
  BY <1>27 DEF TypeOK, StageInv, MapInv, VmExits
<1>28. ASSUME NEW c \in Calls, UffdExits(c) PROVE MapInv'
  BY <1>28 DEF TypeOK, StageInv, MapInv, UffdExits
<1>29. ASSUME NEW c \in Calls, MountOpens(c) PROVE MapInv'
  BY <1>29 DEF TypeOK, StageInv, MapInv, MountOpens
<1>30. ASSUME NEW c \in Calls, MountFails(c) PROVE MapInv'
  BY <1>30 DEF TypeOK, StageInv, MapInv, MountFails
<1>31. ASSUME NEW c \in Calls, Disconnected(c) PROVE MapInv'
  BY <1>31 DEF TypeOK, StageInv, MapInv, Disconnected
<1>32. ASSUME NEW r \in Requests, NEW s \in Ids, Delete(r, s) PROVE MapInv'
  BY <1>32 DEF TypeOK, StageInv, MapInv, Delete
<1>33. ASSUME NEW r \in Requests, NEW s \in Ids, Pause(r, s) PROVE MapInv'
  BY <1>33 DEF TypeOK, StageInv, MapInv, Pause, ReqGoto
<1>34. ASSUME NEW r \in Requests, DeleteDns(r) PROVE MapInv'
  BY <1>34 DEF TypeOK, StageInv, MapInv, DeleteDns, ReqGoto, RemoveDns
<1>35. ASSUME NEW r \in Requests, DeleteRemove(r) PROVE MapInv'
  BY <1>35 DEF TypeOK, StageInv, MapInv, DeleteRemove, ReqGoto
<1>36. ASSUME NEW r \in Requests, DeleteStop(r) PROVE MapInv'
  BY <1>36 DEF TypeOK, StageInv, MapInv, DeleteStop, ReqGoto, BeginCleanup
<1>37. ASSUME NEW r \in Requests, DeleteOk(r) PROVE MapInv'
  BY <1>37 DEF TypeOK, StageInv, MapInv, DeleteOk, ReqGoto
<1>38. ASSUME NEW r \in Requests, PauseAcquire(r) PROVE MapInv'
  BY <1>38 DEF TypeOK, StageInv, MapInv, PauseAcquire, ReqGoto
<1>39. ASSUME NEW r \in Requests, PauseAcquireFails(r) PROVE MapInv'
  BY <1>39 DEF TypeOK, StageInv, MapInv, PauseAcquireFails, ReqGoto
<1>40. ASSUME NEW r \in Requests, PauseLock(r) PROVE MapInv'
  BY <1>40 DEF TypeOK, StageInv, MapInv, PauseLock, ReqGoto
<1>41. ASSUME NEW r \in Requests, PauseGet(r) PROVE MapInv'
  BY <1>41 DEF TypeOK, StageInv, MapInv, PauseGet, ReleasePermit
<1>42. ASSUME NEW r \in Requests, PauseDns(r) PROVE MapInv'
  BY <1>42 DEF TypeOK, StageInv, MapInv, PauseDns, ReqGoto, RemoveDns
<1>43. ASSUME NEW r \in Requests, PauseRemove(r) PROVE MapInv'
  BY <1>43 DEF TypeOK, StageInv, MapInv, PauseRemove, ReqGoto
<1>44. ASSUME NEW r \in Requests, TemplateFiles(r) PROVE MapInv'
  BY <1>44 DEF TypeOK, StageInv, MapInv, TemplateFiles, ReqGoto
<1>45. ASSUME NEW r \in Requests, TemplateFilesFail(r) PROVE MapInv'
  BY <1>45 DEF TypeOK, StageInv, MapInv, TemplateFilesFail, ReqGoto,
     ReleasePermit
<1>46. ASSUME NEW r \in Requests, SnapshotMemory(r) PROVE MapInv'
  BY <1>46 DEF TypeOK, StageInv, MapInv, SnapshotMemory, ReqGoto,
     ReleasePermit
<1>47. ASSUME NEW r \in Requests, EjectCache(r) PROVE MapInv'
  BY <1>47 DEF TypeOK, StageInv, MapInv, EjectCache, ReqGoto
<1>48. ASSUME NEW r \in Requests, ExportRootfs(r) PROVE MapInv'
  BY <1>48 DEF TypeOK, StageInv, MapInv, ExportRootfs, ReqGoto
<1>49. ASSUME NEW r \in Requests, AddSnapshot(r) PROVE MapInv'
  BY <1>49 DEF TypeOK, StageInv, MapInv, AddSnapshot, ReqGoto
<1>50. ASSUME NEW r \in Requests, PauseFails(r) PROVE MapInv'
  BY <1>50 DEF TypeOK, StageInv, MapInv, PauseFails, SnapshotFails,
     ReleasePermit
<1>51. ASSUME NEW r \in Requests, ExportTimesOut(r) PROVE MapInv'
  BY <1>51 DEF TypeOK, StageInv, MapInv, ExportTimesOut, SnapshotFails,
     ReleasePermit
<1>52. ASSUME Restart PROVE MapInv'
  BY <1>52 DEF TypeOK, StageInv, MapInv, Restart
<1>53. ASSUME PopulateStep PROVE MapInv'
  BY <1>53 DEF TypeOK, StageInv, MapInv, PopulateStep
<1> QED
  BY <1>1, <1>2, <1>3, <1>4, <1>5, <1>6, <1>7, <1>8, <1>9, <1>10, <1>11,
     <1>12, <1>13, <1>14, <1>15, <1>16, <1>17, <1>18, <1>19, <1>20, <1>21,
     <1>22, <1>23, <1>24, <1>25, <1>26, <1>27, <1>28, <1>29, <1>30, <1>31,
     <1>32, <1>33, <1>34, <1>35, <1>36, <1>37, <1>38, <1>39, <1>40, <1>41,
     <1>42, <1>43, <1>44, <1>45, <1>46, <1>47, <1>48, <1>49, <1>50, <1>51,
     <1>52, <1>53
  DEF Next, CreateStep, Cleanup, Life, RequestStep, RequestProceeds

\* TypeOK by what changes together.
MapTypes   == sandboxes \in [Ids -> Calls \cup {NoCall}] /\ dns \in [Ids -> Slots \cup {NoSlot}]
QueueTypes == /\ pauseQueue \in 0..maxParalellSnapshotting
              /\ pauseMu \in Requests \cup {NoRequest}
              /\ permit \in [Requests -> BOOLEAN]
OwnTypes   == /\ pc \in [Calls -> CreatePC] /\ sid \in [Calls -> Ids \cup {NoId}]
              /\ \A c \in Calls : pc[c] # "new" => sid[c] \in Ids
CleanTypes == /\ cleanup \in [Calls -> 0..4] /\ left \in [Calls -> 0..4]
              /\ priority \in [Calls -> BOOLEAN]
              /\ run \in [Calls -> {"no", "priority", "list", "done"}]
MountTypes == /\ mount \in [Calls -> {"none", "opening", "open", "failed", "closing", "late",
                                      "closed", "stuck", "released"}]
              /\ cache \in [Calls -> {"none", "open", "ejected", "closed"}]
              /\ finished \in [Calls -> BOOLEAN]
ProcTypes  == /\ vm \in [Calls -> {"none", "booting", "running", "killed", "exited"}]
              /\ uffd \in [Calls -> {"none", "serving", "stopped", "exited"}]
LifeTypes  == life \in [Calls -> LifePC] /\ stopping \in [Calls -> BOOLEAN]
ReqTypes   ==
  /\ rpc \in [Requests -> {"new", "ok", "error"} \cup DeletePC \cup PausePC]
  /\ rid \in [Requests -> Ids \cup {NoId}] /\ rgot \in [Requests -> Calls \cup {NoCall}]
  /\ \A r \in Requests :
       /\ rpc[r] # "new" => rid[r] \in Ids
       /\ rpc[r] \in (DeletePC \cup PausePC) \ {"acquire", "lock", "get"} => rgot[r] \in Calls

LEMMA TypeGroups ==
  ASSUME TypeOK
  PROVE  /\ PoolTypeOK /\ MapTypes /\ QueueTypes /\ OwnTypes /\ CleanTypes /\ MountTypes
         /\ ProcTypes /\ LifeTypes /\ ReqTypes /\ restarts \in 0..MaxRestarts
  BY Zenon DEF TypeOK, MapTypes, QueueTypes, OwnTypes, CleanTypes, MountTypes, ProcTypes,
               LifeTypes, ReqTypes

LEMMA TypeGroupsNext ==
  ASSUME PoolTypeOK', MapTypes', QueueTypes', OwnTypes', CleanTypes', MountTypes',
         ProcTypes', LifeTypes', ReqTypes', (restarts \in 0..MaxRestarts)'
  PROVE  TypeOK'
  BY Zenon DEF TypeOK, MapTypes, QueueTypes, OwnTypes, CleanTypes, MountTypes, ProcTypes,
               LifeTypes, ReqTypes

\* What a step leaves alone keeps its type.
LEMMA TypeKept ==
  ASSUME TypeOK
  PROVE  /\ UNCHANGED poolVars => PoolTypeOK'
         /\ UNCHANGED serverVars => MapTypes'
         /\ UNCHANGED queueVars => QueueTypes'
         /\ UNCHANGED ownVars => OwnTypes'
         /\ UNCHANGED cleanVars => CleanTypes'
         /\ UNCHANGED mountVars => MountTypes'
         /\ UNCHANGED procVars => ProcTypes'
         /\ UNCHANGED lifeVars => LifeTypes'
         /\ UNCHANGED reqVars => ReqTypes'
         /\ UNCHANGED restarts => (restarts \in 0..MaxRestarts)'
<1> USE TypeGroups
<1>1. UNCHANGED poolVars => PoolTypeOK'
  BY DEF PoolTypeOK
<1>2. UNCHANGED serverVars => MapTypes'
  BY DEF MapTypes
<1>3. UNCHANGED queueVars => QueueTypes'
  BY DEF QueueTypes
<1>4. UNCHANGED ownVars => OwnTypes'
  BY DEF OwnTypes
<1>5. UNCHANGED cleanVars => CleanTypes'
  BY DEF CleanTypes
<1>6. UNCHANGED mountVars => MountTypes'
  BY DEF MountTypes
<1>7. UNCHANGED procVars => ProcTypes'
  BY DEF ProcTypes
<1>8. UNCHANGED lifeVars => LifeTypes'
  BY DEF LifeTypes
<1>9. UNCHANGED reqVars => ReqTypes'
  BY DEF ReqTypes
<1>10. UNCHANGED restarts => (restarts \in 0..MaxRestarts)'
  OBVIOUS
<1> QED BY <1>1, <1>2, <1>3, <1>4, <1>5, <1>6, <1>7, <1>8, <1>9, <1>10

\* Every step keeps the types.
LEMMA TypeStep ==
  ASSUME TypeOK, PermitInv, StageInv, Next
  PROVE  TypeOK'
<1>1. ASSUME NEW c \in Calls, NEW s \in Ids, Create(c, s) PROVE TypeOK'
  BY <1>1 DEF TypeOK, PoolTypeOK, Create, Move
<1>2. ASSUME NEW c \in Calls, GetReused(c) PROVE TypeOK'
  <2>1. PoolTypeOK'
    BY <1>2, TakeType DEF TypeOK, GetReused
  <2>2. pauseQueue' \in 0..maxParalellSnapshotting /\ restarts' \in 0..MaxRestarts
    BY <1>2 DEF TypeOK, GetReused, Move
  <2> QED BY <1>2, <2>1, <2>2 DEF TypeOK, GetReused, Move
<1>3. ASSUME NEW c \in Calls, GetNoReused(c) PROVE TypeOK'
  BY <1>3 DEF TypeOK, PoolTypeOK, GetNoReused, Move
<1>4. ASSUME NEW c \in Calls, GetNew(c) PROVE TypeOK'
  <2>1. PoolTypeOK'
    BY <1>4, TakeType DEF TypeOK, GetNew
  <2>2. pauseQueue' \in 0..maxParalellSnapshotting /\ restarts' \in 0..MaxRestarts
    BY <1>4 DEF TypeOK, GetNew, Move
  <2> QED BY <1>4, <2>1, <2>2 DEF TypeOK, GetNew, Move
<1>5. ASSUME NEW c \in Calls, NewCowDevice(c) PROVE TypeOK'
  BY <1>5 DEF TypeOK, PoolTypeOK, NewCowDevice, Move
<1>6. ASSUME NEW c \in Calls, UffdStart(c) PROVE TypeOK'
  BY <1>6 DEF TypeOK, PoolTypeOK, UffdStart, Move
<1>7. ASSUME NEW c \in Calls, FcStart(c) PROVE TypeOK'
  BY <1>7 DEF TypeOK, PoolTypeOK, FcStart, Move
<1>8. ASSUME NEW c \in Calls, RootfsPath(c) PROVE TypeOK'
  BY <1>8 DEF TypeOK, PoolTypeOK, RootfsPath, Move
<1>9. ASSUME NEW c \in Calls, ResumeVM(c) PROVE TypeOK'
  BY <1>9 DEF TypeOK, PoolTypeOK, ResumeVM, Move
<1>10. ASSUME NEW c \in Calls, DnsAdd(c) PROVE TypeOK'
  BY <1>10 DEF TypeOK, PoolTypeOK, DnsAdd, Move
<1>11. ASSUME NEW c \in Calls, Insert(c) PROVE TypeOK'
  BY <1>11 DEF TypeOK, PoolTypeOK, Insert, Move, LifeGoto
<1>12. ASSUME NEW c \in Calls, CreateFails(c) PROVE TypeOK'
  BY <1>12 DEF TypeOK, PoolTypeOK, CreateFails, BeginCleanup
<1>13. ASSUME NEW c \in Calls, FcFails(c) PROVE TypeOK'
  BY <1>13 DEF TypeOK, PoolTypeOK, FcFails, BeginCleanup, Kill, Alive
<1>14. ASSUME NEW c \in Calls, CreateError(c) PROVE TypeOK'
  BY <1>14 DEF TypeOK, PoolTypeOK, CreateError, Move
<1>15. ASSUME NEW c \in Calls, RunPriority(c) PROVE TypeOK'
  <2>1. /\ vm' \in [Calls -> {"none", "booting", "running", "killed", "exited"}]
        /\ uffd' \in [Calls -> {"none", "serving", "stopped", "exited"}]
    BY <1>15 DEF TypeOK, RunPriority, Kill, Alive, StopUffd
  <2>2. /\ left' \in [Calls -> 0..4]
        /\ run' \in [Calls -> {"no", "priority", "list", "done"}]
    BY <1>15 DEF TypeOK, RunPriority
  <2>3. UNCHANGED <<poolVars, serverVars, queueVars, ownVars, cleanup, priority,
                    mountVars, lifeVars, reqVars, restarts>>
    BY <1>15 DEF RunPriority
  <2> QED BY <2>1, <2>2, <2>3 DEF TypeOK, PoolTypeOK
<1>16. ASSUME NEW c \in Calls, CleanDns(c) PROVE TypeOK'
  <2>1. left' \in [Calls -> 0..4]
    BY <1>16 DEF TypeOK, CleanDns, Done, Last
  <2>2. dns' \in [Ids -> Slots \cup {NoSlot}]
    BY <1>16 DEF TypeOK, CleanDns, RemoveDns
  <2> QED BY <1>16, <2>1, <2>2 DEF TypeOK, PoolTypeOK, CleanDns
<1>17. ASSUME NEW c \in Calls, CleanUffd(c) PROVE TypeOK'
  BY <1>17 DEF TypeOK, PoolTypeOK, CleanUffd, Done, Last, StopUffd
<1>18. ASSUME NEW c \in Calls, CloseMount(c) PROVE TypeOK'
  <2>1. /\ mount' \in [Calls -> {"none", "opening", "open", "failed", "closing", "late",
                              "closed", "stuck", "released"}]
        /\ finished' \in [Calls -> BOOLEAN]
    BY <1>18 DEF TypeOK, CloseMount
  <2> QED BY <1>18, <2>1 DEF TypeOK, PoolTypeOK, CloseMount
<1>19. ASSUME NEW c \in Calls, CloseMountPanics(c) PROVE TypeOK'
  BY <1>19 DEF TypeOK, PoolTypeOK, CloseMountPanics, Last
<1>20. ASSUME NEW c \in Calls, CloseOverlay(c) PROVE TypeOK'
  BY <1>20 DEF TypeOK, PoolTypeOK, CloseOverlay, Done, Last
<1>21. ASSUME NEW c \in Calls, CleanSlot(c) PROVE TypeOK'
  <2>1. ips[c] \in Slots
    BY <1>21 DEF TypeOK, PoolTypeOK, StageInv, CleanSlot, Done, Last
  <2>2. PoolTypeOK'
    BY <1>21, <2>1, ReturnType DEF TypeOK, CleanSlot
  <2> QED BY <1>21, <2>2 DEF TypeOK, CleanSlot, Done, Last
<1>22. ASSUME NEW c \in Calls, RunEnds(c) PROVE TypeOK'
  BY <1>22 DEF TypeOK, PoolTypeOK, RunEnds
<1>23. ASSUME NEW c \in Calls, WaitEnds(c) PROVE TypeOK'
  BY <1>23 DEF TypeOK, PoolTypeOK, WaitEnds, LifeGoto, BeginCleanup
<1>24. ASSUME NEW c \in Calls, StopEnds(c) PROVE TypeOK'
  BY <1>24 DEF TypeOK, PoolTypeOK, StopEnds, LifeGoto
<1>25. ASSUME NEW c \in Calls, LifeRemove(c) PROVE TypeOK'
  BY <1>25 DEF TypeOK, PoolTypeOK, LifeRemove, LifeGoto
<1>26. ASSUME NEW c \in Calls, SpawnedStop(c) PROVE TypeOK'
  BY <1>26 DEF TypeOK, PoolTypeOK, SpawnedStop, BeginCleanup
<1>27. ASSUME NEW c \in Calls, VmExits(c) PROVE TypeOK'
  BY <1>27 DEF TypeOK, PoolTypeOK, VmExits
<1>28. ASSUME NEW c \in Calls, UffdExits(c) PROVE TypeOK'
  BY <1>28 DEF TypeOK, PoolTypeOK, UffdExits
<1>29. ASSUME NEW c \in Calls, MountOpens(c) PROVE TypeOK'
  BY <1>29 DEF TypeOK, PoolTypeOK, MountOpens
<1>30. ASSUME NEW c \in Calls, MountFails(c) PROVE TypeOK'
  BY <1>30 DEF TypeOK, PoolTypeOK, MountFails
<1>31. ASSUME NEW c \in Calls, Disconnected(c) PROVE TypeOK'
  BY <1>31 DEF TypeOK, PoolTypeOK, Disconnected
<1>32. ASSUME NEW r \in Requests, NEW s \in Ids, Delete(r, s) PROVE TypeOK'
  BY <1>32 DEF TypeOK, PoolTypeOK, Delete
<1>33. ASSUME NEW r \in Requests, NEW s \in Ids, Pause(r, s) PROVE TypeOK'
  BY <1>33 DEF TypeOK, PoolTypeOK, Pause, ReqGoto
<1>34. ASSUME NEW r \in Requests, DeleteDns(r) PROVE TypeOK'
  <2>1. dns' = dns \/ dns' = [dns EXCEPT ![rid[r]] = NoSlot]
    BY <1>34 DEF DeleteDns, RemoveDns
  <2>2. dns' \in [Ids -> Slots \cup {NoSlot}] /\ sandboxes' \in [Ids -> Calls \cup {NoCall}]
    BY <1>34, <2>1, TypeGroups DEF DeleteDns, MapTypes
  <2>3. /\ rpc[r] = "delDns" /\ rpc' = [rpc EXCEPT ![r] = "delRemove"]
        /\ UNCHANGED <<rid, rgot>>
    BY <1>34 DEF DeleteDns, ReqGoto
  <2>4. ReqTypes'
    BY <2>3, TypeGroups DEF ReqTypes
  <2>5. UNCHANGED <<poolVars, queueVars, ownVars, cleanVars, mountVars, procVars, lifeVars, restarts>>
    BY <1>34 DEF DeleteDns
  <2> QED BY <2>2, <2>4, <2>5, TypeKept, TypeGroupsNext DEF MapTypes
<1>35. ASSUME NEW r \in Requests, DeleteRemove(r) PROVE TypeOK'
  BY <1>35 DEF TypeOK, PoolTypeOK, DeleteRemove, ReqGoto
<1>36. ASSUME NEW r \in Requests, DeleteStop(r) PROVE TypeOK'
  BY <1>36 DEF TypeOK, PoolTypeOK, DeleteStop, ReqGoto, BeginCleanup
<1>37. ASSUME NEW r \in Requests, DeleteOk(r) PROVE TypeOK'
  BY <1>37 DEF TypeOK, PoolTypeOK, DeleteOk, ReqGoto
<1>38. ASSUME NEW r \in Requests, PauseAcquire(r) PROVE TypeOK'
  BY <1>38 DEF TypeOK, PoolTypeOK, PauseAcquire, ReqGoto
<1>39. ASSUME NEW r \in Requests, PauseAcquireFails(r) PROVE TypeOK'
  BY <1>39 DEF TypeOK, PoolTypeOK, PauseAcquireFails, ReqGoto
<1>40. ASSUME NEW r \in Requests, PauseLock(r) PROVE TypeOK'
  BY <1>40 DEF TypeOK, PoolTypeOK, PauseLock, ReqGoto
<1>41. ASSUME NEW r \in Requests, PauseGet(r) PROVE TypeOK'
  <2>1. CASE sandboxes[rid[r]] = NoCall
    <3>1. ReleasePermit(r)
      BY <1>41, <2>1 DEF PauseGet
    <3>2. pauseQueue' \in 0..maxParalellSnapshotting /\ permit' \in [Requests -> BOOLEAN]
      BY <3>1, ReleaseType
    <3>3. /\ rpc[r] = "get" /\ rpc' = [rpc EXCEPT ![r] = "error"] /\ pauseMu' = NoRequest
          /\ UNCHANGED <<poolVars, serverVars, ownVars, cleanVars, mountVars, procVars,
                         lifeVars, rid, rgot, restarts>>
      BY <1>41, <2>1 DEF PauseGet
    <3> QED BY <3>2, <3>3 DEF TypeOK, PoolTypeOK
  <2>2. CASE sandboxes[rid[r]] # NoCall
    <3>1. rid[r] \in Ids /\ sandboxes[rid[r]] \in Calls
      BY <1>41, <2>2 DEF TypeOK, PauseGet
    <3>2. /\ rpc[r] = "get" /\ rpc' = [rpc EXCEPT ![r] = "pauseDns"]
          /\ rgot' = [rgot EXCEPT ![r] = sandboxes[rid[r]]]
          /\ UNCHANGED <<poolVars, serverVars, queueVars, ownVars, cleanVars, mountVars,
                         procVars, lifeVars, rid, restarts>>
      BY <1>41, <2>2 DEF PauseGet
    <3> QED BY <3>1, <3>2 DEF TypeOK, PoolTypeOK
  <2> QED BY <2>1, <2>2
<1>42. ASSUME NEW r \in Requests, PauseDns(r) PROVE TypeOK'
  <2>1. dns' = dns \/ dns' = [dns EXCEPT ![rid[r]] = NoSlot]
    BY <1>42 DEF PauseDns, RemoveDns
  <2>2. dns' \in [Ids -> Slots \cup {NoSlot}] /\ sandboxes' \in [Ids -> Calls \cup {NoCall}]
    BY <1>42, <2>1, TypeGroups DEF PauseDns, MapTypes
  <2>3. /\ rpc[r] = "pauseDns" /\ rpc' = [rpc EXCEPT ![r] = "pauseRemove"]
        /\ UNCHANGED <<rid, rgot>>
    BY <1>42 DEF PauseDns, ReqGoto
  <2>4. ReqTypes'
    BY <2>3, TypeGroups DEF ReqTypes
  <2>5. UNCHANGED <<poolVars, queueVars, ownVars, cleanVars, mountVars, procVars, lifeVars, restarts>>
    BY <1>42 DEF PauseDns
  <2> QED BY <2>2, <2>4, <2>5, TypeKept, TypeGroupsNext DEF MapTypes
<1>43. ASSUME NEW r \in Requests, PauseRemove(r) PROVE TypeOK'
  BY <1>43 DEF TypeOK, PoolTypeOK, PauseRemove, ReqGoto
<1>44. ASSUME NEW r \in Requests, TemplateFiles(r) PROVE TypeOK'
  <2>1. /\ rpc[r] = "files" /\ rpc' = [rpc EXCEPT ![r] = "memory"]
        /\ UNCHANGED <<rid, rgot>>
    BY <1>44 DEF TemplateFiles, ReqGoto
  <2>2. ReqTypes'
    BY <2>1, TypeGroups DEF ReqTypes
  <2>3. UNCHANGED <<poolVars, serverVars, queueVars, ownVars, cleanVars, mountVars, procVars,
                    lifeVars, restarts>>
    BY <1>44 DEF TemplateFiles
  <2> QED BY <2>2, <2>3, TypeKept, TypeGroupsNext
<1>45. ASSUME NEW r \in Requests, TemplateFilesFail(r) PROVE TypeOK'
  <2>1. ReleasePermit(r)
    BY <1>45 DEF TemplateFilesFail, ReqGoto
  <2>2. pauseQueue' \in 0..maxParalellSnapshotting /\ permit' \in [Requests -> BOOLEAN]
    BY <2>1, ReleaseType
  <2>3. QueueTypes'
    BY <1>45, <2>2, TypeGroups DEF TemplateFilesFail, QueueTypes
  <2>4. /\ rpc[r] = "files" /\ rpc' = [rpc EXCEPT ![r] = "error"]
        /\ UNCHANGED <<rid, rgot>>
    BY <1>45 DEF TemplateFilesFail, ReqGoto
  <2>5. ReqTypes'
    BY <2>4, TypeGroups DEF ReqTypes
  <2>6. UNCHANGED <<poolVars, serverVars, ownVars, cleanVars, mountVars, procVars, lifeVars, restarts>>
    BY <1>45 DEF TemplateFilesFail
  <2> QED BY <2>3, <2>5, <2>6, TypeKept, TypeGroupsNext
<1>46. ASSUME NEW r \in Requests, SnapshotMemory(r) PROVE TypeOK'
  <2>1. ReleasePermit(r)
    BY <1>46 DEF SnapshotMemory, ReqGoto
  <2>2. pauseQueue' \in 0..maxParalellSnapshotting /\ permit' \in [Requests -> BOOLEAN]
    BY <2>1, ReleaseType
  <2>3. QueueTypes'
    BY <1>46, <2>2, TypeGroups DEF SnapshotMemory, QueueTypes
  <2>4. /\ rpc[r] = "memory" /\ rpc' = [rpc EXCEPT ![r] = "eject"]
        /\ UNCHANGED <<rid, rgot>>
    BY <1>46 DEF SnapshotMemory, ReqGoto
  <2>5. ReqTypes'
    BY <2>4, TypeGroups DEF ReqTypes
  <2>6. UNCHANGED <<poolVars, serverVars, ownVars, cleanVars, mountVars, procVars, lifeVars, restarts>>
    BY <1>46 DEF SnapshotMemory
  <2> QED BY <2>3, <2>5, <2>6, TypeKept, TypeGroupsNext
<1>47. ASSUME NEW r \in Requests, EjectCache(r) PROVE TypeOK'
  BY <1>47 DEF TypeOK, PoolTypeOK, EjectCache, ReqGoto
<1>48. ASSUME NEW r \in Requests, ExportRootfs(r) PROVE TypeOK'
  <2>1. finished' \in [Calls -> BOOLEAN]
    BY <1>48 DEF TypeOK, ExportRootfs
  <2>2. /\ cache' \in [Calls -> {"none", "open", "ejected", "closed"}]
        /\ rpc' \in [Requests -> {"new", "ok", "error"} \cup DeletePC \cup PausePC]
    BY <1>48 DEF TypeOK, ExportRootfs, ReqGoto
  <2> QED BY <1>48, <2>1, <2>2 DEF TypeOK, PoolTypeOK, ExportRootfs, ReqGoto
<1>49. ASSUME NEW r \in Requests, AddSnapshot(r) PROVE TypeOK'
  BY <1>49 DEF TypeOK, PoolTypeOK, AddSnapshot, ReqGoto
<1>50. ASSUME NEW r \in Requests, PauseFails(r) PROVE TypeOK'
  <2>1. ReleasePermit(r)
    BY <1>50 DEF PauseFails, SnapshotFails
  <2>2. pauseQueue' \in 0..maxParalellSnapshotting /\ permit' \in [Requests -> BOOLEAN]
    BY <2>1, ReleaseType
  <2>3. rpc' \in [Requests -> {"new", "ok", "error"} \cup DeletePC \cup PausePC]
    BY <1>50 DEF TypeOK, PauseFails, SnapshotFails
  <2>4. stopping' \in [Calls -> BOOLEAN]
    BY <1>50 DEF TypeOK, PauseFails, SnapshotFails
  <2>5. \A q \in Requests : /\ rpc'[q] # "new" => rid'[q] \in Ids
                            /\ rpc'[q] \in (DeletePC \cup PausePC) \ {"acquire", "lock", "get"}
                               => rgot'[q] \in Calls
    BY <1>50 DEF TypeOK, PauseFails, SnapshotFails
  <2>6. UNCHANGED <<poolVars, serverVars, pauseMu, ownVars, cleanVars, mountVars, procVars,
                    life, rid, rgot, restarts>>
    BY <1>50 DEF PauseFails, SnapshotFails
  <2> QED BY <2>2, <2>3, <2>4, <2>5, <2>6 DEF TypeOK, PoolTypeOK
<1>51. ASSUME NEW r \in Requests, ExportTimesOut(r) PROVE TypeOK'
  <2>1. ReleasePermit(r)
    BY <1>51 DEF ExportTimesOut, SnapshotFails
  <2>2. pauseQueue' \in 0..maxParalellSnapshotting /\ permit' \in [Requests -> BOOLEAN]
    BY <2>1, ReleaseType
  <2>3. rpc' \in [Requests -> {"new", "ok", "error"} \cup DeletePC \cup PausePC]
    BY <1>51 DEF TypeOK, ExportTimesOut, SnapshotFails
  <2>4. stopping' \in [Calls -> BOOLEAN]
    BY <1>51 DEF TypeOK, ExportTimesOut, SnapshotFails
  <2>5. \A q \in Requests : /\ rpc'[q] # "new" => rid'[q] \in Ids
                            /\ rpc'[q] \in (DeletePC \cup PausePC) \ {"acquire", "lock", "get"}
                               => rgot'[q] \in Calls
    BY <1>51 DEF TypeOK, ExportTimesOut, SnapshotFails
  <2>6. UNCHANGED <<poolVars, serverVars, pauseMu, ownVars, cleanVars, mountVars, procVars,
                    life, rid, rgot, restarts>>
    BY <1>51 DEF ExportTimesOut, SnapshotFails
  <2> QED BY <2>2, <2>3, <2>4, <2>5, <2>6 DEF TypeOK, PoolTypeOK
<1>52. ASSUME Restart PROVE TypeOK'
  <2>1. PoolTypeOK'
    BY <1>52, RestartType DEF TypeOK, Restart
  <2>2. /\ sandboxes' \in [Ids -> Calls \cup {NoCall}]
        /\ dns' \in [Ids -> Slots \cup {NoSlot}]
        /\ pauseQueue' \in 0..maxParalellSnapshotting
        /\ pauseMu' \in Requests \cup {NoRequest}
        /\ restarts' \in 0..MaxRestarts
        /\ pc' \in [Calls -> CreatePC]
        /\ sid' \in [Calls -> Ids \cup {NoId}]
        /\ cleanup' \in [Calls -> 0..4]
        /\ left' \in [Calls -> 0..4]
    BY <1>52 DEF TypeOK, Restart
  <2>3. /\ priority' \in [Calls -> BOOLEAN]
        /\ finished' \in [Calls -> BOOLEAN]
        /\ stopping' \in [Calls -> BOOLEAN]
        /\ permit' \in [Requests -> BOOLEAN]
    BY <1>52 DEF TypeOK, Restart
  <2>4. /\ \A c \in Calls : pc'[c] # "new" => sid'[c] \in Ids
        /\ \A r \in Requests : rpc'[r] # "new" => rid'[r] \in Ids
        /\ \A r \in Requests : rpc'[r] \in {"new", "error"}
    BY <1>52 DEF TypeOK, Restart
  <2> QED BY <1>52, <2>1, <2>2, <2>3, <2>4 DEF TypeOK, Restart
<1>53. ASSUME PopulateStep PROVE TypeOK'
  <2>1. PoolTypeOK'
    BY <1>53, PopulateType DEF TypeOK, PopulateStep
  <2> QED BY <1>53, <2>1 DEF TypeOK, PopulateStep
<1> QED
  BY <1>1, <1>2, <1>3, <1>4, <1>5, <1>6, <1>7, <1>8, <1>9, <1>10, <1>11,
     <1>12, <1>13, <1>14, <1>15, <1>16, <1>17, <1>18, <1>19, <1>20, <1>21,
     <1>22, <1>23, <1>24, <1>25, <1>26, <1>27, <1>28, <1>29, <1>30, <1>31,
     <1>32, <1>33, <1>34, <1>35, <1>36, <1>37, <1>38, <1>39, <1>40, <1>41,
     <1>42, <1>43, <1>44, <1>45, <1>46, <1>47, <1>48, <1>49, <1>50, <1>51,
     <1>52, <1>53
  DEF Next, CreateStep, Cleanup, Life, RequestStep, RequestProceeds

\* What the types of the pool and of the semaphore depend on.
IInv == TypeOK /\ PermitInv /\ StageInv /\ MapInv

\* The invariant holds in every reachable state.
LEMMA Inductive == Spec => []IInv
<1>1. Init => IInv
  BY TypeInit, PermitInit, StageInit DEF IInv
<1>2. IInv /\ UNCHANGED vars => IInv'
  BY DEF IInv, TypeOK, PoolTypeOK, PermitInv, PermitsAddUp, Holders, StageInv,
     MapInv, vars
<1>3. IInv /\ [Next]_vars => IInv'
  BY <1>2, TypeStep, PermitStep, StageStep, MapStep DEF IInv
<1> QED BY <1>1, <1>3, PTL DEF Spec

\* Every variable keeps its type; a request past its lookup has found a sandbox.
THEOREM TypeCorrect == Spec => []TypeOK
<1>1. IInv => TypeOK
  BY DEF IInv
<1> QED BY <1>1, Inductive, PTL

\* A pause gives its permit back exactly once, wherever it returns: the permits
\* add up, and no request that was answered holds one.
THEOREM PermitsKept == Spec => []PermitsConserved
<1>1. IInv => PermitsConserved
  BY DEF IInv, PermitInv, PermitsConserved
<1> QED BY <1>1, Inductive, PTL

-----------------------------------------------------------------------------
(* What is listed.  That every running sandbox is listed does not hold, even  *)
(* under a careful caller (RunningIsListed); here is the only way it fails.   *)

Making(c)   == pc[c] \notin {"new", "ok", "error", "gone"}
InFlight(r) == rpc[r] \notin {"new", "ok", "error"} /\ rgot[r] # NoCall

\* Runs, although nobody asked to stop it, and is not the one that is listed.
Hidden(c) == /\ pc[c] = "ok" /\ vm[c] = "running" /\ run[c] = "no"
             /\ \A r \in Requests : rgot[r] # c
             /\ sandboxes[sid[c]] # c

\* A sandbox comes to be hidden only when the goroutine of another one of its
\* id removes the id from the map (the deferred Remove of server.Create).
HiddenOnlyByRemoval ==
  [][\A c \in Calls : ~Hidden(c) /\ Hidden(c)' =>
       \E d \in Calls \ {c} : sid[d] = sid[c] /\ LifeRemove(d)]_vars

\* A careful caller never has two sandboxes of an id, nor one while a request
\* for the id goes on: what such a request found is all it can remove.
ListInv ==
  /\ \A c \in Calls : Making(c) => sandboxes[sid[c]] = NoCall
  /\ \A c, d \in Calls : Making(c) /\ Making(d) /\ sid[c] = sid[d] => c = d
  /\ \A r \in Requests : InFlight(r) =>
       /\ sandboxes[rid[r]] \in {NoCall, rgot[r]}
       /\ \A c \in Calls : Making(c) => sid[c] # rid[r]
  /\ \A c \in Calls : life[c] \in {"stop", "remove", "done"} => run[c] # "no"

\* A step that lists nothing and takes nothing off the list, answers no Create
\* and finds no sandbox.
ListQuiet ==
  /\ UNCHANGED <<sandboxes, sid>>
  /\ \A c \in Calls : /\ Making(c)' => Making(c)
                      /\ pc'[c] = "ok" => pc[c] = "ok"
                      /\ vm'[c] = "running" /\ pc'[c] = "ok" => vm[c] = "running"
                      /\ run[c] # "no" => run'[c] # "no"
                      /\ life'[c] \in {"stop", "remove", "done"} =>
                           life[c] \in {"stop", "remove", "done"} \/ run'[c] # "no"
  /\ \A r \in Requests : /\ InFlight(r)' => InFlight(r) /\ rid'[r] = rid[r]
                         /\ rgot'[r] = rgot[r]

ListNews ==
  \/ \E c \in Calls : (\E s \in Ids : Create(c, s)) \/ Insert(c) \/ LifeRemove(c)
  \/ \E r \in Requests : \/ \E s \in Ids : Delete(r, s)
                         \/ PauseGet(r) \/ DeleteRemove(r) \/ PauseRemove(r)
  \/ Restart

\* Which steps concern the list.
LEMMA Listing ==
  ASSUME TypeOK, MapInv, Next
  PROVE  ListQuiet \/ ListNews
<1>1. ASSUME NEW c \in Calls, GetReused(c) PROVE ListQuiet
  BY <1>1 DEF TypeOK, ListQuiet, Making, InFlight, GetReused, Move
<1>2. ASSUME NEW c \in Calls, GetNoReused(c) PROVE ListQuiet
  BY <1>2 DEF TypeOK, ListQuiet, Making, InFlight, GetNoReused, Move
<1>3. ASSUME NEW c \in Calls, GetNew(c) PROVE ListQuiet
  BY <1>3 DEF TypeOK, ListQuiet, Making, InFlight, GetNew, Move
<1>4. ASSUME NEW c \in Calls, NewCowDevice(c) PROVE ListQuiet
  BY <1>4 DEF TypeOK, ListQuiet, Making, InFlight, NewCowDevice, Move
<1>5. ASSUME NEW c \in Calls, UffdStart(c) PROVE ListQuiet
  BY <1>5 DEF TypeOK, ListQuiet, Making, InFlight, UffdStart, Move
<1>6. ASSUME NEW c \in Calls, FcStart(c) PROVE ListQuiet
  BY <1>6 DEF TypeOK, ListQuiet, Making, InFlight, FcStart, Move
<1>7. ASSUME NEW c \in Calls, RootfsPath(c) PROVE ListQuiet
  BY <1>7 DEF TypeOK, ListQuiet, Making, InFlight, RootfsPath, Move
<1>8. ASSUME NEW c \in Calls, ResumeVM(c) PROVE ListQuiet
  BY <1>8 DEF TypeOK, ListQuiet, Making, InFlight, ResumeVM, Move
<1>9. ASSUME NEW c \in Calls, DnsAdd(c) PROVE ListQuiet
  BY <1>9 DEF TypeOK, ListQuiet, Making, InFlight, DnsAdd, Move
<1>10. ASSUME NEW c \in Calls, CreateFails(c) PROVE ListQuiet
  BY <1>10 DEF TypeOK, ListQuiet, Making, InFlight, CreateFails, BeginCleanup
<1>11. ASSUME NEW c \in Calls, FcFails(c) PROVE ListQuiet
  BY <1>11 DEF TypeOK, ListQuiet, Making, InFlight, FcFails, BeginCleanup, Kill, Alive
<1>12. ASSUME NEW c \in Calls, CreateError(c) PROVE ListQuiet
  BY <1>12 DEF TypeOK, ListQuiet, Making, InFlight, CreateError, Move
<1>13. ASSUME NEW c \in Calls, RunPriority(c) PROVE ListQuiet
  BY <1>13 DEF TypeOK, ListQuiet, Making, InFlight, RunPriority, Kill, Alive, StopUffd
<1>14. ASSUME NEW c \in Calls, CleanDns(c) PROVE ListQuiet
  BY <1>14 DEF TypeOK, ListQuiet, Making, InFlight, CleanDns, Done, Last, RemoveDns
<1>15. ASSUME NEW c \in Calls, CleanUffd(c) PROVE ListQuiet
  BY <1>15 DEF TypeOK, ListQuiet, Making, InFlight, CleanUffd, Done, Last, StopUffd
<1>16. ASSUME NEW c \in Calls, CloseMount(c) PROVE ListQuiet
  BY <1>16 DEF TypeOK, ListQuiet, Making, InFlight, CloseMount, Last
<1>17. ASSUME NEW c \in Calls, CloseMountPanics(c) PROVE ListQuiet
  BY <1>17 DEF TypeOK, ListQuiet, Making, InFlight, CloseMountPanics, Last
<1>18. ASSUME NEW c \in Calls, CloseOverlay(c) PROVE ListQuiet
  BY <1>18 DEF TypeOK, ListQuiet, Making, InFlight, CloseOverlay, Done, Last
<1>19. ASSUME NEW c \in Calls, CleanSlot(c) PROVE ListQuiet
  BY <1>19 DEF TypeOK, ListQuiet, Making, InFlight, CleanSlot, Done, Last
<1>20. ASSUME NEW c \in Calls, RunEnds(c) PROVE ListQuiet
  BY <1>20 DEF TypeOK, ListQuiet, Making, InFlight, RunEnds
<1>21. ASSUME NEW c \in Calls, WaitEnds(c) PROVE ListQuiet
  BY <1>21 DEF TypeOK, ListQuiet, Making, InFlight, WaitEnds, LifeGoto, BeginCleanup
<1>22. ASSUME NEW c \in Calls, StopEnds(c) PROVE ListQuiet
  BY <1>22 DEF TypeOK, ListQuiet, Making, InFlight, StopEnds, LifeGoto
<1>23. ASSUME NEW c \in Calls, SpawnedStop(c) PROVE ListQuiet
  BY <1>23 DEF TypeOK, ListQuiet, Making, InFlight, SpawnedStop, BeginCleanup
<1>24. ASSUME NEW c \in Calls, VmExits(c) PROVE ListQuiet
  BY <1>24 DEF TypeOK, ListQuiet, Making, InFlight, VmExits
<1>25. ASSUME NEW c \in Calls, UffdExits(c) PROVE ListQuiet
  BY <1>25 DEF TypeOK, ListQuiet, Making, InFlight, UffdExits
<1>26. ASSUME NEW c \in Calls, MountOpens(c) PROVE ListQuiet
  BY <1>26 DEF TypeOK, ListQuiet, Making, InFlight, MountOpens
<1>27. ASSUME NEW c \in Calls, MountFails(c) PROVE ListQuiet
  BY <1>27 DEF TypeOK, ListQuiet, Making, InFlight, MountFails
<1>28. ASSUME NEW c \in Calls, Disconnected(c) PROVE ListQuiet
  BY <1>28 DEF TypeOK, ListQuiet, Making, InFlight, Disconnected
<1>29. ASSUME NEW r \in Requests, NEW s \in Ids, Pause(r, s) PROVE ListQuiet
  BY <1>29 DEF TypeOK, MapInv, ListQuiet, Making, InFlight, Pause, ReqGoto
<1>30. ASSUME NEW r \in Requests, DeleteDns(r) PROVE ListQuiet
  BY <1>30 DEF TypeOK, ListQuiet, Making, InFlight, DeleteDns, ReqGoto, RemoveDns
<1>31. ASSUME NEW r \in Requests, DeleteStop(r) PROVE ListQuiet
  BY <1>31 DEF TypeOK, ListQuiet, Making, InFlight, DeleteStop, ReqGoto, BeginCleanup
<1>32. ASSUME NEW r \in Requests, DeleteOk(r) PROVE ListQuiet
  BY <1>32 DEF TypeOK, ListQuiet, Making, InFlight, DeleteOk, ReqGoto
<1>33. ASSUME NEW r \in Requests, PauseAcquire(r) PROVE ListQuiet
  BY <1>33 DEF TypeOK, ListQuiet, Making, InFlight, PauseAcquire, ReqGoto
<1>34. ASSUME NEW r \in Requests, PauseAcquireFails(r) PROVE ListQuiet
  BY <1>34 DEF TypeOK, ListQuiet, Making, InFlight, PauseAcquireFails, ReqGoto
<1>35. ASSUME NEW r \in Requests, PauseLock(r) PROVE ListQuiet
  BY <1>35 DEF TypeOK, ListQuiet, Making, InFlight, PauseLock, ReqGoto
<1>36. ASSUME NEW r \in Requests, PauseDns(r) PROVE ListQuiet
  BY <1>36 DEF TypeOK, ListQuiet, Making, InFlight, PauseDns, ReqGoto, RemoveDns
<1>37. ASSUME NEW r \in Requests, TemplateFiles(r) PROVE ListQuiet
  BY <1>37 DEF TypeOK, ListQuiet, Making, InFlight, TemplateFiles, ReqGoto
<1>38. ASSUME NEW r \in Requests, TemplateFilesFail(r) PROVE ListQuiet
  BY <1>38 DEF TypeOK, ListQuiet, Making, InFlight, TemplateFilesFail, ReqGoto, ReleasePermit
<1>39. ASSUME NEW r \in Requests, SnapshotMemory(r) PROVE ListQuiet
  BY <1>39 DEF TypeOK, ListQuiet, Making, InFlight, SnapshotMemory, ReqGoto, ReleasePermit
<1>40. ASSUME NEW r \in Requests, EjectCache(r) PROVE ListQuiet
  BY <1>40 DEF TypeOK, ListQuiet, Making, InFlight, EjectCache, ReqGoto
<1>41. ASSUME NEW r \in Requests, ExportRootfs(r) PROVE ListQuiet
  BY <1>41 DEF TypeOK, ListQuiet, Making, InFlight, ExportRootfs, ReqGoto
<1>42. ASSUME NEW r \in Requests, AddSnapshot(r) PROVE ListQuiet
  BY <1>42 DEF TypeOK, ListQuiet, Making, InFlight, AddSnapshot, ReqGoto
<1>43. ASSUME NEW r \in Requests, PauseFails(r) PROVE ListQuiet
  BY <1>43 DEF TypeOK, ListQuiet, Making, InFlight, PauseFails, SnapshotFails, ReleasePermit
<1>44. ASSUME NEW r \in Requests, ExportTimesOut(r) PROVE ListQuiet
  BY <1>44 DEF TypeOK, ListQuiet, Making, InFlight, ExportTimesOut, SnapshotFails, ReleasePermit
<1>45. ASSUME PopulateStep PROVE ListQuiet
  BY <1>45 DEF TypeOK, ListQuiet, Making, InFlight, PopulateStep
<1> QED
  BY <1>1, <1>2, <1>3, <1>4, <1>5, <1>6, <1>7, <1>8, <1>9, <1>10, <1>11, <1>12, <1>13, <1>14,
     <1>15, <1>16, <1>17, <1>18, <1>19, <1>20, <1>21, <1>22, <1>23, <1>24, <1>25, <1>26,
     <1>27, <1>28, <1>29, <1>30, <1>31, <1>32, <1>33, <1>34, <1>35, <1>36, <1>37, <1>38,
     <1>39, <1>40, <1>41, <1>42, <1>43, <1>44, <1>45
  DEF Next, CreateStep, Cleanup, Life, RequestStep, RequestProceeds, ListNews

\* No Create has begun, so nothing is listed.
LEMMA ListInit == Init => ListInv
  BY DEF Init, ListInv, Making, InFlight

\* A careful caller's step keeps the list in order.
LEMMA ListStep ==
  ASSUME TypeOK, MapInv, ListInv, Next, Careful
  PROVE  ListInv'
<1>1. CASE ListQuiet
  <2>1. \A c \in Calls : Making(c)' => sandboxes'[sid'[c]] = NoCall
    BY <1>1 DEF ListQuiet, ListInv
  <2>2. \A c, d \in Calls : Making(c)' /\ Making(d)' /\ sid'[c] = sid'[d] => c = d
    BY <1>1 DEF ListQuiet, ListInv
  <2>3. \A r \in Requests : InFlight(r)' =>
          /\ sandboxes'[rid'[r]] \in {NoCall, rgot'[r]}
          /\ \A c \in Calls : Making(c)' => sid'[c] # rid'[r]
    BY <1>1 DEF ListQuiet, ListInv
  <2>4. \A c \in Calls : life'[c] \in {"stop", "remove", "done"} => run'[c] # "no"
    BY <1>1 DEF ListQuiet, ListInv
  <2> QED BY <2>1, <2>2, <2>3, <2>4 DEF ListInv
<1>2. ASSUME NEW c \in Calls, NEW s \in Ids, Create(c, s) PROVE ListInv'
  <2>1. /\ pc[c] = "new" /\ pc' = [pc EXCEPT ![c] = "get"] /\ sid' = [sid EXCEPT ![c] = s]
        /\ UNCHANGED <<sandboxes, rpc, rid, rgot, life, run>>
    BY <1>2 DEF Create, Move
  <2>2. /\ pc'[c] = "get" /\ sid'[c] = s
        /\ \A d \in Calls \ {c} : pc'[d] = pc[d] /\ sid'[d] = sid[d]
    BY <2>1 DEF TypeOK
  <2>3. /\ sandboxes[s] = NoCall
        /\ \A d \in Calls : sid[d] = s => ~Making(d)
        /\ \A r \in Requests : ~InFlight(r)
    BY <2>1, <2>2 DEF Careful, Making, InFlight
  <2>4. \A d \in Calls \ {c} : Making(d)' = Making(d)
    BY <2>2 DEF Making
  <2>5. \A r \in Requests : ~InFlight(r)'
    BY <2>1, <2>3 DEF InFlight
  <2> QED BY <2>1, <2>2, <2>3, <2>4, <2>5 DEF ListInv
<1>3. ASSUME NEW c \in Calls, Insert(c) PROVE ListInv'
  <2>1. /\ pc[c] = "insert" /\ pc' = [pc EXCEPT ![c] = "ok"]
        /\ sandboxes' = [sandboxes EXCEPT ![sid[c]] = c]
        /\ life' = [life EXCEPT ![c] = "wait"]
        /\ UNCHANGED <<sid, rpc, rid, rgot, run>>
    BY <1>3 DEF Insert, Move, LifeGoto
  <2>2. /\ Making(c) /\ ~Making(c)'
        /\ \A d \in Calls \ {c} : Making(d)' = Making(d)
    BY <2>1 DEF TypeOK, Making
  <2>3. \A d \in Calls : Making(d)' => sid[d] # sid[c] /\ sandboxes'[sid[d]] = sandboxes[sid[d]]
    BY <2>1, <2>2 DEF TypeOK, ListInv
  <2>4. \A r \in Requests : /\ InFlight(r)' = InFlight(r)
                            /\ InFlight(r) => rid[r] # sid[c] /\ sandboxes'[rid[r]] = sandboxes[rid[r]]
    BY <2>1, <2>2 DEF TypeOK, ListInv, InFlight
  <2>5. \A d \in Calls : Making(d)' => Making(d) /\ sandboxes'[sid[d]] = NoCall
    BY <2>2, <2>3 DEF ListInv
  <2>6. \A d \in Calls : life'[d] \in {"stop", "remove", "done"} => run'[d] # "no"
    BY <2>1 DEF TypeOK, ListInv
  <2>7. \A r \in Requests : InFlight(r)' =>
          /\ sandboxes'[rid[r]] \in {NoCall, rgot[r]}
          /\ \A d \in Calls : Making(d)' => sid[d] # rid[r]
    BY <2>4, <2>5 DEF ListInv
  <2> QED BY <2>1, <2>5, <2>6, <2>7 DEF ListInv
<1>4. ASSUME NEW s \in Ids, sandboxes' = [sandboxes EXCEPT ![s] = NoCall],
             \A c \in Calls : life'[c] \in {"stop", "remove", "done"} => run'[c] # "no",
             \A r \in Requests : InFlight(r)' => InFlight(r),
             UNCHANGED <<pc, sid, rid, rgot>>
      PROVE  ListInv'
  <2>1. \A q \in Ids : sandboxes'[q] \in {NoCall, sandboxes[q]}
    BY <1>4 DEF TypeOK
  <2>2. \A c \in Calls : Making(c)' = Making(c) /\ (Making(c) => sid[c] \in Ids)
    BY <1>4 DEF TypeOK, Making
  <2>3. \A r \in Requests : InFlight(r) => rid[r] \in Ids
    BY DEF TypeOK, InFlight
  <2> QED BY <1>4, <2>1, <2>2, <2>3 DEF ListInv
<1>5. ASSUME NEW c \in Calls, LifeRemove(c) PROVE ListInv'
  <2>1. pc[c] = "ok" /\ sid[c] \in Ids
    BY <1>5 DEF TypeOK, MapInv, LifeRemove, LifeGoto
  <2>2. \A d \in Calls : life'[d] \in {"stop", "remove", "done"} => run'[d] # "no"
    BY <1>5 DEF TypeOK, ListInv, LifeRemove, LifeGoto
  <2> QED BY <1>4, <1>5, <2>1, <2>2 DEF LifeRemove, InFlight
<1>6. ASSUME NEW r \in Requests, DeleteRemove(r) \/ PauseRemove(r) PROVE ListInv'
  <2>1. rid[r] \in Ids
    BY <1>6 DEF TypeOK, DeleteRemove, PauseRemove, ReqGoto
  <2>2. \A q \in Requests : InFlight(q)' => InFlight(q)
    BY <1>6 DEF TypeOK, InFlight, DeleteRemove, PauseRemove, ReqGoto
  <2> QED BY <1>4, <1>6, <2>1, <2>2 DEF ListInv, DeleteRemove, PauseRemove
<1>7. ASSUME NEW r \in Requests, NEW s \in Ids, Delete(r, s) \/ (PauseGet(r) /\ s = rid[r])
      PROVE  ListInv'
  <2>1. /\ rid'[r] = s /\ rgot'[r] \in {NoCall, sandboxes[s]}
        /\ \A q \in Requests \ {r} : InFlight(q)' = InFlight(q) /\ rid'[q] = rid[q] /\ rgot'[q] = rgot[q]
        /\ UNCHANGED <<sandboxes, pc, sid, life, run>>
    BY <1>7 DEF TypeOK, MapInv, InFlight, Delete, PauseGet
  <2>2. InFlight(r)' => sandboxes[s] # NoCall /\ rgot'[r] = sandboxes[s]
    BY <2>1 DEF InFlight
  <2>3. \A c \in Calls : Making(c)' = Making(c)
    BY <2>1 DEF Making
  <2> QED BY <2>1, <2>2, <2>3 DEF ListInv
<1>8. CASE Restart
  BY <1>8 DEF Restart, ListInv, Making, InFlight
<1>9. ASSUME NEW r \in Requests, PauseGet(r) PROVE ListInv'
  <2>1. rid[r] \in Ids
    BY <1>9 DEF TypeOK, PauseGet
  <2> QED BY <1>7, <1>9, <2>1
<1> QED BY <1>1, <1>2, <1>3, <1>5, <1>6, <1>7, <1>8, <1>9, Listing DEF ListNews

\* What a careful caller's step can hide.
LEMMA HiddenStep ==
  ASSUME TypeOK, MapInv, ListInv, Next, NEW c \in Calls, ~Hidden(c), Hidden(c)'
  PROVE  \E d \in Calls \ {c} : sid[d] = sid[c] /\ LifeRemove(d)
<1>1. /\ pc'[c] = "ok" /\ vm'[c] = "running" /\ run'[c] = "no"
      /\ \A r \in Requests : rgot'[r] # c
      /\ sandboxes'[sid'[c]] # c
  BY DEF Hidden
<1>2. ~ListQuiet
  <2>1. SUFFICES ASSUME ListQuiet PROVE FALSE
    OBVIOUS
  <2>2. pc[c] = "ok" /\ vm[c] = "running" /\ run[c] = "no"
    BY <1>1, <2>1 DEF ListQuiet
  <2> QED BY <1>1, <2>1, <2>2 DEF ListQuiet, Hidden
<1>3. ASSUME pc[c] = "ok", vm[c] = "running", run[c] = "no", sid'[c] = sid[c],
             \A r \in Requests : rgot[r] # c
      PROVE  sandboxes[sid[c]] = c /\ sandboxes'[sid[c]] # c
  BY <1>1, <1>3 DEF Hidden
<1>4. ASSUME NEW d \in Calls, NEW s \in Ids, Create(d, s) PROVE FALSE
  <2>1. c # d /\ pc[c] = "ok" /\ sid'[c] = sid[c]
    BY <1>1, <1>4 DEF TypeOK, Create, Move
  <2> QED BY <1>1, <1>3, <1>4, <2>1 DEF Create
<1>5. ASSUME NEW d \in Calls, Insert(d) PROVE FALSE
  <2>1. sid[d] \in Ids /\ sandboxes'[sid[d]] = d /\ sid' = sid
    BY <1>5 DEF TypeOK, Insert, Move
  <2>2. c # d
    BY <1>1, <2>1
  <2>3. pc[c] = "ok" /\ vm[c] = "running" /\ run[c] = "no" /\ \A r \in Requests : rgot[r] # c
    BY <1>1, <1>5, <2>2 DEF TypeOK, Insert, Move
  <2>4. sandboxes[sid[c]] = c /\ sandboxes'[sid[c]] # c
    BY <1>3, <2>1, <2>3
  <2>5. sandboxes[sid[d]] = NoCall
    BY <1>5 DEF ListInv, Insert, Move, Making
  <2> QED BY <1>5, <2>4, <2>5 DEF TypeOK, Insert
<1>6. ASSUME NEW r \in Requests, DeleteRemove(r) \/ PauseRemove(r) PROVE FALSE
  <2>1. /\ pc' = pc /\ vm' = vm /\ run' = run /\ sid' = sid /\ rgot' = rgot
        /\ sandboxes' = [sandboxes EXCEPT ![rid[r]] = NoCall]
    BY <1>6 DEF DeleteRemove, PauseRemove
  <2>2. sandboxes[sid[c]] = c /\ sandboxes'[sid[c]] # c
    BY <1>1, <1>3, <2>1
  <2>3. sid[c] = rid[r]
    BY <2>1, <2>2 DEF TypeOK
  <2>4. InFlight(r)
    BY <1>6 DEF TypeOK, InFlight, DeleteRemove, PauseRemove, ReqGoto
  <2>5. rgot[r] = c
    BY <2>2, <2>3, <2>4 DEF ListInv
  <2> QED BY <1>1, <2>1, <2>5
<1>7. ASSUME NEW r \in Requests, (\E s \in Ids : Delete(r, s)) \/ PauseGet(r) PROVE FALSE
  <2>1. rgot[r] = NoCall /\ \A q \in Requests \ {r} : rgot'[q] = rgot[q]
    BY <1>7 DEF TypeOK, MapInv, Delete, PauseGet
  <2>2. \A q \in Requests : rgot[q] # c
    BY <1>1, <2>1
  <2>3. pc' = pc /\ vm' = vm /\ run' = run /\ sid' = sid /\ sandboxes' = sandboxes
    BY <1>7 DEF Delete, PauseGet
  <2> QED BY <1>1, <1>3, <2>2, <2>3
<1>8. ~Restart
  BY <1>1 DEF Restart
<1>9. ASSUME NEW d \in Calls, LifeRemove(d) PROVE d # c /\ sid[d] = sid[c]
  <2>1. /\ pc' = pc /\ vm' = vm /\ run' = run /\ sid' = sid /\ rgot' = rgot
        /\ sandboxes' = [sandboxes EXCEPT ![sid[d]] = NoCall]
        /\ life[d] = "remove"
    BY <1>9 DEF LifeRemove, LifeGoto
  <2>2. sandboxes[sid[c]] = c /\ sandboxes'[sid[c]] # c
    BY <1>1, <1>3, <2>1
  <2>3. sid[d] = sid[c]
    BY <2>1, <2>2 DEF TypeOK
  <2>4. d # c
    BY <1>1, <2>1 DEF ListInv
  <2> QED BY <2>3, <2>4
<1> QED BY <1>2, <1>4, <1>5, <1>6, <1>7, <1>8, <1>9, Listing DEF ListNews

\* A careful caller's running sandbox, which nobody asked to stop, leaves the
\* list in one way only: the goroutine of an earlier sandbox with its id
\* removes the id.
THEOREM HiddenOnlyByLateRemoval == CarefulSpec => HiddenOnlyByRemoval
<1>1. Init => IInv /\ ListInv
  BY TypeInit, PermitInit, StageInit, ListInit DEF IInv
<1>2. IInv /\ UNCHANGED vars => IInv'
  BY DEF IInv, TypeOK, PoolTypeOK, PermitInv, PermitsAddUp, Holders, StageInv,
     MapInv, vars
<1>3. ListInv /\ UNCHANGED vars => ListInv'
  BY DEF ListInv, Making, InFlight, vars
<1>4. IInv /\ ListInv /\ [Next /\ Careful]_vars => (IInv /\ ListInv)'
  BY <1>2, <1>3, TypeStep, PermitStep, StageStep, MapStep, ListStep DEF IInv
<1>5. IInv /\ ListInv /\ [Next /\ Careful]_vars =>
        [\A c \in Calls : ~Hidden(c) /\ Hidden(c)' =>
           \E d \in Calls \ {c} : sid[d] = sid[c] /\ LifeRemove(d)]_vars
  BY HiddenStep DEF IInv
<1> QED BY <1>1, <1>4, <1>5, PTL DEF CarefulSpec, HiddenOnlyByRemoval
=============================================================================
