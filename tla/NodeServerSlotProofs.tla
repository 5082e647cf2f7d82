------------------------ MODULE NodeServerSlotProofs ------------------------
(***************************************************************************)
(* Proofs about the network slots of a node: NodeServer implements         *)
(* SlotOwnership, two VMs never share a slot, and a DNS record leads to a  *)
(* slot that a sandbox of that id still has.                               *)
(***************************************************************************)
EXTENDS NodeServerProofs

USE ServerAssumption, PoolAssumption
    DEF poolVars, serverVars, queueVars, ownVars, cleanVars, mountVars, procVars,
        lifeVars, reqVars, CreatePC, LifePC, DeletePC, PausePC


-----------------------------------------------------------------------------
(* The pool by itself.                                                     *)

InNew == {newSlots[i] : i \in DOMAIN newSlots}
InReused == {reusedSlots[i] : i \in DOMAIN reusedSlots}

\* A slot that waits has a key in Consul and waits in one place.
PoolInv ==
  /\ Pooled \subseteq kv
  /\ \A i, j \in DOMAIN newSlots : newSlots[i] = newSlots[j] => i = j
  /\ \A i, j \in DOMAIN reusedSlots : reusedSlots[i] = reusedSlots[j] => i = j
  /\ \A i \in DOMAIN newSlots, j \in DOMAIN reusedSlots : newSlots[i] # reusedSlots[j]
  /\ \A i \in DOMAIN newSlots : newSlots[i] # popSlot
  /\ \A i \in DOMAIN reusedSlots : reusedSlots[i] # popSlot

\* What the ends of a sequence without repetition hold.
LEMMA Appended ==
  ASSUME NEW S, NEW q \in Seq(S), NEW e \in S,
         \A i, j \in DOMAIN q : q[i] = q[j] => i = j,
         \A i \in DOMAIN q : q[i] # e
  PROVE  LET p == Append(q, e) IN
         /\ {p[i] : i \in DOMAIN p} = {q[i] : i \in DOMAIN q} \cup {e}
         /\ \A i, j \in DOMAIN p : p[i] = p[j] => i = j
<1> DEFINE p == Append(q, e)
<1>1. /\ DOMAIN q = 1..Len(q) /\ DOMAIN p = 1..(Len(q) + 1) /\ Len(q) \in Nat
      /\ \A i \in 1..Len(q) : p[i] = q[i]
      /\ p[Len(q) + 1] = e
  BY AppendProperties, LenProperties
<1> HIDE DEF p
<1>2. {p[i] : i \in DOMAIN p} = {q[i] : i \in DOMAIN q} \cup {e}
  <2>1. ASSUME NEW i \in DOMAIN p PROVE p[i] \in {q[k] : k \in DOMAIN q} \cup {e}
    <3>1. i \in 1..Len(q) \/ i = Len(q) + 1
      BY <1>1
    <3> QED BY <1>1, <3>1
  <2>2. ASSUME NEW i \in DOMAIN q PROVE q[i] \in {p[k] : k \in DOMAIN p}
    BY <1>1
  <2>3. e \in {p[k] : k \in DOMAIN p}
    BY <1>1
  <2> QED BY <2>1, <2>2, <2>3
<1>3. \A i, j \in DOMAIN p : p[i] = p[j] => i = j
  BY <1>1
<1> QED BY <1>2, <1>3 DEF p

\* The same for the head and what is behind it.
LEMMA Taken ==
  ASSUME NEW S, NEW q \in Seq(S), q # <<>>,
         \A i, j \in DOMAIN q : q[i] = q[j] => i = j
  PROVE  LET p == Tail(q) IN
         /\ Head(q) \in {q[i] : i \in DOMAIN q}
         /\ {p[i] : i \in DOMAIN p} = {q[i] : i \in DOMAIN q} \ {Head(q)}
         /\ \A i, j \in DOMAIN p : p[i] = p[j] => i = j
<1> DEFINE p == Tail(q)
<1>1. /\ DOMAIN q = 1..Len(q) /\ DOMAIN p = 1..(Len(q) - 1) /\ Len(q) \in Nat \ {0}
      /\ \A i \in 1..(Len(q) - 1) : p[i] = q[i + 1]
      /\ Head(q) = q[1]
  BY HeadTailProperties, LenProperties, EmptySeq
<1> HIDE DEF p
<1>2. {p[i] : i \in DOMAIN p} = {q[i] : i \in DOMAIN q} \ {Head(q)}
  <2>1. ASSUME NEW i \in DOMAIN p PROVE p[i] \in {q[k] : k \in DOMAIN q} \ {Head(q)}
    <3>1. i + 1 \in DOMAIN q /\ i + 1 # 1 /\ 1 \in DOMAIN q
      BY <1>1
    <3> QED BY <1>1, <3>1
  <2>2. ASSUME NEW i \in DOMAIN q, q[i] # Head(q) PROVE q[i] \in {p[k] : k \in DOMAIN p}
    <3>1. i - 1 \in DOMAIN p /\ p[i - 1] = q[i]
      BY <1>1, <2>2
    <3> QED BY <3>1
  <2> QED BY <2>1, <2>2
<1>3. \A i, j \in DOMAIN p : p[i] = p[j] => i = j
  BY <1>1
<1>4. Head(q) \in {q[i] : i \in DOMAIN q}
  BY <1>1
<1> QED BY <1>2, <1>3, <1>4 DEF p

\* The goroutine that creates slots adds one that had no key, or none.
LEMMA PopulateSlots ==
  ASSUME PoolTypeOK, PoolInv, Populate
  PROVE  /\ PoolInv' /\ UNCHANGED ips /\ kv \subseteq kv'
         /\ \/ UNCHANGED <<kv, Pooled>>
            \/ \E k \in Slots \ kv :
                 /\ kv' = kv \cup {k}
                 /\ Pooled' = Pooled \/ Pooled' = Pooled \cup {k}
<1>1. CASE CreateNetworkSlot
  BY <1>1 DEF CreateNetworkSlot, PoolTypeOK, PoolInv, Pooled
<1>2. CASE CreateNetworkSlotFails
  BY <1>2 DEF CreateNetworkSlotFails, PoolTypeOK, PoolInv, Pooled
<1>3. CASE PopulateSend
  <2>1. /\ newSlots \in Seq(Slots) /\ popSlot \in Slots
        /\ newSlots' = Append(newSlots, popSlot) /\ popSlot' = NoSlot
        /\ UNCHANGED <<kv, reusedSlots, ips>>
    BY <1>3 DEF PopulateSend, PoolTypeOK
  <2>2. /\ InNew' = InNew \cup {popSlot}
        /\ \A i, j \in DOMAIN newSlots' : newSlots'[i] = newSlots'[j] => i = j
    BY <2>1, Appended DEF PoolInv, InNew
  <2>3. Pooled' = Pooled
    BY <2>1, <2>2 DEF Pooled, InNew
  <2>4. \A i \in DOMAIN newSlots' : newSlots'[i] \in InNew'
    BY DEF InNew
  <2>5. \A i \in DOMAIN newSlots' : newSlots'[i] \in Slots
    BY <2>1, <2>2, <2>4, ElementOfSeq, LenProperties DEF InNew
  <2>6. PoolInv'
    BY <2>1, <2>2, <2>3, <2>4, <2>5 DEF PoolInv, PoolTypeOK, InNew
  <2> QED BY <2>1, <2>3, <2>6
<1> QED BY <1>1, <1>2, <1>3 DEF Populate

\* Get takes one waiting slot out and gives it to the call.
LEMMA TakeSlots ==
  ASSUME PoolTypeOK, PoolInv, NEW c \in Calls, TakeReused(c) \/ TakeNew(c)
  PROVE  /\ PoolInv' /\ UNCHANGED kv
         /\ \E k \in Pooled : /\ k \in Slots
                              /\ ips' = [ips EXCEPT ![c] = k]
                              /\ Pooled' = Pooled \ {k}
<1>1. CASE TakeReused(c)
  <2>1. /\ reusedSlots \in Seq(Slots) /\ reusedSlots # <<>> /\ reusedSlots' = Tail(reusedSlots)
        /\ ips' = [ips EXCEPT ![c] = Head(reusedSlots)]
        /\ UNCHANGED <<kv, newSlots, popSlot>>
        /\ Head(reusedSlots) \in Slots
    BY <1>1, HeadTailProperties DEF TakeReused, PoolTypeOK
  <2>2. /\ Head(reusedSlots) \in InReused
        /\ InReused' = InReused \ {Head(reusedSlots)}
        /\ \A i, j \in DOMAIN reusedSlots' : reusedSlots'[i] = reusedSlots'[j] => i = j
    BY <2>1, Taken DEF PoolInv, InReused
  <2>3. \A i \in DOMAIN reusedSlots' : reusedSlots'[i] \in InReused
    BY <2>2 DEF InReused
  <2>4. \A k \in InReused : k # popSlot /\ k \notin InNew
    BY DEF PoolInv, InReused, InNew
  <2>5. Head(reusedSlots) \in Pooled /\ Pooled' = Pooled \ {Head(reusedSlots)}
    <3>1. /\ Pooled = InNew \cup InReused \cup ({popSlot} \ {NoSlot})
          /\ Pooled' = InNew' \cup InReused' \cup ({popSlot'} \ {NoSlot})
          /\ InNew' = InNew
      BY <2>1 DEF Pooled, InReused, InNew
    <3> QED BY <2>1, <2>2, <2>4, <3>1
  <2>6. PoolInv'
    BY <2>1, <2>2, <2>3, <2>5 DEF PoolInv, InReused
  <2> QED BY <2>1, <2>5, <2>6
<1>2. CASE TakeNew(c)
  <2>1. /\ newSlots \in Seq(Slots) /\ newSlots # <<>> /\ newSlots' = Tail(newSlots)
        /\ ips' = [ips EXCEPT ![c] = Head(newSlots)]
        /\ UNCHANGED <<kv, reusedSlots, popSlot>>
        /\ Head(newSlots) \in Slots
    BY <1>2, HeadTailProperties DEF TakeNew, PoolTypeOK
  <2>2. /\ Head(newSlots) \in InNew
        /\ InNew' = InNew \ {Head(newSlots)}
        /\ \A i, j \in DOMAIN newSlots' : newSlots'[i] = newSlots'[j] => i = j
    <3>1. \A i, j \in DOMAIN newSlots : newSlots[i] = newSlots[j] => i = j
      BY DEF PoolInv
    <3> DEFINE p == Tail(newSlots)
    <3>2. /\ Head(newSlots) \in {newSlots[i] : i \in DOMAIN newSlots}
          /\ {p[i] : i \in DOMAIN p} = {newSlots[i] : i \in DOMAIN newSlots} \ {Head(newSlots)}
          /\ \A i, j \in DOMAIN p : p[i] = p[j] => i = j
      BY <2>1, <3>1, Taken
    <3> QED BY <2>1, <3>2 DEF InNew
  <2>3. \A i \in DOMAIN newSlots' : newSlots'[i] \in InNew
    BY <2>2 DEF InNew
  <2>4. \A k \in InNew : k # popSlot /\ k \notin InReused
    BY DEF PoolInv, InReused, InNew
  <2>5. Head(newSlots) \in Pooled /\ Pooled' = Pooled \ {Head(newSlots)}
    <3>1. /\ Pooled = InNew \cup InReused \cup ({popSlot} \ {NoSlot})
          /\ Pooled' = InNew' \cup InReused' \cup ({popSlot'} \ {NoSlot})
          /\ InReused' = InReused
      BY <2>1 DEF Pooled, InReused, InNew
    <3> QED BY <2>1, <2>2, <2>4, <3>1
  <2>6. PoolInv'
    BY <2>1, <2>2, <2>3, <2>5 DEF PoolInv, InNew
  <2> QED BY <2>1, <2>5, <2>6
<1> QED BY <1>1, <1>2

\* A slot given back waits again, or its key is deleted, or it is lost.
LEMMA ReturnSlots ==
  ASSUME PoolTypeOK, PoolInv, NEW c \in Calls, Return(c),
         ips[c] \in kv \ Pooled, ips[c] \in Slots
  PROVE  /\ PoolInv' /\ UNCHANGED ips
         /\ \/ UNCHANGED kv /\ Pooled' = Pooled \cup {ips[c]}
            \/ UNCHANGED Pooled /\ kv' \in {kv, kv \ {ips[c]}}
<1>1. CASE reusedSlots' = Append(reusedSlots, ips[c]) /\ UNCHANGED <<kv, newSlots, popSlot, ips>>
  <2>1. \A i \in DOMAIN reusedSlots : reusedSlots[i] # ips[c]
    BY DEF Pooled
  <2>2. /\ InReused' = InReused \cup {ips[c]}
        /\ \A i, j \in DOMAIN reusedSlots' : reusedSlots'[i] = reusedSlots'[j] => i = j
    <3>1. \A i, j \in DOMAIN reusedSlots : reusedSlots[i] = reusedSlots[j] => i = j
      BY DEF PoolInv
    <3>2. reusedSlots \in Seq(Slots)
      BY DEF PoolTypeOK
    <3> QED BY <1>1, <2>1, <3>1, <3>2, Appended DEF InReused
  <2>3. \A i \in DOMAIN reusedSlots' : reusedSlots'[i] \in InReused'
    BY DEF InReused
  <2>4. Pooled' = Pooled \cup {ips[c]}
    BY <1>1, <2>2 DEF Pooled, InReused
  <2>5. /\ \A k \in InReused \cup {ips[c]} : k # popSlot /\ k \notin InNew
    BY DEF PoolInv, Pooled, InReused, InNew
  <2>6. PoolInv'
    BY <1>1, <2>2, <2>3, <2>4, <2>5 DEF PoolInv, InNew
  <2> QED BY <1>1, <2>4, <2>6
<1>2. CASE Release(ips[c]) /\ UNCHANGED <<newSlots, reusedSlots, popSlot, ips>>
  <2>1. UNCHANGED Pooled /\ kv' \in {kv, kv \ {ips[c]}}
    BY <1>2 DEF Release, Pooled
  <2> QED BY <1>2, <2>1 DEF PoolInv
<1> QED BY <1>1, <1>2 DEF Return

\* A new process forgets what waited; Consul does not.
LEMMA RestartSlots ==
  ASSUME PoolRestart
  PROVE  PoolInv' /\ Pooled' = {} /\ UNCHANGED <<kv, ips>>
BY DEF PoolRestart, PoolInv, Pooled

-----------------------------------------------------------------------------
(* The steps that let slots alone.                                         *)

Occupied(c) == Holds(c) \/ vm[c] = "running"

\* No sandbox takes or gives back a slot, no VM comes to run on a slot that
\* its sandbox does not hold.
Quiet == /\ UNCHANGED poolVars
         /\ \A c \in Calls : /\ Holds(c)' <=> Holds(c)
                             /\ Occupied(c)' => Occupied(c)
                             /\ pc'[c] = "gone" <=> pc[c] = "gone"

\* All steps are quiet but those of the pool, of Get, of Return and a restart.
LEMMA QuietStep ==
  ASSUME TypeOK, StageInv, MapInv, Next
  PROVE  Quiet \/ PopulateStep \/ Restart
         \/ \E c \in Calls : GetReused(c) \/ GetNew(c) \/ CleanSlot(c)
<1>1. ASSUME NEW c \in Calls, NEW s \in Ids, Create(c, s) PROVE Quiet
  BY <1>1 DEF TypeOK, StageInv, MapInv, Quiet, Holds, Occupied, Create,
     Move
<1>2. ASSUME NEW c \in Calls, GetNoReused(c) PROVE Quiet
  BY <1>2 DEF TypeOK, StageInv, MapInv, Quiet, Holds, Occupied,
     GetNoReused, Move
<1>3. ASSUME NEW c \in Calls, NewCowDevice(c) PROVE Quiet
  BY <1>3 DEF TypeOK, StageInv, MapInv, Quiet, Holds, Occupied,
     NewCowDevice, Move
<1>4. ASSUME NEW c \in Calls, UffdStart(c) PROVE Quiet
  BY <1>4 DEF TypeOK, StageInv, MapInv, Quiet, Holds, Occupied, UffdStart,
     Move
<1>5. ASSUME NEW c \in Calls, FcStart(c) PROVE Quiet
  BY <1>5 DEF TypeOK, StageInv, MapInv, Quiet, Holds, Occupied, FcStart,
     Move
<1>6. ASSUME NEW c \in Calls, RootfsPath(c) PROVE Quiet
  BY <1>6 DEF TypeOK, StageInv, MapInv, Quiet, Holds, Occupied,
     RootfsPath, Move
<1>7. ASSUME NEW c \in Calls, ResumeVM(c) PROVE Quiet
  BY <1>7 DEF TypeOK, StageInv, MapInv, Quiet, Holds, Occupied, ResumeVM,
     Move
<1>8. ASSUME NEW c \in Calls, DnsAdd(c) PROVE Quiet
  BY <1>8 DEF TypeOK, StageInv, MapInv, Quiet, Holds, Occupied, DnsAdd,
     Move
<1>9. ASSUME NEW c \in Calls, Insert(c) PROVE Quiet
  BY <1>9 DEF TypeOK, StageInv, MapInv, Quiet, Holds, Occupied, Insert,
     Move, LifeGoto
<1>10. ASSUME NEW c \in Calls, CreateFails(c) PROVE Quiet
  BY <1>10 DEF TypeOK, StageInv, MapInv, Quiet, Holds, Occupied,
     CreateFails, BeginCleanup
<1>11. ASSUME NEW c \in Calls, FcFails(c) PROVE Quiet
  BY <1>11 DEF TypeOK, StageInv, MapInv, Quiet, Holds, Occupied, FcFails,
     BeginCleanup, Kill, Alive
<1>12. ASSUME NEW c \in Calls, CreateError(c) PROVE Quiet
  BY <1>12 DEF TypeOK, StageInv, MapInv, Quiet, Holds, Occupied,
     CreateError, Move
<1>13. ASSUME NEW c \in Calls, RunPriority(c) PROVE Quiet
  BY <1>13 DEF TypeOK, StageInv, MapInv, Quiet, Holds, Occupied,
     RunPriority, Kill, Alive, StopUffd
<1>14. ASSUME NEW c \in Calls, CleanDns(c) PROVE Quiet
  <2>1. left[c] = 4
    BY <1>14, Places DEF CleanDns, Done
  <2>2. run[c] = "list" /\ left' = [left EXCEPT ![c] = 3]
    BY <1>14, <2>1 DEF CleanDns, Done, Last
  <2> QED BY <1>14, <2>1, <2>2 DEF TypeOK, StageInv, Quiet, Holds, Occupied, CleanDns
<1>15. ASSUME NEW c \in Calls, CleanUffd(c) PROVE Quiet
  <2>1. left[c] = 3
    BY <1>15, Places DEF CleanUffd, Done
  <2>2. run[c] = "list" /\ left' = [left EXCEPT ![c] = 2]
    BY <1>15, <2>1 DEF CleanUffd, Done, Last
  <2> QED BY <1>15, <2>1, <2>2 DEF TypeOK, StageInv, Quiet, Holds, Occupied, CleanUffd
<1>16. ASSUME NEW c \in Calls, CloseMount(c) PROVE Quiet
  BY <1>16 DEF TypeOK, StageInv, MapInv, Quiet, Holds, Occupied,
     CloseMount, Last
<1>17. ASSUME NEW c \in Calls, CloseMountPanics(c) PROVE Quiet
  BY <1>17 DEF TypeOK, StageInv, MapInv, Quiet, Holds, Occupied,
     CloseMountPanics, Last
<1>18. ASSUME NEW c \in Calls, CloseOverlay(c) PROVE Quiet
  <2>1. left[c] = 2
    BY <1>18, Places DEF CloseOverlay, Done
  <2>2. run[c] = "list" /\ left' = [left EXCEPT ![c] = 1]
    BY <1>18, <2>1 DEF CloseOverlay, Done, Last
  <2> QED BY <1>18, <2>1, <2>2 DEF TypeOK, StageInv, Quiet, Holds, Occupied, CloseOverlay
<1>19. ASSUME NEW c \in Calls, RunEnds(c) PROVE Quiet
  BY <1>19 DEF TypeOK, StageInv, MapInv, Quiet, Holds, Occupied, RunEnds
<1>20. ASSUME NEW c \in Calls, WaitEnds(c) PROVE Quiet
  BY <1>20 DEF TypeOK, StageInv, MapInv, Quiet, Holds, Occupied, WaitEnds,
     LifeGoto, BeginCleanup
<1>21. ASSUME NEW c \in Calls, StopEnds(c) PROVE Quiet
  BY <1>21 DEF TypeOK, StageInv, MapInv, Quiet, Holds, Occupied, StopEnds,
     LifeGoto
<1>22. ASSUME NEW c \in Calls, LifeRemove(c) PROVE Quiet
  BY <1>22 DEF TypeOK, StageInv, MapInv, Quiet, Holds, Occupied,
     LifeRemove, LifeGoto
<1>23. ASSUME NEW c \in Calls, SpawnedStop(c) PROVE Quiet
  BY <1>23 DEF TypeOK, StageInv, MapInv, Quiet, Holds, Occupied,
     SpawnedStop, BeginCleanup
<1>24. ASSUME NEW c \in Calls, VmExits(c) PROVE Quiet
  BY <1>24 DEF TypeOK, StageInv, MapInv, Quiet, Holds, Occupied, VmExits
<1>25. ASSUME NEW c \in Calls, UffdExits(c) PROVE Quiet
  BY <1>25 DEF TypeOK, StageInv, MapInv, Quiet, Holds, Occupied, UffdExits
<1>26. ASSUME NEW c \in Calls, MountOpens(c) PROVE Quiet
  BY <1>26 DEF TypeOK, StageInv, MapInv, Quiet, Holds, Occupied,
     MountOpens
<1>27. ASSUME NEW c \in Calls, MountFails(c) PROVE Quiet
  BY <1>27 DEF TypeOK, StageInv, MapInv, Quiet, Holds, Occupied,
     MountFails
<1>28. ASSUME NEW c \in Calls, Disconnected(c) PROVE Quiet
  BY <1>28 DEF TypeOK, StageInv, MapInv, Quiet, Holds, Occupied,
     Disconnected
<1>29. ASSUME NEW r \in Requests, NEW s \in Ids, Delete(r, s) PROVE Quiet
  BY <1>29 DEF TypeOK, StageInv, MapInv, Quiet, Holds, Occupied, Delete
<1>30. ASSUME NEW r \in Requests, NEW s \in Ids, Pause(r, s) PROVE Quiet
  BY <1>30 DEF TypeOK, StageInv, MapInv, Quiet, Holds, Occupied, Pause,
     ReqGoto
<1>31. ASSUME NEW r \in Requests, DeleteDns(r) PROVE Quiet
  BY <1>31 DEF TypeOK, StageInv, MapInv, Quiet, Holds, Occupied,
     DeleteDns, ReqGoto, RemoveDns
<1>32. ASSUME NEW r \in Requests, DeleteRemove(r) PROVE Quiet
  BY <1>32 DEF TypeOK, StageInv, MapInv, Quiet, Holds, Occupied,
     DeleteRemove, ReqGoto
<1>33. ASSUME NEW r \in Requests, DeleteStop(r) PROVE Quiet
  BY <1>33 DEF TypeOK, StageInv, MapInv, Quiet, Holds, Occupied,
     DeleteStop, ReqGoto, BeginCleanup
<1>34. ASSUME NEW r \in Requests, DeleteOk(r) PROVE Quiet
  BY <1>34 DEF TypeOK, StageInv, MapInv, Quiet, Holds, Occupied, DeleteOk,
     ReqGoto
<1>35. ASSUME NEW r \in Requests, PauseAcquire(r) PROVE Quiet
  BY <1>35 DEF TypeOK, StageInv, MapInv, Quiet, Holds, Occupied,
     PauseAcquire, ReqGoto
<1>36. ASSUME NEW r \in Requests, PauseAcquireFails(r) PROVE Quiet
  BY <1>36 DEF TypeOK, StageInv, MapInv, Quiet, Holds, Occupied,
     PauseAcquireFails, ReqGoto
<1>37. ASSUME NEW r \in Requests, PauseLock(r) PROVE Quiet
  BY <1>37 DEF TypeOK, StageInv, MapInv, Quiet, Holds, Occupied,
     PauseLock, ReqGoto
<1>38. ASSUME NEW r \in Requests, PauseGet(r) PROVE Quiet
  BY <1>38 DEF TypeOK, StageInv, MapInv, Quiet, Holds, Occupied, PauseGet,
     ReleasePermit
<1>39. ASSUME NEW r \in Requests, PauseDns(r) PROVE Quiet
  BY <1>39 DEF TypeOK, StageInv, MapInv, Quiet, Holds, Occupied, PauseDns,
     ReqGoto, RemoveDns
<1>40. ASSUME NEW r \in Requests, PauseRemove(r) PROVE Quiet
  BY <1>40 DEF TypeOK, StageInv, MapInv, Quiet, Holds, Occupied,
     PauseRemove, ReqGoto
<1>41. ASSUME NEW r \in Requests, TemplateFiles(r) PROVE Quiet
  BY <1>41 DEF TypeOK, StageInv, MapInv, Quiet, Holds, Occupied,
     TemplateFiles, ReqGoto
<1>42. ASSUME NEW r \in Requests, TemplateFilesFail(r) PROVE Quiet
  BY <1>42 DEF TypeOK, StageInv, MapInv, Quiet, Holds, Occupied,
     TemplateFilesFail, ReqGoto, ReleasePermit
<1>43. ASSUME NEW r \in Requests, SnapshotMemory(r) PROVE Quiet
  BY <1>43 DEF TypeOK, StageInv, MapInv, Quiet, Holds, Occupied,
     SnapshotMemory, ReqGoto, ReleasePermit
<1>44. ASSUME NEW r \in Requests, EjectCache(r) PROVE Quiet
  BY <1>44 DEF TypeOK, StageInv, MapInv, Quiet, Holds, Occupied,
     EjectCache, ReqGoto
<1>45. ASSUME NEW r \in Requests, ExportRootfs(r) PROVE Quiet
  BY <1>45 DEF TypeOK, StageInv, MapInv, Quiet, Holds, Occupied,
     ExportRootfs, ReqGoto
<1>46. ASSUME NEW r \in Requests, AddSnapshot(r) PROVE Quiet
  BY <1>46 DEF TypeOK, StageInv, MapInv, Quiet, Holds, Occupied,
     AddSnapshot, ReqGoto
<1>47. ASSUME NEW r \in Requests, PauseFails(r) PROVE Quiet
  BY <1>47 DEF TypeOK, StageInv, MapInv, Quiet, Holds, Occupied,
     PauseFails, SnapshotFails, ReleasePermit
<1>48. ASSUME NEW r \in Requests, ExportTimesOut(r) PROVE Quiet
  BY <1>48 DEF TypeOK, StageInv, MapInv, Quiet, Holds, Occupied,
     ExportTimesOut, SnapshotFails, ReleasePermit
<1> QED
  BY <1>1, <1>2, <1>3, <1>4, <1>5, <1>6, <1>7, <1>8, <1>9, <1>10, <1>11,
     <1>12, <1>13, <1>14, <1>15, <1>16, <1>17, <1>18, <1>19, <1>20, <1>21,
     <1>22, <1>23, <1>24, <1>25, <1>26, <1>27, <1>28, <1>29, <1>30, <1>31,
     <1>32, <1>33, <1>34, <1>35, <1>36, <1>37, <1>38, <1>39, <1>40, <1>41,
     <1>42, <1>43, <1>44, <1>45, <1>46, <1>47, <1>48
  DEF Next, CreateStep, Cleanup, Life, RequestStep, RequestProceeds

-----------------------------------------------------------------------------
(* One slot, one sandbox.                                                  *)

\* A slot in use is reserved, does not wait for another sandbox, and no other
\* sandbox uses it, a VM that outlived the server's process included.
SlotInv ==
  /\ PoolInv
  /\ \A c \in Calls : Occupied(c) => ips[c] \in kv \ Pooled
  /\ \A c, d \in Calls : c # d /\ Occupied(c) /\ Occupied(d) => ips[c] # ips[d]

\* The empty pool and no sandbox.
LEMMA SlotInit == Init => SlotInv
  BY DEF Init, PoolInit, SlotInv, PoolInv, Pooled, Occupied, Holds

\* A call that Get gives a slot used none before.
LEMMA GetStep ==
  ASSUME TypeOK, StageInv, NEW c \in Calls, GetReused(c) \/ GetNew(c)
  PROVE  /\ TakeReused(c) \/ TakeNew(c)
         /\ pc[c] # "gone" /\ ips[c] = NoSlot /\ ~Holds(c) /\ ~Occupied(c)
         /\ Holds(c)'
         /\ \A d \in Calls : /\ pc'[d] = "gone" <=> pc[d] = "gone"
                             /\ d # c => /\ Holds(d)' <=> Holds(d)
                                         /\ Occupied(d)' <=> Occupied(d)
  BY DEF TypeOK, StageInv, GetReused, GetNew, Move, Holds, Occupied

\* A call whose slot is given back uses it no more.
LEMMA CleanSlotStep ==
  ASSUME TypeOK, StageInv, NEW c \in Calls, CleanSlot(c)
  PROVE  /\ Return(c) /\ ips[c] \in Slots
         /\ Holds(c) /\ ~Holds(c)' /\ ~Occupied(c)'
         /\ \A d \in Calls : /\ pc'[d] = "gone" <=> pc[d] = "gone"
                             /\ d # c => /\ Holds(d)' <=> Holds(d)
                                         /\ Occupied(d)' <=> Occupied(d)
<1>1. left[c] = 1
  BY Places DEF CleanSlot, Done
<1>2. /\ run[c] = "list" /\ left' = [left EXCEPT ![c] = 0]
      /\ Return(c)
      /\ UNCHANGED <<pc, cleanup, run, vm>>
  BY <1>1 DEF CleanSlot, Done, Last
<1>3. cleanup[c] > 0 /\ cleanup[c] \in 0..4
  BY <1>1 DEF TypeOK, StageInv
<1>4. ips[c] \in Slots
  BY <1>3 DEF TypeOK, PoolTypeOK, StageInv
<1>5. vm[c] # "running"
  BY <1>2, <1>3 DEF StageInv
<1> QED BY <1>1, <1>2, <1>3, <1>4, <1>5 DEF TypeOK, Holds, Occupied

\* Every step keeps slots apart.
LEMMA SlotStep ==
  ASSUME TypeOK, StageInv, MapInv, SlotInv, Next
  PROVE  SlotInv'
<1>1. CASE Quiet
  <2>1. PoolInv' /\ Pooled' = Pooled
    BY <1>1 DEF Quiet, SlotInv, PoolInv, Pooled
  <2> QED BY <1>1, <2>1 DEF Quiet, SlotInv
<1>2. CASE PopulateStep
  <2>1. /\ PoolInv' /\ UNCHANGED ips /\ kv \subseteq kv'
        /\ \A k \in kv \ Pooled : k \notin Pooled'
    BY <1>2, PopulateSlots DEF PopulateStep, TypeOK, SlotInv
  <2>2. \A c \in Calls : Occupied(c)' <=> Occupied(c)
    BY <1>2 DEF PopulateStep, Occupied, Holds
  <2> QED BY <2>1, <2>2 DEF SlotInv
<1>3. ASSUME NEW c \in Calls, GetReused(c) \/ GetNew(c) PROVE SlotInv'
  <2>1. /\ TakeReused(c) \/ TakeNew(c)
        /\ \A d \in Calls : d # c => (Occupied(d)' <=> Occupied(d))
    BY <1>3, GetStep
  <2>2. PICK k \in Pooled : /\ k \in Slots
                            /\ ips' = [ips EXCEPT ![c] = k]
                            /\ Pooled' = Pooled \ {k}
    BY <2>1, TakeSlots DEF TypeOK, SlotInv
  <2>3. PoolInv' /\ kv' = kv
    BY <2>1, TakeSlots DEF TypeOK, SlotInv
  <2>4. ips'[c] = k /\ \A d \in Calls : d # c => ips'[d] = ips[d]
    BY <2>2 DEF TypeOK, PoolTypeOK
  <2>5. k \in kv
    BY DEF SlotInv, PoolInv
  <2> QED BY <2>1, <2>2, <2>3, <2>4, <2>5 DEF SlotInv
<1>4. ASSUME NEW c \in Calls, CleanSlot(c) PROVE SlotInv'
  <2>1. /\ Return(c) /\ ips[c] \in Slots /\ Occupied(c) /\ ~Occupied(c)'
        /\ \A d \in Calls : d # c => (Occupied(d)' <=> Occupied(d))
    BY <1>4, CleanSlotStep DEF Occupied
  <2>2. /\ PoolInv' /\ UNCHANGED ips
        /\ \/ UNCHANGED kv /\ Pooled' = Pooled \cup {ips[c]}
           \/ UNCHANGED Pooled /\ kv' \in {kv, kv \ {ips[c]}}
    BY <2>1, ReturnSlots DEF TypeOK, SlotInv
  <2> QED BY <2>1, <2>2 DEF SlotInv
<1>5. CASE Restart
  <2>1. PoolInv' /\ Pooled' = {} /\ UNCHANGED <<kv, ips>>
    BY <1>5, RestartSlots DEF Restart
  <2>2. \A c \in Calls : Occupied(c)' => Occupied(c)
    BY <1>5 DEF Restart, Occupied, Holds
  <2> QED BY <2>1, <2>2 DEF SlotInv
<1> QED BY <1>1, <1>2, <1>3, <1>4, <1>5, QuietStep

\* Slots are apart in every reachable state.
LEMMA SlotInductive == Spec => []SlotInv
<1>1. IInv /\ SlotInv /\ UNCHANGED vars => SlotInv'
  BY DEF SlotInv, PoolInv, Pooled, Occupied, Holds, vars
<1>2. IInv /\ SlotInv /\ [Next]_vars => SlotInv'
  BY <1>1, SlotStep DEF IInv
<1> QED BY <1>2, SlotInit, Inductive, PTL DEF Spec

\* Two VMs never run on one slot, whatever stops, fails or restarts between.
THEOREM SlotsSeparateVms == Spec => []OneVmPerSlot
<1>1. SlotInv => OneVmPerSlot
  BY DEF SlotInv, Occupied, OneVmPerSlot
<1> QED BY <1>1, SlotInductive, PTL

\* No slot is held by two sandboxes, nor waits in the pool while one holds it.
THEOREM HeldSlotsAreApart == Spec => []Owners!Apart
<1>1. IInv /\ SlotInv => Owners!Apart
  <2> SUFFICES ASSUME IInv, SlotInv PROVE Owners!Apart
    OBVIOUS
  <2>1. \A c \in Calls : Holds(c) => Occupied(c)
    BY DEF Occupied
  <2>2. NoSlot \notin Pooled
    BY DEF IInv, TypeOK, PoolTypeOK, Pooled
  <2> QED BY <2>1, <2>2 DEF SlotInv, Owners!Apart
<1> QED BY <1>1, Inductive, SlotInductive, PTL

-----------------------------------------------------------------------------
(* NodeServer implements SlotOwnership.                                    *)

HoldsBar == [c \in Calls |-> IF Holds(c) THEN ips[c] ELSE NoSlot]
ServedBar == {c \in Calls : ips[c] # NoSlot \/ pc[c] = "gone"}

\* Initially nothing is reserved.
LEMMA RefineInit == Init => Owners!OInit
  BY DEF Init, PoolInit, Owners!OInit, Pooled, Holds

\* Every step is a step of SlotOwnership or changes nothing it sees.
LEMMA RefineStep ==
  ASSUME TypeOK, StageInv, MapInv, SlotInv, SlotInv', Next
  PROVE  [Owners!ONext]_(Owners!ovars)
<1> USE DEF Owners!ovars
<1>1. CASE Quiet
  <2>1. UNCHANGED <<kv, ips, Pooled>>
    BY <1>1 DEF Quiet, Pooled
  <2>2. HoldsBar' = HoldsBar /\ ServedBar' = ServedBar
    BY <1>1, <2>1 DEF Quiet, HoldsBar, ServedBar
  <2> QED BY <2>1, <2>2 DEF HoldsBar, ServedBar
<1>2. CASE PopulateStep
  <2>1. /\ UNCHANGED ips
        /\ \/ UNCHANGED <<kv, Pooled>>
           \/ \E k \in Slots \ kv :
                /\ kv' = kv \cup {k}
                /\ Pooled' = Pooled \/ Pooled' = Pooled \cup {k}
    BY <1>2, PopulateSlots DEF PopulateStep, TypeOK, SlotInv
  <2>2. HoldsBar' = HoldsBar /\ ServedBar' = ServedBar
    BY <1>2, <2>1 DEF PopulateStep, HoldsBar, ServedBar, Holds
  <2> QED BY <2>1, <2>2 DEF HoldsBar, ServedBar, Owners!ONext, Owners!OReserve
<1>3. ASSUME NEW c \in Calls, GetReused(c) \/ GetNew(c) PROVE Owners!ONext
  <2>1. /\ TakeReused(c) \/ TakeNew(c)
        /\ pc[c] # "gone" /\ ips[c] = NoSlot
        /\ Holds(c)'
        /\ \A d \in Calls : /\ pc'[d] = "gone" <=> pc[d] = "gone"
                            /\ d # c => (Holds(d)' <=> Holds(d))
    BY <1>3, GetStep
  <2>2. PICK k \in Pooled : /\ k \in Slots
                            /\ ips' = [ips EXCEPT ![c] = k]
                            /\ Pooled' = Pooled \ {k}
    BY <2>1, TakeSlots DEF TypeOK, SlotInv
  <2>3. UNCHANGED kv
    BY <2>1, TakeSlots DEF TypeOK, SlotInv
  <2>4. ips'[c] = k /\ \A d \in Calls : d # c => ips'[d] = ips[d]
    BY <2>2 DEF TypeOK, PoolTypeOK
  <2>5. c \notin ServedBar /\ ServedBar' = ServedBar \cup {c}
    BY <2>1, <2>2, <2>4 DEF ServedBar
  <2>6. HoldsBar' = [HoldsBar EXCEPT ![c] = k]
    BY <2>1, <2>4 DEF HoldsBar
  <2>7. Owners!OHand(k, c)
    BY <2>2, <2>3, <2>5, <2>6 DEF HoldsBar, ServedBar, Owners!OHand
  <2> QED BY <2>2, <2>7 DEF Owners!ONext
<1>4. ASSUME NEW c \in Calls, CleanSlot(c) PROVE Owners!ONext
  <2>1. /\ Return(c) /\ ips[c] \in Slots /\ Holds(c) /\ ~Holds(c)'
        /\ \A d \in Calls : /\ pc'[d] = "gone" <=> pc[d] = "gone"
                            /\ d # c => (Holds(d)' <=> Holds(d))
    BY <1>4, CleanSlotStep
  <2>2. /\ UNCHANGED ips
        /\ \/ UNCHANGED kv /\ Pooled' = Pooled \cup {ips[c]}
           \/ UNCHANGED Pooled /\ kv' \in {kv, kv \ {ips[c]}}
    BY <2>1, ReturnSlots DEF TypeOK, SlotInv, Occupied
  <2>3. HoldsBar[c] = ips[c] /\ HoldsBar' = [HoldsBar EXCEPT ![c] = NoSlot]
    BY <2>1, <2>2 DEF HoldsBar
  <2>4. ServedBar' = ServedBar
    BY <2>1, <2>2 DEF ServedBar
  <2>5. Owners!OGiveBack(c)
    BY <2>1, <2>2, <2>3, <2>4 DEF HoldsBar, ServedBar, Owners!OGiveBack
  <2> QED BY <2>5 DEF Owners!ONext
<1>5. CASE Restart
  <2>1. Pooled' = {} /\ UNCHANGED <<kv, ips>>
    BY <1>5, RestartSlots DEF Restart
  <2>2. HoldsBar' = [c \in Calls |-> NoSlot]
    BY <1>5 DEF Restart, HoldsBar, Holds
  <2>3. ServedBar \subseteq ServedBar' /\ ServedBar' \in SUBSET Calls
    BY <1>5, <2>1 DEF Restart, ServedBar
  <2> QED BY <2>1, <2>2, <2>3 DEF HoldsBar, ServedBar, Owners!ONext, Owners!OCrash
<1> QED BY <1>1, <1>2, <1>3, <1>4, <1>5, QuietStep

\* Slots change hands only in the ways that SlotOwnership allows.
THEOREM ImplementsSlotOwnership == Spec => Refinement
<1>1. UNCHANGED vars => UNCHANGED (Owners!ovars)
  BY DEF vars, Owners!ovars, Pooled, Holds
<1>2. IInv /\ SlotInv /\ SlotInv' /\ [Next]_vars => [Owners!ONext]_(Owners!ovars)
  BY <1>1, RefineStep DEF IInv
<1> QED BY <1>2, RefineInit, Inductive, SlotInductive, PTL
  DEF Spec, Refinement, Owners!OSpec

-----------------------------------------------------------------------------
(* DNS records.                                                            *)

\* Sandbox c has the slot k, under the id s, and its cleanup will remove the
\* record before it gives the slot back.
Keeps(c, s, k) == /\ sid[c] = s /\ ips[c] = k
                  /\ cleanup[c] = 4
                  /\ run[c] \in {"no", "priority"} \/ (run[c] = "list" /\ left[c] = 4)

DnsInv == \A s \in Ids : dns[s] # NoSlot => \E c \in Calls : Keeps(c, s, dns[s])

\* Records are added by DnsAdd only, and only CleanDns ends a keeper's time.
RecordsRemain ==
  /\ \A s \in Ids : dns'[s] \in {dns[s], NoSlot}
  /\ \A c \in Calls, s \in Ids, k \in Slots : Keeps(c, s, k) => Keeps(c, s, k)'

\* All steps leave the records' keepers alone but three.
LEMMA RecordStep ==
  ASSUME TypeOK, StageInv, MapInv, Next
  PROVE  RecordsRemain \/ Restart \/ \E c \in Calls : DnsAdd(c) \/ CleanDns(c)
<1>1. ASSUME NEW c \in Calls, NEW s \in Ids, Create(c, s) PROVE RecordsRemain
  BY <1>1 DEF TypeOK, StageInv, MapInv, RecordsRemain, Keeps, Create, Move
<1>2. ASSUME NEW c \in Calls, GetReused(c) PROVE RecordsRemain
  <2>1. cleanup[c] = 0 /\ \A d \in Calls : d # c => ips'[d] = ips[d] /\ cleanup'[d] = cleanup[d]
    BY <1>2 DEF TypeOK, PoolTypeOK, StageInv, GetReused, TakeReused, Move
  <2> QED BY <1>2, <2>1 DEF RecordsRemain, Keeps, GetReused
<1>3. ASSUME NEW c \in Calls, GetNoReused(c) PROVE RecordsRemain
  BY <1>3 DEF TypeOK, StageInv, MapInv, RecordsRemain, Keeps, GetNoReused,
     Move
<1>4. ASSUME NEW c \in Calls, GetNew(c) PROVE RecordsRemain
  <2>1. cleanup[c] = 0 /\ \A d \in Calls : d # c => ips'[d] = ips[d] /\ cleanup'[d] = cleanup[d]
    BY <1>4 DEF TypeOK, PoolTypeOK, StageInv, GetNew, TakeNew, Move
  <2> QED BY <1>4, <2>1 DEF RecordsRemain, Keeps, GetNew
<1>5. ASSUME NEW c \in Calls, NewCowDevice(c) PROVE RecordsRemain
  BY <1>5 DEF TypeOK, StageInv, MapInv, RecordsRemain, Keeps,
     NewCowDevice, Move
<1>6. ASSUME NEW c \in Calls, UffdStart(c) PROVE RecordsRemain
  BY <1>6 DEF TypeOK, StageInv, MapInv, RecordsRemain, Keeps, UffdStart,
     Move
<1>7. ASSUME NEW c \in Calls, FcStart(c) PROVE RecordsRemain
  BY <1>7 DEF TypeOK, StageInv, MapInv, RecordsRemain, Keeps, FcStart,
     Move
<1>8. ASSUME NEW c \in Calls, RootfsPath(c) PROVE RecordsRemain
  BY <1>8 DEF TypeOK, StageInv, MapInv, RecordsRemain, Keeps, RootfsPath,
     Move
<1>9. ASSUME NEW c \in Calls, ResumeVM(c) PROVE RecordsRemain
  BY <1>9 DEF TypeOK, StageInv, MapInv, RecordsRemain, Keeps, ResumeVM,
     Move
<1>10. ASSUME NEW c \in Calls, Insert(c) PROVE RecordsRemain
  BY <1>10 DEF TypeOK, StageInv, MapInv, RecordsRemain, Keeps, Insert,
     Move, LifeGoto
<1>11. ASSUME NEW c \in Calls, CreateFails(c) PROVE RecordsRemain
  BY <1>11 DEF TypeOK, StageInv, MapInv, RecordsRemain, Keeps,
     CreateFails, BeginCleanup
<1>12. ASSUME NEW c \in Calls, FcFails(c) PROVE RecordsRemain
  BY <1>12 DEF TypeOK, StageInv, MapInv, RecordsRemain, Keeps, FcFails,
     BeginCleanup, Kill, Alive
<1>13. ASSUME NEW c \in Calls, CreateError(c) PROVE RecordsRemain
  BY <1>13 DEF TypeOK, StageInv, MapInv, RecordsRemain, Keeps,
     CreateError, Move
<1>14. ASSUME NEW c \in Calls, RunPriority(c) PROVE RecordsRemain
  BY <1>14 DEF TypeOK, StageInv, MapInv, RecordsRemain, Keeps,
     RunPriority, Kill, Alive, StopUffd
<1>15. ASSUME NEW c \in Calls, CleanUffd(c) PROVE RecordsRemain
  <2>1. run[c] = "list" /\ left[c] = 3
    BY <1>15, Places DEF CleanUffd, Done, Last
  <2>2. UNCHANGED <<dns, sid, ips, cleanup, run>> /\ \A d \in Calls : d # c => left'[d] = left[d]
    BY <1>15 DEF TypeOK, CleanUffd, Done
  <2> QED BY <2>1, <2>2 DEF RecordsRemain, Keeps
<1>16. ASSUME NEW c \in Calls, CloseMount(c) PROVE RecordsRemain
  BY <1>16 DEF TypeOK, StageInv, MapInv, RecordsRemain, Keeps, CloseMount,
     Last
<1>17. ASSUME NEW c \in Calls, CloseMountPanics(c) PROVE RecordsRemain
  <2>1. run[c] = "list" /\ left[c] = 2
    BY <1>17, Places DEF CloseMountPanics, Last
  <2>2. UNCHANGED <<dns, sid, ips, cleanup, left>> /\ \A d \in Calls : d # c => run'[d] = run[d]
    BY <1>17 DEF TypeOK, CloseMountPanics
  <2> QED BY <2>1, <2>2 DEF RecordsRemain, Keeps
<1>18. ASSUME NEW c \in Calls, CloseOverlay(c) PROVE RecordsRemain
  <2>1. run[c] = "list" /\ left[c] = 2
    BY <1>18, Places DEF CloseOverlay, Done, Last
  <2>2. UNCHANGED <<dns, sid, ips, cleanup, run>> /\ \A d \in Calls : d # c => left'[d] = left[d]
    BY <1>18 DEF TypeOK, CloseOverlay, Done
  <2> QED BY <2>1, <2>2 DEF RecordsRemain, Keeps
<1>19. ASSUME NEW c \in Calls, CleanSlot(c) PROVE RecordsRemain
  <2>1. run[c] = "list" /\ left[c] = 1
    BY <1>19, Places DEF CleanSlot, Done, Last
  <2>2. UNCHANGED <<dns, sid, ips, cleanup, run>> /\ \A d \in Calls : d # c => left'[d] = left[d]
    BY <1>19 DEF TypeOK, CleanSlot, Done, Return
  <2> QED BY <2>1, <2>2 DEF RecordsRemain, Keeps
<1>20. ASSUME NEW c \in Calls, RunEnds(c) PROVE RecordsRemain
  BY <1>20 DEF TypeOK, StageInv, MapInv, RecordsRemain, Keeps, RunEnds
<1>21. ASSUME NEW c \in Calls, WaitEnds(c) PROVE RecordsRemain
  BY <1>21 DEF TypeOK, StageInv, MapInv, RecordsRemain, Keeps, WaitEnds,
     LifeGoto, BeginCleanup
<1>22. ASSUME NEW c \in Calls, StopEnds(c) PROVE RecordsRemain
  BY <1>22 DEF TypeOK, StageInv, MapInv, RecordsRemain, Keeps, StopEnds,
     LifeGoto
<1>23. ASSUME NEW c \in Calls, LifeRemove(c) PROVE RecordsRemain
  BY <1>23 DEF TypeOK, StageInv, MapInv, RecordsRemain, Keeps, LifeRemove,
     LifeGoto
<1>24. ASSUME NEW c \in Calls, SpawnedStop(c) PROVE RecordsRemain
  BY <1>24 DEF TypeOK, StageInv, MapInv, RecordsRemain, Keeps,
     SpawnedStop, BeginCleanup
<1>25. ASSUME NEW c \in Calls, VmExits(c) PROVE RecordsRemain
  BY <1>25 DEF TypeOK, StageInv, MapInv, RecordsRemain, Keeps, VmExits
<1>26. ASSUME NEW c \in Calls, UffdExits(c) PROVE RecordsRemain
  BY <1>26 DEF TypeOK, StageInv, MapInv, RecordsRemain, Keeps, UffdExits
<1>27. ASSUME NEW c \in Calls, MountOpens(c) PROVE RecordsRemain
  BY <1>27 DEF TypeOK, StageInv, MapInv, RecordsRemain, Keeps, MountOpens
<1>28. ASSUME NEW c \in Calls, MountFails(c) PROVE RecordsRemain
  BY <1>28 DEF TypeOK, StageInv, MapInv, RecordsRemain, Keeps, MountFails
<1>29. ASSUME NEW c \in Calls, Disconnected(c) PROVE RecordsRemain
  BY <1>29 DEF TypeOK, StageInv, MapInv, RecordsRemain, Keeps,
     Disconnected
<1>30. ASSUME NEW r \in Requests, NEW s \in Ids, Delete(r, s) PROVE RecordsRemain
  BY <1>30 DEF TypeOK, StageInv, MapInv, RecordsRemain, Keeps, Delete
<1>31. ASSUME NEW r \in Requests, NEW s \in Ids, Pause(r, s) PROVE RecordsRemain
  BY <1>31 DEF TypeOK, StageInv, MapInv, RecordsRemain, Keeps, Pause,
     ReqGoto
<1>32. ASSUME NEW r \in Requests, DeleteDns(r) PROVE RecordsRemain
  BY <1>32 DEF TypeOK, StageInv, MapInv, RecordsRemain, Keeps, DeleteDns,
     ReqGoto, RemoveDns
<1>33. ASSUME NEW r \in Requests, DeleteRemove(r) PROVE RecordsRemain
  BY <1>33 DEF TypeOK, StageInv, MapInv, RecordsRemain, Keeps,
     DeleteRemove, ReqGoto
<1>34. ASSUME NEW r \in Requests, DeleteStop(r) PROVE RecordsRemain
  BY <1>34 DEF TypeOK, StageInv, MapInv, RecordsRemain, Keeps, DeleteStop,
     ReqGoto, BeginCleanup
<1>35. ASSUME NEW r \in Requests, DeleteOk(r) PROVE RecordsRemain
  BY <1>35 DEF TypeOK, StageInv, MapInv, RecordsRemain, Keeps, DeleteOk,
     ReqGoto
<1>36. ASSUME NEW r \in Requests, PauseAcquire(r) PROVE RecordsRemain
  BY <1>36 DEF TypeOK, StageInv, MapInv, RecordsRemain, Keeps,
     PauseAcquire, ReqGoto
<1>37. ASSUME NEW r \in Requests, PauseAcquireFails(r) PROVE RecordsRemain
  BY <1>37 DEF TypeOK, StageInv, MapInv, RecordsRemain, Keeps,
     PauseAcquireFails, ReqGoto
<1>38. ASSUME NEW r \in Requests, PauseLock(r) PROVE RecordsRemain
  BY <1>38 DEF TypeOK, StageInv, MapInv, RecordsRemain, Keeps, PauseLock,
     ReqGoto
<1>39. ASSUME NEW r \in Requests, PauseGet(r) PROVE RecordsRemain
  BY <1>39 DEF TypeOK, StageInv, MapInv, RecordsRemain, Keeps, PauseGet,
     ReleasePermit
<1>40. ASSUME NEW r \in Requests, PauseDns(r) PROVE RecordsRemain
  BY <1>40 DEF TypeOK, StageInv, MapInv, RecordsRemain, Keeps, PauseDns,
     ReqGoto, RemoveDns
<1>41. ASSUME NEW r \in Requests, PauseRemove(r) PROVE RecordsRemain
  BY <1>41 DEF TypeOK, StageInv, MapInv, RecordsRemain, Keeps,
     PauseRemove, ReqGoto
<1>42. ASSUME NEW r \in Requests, TemplateFiles(r) PROVE RecordsRemain
  BY <1>42 DEF TypeOK, StageInv, MapInv, RecordsRemain, Keeps,
     TemplateFiles, ReqGoto
<1>43. ASSUME NEW r \in Requests, TemplateFilesFail(r) PROVE RecordsRemain
  BY <1>43 DEF TypeOK, StageInv, MapInv, RecordsRemain, Keeps,
     TemplateFilesFail, ReqGoto, ReleasePermit
<1>44. ASSUME NEW r \in Requests, SnapshotMemory(r) PROVE RecordsRemain
  BY <1>44 DEF TypeOK, StageInv, MapInv, RecordsRemain, Keeps,
     SnapshotMemory, ReqGoto, ReleasePermit
<1>45. ASSUME NEW r \in Requests, EjectCache(r) PROVE RecordsRemain
  BY <1>45 DEF TypeOK, StageInv, MapInv, RecordsRemain, Keeps, EjectCache,
     ReqGoto
<1>46. ASSUME NEW r \in Requests, ExportRootfs(r) PROVE RecordsRemain
  BY <1>46 DEF TypeOK, StageInv, MapInv, RecordsRemain, Keeps,
     ExportRootfs, ReqGoto
<1>47. ASSUME NEW r \in Requests, AddSnapshot(r) PROVE RecordsRemain
  BY <1>47 DEF TypeOK, StageInv, MapInv, RecordsRemain, Keeps,
     AddSnapshot, ReqGoto
<1>48. ASSUME NEW r \in Requests, PauseFails(r) PROVE RecordsRemain
  BY <1>48 DEF TypeOK, StageInv, MapInv, RecordsRemain, Keeps, PauseFails,
     SnapshotFails, ReleasePermit
<1>49. ASSUME NEW r \in Requests, ExportTimesOut(r) PROVE RecordsRemain
  BY <1>49 DEF TypeOK, StageInv, MapInv, RecordsRemain, Keeps,
     ExportTimesOut, SnapshotFails, ReleasePermit
<1>50. ASSUME PopulateStep PROVE RecordsRemain
  <2>1. UNCHANGED ips
    BY <1>50 DEF PopulateStep, Populate, CreateNetworkSlot, CreateNetworkSlotFails, PopulateSend
  <2> QED BY <1>50, <2>1 DEF RecordsRemain, Keeps, PopulateStep
<1> QED
  BY <1>1, <1>2, <1>3, <1>4, <1>5, <1>6, <1>7, <1>8, <1>9, <1>10, <1>11,
     <1>12, <1>13, <1>14, <1>15, <1>16, <1>17, <1>18, <1>19, <1>20, <1>21,
     <1>22, <1>23, <1>24, <1>25, <1>26, <1>27, <1>28, <1>29, <1>30, <1>31,
     <1>32, <1>33, <1>34, <1>35, <1>36, <1>37, <1>38, <1>39, <1>40, <1>41,
     <1>42, <1>43, <1>44, <1>45, <1>46, <1>47, <1>48, <1>49, <1>50
  DEF Next, CreateStep, Cleanup, Life, RequestStep, RequestProceeds

\* Every step keeps a keeper for each record.
LEMMA DnsStep ==
  ASSUME TypeOK, StageInv, MapInv, DnsInv, Next
  PROVE  DnsInv'
<1>1. CASE RecordsRemain
  <2> SUFFICES ASSUME NEW s \in Ids, dns'[s] # NoSlot
               PROVE  \E c \in Calls : Keeps(c, s, dns[s])'
    BY DEF DnsInv
  <2>1. dns'[s] = dns[s] /\ dns[s] \in Slots
    BY <1>1 DEF RecordsRemain, TypeOK
  <2>2. PICK c \in Calls : Keeps(c, s, dns[s])
    BY <2>1 DEF DnsInv
  <2>3. Keeps(c, s, dns[s])'
    BY <1>1, <2>1, <2>2 DEF RecordsRemain, Keeps
  <2> QED BY <2>3
<1>2. ASSUME NEW c \in Calls, DnsAdd(c) PROVE DnsInv'
  <2>1. /\ dns' = [dns EXCEPT ![sid[c]] = ips[c]] /\ cleanup' = [cleanup EXCEPT ![c] = 4]
        /\ cleanup[c] = 3 /\ run[c] = "no"
        /\ UNCHANGED <<sid, ips, run, left>>
    BY <1>2 DEF DnsAdd, Move, StageInv
  <2>2. \A d \in Calls, s \in Ids, k \in Slots : Keeps(d, s, k) => Keeps(d, s, k)'
    BY <2>1 DEF TypeOK, Keeps
  <2>3. cleanup'[c] = 4 /\ run'[c] = "no"
    BY <2>1 DEF TypeOK
  <2> SUFFICES ASSUME NEW s \in Ids, dns'[s] # NoSlot
               PROVE  \E d \in Calls : Keeps(d, s, dns[s])'
    BY DEF DnsInv
  <2>4. CASE s = sid[c]
    <3>1. sid'[c] = s /\ ips'[c] = ips[c]
      BY <2>1, <2>4
    <3>2. dns'[s] = ips'[c]
      BY <2>1, <2>4, <3>1 DEF TypeOK
    <3>3. Keeps(c, s, dns[s])'
      BY <2>3, <3>1, <3>2 DEF Keeps
    <3> QED BY <3>3
  <2>5. CASE s # sid[c]
    <3>1. dns'[s] = dns[s] /\ dns[s] \in Slots
      BY <2>1, <2>5 DEF TypeOK
    <3>2. PICK d \in Calls : Keeps(d, s, dns[s])
      BY <3>1 DEF DnsInv
    <3>3. Keeps(d, s, dns[s])'
      BY <2>2, <3>1, <3>2 DEF Keeps
    <3> QED BY <3>3
  <2> QED BY <2>4, <2>5
<1>3. ASSUME NEW c \in Calls, CleanDns(c) PROVE DnsInv'
  <2>1. UNCHANGED <<sid, ips, cleanup, run>>
    BY <1>3 DEF CleanDns
  <2>2. \A d \in Calls : d # c => left'[d] = left[d]
    BY <1>3 DEF TypeOK, CleanDns, Done
  <2>3. \A s \in Ids : /\ dns'[s] \in {dns[s], NoSlot}
                       /\ sid[c] = s /\ dns[s] = ips[c] => dns'[s] = NoSlot
    BY <1>3 DEF TypeOK, CleanDns, RemoveDns
  <2> SUFFICES ASSUME NEW s \in Ids, dns'[s] # NoSlot
               PROVE  \E d \in Calls : Keeps(d, s, dns[s])'
    BY DEF DnsInv
  <2>4. dns'[s] = dns[s]
    BY <2>3
  <2>5. PICK d \in Calls : Keeps(d, s, dns[s])
    BY <2>4 DEF DnsInv
  <2>6. d # c
    BY <2>3, <2>4, <2>5 DEF Keeps
  <2>7. Keeps(d, s, dns[s])'
    BY <2>1, <2>2, <2>4, <2>5, <2>6 DEF Keeps
  <2> QED BY <2>7
<1>4. CASE Restart
  BY <1>4 DEF Restart, DnsInv
<1> QED BY <1>1, <1>2, <1>3, <1>4, RecordStep

\* Initially there are no records.
LEMMA DnsInit == Init => DnsInv
  BY DEF Init, DnsInv

\* A record never outlives its sandbox's hold on the slot it leads to.
THEOREM NoRecordAstray == Spec => []RecordsLeadHome
<1>1. IInv /\ DnsInv /\ UNCHANGED vars => DnsInv'
  BY DEF DnsInv, Keeps, vars
<1>2. IInv /\ DnsInv /\ [Next]_vars => DnsInv'
  BY <1>1, DnsStep DEF IInv
<1>3. DnsInv => RecordsLeadHome
  BY DEF DnsInv, Keeps, RecordsLeadHome, Holds
<1> QED BY <1>2, <1>3, DnsInit, Inductive, PTL DEF Spec

=============================================================================
