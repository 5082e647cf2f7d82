------------------------ MODULE InstanceCacheProofs ------------------------
(***************************************************************************)
(* Proofs about InstanceCache, for any number of sandboxes, instances,     *)
(* VMs, requests, sync rounds, node losses and VM deaths.                  *)
(***************************************************************************)
EXTENDS InstanceCache, FiniteSetTheorems, TLAPS

\* What the cache's maps, the evictor and the hooks agree on: it makes the
\* type invariant inductive and is why the evictor cannot take out another
\* instance than the one it checked.
Consistent ==
  /\ \A i \in Instances : owner[i] = NoSandbox =>
       insertHook[i] = "off" /\ deleteHook[i] = "off"
  /\ \A s \in Sandboxes : running[s] # NoInstance =>
       owner[running[s]] = s /\ deleteHook[running[s]] = "off"
  /\ \A i \in Instances : i \in evScan \/ i = evCur =>
       owner[i] # NoSandbox /\ running[owner[i]] = i
  /\ evCur \notin evScan

IInv == TypeOK /\ Consistent

USE CacheAssumption
    DEF cacheVars, instVars, hookVars, evictorVars, reqVars, syncVars,
        nodeVars, statVars, dbVars, RequestPC, InsertPC, DeletePC

-----------------------------------------------------------------------------
\* The empty API has the types.
LEMMA TypeInit == Init => TypeOK
<1> SUFFICES ASSUME Init PROVE TypeOK
  OBVIOUS
<1>1. started \subseteq Vms
  BY DEF Init
<1>2. /\ vm \in [Sandboxes -> Vms \cup {NoVm}]
      /\ syncs \in 0..MaxSyncs /\ losses \in 0..MaxNodeLosses /\ deaths \in 0..MaxVmDeaths
  BY DEF Init
<1>3. /\ known \in BOOLEAN
      /\ expired \in [Instances -> BOOLEAN]
      /\ autoPause \in [Instances -> BOOLEAN]
      /\ dns \in [Sandboxes -> BOOLEAN]
  BY DEF Init
<1> QED BY <1>1, <1>2, <1>3 DEF Init, TypeOK

\* The empty API is consistent.
LEMMA ConsistentInit == Init => Consistent
  BY DEF Init, Consistent

\* Every step of a handler, hook or loop keeps the types.
LEMMA TypeStep ==
  ASSUME TypeOK, Consistent, Next
  PROVE  TypeOK'
<1>1. ASSUME EvictorWake PROVE TypeOK'
  BY <1>1 DEF TypeOK, Consistent, EvictorWake
<1>2. ASSUME EvictorRemove PROVE TypeOK'
  BY <1>2 DEF TypeOK, Consistent, EvictorRemove
<1>3. ASSUME NEW i \in Instances, EvictorCheck(i) PROVE TypeOK'
  BY <1>3 DEF TypeOK, Consistent, EvictorCheck
<1>4. ASSUME NEW i \in Instances, InsertHookNode(i) PROVE TypeOK'
  <2>1. usage' \in Int
    BY <1>4 DEF TypeOK, InsertHookNode
  <2>2. dns' \in [Sandboxes -> BOOLEAN]
    <3>1. CASE known  BY <1>4, <3>1 DEF TypeOK, InsertHookNode
    <3>2. CASE ~known BY <1>4, <3>2 DEF TypeOK, InsertHookNode
    <3> QED BY <3>1, <3>2
  <2>3. insertHook' \in [Instances -> InsertPC]
    BY <1>4 DEF TypeOK, InsertHookNode
  <2> QED BY <1>4, <2>1, <2>2, <2>3 DEF TypeOK, InsertHookNode
<1>5. ASSUME NEW i \in Instances, InsertHookMark(i) PROVE TypeOK'
  BY <1>5 DEF TypeOK, Consistent, InsertHookMark, MarkAsPausing
<1>6. ASSUME NEW i \in Instances, DeleteHookNode(i) PROVE TypeOK'
  <2>1. usage' \in Int
    BY <1>6 DEF TypeOK, DeleteHookNode
  <2>2. dns' \in [Sandboxes -> BOOLEAN]
    <3>1. CASE known  BY <1>6, <3>1 DEF TypeOK, DeleteHookNode
    <3>2. CASE ~known BY <1>6, <3>2 DEF TypeOK, DeleteHookNode
    <3> QED BY <3>1, <3>2
  <2>3. deleteHook' \in [Instances -> DeletePC]
    BY <1>6 DEF TypeOK, DeleteHookNode, HookGoto
  <2>4. UNCHANGED <<cacheVars, instVars, insertHook, evictorVars, reqVars,
                    syncVars, nodeVars, count, dbVars>>
    BY <1>6 DEF DeleteHookNode
  <2> QED BY <2>1, <2>2, <2>3, <2>4 DEF TypeOK
<1>7. ASSUME NEW i \in Instances, DeleteHookBranch(i) PROVE TypeOK'
  BY <1>7 DEF TypeOK, Consistent, DeleteHookBranch, HookGoto
<1>8. ASSUME NEW i \in Instances, DeleteHookMark(i) PROVE TypeOK'
  BY <1>8 DEF TypeOK, Consistent, DeleteHookMark, HookGoto, MarkAsPausing
<1>9. ASSUME NEW i \in Instances, NewSnapshotBuild(i) PROVE TypeOK'
  BY <1>9 DEF TypeOK, Consistent, NewSnapshotBuild, HookGoto
<1>10. ASSUME NEW i \in Instances, PauseRpc(i) PROVE TypeOK'
  <2>1. deleteHook' \in [Instances -> DeletePC]
    <3>1. HookGoto(i, "status") \/ HookGoto(i, "fail") BY <1>10 DEF PauseRpc
    <3> QED BY <3>1 DEF TypeOK, HookGoto
  <2>2. owner[i] \in Sandboxes
    BY <1>10 DEF TypeOK, Consistent, PauseRpc
  <2>3. image' \in [Instances -> Vms \cup {NoVm}]
    <3>1. \/ image' = [image EXCEPT ![i] = vm[owner[i]]]
          \/ image' = image
      BY <1>10 DEF PauseRpc
    <3> QED BY <2>2, <3>1 DEF TypeOK
  <2>4. vm' \in [Sandboxes -> Vms \cup {NoVm}]
    BY <1>10 DEF TypeOK, PauseRpc
  <2>5. UNCHANGED <<cacheVars, instVars, insertHook, evictorVars, reqVars,
                    syncVars, started, known, losses, deaths, statVars, build, last>>
    BY <1>10 DEF PauseRpc
  <2> QED BY <2>1, <2>3, <2>4, <2>5 DEF TypeOK
<1>11. ASSUME NEW i \in Instances, EnvBuildSetStatus(i) PROVE TypeOK'
  BY <1>11 DEF TypeOK, Consistent, EnvBuildSetStatus, HookGoto
<1>12. ASSUME NEW i \in Instances, DeleteHookUnmark(i) PROVE TypeOK'
  BY <1>12 DEF TypeOK, Consistent, DeleteHookUnmark, HookGoto, UnmarkAsPausing
<1>13. ASSUME NEW i \in Instances, PauseDone(i) PROVE TypeOK'
  BY <1>13 DEF TypeOK, Consistent, PauseDone, HookGoto
<1>14. ASSUME NEW i \in Instances, DeleteRpc(i) PROVE TypeOK'
  BY <1>14 DEF TypeOK, Consistent, DeleteRpc, HookGoto
<1>15. ASSUME NEW i \in Instances, DeleteHookReturn(i) PROVE TypeOK'
  <2>1. count' \in Int
    BY <1>15 DEF TypeOK, DeleteHookReturn
  <2>2. pausing' \in [Sandboxes -> Instances \cup {NoInstance}]
    BY <1>15 DEF TypeOK, DeleteHookReturn, UnmarkAsPausing
  <2>3. deleteHook' \in [Instances -> DeletePC]
    BY <1>15 DEF TypeOK, DeleteHookReturn, HookGoto
  <2> QED BY <1>15, <2>1, <2>2, <2>3 DEF TypeOK, DeleteHookReturn
<1>16. ASSUME NEW r \in Requests, NEW s \in Sandboxes, Create(r, s)
      PROVE  TypeOK'
  BY <1>16 DEF TypeOK, Consistent, Create, Request, Goto
<1>17. ASSUME NEW r \in Requests, NEW s \in Sandboxes, Resume(r, s)
      PROVE  TypeOK'
  BY <1>17 DEF TypeOK, Consistent, Resume, Request, Goto, Found, Answer,
       Available
<1>18. ASSUME NEW r \in Requests, NEW s \in Sandboxes, Refresh(r, s)
      PROVE  TypeOK'
  BY <1>18 DEF TypeOK, Consistent, Refresh, Request, Goto, Found, Answer,
       Available
<1>19. ASSUME NEW r \in Requests, NEW s \in Sandboxes, Pause(r, s)
      PROVE  TypeOK'
  BY <1>19 DEF TypeOK, Consistent, Pause, Request, Goto, Found, Answer,
       Available
<1>20. ASSUME NEW r \in Requests, NEW s \in Sandboxes, Kill(r, s) PROVE TypeOK'
  BY <1>20 DEF TypeOK, Consistent, Kill, Request, Goto, Found, Answer,
       Available
<1>21. ASSUME NEW r \in Requests, KillPaused(r) PROVE TypeOK'
  BY <1>21 DEF TypeOK, Consistent, KillPaused, Answer, Found
<1>22. ASSUME NEW r \in Requests, DeleteGet(r) PROVE TypeOK'
  BY <1>22 DEF TypeOK, Consistent, DeleteGet, Goto, Found, Answer, Available
<1>23. ASSUME NEW r \in Requests, DeleteExpire(r) PROVE TypeOK'
  BY <1>23 DEF TypeOK, Consistent, DeleteExpire, Goto, SetExpired
<1>24. ASSUME NEW r \in Requests, DeleteStore(r) PROVE TypeOK'
  BY <1>24 DEF TypeOK, Consistent, DeleteStore, Goto, Answer, Found
<1>25. ASSUME NEW r \in Requests, DeleteMark(r) PROVE TypeOK'
  <2>1. pausing' \in [Sandboxes -> Instances \cup {NoInstance}]
    BY <1>25 DEF TypeOK, DeleteMark, MarkAsPausing
  <2>2. rval' \in [Requests -> Instances \cup {NoInstance}]
    BY <1>25 DEF TypeOK, DeleteMark
  <2> QED BY <1>25, <2>1, <2>2 DEF TypeOK, DeleteMark, Goto
<1>26. ASSUME NEW r \in Requests, WaitPause(r) PROVE TypeOK'
  BY <1>26 DEF TypeOK, Consistent, WaitPause, Answer, Found
<1>27. ASSUME NEW r \in Requests, WaitCancelled(r) PROVE TypeOK'
  BY <1>27 DEF TypeOK, Consistent, WaitCancelled, Answer, Found
<1>28. ASSUME NEW r \in Requests, KeepAlive(r) PROVE TypeOK'
  <2>1. expired' \in [Instances -> BOOLEAN]
    BY <1>28 DEF TypeOK, KeepAlive, SetExpired, Available
  <2>2. rgot' \in [Requests -> Instances \cup {NoInstance}]
    BY <1>28 DEF TypeOK, KeepAlive, Answer, Found
  <2>3. \E a \in {"ok", "failed"} : rpc' = [rpc EXCEPT ![r] = a]
    BY <1>28 DEF TypeOK, KeepAlive, Answer, Found
  <2> QED BY <1>28, <2>1, <2>2, <2>3 DEF TypeOK, KeepAlive, Answer, Found
<1>29. ASSUME NEW r \in Requests, ResumeLookup(r) PROVE TypeOK'
  BY <1>29 DEF TypeOK, Consistent, ResumeLookup, Goto, Found
<1>30. ASSUME NEW r \in Requests, ResumeWait(r) PROVE TypeOK'
  BY <1>30 DEF TypeOK, Consistent, ResumeWait, Answer, Found
<1>31. ASSUME NEW r \in Requests, ResumeSnapshot(r) PROVE TypeOK'
  BY <1>31 DEF TypeOK, Consistent, ResumeSnapshot, Goto, Answer, Found
<1>32. ASSUME NEW r \in Requests, Place(r) PROVE TypeOK'
  BY <1>32 DEF TypeOK, Consistent, Place, Goto, Answer, Found
<1>33. ASSUME NEW r \in Requests, NEW i \in Instances, NEW ap \in BOOLEAN, Add(r, i, ap)
      PROVE  TypeOK'
  BY <1>33 DEF TypeOK, Consistent, Add, NewInstance, SetIfAbsent, Answer, Found
<1>34. ASSUME SyncList PROVE TypeOK'
  BY <1>34 DEF TypeOK, Consistent, SyncList, SyncIdle
<1>35. ASSUME SyncItems PROVE TypeOK'
  BY <1>35 DEF TypeOK, Consistent, SyncItems, Available
<1>36. ASSUME NEW s \in Sandboxes, SyncRemove(s) PROVE TypeOK'
  <2>1. expired' \in [Instances -> BOOLEAN]
    <3>1. expired' = expired \/ \E i \in Instances : expired' = [expired EXCEPT ![i] = TRUE]
      <4>1. CASE Available(s)
        <5>1. running[s] \in Instances
          BY <4>1 DEF TypeOK, Available
        <5> QED BY <1>36, <4>1, <5>1 DEF SyncRemove, SetExpired
      <4>2. CASE ~Available(s)
        BY <1>36, <4>2 DEF SyncRemove
      <4> QED BY <4>1, <4>2
    <3>2. expired \in [Instances -> BOOLEAN]
      BY DEF TypeOK
    <3> QED BY <3>1, <3>2
  <2>2. sGone' \subseteq Sandboxes
    BY <1>36 DEF TypeOK, SyncRemove
  <2> QED BY <1>36, <2>1, <2>2 DEF TypeOK, SyncRemove
<1>37. ASSUME NEW s \in Sandboxes, SyncExists(s) PROVE TypeOK'
  BY <1>37 DEF TypeOK, Consistent, SyncExists, Available
<1>38. ASSUME NEW i \in Instances, NEW ap \in BOOLEAN, SyncAdd(i, ap)
      PROVE  TypeOK'
  <2>1. sCur \in Sandboxes /\ sList \in [Sandboxes -> Vms \cup {NoVm}]
    BY <1>38 DEF TypeOK, SyncAdd
  <2>2. /\ owner' \in [Instances -> Sandboxes \cup {NoSandbox}]
        /\ start' \in [Instances -> Instances \cup Vms \cup {NoVm}]
        /\ autoPause' \in [Instances -> BOOLEAN]
    BY <1>38, <2>1 DEF TypeOK, SyncAdd, NewInstance
  <2>3. /\ running' \in [Sandboxes -> Instances \cup {NoInstance}]
        /\ insertHook' \in [Instances -> InsertPC]
    BY <1>38, <2>1 DEF TypeOK, SyncAdd, SetIfAbsent
  <2>4. /\ count' \in Int /\ sCur' \in Sandboxes \cup {NoSandbox}
        /\ sList' \in [Sandboxes -> Vms \cup {NoVm}]
    BY <1>38, <2>1 DEF TypeOK, SyncAdd
  <2>5. UNCHANGED <<pausing, expired, outcome, deleteHook, evictorVars, reqVars,
                    sPC, sGone, syncs, nodeVars, usage, dns, dbVars>>
    BY <1>38 DEF SyncAdd
  <2> QED BY <2>2, <2>3, <2>4, <2>5 DEF TypeOK
<1>39. ASSUME NodeLost PROVE TypeOK'
  <2>1. losses' \in 0..MaxNodeLosses
    BY <1>39 DEF TypeOK, NodeLost
  <2>2. known' \in BOOLEAN
    BY <1>39 DEF TypeOK, NodeLost
  <2> QED BY <1>39, <2>1, <2>2 DEF TypeOK, NodeLost
<1>40. ASSUME ConnectToNode PROVE TypeOK'
  BY <1>40 DEF TypeOK, Consistent, ConnectToNode, SyncIdle
<1>41. ASSUME NEW i \in Instances, Expire(i) PROVE TypeOK'
  BY <1>41 DEF TypeOK, Consistent, Expire, SetExpired
<1>42. ASSUME NEW s \in Sandboxes, VmDies(s) PROVE TypeOK'
  BY <1>42 DEF TypeOK, Consistent, VmDies
<1> QED
  BY <1>1, <1>2, <1>3, <1>4, <1>5, <1>6, <1>7, <1>8, <1>9, <1>10, <1>11,
     <1>12, <1>13, <1>14, <1>15, <1>16, <1>17, <1>18, <1>19, <1>20, <1>21,
     <1>22, <1>23, <1>24, <1>25, <1>26, <1>27, <1>28, <1>29, <1>30, <1>31,
     <1>32, <1>33, <1>34, <1>35, <1>36, <1>37, <1>38, <1>39, <1>40, <1>41,
     <1>42
  DEF Next, Evictor, Sync, Environment, InsertHook, DeleteHook, Arrive, Handle

\* Every step keeps map, objects and hooks consistent.
LEMMA ConsistentStep ==
  ASSUME TypeOK, Consistent, Next
  PROVE  Consistent'
<1>1. ASSUME EvictorWake PROVE Consistent'
  BY <1>1 DEF TypeOK, Consistent, EvictorWake
<1>2. ASSUME EvictorRemove PROVE Consistent'
  BY <1>2 DEF TypeOK, Consistent, EvictorRemove
<1>3. ASSUME NEW i \in Instances, EvictorCheck(i) PROVE Consistent'
  BY <1>3 DEF TypeOK, Consistent, EvictorCheck
<1>4. ASSUME NEW i \in Instances, InsertHookNode(i) PROVE Consistent'
  BY <1>4 DEF TypeOK, Consistent, InsertHookNode
<1>5. ASSUME NEW i \in Instances, InsertHookMark(i) PROVE Consistent'
  BY <1>5 DEF TypeOK, Consistent, InsertHookMark, MarkAsPausing
<1>6. ASSUME NEW i \in Instances, DeleteHookNode(i) PROVE Consistent'
  BY <1>6 DEF TypeOK, Consistent, DeleteHookNode, HookGoto
<1>7. ASSUME NEW i \in Instances, DeleteHookBranch(i) PROVE Consistent'
  BY <1>7 DEF TypeOK, Consistent, DeleteHookBranch, HookGoto
<1>8. ASSUME NEW i \in Instances, DeleteHookMark(i) PROVE Consistent'
  BY <1>8 DEF TypeOK, Consistent, DeleteHookMark, HookGoto, MarkAsPausing
<1>9. ASSUME NEW i \in Instances, NewSnapshotBuild(i) PROVE Consistent'
  BY <1>9 DEF TypeOK, Consistent, NewSnapshotBuild, HookGoto
<1>10. ASSUME NEW i \in Instances, PauseRpc(i) PROVE Consistent'
  BY <1>10 DEF TypeOK, Consistent, PauseRpc, HookGoto
<1>11. ASSUME NEW i \in Instances, EnvBuildSetStatus(i) PROVE Consistent'
  BY <1>11 DEF TypeOK, Consistent, EnvBuildSetStatus, HookGoto
<1>12. ASSUME NEW i \in Instances, DeleteHookUnmark(i) PROVE Consistent'
  BY <1>12 DEF TypeOK, Consistent, DeleteHookUnmark, HookGoto, UnmarkAsPausing
<1>13. ASSUME NEW i \in Instances, PauseDone(i) PROVE Consistent'
  BY <1>13 DEF TypeOK, Consistent, PauseDone, HookGoto
<1>14. ASSUME NEW i \in Instances, DeleteRpc(i) PROVE Consistent'
  BY <1>14 DEF TypeOK, Consistent, DeleteRpc, HookGoto
<1>15. ASSUME NEW i \in Instances, DeleteHookReturn(i) PROVE Consistent'
  BY <1>15 DEF TypeOK, Consistent, DeleteHookReturn, HookGoto, UnmarkAsPausing
<1>16. ASSUME NEW r \in Requests, NEW s \in Sandboxes, Create(r, s)
      PROVE  Consistent'
  BY <1>16 DEF TypeOK, Consistent, Create, Request, Goto
<1>17. ASSUME NEW r \in Requests, NEW s \in Sandboxes, Resume(r, s)
      PROVE  Consistent'
  BY <1>17 DEF TypeOK, Consistent, Resume, Request, Goto, Found, Answer,
       Available
<1>18. ASSUME NEW r \in Requests, NEW s \in Sandboxes, Refresh(r, s)
      PROVE  Consistent'
  BY <1>18 DEF TypeOK, Consistent, Refresh, Request, Goto, Found, Answer,
       Available
<1>19. ASSUME NEW r \in Requests, NEW s \in Sandboxes, Pause(r, s)
      PROVE  Consistent'
  BY <1>19 DEF TypeOK, Consistent, Pause, Request, Goto, Found, Answer,
       Available
<1>20. ASSUME NEW r \in Requests, NEW s \in Sandboxes, Kill(r, s)
      PROVE  Consistent'
  BY <1>20 DEF TypeOK, Consistent, Kill, Request, Goto, Found, Answer,
       Available
<1>21. ASSUME NEW r \in Requests, KillPaused(r) PROVE Consistent'
  BY <1>21 DEF TypeOK, Consistent, KillPaused, Answer, Found
<1>22. ASSUME NEW r \in Requests, DeleteGet(r) PROVE Consistent'
  BY <1>22 DEF TypeOK, Consistent, DeleteGet, Goto, Found, Answer, Available
<1>23. ASSUME NEW r \in Requests, DeleteExpire(r) PROVE Consistent'
  BY <1>23 DEF TypeOK, Consistent, DeleteExpire, Goto, SetExpired
<1>24. ASSUME NEW r \in Requests, DeleteStore(r) PROVE Consistent'
  BY <1>24 DEF TypeOK, Consistent, DeleteStore, Goto, Answer, Found
<1>25. ASSUME NEW r \in Requests, DeleteMark(r) PROVE Consistent'
  BY <1>25 DEF TypeOK, Consistent, DeleteMark, Goto, MarkAsPausing
<1>26. ASSUME NEW r \in Requests, WaitPause(r) PROVE Consistent'
  BY <1>26 DEF TypeOK, Consistent, WaitPause, Answer, Found
<1>27. ASSUME NEW r \in Requests, WaitCancelled(r) PROVE Consistent'
  BY <1>27 DEF TypeOK, Consistent, WaitCancelled, Answer, Found
<1>28. ASSUME NEW r \in Requests, KeepAlive(r) PROVE Consistent'
  BY <1>28 DEF TypeOK, Consistent, KeepAlive, Answer, Found, SetExpired,
       Available
<1>29. ASSUME NEW r \in Requests, ResumeLookup(r) PROVE Consistent'
  BY <1>29 DEF TypeOK, Consistent, ResumeLookup, Goto, Found
<1>30. ASSUME NEW r \in Requests, ResumeWait(r) PROVE Consistent'
  BY <1>30 DEF TypeOK, Consistent, ResumeWait, Answer, Found
<1>31. ASSUME NEW r \in Requests, ResumeSnapshot(r) PROVE Consistent'
  BY <1>31 DEF TypeOK, Consistent, ResumeSnapshot, Goto, Answer, Found
<1>32. ASSUME NEW r \in Requests, Place(r) PROVE Consistent'
  BY <1>32 DEF TypeOK, Consistent, Place, Goto, Answer, Found
<1>33. ASSUME NEW r \in Requests, NEW i \in Instances, NEW ap \in BOOLEAN, Add(r, i, ap)
      PROVE  Consistent'
  BY <1>33 DEF TypeOK, Consistent, Add, NewInstance, SetIfAbsent, Answer, Found
<1>34. ASSUME SyncList PROVE Consistent'
  BY <1>34 DEF TypeOK, Consistent, SyncList, SyncIdle
<1>35. ASSUME SyncItems PROVE Consistent'
  BY <1>35 DEF TypeOK, Consistent, SyncItems, Available
<1>36. ASSUME NEW s \in Sandboxes, SyncRemove(s) PROVE Consistent'
  BY <1>36 DEF TypeOK, Consistent, SyncRemove, Available, SetExpired
<1>37. ASSUME NEW s \in Sandboxes, SyncExists(s) PROVE Consistent'
  BY <1>37 DEF TypeOK, Consistent, SyncExists, Available
<1>38. ASSUME NEW i \in Instances, NEW ap \in BOOLEAN, SyncAdd(i, ap)
      PROVE  Consistent'
  BY <1>38 DEF TypeOK, Consistent, SyncAdd, NewInstance, SetIfAbsent
<1>39. ASSUME NodeLost PROVE Consistent'
  BY <1>39 DEF TypeOK, Consistent, NodeLost, SyncIdle
<1>40. ASSUME ConnectToNode PROVE Consistent'
  BY <1>40 DEF TypeOK, Consistent, ConnectToNode, SyncIdle
<1>41. ASSUME NEW i \in Instances, Expire(i) PROVE Consistent'
  BY <1>41 DEF TypeOK, Consistent, Expire, SetExpired
<1>42. ASSUME NEW s \in Sandboxes, VmDies(s) PROVE Consistent'
  BY <1>42 DEF TypeOK, Consistent, VmDies
<1> QED
  BY <1>1, <1>2, <1>3, <1>4, <1>5, <1>6, <1>7, <1>8, <1>9, <1>10, <1>11,
     <1>12, <1>13, <1>14, <1>15, <1>16, <1>17, <1>18, <1>19, <1>20, <1>21,
     <1>22, <1>23, <1>24, <1>25, <1>26, <1>27, <1>28, <1>29, <1>30, <1>31,
     <1>32, <1>33, <1>34, <1>35, <1>36, <1>37, <1>38, <1>39, <1>40, <1>41,
     <1>42
  DEF Next, Evictor, Sync, Environment, InsertHook, DeleteHook, Arrive, Handle

\* Types and consistency hold in every reachable state.
LEMMA Inductive == Spec => []IInv
<1>1. Init => IInv
  BY TypeInit, ConsistentInit DEF IInv
<1>2. IInv /\ UNCHANGED vars => IInv'
  BY DEF IInv, TypeOK, Consistent, vars
<1>3. IInv /\ [Next]_vars => IInv'
  BY <1>2, TypeStep, ConsistentStep DEF IInv
<1> QED BY <1>1, <1>3, PTL DEF Spec

\* Every variable keeps its type; a handler past a lookup holds an instance.
THEOREM TypeCorrect == Spec => []TypeOK
<1>1. IInv => TypeOK
  BY DEF IInv
<1> QED BY <1>1, Inductive, PTL

\* What the evictor takes out of the cache is what it found expired.
THEOREM EvictorRight == Spec => []EvictorHoldsWhatItChecked
<1>1. IInv => EvictorHoldsWhatItChecked
  BY DEF IInv, TypeOK, Consistent, EvictorHoldsWhatItChecked
<1> QED BY <1>1, Inductive, PTL

-----------------------------------------------------------------------------
(* How far a kill can be relied on.                                        *)

\* The client was told that the sandbox is killed.
Killed(r) == mode[r] = "kill" /\ rpc[r] = "ok" /\ rval[r] # NoInstance

\* An expired instance that no refresh has looked up and not yet written.
Doomed(i) == expired[i] /\ \A q \in Requests : rpc[q] = "keep" => rgot[q] # i

KillKept(r) == /\ mode'[r] = "kill" /\ rpc'[r] = "ok" /\ rval'[r] = rval[r]
               /\ expired'[rval[r]]
               /\ \A q \in Requests : rpc'[q] = "keep" => rgot'[q] # rval[r]

\* A kill that was answered while no KeepAliveFor held its instance stays in
\* force: nothing moves the end time of that instance any more.  It is the
\* exact limit of what KilledStaysKilled finds violated.
KillIsFinal == [][\A r \in Requests :
  Killed(r) /\ Doomed(rval[r])
    => Killed(r)' /\ rval'[r] = rval[r] /\ Doomed(rval[r])']_vars

\* No step undoes such a kill: a refresh that begins later does not find the
\* instance, and the one write of KeepAliveFor that moves an end time is on
\* the instance it looked up.
LEMMA KillStep ==
  ASSUME TypeOK, Next, NEW r \in Requests, Killed(r), Doomed(rval[r])
  PROVE  KillKept(r)
<1> USE DEF Killed, Doomed, KillKept
<1>0. rval[r] \in Instances
  BY DEF TypeOK
<1>1. ASSUME UNCHANGED <<expired, reqVars>> PROVE KillKept(r)
  BY <1>1
<1>2. ASSUME Evictor PROVE UNCHANGED <<expired, reqVars>>
  BY <1>2 DEF Evictor, EvictorWake, EvictorRemove, EvictorCheck
<1>3. ASSUME NEW i \in Instances, InsertHook(i) PROVE UNCHANGED <<expired, reqVars>>
  BY <1>3 DEF InsertHook, InsertHookNode, InsertHookMark
<1>4. ASSUME NEW i \in Instances, DeleteHook(i) PROVE UNCHANGED <<expired, reqVars>>
  BY <1>4 DEF DeleteHook, DeleteHookNode, DeleteHookBranch, DeleteHookMark,
     NewSnapshotBuild, PauseRpc, EnvBuildSetStatus, DeleteHookUnmark, PauseDone,
     DeleteRpc, DeleteHookReturn
<1>5. ASSUME Sync PROVE KillKept(r)
  <2>1. ASSUME NEW s \in Sandboxes, SyncRemove(s) PROVE KillKept(r)
    BY <1>0, <2>1 DEF TypeOK, SyncRemove, SetExpired
  <2>2. ASSUME SyncItems \/ \E s \in Sandboxes : SyncExists(s)
        PROVE  UNCHANGED <<expired, reqVars>>
    BY <2>2 DEF SyncItems, SyncExists
  <2>3. ASSUME NEW i \in Instances, NEW ap \in BOOLEAN, SyncAdd(i, ap)
        PROVE  UNCHANGED <<expired, reqVars>>
    BY <2>3 DEF SyncAdd
  <2> QED BY <1>1, <1>5, <2>1, <2>2, <2>3 DEF Sync
<1>6. ASSUME SyncList \/ NodeLost \/ ConnectToNode \/ \E s \in Sandboxes : VmDies(s)
      PROVE  UNCHANGED <<expired, reqVars>>
  BY <1>6 DEF SyncList, NodeLost, ConnectToNode, VmDies
<1>7. ASSUME NEW i \in Instances, Expire(i) PROVE KillKept(r)
  BY <1>0, <1>7 DEF TypeOK, Expire, SetExpired
<1>8. ASSUME NEW q \in Requests, WaitCancelled(q) PROVE KillKept(r)
  BY <1>8 DEF TypeOK, WaitCancelled, Answer, Found
<1>9. ASSUME NEW q \in Requests, Arrive(q) PROVE KillKept(r)
  <2>1. PICK s \in Sandboxes : \/ Create(q, s) \/ Resume(q, s) \/ Refresh(q, s)
                              \/ Pause(q, s) \/ Kill(q, s)
    BY <1>9 DEF Arrive
  <2>2. q # r /\ mode'[r] = mode[r] /\ rval' = rval /\ expired' = expired
    BY <2>1 DEF TypeOK, Create, Resume, Refresh, Pause, Kill, Request
  <2>3. CASE Refresh(q, s)
    <3>1. CASE Available(s)
      <4>1. running[s] # rval[r]
        BY <3>1 DEF Available
      <4> QED BY <2>2, <2>3, <3>1, <4>1 DEF TypeOK, Refresh, Found
    <3>2. CASE ~Available(s)
      BY <2>2, <2>3, <3>2 DEF TypeOK, Refresh, Answer, Found
    <3> QED BY <3>1, <3>2
  <2>4. CASE Create(q, s)
    BY <2>2, <2>4 DEF TypeOK, Create, Goto
  <2>5. CASE Resume(q, s)
    BY <2>2, <2>5 DEF TypeOK, Resume, Goto, Answer, Found
  <2>6. CASE Pause(q, s)
    BY <2>2, <2>6 DEF TypeOK, Pause, Answer, Found
  <2>7. CASE Kill(q, s)
    BY <2>2, <2>7 DEF TypeOK, Kill, Goto
  <2> QED BY <2>1, <2>3, <2>4, <2>5, <2>6, <2>7
<1>10. ASSUME NEW q \in Requests, KeepAlive(q) PROVE KillKept(r)
  <2>1. rgot[q] # rval[r] /\ q # r
    BY <1>10 DEF KeepAlive
  <2>2. expired'[rval[r]]
    BY <1>0, <1>10, <2>1 DEF TypeOK, KeepAlive, SetExpired
  <2>3. /\ rpc' = [rpc EXCEPT ![q] = "ok"] \/ rpc' = [rpc EXCEPT ![q] = "failed"]
        /\ rgot' = [rgot EXCEPT ![q] = NoInstance]
        /\ UNCHANGED <<mode, rval>>
    BY <1>10 DEF KeepAlive, Answer, Found
  <2> QED BY <2>1, <2>2, <2>3 DEF TypeOK
<1>11. ASSUME NEW q \in Requests, Handle(q), ~KeepAlive(q) PROVE KillKept(r)
  <2>1. q # r
    BY <1>11 DEF Handle, KillPaused, DeleteGet, DeleteExpire, DeleteStore,
       DeleteMark, WaitPause, ResumeLookup, ResumeWait, ResumeSnapshot, Place, Add
  <2>2. CASE DeleteExpire(q)
    BY <1>0, <2>1, <2>2 DEF TypeOK, DeleteExpire, SetExpired, Goto
  <2>3. CASE KillPaused(q)
    BY <2>1, <2>3 DEF TypeOK, KillPaused, Answer, Found
  <2>4. CASE DeleteGet(q)
    BY <2>1, <2>4 DEF TypeOK, DeleteGet, Goto, Answer, Found
  <2>5. CASE DeleteStore(q)
    BY <2>1, <2>5 DEF TypeOK, DeleteStore, Goto, Answer, Found
  <2>6. CASE DeleteMark(q)
    BY <2>1, <2>6 DEF TypeOK, DeleteMark, Goto
  <2>7. CASE WaitPause(q)
    BY <2>1, <2>7 DEF TypeOK, WaitPause, Answer, Found
  <2>8. CASE ResumeLookup(q)
    BY <2>1, <2>8 DEF TypeOK, ResumeLookup, Goto, Found
  <2>9. CASE ResumeWait(q)
    BY <2>1, <2>9 DEF TypeOK, ResumeWait, Answer, Found
  <2>10. CASE ResumeSnapshot(q)
    BY <2>1, <2>10 DEF TypeOK, ResumeSnapshot, Goto, Answer, Found
  <2>11. CASE Place(q)
    BY <2>1, <2>11 DEF TypeOK, Place, Goto, Answer, Found
  <2>12. ASSUME NEW i \in Instances, NEW ap \in BOOLEAN, Add(q, i, ap)
         PROVE  KillKept(r)
    BY <2>1, <2>12 DEF TypeOK, Add, Answer, Found
  <2> QED
    BY <1>11, <2>2, <2>3, <2>4, <2>5, <2>6, <2>7, <2>8, <2>9, <2>10, <2>11,
       <2>12 DEF Handle
<1> HIDE DEF Killed, Doomed, KillKept
<1> QED
  BY <1>1, <1>2, <1>3, <1>4, <1>5, <1>6, <1>7, <1>8, <1>9, <1>10, <1>11
  DEF Next, Environment

\* A kill is final unless a refresh was under way when it was answered.
THEOREM KillsAreFinal == Spec => KillIsFinal
<1>1. ASSUME TypeOK, [Next]_vars, NEW r \in Requests, Killed(r), Doomed(rval[r])
      PROVE  KillKept(r)
  <2>1. CASE UNCHANGED vars
    BY <1>1, <2>1 DEF vars, Killed, Doomed, KillKept
  <2> QED BY <1>1, <2>1, KillStep
<1>2. IInv /\ [Next]_vars =>
        [\A r \in Requests : Killed(r) /\ Doomed(rval[r])
           => Killed(r)' /\ rval'[r] = rval[r] /\ Doomed(rval[r])']_vars
  BY <1>1 DEF IInv, Killed, Doomed, KillKept
<1> QED BY <1>2, Inductive, PTL DEF Spec, KillIsFinal

-----------------------------------------------------------------------------
(* Pausing.                                                                *)

\* How far the delete hook of an instance has come with its snapshot.
PauseInv == \A i \in Instances :
  /\ deleteHook[i] \in {"off", "node", "branch", "mark", "newBuild", "deleteRpc"} =>
       build[i] = "none" /\ outcome[i] = "pending"
  /\ deleteHook[i] \in {"pauseRpc", "status"} => build[i] \in {"building", "deleted"}
  /\ deleteHook[i] \in {"unmarkOk", "pauseOk"} => build[i] \in {"success", "deleted"}
  /\ deleteHook[i] \in {"status", "unmarkOk", "pauseOk"} => image[i] # NoVm
  /\ outcome[i] = "ok" => /\ image[i] # NoVm /\ build[i] \in {"success", "deleted"}
                          /\ deleteHook[i] \in {"return", "done"}

\* No hook has begun to pause.
LEMMA PauseInit == Init => PauseInv
  BY DEF Init, PauseInv

\* Every step keeps what a hook knows of its pause.
LEMMA PauseStep ==
  ASSUME TypeOK, Consistent, PauseInv, Next
  PROVE  PauseInv'
<1>1. ASSUME EvictorWake PROVE PauseInv'
  BY <1>1 DEF TypeOK, Consistent, PauseInv, EvictorWake
<1>2. ASSUME EvictorRemove PROVE PauseInv'
  BY <1>2 DEF TypeOK, Consistent, PauseInv, EvictorRemove
<1>3. ASSUME NEW i \in Instances, EvictorCheck(i) PROVE PauseInv'
  BY <1>3 DEF TypeOK, Consistent, PauseInv, EvictorCheck
<1>4. ASSUME NEW i \in Instances, InsertHookNode(i) PROVE PauseInv'
  BY <1>4 DEF TypeOK, Consistent, PauseInv, InsertHookNode
<1>5. ASSUME NEW i \in Instances, InsertHookMark(i) PROVE PauseInv'
  BY <1>5 DEF TypeOK, Consistent, PauseInv, InsertHookMark, MarkAsPausing
<1>6. ASSUME NEW i \in Instances, DeleteHookNode(i) PROVE PauseInv'
  BY <1>6 DEF TypeOK, Consistent, PauseInv, DeleteHookNode, HookGoto
<1>7. ASSUME NEW i \in Instances, DeleteHookBranch(i) PROVE PauseInv'
  BY <1>7 DEF TypeOK, Consistent, PauseInv, DeleteHookBranch, HookGoto
<1>8. ASSUME NEW i \in Instances, DeleteHookMark(i) PROVE PauseInv'
  BY <1>8 DEF TypeOK, Consistent, PauseInv, DeleteHookMark, HookGoto,
       MarkAsPausing
<1>9. ASSUME NEW i \in Instances, NewSnapshotBuild(i) PROVE PauseInv'
  BY <1>9 DEF TypeOK, Consistent, PauseInv, NewSnapshotBuild, HookGoto
<1>10. ASSUME NEW i \in Instances, PauseRpc(i) PROVE PauseInv'
  BY <1>10 DEF TypeOK, Consistent, PauseInv, PauseRpc, HookGoto
<1>11. ASSUME NEW i \in Instances, EnvBuildSetStatus(i) PROVE PauseInv'
  BY <1>11 DEF TypeOK, Consistent, PauseInv, EnvBuildSetStatus, HookGoto
<1>12. ASSUME NEW i \in Instances, DeleteHookUnmark(i) PROVE PauseInv'
  BY <1>12 DEF TypeOK, Consistent, PauseInv, DeleteHookUnmark, HookGoto,
       UnmarkAsPausing
<1>13. ASSUME NEW i \in Instances, PauseDone(i) PROVE PauseInv'
  BY <1>13 DEF TypeOK, Consistent, PauseInv, PauseDone, HookGoto
<1>14. ASSUME NEW i \in Instances, DeleteRpc(i) PROVE PauseInv'
  BY <1>14 DEF TypeOK, Consistent, PauseInv, DeleteRpc, HookGoto
<1>15. ASSUME NEW i \in Instances, DeleteHookReturn(i) PROVE PauseInv'
  BY <1>15 DEF TypeOK, Consistent, PauseInv, DeleteHookReturn, HookGoto,
       UnmarkAsPausing
<1>16. ASSUME NEW r \in Requests, NEW s \in Sandboxes, Create(r, s)
      PROVE  PauseInv'
  BY <1>16 DEF TypeOK, Consistent, PauseInv, Create, Request, Goto
<1>17. ASSUME NEW r \in Requests, NEW s \in Sandboxes, Resume(r, s)
      PROVE  PauseInv'
  BY <1>17 DEF TypeOK, Consistent, PauseInv, Resume, Request, Goto, Found,
       Answer, Available
<1>18. ASSUME NEW r \in Requests, NEW s \in Sandboxes, Refresh(r, s)
      PROVE  PauseInv'
  BY <1>18 DEF TypeOK, Consistent, PauseInv, Refresh, Request, Goto, Found,
       Answer, Available
<1>19. ASSUME NEW r \in Requests, NEW s \in Sandboxes, Pause(r, s)
      PROVE  PauseInv'
  BY <1>19 DEF TypeOK, Consistent, PauseInv, Pause, Request, Goto, Found,
       Answer, Available
<1>20. ASSUME NEW r \in Requests, NEW s \in Sandboxes, Kill(r, s)
      PROVE  PauseInv'
  BY <1>20 DEF TypeOK, Consistent, PauseInv, Kill, Request, Goto, Found,
       Answer, Available
<1>21. ASSUME NEW r \in Requests, KillPaused(r) PROVE PauseInv'
  BY <1>21 DEF TypeOK, Consistent, PauseInv, KillPaused, Answer, Found
<1>22. ASSUME NEW r \in Requests, DeleteGet(r) PROVE PauseInv'
  BY <1>22 DEF TypeOK, Consistent, PauseInv, DeleteGet, Goto, Found, Answer,
       Available
<1>23. ASSUME NEW r \in Requests, DeleteExpire(r) PROVE PauseInv'
  BY <1>23 DEF TypeOK, Consistent, PauseInv, DeleteExpire, Goto, SetExpired
<1>24. ASSUME NEW r \in Requests, DeleteStore(r) PROVE PauseInv'
  BY <1>24 DEF TypeOK, Consistent, PauseInv, DeleteStore, Goto, Answer, Found
<1>25. ASSUME NEW r \in Requests, DeleteMark(r) PROVE PauseInv'
  BY <1>25 DEF TypeOK, Consistent, PauseInv, DeleteMark, Goto, MarkAsPausing
<1>26. ASSUME NEW r \in Requests, WaitPause(r) PROVE PauseInv'
  BY <1>26 DEF TypeOK, Consistent, PauseInv, WaitPause, Answer, Found
<1>27. ASSUME NEW r \in Requests, WaitCancelled(r) PROVE PauseInv'
  BY <1>27 DEF TypeOK, Consistent, PauseInv, WaitCancelled, Answer, Found
<1>28. ASSUME NEW r \in Requests, KeepAlive(r) PROVE PauseInv'
  BY <1>28 DEF TypeOK, Consistent, PauseInv, KeepAlive, Answer, Found,
       SetExpired, Available
<1>29. ASSUME NEW r \in Requests, ResumeLookup(r) PROVE PauseInv'
  BY <1>29 DEF TypeOK, Consistent, PauseInv, ResumeLookup, Goto, Found
<1>30. ASSUME NEW r \in Requests, ResumeWait(r) PROVE PauseInv'
  BY <1>30 DEF TypeOK, Consistent, PauseInv, ResumeWait, Answer, Found
<1>31. ASSUME NEW r \in Requests, ResumeSnapshot(r) PROVE PauseInv'
  BY <1>31 DEF TypeOK, Consistent, PauseInv, ResumeSnapshot, Goto, Answer,
       Found
<1>32. ASSUME NEW r \in Requests, Place(r) PROVE PauseInv'
  BY <1>32 DEF TypeOK, Consistent, PauseInv, Place, Goto, Answer, Found
<1>33. ASSUME NEW r \in Requests, NEW i \in Instances, NEW ap \in BOOLEAN, Add(r, i, ap)
      PROVE  PauseInv'
  BY <1>33 DEF TypeOK, Consistent, PauseInv, Add, NewInstance, SetIfAbsent,
       Answer, Found
<1>34. ASSUME SyncList PROVE PauseInv'
  BY <1>34 DEF TypeOK, Consistent, PauseInv, SyncList, SyncIdle
<1>35. ASSUME SyncItems PROVE PauseInv'
  BY <1>35 DEF TypeOK, Consistent, PauseInv, SyncItems, Available
<1>36. ASSUME NEW s \in Sandboxes, SyncRemove(s) PROVE PauseInv'
  BY <1>36 DEF TypeOK, Consistent, PauseInv, SyncRemove, Available, SetExpired
<1>37. ASSUME NEW s \in Sandboxes, SyncExists(s) PROVE PauseInv'
  BY <1>37 DEF TypeOK, Consistent, PauseInv, SyncExists, Available
<1>38. ASSUME NEW i \in Instances, NEW ap \in BOOLEAN, SyncAdd(i, ap)
      PROVE  PauseInv'
  BY <1>38 DEF TypeOK, Consistent, PauseInv, SyncAdd, NewInstance, SetIfAbsent
<1>39. ASSUME NodeLost PROVE PauseInv'
  BY <1>39 DEF TypeOK, Consistent, PauseInv, NodeLost, SyncIdle
<1>40. ASSUME ConnectToNode PROVE PauseInv'
  BY <1>40 DEF TypeOK, Consistent, PauseInv, ConnectToNode, SyncIdle
<1>41. ASSUME NEW i \in Instances, Expire(i) PROVE PauseInv'
  BY <1>41 DEF TypeOK, Consistent, PauseInv, Expire, SetExpired
<1>42. ASSUME NEW s \in Sandboxes, VmDies(s) PROVE PauseInv'
  BY <1>42 DEF TypeOK, Consistent, PauseInv, VmDies
<1> QED
  BY <1>1, <1>2, <1>3, <1>4, <1>5, <1>6, <1>7, <1>8, <1>9, <1>10, <1>11,
     <1>12, <1>13, <1>14, <1>15, <1>16, <1>17, <1>18, <1>19, <1>20, <1>21,
     <1>22, <1>23, <1>24, <1>25, <1>26, <1>27, <1>28, <1>29, <1>30, <1>31,
     <1>32, <1>33, <1>34, <1>35, <1>36, <1>37, <1>38, <1>39, <1>40, <1>41,
     <1>42
  DEF Next, Evictor, Sync, Environment, InsertHook, DeleteHook, Arrive, Handle

\* What a hook knows of its pause stays true.
LEMMA PauseInductive == Spec => []PauseInv
<1>1. IInv /\ PauseInv /\ UNCHANGED vars => PauseInv'
  BY DEF PauseInv, vars
<1>2. IInv /\ PauseInv /\ [Next]_vars => PauseInv'
  BY <1>1, PauseStep DEF IInv
<1> QED BY <1>2, PauseInit, Inductive, PTL DEF Spec

\* A pause reported as done left a successful build of a captured VM.
THEOREM PauseTruthful == Spec => []PauseBacked
<1>1. PauseInv => PauseBacked
  BY DEF PauseInv, PauseBacked
<1> QED BY <1>1, PauseInductive, PTL

\* A step leaves the pause of a delete hook only by PauseDone: every other step
\* of the hook stays in it, and nobody else moves the hook but the evictor,
\* which starts the hook of an instance that has none.
LEMMA PauseLeft ==
  ASSUME TypeOK, Consistent, Next, NEW i \in Instances,
         deleteHook[i] \in Pausing, deleteHook'[i] \notin Pausing
  PROVE  outcome'[i] # "pending"
<1> USE DEF Pausing
<1>1. deleteHook' # deleteHook
  OBVIOUS
<1>2. ASSUME Evictor PROVE FALSE
  <2>1. EvictorRemove
    BY <1>1, <1>2 DEF Evictor, EvictorWake, EvictorCheck
  <2>2. running[owner[evCur]] = evCur /\ deleteHook[evCur] = "off" /\ evCur \in Instances
    BY <2>1 DEF TypeOK, Consistent, EvictorRemove
  <2>3. deleteHook' = [deleteHook EXCEPT ![evCur] = "node"]
    BY <2>1, <2>2 DEF EvictorRemove
  <2> QED BY <2>2, <2>3 DEF TypeOK
<1>3. ASSUME NEW j \in Instances, DeleteHook(j) PROVE outcome'[i] # "pending"
  <2>1. CASE PauseDone(j)
    BY <2>1 DEF TypeOK, PauseDone, HookGoto
  <2>2. CASE NewSnapshotBuild(j)
    BY <2>2 DEF TypeOK, NewSnapshotBuild, HookGoto
  <2>3. CASE PauseRpc(j)
    <3>1. HookGoto(j, "status") \/ HookGoto(j, "fail")
      BY <2>3 DEF PauseRpc
    <3> QED BY <3>1 DEF TypeOK, HookGoto
  <2>4. CASE EnvBuildSetStatus(j)
    BY <2>4 DEF TypeOK, EnvBuildSetStatus, HookGoto
  <2>5. CASE DeleteHookMark(j) \/ DeleteHookUnmark(j)
    BY <2>5 DEF TypeOK, DeleteHookMark, DeleteHookUnmark, HookGoto
  <2>6. CASE DeleteHookNode(j) \/ DeleteHookBranch(j) \/ DeleteRpc(j) \/ DeleteHookReturn(j)
    <3>1. deleteHook[j] \notin Pausing
      BY <2>6 DEF DeleteHookNode, DeleteHookBranch, DeleteRpc, DeleteHookReturn
    <3>2. \E l \in DeletePC : deleteHook' = [deleteHook EXCEPT ![j] = l]
      BY <2>6 DEF DeleteHookNode, DeleteHookBranch, DeleteRpc, DeleteHookReturn, HookGoto
    <3> QED BY <3>1, <3>2 DEF TypeOK
  <2> QED BY <1>3, <2>1, <2>2, <2>3, <2>4, <2>5, <2>6 DEF DeleteHook
<1>4. ASSUME NEW j \in Instances, InsertHook(j) PROVE FALSE
  BY <1>1, <1>4 DEF InsertHook, InsertHookNode, InsertHookMark
<1>5. ASSUME Sync \/ Environment PROVE FALSE
  BY <1>1, <1>5 DEF Sync, SyncItems, SyncRemove, SyncExists, SyncAdd, Environment,
     SyncList, NodeLost, ConnectToNode, Expire, VmDies, WaitCancelled
<1>6. ASSUME NEW r \in Requests, Arrive(r) \/ Handle(r) PROVE FALSE
  <2>1. CASE Arrive(r)
    BY <1>1, <2>1 DEF Arrive, Create, Resume, Refresh, Pause, Kill
  <2>2. CASE Handle(r)
    BY <1>1, <2>2 DEF Handle, KillPaused, DeleteGet, DeleteExpire, DeleteStore,
       DeleteMark, WaitPause, KeepAlive, ResumeLookup, ResumeWait, ResumeSnapshot,
       Place, Add
  <2> QED BY <1>6, <2>1, <2>2
<1> QED BY <1>2, <1>3, <1>4, <1>5, <1>6 DEF Next

\* No pause is left without an answer, however it fails: not by the node, not
\* by the database, and not when its build could not even be made.
THEOREM PauseNeverSilent == Spec => PauseAnswered
<1>1. ASSUME IInv, [Next]_vars, NEW i \in Instances,
             deleteHook[i] \in Pausing, deleteHook'[i] \notin Pausing
      PROVE  outcome'[i] # "pending"
  <2>1. CASE UNCHANGED vars
    BY <1>1, <2>1 DEF vars
  <2> QED BY <1>1, <2>1, PauseLeft DEF IInv
<1>2. IInv /\ [Next]_vars =>
        [\A i \in Instances : deleteHook[i] \in Pausing /\ deleteHook'[i] \notin Pausing
           => outcome'[i] # "pending"]_vars
  BY <1>1
<1> QED BY <1>2, Inductive, PTL DEF Spec, PauseAnswered

-----------------------------------------------------------------------------
(* Saving a VM once.                                                       *)

\* VMs run under one id each, and a VM that was captured runs no more.
SaveInv ==
  /\ \A s \in Sandboxes : vm[s] \in started \cup {NoVm}
  /\ \A s, t \in Sandboxes : vm[s] = vm[t] /\ vm[s] # NoVm => s = t
  /\ \A i \in Instances : image[i] \in started \cup {NoVm}
  /\ \A i \in Instances, s \in Sandboxes : image[i] = vm[s] => image[i] = NoVm
  /\ SavedOnce

\* No VM has been captured.
LEMMA SaveInit == Init => SaveInv
  BY DEF Init, SaveInv, SavedOnce

\* Every step keeps a captured VM out of the reach of a second snapshot.
LEMMA SaveStep ==
  ASSUME TypeOK, Consistent, SaveInv, Next
  PROVE  SaveInv'
<1>1. ASSUME EvictorWake PROVE SaveInv'
  BY <1>1 DEF TypeOK, Consistent, SaveInv, SavedOnce, EvictorWake
<1>2. ASSUME EvictorRemove PROVE SaveInv'
  BY <1>2 DEF TypeOK, Consistent, SaveInv, SavedOnce, EvictorRemove
<1>3. ASSUME NEW i \in Instances, EvictorCheck(i) PROVE SaveInv'
  BY <1>3 DEF TypeOK, Consistent, SaveInv, SavedOnce, EvictorCheck
<1>4. ASSUME NEW i \in Instances, InsertHookNode(i) PROVE SaveInv'
  BY <1>4 DEF TypeOK, Consistent, SaveInv, SavedOnce, InsertHookNode
<1>5. ASSUME NEW i \in Instances, InsertHookMark(i) PROVE SaveInv'
  BY <1>5 DEF TypeOK, Consistent, SaveInv, SavedOnce, InsertHookMark,
       MarkAsPausing
<1>6. ASSUME NEW i \in Instances, DeleteHookNode(i) PROVE SaveInv'
  BY <1>6 DEF TypeOK, Consistent, SaveInv, SavedOnce, DeleteHookNode, HookGoto
<1>7. ASSUME NEW i \in Instances, DeleteHookBranch(i) PROVE SaveInv'
  BY <1>7 DEF TypeOK, Consistent, SaveInv, SavedOnce, DeleteHookBranch,
       HookGoto
<1>8. ASSUME NEW i \in Instances, DeleteHookMark(i) PROVE SaveInv'
  BY <1>8 DEF TypeOK, Consistent, SaveInv, SavedOnce, DeleteHookMark,
       HookGoto, MarkAsPausing
<1>9. ASSUME NEW i \in Instances, NewSnapshotBuild(i) PROVE SaveInv'
  BY <1>9 DEF TypeOK, Consistent, SaveInv, SavedOnce, NewSnapshotBuild,
       HookGoto
<1>10. ASSUME NEW i \in Instances, PauseRpc(i) PROVE SaveInv'
  <2>1. owner[i] \in Sandboxes
    BY <1>10 DEF TypeOK, Consistent, PauseRpc
  <2>2. CASE vm[owner[i]] # NoVm /\ image' = [image EXCEPT ![i] = vm[owner[i]]]
             /\ vm' = [vm EXCEPT ![owner[i]] = NoVm] /\ started' = started
    BY <2>1, <2>2 DEF TypeOK, SaveInv, SavedOnce
  <2>3. CASE UNCHANGED <<image, vm, started>>
    BY <2>3 DEF SaveInv, SavedOnce
  <2> QED BY <1>10, <2>2, <2>3 DEF PauseRpc
<1>11. ASSUME NEW i \in Instances, EnvBuildSetStatus(i) PROVE SaveInv'
  BY <1>11 DEF TypeOK, Consistent, SaveInv, SavedOnce, EnvBuildSetStatus,
       HookGoto
<1>12. ASSUME NEW i \in Instances, DeleteHookUnmark(i) PROVE SaveInv'
  BY <1>12 DEF TypeOK, Consistent, SaveInv, SavedOnce, DeleteHookUnmark,
       HookGoto, UnmarkAsPausing
<1>13. ASSUME NEW i \in Instances, PauseDone(i) PROVE SaveInv'
  BY <1>13 DEF TypeOK, Consistent, SaveInv, SavedOnce, PauseDone, HookGoto
<1>14. ASSUME NEW i \in Instances, DeleteRpc(i) PROVE SaveInv'
  <2>1. UNCHANGED <<image, started>>
    BY <1>14 DEF DeleteRpc
  <2>2. vm' = vm \/ vm' = [vm EXCEPT ![owner[i]] = NoVm]
    BY <1>14 DEF DeleteRpc
  <2>3. vm \in [Sandboxes -> Vms \cup {NoVm}]
    BY DEF TypeOK
  <2>4. \A s \in Sandboxes : vm'[s] = vm[s] \/ vm'[s] = NoVm
    BY <2>2, <2>3
  <2> QED BY <2>1, <2>4 DEF SaveInv, SavedOnce
<1>15. ASSUME NEW i \in Instances, DeleteHookReturn(i) PROVE SaveInv'
  BY <1>15 DEF TypeOK, Consistent, SaveInv, SavedOnce, DeleteHookReturn,
       HookGoto, UnmarkAsPausing
<1>16. ASSUME NEW r \in Requests, NEW s \in Sandboxes, Create(r, s)
      PROVE  SaveInv'
  BY <1>16 DEF TypeOK, Consistent, SaveInv, SavedOnce, Create, Request, Goto
<1>17. ASSUME NEW r \in Requests, NEW s \in Sandboxes, Resume(r, s)
      PROVE  SaveInv'
  BY <1>17 DEF TypeOK, Consistent, SaveInv, SavedOnce, Resume, Request,
       Goto, Found, Answer, Available
<1>18. ASSUME NEW r \in Requests, NEW s \in Sandboxes, Refresh(r, s)
      PROVE  SaveInv'
  BY <1>18 DEF TypeOK, Consistent, SaveInv, SavedOnce, Refresh, Request,
       Goto, Found, Answer, Available
<1>19. ASSUME NEW r \in Requests, NEW s \in Sandboxes, Pause(r, s)
      PROVE  SaveInv'
  BY <1>19 DEF TypeOK, Consistent, SaveInv, SavedOnce, Pause, Request, Goto,
       Found, Answer, Available
<1>20. ASSUME NEW r \in Requests, NEW s \in Sandboxes, Kill(r, s)
      PROVE  SaveInv'
  BY <1>20 DEF TypeOK, Consistent, SaveInv, SavedOnce, Kill, Request, Goto,
       Found, Answer, Available
<1>21. ASSUME NEW r \in Requests, KillPaused(r) PROVE SaveInv'
  BY <1>21 DEF TypeOK, Consistent, SaveInv, SavedOnce, KillPaused, Answer,
       Found
<1>22. ASSUME NEW r \in Requests, DeleteGet(r) PROVE SaveInv'
  BY <1>22 DEF TypeOK, Consistent, SaveInv, SavedOnce, DeleteGet, Goto,
       Found, Answer, Available
<1>23. ASSUME NEW r \in Requests, DeleteExpire(r) PROVE SaveInv'
  BY <1>23 DEF TypeOK, Consistent, SaveInv, SavedOnce, DeleteExpire, Goto,
       SetExpired
<1>24. ASSUME NEW r \in Requests, DeleteStore(r) PROVE SaveInv'
  BY <1>24 DEF TypeOK, Consistent, SaveInv, SavedOnce, DeleteStore, Goto,
       Answer, Found
<1>25. ASSUME NEW r \in Requests, DeleteMark(r) PROVE SaveInv'
  BY <1>25 DEF TypeOK, Consistent, SaveInv, SavedOnce, DeleteMark, Goto,
       MarkAsPausing
<1>26. ASSUME NEW r \in Requests, WaitPause(r) PROVE SaveInv'
  BY <1>26 DEF TypeOK, Consistent, SaveInv, SavedOnce, WaitPause, Answer, Found
<1>27. ASSUME NEW r \in Requests, WaitCancelled(r) PROVE SaveInv'
  BY <1>27 DEF TypeOK, Consistent, SaveInv, SavedOnce, WaitCancelled,
       Answer, Found
<1>28. ASSUME NEW r \in Requests, KeepAlive(r) PROVE SaveInv'
  BY <1>28 DEF TypeOK, Consistent, SaveInv, SavedOnce, KeepAlive, Answer,
       Found, SetExpired, Available
<1>29. ASSUME NEW r \in Requests, ResumeLookup(r) PROVE SaveInv'
  BY <1>29 DEF TypeOK, Consistent, SaveInv, SavedOnce, ResumeLookup, Goto,
       Found
<1>30. ASSUME NEW r \in Requests, ResumeWait(r) PROVE SaveInv'
  BY <1>30 DEF TypeOK, Consistent, SaveInv, SavedOnce, ResumeWait, Answer,
       Found
<1>31. ASSUME NEW r \in Requests, ResumeSnapshot(r) PROVE SaveInv'
  BY <1>31 DEF TypeOK, Consistent, SaveInv, SavedOnce, ResumeSnapshot, Goto,
       Answer, Found
<1>32. ASSUME NEW r \in Requests, Place(r) PROVE SaveInv'
  <2>1. image' = image
    BY <1>32 DEF Place
  <2>2. CASE UNCHANGED <<vm, started>>
    BY <2>1, <2>2 DEF SaveInv, SavedOnce
  <2>3. ASSUME NEW v \in Vms \ started, started' = started \cup {v},
               vm' = [vm EXCEPT ![rsb[r]] = v]
        PROVE  SaveInv'
    <3>1. \A s \in Sandboxes : vm'[s] = IF s = rsb[r] THEN v ELSE vm[s]
      BY <2>3 DEF TypeOK
    <3>2. v # NoVm /\ \A s \in Sandboxes : vm[s] # v
      BY DEF SaveInv
    <3>3. \A i \in Instances : image[i] # v
      BY <3>2 DEF SaveInv
    <3> QED BY <2>1, <2>3, <3>1, <3>2, <3>3 DEF SaveInv, SavedOnce
  <2> QED BY <1>32, <2>2, <2>3 DEF Place
<1>33. ASSUME NEW r \in Requests, NEW i \in Instances, NEW ap \in BOOLEAN, Add(r, i, ap)
      PROVE  SaveInv'
  BY <1>33 DEF TypeOK, Consistent, SaveInv, SavedOnce, Add, NewInstance,
       SetIfAbsent, Answer, Found
<1>34. ASSUME SyncList PROVE SaveInv'
  BY <1>34 DEF TypeOK, Consistent, SaveInv, SavedOnce, SyncList, SyncIdle
<1>35. ASSUME SyncItems PROVE SaveInv'
  BY <1>35 DEF TypeOK, Consistent, SaveInv, SavedOnce, SyncItems, Available
<1>36. ASSUME NEW s \in Sandboxes, SyncRemove(s) PROVE SaveInv'
  BY <1>36 DEF TypeOK, Consistent, SaveInv, SavedOnce, SyncRemove,
       Available, SetExpired
<1>37. ASSUME NEW s \in Sandboxes, SyncExists(s) PROVE SaveInv'
  BY <1>37 DEF TypeOK, Consistent, SaveInv, SavedOnce, SyncExists, Available
<1>38. ASSUME NEW i \in Instances, NEW ap \in BOOLEAN, SyncAdd(i, ap)
      PROVE  SaveInv'
  BY <1>38 DEF TypeOK, Consistent, SaveInv, SavedOnce, SyncAdd, NewInstance,
       SetIfAbsent
<1>39. ASSUME NodeLost PROVE SaveInv'
  BY <1>39 DEF TypeOK, Consistent, SaveInv, SavedOnce, NodeLost, SyncIdle
<1>40. ASSUME ConnectToNode PROVE SaveInv'
  BY <1>40 DEF TypeOK, Consistent, SaveInv, SavedOnce, ConnectToNode, SyncIdle
<1>41. ASSUME NEW i \in Instances, Expire(i) PROVE SaveInv'
  BY <1>41 DEF TypeOK, Consistent, SaveInv, SavedOnce, Expire, SetExpired
<1>42. ASSUME NEW s \in Sandboxes, VmDies(s) PROVE SaveInv'
  BY <1>42 DEF TypeOK, Consistent, SaveInv, SavedOnce, VmDies
<1> QED
  BY <1>1, <1>2, <1>3, <1>4, <1>5, <1>6, <1>7, <1>8, <1>9, <1>10, <1>11,
     <1>12, <1>13, <1>14, <1>15, <1>16, <1>17, <1>18, <1>19, <1>20, <1>21,
     <1>22, <1>23, <1>24, <1>25, <1>26, <1>27, <1>28, <1>29, <1>30, <1>31,
     <1>32, <1>33, <1>34, <1>35, <1>36, <1>37, <1>38, <1>39, <1>40, <1>41,
     <1>42
  DEF Next, Evictor, Sync, Environment, InsertHook, DeleteHook, Arrive, Handle

\* No VM is captured by two snapshots.
THEOREM SavedOnlyOnce == Spec => []SavedOnce
<1>1. IInv /\ SaveInv /\ UNCHANGED vars => SaveInv'
  BY DEF SaveInv, SavedOnce, vars
<1>2. IInv /\ SaveInv /\ [Next]_vars => SaveInv'
  BY <1>1, SaveStep DEF IInv
<1>3. SaveInv => SavedOnce
  BY DEF SaveInv
<1> QED BY <1>2, <1>3, SaveInit, Inductive, PTL DEF Spec

-----------------------------------------------------------------------------
(* The counters.                                                           *)

\* The instances the sandbox counter counts, those whose insert hook has taken
\* the node's usage, and those whose delete hook has given it back.
Counted  == {i \in Instances : owner[i] # NoSandbox /\ deleteHook[i] # "done"}
InUse    == {i \in Instances : insertHook[i] \in {"mark", "done"}}
Released == {i \in Instances : deleteHook[i] \notin {"off", "node"}}

\* No instance has been made and none is about to be.
NothingYet ==
  /\ \A i \in Instances : owner[i] = NoSandbox
  /\ \A r \in Requests : rpc[r] # "add"
  /\ sCur = NoSandbox /\ \A s \in Sandboxes : sList[s] = NoVm

\* What has an insert hook is cached or has a delete hook.
HooksPaired ==
  /\ \A s \in Sandboxes : running[s] # NoInstance => insertHook[running[s]] # "off"
  /\ \A i \in Instances : insertHook[i] # "off" => running[owner[i]] = i \/ deleteHook[i] # "off"
  /\ \A i \in Instances : deleteHook[i] # "off" => insertHook[i] # "off"

\* While hooks run, the counters are what the hooks have done so far; that the
\* first connection sets the usage to zero harms nothing, as there is nothing
\* to use the node before it.
CountInv ==
  /\ HooksPaired
  /\ ~known /\ losses = 0 => NothingYet
  /\ count = Cardinality(Counted)
  /\ losses = 0 => usage = Cardinality(InUse) - Cardinality(Released)

\* Sets of instances can be counted.
LEMMA FiniteParts ==
  ASSUME NEW S \in SUBSET Instances
  PROVE  /\ IsFiniteSet(S) /\ Cardinality(S) \in Nat
         /\ \A i \in Instances : /\ i \notin S => Cardinality(S \cup {i}) = Cardinality(S) + 1
                                 /\ i \in S => Cardinality(S \ {i}) = Cardinality(S) - 1
<1>1. IsFiniteSet(S)
  BY InstancesAssumption, FS_Subset
<1>2. Cardinality(S) \in Nat
  BY <1>1, FS_CardinalityType
<1>3. ASSUME NEW i \in Instances, i \notin S PROVE Cardinality(S \cup {i}) = Cardinality(S) + 1
  BY <1>1, <1>3, FS_AddElement
<1>4. ASSUME NEW i \in Instances, i \in S PROVE Cardinality(S \ {i}) = Cardinality(S) - 1
  BY <1>1, <1>4, FS_RemoveElement
<1> QED BY <1>1, <1>2, <1>3, <1>4

LEMMA CountedParts ==
  /\ Counted \in SUBSET Instances /\ InUse \in SUBSET Instances /\ Released \in SUBSET Instances
  BY DEF Counted, InUse, Released

LEMMA CountInit == Init => CountInv
<1> SUFFICES ASSUME Init PROVE CountInv
  OBVIOUS
<1>1. HooksPaired /\ NothingYet
  BY DEF Init, HooksPaired, NothingYet
<1>2. Counted = {} /\ InUse = {} /\ Released = {}
  BY DEF Init, Counted, InUse, Released
<1>3. Cardinality({}) = 0
  BY FS_EmptySet
<1> QED BY <1>1, <1>2, <1>3 DEF CountInv, Init

\* A step that touches no counter and no hook; it brings an instance no nearer
\* unless the node is known.
Unbooked ==
  /\ UNCHANGED <<running, owner, insertHook, deleteHook, count, usage, known, losses>>
  /\ \A r \in Requests : rpc'[r] = "add" => rpc[r] = "add" \/ known
  /\ \A s \in Sandboxes : sList'[s] # NoVm => sList[s] # NoVm \/ known
  /\ sCur' # NoSandbox => sCur # NoSandbox \/ \E s \in Sandboxes : sList[s] # NoVm

Booked ==
  \/ \E r \in Requests, i \in Instances, ap \in BOOLEAN : Add(r, i, ap)
  \/ \E i \in Instances, ap \in BOOLEAN : SyncAdd(i, ap)
  \/ EvictorRemove \/ NodeLost \/ ConnectToNode
  \/ \E i \in Instances : InsertHook(i) \/ DeleteHook(i)

\* A request that goes to another step than "add" is no news to the counters.
LEMMA RequestUnbooked ==
  ASSUME TypeOK, NEW r \in Requests, NEW l \in RequestPC, rpc' = [rpc EXCEPT ![r] = l],
         l = "add" => known,
         UNCHANGED <<running, owner, insertHook, deleteHook, count, usage, known, losses, sList, sCur>>
  PROVE  Unbooked
<1>1. \A q \in Requests : rpc'[q] = "add" => rpc[q] = "add" \/ known
  BY DEF TypeOK
<1> QED BY <1>1 DEF Unbooked

LEMMA Booking ==
  ASSUME TypeOK, Next
  PROVE  Unbooked \/ Booked
<1>1. ASSUME NEW r \in Requests, NEW s \in Sandboxes, Create(r, s) PROVE Unbooked
  <2>1. \E l \in RequestPC \ {"add"} : rpc' = [rpc EXCEPT ![r] = l]
    BY <1>1 DEF Create, Request, Goto
  <2>2. UNCHANGED <<running, owner, insertHook, deleteHook, count, usage, known, losses, sList, sCur>>
    BY <1>1 DEF Create
  <2> QED BY <2>1, <2>2, RequestUnbooked
<1>2. ASSUME NEW r \in Requests, NEW s \in Sandboxes, Resume(r, s) PROVE Unbooked
  <2>1. \E l \in RequestPC \ {"add"} : rpc' = [rpc EXCEPT ![r] = l]
    BY <1>2 DEF Resume, Request, Goto, Answer, Found
  <2>2. UNCHANGED <<running, owner, insertHook, deleteHook, count, usage, known, losses, sList, sCur>>
    BY <1>2 DEF Resume
  <2> QED BY <2>1, <2>2, RequestUnbooked
<1>3. ASSUME NEW r \in Requests, NEW s \in Sandboxes, Refresh(r, s) PROVE Unbooked
  <2>1. \E l \in RequestPC \ {"add"} : rpc' = [rpc EXCEPT ![r] = l]
    BY <1>3 DEF Refresh, Request, Answer, Found
  <2>2. UNCHANGED <<running, owner, insertHook, deleteHook, count, usage, known, losses, sList, sCur>>
    BY <1>3 DEF Refresh
  <2> QED BY <2>1, <2>2, RequestUnbooked
<1>4. ASSUME NEW r \in Requests, NEW s \in Sandboxes, Pause(r, s) PROVE Unbooked
  <2>1. \E l \in RequestPC \ {"add"} : rpc' = [rpc EXCEPT ![r] = l]
    BY <1>4 DEF Pause, Request, Answer, Found
  <2>2. UNCHANGED <<running, owner, insertHook, deleteHook, count, usage, known, losses, sList, sCur>>
    BY <1>4 DEF Pause
  <2> QED BY <2>1, <2>2, RequestUnbooked
<1>5. ASSUME NEW r \in Requests, NEW s \in Sandboxes, Kill(r, s) PROVE Unbooked
  <2>1. \E l \in RequestPC \ {"add"} : rpc' = [rpc EXCEPT ![r] = l]
    BY <1>5 DEF Kill, Request, Goto
  <2>2. UNCHANGED <<running, owner, insertHook, deleteHook, count, usage, known, losses, sList, sCur>>
    BY <1>5 DEF Kill
  <2> QED BY <2>1, <2>2, RequestUnbooked
<1>6. ASSUME NEW r \in Requests, KillPaused(r) PROVE Unbooked
  <2>1. \E l \in RequestPC \ {"add"} : rpc' = [rpc EXCEPT ![r] = l]
    BY <1>6 DEF KillPaused, Answer, Found
  <2>2. UNCHANGED <<running, owner, insertHook, deleteHook, count, usage, known, losses, sList, sCur>>
    BY <1>6 DEF KillPaused
  <2> QED BY <2>1, <2>2, RequestUnbooked
<1>7. ASSUME NEW r \in Requests, DeleteGet(r) PROVE Unbooked
  <2>1. \E l \in RequestPC \ {"add"} : rpc' = [rpc EXCEPT ![r] = l]
    BY <1>7 DEF DeleteGet, Goto, Answer, Found
  <2>2. UNCHANGED <<running, owner, insertHook, deleteHook, count, usage, known, losses, sList, sCur>>
    BY <1>7 DEF DeleteGet
  <2> QED BY <2>1, <2>2, RequestUnbooked
<1>8. ASSUME NEW r \in Requests, DeleteExpire(r) PROVE Unbooked
  <2>1. \E l \in RequestPC \ {"add"} : rpc' = [rpc EXCEPT ![r] = l]
    BY <1>8 DEF DeleteExpire, Goto
  <2>2. UNCHANGED <<running, owner, insertHook, deleteHook, count, usage, known, losses, sList, sCur>>
    BY <1>8 DEF DeleteExpire
  <2> QED BY <2>1, <2>2, RequestUnbooked
<1>9. ASSUME NEW r \in Requests, DeleteStore(r) PROVE Unbooked
  <2>1. \E l \in RequestPC \ {"add"} : rpc' = [rpc EXCEPT ![r] = l]
    BY <1>9 DEF DeleteStore, Goto, Answer, Found
  <2>2. UNCHANGED <<running, owner, insertHook, deleteHook, count, usage, known, losses, sList, sCur>>
    BY <1>9 DEF DeleteStore
  <2> QED BY <2>1, <2>2, RequestUnbooked
<1>10. ASSUME NEW r \in Requests, DeleteMark(r) PROVE Unbooked
  <2>1. \E l \in RequestPC \ {"add"} : rpc' = [rpc EXCEPT ![r] = l]
    BY <1>10 DEF DeleteMark, Goto
  <2>2. UNCHANGED <<running, owner, insertHook, deleteHook, count, usage, known, losses, sList, sCur>>
    BY <1>10 DEF DeleteMark
  <2> QED BY <2>1, <2>2, RequestUnbooked
<1>11. ASSUME NEW r \in Requests, WaitPause(r) PROVE Unbooked
  <2>1. rgot[r] \in Instances
    BY <1>11 DEF TypeOK, WaitPause
  <2>2. outcome[rgot[r]] \in {"ok", "failed"}
    BY <1>11, <2>1 DEF TypeOK, WaitPause
  <2>3. rpc' = [rpc EXCEPT ![r] = outcome[rgot[r]]]
    BY <1>11 DEF WaitPause, Answer, Found
  <2>4. UNCHANGED <<running, owner, insertHook, deleteHook, count, usage, known, losses, sList, sCur>>
    BY <1>11 DEF WaitPause
  <2> QED BY <2>2, <2>3, <2>4, RequestUnbooked
<1>12. ASSUME NEW r \in Requests, KeepAlive(r) PROVE Unbooked
  <2>1. \E l \in RequestPC \ {"add"} : rpc' = [rpc EXCEPT ![r] = l]
    BY <1>12 DEF KeepAlive, Answer, Found
  <2>2. UNCHANGED <<running, owner, insertHook, deleteHook, count, usage, known, losses, sList, sCur>>
    BY <1>12 DEF KeepAlive
  <2> QED BY <2>1, <2>2, RequestUnbooked
<1>13. ASSUME NEW r \in Requests, ResumeLookup(r) PROVE Unbooked
  <2>1. \E l \in RequestPC \ {"add"} : rpc' = [rpc EXCEPT ![r] = l]
    BY <1>13 DEF ResumeLookup, Goto, Found
  <2>2. UNCHANGED <<running, owner, insertHook, deleteHook, count, usage, known, losses, sList, sCur>>
    BY <1>13 DEF ResumeLookup
  <2> QED BY <2>1, <2>2, RequestUnbooked
<1>14. ASSUME NEW r \in Requests, ResumeWait(r) PROVE Unbooked
  <2>1. \E l \in RequestPC \ {"add"} : rpc' = [rpc EXCEPT ![r] = l]
    BY <1>14 DEF ResumeWait, Answer, Found
  <2>2. UNCHANGED <<running, owner, insertHook, deleteHook, count, usage, known, losses, sList, sCur>>
    BY <1>14 DEF ResumeWait
  <2> QED BY <2>1, <2>2, RequestUnbooked
<1>15. ASSUME NEW r \in Requests, ResumeSnapshot(r) PROVE Unbooked
  <2>1. \E l \in RequestPC \ {"add"} : rpc' = [rpc EXCEPT ![r] = l]
    BY <1>15 DEF ResumeSnapshot, Goto, Answer, Found
  <2>2. UNCHANGED <<running, owner, insertHook, deleteHook, count, usage, known, losses, sList, sCur>>
    BY <1>15 DEF ResumeSnapshot
  <2> QED BY <2>1, <2>2, RequestUnbooked
<1>16. ASSUME NEW r \in Requests, WaitCancelled(r) PROVE Unbooked
  <2>1. \E l \in RequestPC \ {"add"} : rpc' = [rpc EXCEPT ![r] = l]
    BY <1>16 DEF WaitCancelled, Answer, Found
  <2>2. UNCHANGED <<running, owner, insertHook, deleteHook, count, usage, known, losses, sList, sCur>>
    BY <1>16 DEF WaitCancelled
  <2> QED BY <2>1, <2>2, RequestUnbooked
<1>17. ASSUME NEW r \in Requests, Place(r) PROVE Unbooked
  <2>1. \E l \in RequestPC : rpc' = [rpc EXCEPT ![r] = l] /\ (l = "add" => known)
    BY <1>17 DEF Place, Goto, Answer, Found
  <2>2. UNCHANGED <<running, owner, insertHook, deleteHook, count, usage, known, losses, sList, sCur>>
    BY <1>17 DEF Place
  <2> QED BY <2>1, <2>2, RequestUnbooked
<1>18. ASSUME EvictorWake PROVE Unbooked
  BY <1>18 DEF Unbooked, EvictorWake
<1>19. ASSUME NEW i \in Instances, EvictorCheck(i) PROVE Unbooked
  BY <1>19 DEF Unbooked, EvictorCheck
<1>20. ASSUME SyncItems PROVE Unbooked
  BY <1>20 DEF Unbooked, SyncItems
<1>21. ASSUME NEW s \in Sandboxes, SyncRemove(s) PROVE Unbooked
  BY <1>21 DEF Unbooked, SyncRemove
<1>22. ASSUME SyncList PROVE Unbooked
  BY <1>22 DEF Unbooked, SyncList
<1>23. ASSUME NEW i \in Instances, Expire(i) PROVE Unbooked
  BY <1>23 DEF Unbooked, Expire
<1>24. ASSUME NEW s \in Sandboxes, VmDies(s) PROVE Unbooked
  BY <1>24 DEF Unbooked, VmDies
<1>25. ASSUME NEW s \in Sandboxes, SyncExists(s) PROVE Unbooked
  <2>1. sList' = sList \/ sList' = [sList EXCEPT ![s] = NoVm]
    BY <1>25 DEF SyncExists
  <2>2. \A t \in Sandboxes : sList'[t] # NoVm => sList[t] # NoVm
    BY <2>1 DEF TypeOK
  <2>3. /\ UNCHANGED <<running, owner, insertHook, deleteHook, count, usage, known, losses, rpc>>
        /\ sList[s] # NoVm
    BY <1>25 DEF SyncExists
  <2> QED BY <2>2, <2>3 DEF Unbooked
<1> QED
  BY <1>1, <1>2, <1>3, <1>4, <1>5, <1>6, <1>7, <1>8, <1>9, <1>10, <1>11,
     <1>12, <1>13, <1>14, <1>15, <1>16, <1>17, <1>18, <1>19, <1>20, <1>21,
     <1>22, <1>23, <1>24, <1>25
  DEF Next, Evictor, Sync, Environment, Arrive, Handle, Booked

\* The books as they are until the step.
LEMMA Books ==
  ASSUME TypeOK, Consistent, CountInv
  PROVE  /\ \A i \in Instances : insertHook[i] # "off" \/ deleteHook[i] # "off" => owner[i] # NoSandbox
         /\ losses = 0 /\ (\E i \in Instances : owner[i] # NoSandbox) => known
  BY DEF Consistent, CountInv, NothingYet

\* A new instance is counted; whether SetIfAbsent takes it decides about its
\* insert hook only.
LEMMA EnterCounts ==
  ASSUME TypeOK, Consistent, CountInv, NEW i \in Instances, NEW s \in Sandboxes,
         owner[i] = NoSandbox, owner' = [owner EXCEPT ![i] = s], SetIfAbsent(i, s),
         count' = count + 1, UNCHANGED <<deleteHook, usage, known, losses>>,
         ~ NothingYet
  PROVE  CountInv'
<1>1. insertHook[i] = "off" /\ deleteHook[i] = "off"
  BY DEF Consistent
<1>2. \A j \in Instances : owner'[j] = IF j = i THEN s ELSE owner[j]
  BY DEF TypeOK
<1>3. \A t \in Sandboxes : running[t] # i
  BY DEF Consistent
<1>4. \/ /\ running[s] = NoInstance
         /\ \A t \in Sandboxes : running'[t] = IF t = s THEN i ELSE running[t]
         /\ \A j \in Instances : insertHook'[j] = IF j = i THEN "node" ELSE insertHook[j]
      \/ running[s] # NoInstance /\ UNCHANGED <<running, insertHook>>
  BY DEF SetIfAbsent, TypeOK
<1>5. HooksPaired'
  <2>1. \A t \in Sandboxes : running[t] # NoInstance => running[t] \in Instances
    BY DEF TypeOK
  <2>2. (\A t \in Sandboxes : running[t] # NoInstance => insertHook[running[t]] # "off")'
    BY <1>4, <2>1 DEF CountInv, HooksPaired
  <2>3. ASSUME NEW j \in Instances, insertHook'[j] # "off"
        PROVE  running'[owner'[j]] = j \/ deleteHook'[j] # "off"
    <3>1. CASE j = i
      BY <1>1, <1>2, <1>4, <2>3, <3>1
    <3>2. CASE j # i
      <4>1. insertHook[j] # "off" /\ owner'[j] = owner[j]
        BY <1>2, <1>4, <2>3, <3>2
      <4>2. owner[j] \in Sandboxes
        BY <4>1 DEF Consistent, TypeOK
      <4>3. running[owner[j]] = j \/ deleteHook[j] # "off"
        BY <4>1 DEF CountInv, HooksPaired
      <4> QED BY <1>4, <4>1, <4>2, <4>3
    <3> QED BY <3>1, <3>2
  <2>4. (\A j \in Instances : deleteHook[j] # "off" => insertHook[j] # "off")'
    BY <1>4 DEF CountInv, HooksPaired
  <2> QED BY <2>2, <2>3, <2>4 DEF HooksPaired
<1>6. known \/ losses # 0
  BY DEF CountInv
<1>7. Counted' = Counted \cup {i} /\ i \notin Counted
  BY <1>1, <1>2 DEF Counted
<1>8. InUse' = InUse /\ Released' = Released
  BY <1>1, <1>4 DEF InUse, Released
<1>9. count' = Cardinality(Counted')
  BY <1>7, FiniteParts, CountedParts DEF CountInv
<1>10. losses' = 0 => usage' = Cardinality(InUse') - Cardinality(Released')
  BY <1>8 DEF CountInv
<1> QED BY <1>5, <1>6, <1>9, <1>10 DEF CountInv

\* The evictor hands the instance over to its delete hook.
LEMMA EvictCounts ==
  ASSUME TypeOK, Consistent, CountInv, EvictorRemove
  PROVE  CountInv'
<1> DEFINE s == owner[evCur]
<1>1. /\ evCur \in Instances /\ s \in Sandboxes /\ running[s] = evCur /\ deleteHook[evCur] = "off"
  BY DEF TypeOK, Consistent, EvictorRemove
<1>2. /\ running' = [running EXCEPT ![s] = NoInstance]
      /\ deleteHook' = [deleteHook EXCEPT ![evCur] = "node"]
      /\ UNCHANGED <<owner, insertHook, count, usage, known, losses, rpc, sList, sCur>>
  BY <1>1 DEF EvictorRemove
<1> HIDE DEF s
<1>3. /\ \A t \in Sandboxes : running'[t] = IF t = s THEN NoInstance ELSE running[t]
      /\ \A i \in Instances : deleteHook'[i] = IF i = evCur THEN "node" ELSE deleteHook[i]
  BY <1>2 DEF TypeOK
<1>4. insertHook[evCur] # "off"
  BY <1>1 DEF CountInv, HooksPaired
<1>5. HooksPaired'
  <2>1. (\A t \in Sandboxes : running[t] # NoInstance => insertHook[running[t]] # "off")'
    BY <1>2, <1>3 DEF CountInv, HooksPaired
  <2>2. ASSUME NEW i \in Instances, insertHook'[i] # "off"
        PROVE  running'[owner'[i]] = i \/ deleteHook'[i] # "off"
    <3>1. i # evCur => running[owner[i]] = i \/ deleteHook[i] # "off"
      BY <1>2, <2>2 DEF CountInv, HooksPaired
    <3>2. owner[i] \in Sandboxes
      BY <1>2, <2>2 DEF Consistent, TypeOK
    <3> QED BY <1>1, <1>2, <1>3, <3>1, <3>2
  <2>3. (\A i \in Instances : deleteHook[i] # "off" => insertHook[i] # "off")'
    BY <1>2, <1>3, <1>4 DEF CountInv, HooksPaired
  <2> QED BY <2>1, <2>2, <2>3 DEF HooksPaired
<1>6. Counted' = Counted /\ InUse' = InUse /\ Released' = Released
  BY <1>1, <1>2, <1>3 DEF Counted, InUse, Released
<1>7. NothingYet => NothingYet'
  BY <1>2 DEF NothingYet
<1> QED BY <1>2, <1>5, <1>6, <1>7 DEF CountInv

\* The insert hook takes the usage, once.
LEMMA InsertCounts ==
  ASSUME TypeOK, Consistent, CountInv, NEW i \in Instances, InsertHook(i)
  PROVE  CountInv'
<1>1. /\ insertHook[i] \in {"node", "mark"} /\ owner[i] # NoSandbox
      /\ UNCHANGED <<running, owner, deleteHook, count, known, losses>>
  BY DEF Consistent, InsertHook, InsertHookNode, InsertHookMark
<1>2. losses = 0 => known
  BY <1>1, Books
<1>3. \E l \in {"mark", "done"} : insertHook' = [insertHook EXCEPT ![i] = l]
  BY DEF InsertHook, InsertHookNode, InsertHookMark
<1>4. \A j \in Instances : j # i => insertHook'[j] = insertHook[j]
  BY <1>3 DEF TypeOK
<1>5. insertHook'[i] \in {"mark", "done"}
  BY <1>3 DEF TypeOK
<1>6. HooksPaired'
  <2>1. \A j \in Instances : insertHook'[j] # "off" <=> insertHook[j] # "off"
    BY <1>1, <1>4, <1>5
  <2>2. \A s \in Sandboxes : running[s] # NoInstance => running[s] \in Instances
    BY DEF TypeOK
  <2> QED BY <1>1, <2>1, <2>2 DEF CountInv, HooksPaired
<1>7. Counted' = Counted /\ Released' = Released
  BY <1>1 DEF Counted, Released
<1>8. losses = 0 => usage' = Cardinality(InUse') - Cardinality(Released)
  <2>1. CASE InsertHookNode(i)
    <3>1. InUse' = InUse \cup {i} /\ i \notin InUse
      BY <1>4, <1>5, <2>1 DEF InUse, InsertHookNode
    <3>2. known => usage' = usage + 1
      BY <2>1 DEF InsertHookNode
    <3>3. Cardinality(InUse') = Cardinality(InUse) + 1 /\ Cardinality(InUse) \in Nat
          /\ Cardinality(Released) \in Nat
      BY <3>1, FiniteParts, CountedParts
    <3> QED BY <1>2, <3>2, <3>3 DEF CountInv
  <2>2. CASE InsertHookMark(i)
    <3>1. InUse' = InUse /\ usage' = usage
      BY <1>4, <1>5, <2>2 DEF InUse, InsertHookMark
    <3> QED BY <3>1 DEF CountInv
  <2> QED BY <2>1, <2>2 DEF InsertHook
<1> QED BY <1>1, <1>2, <1>6, <1>7, <1>8 DEF CountInv

\* The delete hook gives the usage back once, and is uncounted at its end.
LEMMA DeleteCounts ==
  ASSUME TypeOK, Consistent, CountInv, NEW i \in Instances, DeleteHook(i)
  PROVE  CountInv'
<1>1. /\ deleteHook[i] \notin {"off", "done"}
      /\ UNCHANGED <<running, owner, insertHook, known, losses>>
  BY DEF DeleteHook, DeleteHookNode, DeleteHookBranch, DeleteHookMark, NewSnapshotBuild, PauseRpc,
         EnvBuildSetStatus, DeleteHookUnmark, PauseDone, DeleteRpc, DeleteHookReturn
<1>2. owner[i] # NoSandbox /\ (losses = 0 => known)
  BY <1>1, Books
<1>3. deleteHook[i] # "off" /\ deleteHook[i] # "done"
  BY <1>1
<1> DEFINE Middle(l) ==
      /\ deleteHook' = [deleteHook EXCEPT ![i] = l]
      /\ l \in DeletePC \ {"off", "node", "done"}
      /\ deleteHook[i] # "node" /\ UNCHANGED <<count, usage>>
<1>4. \/ DeleteHookNode(i) \/ DeleteHookReturn(i)
      \/ \E l \in DeletePC : Middle(l)
  BY DEF DeleteHook, DeleteHookBranch, DeleteHookMark, NewSnapshotBuild, PauseRpc,
         EnvBuildSetStatus, DeleteHookUnmark, PauseDone, DeleteRpc, HookGoto
<1>5. ASSUME NEW l \in DeletePC \ {"off", "node"}, deleteHook' = [deleteHook EXCEPT ![i] = l]
      PROVE  /\ HooksPaired' /\ InUse' = InUse
             /\ \A j \in Instances : deleteHook'[j] = IF j = i THEN l ELSE deleteHook[j]
             /\ Released' = Released \cup {i}
             /\ Counted' = IF l = "done" THEN Counted \ {i} ELSE Counted
  <2>1. \A j \in Instances : deleteHook'[j] = IF j = i THEN l ELSE deleteHook[j]
    BY <1>5 DEF TypeOK
  <2>2. HooksPaired'
    BY <1>1, <2>1 DEF CountInv, HooksPaired
  <2>3. Counted' = IF l = "done" THEN Counted \ {i} ELSE Counted
    BY <1>1, <1>2, <1>3, <2>1 DEF Counted
  <2>4. Released' = Released \cup {i} /\ InUse' = InUse
    BY <1>1, <2>1 DEF Released, InUse
  <2> QED BY <2>1, <2>2, <2>3, <2>4
<1>6. CASE DeleteHookNode(i)
  <2>1. PICK l \in {"branch", "return"} : deleteHook' = [deleteHook EXCEPT ![i] = l]
    BY <1>6 DEF DeleteHookNode, HookGoto
  <2>2. HooksPaired' /\ InUse' = InUse /\ Released' = Released \cup {i} /\ Counted' = Counted
    BY <1>5, <2>1
  <2>3. i \notin Released /\ count' = count /\ (known => usage' = usage - 1)
    BY <1>6 DEF Released, DeleteHookNode
  <2>4. /\ Cardinality(Released') = Cardinality(Released) + 1
        /\ Cardinality(Released) \in Nat /\ Cardinality(InUse) \in Nat
    BY <2>2, <2>3, FiniteParts, CountedParts
  <2>5. losses' = 0 => usage' = Cardinality(InUse') - Cardinality(Released')
    BY <1>1, <1>2, <2>2, <2>3, <2>4 DEF CountInv
  <2> QED BY <1>1, <1>2, <2>2, <2>3, <2>5 DEF CountInv
<1>7. CASE DeleteHookReturn(i)
  <2>1. /\ deleteHook' = [deleteHook EXCEPT ![i] = "done"] /\ deleteHook[i] = "return"
        /\ count' = count - 1 /\ usage' = usage
    BY <1>7 DEF DeleteHookReturn, HookGoto
  <2>2. HooksPaired' /\ InUse' = InUse /\ Released' = Released \cup {i} /\ Counted' = Counted \ {i}
    BY <1>5, <2>1
  <2>3. i \in Released /\ i \in Counted
    BY <1>2, <2>1 DEF Released, Counted
  <2>4. Released' = Released
    BY <2>2, <2>3
  <2>5. count' = Cardinality(Counted')
    BY <2>1, <2>2, <2>3, FiniteParts, CountedParts DEF CountInv
  <2> QED BY <1>1, <1>2, <2>1, <2>2, <2>4, <2>5 DEF CountInv
<1>8. ASSUME NEW l \in DeletePC, Middle(l) PROVE CountInv'
  <2>1. HooksPaired' /\ InUse' = InUse /\ Released' = Released \cup {i} /\ Counted' = Counted
    BY <1>5, <1>8
  <2>2. i \in Released
    BY <1>3, <1>8 DEF Released
  <2>3. Released' = Released
    BY <2>1, <2>2
  <2>4. UNCHANGED <<count, usage>>
    BY <1>8
  <2> QED BY <1>1, <1>2, <2>1, <2>3, <2>4 DEF CountInv
<1> QED BY <1>4, <1>6, <1>7, <1>8

LEMMA CountStep ==
  ASSUME TypeOK, Consistent, CountInv, [Next]_vars
  PROVE  CountInv'
<1>1. CASE Unbooked
  <2>1. Counted' = Counted /\ InUse' = InUse /\ Released' = Released
    BY <1>1 DEF Unbooked, Counted, InUse, Released
  <2>2. HooksPaired'
    BY <1>1 DEF Unbooked, CountInv, HooksPaired
  <2>3. ~known /\ NothingYet => NothingYet'
    BY <1>1 DEF Unbooked, NothingYet
  <2> QED BY <1>1, <2>1, <2>2, <2>3 DEF Unbooked, CountInv
<1>2. ASSUME NEW r \in Requests, NEW i \in Instances, NEW ap \in BOOLEAN, Add(r, i, ap)
      PROVE  CountInv'
  <2>1. rsb[r] \in Sandboxes /\ ~ NothingYet
    BY <1>2 DEF TypeOK, Add, NothingYet
  <2>2. /\ owner[i] = NoSandbox /\ owner' = [owner EXCEPT ![i] = rsb[r]] /\ SetIfAbsent(i, rsb[r])
        /\ count' = count + 1 /\ UNCHANGED <<deleteHook, usage, known, losses>>
    BY <1>2 DEF Add, NewInstance
  <2> QED BY <2>1, <2>2, EnterCounts
<1>3. ASSUME NEW i \in Instances, NEW ap \in BOOLEAN, SyncAdd(i, ap)
      PROVE  CountInv'
  <2>1. sCur \in Sandboxes /\ ~ NothingYet
    BY <1>3 DEF TypeOK, SyncAdd, NothingYet
  <2>2. /\ owner[i] = NoSandbox /\ owner' = [owner EXCEPT ![i] = sCur] /\ SetIfAbsent(i, sCur)
        /\ count' = count + 1 /\ UNCHANGED <<deleteHook, usage, known, losses>>
    BY <1>3 DEF SyncAdd, NewInstance
  <2> QED BY <2>1, <2>2, EnterCounts
<1>4. CASE NodeLost
  <2>1. losses' # 0
    BY <1>4 DEF TypeOK, NodeLost
  <2>2. UNCHANGED <<running, owner, insertHook, deleteHook, count>>
    BY <1>4 DEF NodeLost
  <2>3. HooksPaired' /\ Counted' = Counted
    BY <2>2 DEF CountInv, HooksPaired, Counted
  <2> QED BY <2>1, <2>2, <2>3 DEF CountInv
<1>5. CASE ConnectToNode
  <2>1. /\ ~known /\ known' = TRUE /\ usage' = 0
        /\ UNCHANGED <<running, owner, insertHook, deleteHook, count, losses>>
    BY <1>5 DEF ConnectToNode
  <2>2. HooksPaired' /\ Counted' = Counted /\ InUse' = InUse /\ Released' = Released
    BY <2>1 DEF CountInv, HooksPaired, Counted, InUse, Released
  <2>3. ASSUME losses = 0 PROVE Cardinality(InUse) = 0 /\ Cardinality(Released) = 0
    <3>1. \A i \in Instances : insertHook[i] = "off" /\ deleteHook[i] = "off"
      BY <2>1, <2>3 DEF CountInv, NothingYet, Consistent
    <3>2. InUse = {} /\ Released = {}
      BY <3>1 DEF InUse, Released
    <3> QED BY <3>2, FS_EmptySet
  <2> QED BY <2>1, <2>2, <2>3 DEF CountInv
<1>6. CASE UNCHANGED vars
  <2>1. Unbooked
    BY <1>6 DEF vars, Unbooked
  <2> QED BY <1>1, <2>1
<1>7. CASE Next
  BY <1>1, <1>2, <1>3, <1>4, <1>5, <1>7, Booking, EvictCounts, InsertCounts, DeleteCounts DEF Booked
<1> QED BY <1>6, <1>7

LEMMA CountInductive == Spec => []CountInv
<1>1. IInv /\ CountInv /\ [Next]_vars => CountInv'
  BY CountStep DEF IInv
<1> QED BY <1>1, CountInit, Inductive, PTL DEF Spec

\* How far the counters drift.  "If the instance already exists we do nothing"
\* (operations.go:58-59) is not what Add does: an instance that SetIfAbsent
\* refuses is counted, and no hook of its own ever counts it down.  Once no
\* hook runs, the sandbox counter is too high by the refused instances and by
\* no more, and the usage of a node that was never lost is exact.
CounterDrift ==
  HooksQuiet =>
    /\ losses = 0 => usage = Cardinality(InPhase("cached"))
    /\ count = Cardinality(InPhase("cached")) + Cardinality(InPhase("refused"))

\* The drift is exactly that, however the hooks were interleaved.
THEOREM CountersDrift == Spec => []CounterDrift
<1>1. IInv /\ CountInv => CounterDrift
  <2> SUFFICES ASSUME TypeOK, Consistent, CountInv, HooksQuiet
               PROVE  /\ losses = 0 => usage = Cardinality(InPhase("cached"))
                      /\ count = Cardinality(InPhase("cached")) + Cardinality(InPhase("refused"))
    BY DEF IInv, CounterDrift
  <2> DEFINE C == InPhase("cached")
             R == InPhase("refused")
  <2>1. C \in SUBSET Instances /\ R \in SUBSET Instances
    BY DEF InPhase
  <2>2. \A i \in Instances : i \in C <=> owner[i] # NoSandbox /\ running[owner[i]] = i
    BY DEF InPhase, Phase
  <2>3. \A i \in Instances : i \in R <=> /\ owner[i] # NoSandbox /\ running[owner[i]] # i
                                         /\ deleteHook[i] = "off"
    BY DEF InPhase, Phase
  <2>4. \A i \in C : deleteHook[i] = "off" /\ insertHook[i] # "off"
    <3>1. \A i \in Instances : owner[i] # NoSandbox => owner[i] \in Sandboxes
      BY DEF TypeOK
    <3> QED BY <2>1, <2>2, <3>1 DEF Consistent, CountInv, HooksPaired
  <2> HIDE DEF C, R
  <2>5. count = Cardinality(C) + Cardinality(R)
    <3>1. \A i \in Instances : i \in Counted <=> i \in C \/ i \in R
      BY <2>2, <2>3, <2>4 DEF Counted, HooksQuiet
    <3>2. Counted = C \cup R /\ C \cap R = {}
      BY <2>1, <2>2, <2>3, <3>1, CountedParts
    <3>3. Cardinality(C \cup R) = Cardinality(C) + Cardinality(R) - Cardinality(C \cap R)
      BY <2>1, FiniteParts, FS_Union
    <3>4. /\ Cardinality(C \cap R) = 0 /\ Cardinality(C) \in Nat /\ Cardinality(R) \in Nat
      BY <2>1, <3>2, FiniteParts, FS_EmptySet
    <3>5. count = Cardinality(Counted)
      BY DEF CountInv
    <3> QED BY <3>2, <3>3, <3>4, <3>5
  <2>6. ASSUME losses = 0 PROVE usage = Cardinality(C)
    <3>1. Released \subseteq InUse
      BY DEF Released, InUse, CountInv, HooksPaired, HooksQuiet
    <3>2. \A i \in Instances : i \in InUse \ Released <=> i \in C
      BY <2>2, <2>4, Books DEF Released, InUse, CountInv, HooksPaired, HooksQuiet
    <3>3. InUse \ Released = C /\ InUse \cap Released = Released
      BY <2>1, <3>1, <3>2, CountedParts
    <3>4. Cardinality(InUse \ Released) = Cardinality(InUse) - Cardinality(InUse \cap Released)
      BY CountedParts, FiniteParts, FS_Difference
    <3>5. usage = Cardinality(InUse) - Cardinality(Released)
      BY <2>6 DEF CountInv
    <3> QED BY <3>3, <3>4, <3>5
  <2> QED BY <2>5, <2>6 DEF C, R
<1> QED BY <1>1, Inductive, CountInductive, PTL

\* The usage of a node that was never lost settles at what the cache holds.
THEOREM UsageIsSettled == Spec => []UsageSettles
<1>1. CounterDrift => UsageSettles
  BY DEF CounterDrift, UsageSettles
<1> QED BY <1>1, CountersDrift, PTL

-----------------------------------------------------------------------------
(* The life of an instance.                                                *)

\* Initially no instance is in the life cycle.
LEMMA LifecycleInit == Init => Lifecycle!LInit
  BY DEF Init, Lifecycle!LInit, Phase

\* InstanceCache.Set of a new instance, by a handler or by the sync loop.
LEMMA InsertedOrRefused ==
  ASSUME TypeOK, Consistent,
         NEW i \in Instances, NEW s \in Sandboxes,
         owner[i] = NoSandbox, owner' = [owner EXCEPT ![i] = s],
         SetIfAbsent(i, s), deleteHook' = deleteHook
  PROVE  Lifecycle!LNext
<1>1. Phase(i) = "new" /\ deleteHook[i] = "off"
  BY DEF Phase, Consistent
<1>2. CASE running[s] = NoInstance
  <2>1. running' = [running EXCEPT ![s] = i]
    BY <1>2 DEF SetIfAbsent
  <2>2. \A k \in Instances : Phase(k)' = IF k = i THEN "cached" ELSE Phase(k)
    BY <1>1, <1>2, <2>1 DEF TypeOK, Consistent, Phase
  <2>3. Lifecycle!CachedFor(s) = {}
    BY <1>2 DEF TypeOK, Phase, Lifecycle!CachedFor
  <2>4. Lifecycle!LInsert(i, s)
    BY <1>1, <2>2, <2>3 DEF Lifecycle!LInsert
  <2> QED BY <2>4 DEF Lifecycle!LNext
<1>3. CASE running[s] # NoInstance
  <2>1. running' = running
    BY <1>3 DEF SetIfAbsent
  <2>2. \A k \in Instances : Phase(k)' = IF k = i THEN "refused" ELSE Phase(k)
    BY <1>1, <1>3, <2>1 DEF TypeOK, Consistent, Phase
  <2>3. running[s] \in Lifecycle!CachedFor(s)
    BY <1>3 DEF TypeOK, Consistent, Phase, Lifecycle!CachedFor
  <2>4. Lifecycle!LRefuse(i, s)
    BY <1>1, <2>2, <2>3 DEF Lifecycle!LRefuse
  <2> QED BY <2>4 DEF Lifecycle!LNext
<1> QED BY <1>2, <1>3

\* Every step is a step of the life cycle or changes no phase.
LEMMA LifecycleStep ==
  ASSUME TypeOK, Consistent, Next
  PROVE  [Lifecycle!LNext]_(Lifecycle!lvars)
<1>1. ASSUME EvictorWake PROVE [Lifecycle!LNext]_(Lifecycle!lvars)
  BY <1>1 DEF TypeOK, Consistent, Lifecycle!lvars, Phase, EvictorWake
<1>2. ASSUME EvictorRemove PROVE [Lifecycle!LNext]_(Lifecycle!lvars)
  <2>1. evCur \in Instances /\ running[owner[evCur]] = evCur /\ owner[evCur] \in Sandboxes
    BY <1>2 DEF TypeOK, Consistent, EvictorRemove
  <2>2. /\ running' = [running EXCEPT ![owner[evCur]] = NoInstance]
        /\ deleteHook' = [deleteHook EXCEPT ![evCur] = "node"]
        /\ owner' = owner
    BY <1>2, <2>1 DEF TypeOK, EvictorRemove
  <2>3. \A k \in Instances : Phase(k)' = IF k = evCur THEN "evicted" ELSE Phase(k)
    BY <2>1, <2>2 DEF TypeOK, Consistent, Phase
  <2>4. Lifecycle!LEvict(evCur)
    BY <2>1, <2>2, <2>3 DEF Phase, Lifecycle!LEvict
  <2> QED BY <2>1, <2>4 DEF Lifecycle!LNext
<1>3. ASSUME NEW i \in Instances, EvictorCheck(i)
      PROVE  [Lifecycle!LNext]_(Lifecycle!lvars)
  BY <1>3 DEF TypeOK, Consistent, Lifecycle!lvars, Phase, EvictorCheck
<1>4. ASSUME NEW i \in Instances, InsertHookNode(i)
      PROVE  [Lifecycle!LNext]_(Lifecycle!lvars)
  BY <1>4 DEF TypeOK, Consistent, Lifecycle!lvars, Phase, InsertHookNode
<1>5. ASSUME NEW i \in Instances, InsertHookMark(i)
      PROVE  [Lifecycle!LNext]_(Lifecycle!lvars)
  BY <1>5 DEF TypeOK, Consistent, Lifecycle!lvars, Phase, InsertHookMark,
       MarkAsPausing
<1>6. ASSUME NEW i \in Instances, DeleteHookNode(i)
      PROVE  [Lifecycle!LNext]_(Lifecycle!lvars)
  BY <1>6 DEF TypeOK, Consistent, Lifecycle!lvars, Phase, DeleteHookNode,
       HookGoto
<1>7. ASSUME NEW i \in Instances, DeleteHookBranch(i)
      PROVE  [Lifecycle!LNext]_(Lifecycle!lvars)
  BY <1>7 DEF TypeOK, Consistent, Lifecycle!lvars, Phase, DeleteHookBranch,
       HookGoto
<1>8. ASSUME NEW i \in Instances, DeleteHookMark(i)
      PROVE  [Lifecycle!LNext]_(Lifecycle!lvars)
  BY <1>8 DEF TypeOK, Consistent, Lifecycle!lvars, Phase, DeleteHookMark,
       HookGoto, MarkAsPausing
<1>9. ASSUME NEW i \in Instances, NewSnapshotBuild(i)
      PROVE  [Lifecycle!LNext]_(Lifecycle!lvars)
  BY <1>9 DEF TypeOK, Consistent, Lifecycle!lvars, Phase, NewSnapshotBuild,
       HookGoto
<1>10. ASSUME NEW i \in Instances, PauseRpc(i)
      PROVE  [Lifecycle!LNext]_(Lifecycle!lvars)
  BY <1>10 DEF TypeOK, Consistent, Lifecycle!lvars, Phase, PauseRpc, HookGoto
<1>11. ASSUME NEW i \in Instances, EnvBuildSetStatus(i)
      PROVE  [Lifecycle!LNext]_(Lifecycle!lvars)
  BY <1>11 DEF TypeOK, Consistent, Lifecycle!lvars, Phase,
       EnvBuildSetStatus, HookGoto
<1>12. ASSUME NEW i \in Instances, DeleteHookUnmark(i)
      PROVE  [Lifecycle!LNext]_(Lifecycle!lvars)
  BY <1>12 DEF TypeOK, Consistent, Lifecycle!lvars, Phase, DeleteHookUnmark,
       HookGoto, UnmarkAsPausing
<1>13. ASSUME NEW i \in Instances, PauseDone(i)
      PROVE  [Lifecycle!LNext]_(Lifecycle!lvars)
  BY <1>13 DEF TypeOK, Consistent, Lifecycle!lvars, Phase, PauseDone, HookGoto
<1>14. ASSUME NEW i \in Instances, DeleteRpc(i)
      PROVE  [Lifecycle!LNext]_(Lifecycle!lvars)
  BY <1>14 DEF TypeOK, Consistent, Lifecycle!lvars, Phase, DeleteRpc, HookGoto
<1>15. ASSUME NEW i \in Instances, DeleteHookReturn(i)
      PROVE  [Lifecycle!LNext]_(Lifecycle!lvars)
  <2>1. /\ deleteHook' = [deleteHook EXCEPT ![i] = "done"]
        /\ UNCHANGED <<owner, running>>
    BY <1>15 DEF DeleteHookReturn, HookGoto
  <2>2. Phase(i) = "evicted"
    BY <1>15 DEF TypeOK, Consistent, Phase, DeleteHookReturn
  <2>3. \A k \in Instances : Phase(k)' = IF k = i THEN "gone" ELSE Phase(k)
    BY <2>1, <2>2 DEF TypeOK, Phase
  <2>4. Lifecycle!LFinish(i)
    BY <2>1, <2>2, <2>3 DEF Lifecycle!LFinish
  <2> QED BY <2>4 DEF Lifecycle!LNext
<1>16. ASSUME NEW r \in Requests, NEW s \in Sandboxes, Create(r, s)
      PROVE  [Lifecycle!LNext]_(Lifecycle!lvars)
  BY <1>16 DEF TypeOK, Consistent, Lifecycle!lvars, Phase, Create, Request,
       Goto
<1>17. ASSUME NEW r \in Requests, NEW s \in Sandboxes, Resume(r, s)
      PROVE  [Lifecycle!LNext]_(Lifecycle!lvars)
  BY <1>17 DEF TypeOK, Consistent, Lifecycle!lvars, Phase, Resume, Request,
       Goto, Found, Answer, Available
<1>18. ASSUME NEW r \in Requests, NEW s \in Sandboxes, Refresh(r, s)
      PROVE  [Lifecycle!LNext]_(Lifecycle!lvars)
  BY <1>18 DEF TypeOK, Consistent, Lifecycle!lvars, Phase, Refresh, Request,
       Goto, Found, Answer, Available
<1>19. ASSUME NEW r \in Requests, NEW s \in Sandboxes, Pause(r, s)
      PROVE  [Lifecycle!LNext]_(Lifecycle!lvars)
  BY <1>19 DEF TypeOK, Consistent, Lifecycle!lvars, Phase, Pause, Request,
       Goto, Found, Answer, Available
<1>20. ASSUME NEW r \in Requests, NEW s \in Sandboxes, Kill(r, s)
      PROVE  [Lifecycle!LNext]_(Lifecycle!lvars)
  BY <1>20 DEF TypeOK, Consistent, Lifecycle!lvars, Phase, Kill, Request,
       Goto, Found, Answer, Available
<1>21. ASSUME NEW r \in Requests, KillPaused(r)
      PROVE  [Lifecycle!LNext]_(Lifecycle!lvars)
  BY <1>21 DEF TypeOK, Consistent, Lifecycle!lvars, Phase, KillPaused,
       Answer, Found
<1>22. ASSUME NEW r \in Requests, DeleteGet(r)
      PROVE  [Lifecycle!LNext]_(Lifecycle!lvars)
  BY <1>22 DEF TypeOK, Consistent, Lifecycle!lvars, Phase, DeleteGet, Goto,
       Found, Answer, Available
<1>23. ASSUME NEW r \in Requests, DeleteExpire(r)
      PROVE  [Lifecycle!LNext]_(Lifecycle!lvars)
  BY <1>23 DEF TypeOK, Consistent, Lifecycle!lvars, Phase, DeleteExpire,
       Goto, SetExpired
<1>24. ASSUME NEW r \in Requests, DeleteStore(r)
      PROVE  [Lifecycle!LNext]_(Lifecycle!lvars)
  BY <1>24 DEF TypeOK, Consistent, Lifecycle!lvars, Phase, DeleteStore,
       Goto, Answer, Found
<1>25. ASSUME NEW r \in Requests, DeleteMark(r)
      PROVE  [Lifecycle!LNext]_(Lifecycle!lvars)
  BY <1>25 DEF TypeOK, Consistent, Lifecycle!lvars, Phase, DeleteMark, Goto,
       MarkAsPausing
<1>26. ASSUME NEW r \in Requests, WaitPause(r)
      PROVE  [Lifecycle!LNext]_(Lifecycle!lvars)
  BY <1>26 DEF TypeOK, Consistent, Lifecycle!lvars, Phase, WaitPause,
       Answer, Found
<1>27. ASSUME NEW r \in Requests, WaitCancelled(r)
      PROVE  [Lifecycle!LNext]_(Lifecycle!lvars)
  BY <1>27 DEF TypeOK, Consistent, Lifecycle!lvars, Phase, WaitCancelled,
       Answer, Found
<1>28. ASSUME NEW r \in Requests, KeepAlive(r)
      PROVE  [Lifecycle!LNext]_(Lifecycle!lvars)
  BY <1>28 DEF TypeOK, Consistent, Lifecycle!lvars, Phase, KeepAlive,
       Answer, Found, SetExpired, Available
<1>29. ASSUME NEW r \in Requests, ResumeLookup(r)
      PROVE  [Lifecycle!LNext]_(Lifecycle!lvars)
  BY <1>29 DEF TypeOK, Consistent, Lifecycle!lvars, Phase, ResumeLookup,
       Goto, Found
<1>30. ASSUME NEW r \in Requests, ResumeWait(r)
      PROVE  [Lifecycle!LNext]_(Lifecycle!lvars)
  BY <1>30 DEF TypeOK, Consistent, Lifecycle!lvars, Phase, ResumeWait,
       Answer, Found
<1>31. ASSUME NEW r \in Requests, ResumeSnapshot(r)
      PROVE  [Lifecycle!LNext]_(Lifecycle!lvars)
  BY <1>31 DEF TypeOK, Consistent, Lifecycle!lvars, Phase, ResumeSnapshot,
       Goto, Answer, Found
<1>32. ASSUME NEW r \in Requests, Place(r)
      PROVE  [Lifecycle!LNext]_(Lifecycle!lvars)
  BY <1>32 DEF TypeOK, Consistent, Lifecycle!lvars, Phase, Place, Goto,
       Answer, Found
<1>33. ASSUME NEW r \in Requests, NEW i \in Instances, NEW ap \in BOOLEAN, Add(r, i, ap)
      PROVE  [Lifecycle!LNext]_(Lifecycle!lvars)
  <2>1. rsb[r] \in Sandboxes
    BY <1>33 DEF TypeOK, Add
  <2>2. /\ owner[i] = NoSandbox /\ owner' = [owner EXCEPT ![i] = rsb[r]]
        /\ SetIfAbsent(i, rsb[r])
        /\ deleteHook' = deleteHook
    BY <1>33 DEF Add, NewInstance
  <2> QED BY <2>1, <2>2, InsertedOrRefused
<1>34. ASSUME SyncList PROVE [Lifecycle!LNext]_(Lifecycle!lvars)
  BY <1>34 DEF TypeOK, Consistent, Lifecycle!lvars, Phase, SyncList, SyncIdle
<1>35. ASSUME SyncItems PROVE [Lifecycle!LNext]_(Lifecycle!lvars)
  BY <1>35 DEF TypeOK, Consistent, Lifecycle!lvars, Phase, SyncItems, Available
<1>36. ASSUME NEW s \in Sandboxes, SyncRemove(s)
      PROVE  [Lifecycle!LNext]_(Lifecycle!lvars)
  BY <1>36 DEF TypeOK, Consistent, Lifecycle!lvars, Phase, SyncRemove,
       Available, SetExpired
<1>37. ASSUME NEW s \in Sandboxes, SyncExists(s)
      PROVE  [Lifecycle!LNext]_(Lifecycle!lvars)
  BY <1>37 DEF TypeOK, Consistent, Lifecycle!lvars, Phase, SyncExists,
       Available
<1>38. ASSUME NEW i \in Instances, NEW ap \in BOOLEAN, SyncAdd(i, ap)
      PROVE  [Lifecycle!LNext]_(Lifecycle!lvars)
  <2>1. sCur \in Sandboxes
    BY <1>38 DEF TypeOK, SyncAdd
  <2>2. /\ owner[i] = NoSandbox /\ owner' = [owner EXCEPT ![i] = sCur]
        /\ SetIfAbsent(i, sCur)
        /\ deleteHook' = deleteHook
    BY <1>38 DEF SyncAdd, NewInstance
  <2> QED BY <2>1, <2>2, InsertedOrRefused
<1>39. ASSUME NodeLost PROVE [Lifecycle!LNext]_(Lifecycle!lvars)
  BY <1>39 DEF TypeOK, Consistent, Lifecycle!lvars, Phase, NodeLost, SyncIdle
<1>40. ASSUME ConnectToNode PROVE [Lifecycle!LNext]_(Lifecycle!lvars)
  BY <1>40 DEF TypeOK, Consistent, Lifecycle!lvars, Phase, ConnectToNode,
       SyncIdle
<1>41. ASSUME NEW i \in Instances, Expire(i)
      PROVE  [Lifecycle!LNext]_(Lifecycle!lvars)
  BY <1>41 DEF TypeOK, Consistent, Lifecycle!lvars, Phase, Expire, SetExpired
<1>42. ASSUME NEW s \in Sandboxes, VmDies(s)
      PROVE  [Lifecycle!LNext]_(Lifecycle!lvars)
  BY <1>42 DEF TypeOK, Consistent, Lifecycle!lvars, Phase, VmDies
<1> QED
  BY <1>1, <1>2, <1>3, <1>4, <1>5, <1>6, <1>7, <1>8, <1>9, <1>10, <1>11,
     <1>12, <1>13, <1>14, <1>15, <1>16, <1>17, <1>18, <1>19, <1>20, <1>21,
     <1>22, <1>23, <1>24, <1>25, <1>26, <1>27, <1>28, <1>29, <1>30, <1>31,
     <1>32, <1>33, <1>34, <1>35, <1>36, <1>37, <1>38, <1>39, <1>40, <1>41,
     <1>42
  DEF Next, Evictor, Sync, Environment, InsertHook, DeleteHook, Arrive, Handle

\* Each instance lives the life of InstanceLifecycle.
THEOREM Implements == Spec => Refinement
<1>1. IInv /\ UNCHANGED vars => UNCHANGED Lifecycle!lvars
  BY DEF vars, Lifecycle!lvars, Phase
<1>2. IInv /\ [Next]_vars => [Lifecycle!LNext]_(Lifecycle!lvars)
  BY <1>1, LifecycleStep DEF IInv
<1> QED BY <1>2, LifecycleInit, Inductive, PTL DEF Spec, Refinement, Lifecycle!LSpec

=============================================================================
