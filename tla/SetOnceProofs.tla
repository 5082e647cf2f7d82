--------------------------- MODULE SetOnceProofs ---------------------------
(***************************************************************************)
(* Proofs about SetOnce for any sets of setters, waiters and results.      *)
(***************************************************************************)
EXTENDS SetOnce, TLAPS

\* What each position of a setter says about the cell and the mutex.
SetterInv(s) ==
  /\ pc[s] # "call" => arg[s] \in Results
  /\ pc[s] \in {"unlock", "setDone", "returned"} => res # NoResult
  /\ pc[s] \in {"store", "unlock"} <=> writer = s

\* What each position of a waiter says about the channel and the mutex.
WaiterInv(w) ==
  /\ pc[w] \in {"rlock", "read"} => done
  /\ pc[w] = "read" <=> w \in readers
  /\ pc[w] # "returned" => ret[w] = Pending

\* The inductive invariant: the channel is closed only after the result is
\* there, which the order of the deferred calls guarantees.
IInv ==
  /\ TypeOK
  /\ done => res # NoResult
  /\ readers # {} => writer = Nobody
  /\ \A s \in Setters : SetterInv(s)
  /\ \A w \in Waiters : WaiterInv(w)
  /\ WinnersResultKept

\* The new cell satisfies the invariant.
LEMMA InitIInv == Init => IInv
  BY SetOnceAssumption
  DEF Init, IInv, TypeOK, SetterInv, WaiterInv, WinnersResultKept, Calls,
      SetterPC, WaiterPC

\* Every step of a setter or a waiter keeps it.
LEMMA StepIInv == IInv /\ [Next]_vars => IInv'
<1> SUFFICES ASSUME IInv, [Next]_vars PROVE IInv'
  OBVIOUS
<1> USE SetOnceAssumption DEF IInv, TypeOK, SetterInv, WaiterInv,
        WinnersResultKept, Calls, SetterPC, WaiterPC, Goto
<1>1. ASSUME NEW s \in Setters, NEW r \in Results, SetResult(s, r) PROVE IInv'
  BY <1>1 DEF SetResult
<1>2. ASSUME NEW s \in Setters, SelectClosed(s) PROVE IInv'
  BY <1>2 DEF SelectClosed
<1>3. ASSUME NEW s \in Setters, SelectDefault(s) PROVE IInv'
  BY <1>3 DEF SelectDefault
<1>4. ASSUME NEW s \in Setters, Lock(s) PROVE IInv'
  BY <1>4 DEF Lock
<1>5. ASSUME NEW s \in Setters, Store(s) PROVE IInv'
  BY <1>5 DEF Store
<1>6. ASSUME NEW s \in Setters, Unlock(s) PROVE IInv'
  BY <1>6 DEF Unlock
<1>7. ASSUME NEW s \in Setters, SetDone(s) PROVE IInv'
  BY <1>7 DEF SetDone
<1>8. ASSUME NEW w \in Waiters, StartWait(w) PROVE IInv'
  BY <1>8 DEF StartWait
<1>9. ASSUME NEW w \in Waiters, WakeUp(w) PROVE IInv'
  BY <1>9 DEF WakeUp
<1>10. ASSUME NEW w \in Waiters, CtxDone(w) PROVE IInv'
  BY <1>10 DEF CtxDone
<1>11. ASSUME NEW w \in Waiters, RLock(w) PROVE IInv'
  BY <1>11 DEF RLock
<1>12. ASSUME NEW w \in Waiters, Read(w) PROVE IInv'
  BY <1>12 DEF Read
<1>13. CASE UNCHANGED vars
  BY <1>13 DEF vars
<1>14. QED
  BY <1>1, <1>2, <1>3, <1>4, <1>5, <1>6, <1>7, <1>8, <1>9, <1>10, <1>11,
     <1>12, <1>13 DEF Next, SetterStep, WaiterStep

\* The inductive invariant holds in every reachable state.
THEOREM Inductive == Spec => []IInv
  BY InitIInv, StepIInv, PTL DEF Spec

\* Type correctness: the state of SetOnce keeps its shape.
THEOREM TypeCorrect == Spec => []TypeOK
<1>1. IInv => TypeOK
  BY DEF IInv
<1>2. QED
  BY <1>1, Inductive, PTL

\* Wait never dereferences a nil s.res.
THEOREM NeverNil == Spec => []NoNilResult
<1>1. IInv => NoNilResult
  BY DEF IInv, WaiterInv, NoNilResult
<1>2. QED
  BY <1>1, Inductive, PTL

\* At most one setter wins, and its result is the one kept.
THEOREM SetOnlyOnce == Spec => []WinnersResultKept
<1>1. IInv => WinnersResultKept
  BY DEF IInv
<1>2. QED
  BY <1>1, Inductive, PTL

\* The read-write mutex covers every access to s.res.
THEOREM Covered == Spec => []MutexCovers
<1>1. IInv => MutexCovers
  BY SetOnceAssumption DEF IInv, SetterInv, WaiterInv, MutexCovers
<1>2. QED
  BY <1>1, Inductive, PTL

\* setResult, Wait and WaitWithContext implement the abstract write-once
\* cell: each step is a step of SetOnceSpec or leaves its state alone.
THEOREM Implements == Spec => Refinement
<1>1. Init => Abstract!AInit
  BY DEF Init, Abstract!AInit, Calls
<1>2. IInv /\ [Next]_vars => [Abstract!ANext]_(Abstract!avars)
  <2> SUFFICES ASSUME IInv, [Next]_vars PROVE [Abstract!ANext]_(Abstract!avars)
    OBVIOUS
  <2> USE DEF Abstract!avars, Goto
  <2>1. ASSUME NEW s \in Setters, SelectClosed(s) PROVE Abstract!ANext
    BY <2>1 DEF SelectClosed, IInv, TypeOK, Abstract!ANext, Abstract!ARefuse
  <2>2. ASSUME NEW s \in Setters, Store(s) PROVE Abstract!ANext
    BY <2>2 DEF Store, IInv, TypeOK, SetterInv, Abstract!ANext,
                Abstract!ARefuse, Abstract!ASet
  <2>3. ASSUME NEW w \in Waiters, CtxDone(w) PROVE Abstract!ANext
    BY <2>3 DEF CtxDone, IInv, WaiterInv, Abstract!ANext, Abstract!ACancel
  <2>4. ASSUME NEW w \in Waiters, Read(w) PROVE Abstract!ANext
    BY <2>4 DEF Read, IInv, WaiterInv, Abstract!ANext, Abstract!AWait
  <2>5. ASSUME NEW s \in Setters,
               \/ \E r \in Results : SetResult(s, r)
               \/ SelectDefault(s) \/ Lock(s) \/ Unlock(s) \/ SetDone(s)
        PROVE UNCHANGED Abstract!avars
    BY <2>5 DEF SetResult, SelectDefault, Lock, Unlock, SetDone
  <2>6. ASSUME NEW w \in Waiters, StartWait(w) \/ WakeUp(w) \/ RLock(w)
        PROVE UNCHANGED Abstract!avars
    BY <2>6 DEF StartWait, WakeUp, RLock
  <2>7. CASE UNCHANGED vars
    BY <2>7 DEF vars
  <2>8. QED
    BY <2>1, <2>2, <2>3, <2>4, <2>5, <2>6, <2>7
    DEF Next, SetterStep, WaiterStep
<1>3. QED
  BY <1>1, <1>2, Inductive, PTL DEF Spec, Refinement, Abstract!ASpec
=============================================================================
