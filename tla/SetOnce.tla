------------------------------ MODULE SetOnce ------------------------------
(***************************************************************************)
(* packages/shared/pkg/utils/set_once.go: the write-once cell behind every *)
(* "the pause has finished", "the template file is there", "the build is   *)
(* done" of the system.  Each call of a method is a process; a step is the *)
(* code between two points where another goroutine can be seen.            *)
(***************************************************************************)
EXTENDS FiniteSets

CONSTANTS Setters, Waiters, CtxWaiters, Results,
          NoResult, Won, AlreadySet, Cancelled, Pending, Nobody

ASSUME SetOnceAssumption ==
  /\ CtxWaiters \subseteq Waiters
  /\ Setters \cap Waiters = {}
  /\ Nobody \notin Setters
  /\ NoResult \notin Results
  /\ {Won, AlreadySet, Cancelled, Pending} \cap (Results \cup {NoResult}) = {}
  /\ Won # AlreadySet /\ Won # Pending /\ AlreadySet # Pending
  /\ Cancelled # Pending

VARIABLES
  done,      \* the channel `done` is closed
  res,       \* s.res, NoResult for nil
  writer,    \* the setter holding s.mu for writing
  readers,   \* the waiters holding s.mu for reading
  pc,        \* where each call is
  arg,       \* the result a setter was called with
  ret        \* what a call returned

vars == <<done, res, writer, readers, pc, arg, ret>>

Calls == Setters \cup Waiters

SetterPC == {"call", "select", "lock", "store", "unlock", "setDone", "returned"}
WaiterPC == {"call", "wait", "rlock", "read", "returned"}

\* The shape of the state; a setter past the store has its answer, and none
\* before it has.
TypeOK ==
  /\ done \in BOOLEAN
  /\ res \in Results \cup {NoResult}
  /\ writer \in Setters \cup {Nobody}
  /\ readers \subseteq Waiters
  /\ pc \in [Calls -> SetterPC \cup WaiterPC]
  /\ \A s \in Setters : pc[s] \in SetterPC
  /\ \A w \in Waiters : pc[w] \in WaiterPC
  /\ arg \in [Setters -> Results \cup {NoResult}]
  /\ ret \in [Calls -> Results \cup {NoResult, Won, AlreadySet, Cancelled, Pending}]
  /\ \A s \in Setters : ret[s] \in
       IF pc[s] \in {"unlock", "setDone", "returned"} THEN {Won, AlreadySet} ELSE {Pending}

Init ==
  /\ done = FALSE
  /\ res = NoResult
  /\ writer = Nobody
  /\ readers = {}
  /\ pc = [c \in Calls |-> "call"]
  /\ arg = [s \in Setters |-> NoResult]
  /\ ret = [c \in Calls |-> Pending]

Goto(c, l) == pc' = [pc EXCEPT ![c] = l]

-----------------------------------------------------------------------------
(* Faults: wrong variants of the steps below, one per property, each of    *)
(* which the run rejects when it takes the place of the step it is named   *)
(* after.                                                                  *)

\* the refused setter forgets to return its error
SelectClosedSilently(s) ==
  /\ pc[s] = "select" /\ done
  /\ Goto(s, "setDone")
  /\ UNCHANGED <<done, res, writer, readers, arg, ret>>

\* the channel is closed before the result is stored
SelectThenClose(s) ==
  /\ pc[s] = "select" /\ ~done
  /\ done' = TRUE
  /\ Goto(s, "lock")
  /\ UNCHANGED <<res, writer, readers, arg, ret>>

\* the mutex does not exclude readers and writers
LockIgnoringReaders(s) ==
  /\ pc[s] = "lock"
  /\ writer' = s
  /\ Goto(s, "store")
  /\ UNCHANGED <<done, res, readers, arg, ret>>

\* the second check of s.res, under the lock, is missing
StoreUnchecked(s) ==
  /\ pc[s] = "store"
  /\ res' = arg[s]
  /\ ret' = [ret EXCEPT ![s] = Won]
  /\ Goto(s, "unlock")
  /\ UNCHANGED <<done, writer, readers, arg>>

\* `defer s.setDone()` is missing
SetDoneDropped(s) ==
  /\ pc[s] = "setDone"
  /\ Goto(s, "returned")
  /\ UNCHANGED <<done, res, writer, readers, arg, ret>>

-----------------------------------------------------------------------------
(* setResult.  The deferred calls run last-in first-out: mu.Unlock before  *)
(* setDone, and setDone on every path, the refused ones included.          *)

SetResult(s, r) ==
  /\ pc[s] = "call"
  /\ arg' = [arg EXCEPT ![s] = r]
  /\ Goto(s, "select")
  /\ UNCHANGED <<done, res, writer, readers, ret>>

SelectClosed(s) ==
  /\ pc[s] = "select"
  /\ done
  /\ ret' = [ret EXCEPT ![s] = AlreadySet]
  /\ Goto(s, "setDone")
  /\ UNCHANGED <<done, res, writer, readers, arg>>

SelectDefault(s) ==
  /\ pc[s] = "select"
  /\ ~done
  /\ Goto(s, "lock")
  /\ UNCHANGED <<done, res, writer, readers, arg, ret>>

Lock(s) ==
  /\ pc[s] = "lock"
  /\ writer = Nobody
  /\ readers = {}
  /\ writer' = s
  /\ Goto(s, "store")
  /\ UNCHANGED <<done, res, readers, arg, ret>>

Store(s) ==
  /\ pc[s] = "store"
  /\ IF res # NoResult
       THEN /\ ret' = [ret EXCEPT ![s] = AlreadySet]
            /\ UNCHANGED res
       ELSE /\ res' = arg[s]
            /\ ret' = [ret EXCEPT ![s] = Won]
  /\ Goto(s, "unlock")
  /\ UNCHANGED <<done, writer, readers, arg>>

Unlock(s) ==
  /\ pc[s] = "unlock"
  /\ writer' = Nobody
  /\ Goto(s, "setDone")
  /\ UNCHANGED <<done, res, readers, arg, ret>>

SetDone(s) ==
  /\ pc[s] = "setDone"
  /\ done' = TRUE
  /\ Goto(s, "returned")
  /\ UNCHANGED <<res, writer, readers, arg, ret>>

-----------------------------------------------------------------------------
(* Wait and WaitWithContext.                                               *)

StartWait(w) ==
  /\ pc[w] = "call"
  /\ Goto(w, "wait")
  /\ UNCHANGED <<done, res, writer, readers, arg, ret>>

WakeUp(w) ==
  /\ pc[w] = "wait"
  /\ done
  /\ Goto(w, "rlock")
  /\ UNCHANGED <<done, res, writer, readers, arg, ret>>

\* The context may end at any time; with the channel closed too, `select`
\* takes either branch.
CtxDone(w) ==
  /\ w \in CtxWaiters
  /\ pc[w] = "wait"
  /\ ret' = [ret EXCEPT ![w] = Cancelled]
  /\ Goto(w, "returned")
  /\ UNCHANGED <<done, res, writer, readers, arg>>

RLock(w) ==
  /\ pc[w] = "rlock"
  /\ writer = Nobody
  /\ readers' = readers \cup {w}
  /\ Goto(w, "read")
  /\ UNCHANGED <<done, res, writer, arg, ret>>

Read(w) ==
  /\ pc[w] = "read"
  /\ ret' = [ret EXCEPT ![w] = res]
  /\ readers' = readers \ {w}
  /\ Goto(w, "returned")
  /\ UNCHANGED <<done, res, writer, arg>>

-----------------------------------------------------------------------------
SetterStep(s) == \/ SelectClosed(s) \/ SelectDefault(s)
                 \/ Lock(s) \/ Store(s) \/ Unlock(s) \/ SetDone(s)

WaiterStep(w) == WakeUp(w) \/ RLock(w) \/ Read(w)

Next == \/ \E s \in Setters : SetterStep(s) \/ \E r \in Results : SetResult(s, r)
        \/ \E w \in Waiters : WaiterStep(w) \/ StartWait(w) \/ CtxDone(w)

Spec == Init /\ [][Next]_vars

\* A goroutine that has entered a method is scheduled again; nobody has to
\* call one, and no context has to end.
Fairness == /\ \A s \in Setters : WF_vars(SetterStep(s))
            /\ \A w \in Waiters : WF_vars(WaiterStep(w))

FairSpec == Spec /\ Fairness
-----------------------------------------------------------------------------
\* No waiter that has been let through the channel can find s.res still nil:
\* `return s.res.value` would panic.
NoNilResult == \A w \in Waiters : pc[w] \in {"rlock", "read"} => res # NoResult

\* At most one setter ever reports success, and the result kept is its own,
\* for good: this is the "once" of SetOnce.
WinnersResultKept ==
  \A s \in Setters : ret[s] = Won =>
    /\ res = arg[s]
    /\ \A t \in Setters : ret[t] = Won => t = s

\* A write of s.res never overlaps a reader of it, nor another writer: the
\* mutex really covers it.
MutexCovers ==
  /\ \A s \in Setters : pc[s] \in {"store", "unlock"} => writer = s
  /\ \A w \in Waiters : pc[w] = "read" => writer = Nobody /\ w \in readers

\* Once a setter has entered setResult, every waiter without a context
\* returns, whoever wins and whichever path the others take.
WaitersReleased ==
  \A s \in Setters, w \in Waiters :
    (pc[s] # "call" /\ pc[w] # "call") ~> (pc[w] = "returned")

\* The code implements the abstract write-once cell.
Abstract == INSTANCE SetOnceSpec WITH val <- res, answer <- ret
Refinement == Abstract!ASpec
=============================================================================
