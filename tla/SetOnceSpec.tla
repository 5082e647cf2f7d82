---------------------------- MODULE SetOnceSpec ----------------------------
(***************************************************************************)
(* What packages/shared/pkg/utils/set_once.go promises its callers: a cell *)
(* that is given a result at most once, whose setters learn whether they   *)
(* were the one, and whose waiters all receive that one result.            *)
(***************************************************************************)
CONSTANTS Setters,      \* calls of SetValue / SetError
          Waiters,      \* calls of Wait / WaitWithContext
          CtxWaiters,   \* the waiters that pass a context
          Results,      \* values and errors a setter may bring
          NoResult,     \* the cell before the first set
          Won,          \* a setter's nil error
          AlreadySet,   \* a setter's "value already set"
          Cancelled,    \* a waiter's ctx.Err()
          Pending       \* a call that has not returned

VARIABLES val,          \* the cell
          answer        \* what each call returned

avars == <<val, answer>>

AInit == /\ val = NoResult
         /\ answer = [c \in Setters \cup Waiters |-> Pending]

ASet(s) == /\ answer[s] = Pending
           /\ val = NoResult
           /\ val' \in Results
           /\ answer' = [answer EXCEPT ![s] = Won]

ARefuse(s) == /\ answer[s] = Pending
              /\ val # NoResult
              /\ answer' = [answer EXCEPT ![s] = AlreadySet]
              /\ UNCHANGED val

AWait(w) == /\ answer[w] = Pending
            /\ val # NoResult
            /\ answer' = [answer EXCEPT ![w] = val]
            /\ UNCHANGED val

ACancel(w) == /\ w \in CtxWaiters
              /\ answer[w] = Pending
              /\ answer' = [answer EXCEPT ![w] = Cancelled]
              /\ UNCHANGED val

ANext == \/ \E s \in Setters : ASet(s) \/ ARefuse(s)
         \/ \E w \in Waiters : AWait(w) \/ ACancel(w)

ASpec == AInit /\ [][ANext]_avars
=============================================================================
