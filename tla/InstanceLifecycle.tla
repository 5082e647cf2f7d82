------------------------- MODULE InstanceLifecycle -------------------------
(***************************************************************************)
(* What the API's instance cache promises about every InstanceInfo handed  *)
(* to it: it is cached or refused once, it is the only cached instance of  *)
(* its sandbox, and a cached one leaves exactly once, through one run of   *)
(* the delete hook.                                                        *)
(***************************************************************************)
CONSTANTS Sandboxes, Instances, NoSandbox

VARIABLES owner,     \* the sandbox an instance belongs to
          phase      \* "new", "refused", "cached", "evicted" or "gone"

lvars == <<owner, phase>>

LInit == /\ owner = [i \in Instances |-> NoSandbox]
         /\ phase = [i \in Instances |-> "new"]

CachedFor(s) == {i \in Instances : phase[i] = "cached" /\ owner[i] = s}

LInsert(i, s) == /\ phase[i] = "new"
                 /\ CachedFor(s) = {}
                 /\ owner' = [owner EXCEPT ![i] = s]
                 /\ phase' = [phase EXCEPT ![i] = "cached"]

LRefuse(i, s) == /\ phase[i] = "new"
                 /\ CachedFor(s) # {}
                 /\ owner' = [owner EXCEPT ![i] = s]
                 /\ phase' = [phase EXCEPT ![i] = "refused"]

LEvict(i) == /\ phase[i] = "cached"
             /\ phase' = [phase EXCEPT ![i] = "evicted"]
             /\ UNCHANGED owner

LFinish(i) == /\ phase[i] = "evicted"
              /\ phase' = [phase EXCEPT ![i] = "gone"]
              /\ UNCHANGED owner

LNext == \E i \in Instances :
           \/ \E s \in Sandboxes : LInsert(i, s) \/ LRefuse(i, s)
           \/ LEvict(i) \/ LFinish(i)

LSpec == LInit /\ [][LNext]_lvars
=============================================================================
