--------------------------- MODULE SlotOwnership ---------------------------
(***************************************************************************)
(* What a node promises about its network slots: a slot is reserved before *)
(* it is used, it waits in the pool or is held by one sandbox, a sandbox   *)
(* gets one slot in its life and gives it back once.  A slot may get lost  *)
(* (reserved, and nobody's) but is then never handed out.                  *)
(***************************************************************************)
CONSTANTS Slots, Calls, NoSlot

VARIABLES reserved,  \* slots with a key in Consul
          pooled,    \* slots that wait for a sandbox
          holds,     \* the slot each sandbox holds
          served     \* sandboxes that were handed a slot

ovars == <<reserved, pooled, holds, served>>

OInit == /\ reserved = {}
         /\ pooled = {}
         /\ holds = [c \in Calls |-> NoSlot]
         /\ served = {}

OReserve(k) == /\ k \notin reserved
               /\ reserved' = reserved \cup {k}
               /\ pooled' \in {pooled, pooled \cup {k}}
               /\ UNCHANGED <<holds, served>>

\* Its network could not be set up.
ODrop(k) == /\ k \in pooled
            /\ pooled' = pooled \ {k}
            /\ reserved' \in {reserved, reserved \ {k}}
            /\ UNCHANGED <<holds, served>>

OHand(k, c) == /\ k \in pooled
               /\ c \notin served
               /\ pooled' = pooled \ {k}
               /\ holds' = [holds EXCEPT ![c] = k]
               /\ served' = served \cup {c}
               /\ UNCHANGED reserved

OGiveBack(c) == /\ holds[c] # NoSlot
                /\ holds' = [holds EXCEPT ![c] = NoSlot]
                /\ \/ pooled' = pooled \cup {holds[c]} /\ UNCHANGED reserved
                   \/ UNCHANGED pooled /\ reserved' \in {reserved, reserved \ {holds[c]}}
                /\ UNCHANGED served

\* The node's process ends: Consul remembers, the process does not.
OCrash == /\ pooled' = {}
          /\ holds' = [c \in Calls |-> NoSlot]
          /\ served' \in SUBSET Calls
          /\ served \subseteq served'
          /\ UNCHANGED reserved

ONext == \/ \E k \in Slots : OReserve(k) \/ ODrop(k) \/ \E c \in Calls : OHand(k, c)
         \/ \E c \in Calls : OGiveBack(c)
         \/ OCrash

OSpec == OInit /\ [][ONext]_ovars

\* No two sandboxes hold the same slot, and no held slot waits in the pool.
Apart == /\ \A c, d \in Calls : c # d /\ holds[c] # NoSlot => holds[c] # holds[d]
         /\ \A c \in Calls : holds[c] \notin pooled
=============================================================================
