---------------------------- MODULE NetworkPool ----------------------------
(***************************************************************************)
(* A node's pool of network slots                                          *)
(* (packages/orchestrator/internal/sandbox/network/pool.go, slot.go): the  *)
(* goroutine that keeps creating new ones, the channel of new ones, the    *)
(* channel of those given back, and the keys in Consul that reserve them.  *)
(* The node's server (NodeServer) takes its steps.                         *)
(***************************************************************************)
EXTENDS Integers, Sequences

CONSTANTS
  Slots,                \* slot indices, 0 .. slotsSize - 1 in the code
  Calls,                \* Create calls of the node's server, one sandbox each
  NewSlotsPoolSize,
  ReusedSlotsPoolSize,
  MaxKvFaults,          \* Consul calls that fail (bound)
  NoSlot

ASSUME PoolAssumption ==
  /\ NoSlot \notin Slots
  /\ NewSlotsPoolSize \in Nat \ {0, 1}
  /\ ReusedSlotsPoolSize \in Nat
  /\ MaxKvFaults \in Nat

VARIABLES
  kv,           \* slots whose key is in Consul
  newSlots,     \* the channel populate fills
  reusedSlots,  \* the channel Return fills
  popSlot,      \* the slot populate has in hand
  ips,          \* the slot a Create call was given
  kvFaults

poolVars == <<kv, newSlots, reusedSlots, popSlot, ips, kvFaults>>

PoolTypeOK ==
  /\ kv \subseteq Slots
  /\ newSlots \in Seq(Slots)
  /\ reusedSlots \in Seq(Slots)
  /\ Len(newSlots) < NewSlotsPoolSize
  /\ Len(reusedSlots) <= ReusedSlotsPoolSize
  /\ popSlot \in Slots \cup {NoSlot}
  /\ ips \in [Calls -> Slots \cup {NoSlot}]
  /\ kvFaults \in 0..MaxKvFaults

PoolInit == /\ kv = {}
            /\ newSlots = <<>>
            /\ reusedSlots = <<>>
            /\ popSlot = NoSlot
            /\ ips = [c \in Calls |-> NoSlot]
            /\ kvFaults = 0

Fault == kvFaults < MaxKvFaults /\ kvFaults' = kvFaults + 1
-----------------------------------------------------------------------------
\* (Fault) The key is put, not compared and set: what the process has in the
\* pool it knows, what others have it does not.
CreateNetworkSlotBlindly == /\ popSlot = NoSlot
                            /\ \E k \in Slots :
                                 /\ \A i \in DOMAIN newSlots : newSlots[i] # k
                                 /\ kv' = kv \cup {k}
                                 /\ popSlot' = k
                            /\ UNCHANGED <<newSlots, reusedSlots, ips, kvFaults>>

\* NewSlot and CreateNetwork, both in this goroutine: the compare-and-set on a
\* key that does not exist yet, and the slot's network.
CreateNetworkSlot == /\ popSlot = NoSlot
                     /\ \E k \in Slots \ kv :
                          /\ kv' = kv \cup {k}
                          /\ popSlot' = k
                     /\ UNCHANGED <<newSlots, reusedSlots, ips, kvFaults>>

\* The answer of the compare-and-set was lost, or the network failed and the
\* key could not be deleted: populate tries another slot, nobody has this one.
\* (A failure that deletes the key changes nothing.)
CreateNetworkSlotFails == /\ popSlot = NoSlot
                          /\ \E k \in Slots \ kv : kv' = kv \cup {k}
                          /\ Fault
                          /\ UNCHANGED <<newSlots, reusedSlots, popSlot, ips>>

\* Slot.Release deletes the key, unless Consul fails.
Release(k) == \/ kv' = kv \ {k} /\ UNCHANGED kvFaults
              \/ UNCHANGED kv /\ Fault

\* The channel has room for one less than the pool's size: the last one is
\* in populate's hand.
PopulateSend == /\ popSlot # NoSlot
                /\ Len(newSlots) < NewSlotsPoolSize - 1
                /\ newSlots' = Append(newSlots, popSlot)
                /\ popSlot' = NoSlot
                /\ UNCHANGED <<kv, reusedSlots, ips, kvFaults>>

Populate == CreateNetworkSlot \/ CreateNetworkSlotFails \/ PopulateSend
-----------------------------------------------------------------------------
\* Pool.Get prefers a reused slot; when there is none at that moment it waits
\* for a new one, and only for a new one.
TakeReused(c) == /\ reusedSlots # <<>>
                 /\ ips' = [ips EXCEPT ![c] = Head(reusedSlots)]
                 /\ reusedSlots' = Tail(reusedSlots)
                 /\ UNCHANGED <<kv, newSlots, popSlot, kvFaults>>

TakeNew(c) == /\ newSlots # <<>>
              /\ ips' = [ips EXCEPT ![c] = Head(newSlots)]
              /\ newSlots' = Tail(newSlots)
              /\ UNCHANGED <<kv, reusedSlots, popSlot, kvFaults>>

\* Pool.Return: back into the channel, or removed when that is full.
Return(c) == /\ \/ /\ Len(reusedSlots) < ReusedSlotsPoolSize
                   /\ reusedSlots' = Append(reusedSlots, ips[c])
                   /\ UNCHANGED <<kv, kvFaults>>
                \/ /\ Len(reusedSlots) = ReusedSlotsPoolSize
                   /\ Release(ips[c])
                   /\ UNCHANGED reusedSlots
             /\ UNCHANGED <<newSlots, popSlot, ips>>

\* A new process of the node's server starts with an empty pool.
PoolRestart == /\ newSlots' = <<>>
               /\ reusedSlots' = <<>>
               /\ popSlot' = NoSlot
               /\ UNCHANGED <<kv, ips, kvFaults>>
=============================================================================
