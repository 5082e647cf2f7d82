-------------------------- MODULE ProcessStreamsProofs --------------------------
(***************************************************************************)
(* What ProcessStreams shows TLC for two requests and two chunks, proved   *)
(* for any number of requests, any buffer and any output.                  *)
(***************************************************************************)
EXTENDS ProcessStreams, TLAPS

-----------------------------------------------------------------------------
(* Facts on the sequences of consumers.                                     *)

LEMMA WithoutType ==
  ASSUME NEW S, NEW q \in Seq(S), NEW i \in DOMAIN q
  PROVE  /\ Without(q, i) \in Seq(S) /\ Len(Without(q, i)) = Len(q) - 1
         /\ \A j \in 1 .. Len(q) - 1 : Without(q, i)[j] = IF i <= j THEN q[j + 1] ELSE q[j]
<1>1. Len(q) \in Nat /\ Len(q) >= 1 /\ i \in 1 .. Len(q)
  OBVIOUS
<1>2. \A j \in 1 .. Len(q) - 1 : (IF i <= j THEN q[j + 1] ELSE q[j]) \in S
  BY <1>1
<1>3. Without(q, i) \in [1 .. Len(q) - 1 -> S]
  BY <1>2 DEF Without
<1>4. Len(q) - 1 \in Nat
  BY <1>1
<1> QED BY <1>3, <1>4 DEF Without

LEMMA ShiftedType ==
  ASSUME NEW i \in Nat, view \in Seq(Streams), channels \in [Muxes -> Seq(Streams)]
  PROVE  ShiftedView(i) \in Seq(Streams)
<1> DEFINE cells == channels["data"]
<1>1. cells \in Seq(Streams)
  BY DEF Muxes
<1>2. \A j \in DOMAIN view : (IF i <= j /\ j < Len(cells) THEN cells[j + 1] ELSE view[j]) \in Streams
  <2> TAKE j \in DOMAIN view
  <2>1. j \in Nat /\ j >= 1 /\ view[j] \in Streams
    OBVIOUS
  <2>2. ASSUME i <= j, j < Len(cells) PROVE cells[j + 1] \in Streams
    BY <1>1, <2>1, <2>2
  <2> QED BY <2>1, <2>2
<1>3. ShiftedView(i) \in [1 .. Len(view) -> Streams]
  BY <1>2 DEF ShiftedView
<1>4. Len(view) \in Nat
  OBVIOUS
<1> QED BY <1>3, <1>4

LEMMA GrownCapacity ==
  ASSUME capacity \in Nat, GrowArray
  PROVE  capacity' \in Nat /\ shared' = FALSE /\ view' = view
<1>1. capacity' = IF capacity = 0 THEN 1 ELSE 2 * capacity
  BY DEF GrowArray
<1>2. capacity' \in Nat
  BY <1>1
<1> QED BY <1>2, Zenon DEF GrowArray

-----------------------------------------------------------------------------
(* Types.                                                                   *)

LEMMA TypeInit == Init => TypeOK
<1> SUFFICES ASSUME Init PROVE TypeOK
  OBVIOUS
<1> USE BoundsAssumption DEF Init, Muxes
<1>1. /\ source \in Seq(Chunks) /\ Len(source) <= outputBufferSize
      /\ channels \in [Muxes -> Seq(Streams)] /\ view \in Seq(Streams)
      /\ got \in [Streams -> Seq(0 .. MaxOutput)] /\ since \in [Streams -> 0 .. MaxOutput]
  OBVIOUS
<1>2. /\ fan \in [Muxes -> {"recv", "lock", "send", "range", "close", "done"}]
      /\ item \in [Muxes -> 0 .. MaxOutput] /\ at \in [Muxes -> Nat \ {0}]
  BY DEF End
<1>3. /\ handler \in [Streams -> HandlerPC]
      /\ sub \in [Streams -> {"none", "start", "data", "end", "done"}]
      /\ cancelled \in [Streams -> BOOLEAN] /\ leaves \in 0 .. MaxLeaves
  BY DEF HandlerPC
<1>4. 0 \in 0 .. MaxOutput /\ 0 \in Nat
  BY BoundsAssumption
<1>5. /\ kind \in Kinds /\ emitted \in 0 .. MaxOutput /\ capacity \in Nat
      /\ shut \subseteq Streams
  BY <1>4, Zenon
<1>6. eof \in BOOLEAN /\ listed \in BOOLEAN /\ crashed \in BOOLEAN /\ sourceClosed \in BOOLEAN
  BY Zenon
<1>7. exited \in BOOLEAN /\ shared \in BOOLEAN /\ proc = "new" /\ waiter = "none"
  BY Zenon
<1> QED BY <1>1, <1>2, <1>3, <1>5, <1>6, <1>7 DEF TypeOK

\* TypeOK by what changes together.
ProcessTypes == /\ kind \in Kinds /\ proc \in {"new", "running", "exited", "failed"}
                /\ emitted \in 0 .. MaxOutput /\ eof \in BOOLEAN /\ listed \in BOOLEAN
                /\ waiter \in {"none", "output", "reap", "send", "delete", "done"}
                /\ crashed \in BOOLEAN
PipeTypes    == /\ source \in Seq(Chunks) /\ Len(source) <= outputBufferSize
                /\ sourceClosed \in BOOLEAN
MuxTypes     == /\ channels \in [Muxes -> Seq(Streams)] /\ capacity \in Nat
                /\ fan \in [Muxes -> {"recv", "lock", "send", "range", "close", "done"}]
                /\ item \in [Muxes -> 0 .. MaxOutput] /\ at \in [Muxes -> Nat \ {0}]
ClosingTypes == /\ exited \in BOOLEAN /\ view \in Seq(Streams) /\ shared \in BOOLEAN
                /\ shut \subseteq Streams
CallTypes    == /\ handler \in [Streams -> HandlerPC]
                /\ sub \in [Streams -> {"none", "start", "data", "end", "done"}]
                /\ cancelled \in [Streams -> BOOLEAN] /\ leaves \in 0 .. MaxLeaves
SentTypes    == got \in [Streams -> Seq(0 .. MaxOutput)] /\ since \in [Streams -> 0 .. MaxOutput]

LEMMA TypeGroups ==
  TypeOK <=> ProcessTypes /\ PipeTypes /\ MuxTypes /\ ClosingTypes /\ CallTypes /\ SentTypes
BY Zenon DEF TypeOK, ProcessTypes, PipeTypes, MuxTypes, ClosingTypes, CallTypes, SentTypes

LEMMA TypeGroupsNext ==
  ASSUME ProcessTypes', PipeTypes', MuxTypes', ClosingTypes', CallTypes', SentTypes' PROVE TypeOK'
BY Zenon DEF TypeOK, ProcessTypes, PipeTypes, MuxTypes, ClosingTypes, CallTypes, SentTypes

\* What a step leaves alone keeps its type.
LEMMA TypeKept ==
  ASSUME TypeOK
  PROVE  /\ UNCHANGED <<process, crashed>> => ProcessTypes'
         /\ UNCHANGED pipe => PipeTypes'
         /\ UNCHANGED mux => MuxTypes'
         /\ UNCHANGED closing => ClosingTypes'
         /\ UNCHANGED calls => CallTypes'
         /\ UNCHANGED sent => SentTypes'
<1> USE TypeGroups
<1>1. UNCHANGED <<process, crashed>> => ProcessTypes'
  BY DEF process, ProcessTypes
<1>2. UNCHANGED pipe => PipeTypes'
  BY DEF pipe, PipeTypes
<1>3. UNCHANGED mux => MuxTypes'
  BY DEF mux, MuxTypes
<1>4. UNCHANGED closing => ClosingTypes'
  BY DEF closing, ClosingTypes
<1>5. UNCHANGED calls => CallTypes'
  BY DEF calls, CallTypes
<1>6. UNCHANGED sent => SentTypes'
  BY DEF sent, SentTypes
<1> QED BY <1>1, <1>2, <1>3, <1>4, <1>5, <1>6

\* The process, Handler.Wait and the goroutines of the multiplexers.
LEMMA TypeMux ==
  ASSUME TypeOK, Output \/ OutputEnds \/ Exits \/ Wait \/ Multiplex
  PROVE  TypeOK'
<1>0. ProcessTypes /\ PipeTypes /\ MuxTypes /\ ClosingTypes /\ CallTypes /\ SentTypes
  BY TypeGroups
<1> USE BoundsAssumption DEF Muxes, Chunks, End
<1>1. CASE Output
  <2>1. ProcessTypes'
    BY <1>1, <1>0 DEF Output, ProcessTypes
  <2>2. PipeTypes'
    <3>1. emitted + 1 \in 1 .. MaxOutput
      BY <1>1, <1>0 DEF Output, ProcessTypes
    <3>2. source' = Append(source, emitted + 1) /\ Len(source) < outputBufferSize /\ sourceClosed' = sourceClosed
      BY <1>1 DEF Output
    <3> QED BY <1>0, <3>1, <3>2 DEF PipeTypes
  <2>3. UNCHANGED <<mux, closing, calls, sent>>
    BY <1>1 DEF Output
  <2> QED BY <2>1, <2>2, <2>3, TypeKept, TypeGroupsNext
<1>2. CASE OutputEnds
  <2>1. ProcessTypes'
    BY <1>2, <1>0 DEF OutputEnds, ProcessTypes
  <2>2. UNCHANGED <<pipe, mux, closing, calls, sent>>
    BY <1>2 DEF OutputEnds
  <2> QED BY <2>1, <2>2, TypeKept, TypeGroupsNext
<1>3. CASE Exits
  <2>1. ProcessTypes'
    BY <1>3, <1>0 DEF Exits, ProcessTypes
  <2>2. UNCHANGED <<pipe, mux, closing, calls, sent>>
    BY <1>3 DEF Exits
  <2> QED BY <2>1, <2>2, TypeKept, TypeGroupsNext
<1>4. CASE CloseSource
  <2>1. ProcessTypes'
    BY <1>4, <1>0 DEF CloseSource, ProcessTypes
  <2>2. PipeTypes'
    BY <1>4, <1>0 DEF CloseSource, PipeTypes
  <2>3. UNCHANGED <<mux, closing, calls, sent>>
    BY <1>4 DEF CloseSource
  <2> QED BY <2>1, <2>2, <2>3, TypeKept, TypeGroupsNext
<1>5. CASE Reap
  <2>1. ProcessTypes'
    BY <1>5, <1>0 DEF Reap, ProcessTypes
  <2>2. UNCHANGED <<pipe, mux, closing, calls, sent>>
    BY <1>5 DEF Reap
  <2> QED BY <2>1, <2>2, TypeKept, TypeGroupsNext
<1>6. CASE SendEnd
  <2>1. ProcessTypes'
    BY <1>6, <1>0 DEF SendEnd, ProcessTypes
  <2>2. MuxTypes'
    BY <1>6, <1>0 DEF SendEnd, MuxTypes
  <2>3. UNCHANGED <<pipe, closing, calls, sent>>
    BY <1>6 DEF SendEnd
  <2> QED BY <2>1, <2>2, <2>3, TypeKept, TypeGroupsNext
<1>7. CASE DeleteEntry
  <2>1. ProcessTypes'
    BY <1>7, <1>0 DEF DeleteEntry, ProcessTypes
  <2>2. UNCHANGED <<pipe, mux, closing, calls, sent>>
    BY <1>7 DEF DeleteEntry
  <2> QED BY <2>1, <2>2, TypeKept, TypeGroupsNext
<1>8. CASE Receive
  <2>1. PipeTypes'
    <3>1. source' = Tail(source) /\ source # <<>> /\ sourceClosed' = sourceClosed
      BY <1>8 DEF Receive
    <3> QED BY <1>0, <3>1 DEF PipeTypes
  <2>2. MuxTypes'
    <3>1. Head(source) \in 0 .. MaxOutput
      BY <1>8, <1>0 DEF Receive, PipeTypes
    <3> QED BY <1>8, <1>0, <3>1 DEF Receive, MuxTypes
  <2>3. UNCHANGED <<<<process, crashed>>, closing, calls, sent>>
    BY <1>8 DEF Receive
  <2> QED BY <2>1, <2>2, <2>3, TypeKept, TypeGroupsNext
<1>9. CASE Exited
  <2>1. MuxTypes'
    BY <1>9, <1>0 DEF Exited, MuxTypes
  <2>2. ClosingTypes'
    BY <1>9, <1>0 DEF Exited, ClosingTypes
  <2>3. UNCHANGED <<<<process, crashed>>, pipe, calls, sent>>
    BY <1>9 DEF Exited
  <2> QED BY <2>1, <2>2, <2>3, TypeKept, TypeGroupsNext
<1>10. CASE Range
  <2>1. MuxTypes'
    BY <1>10, <1>0 DEF Range, MuxTypes
  <2>2. ClosingTypes'
    BY <1>10, <1>0 DEF Range, MuxTypes, ClosingTypes
  <2>3. UNCHANGED <<<<process, crashed>>, pipe, calls, sent>>
    BY <1>10 DEF Range
  <2> QED BY <2>1, <2>2, <2>3, TypeKept, TypeGroupsNext
<1>11. CASE CloseNext
  <2>1. ProcessTypes'
    <3>1. crashed' = (view[at["data"]] \in shut) /\ UNCHANGED process
      BY <1>11 DEF CloseNext
    <3> QED BY <1>0, <3>1 DEF process, ProcessTypes
  <2>2. MuxTypes'
    <3>1. at' = [at EXCEPT !["data"] = @ + 1] /\ UNCHANGED <<channels, capacity, fan, item>>
      BY <1>11 DEF CloseNext
    <3> QED BY <1>0, <3>1 DEF MuxTypes
  <2>3. ClosingTypes'
    <3>1. /\ at["data"] <= Len(view) /\ shut' = shut \cup {view[at["data"]]}
          /\ UNCHANGED <<exited, view, shared>>
      BY <1>11 DEF CloseNext
    <3>2. view[at["data"]] \in Streams
      BY <1>0, <3>1 DEF MuxTypes, ClosingTypes
    <3> QED BY <1>0, <3>1, <3>2 DEF ClosingTypes
  <2>4. UNCHANGED <<pipe, calls, sent>>
    BY <1>11 DEF CloseNext
  <2> QED BY <2>1, <2>2, <2>3, <2>4, TypeKept, TypeGroupsNext
<1>12. CASE AllClosed
  <2>1. MuxTypes'
    BY <1>12, <1>0 DEF AllClosed, MuxTypes
  <2>2. ClosingTypes'
    <3>1. exited' = exited /\ view' = <<>> /\ shared' = FALSE /\ shut' = shut
      BY <1>12 DEF AllClosed
    <3>2. <<>> \in Seq(Streams)
      OBVIOUS
    <3> QED BY <1>0, <3>1, <3>2, Zenon DEF ClosingTypes
  <2>3. UNCHANGED <<<<process, crashed>>, pipe, calls, sent>>
    BY <1>12 DEF AllClosed
  <2> QED BY <2>1, <2>2, <2>3, TypeKept, TypeGroupsNext
<1>13. ASSUME NEW m \in {"data", "end"}, RLock(m) PROVE TypeOK'
  <2>1. MuxTypes'
    BY <1>13, <1>0 DEF RLock, MuxTypes
  <2>2. UNCHANGED <<<<process, crashed>>, pipe, closing, calls, sent>>
    BY <1>13 DEF RLock
  <2> QED BY <2>1, <2>2, TypeKept, TypeGroupsNext
<1>14. ASSUME NEW m \in {"data", "end"}, RUnlock(m) PROVE TypeOK'
  <2>1. MuxTypes'
    BY <1>14, <1>0 DEF RUnlock, MuxTypes
  <2>2. UNCHANGED <<<<process, crashed>>, pipe, closing, calls, sent>>
    BY <1>14 DEF RUnlock
  <2> QED BY <2>1, <2>2, TypeKept, TypeGroupsNext
<1> QED BY <1>1, <1>2, <1>3, <1>4, <1>5, <1>6, <1>7, <1>8, <1>9, <1>10, <1>11, <1>12, <1>13, <1>14
        DEF Wait, Multiplex

\* The requests.
LEMMA TypeStream ==
  ASSUME TypeOK, NEW s \in Streams,
         New(s) \/ Connect(s) \/ ClientLeaves(s) \/ Handle(s) \/ Stream(s)
  PROVE  TypeOK'
<1>0. ProcessTypes /\ PipeTypes /\ MuxTypes /\ ClosingTypes /\ CallTypes /\ SentTypes
  BY TypeGroups
<1> USE BoundsAssumption DEF Muxes, End, HandlerPC
<1>1. CASE New(s)
  <2>1. ProcessTypes'
    BY <1>1, <1>0 DEF New, ProcessTypes
  <2>2. CallTypes'
    BY <1>1, <1>0 DEF New, CallTypes, GoTo
  <2>3. UNCHANGED <<pipe, mux, closing, sent>>
    BY <1>1 DEF New
  <2> QED BY <2>1, <2>2, <2>3, TypeKept, TypeGroupsNext
<1>2. CASE Connect(s)
  <2>1. CallTypes'
    BY <1>2, <1>0 DEF Connect, CallTypes, GoTo
  <2>2. UNCHANGED <<<<process, crashed>>, pipe, mux, closing, sent>>
    BY <1>2 DEF Connect
  <2> QED BY <2>1, <2>2, TypeKept, TypeGroupsNext
<1>3. CASE ClientLeaves(s)
  <2>1. CallTypes'
    BY <1>3, <1>0 DEF ClientLeaves, CallTypes
  <2>2. UNCHANGED <<<<process, crashed>>, pipe, mux, closing, sent>>
    BY <1>3 DEF ClientLeaves
  <2> QED BY <2>1, <2>2, TypeKept, TypeGroupsNext
<1>4. CASE CmdStart(s)
  <2>1. ProcessTypes'
    BY <1>4, <1>0 DEF CmdStart, ProcessTypes
  <2>2. CallTypes'
    BY <1>4, <1>0 DEF CmdStart, CallTypes, GoTo
  <2>3. UNCHANGED <<pipe, mux, closing, sent>>
    BY <1>4 DEF CmdStart
  <2> QED BY <2>1, <2>2, <2>3, TypeKept, TypeGroupsNext
<1>5. CASE CmdStartFails(s)
  <2>1. ProcessTypes'
    BY <1>5, <1>0 DEF CmdStartFails, ProcessTypes
  <2>2. CallTypes'
    BY <1>5, <1>0 DEF CmdStartFails, CallTypes, GoTo
  <2>3. UNCHANGED <<pipe, mux, closing, sent>>
    BY <1>5 DEF CmdStartFails
  <2> QED BY <2>1, <2>2, <2>3, TypeKept, TypeGroupsNext
<1>6. CASE Store(s)
  <2>1. ProcessTypes'
    BY <1>6, <1>0 DEF Store, ProcessTypes
  <2>2. CallTypes'
    BY <1>6, <1>0 DEF Store, CallTypes, GoTo
  <2>3. UNCHANGED <<pipe, mux, closing, sent>>
    BY <1>6 DEF Store
  <2> QED BY <2>1, <2>2, <2>3, TypeKept, TypeGroupsNext
<1>7. CASE SendStart(s)
  <2>1. CallTypes'
    <3>1. handler' = [handler EXCEPT ![s] = "goWait"]
      BY <1>7 DEF SendStart, GoTo
    <3>2. sub' \in [Streams -> {"none", "start", "data", "end", "done"}]
      BY <1>7, <1>0 DEF SendStart, CallTypes
    <3>3. UNCHANGED <<cancelled, leaves>>
      BY <1>7 DEF SendStart
    <3> QED BY <1>0, <3>1, <3>2, <3>3 DEF CallTypes
  <2>2. UNCHANGED <<<<process, crashed>>, pipe, mux, closing, sent>>
    BY <1>7 DEF SendStart
  <2> QED BY <2>1, <2>2, TypeKept, TypeGroupsNext
<1>8. CASE GoWait(s)
  <2>1. ProcessTypes'
    BY <1>8, <1>0 DEF GoWait, ProcessTypes
  <2>2. CallTypes'
    BY <1>8, <1>0 DEF GoWait, CallTypes, GoTo
  <2>3. UNCHANGED <<pipe, mux, closing, sent>>
    BY <1>8 DEF GoWait
  <2> QED BY <2>1, <2>2, <2>3, TypeKept, TypeGroupsNext
<1>9. CASE ConnectStarts(s)
  <2>1. CallTypes'
    <3>1. \E pc \in {"select", "removeEnd"} : handler' = [handler EXCEPT ![s] = pc]
      BY <1>9 DEF ConnectStarts, GoTo
    <3>2. sub' \in [Streams -> {"none", "start", "data", "end", "done"}]
      BY <1>9, <1>0 DEF ConnectStarts, CallTypes
    <3>3. UNCHANGED <<cancelled, leaves>>
      BY <1>9 DEF ConnectStarts
    <3> QED BY <1>0, <3>1, <3>2, <3>3 DEF CallTypes
  <2>2. UNCHANGED <<<<process, crashed>>, pipe, mux, closing, sent>>
    BY <1>9 DEF ConnectStarts
  <2> QED BY <2>1, <2>2, TypeKept, TypeGroupsNext
<1>10. CASE Returns(s)
  <2>1. CallTypes'
    BY <1>10, <1>0 DEF Returns, CallTypes, GoTo
  <2>2. UNCHANGED <<<<process, crashed>>, pipe, mux, closing, sent>>
    BY <1>10 DEF Returns
  <2> QED BY <2>1, <2>2, TypeKept, TypeGroupsNext
<1>11. ASSUME NEW m \in {"data", "end"}, Fork(s, m) PROVE TypeOK'
  <2>1. ClosingTypes'
    BY <1>11, <1>0 DEF Fork, ClosingTypes
  <2>2. CallTypes'
    <3>1. \E pc \in {"forkEnd", "joinData", "joinEnd"} : handler' = [handler EXCEPT ![s] = pc]
      BY <1>11 DEF Fork, GoTo, JoinPC
    <3>2. UNCHANGED <<sub, cancelled, leaves>>
      BY <1>11 DEF Fork
    <3> QED BY <1>0, <3>1, <3>2 DEF CallTypes
  <2>3. SentTypes'
    BY <1>11, <1>0 DEF Fork, ProcessTypes, SentTypes
  <2>4. UNCHANGED <<<<process, crashed>>, pipe, mux>>
    BY <1>11 DEF Fork
  <2> QED BY <2>1, <2>2, <2>3, <2>4, TypeKept, TypeGroupsNext
<1>12. ASSUME NEW m \in {"data", "end"}, Join(s, m) PROVE TypeOK'
  <2>1. MuxTypes'
    <3>1. capacity' \in Nat
      BY <1>12, <1>0, GrownCapacity DEF Join, AppendInPlace, MuxTypes
    <3>2. /\ channels' = [channels EXCEPT ![m] = Append(@, s)]
          /\ UNCHANGED <<fan, item, at>>
      BY <1>12 DEF Join
    <3> QED BY <1>0, <3>1, <3>2 DEF MuxTypes
  <2>2. ClosingTypes'
    <3>1. view' = view \/ \E i \in 1 .. Len(view) : view' = [view EXCEPT ![i] = s]
      <4>1. Len(channels["data"]) + 1 >= 1 /\ Len(channels["data"]) + 1 \in Nat
        BY <1>0 DEF MuxTypes
      <4>2. Len(view) \in Nat
        BY <1>0 DEF ClosingTypes
      <4> QED BY <1>12, <4>1, <4>2 DEF Join, GrowArray, AppendInPlace
    <3>2. view' \in Seq(Streams)
      BY <1>0, <3>1 DEF ClosingTypes
    <3>3. shared' \in BOOLEAN
      BY <1>12, <1>0 DEF Join, GrowArray, AppendInPlace, ClosingTypes
    <3>4. UNCHANGED <<exited, shut>>
      BY <1>12 DEF Join
    <3> QED BY <1>0, <3>2, <3>3, <3>4 DEF ClosingTypes
  <2>3. CallTypes'
    <3>1. \E pc \in {"forkEnd", "cmdStart", "sendStart"} : handler' = [handler EXCEPT ![s] = pc]
      BY <1>12 DEF Join, GoTo, Joined
    <3>2. sub' = sub \/ sub' = [sub EXCEPT ![s] = "start"]
      BY <1>12 DEF Join
    <3>3. UNCHANGED <<cancelled, leaves>>
      BY <1>12 DEF Join
    <3> QED BY <1>0, <3>1, <3>2, <3>3 DEF CallTypes
  <2>4. SentTypes'
    <3>1. (since' = since \/ since' = [since EXCEPT ![s] = emitted]) /\ got' = got
      BY <1>12 DEF Join
    <3> QED BY <1>0, <3>1 DEF ProcessTypes, SentTypes
  <2>5. UNCHANGED <<<<process, crashed>>, pipe>>
    BY <1>12 DEF Join
  <2> QED BY <2>1, <2>2, <2>3, <2>4, <2>5, TypeKept, TypeGroupsNext
<1>13. ASSUME NEW m \in {"data", "end"}, Remove(s, m) PROVE TypeOK'
  <2>0. channels' \in [Muxes -> Seq(Streams)] /\ view' \in Seq(Streams)
    <3>1. CASE s \in Consumers(m)
      <4>1. PICK i \in DOMAIN channels[m] :
              /\ channels' = [channels EXCEPT ![m] = Without(@, i)]
              /\ view' = IF m = "data" /\ shared THEN ShiftedView(i) ELSE view
        BY <1>13, <3>1 DEF Remove
      <4>2. channels \in [Muxes -> Seq(Streams)] /\ view \in Seq(Streams)
        BY <1>0 DEF MuxTypes, ClosingTypes
      <4>3. channels[m] \in Seq(Streams)
        BY <4>2
      <4>4. i \in Nat
        BY <4>3
      <4>5. Without(channels[m], i) \in Seq(Streams)
        BY <4>3, WithoutType
      <4>6. ShiftedView(i) \in Seq(Streams)
        BY <4>2, <4>4, ShiftedType
      <4>7. view' \in Seq(Streams)
        BY <4>1, <4>2, <4>6, Zenon
      <4> QED BY <4>1, <4>2, <4>5, <4>7
    <3>2. CASE s \notin Consumers(m)
      <4>1. UNCHANGED <<channels, view>>
        BY <1>13, <3>2 DEF Remove
      <4> QED BY <1>0, <4>1 DEF MuxTypes, ClosingTypes
    <3> QED BY <3>1, <3>2
  <2>1. MuxTypes'
    <3>1. UNCHANGED <<capacity, fan, item, at>>
      BY <1>13 DEF Remove
    <3> QED BY <1>0, <2>0, <3>1 DEF MuxTypes
  <2>2. ClosingTypes'
    <3>1. UNCHANGED <<exited, shared, shut>>
      BY <1>13 DEF Remove
    <3> QED BY <1>0, <2>0, <3>1 DEF ClosingTypes
  <2>3. CallTypes'
    <3>1. \E pc \in {"removeData", "done"} : handler' = [handler EXCEPT ![s] = pc]
      BY <1>13 DEF Remove, GoTo, AfterRemove
    <3>2. cancelled' = cancelled \/ cancelled' = [cancelled EXCEPT ![s] = TRUE]
      BY <1>13 DEF Remove
    <3>3. UNCHANGED <<sub, leaves>>
      BY <1>13 DEF Remove
    <3> QED BY <1>0, <3>1, <3>2, <3>3 DEF CallTypes
  <2>4. UNCHANGED <<<<process, crashed>>, pipe, sent>>
    BY <1>13 DEF Remove
  <2> QED BY <2>1, <2>2, <2>3, <2>4, TypeKept, TypeGroupsNext
<1>14. CASE DataClosed(s)
  <2>1. CallTypes'
    BY <1>14, <1>0 DEF DataClosed, CallTypes
  <2>2. UNCHANGED <<<<process, crashed>>, pipe, mux, closing, sent>>
    BY <1>14 DEF DataClosed
  <2> QED BY <2>1, <2>2, TypeKept, TypeGroupsNext
<1>15. CASE SubCancelled(s)
  <2>1. CallTypes'
    BY <1>15, <1>0 DEF SubCancelled, CallTypes
  <2>2. UNCHANGED <<<<process, crashed>>, pipe, mux, closing, sent>>
    BY <1>15 DEF SubCancelled
  <2> QED BY <2>1, <2>2, TypeKept, TypeGroupsNext
<1>16. ASSUME NEW m \in {"data", "end"}, Deliver(s, m) PROVE TypeOK'
  <2>1. MuxTypes'
    <3>1. at' = [at EXCEPT ![m] = @ + 1] /\ UNCHANGED <<channels, capacity, fan, item>>
      BY <1>16 DEF Deliver
    <3> QED BY <1>0, <3>1 DEF MuxTypes
  <2>2. CallTypes'
    <3>1. sub' = sub \/ sub' = [sub EXCEPT ![s] = "done"]
      BY <1>16 DEF Deliver
    <3>2. UNCHANGED <<handler, cancelled, leaves>>
      BY <1>16 DEF Deliver
    <3> QED BY <1>0, <3>1, <3>2 DEF CallTypes
  <2>3. SentTypes'
    <3>1. got' = [got EXCEPT ![s] = Append(@, item[m])] /\ since' = since
      BY <1>16 DEF Deliver
    <3>2. item[m] \in 0 .. MaxOutput
      BY <1>0 DEF MuxTypes
    <3> QED BY <1>0, <3>1, <3>2 DEF SentTypes
  <2>4. UNCHANGED <<<<process, crashed>>, pipe, closing>>
    BY <1>16 DEF Deliver
  <2> QED BY <2>1, <2>2, <2>3, <2>4, TypeKept, TypeGroupsNext
<1>17. ASSUME NEW m \in {"data", "end"}, DeliverFails(s, m) PROVE TypeOK'
  <2>1. MuxTypes'
    <3>1. at' = [at EXCEPT ![m] = @ + 1] /\ UNCHANGED <<channels, capacity, fan, item>>
      BY <1>17 DEF DeliverFails
    <3> QED BY <1>0, <3>1 DEF MuxTypes
  <2>2. CallTypes'
    BY <1>17, <1>0 DEF DeliverFails, CallTypes
  <2>3. UNCHANGED <<<<process, crashed>>, pipe, closing, sent>>
    BY <1>17 DEF DeliverFails
  <2> QED BY <2>1, <2>2, <2>3, TypeKept, TypeGroupsNext
<1> QED BY <1>1, <1>2, <1>3, <1>4, <1>5, <1>6, <1>7, <1>8, <1>9, <1>10, <1>11, <1>12, <1>13,
           <1>14, <1>15, <1>16, <1>17 DEF Handle, Stream

LEMMA TypeNext == TypeOK /\ [Next]_vars => TypeOK'
<1> SUFFICES ASSUME TypeOK, [Next]_vars PROVE TypeOK'
  OBVIOUS
<1>1. CASE UNCHANGED vars
  BY <1>1 DEF TypeOK, vars, process, pipe, mux, closing, calls, sent
<1>2. CASE Next
  BY <1>2, TypeMux, TypeStream DEF Next
<1> QED BY <1>1, <1>2

(***************************************************************************)
(* Every variable keeps its type; the output waiting for DataEvent never   *)
(* exceeds its buffer.                                                     *)
(***************************************************************************)
THEOREM TypeCorrect == Spec => []TypeOK
BY TypeInit, TypeNext, PTL DEF Spec

-----------------------------------------------------------------------------
(* The invariant.                                                           *)

\* How many chunks DataEvent's goroutine has taken from its buffer.
Taken == emitted - Len(source)

\* The chunks that wait are the next ones; the one that is handed out is the
\* last that was taken; the buffer is closed and empty before the closing loop.
SourceInv ==
  /\ \A i \in DOMAIN source : source[i] = Taken + i
  /\ Len(source) <= emitted
  /\ fan["data"] \in {"lock", "send"} => item["data"] = Taken /\ Taken >= 1
  /\ sourceClosed => eof
  /\ exited => sourceClosed /\ source = <<>>
  /\ exited <=> fan["data"] \in {"range", "close", "done"}

Started == {"idle", "forkData", "joinData", "forkEnd", "joinEnd", "cmdStart", "store",
            "sendStart", "goWait"}

\* The end event is sent once, after the readers and the process have ended, and
\* the process is not started again.
EndInv ==
  /\ waiter \in {"reap", "send", "delete", "done"} => eof
  /\ waiter \in {"send", "delete", "done"} => proc = "exited"
  /\ fan["end"] \in {"recv", "lock", "send"} /\ item["end"] = End
  /\ fan["end"] \in {"lock", "send"} => waiter \in {"delete", "done"}
  /\ handler[StartCall] \in Started => waiter = "none"
  /\ \A s \in Streams : handler[s] \in {"cmdStart", "store", "goWait"} => s = StartCall
  /\ shut # {} => exited
  /\ \A s \in Streams : sub[s] = "end" => exited

\* s joined when DataEvent had exited: there was no output left.
Late(s) == exited /\ since[s] = emitted /\ (sub[s] # "done" => got[s] = <<>>)

InConsumers(s) == s \in Consumers("data") \/ Late(s)

\* InitializeStartProcess joins nothing.
InitInv ==
  kind = "init" => /\ handler[StartCall] \in {"idle", "cmdStart", "store", "goWait", "done"}
                   /\ StartCall \notin Consumers("end")

\* A request that has not joined, or not begun to stream, was sent nothing.
CallInv ==
  /\ InitInv
  /\ \A s \in Streams :
      /\ handler[s] \in {"idle", "forkData", "joinData"} => s \notin Consumers("data")
      /\ handler[s] \in {"idle", "forkData", "joinData", "forkEnd", "joinEnd"} =>
           s \notin Consumers("end") /\ got[s] = <<>> /\ sub[s] = "none"
      /\ handler[s] = "sendStart" /\ s # StartCall => sub[s] = "none"
      /\ handler[s] \in {"forkEnd", "joinEnd"} => InConsumers(s)
      /\ s \in Consumers("end") =>
           /\ InConsumers(s)
           /\ handler[s] \in {"cmdStart", "store", "sendStart", "goWait", "select", "removeEnd"}

IsInjectiveSeq(q) == \A i, j \in DOMAIN q : q[i] = q[j] => i = j

\* The chunk that is handed out has not come to s.
Pending(s) ==
  \/ fan["data"] = "lock"
  \/ /\ fan["data"] = "send"
     /\ \E i \in DOMAIN channels["data"] : channels["data"][i] = s /\ at["data"] <= i

UpTo(s) == IF Pending(s) THEN Taken - 1 ELSE Taken

SentUpTo(s, n) == IF got[s] = <<>> THEN n <= since[s] ELSE got[s][Len(got[s])] = n

\* Every consumer was sent all that was taken, save the chunk that is handed out.
SentInv ==
  /\ \A m \in Muxes : IsInjectiveSeq(channels[m])
  /\ \A s \in Streams : since[s] <= emitted
  /\ \A s \in Streams : s \in Consumers("data") /\ sub[s] # "done" => SentUpTo(s, UpTo(s))

\* What a client was sent; the end event is the last of it.
GotInv ==
  \A s \in Streams : \A i \in DOMAIN got[s] :
    got[s][i] = End => sub[s] = "done" /\ waiter \in {"delete", "done"}

IInv == TypeOK /\ SourceInv /\ EndInv /\ CallInv /\ SentInv /\ GotInv

-----------------------------------------------------------------------------
(* Joining and leaving, as facts on a sequence of consumers.                *)

\* w holds what q does but e, once.
Drops(w, q, e) ==
  /\ IsInjectiveSeq(w)
  /\ \A s : (\E j \in DOMAIN w : w[j] = s) <=> s # e /\ \E j \in DOMAIN q : q[j] = s

LEMMA WithoutElements ==
  ASSUME NEW S, NEW q \in Seq(S), IsInjectiveSeq(q), NEW i \in DOMAIN q
  PROVE  Drops(Without(q, i), q, q[i])
<1> DEFINE w == Without(q, i)
<1>1. /\ w \in Seq(S) /\ Len(w) = Len(q) - 1 /\ Len(q) \in Nat /\ i \in 1 .. Len(q)
      /\ \A j \in 1 .. Len(q) - 1 : w[j] = IF i <= j THEN q[j + 1] ELSE q[j]
  <2>1. Len(q) \in Nat /\ i \in 1 .. Len(q)
    OBVIOUS
  <2> QED BY <2>1, WithoutType, Zenon
<1>2. DOMAIN w = 1 .. Len(q) - 1 /\ DOMAIN q = 1 .. Len(q)
  BY <1>1
<1> HIDE DEF w
<1>3. ASSUME NEW j \in DOMAIN w, NEW k \in DOMAIN w, w[j] = w[k] PROVE j = k
  <2> DEFINE old(n) == IF i <= n THEN n + 1 ELSE n
  <2>1. /\ j \in Nat /\ k \in Nat /\ i \in Nat
        /\ old(j) \in DOMAIN q /\ old(k) \in DOMAIN q
    BY <1>1, <1>2
  <2>2. w[j] = q[old(j)] /\ w[k] = q[old(k)]
    BY <1>1, <1>2
  <2> HIDE DEF old
  <2>3. old(j) = old(k)
    BY <1>3, <2>1, <2>2 DEF IsInjectiveSeq
  <2> QED BY <2>1, <2>3 DEF old
<1>4. ASSUME NEW j \in DOMAIN w PROVE w[j] # q[i] /\ \E k \in DOMAIN q : q[k] = w[j]
  <2>1. \E k \in DOMAIN q : k # i /\ w[j] = q[k]
    <3>1. CASE i <= j
      <4>1. j + 1 \in DOMAIN q /\ j + 1 # i /\ w[j] = q[j + 1]
        BY <1>1, <1>2, <3>1
      <4> QED BY <4>1
    <3>2. CASE ~(i <= j)
      <4>1. j \in DOMAIN q /\ j # i /\ w[j] = q[j]
        BY <1>1, <1>2, <3>2
      <4> QED BY <4>1
    <3> QED BY <3>1, <3>2
  <2> QED BY <2>1 DEF IsInjectiveSeq
<1>5. ASSUME NEW k \in DOMAIN q, q[k] # q[i] PROVE \E j \in DOMAIN w : w[j] = q[k]
  <2>1. CASE k < i
    BY <1>1, <1>2, <2>1
  <2>2. CASE i < k
    <3>1. k - 1 \in DOMAIN w /\ w[k - 1] = q[k]
      BY <1>1, <1>2, <2>2
    <3> QED BY <3>1
  <2>3. k # i
    BY <1>5
  <2> QED BY <1>1, <1>2, <2>1, <2>2, <2>3
<1>6. IsInjectiveSeq(w)
  BY <1>3 DEF IsInjectiveSeq
<1>7. \A s : (\E j \in DOMAIN w : w[j] = s) <=> s # q[i] /\ \E j \in DOMAIN q : q[j] = s
  BY <1>4, <1>5, Zenon
<1> QED BY <1>6, <1>7 DEF w, Drops

LEMMA AppendElements ==
  ASSUME NEW S, NEW q \in Seq(S), IsInjectiveSeq(q), NEW s \in S,
         \A i \in DOMAIN q : q[i] # s
  PROVE  /\ IsInjectiveSeq(Append(q, s))
         /\ \A c : (\E j \in DOMAIN Append(q, s) : Append(q, s)[j] = c)
                     <=> c = s \/ \E j \in DOMAIN q : q[j] = c
<1> DEFINE a == Append(q, s)
<1>1. /\ Len(q) \in Nat /\ Len(a) = Len(q) + 1 /\ DOMAIN a = 1 .. Len(q) + 1
      /\ DOMAIN q = 1 .. Len(q) /\ \A j \in 1 .. Len(q) : a[j] = q[j]
      /\ a[Len(q) + 1] = s
  OBVIOUS
<1> HIDE DEF a
<1>2. IsInjectiveSeq(a)
  BY <1>1 DEF IsInjectiveSeq
<1>3. ASSUME NEW j \in DOMAIN a PROVE a[j] = s \/ \E k \in DOMAIN q : q[k] = a[j]
  BY <1>1
<1>4. \A k \in DOMAIN q : \E j \in DOMAIN a : a[j] = q[k]
  BY <1>1
<1>5. \E j \in DOMAIN a : a[j] = s
  BY <1>1
<1> QED BY <1>2, <1>3, <1>4, <1>5 DEF a

LEMMA InvInit == Init => IInv
<1> SUFFICES ASSUME Init PROVE IInv
  OBVIOUS
<1>1. TypeOK
  BY TypeInit
<1>2. SourceInv
  BY DEF SourceInv, Init, Muxes
<1>3. EndInv
  BY DEF EndInv, Init, Muxes, Started, Streams
<1>4. \A m \in Muxes : channels[m] = <<>>
  BY DEF Init
<1>5. CallInv
  <2>1. \A s \in Streams : \A m \in Muxes : s \notin Consumers(m)
    BY <1>4 DEF Consumers
  <2>2. \A s \in Streams : handler[s] = "idle" /\ got[s] = <<>> /\ sub[s] = "none"
    BY DEF Init
  <2>3. StartCall \in Streams
    BY DEF Streams
  <2> QED BY <2>1, <2>2, <2>3 DEF CallInv, InitInv, Muxes
<1>6. SentInv
  <2>1. \A m \in Muxes : IsInjectiveSeq(channels[m])
    BY <1>4 DEF IsInjectiveSeq
  <2>2. \A s \in Streams : s \notin Consumers("data") /\ since[s] <= emitted
    BY <1>4 DEF Init, Consumers, Muxes
  <2> QED BY <2>1, <2>2 DEF SentInv
<1>7. GotInv
  BY DEF GotInv, Init
<1> QED BY <1>1, <1>2, <1>3, <1>5, <1>6, <1>7 DEF IInv

-----------------------------------------------------------------------------
(* What the actions leave alone.                                            *)

\* The steps of a request that are no Fork, Join or Remove, and those of its
\* stream that deliver nothing.
Plain(s) ==
  \/ New(s) \/ Connect(s) \/ ClientLeaves(s) \/ CmdStart(s) \/ CmdStartFails(s) \/ Store(s)
  \/ SendStart(s) \/ GoWait(s) \/ ConnectStarts(s) \/ Returns(s)
  \/ DataClosed(s) \/ SubCancelled(s)

LEMMA PlainFrame ==
  ASSUME NEW s \in Streams, Plain(s)
  PROVE  UNCHANGED <<emitted, eof, pipe, mux, closing, sent>>
BY DEF Plain, New, Connect, ClientLeaves, CmdStart, CmdStartFails, Store, SendStart, GoWait,
       ConnectStarts, Returns, DataClosed, SubCancelled, process

LEMMA StreamFrame ==
  ASSUME NEW s \in Streams,
         Plain(s) \/ \E m \in Muxes : \/ Fork(s, m) \/ Join(s, m) \/ Remove(s, m)
                                      \/ Deliver(s, m) \/ DeliverFails(s, m)
  PROVE  UNCHANGED <<emitted, eof, pipe, fan, item, exited>>
<1>1. CASE Plain(s)
  BY <1>1, PlainFrame DEF mux, closing
<1>2. ASSUME NEW m \in Muxes, Fork(s, m) PROVE UNCHANGED <<emitted, eof, pipe, fan, item, exited>>
  BY <1>2 DEF Fork, process, mux
<1>3. ASSUME NEW m \in Muxes, Join(s, m) PROVE UNCHANGED <<emitted, eof, pipe, fan, item, exited>>
  BY <1>3 DEF Join, process
<1>4. ASSUME NEW m \in Muxes, Remove(s, m) PROVE UNCHANGED <<emitted, eof, pipe, fan, item, exited>>
  BY <1>4 DEF Remove, process
<1>5. ASSUME NEW m \in Muxes, Deliver(s, m) PROVE UNCHANGED <<emitted, eof, pipe, fan, item, exited>>
  BY <1>5 DEF Deliver, process, closing
<1>6. ASSUME NEW m \in Muxes, DeliverFails(s, m)
      PROVE  UNCHANGED <<emitted, eof, pipe, fan, item, exited>>
  BY <1>6 DEF DeliverFails, process, closing
<1> QED BY <1>1, <1>2, <1>3, <1>4, <1>5, <1>6

-----------------------------------------------------------------------------
(* The output on its way through DataEvent.                                 *)

LEMMA SourceNext ==
  ASSUME TypeOK, SourceInv, Next
  PROVE  SourceInv'
<1> USE DEF Muxes
<1>0. /\ emitted \in Nat /\ source \in Seq(Nat) /\ Len(source) \in Nat
      /\ fan \in [Muxes -> {"recv", "lock", "send", "range", "close", "done"}]
      /\ item \in [Muxes -> Nat] /\ Taken \in Nat
  BY BoundsAssumption DEF TypeOK, SourceInv, Taken, Chunks
<1>1. ASSUME UNCHANGED <<emitted, eof, pipe, fan, item, exited>> PROVE SourceInv'
  BY <1>1 DEF SourceInv, Taken, pipe
<1>2. CASE Output
  <2>1. /\ emitted' = emitted + 1 /\ source' = Append(source, emitted + 1) /\ ~eof
        /\ UNCHANGED <<eof, sourceClosed, exited, fan, item>>
    BY <1>2 DEF Output, mux, closing
  <2>2. ~sourceClosed /\ ~exited
    BY <2>1 DEF SourceInv
  <2>3. Taken' = Taken /\ Len(source') = Len(source) + 1 /\ Len(source') <= emitted'
    BY <1>0, <2>1 DEF Taken, SourceInv
  <2>4. \A i \in DOMAIN source' : source'[i] = Taken' + i
    <3> TAKE i \in DOMAIN source'
    <3>1. CASE i = Len(source) + 1
      BY <1>0, <2>1, <2>3, <3>1 DEF Taken
    <3>2. CASE i # Len(source) + 1
      <4>1. i \in DOMAIN source /\ source'[i] = source[i]
        BY <1>0, <2>1, <3>2
      <4> QED BY <2>3, <4>1 DEF SourceInv
    <3> QED BY <3>1, <3>2
  <2>5. \/ fan["data"] \notin {"range", "close", "done"}
        \/ exited
    BY DEF SourceInv
  <2> QED BY <2>1, <2>2, <2>3, <2>4, <2>5 DEF SourceInv
<1>3. CASE OutputEnds \/ CloseSource
  BY <1>3 DEF OutputEnds, CloseSource, SourceInv, Taken, pipe, mux, closing
<1>4. CASE Exits \/ Reap \/ DeleteEntry
  BY <1>1, <1>4 DEF Exits, Reap, DeleteEntry, mux, closing
<1>5. CASE SendEnd
  BY <1>0, <1>5 DEF SendEnd, SourceInv, Taken, pipe, closing
<1>6. CASE Receive
  <2>1. /\ fan["data"] = "recv" /\ source # <<>> /\ source' = Tail(source)
        /\ item' = [item EXCEPT !["data"] = Head(source)]
        /\ fan' = [fan EXCEPT !["data"] = "lock"]
        /\ UNCHANGED <<emitted, eof, sourceClosed, exited>>
    BY <1>6 DEF Receive, process, closing
  <2>2. /\ Len(source') = Len(source) - 1 /\ Len(source) >= 1 /\ Head(source) = source[1]
        /\ \A i \in DOMAIN source' : i + 1 \in DOMAIN source /\ source'[i] = source[i + 1]
    BY <1>0, <2>1
  <2>3. Taken' = Taken + 1
    BY <1>0, <2>1, <2>2 DEF Taken
  <2>4. \A i \in DOMAIN source' : source'[i] = Taken' + i
    <3> TAKE i \in DOMAIN source'
    <3>1. i \in Nat /\ source[i + 1] = Taken + (i + 1)
      BY <1>0, <2>1, <2>2 DEF SourceInv
    <3> QED BY <1>0, <2>2, <2>3, <3>1
  <2>5. item'["data"] = Taken' /\ Taken' >= 1 /\ fan'["data"] = "lock"
    BY <1>0, <2>1, <2>2, <2>3 DEF SourceInv
  <2>6. ~exited
    BY <2>1 DEF SourceInv
  <2>7. Len(source') <= emitted' /\ (sourceClosed' => eof')
    BY <1>0, <2>1, <2>2 DEF SourceInv
  <2> QED BY <2>1, <2>4, <2>5, <2>6, <2>7 DEF SourceInv
<1>7. ASSUME NEW m \in Muxes, RLock(m) \/ RUnlock(m) PROVE SourceInv'
  BY <1>0, <1>7 DEF RLock, RUnlock, SourceInv, Taken, process, pipe, closing
<1>8. CASE Exited
  BY <1>0, <1>8 DEF Exited, SourceInv, Taken, process, pipe
<1>9. CASE Range \/ CloseNext \/ AllClosed
  BY <1>0, <1>9 DEF Range, CloseNext, AllClosed, SourceInv, Taken, process, pipe
<1>10. ASSUME NEW s \in Streams,
             New(s) \/ Connect(s) \/ ClientLeaves(s) \/ Handle(s) \/ Stream(s)
       PROVE  SourceInv'
  BY <1>1, <1>10, StreamFrame DEF Plain, Handle, Stream
<1> QED BY <1>2, <1>3, <1>4, <1>5, <1>6, <1>7, <1>8, <1>9, <1>10 DEF Next, Wait, Multiplex

-----------------------------------------------------------------------------
(* The end event.                                                           *)

LEMMA EndNext ==
  ASSUME TypeOK, SourceInv, EndInv, Next
  PROVE  EndInv'
<1> USE DEF Muxes
<1>0. /\ fan \in [Muxes -> {"recv", "lock", "send", "range", "close", "done"}]
      /\ item \in [Muxes -> Int] /\ handler \in [Streams -> HandlerPC]
      /\ sub \in [Streams -> {"none", "start", "data", "end", "done"}]
      /\ StartCall \in Streams
  BY BoundsAssumption DEF TypeOK, Streams
<1>1. CASE Output \/ OutputEnds \/ Exits
  BY <1>1 DEF Output, OutputEnds, Exits, EndInv, mux, closing, calls
<1>2. CASE CloseSource \/ Reap \/ DeleteEntry
  BY <1>0, <1>2 DEF CloseSource, Reap, DeleteEntry, EndInv, mux, closing, calls
<1>3. CASE SendEnd
  BY <1>0, <1>3 DEF SendEnd, EndInv, closing, calls
<1>4. CASE Receive \/ Exited \/ Range \/ AllClosed
  BY <1>0, <1>4 DEF Receive, Exited, Range, AllClosed, EndInv, process, closing, calls
<1>5. CASE CloseNext
  BY <1>0, <1>5 DEF CloseNext, EndInv, SourceInv, process, calls
<1>6. ASSUME NEW m \in Muxes, RLock(m) \/ RUnlock(m) PROVE EndInv'
  BY <1>0, <1>6 DEF RLock, RUnlock, EndInv, process, closing, calls
<1>7. ASSUME NEW s \in Streams, Plain(s) PROVE EndInv'
  <2>1. UNCHANGED <<emitted, eof, fan, item, exited, shut>>
    BY <1>7, PlainFrame DEF mux, closing
  <2>2. CASE New(s) \/ CmdStart(s) \/ CmdStartFails(s) \/ Store(s) \/ GoWait(s)
    BY <1>0, <2>1, <2>2 DEF New, CmdStart, CmdStartFails, Store, GoWait, EndInv, GoTo, Started, HandlerPC
  <2>3. CASE Connect(s) \/ ClientLeaves(s) \/ SendStart(s) \/ ConnectStarts(s) \/ Returns(s)
    BY <1>0, <2>1, <2>3, ConnectsAssumption
       DEF Connect, ClientLeaves, SendStart, ConnectStarts, Returns, EndInv, GoTo, Started, process
  <2>4. CASE DataClosed(s) \/ SubCancelled(s)
    BY <1>0, <2>1, <2>4 DEF DataClosed, SubCancelled, EndInv, process
  <2> QED BY <1>7, <2>2, <2>3, <2>4 DEF Plain
<1>8. ASSUME NEW s \in Streams, NEW m \in Muxes, Fork(s, m) PROVE EndInv'
  BY <1>0, <1>8 DEF Fork, EndInv, GoTo, Started, ForkPC, JoinPC, process, mux
<1>9. ASSUME NEW s \in Streams, NEW m \in Muxes, Join(s, m) PROVE EndInv'
  BY <1>0, <1>9 DEF Join, EndInv, GoTo, Started, Joined, JoinPC, process
<1>10. ASSUME NEW s \in Streams, NEW m \in Muxes, Remove(s, m) PROVE EndInv'
  BY <1>0, <1>10 DEF Remove, EndInv, GoTo, Started, AfterRemove, RemovePC, process
<1>11. ASSUME NEW s \in Streams, NEW m \in Muxes, Deliver(s, m) \/ DeliverFails(s, m) PROVE EndInv'
  BY <1>0, <1>11 DEF Deliver, DeliverFails, EndInv, process, closing
<1> QED BY <1>1, <1>2, <1>3, <1>4, <1>5, <1>6, <1>7, <1>8, <1>9, <1>10, <1>11
        DEF Next, Wait, Multiplex, Plain, Handle, Stream

-----------------------------------------------------------------------------
(* Who is a consumer, and how far its handler and its stream are.           *)

\* A request that joined when DataEvent had exited keeps having nothing to get.
LEMMA LateStays ==
  ASSUME NEW c \in Streams, Late(c), exited', emitted' = emitted, since'[c] = since[c],
         got'[c] = got[c], sub[c] = "done" => sub'[c] = "done"
  PROVE  Late(c)'
BY DEF Late

LEMMA CallMux ==
  ASSUME TypeOK, SourceInv, CallInv, Output \/ OutputEnds \/ Exits \/ Wait \/ Multiplex
  PROVE  CallInv'
<1>1. UNCHANGED <<channels, calls, sent>>
  BY DEF Output, OutputEnds, Exits, Wait, Multiplex, CloseSource, Reap, SendEnd, DeleteEntry,
         Receive, Exited, Range, CloseNext, AllClosed, RLock, RUnlock, mux
<1>2. exited => exited' /\ emitted' = emitted
  <2>1. CASE Output
    BY <2>1 DEF Output, SourceInv
  <2>2. CASE OutputEnds \/ Exits \/ Wait
    BY <2>2 DEF OutputEnds, Exits, Wait, CloseSource, Reap, SendEnd, DeleteEntry, closing
  <2>3. CASE Receive \/ Exited \/ Range \/ CloseNext \/ AllClosed
    BY <2>3 DEF Receive, Exited, Range, CloseNext, AllClosed, closing, process
  <2>4. ASSUME NEW m \in Muxes, RLock(m) \/ RUnlock(m) PROVE exited' = exited /\ emitted' = emitted
    BY <2>4 DEF RLock, RUnlock, closing, process
  <2> QED BY <2>1, <2>2, <2>3, <2>4 DEF Multiplex
<1>3. \A s \in Streams : Late(s) => Late(s)'
  BY <1>1, <1>2 DEF Late, calls, sent
<1>4. \A m \in Muxes : Consumers(m)' = Consumers(m)
  BY <1>1 DEF Consumers
<1>5. kind' = kind
  BY DEF Output, OutputEnds, Exits, Wait, Multiplex, CloseSource, Reap, SendEnd, DeleteEntry,
         Receive, Exited, Range, CloseNext, AllClosed, RLock, RUnlock, process
<1> QED BY <1>1, <1>3, <1>4, <1>5 DEF CallInv, InitInv, InConsumers, calls, sent, Muxes

\* A stream that has ended does not begin again.
LEMMA DoneStays ==
  ASSUME TypeOK, CallInv, NEW s \in Streams, Plain(s)
  PROVE  \A c \in Streams : sub[c] = "done" => sub'[c] = "done"
<1>0. sub \in [Streams -> {"none", "start", "data", "end", "done"}]
  BY DEF TypeOK
<1>1. CASE SendStart(s)
  BY <1>0, <1>1 DEF SendStart
<1>2. CASE ConnectStarts(s)
  BY <1>0, <1>2, ConnectsAssumption DEF ConnectStarts, CallInv
<1>3. CASE DataClosed(s) \/ SubCancelled(s)
  BY <1>0, <1>3 DEF DataClosed, SubCancelled
<1> QED BY <1>1, <1>2, <1>3 DEF Plain, New, Connect, ClientLeaves, CmdStart, CmdStartFails, Store,
                                GoWait, Returns

LEMMA CallPlain ==
  ASSUME TypeOK, EndInv, CallInv, NEW s \in Streams, Plain(s)
  PROVE  CallInv'
<1>0. /\ handler \in [Streams -> HandlerPC]
      /\ sub \in [Streams -> {"none", "start", "data", "end", "done"}]
  BY DEF TypeOK
<1>1. UNCHANGED <<channels, got, since, exited, emitted>>
  BY PlainFrame DEF mux, closing, sent
<1>2. \A m \in Muxes : Consumers(m)' = Consumers(m)
  BY <1>1 DEF Consumers
<1>3. \A c \in Streams : sub[c] = "done" => sub'[c] = "done"
  BY DoneStays
<1>4. \A c \in Streams : InConsumers(c) => InConsumers(c)'
  BY <1>1, <1>2, <1>3 DEF InConsumers, Late, Muxes
<1> USE DEF Muxes
<1>5. CASE New(s) \/ Connect(s)
  <2>1. CASE New(s)
    BY <1>0, <1>1, <1>2, <1>4, <2>1 DEF New, GoTo, CallInv, InitInv
  <2>2. CASE Connect(s)
    <3>1. /\ s # StartCall /\ handler[s] = "idle" /\ handler' = [handler EXCEPT ![s] = "forkData"]
          /\ UNCHANGED <<kind, sub>>
      BY <2>2, ConnectsAssumption DEF Connect, GoTo, process
    <3> QED BY <1>0, <1>1, <1>2, <1>4, <3>1 DEF CallInv, InitInv
  <2> QED BY <1>5, <2>1, <2>2
<1>6. CASE CmdStart(s) \/ CmdStartFails(s) \/ Store(s)
  <2>1. s = StartCall /\ UNCHANGED <<kind, sub>>
    BY <1>6 DEF CmdStart, CmdStartFails, Store, EndInv
  <2>2. CASE CmdStart(s)
    BY <1>0, <1>1, <1>2, <1>4, <2>1, <2>2 DEF CmdStart, GoTo, CallInv, InitInv
  <2>3. CASE CmdStartFails(s)
    BY <1>0, <1>1, <1>2, <1>4, <2>1, <2>3 DEF CmdStartFails, GoTo, CallInv, InitInv
  <2>4. CASE Store(s)
    BY <1>0, <1>1, <1>2, <1>4, <2>1, <2>4 DEF Store, GoTo, CallInv, InitInv
  <2> QED BY <1>6, <2>2, <2>3, <2>4
<1>7. CASE SendStart(s)
  BY <1>0, <1>1, <1>2, <1>4, <1>7 DEF SendStart, GoTo, CallInv, InitInv, process
<1>8. CASE GoWait(s)
  BY <1>0, <1>1, <1>2, <1>4, <1>8 DEF GoWait, GoTo, CallInv, InitInv, EndInv
<1>9. CASE ConnectStarts(s)
  <2>1. /\ s # StartCall /\ handler[s] = "sendStart" /\ UNCHANGED kind
        /\ \E pc \in {"select", "removeEnd"} : handler' = [handler EXCEPT ![s] = pc]
        /\ \A c \in Streams : c # s => sub'[c] = sub[c]
    BY <1>0, <1>9, ConnectsAssumption DEF ConnectStarts, GoTo, process
  <2> QED BY <1>0, <1>1, <1>2, <1>4, <2>1 DEF CallInv, InitInv
<1>10. CASE Returns(s)
  BY <1>0, <1>1, <1>2, <1>4, <1>10 DEF Returns, GoTo, CallInv, InitInv, process
<1>11. CASE DataClosed(s) \/ SubCancelled(s) \/ ClientLeaves(s)
  BY <1>0, <1>1, <1>2, <1>4, <1>11
     DEF DataClosed, SubCancelled, ClientLeaves, CallInv, InitInv, process
<1> QED BY <1>5, <1>6, <1>7, <1>8, <1>9, <1>10, <1>11 DEF Plain

LEMMA ConsumersJoined ==
  ASSUME TypeOK, SentInv, CallInv, NEW s \in Streams, NEW m \in Muxes, Join(s, m)
  PROVE  /\ \A n \in Muxes : IsInjectiveSeq(channels'[n])
         /\ Consumers(m)' = Consumers(m) \cup {s}
         /\ \A n \in Muxes : n # m => channels'[n] = channels[n]
<1>1. channels \in [Muxes -> Seq(Streams)] /\ channels' = [channels EXCEPT ![m] = Append(@, s)]
  BY DEF TypeOK, Join
<1>2. IsInjectiveSeq(channels[m]) /\ channels[m] \in Seq(Streams)
  BY <1>1 DEF SentInv
<1>3. s \notin Consumers(m)
  BY DEF Join, JoinPC, CallInv, Muxes
<1>4. \A i \in DOMAIN channels[m] : channels[m][i] # s
  BY <1>3 DEF Consumers
<1>5. channels'[m] = Append(channels[m], s)
  BY <1>1
<1>6. /\ IsInjectiveSeq(channels'[m])
      /\ \A c : (\E j \in DOMAIN channels'[m] : channels'[m][j] = c)
                  <=> c = s \/ \E j \in DOMAIN channels[m] : channels[m][j] = c
  BY <1>2, <1>4, <1>5, AppendElements
<1>7. \A n \in Muxes : n # m => channels'[n] = channels[n]
  BY <1>1
<1>8. Consumers(m)' = Consumers(m) \cup {s}
  BY <1>6 DEF Consumers
<1> QED BY <1>6, <1>7, <1>8 DEF SentInv

LEMMA ConsumersLeft ==
  ASSUME TypeOK, SentInv, NEW s \in Streams, NEW m \in Muxes, Remove(s, m)
  PROVE  /\ \A n \in Muxes : IsInjectiveSeq(channels'[n])
         /\ Consumers(m)' = Consumers(m) \ {s}
         /\ \A n \in Muxes : n # m => channels'[n] = channels[n]
         /\ s \in Consumers(m) => fan[m] # "send"
         /\ s \notin Consumers(m) => UNCHANGED channels
<1>1. channels \in [Muxes -> Seq(Streams)]
  BY DEF TypeOK
<1>2. IsInjectiveSeq(channels[m]) /\ channels[m] \in Seq(Streams)
  BY <1>1 DEF SentInv
<1>3. CASE s \in Consumers(m)
  <2>1. PICK i \in DOMAIN channels[m] :
          channels[m][i] = s /\ channels' = [channels EXCEPT ![m] = Without(@, i)]
    BY <1>3 DEF Remove
  <2>2. channels'[m] = Without(channels[m], i) /\ \A n \in Muxes : n # m => channels'[n] = channels[n]
    BY <1>1, <2>1
  <2>3. /\ IsInjectiveSeq(channels'[m])
        /\ \A c : (\E j \in DOMAIN channels'[m] : channels'[m][j] = c)
                    <=> c # s /\ \E j \in DOMAIN channels[m] : channels[m][j] = c
    <3> DEFINE q == channels[m]
    <3>1. Drops(Without(q, i), q, q[i])
      <4> HIDE DEF q
      <4> QED BY <1>2, WithoutElements DEF q
    <3>2. q[i] = s /\ channels'[m] = Without(q, i)
      BY <2>1, <2>2
    <3> HIDE DEF q
    <3> QED BY <3>1, <3>2, Zenon DEF q, Drops
  <2>4. Consumers(m)' = Consumers(m) \ {s}
    BY <2>3 DEF Consumers
  <2>5. fan[m] # "send"
    BY <1>3 DEF Remove
  <2> QED BY <1>3, <2>2, <2>3, <2>4, <2>5 DEF SentInv
<1>4. CASE s \notin Consumers(m)
  <2>1. UNCHANGED channels
    BY <1>4 DEF Remove
  <2>2. Consumers(m)' = Consumers(m)
    BY <2>1 DEF Consumers
  <2> QED BY <1>4, <2>1, <2>2 DEF SentInv
<1> QED BY <1>3, <1>4

LEMMA CallStream ==
  ASSUME TypeOK, SourceInv, EndInv, CallInv, SentInv, NEW s \in Streams, NEW m \in Muxes,
         Fork(s, m) \/ Join(s, m) \/ Remove(s, m) \/ Deliver(s, m) \/ DeliverFails(s, m)
  PROVE  CallInv'
<1>0. /\ handler \in [Streams -> HandlerPC]
      /\ sub \in [Streams -> {"none", "start", "data", "end", "done"}]
      /\ since \in [Streams -> 0 .. MaxOutput] /\ got \in [Streams -> Seq(0 .. MaxOutput)]
      /\ m \in {"data", "end"} /\ StartCall \in Streams
  BY DEF TypeOK, Muxes, Streams
<1>1. UNCHANGED <<kind, emitted, exited, fan>>
  BY StreamFrame DEF Fork, Join, Remove, Deliver, DeliverFails, process
<1>2. CASE Fork(s, m)
  <2>1. UNCHANGED <<channels, sub, got>> /\ \A c \in Streams : c # s => since'[c] = since[c]
    BY <1>0, <1>2 DEF Fork, mux
  <2>2. \A n \in Muxes : Consumers(n)' = Consumers(n)
    BY <2>1 DEF Consumers
  <2>3. \A c \in Streams : c # s /\ InConsumers(c) => InConsumers(c)'
    BY <1>1, <2>1, <2>2 DEF InConsumers, Late, Muxes
  <2>4. CASE m = "data" /\ exited
    <3>1. /\ handler[s] = "forkData" /\ handler' = [handler EXCEPT ![s] = "forkEnd"]
          /\ since'[s] = emitted
      BY <1>0, <1>2, <2>4 DEF Fork, ForkPC, GoTo
    <3>2. InConsumers(s)'
      BY <1>1, <2>1, <2>4, <3>1 DEF CallInv, InConsumers, Late
    <3> QED BY <1>0, <1>1, <2>1, <2>2, <2>3, <3>1, <3>2 DEF CallInv, InitInv, Muxes
  <2>5. CASE m = "data" /\ ~exited
    <3>1. /\ handler[s] = "forkData" /\ handler' = [handler EXCEPT ![s] = "joinData"]
      BY <1>0, <1>2, <2>5 DEF Fork, ForkPC, JoinPC, GoTo
    <3> QED BY <1>0, <1>1, <2>1, <2>2, <2>3, <3>1 DEF CallInv, InitInv, Muxes
  <2>6. CASE m = "end"
    <3>1. /\ handler[s] = "forkEnd" /\ handler' = [handler EXCEPT ![s] = "joinEnd"]
          /\ since' = since
      BY <1>0, <1>2, <2>6 DEF Fork, ForkPC, JoinPC, GoTo
    <3>2. InConsumers(s)'
      BY <1>1, <2>1, <2>2, <3>1 DEF CallInv, InConsumers, Late, Muxes
    <3> QED BY <1>0, <1>1, <2>1, <2>2, <2>3, <3>1, <3>2 DEF CallInv, InitInv, Muxes
  <2> QED BY <1>0, <2>4, <2>5, <2>6
<1>3. CASE Join(s, m)
  <2>1. Consumers(m)' = Consumers(m) \cup {s} /\ got' = got
    BY <1>3, ConsumersJoined DEF Join
  <2>2. \A n \in Muxes : n # m => Consumers(n)' = Consumers(n)
    BY <1>3, ConsumersJoined DEF Consumers
  <2>3. CASE m = "data"
    <3>1. /\ handler[s] = "joinData" /\ handler' = [handler EXCEPT ![s] = "forkEnd"] /\ sub' = sub
          /\ \A c \in Streams : c # s => since'[c] = since[c]
      BY <1>0, <1>3, <2>3 DEF Join, JoinPC, GoTo
    <3>2. \A c \in Streams : c # s /\ InConsumers(c) => InConsumers(c)'
      BY <1>1, <2>1, <2>3, <3>1 DEF InConsumers, Late
    <3>3. InConsumers(s)'
      BY <2>1, <2>3 DEF InConsumers
    <3>4. Consumers("end")' = Consumers("end")
      BY <2>2, <2>3 DEF Muxes
    <3> QED BY <1>0, <1>1, <2>1, <2>3, <3>1, <3>2, <3>3, <3>4 DEF CallInv, InitInv
  <2>4. CASE m = "end"
    <3>1. /\ handler[s] = "joinEnd" /\ handler' = [handler EXCEPT ![s] = Joined(s)] /\ since' = since
          /\ sub' = IF s = StartCall THEN [sub EXCEPT ![s] = "start"] ELSE sub
      BY <1>0, <1>3, <2>4 DEF Join, JoinPC, GoTo
    <3>2. \A c \in Streams : sub[c] = "done" => sub'[c] = "done"
      BY <1>0, <3>1 DEF CallInv
    <3>3. Consumers("data")' = Consumers("data")
      BY <2>2, <2>4 DEF Muxes
    <3>4. \A c \in Streams : InConsumers(c) => InConsumers(c)'
      BY <1>1, <2>1, <3>1, <3>2, <3>3 DEF InConsumers, Late
    <3>5. InConsumers(s)'
      BY <3>1, <3>4 DEF CallInv
    <3>6. Joined(s) \in {"cmdStart", "sendStart"} /\ (Joined(s) = "sendStart" => s # StartCall)
      BY DEF Joined
    <3>7. InitInv'
      BY <1>0, <1>1, <2>1, <2>4, <3>1 DEF CallInv, InitInv
    <3> QED BY <1>0, <2>1, <2>4, <3>1, <3>3, <3>4, <3>5, <3>6, <3>7 DEF CallInv
  <2> QED BY <1>0, <2>3, <2>4
<1>4. CASE Remove(s, m)
  <2>1. Consumers(m)' = Consumers(m) \ {s} /\ UNCHANGED <<got, sub, since>>
    BY <1>4, ConsumersLeft DEF Remove, sent
  <2>2. \A n \in Muxes : n # m => Consumers(n)' = Consumers(n)
    BY <1>4, ConsumersLeft DEF Consumers
  <2>3. handler[s] = RemovePC(m) /\ handler' = [handler EXCEPT ![s] = AfterRemove(m)]
    BY <1>4 DEF Remove, GoTo
  <2>4. \A c \in Streams : c # s /\ InConsumers(c) => InConsumers(c)'
    BY <1>0, <1>1, <2>1, <2>2 DEF InConsumers, Late, Muxes
  <2>5. CASE m = "data"
    <3>1. /\ handler[s] = "removeData" /\ handler' = [handler EXCEPT ![s] = "done"]
          /\ Consumers("data")' = Consumers("data") \ {s} /\ Consumers("end")' = Consumers("end")
      BY <2>1, <2>2, <2>3, <2>5 DEF AfterRemove, RemovePC, Muxes
    <3> QED BY <1>0, <1>1, <2>1, <2>4, <3>1 DEF CallInv, InitInv
  <2>6. CASE m = "end"
    <3>1. /\ handler[s] = "removeEnd" /\ handler' = [handler EXCEPT ![s] = "removeData"]
          /\ Consumers("end")' = Consumers("end") \ {s} /\ Consumers("data")' = Consumers("data")
      BY <2>1, <2>2, <2>3, <2>6 DEF AfterRemove, RemovePC, Muxes
    <3> QED BY <1>0, <1>1, <2>1, <2>4, <3>1 DEF CallInv, InitInv
  <2> QED BY <1>0, <2>5, <2>6
<1>5. CASE Deliver(s, m) \/ DeliverFails(s, m)
  <2>1. /\ UNCHANGED <<channels, handler, since>> /\ sub[s] = m /\ fan[m] = "send"
        /\ \A c \in Streams : c # s => sub'[c] = sub[c] /\ got'[c] = got[c]
        /\ sub'[s] = "done" \/ (m = "data" /\ sub'[s] = sub[s])
    BY <1>0, <1>5 DEF Deliver, DeliverFails, Turn, Receives, sent
  <2>2. \A n \in Muxes : Consumers(n)' = Consumers(n)
    BY <2>1 DEF Consumers
  <2>3. m = "data" => ~exited
    BY <2>1 DEF SourceInv
  <2>4. \A c \in Streams : InConsumers(c) => InConsumers(c)'
    BY <1>0, <1>1, <2>1, <2>2, <2>3 DEF InConsumers, Late, Muxes
  <2>5. sub[s] # "none" /\ (exited => sub'[s] = "done")
    BY <1>0, <2>1, <2>3
  <2>6. InitInv'
    BY <1>1, <2>1, <2>2 DEF CallInv, InitInv, Muxes
  <2> QED BY <1>0, <2>1, <2>2, <2>4, <2>5, <2>6 DEF CallInv, Muxes
<1> QED BY <1>2, <1>3, <1>4, <1>5

-----------------------------------------------------------------------------
(* What the consumers were sent.                                            *)

LEMMA SentMux ==
  ASSUME TypeOK, SourceInv, SentInv, Output \/ OutputEnds \/ Exits \/ Wait \/ Multiplex
  PROVE  SentInv'
<1> USE DEF Muxes
<1>0. /\ fan \in [Muxes -> {"recv", "lock", "send", "range", "close", "done"}]
      /\ at \in [Muxes -> Nat \ {0}] /\ source \in Seq(Nat) /\ emitted \in Nat
      /\ channels \in [Muxes -> Seq(Streams)] /\ since \in [Streams -> Nat]
  BY BoundsAssumption DEF TypeOK, Chunks
<1>1. UNCHANGED <<channels, sub, got, since>>
  BY DEF Output, OutputEnds, Exits, Wait, Multiplex, CloseSource, Reap, SendEnd, DeleteEntry,
         Receive, Exited, Range, CloseNext, AllClosed, RLock, RUnlock, mux, calls, sent
<1>2. Consumers("data")' = Consumers("data")
  BY <1>1 DEF Consumers
<1>3. SUFFICES /\ \A s \in Streams : since[s] <= emitted'
               /\ \A c \in Streams : c \in Consumers("data") /\ sub[c] # "done" =>
                                       SentUpTo(c, UpTo(c))'
  BY <1>1, <1>2 DEF SentInv
<1>4. CASE Output
  <2>1. emitted' = emitted + 1 /\ source' = Append(source, emitted + 1) /\ UNCHANGED <<fan, at>>
    BY <1>4 DEF Output, mux
  <2>2. Taken' = Taken
    BY <1>0, <2>1 DEF Taken
  <2>3. \A c \in Streams : UpTo(c)' = UpTo(c)
    BY <1>1, <2>1, <2>2 DEF UpTo, Pending
  <2> QED BY <1>0, <1>1, <2>1, <2>3 DEF SentInv, SentUpTo
<1>5. CASE OutputEnds \/ Exits \/ CloseSource \/ Reap \/ DeleteEntry
  <2>1. UNCHANGED <<emitted, source, fan, at>>
    BY <1>5 DEF OutputEnds, Exits, CloseSource, Reap, DeleteEntry, mux, pipe
  <2>2. \A c \in Streams : UpTo(c)' = UpTo(c)
    BY <1>1, <2>1 DEF UpTo, Pending, Taken
  <2> QED BY <1>1, <2>1, <2>2 DEF SentInv, SentUpTo
<1>6. CASE SendEnd \/ Exited \/ Range \/ CloseNext \/ AllClosed
  <2>1. /\ UNCHANGED <<emitted, source>>
        /\ (fan'["data"] # "lock" /\ fan'["data"] # "send") \/ UNCHANGED <<at, fan["data"]>>
        /\ (fan["data"] # "lock" /\ fan["data"] # "send") \/ UNCHANGED <<at, fan["data"]>>
    BY <1>0, <1>6 DEF SendEnd, Exited, Range, CloseNext, AllClosed, process, pipe
  <2>2. \A c \in Streams : UpTo(c)' = UpTo(c)
    BY <1>1, <2>1 DEF UpTo, Pending, Taken
  <2> QED BY <1>1, <2>1, <2>2 DEF SentInv, SentUpTo
<1>7. CASE Receive
  <2>1. /\ fan["data"] = "recv" /\ fan'["data"] = "lock" /\ source # <<>> /\ source' = Tail(source)
        /\ emitted' = emitted
    BY <1>0, <1>7 DEF Receive, process
  <2>2. Taken' = Taken + 1 /\ Taken \in Int
    BY <1>0, <2>1 DEF Taken
  <2>3. \A c \in Streams : UpTo(c)' = UpTo(c)
    BY <2>1, <2>2 DEF UpTo, Pending
  <2> QED BY <1>1, <2>1, <2>3 DEF SentInv, SentUpTo
<1>8. ASSUME NEW m \in Muxes, RLock(m) \/ RUnlock(m)
      PROVE  /\ emitted' = emitted
             /\ \A c \in Streams : c \in Consumers("data") => UpTo(c)' = UpTo(c)
  <2>1. UNCHANGED <<emitted, source>>
    BY <1>8 DEF RLock, RUnlock, process, pipe
  <2>2. CASE m = "end"
    <3>1. fan'["data"] = fan["data"] /\ at'["data"] = at["data"]
      BY <1>0, <1>8, <2>2 DEF RLock, RUnlock
    <3> QED BY <1>1, <2>1, <3>1 DEF UpTo, Pending, Taken
  <2>3. CASE m = "data" /\ RLock(m)
    <3>1. fan["data"] = "lock" /\ fan'["data"] = "send" /\ at'["data"] = 1
      BY <1>0, <2>3 DEF RLock
    <3>2. \A c \in Streams : c \in Consumers("data") => Pending(c)' /\ Pending(c)
      BY <1>0, <1>1, <3>1 DEF Pending, Consumers
    <3> QED BY <2>1, <3>2 DEF UpTo, Taken
  <2>4. CASE m = "data" /\ RUnlock(m)
    <3>1. /\ fan["data"] = "send" /\ fan'["data"] = "recv"
          /\ at["data"] = Len(channels["data"]) + 1
      BY <1>0, <2>4 DEF RUnlock
    <3>2. \A c \in Streams : ~Pending(c)' /\ ~Pending(c)
      BY <1>0, <3>1 DEF Pending
    <3> QED BY <2>1, <3>2 DEF UpTo, Taken
  <2> QED BY <1>8, <2>1, <2>2, <2>3, <2>4
<1>9. ASSUME NEW m \in Muxes, RLock(m) \/ RUnlock(m)
      PROVE  /\ \A s \in Streams : since[s] <= emitted'
             /\ \A c \in Streams : c \in Consumers("data") /\ sub[c] # "done" =>
                                     SentUpTo(c, UpTo(c))'
  BY <1>1, <1>2, <1>8, <1>9 DEF SentInv, SentUpTo
<1> QED BY <1>4, <1>5, <1>6, <1>7, <1>9 DEF Wait, Multiplex

LEMMA SentStream ==
  ASSUME TypeOK, SourceInv, CallInv, SentInv, NEW s \in Streams,
         Plain(s) \/ \E m \in Muxes : \/ Fork(s, m) \/ Join(s, m) \/ Remove(s, m)
                                      \/ Deliver(s, m) \/ DeliverFails(s, m)
  PROVE  SentInv'
<1> USE DEF Muxes
<1>0. /\ fan \in [Muxes -> {"recv", "lock", "send", "range", "close", "done"}]
      /\ at \in [Muxes -> Nat \ {0}] /\ source \in Seq(Nat) /\ emitted \in Nat
      /\ channels \in [Muxes -> Seq(Streams)] /\ since \in [Streams -> Nat]
      /\ sub \in [Streams -> {"none", "start", "data", "end", "done"}]
      /\ got \in [Streams -> Seq(Nat)]
  BY BoundsAssumption DEF TypeOK, Chunks
<1>1. UNCHANGED <<emitted, source, fan, item>>
  BY StreamFrame DEF pipe
<1>2. Taken' = Taken /\ Taken \in Int /\ Taken <= emitted
  BY <1>0, <1>1 DEF Taken
<1>3. CASE Plain(s)
  <2>1. UNCHANGED <<channels, at, got, since>>
    BY <1>3, PlainFrame DEF mux, sent
  <2>2. \A c \in Streams : UpTo(c)' = UpTo(c)
    BY <1>1, <1>2, <2>1 DEF UpTo, Pending
  <2>3. \A c \in Streams : sub[c] = "done" => sub'[c] = "done"
    BY <1>3, DoneStays
  <2>4. Consumers("data")' = Consumers("data")
    BY <2>1 DEF Consumers
  <2> QED BY <1>1, <2>1, <2>2, <2>3, <2>4 DEF SentInv, SentUpTo
<1>4. ASSUME NEW m \in Muxes, Fork(s, m) PROVE SentInv'
  <2>1. UNCHANGED <<channels, at, got, sub>> /\ (since' = since \/ since' = [since EXCEPT ![s] = emitted])
    BY <1>4 DEF Fork, mux
  <2>2. since' # since => s \notin Consumers("data")
    BY <1>4 DEF Fork, ForkPC, CallInv
  <2>3. \A c \in Streams : UpTo(c)' = UpTo(c)
    BY <1>1, <1>2, <2>1 DEF UpTo, Pending
  <2>4. Consumers("data")' = Consumers("data")
    BY <2>1 DEF Consumers
  <2>5. \A c \in Streams : since'[c] <= emitted' /\ (c \in Consumers("data") => since'[c] = since[c])
    BY <1>0, <1>1, <2>1, <2>2 DEF SentInv
  <2> QED BY <2>1, <2>3, <2>4, <2>5 DEF SentInv, SentUpTo
<1>5. ASSUME NEW m \in Muxes, Join(s, m) PROVE SentInv'
  <2>1. /\ \A n \in Muxes : IsInjectiveSeq(channels'[n])
        /\ Consumers(m)' = Consumers(m) \cup {s}
        /\ \A n \in Muxes : n # m => channels'[n] = channels[n]
    BY <1>5, ConsumersJoined
  <2>2. UNCHANGED <<at, got>> /\ fan[m] # "send" /\ handler[s] = JoinPC(m)
    BY <1>5 DEF Join
  <2>3. CASE m = "data"
    <3>1. since' = [since EXCEPT ![s] = emitted] /\ sub' = sub /\ got[s] = <<>>
      BY <1>5, <2>2, <2>3 DEF Join, JoinPC, CallInv
    <3>2. \A c \in Streams : UpTo(c)' = UpTo(c) /\ UpTo(c) \in Int /\ UpTo(c) <= emitted
      BY <1>0, <1>1, <1>2, <2>2, <2>3 DEF UpTo, Pending
    <3>3. \A c \in Streams : c # s /\ c \in Consumers("data")' => c \in Consumers("data")
      BY <2>1, <2>3
    <3>4. SentUpTo(s, UpTo(s))'
      BY <1>0, <1>1, <2>2, <3>1, <3>2 DEF SentUpTo
    <3>5. \A c \in Streams : since'[c] <= emitted' /\ (c # s => since'[c] = since[c])
      BY <1>0, <1>1, <3>1 DEF SentInv
    <3> QED BY <2>1, <2>2, <3>1, <3>2, <3>3, <3>4, <3>5 DEF SentInv, SentUpTo
  <2>4. CASE m = "end"
    <3>1. since' = since /\ channels'["data"] = channels["data"]
      BY <1>5, <2>1, <2>4 DEF Join
    <3>2. Consumers("data")' = Consumers("data")
      BY <3>1 DEF Consumers
    <3>3. \A c \in Streams : UpTo(c)' = UpTo(c)
      BY <1>1, <1>2, <2>2, <3>1 DEF UpTo, Pending
    <3>4. \A c \in Streams : sub[c] = "done" => sub'[c] = "done"
      BY <1>0, <1>5, <2>2, <2>4 DEF Join, JoinPC, CallInv
    <3> QED BY <1>1, <2>1, <2>2, <3>1, <3>2, <3>3, <3>4 DEF SentInv, SentUpTo
  <2> QED BY <2>3, <2>4
<1>6. ASSUME NEW m \in Muxes, Remove(s, m) PROVE SentInv'
  <2>1. /\ \A n \in Muxes : IsInjectiveSeq(channels'[n])
        /\ Consumers(m)' = Consumers(m) \ {s}
        /\ \A n \in Muxes : n # m => channels'[n] = channels[n]
        /\ s \in Consumers(m) => fan[m] # "send"
        /\ s \notin Consumers(m) => UNCHANGED channels
    BY <1>6, ConsumersLeft
  <2>2. UNCHANGED <<at, sub, got, since>>
    BY <1>6 DEF Remove, sent
  <2>3. Consumers("data")' \subseteq Consumers("data")
    <3>1. CASE m = "data"
      BY <2>1, <3>1
    <3>2. CASE m # "data"
      BY <2>1, <3>2 DEF Consumers
    <3> QED BY <3>1, <3>2
  <2>4. fan["data"] = "send" => channels'["data"] = channels["data"]
    BY <2>1
  <2>5. \A c \in Streams : UpTo(c)' = UpTo(c)
    BY <1>1, <1>2, <2>2, <2>4 DEF UpTo, Pending
  <2> QED BY <1>1, <2>1, <2>2, <2>3, <2>5 DEF SentInv, SentUpTo
<1>7. ASSUME NEW m \in Muxes, Deliver(s, m) \/ DeliverFails(s, m) PROVE SentInv'
  <2>1. /\ UNCHANGED <<channels, since>> /\ at' = [at EXCEPT ![m] = @ + 1]
        /\ fan[m] = "send" /\ at[m] \in DOMAIN channels[m] /\ channels[m][at[m]] = s
        /\ \A c \in Streams : c # s => sub'[c] = sub[c] /\ got'[c] = got[c]
        /\ sub[s] = m
    BY <1>0, <1>7 DEF Deliver, DeliverFails, Turn, Receives, sent
  <2>2. Consumers("data")' = Consumers("data")
    BY <2>1 DEF Consumers
  <2>3. \A c \in Streams : c # s /\ c \in Consumers("data") => (Pending(c)' <=> Pending(c))
    <3>1. CASE m = "data"
      <4>1. \A i \in DOMAIN channels["data"] :
               channels["data"][i] # s => (at["data"] <= i <=> at["data"] + 1 <= i)
        BY <1>0, <2>1, <3>1
      <4>2. at'["data"] = at["data"] + 1
        BY <1>0, <2>1, <3>1
      <4> QED BY <1>1, <2>1, <4>1, <4>2 DEF Pending
    <3>2. CASE m = "end"
      BY <1>0, <1>1, <2>1, <3>2 DEF Pending
    <3> QED BY <3>1, <3>2
  <2>4. s \in Consumers("data") /\ sub'[s] # "done" => SentUpTo(s, UpTo(s))'
    <3> SUFFICES ASSUME s \in Consumers("data"), sub'[s] # "done" PROVE SentUpTo(s, UpTo(s))'
      OBVIOUS
    <3>1. Deliver(s, "data") /\ m = "data"
      BY <1>0, <1>7, <2>1 DEF Deliver, DeliverFails
    <3>2. got'[s] = Append(got[s], item["data"]) /\ item["data"] = Taken /\ got[s] \in Seq(Nat)
      BY <1>0, <2>1, <3>1 DEF Deliver, SourceInv
    <3>3. ~Pending(s)'
      <4>1. \A i \in DOMAIN channels["data"] : channels["data"][i] = s => i = at["data"]
        BY <2>1, <3>1 DEF SentInv, IsInjectiveSeq
      <4>2. at'["data"] = at["data"] + 1 /\ fan'["data"] = "send"
        BY <1>0, <1>1, <2>1, <3>1
      <4> QED BY <1>0, <2>1, <4>1, <4>2 DEF Pending
    <3>4. got'[s] # <<>> /\ got'[s][Len(got'[s])] = Taken
      BY <3>2
    <3> QED BY <1>2, <3>3, <3>4 DEF SentUpTo, UpTo
  <2>5. \A c \in Streams : c # s /\ c \in Consumers("data") => UpTo(c)' = UpTo(c)
    BY <1>2, <2>3 DEF UpTo
  <2> QED BY <1>1, <2>1, <2>2, <2>4, <2>5 DEF SentInv, SentUpTo
<1> QED BY <1>3, <1>4, <1>5, <1>6, <1>7

LEMMA GotNext ==
  ASSUME TypeOK, SourceInv, EndInv, CallInv, GotInv, Next
  PROVE  GotInv'
<1> USE DEF Muxes
<1>0. /\ sub \in [Streams -> {"none", "start", "data", "end", "done"}]
      /\ got \in [Streams -> Seq(Nat)]
  BY BoundsAssumption DEF TypeOK
<1>1. CASE Output \/ OutputEnds \/ Exits \/ Wait \/ Multiplex
  <2>1. UNCHANGED <<sub, got>> /\ (waiter \in {"delete", "done"} => waiter' \in {"delete", "done"})
    BY <1>1 DEF Output, OutputEnds, Exits, Wait, Multiplex, CloseSource, Reap, SendEnd, DeleteEntry,
         Receive, Exited, Range, CloseNext, AllClosed, RLock, RUnlock, process, calls, sent
  <2> QED BY <2>1 DEF GotInv
<1>2. ASSUME NEW s \in Streams, Plain(s) PROVE GotInv'
  <2>1. got' = got /\ \A c \in Streams : sub[c] = "done" => sub'[c] = "done"
    BY <1>2, PlainFrame, DoneStays DEF sent
  <2>2. waiter \in {"delete", "done"} => waiter' = waiter
    BY <1>2 DEF Plain, New, Connect, ClientLeaves, CmdStart, CmdStartFails, Store, SendStart, GoWait,
         ConnectStarts, Returns, DataClosed, SubCancelled, process, EndInv, Started
  <2> QED BY <2>1, <2>2 DEF GotInv
<1>3. ASSUME NEW s \in Streams, NEW m \in Muxes, Fork(s, m) \/ Join(s, m) \/ Remove(s, m) PROVE GotInv'
  <2>1. UNCHANGED <<got, waiter>>
    BY <1>3 DEF Fork, Join, Remove, process, sent
  <2>2. \A c \in Streams : sub[c] = "done" => sub'[c] = "done"
    BY <1>0, <1>3 DEF Fork, Join, Remove, JoinPC, CallInv
  <2> QED BY <2>1, <2>2 DEF GotInv
<1>4. ASSUME NEW s \in Streams, NEW m \in Muxes, Deliver(s, m) \/ DeliverFails(s, m) PROVE GotInv'
  <2>1. waiter' = waiter /\ \A c \in Streams : c # s => sub'[c] = sub[c] /\ got'[c] = got[c]
    BY <1>0, <1>4 DEF Deliver, DeliverFails, process, sent
  <2>2. CASE DeliverFails(s, m)
    BY <1>0, <2>1, <2>2 DEF DeliverFails, GotInv, sent
  <2>3. CASE Deliver(s, m)
    <3>1. sub[s] = m /\ fan[m] = "send" /\ got'[s] = Append(got[s], item[m]) /\ got[s] \in Seq(Nat)
      BY <1>0, <2>3 DEF Deliver, Turn, Receives
    <3>2. \A i \in DOMAIN got[s] : got[s][i] # End
      BY <3>1 DEF GotInv
    <3>3. \A i \in DOMAIN got'[s] : i \notin DOMAIN got[s] => got'[s][i] = item[m]
      BY <3>1
    <3>4. \A i \in DOMAIN got[s] : i \in DOMAIN got'[s] /\ got'[s][i] = got[s][i]
      BY <3>1
    <3>5. CASE m = "data"
      <4>1. item[m] # End
        BY <3>1, <3>5 DEF SourceInv, End
      <4> QED BY <2>1, <3>2, <3>3, <3>4, <4>1 DEF GotInv
    <3>6. CASE m = "end"
      <4>1. sub'[s] = "done" /\ waiter \in {"delete", "done"}
        BY <1>0, <2>3, <3>1, <3>6 DEF Deliver, EndInv
      <4> QED BY <2>1, <3>2, <3>3, <3>4, <4>1 DEF GotInv
    <3> QED BY <3>5, <3>6
  <2> QED BY <1>4, <2>2, <2>3
<1> QED BY <1>1, <1>2, <1>3, <1>4 DEF Next, Plain, Handle, Stream

LEMMA InvNext == IInv /\ [Next]_vars => IInv'
<1> SUFFICES ASSUME IInv, [Next]_vars PROVE IInv'
  OBVIOUS
<1> USE DEF IInv
<1>1. CASE UNCHANGED vars
  <2>1. TypeOK'
    BY TypeNext
  <2>2. UNCHANGED <<kind, proc, emitted, eof, waiter, source, sourceClosed, exited, fan, item, at>>
    BY <1>1 DEF vars, process, pipe, mux, closing
  <2>3. UNCHANGED <<channels, handler, sub, got, since, shut>>
    BY <1>1 DEF vars, mux, closing, calls, sent
  <2>4. SourceInv' /\ EndInv'
    BY <2>2, <2>3 DEF SourceInv, EndInv, Taken
  <2>5. CallInv'
    BY <2>2, <2>3 DEF CallInv, InitInv, InConsumers, Late, Consumers
  <2>6. SentInv' /\ GotInv'
    BY <2>2, <2>3 DEF SentInv, SentUpTo, UpTo, Pending, Taken, Consumers, GotInv
  <2> QED BY <2>1, <2>4, <2>5, <2>6
<1>2. CASE Next
  <2>1. TypeOK'
    BY TypeNext
  <2>2. SourceInv' /\ EndInv' /\ GotInv'
    BY <1>2, SourceNext, EndNext, GotNext
  <2>3. CASE Output \/ OutputEnds \/ Exits \/ Wait \/ Multiplex
    BY <2>1, <2>2, <2>3, CallMux, SentMux
  <2>4. ASSUME NEW s \in Streams, Plain(s) PROVE CallInv' /\ SentInv'
    BY <2>4, CallPlain, SentStream
  <2>5. ASSUME NEW s \in Streams, NEW m \in Muxes,
               Fork(s, m) \/ Join(s, m) \/ Remove(s, m) \/ Deliver(s, m) \/ DeliverFails(s, m)
        PROVE  CallInv' /\ SentInv'
    BY <2>5, CallStream, SentStream
  <2> QED BY <1>2, <2>1, <2>2, <2>3, <2>4, <2>5 DEF Next, Plain, Handle, Stream
<1> QED BY <1>1, <1>2

-----------------------------------------------------------------------------
(* What a client is sent.                                                   *)

LEMMA SkippedNext ==
  ASSUME IInv, NothingSkipped, [Next]_vars
  PROVE  NothingSkipped'
<1> USE DEF IInv
<1>0. got \in [Streams -> Seq(Nat)] /\ since \in [Streams -> Nat] /\ emitted \in Nat
  BY BoundsAssumption DEF TypeOK
<1>1. ASSUME UNCHANGED <<got, since>> PROVE NothingSkipped'
  BY <1>1 DEF NothingSkipped
<1>2. CASE UNCHANGED vars \/ Output \/ OutputEnds \/ Exits \/ Wait \/ Multiplex
  BY <1>1, <1>2 DEF vars, Output, OutputEnds, Exits, Wait, Multiplex, CloseSource, Reap, SendEnd,
       DeleteEntry, Receive, Exited, Range, CloseNext, AllClosed, RLock, RUnlock, sent
<1>3. ASSUME NEW s \in Streams, Plain(s) PROVE NothingSkipped'
  BY <1>1, <1>3, PlainFrame DEF sent
<1>4. ASSUME NEW s \in Streams, NEW m \in Muxes, Fork(s, m) \/ Join(s, m) PROVE NothingSkipped'
  <2>1. got' = got /\ (since' = since \/ since' = [since EXCEPT ![s] = emitted])
    BY <1>4 DEF Fork, Join
  <2>2. \A c \in Streams : since[c] <= since'[c]
    BY <1>0, <2>1 DEF SentInv
  <2>3. since' \in [Streams -> Nat]
    BY <1>0, <2>1
  <2>4. since' # since => got[s] = <<>>
    BY <1>4 DEF Fork, Join, ForkPC, JoinPC, CallInv, Muxes
  <2>5. \A c \in Streams : got[c] # <<>> => since'[c] = since[c]
    BY <1>0, <2>1, <2>4
  <2>6. \A c \in Streams : \A i \in DOMAIN got[c] : since'[c] = since[c]
    BY <1>0, <2>5
  <2> QED BY <2>1, <2>6 DEF NothingSkipped
<1>5. ASSUME NEW s \in Streams, NEW m \in Muxes, Remove(s, m) \/ DeliverFails(s, m)
      PROVE  NothingSkipped'
  BY <1>1, <1>5 DEF Remove, DeliverFails, sent
<1>6. ASSUME NEW s \in Streams, NEW m \in Muxes, Deliver(s, m) PROVE NothingSkipped'
  <2>1. /\ got' = [got EXCEPT ![s] = Append(got[s], item[m])] /\ since' = since
        /\ sub[s] = m /\ fan[m] = "send"
        /\ at[m] \in DOMAIN channels[m] /\ channels[m][at[m]] = s
    BY <1>6 DEF Deliver, Turn, Receives
  <2> DEFINE n == Len(got[s])
  <2>2. /\ got[s] \in Seq(Nat) /\ n \in Nat /\ got'[s] = Append(got[s], item[m])
        /\ \A i \in DOMAIN got[s] : got'[s][i] = got[s][i]
        /\ got'[s][n + 1] = item[m] /\ DOMAIN got'[s] = 1 .. n + 1 /\ DOMAIN got[s] = 1 .. n
    BY <1>0, <2>1
  <2>3. item[m] # End => IF n = 0 THEN item[m] <= since[s] + 1 ELSE item[m] = got[s][n] + 1
    <3>1. CASE m = "end"
      BY <3>1 DEF EndInv
    <3>2. CASE m = "data"
      <4>1. s \in Consumers("data") /\ sub[s] # "done"
        BY <2>1, <3>2 DEF Consumers
      <4>2. Pending(s)
        <5>1. at["data"] \in Nat
          BY DEF TypeOK, Muxes
        <5> QED BY <2>1, <3>2, <5>1 DEF Pending
      <4>3. SentUpTo(s, Taken - 1) /\ item["data"] = Taken /\ Taken \in Nat
        <5>1. Taken \in Int
          BY BoundsAssumption DEF TypeOK, Taken, Chunks
        <5> QED BY <2>1, <3>2, <4>1, <4>2, <5>1 DEF SentInv, SourceInv, UpTo
      <4> QED BY <1>0, <2>2, <3>2, <4>3 DEF SentUpTo
    <3> QED BY <3>1, <3>2 DEF Muxes
  <2> HIDE DEF n
  <2>4. \A i \in DOMAIN got'[s] : got'[s][i] # End =>
          IF i = 1 THEN got'[s][i] <= since[s] + 1 ELSE got'[s][i] = got'[s][i - 1] + 1
    <3> SUFFICES ASSUME NEW i \in 1 .. n + 1, got'[s][i] # End
                 PROVE  IF i = 1 THEN got'[s][i] <= since[s] + 1 ELSE got'[s][i] = got'[s][i - 1] + 1
      BY <2>2
    <3>1. CASE i = n + 1
      <4>1. CASE n = 0
        BY <2>2, <2>3, <3>1, <4>1
      <4>2. CASE n # 0
        <5>1. n \in DOMAIN got[s] /\ i - 1 = n /\ i # 1
          BY <2>2, <3>1, <4>2
        <5> QED BY <2>2, <2>3, <3>1, <4>2, <5>1
      <4> QED BY <4>1, <4>2
    <3>2. CASE i # n + 1
      <4>1. i \in DOMAIN got[s] /\ (i # 1 => i - 1 \in DOMAIN got[s])
        BY <2>2, <3>2
      <4> QED BY <2>2, <4>1 DEF NothingSkipped
    <3> QED BY <3>1, <3>2
  <2>5. \A c \in Streams : c # s => got'[c] = got[c]
    BY <1>0, <2>1
  <2> QED BY <2>1, <2>4, <2>5 DEF NothingSkipped
<1> QED BY <1>2, <1>3, <1>4, <1>5, <1>6 DEF Next, Plain, Handle, Stream

LEMMA LastNext ==
  ASSUME IInv, EndIsLast, [Next]_vars
  PROVE  EndIsLast'
<1> USE DEF IInv
<1>0. /\ got \in [Streams -> Seq(Nat)] /\ since \in [Streams -> Nat] /\ emitted \in Nat
      /\ source \in Seq(Nat)
  BY BoundsAssumption DEF TypeOK, Chunks
<1>1. \A c \in Streams : \A i \in DOMAIN got[c] : got[c][i] = End =>
        /\ eof /\ proc = "exited" /\ waiter \in {"delete", "done"} /\ sub[c] = "done"
  BY DEF GotInv, EndInv
<1>2. ASSUME UNCHANGED <<got, since>>,
             eof /\ proc = "exited" /\ waiter \in {"delete", "done"} =>
               UNCHANGED <<emitted, eof, proc>>
      PROVE  EndIsLast'
  BY <1>1, <1>2 DEF EndIsLast
<1>3. CASE UNCHANGED vars \/ Output \/ OutputEnds \/ Exits \/ Wait \/ Multiplex
  <2>1. UNCHANGED <<got, since>> /\ (eof /\ proc = "exited" => UNCHANGED <<emitted, eof, proc>>)
    BY <1>3 DEF vars, Output, OutputEnds, Exits, Wait, Multiplex, CloseSource, Reap, SendEnd,
         DeleteEntry, Receive, Exited, Range, CloseNext, AllClosed, RLock, RUnlock, sent, process
  <2> QED BY <1>2, <2>1
<1>4. ASSUME NEW s \in Streams, Plain(s) PROVE EndIsLast'
  <2>1. UNCHANGED <<got, since, emitted, eof>>
    BY <1>4, PlainFrame DEF sent
  <2>2. waiter \in {"delete", "done"} => proc' = proc
    BY <1>4 DEF Plain, New, Connect, ClientLeaves, CmdStart, CmdStartFails, Store, SendStart, GoWait,
         ConnectStarts, Returns, DataClosed, SubCancelled, process, EndInv, Started
  <2> QED BY <1>2, <2>1, <2>2
<1>5. ASSUME NEW s \in Streams, NEW m \in Muxes, Fork(s, m) \/ Join(s, m) PROVE EndIsLast'
  <2>1. /\ got' = got /\ (since' = since \/ since' = [since EXCEPT ![s] = emitted])
        /\ UNCHANGED <<emitted, eof, proc>>
    BY <1>5 DEF Fork, Join, process
  <2>2. since' # since => got[s] = <<>>
    BY <1>5 DEF Fork, Join, ForkPC, JoinPC, CallInv, Muxes
  <2>3. \A c \in Streams : got[c] # <<>> => since'[c] = since[c]
    BY <1>0, <2>1, <2>2
  <2>4. \A c \in Streams : \A i \in DOMAIN got[c] : since'[c] = since[c]
    BY <1>0, <2>3
  <2> QED BY <2>1, <2>4 DEF EndIsLast
<1>6. ASSUME NEW s \in Streams, NEW m \in Muxes, Remove(s, m) \/ DeliverFails(s, m) PROVE EndIsLast'
  BY <1>2, <1>6 DEF Remove, DeliverFails, sent, process
<1>7. ASSUME NEW s \in Streams, NEW m \in Muxes, Deliver(s, m) PROVE EndIsLast'
  <2>1. /\ got' = [got EXCEPT ![s] = Append(got[s], item[m])]
        /\ UNCHANGED <<since, emitted, eof, proc, waiter>>
        /\ sub[s] = m /\ fan[m] = "send"
        /\ at[m] \in DOMAIN channels[m] /\ channels[m][at[m]] = s
    BY <1>7 DEF Deliver, Turn, Receives, process
  <2> DEFINE n == Len(got[s])
  <2>2. /\ got[s] \in Seq(Nat) /\ n \in Nat /\ got'[s] = Append(got[s], item[m])
        /\ \A i \in DOMAIN got[s] : got'[s][i] = got[s][i]
        /\ got'[s][n + 1] = item[m] /\ DOMAIN got'[s] = 1 .. n + 1 /\ DOMAIN got[s] = 1 .. n
        /\ Len(got'[s]) = n + 1 /\ (n = 0 <=> got[s] = <<>>)
    BY <1>0, <2>1
  <2>3. item[m] = End => /\ eof /\ proc = "exited"
                         /\ IF n = 0 THEN since[s] = emitted ELSE got[s][n] = emitted
    <3>1. CASE m = "data"
      BY <2>1, <3>1 DEF SourceInv, End
    <3>2. CASE m = "end"
      <4>1. exited /\ eof /\ proc = "exited"
        BY <2>1, <3>2 DEF EndInv
      <4>2. source = <<>> /\ fan["data"] \notin {"lock", "send"}
        BY <4>1 DEF SourceInv
      <4>3. Taken = emitted /\ UpTo(s) = emitted
        BY <1>0, <4>2 DEF Taken, UpTo, Pending
      <4>4. s \in Consumers("end") /\ sub[s] # "done"
        BY <2>1, <3>2 DEF Consumers
      <4>5. CASE s \in Consumers("data")
        <5>1. SentUpTo(s, emitted) /\ since[s] <= emitted
          BY <4>3, <4>4, <4>5 DEF SentInv
        <5> QED BY <1>0, <2>2, <4>1, <5>1 DEF SentUpTo
      <4>6. CASE Late(s)
        BY <2>2, <4>1, <4>4, <4>6 DEF Late
      <4> QED BY <4>4, <4>5, <4>6 DEF CallInv, InConsumers
    <3> QED BY <3>1, <3>2 DEF Muxes
  <2>4. \A i \in DOMAIN got[s] : got[s][i] # End
    BY <1>1, <2>1 DEF Muxes
  <2> HIDE DEF n
  <2>5. \A i \in DOMAIN got'[s] : got'[s][i] = End =>
          /\ i = Len(got'[s]) /\ eof /\ proc = "exited"
          /\ IF i = 1 THEN since[s] = emitted ELSE got'[s][i - 1] = emitted
    <3> SUFFICES ASSUME NEW i \in 1 .. n + 1, got'[s][i] = End
                 PROVE  /\ i = Len(got'[s]) /\ eof /\ proc = "exited"
                        /\ IF i = 1 THEN since[s] = emitted ELSE got'[s][i - 1] = emitted
      BY <2>2
    <3>1. i = n + 1
      <4>1. ASSUME i # n + 1 PROVE FALSE
        <5>1. i \in 1 .. n
          BY <2>2, <4>1
        <5>2. got'[s][i] = got[s][i] /\ got[s][i] # End
          BY <2>2, <2>4, <5>1
        <5> QED BY <5>2
      <4> QED BY <4>1
    <3>2. CASE n = 0
      BY <2>2, <2>3, <3>1, <3>2
    <3>3. CASE n # 0
      <4>1. n \in DOMAIN got[s] /\ i - 1 = n /\ i # 1
        BY <2>2, <3>1, <3>3
      <4> QED BY <2>2, <2>3, <3>1, <3>3, <4>1
    <3> QED BY <3>2, <3>3
  <2>6. \A c \in Streams : c # s => got'[c] = got[c]
    BY <1>0, <2>1
  <2> QED BY <2>1, <2>5, <2>6 DEF EndIsLast
<1> QED BY <1>3, <1>4, <1>5, <1>6, <1>7 DEF Next, Plain, Handle, Stream

(***************************************************************************)
(* A client is sent, in order and once, every chunk that is read after its *)
(* request joined, whatever joins, leaves and ends meanwhile.              *)
(***************************************************************************)
THEOREM NothingIsSkipped == Spec => []NothingSkipped
<1>1. Init => NothingSkipped
  BY DEF Init, NothingSkipped
<1> QED BY <1>1, InvInit, InvNext, SkippedNext, PTL DEF Spec

(***************************************************************************)
(* The end event comes once, after all output, when the process has ended, *)
(* though it travels through a multiplexer of its own.                     *)
(***************************************************************************)
THEOREM EndComesLast == Spec => []EndIsLast
<1>1. Init => EndIsLast
  BY DEF Init, EndIsLast
<1> QED BY <1>1, InvInit, InvNext, LastNext, PTL DEF Spec

=============================================================================
