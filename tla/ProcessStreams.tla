---------------------------- MODULE ProcessStreams ----------------------------
(***************************************************************************)
(* A process that envd runs in the sandbox, and the streams that carry its *)
(* output to clients: packages/envd/internal/services/process.             *)
(*                                                                         *)
(* The process has two MultiplexedChannels: what it writes goes through    *)
(* DataEvent, its end through EndEvent.  Each has a goroutine that hands   *)
(* every value to every consumer, one after the other, under the read      *)
(* lock; joining (Fork) and leaving (remove) take the write lock.  A Start *)
(* request and any number of Connect requests are consumers of both.       *)
(*                                                                         *)
(* Chunks of output are numbered in the order they are read.  The readers  *)
(* of stdout and stderr are one, and so are a stream's receive from its    *)
(* channel and the Send to its client.  The channel of the start event has *)
(* one consumer, to whom Start sends directly: its own goroutine only ever *)
(* sees the end of it and is left out.                                     *)
(***************************************************************************)
EXTENDS Integers, Sequences

CONSTANTS
  StartCall,         \* the request that starts the process
  Connects,          \* the requests that connect to it
  Kinds,             \* how it may be started: "pipe", "pty" or "init"
  outputBufferSize,
  MaxOutput,         \* how many chunks it writes: a bound of the model
  MaxLeaves          \* how many clients go away early: a bound of the model

ASSUME ConnectsAssumption == StartCall \notin Connects
ASSUME KindsAssumption == Kinds \subseteq {"pipe", "pty", "init"}
ASSUME BoundsAssumption ==
  outputBufferSize \in Nat \ {0} /\ MaxOutput \in Nat /\ MaxLeaves \in Nat

VARIABLES
  kind,          \* "pipe" or "pty" of a Start, "init" for InitializeStartProcess
  proc,          \* the process: "new", "running", "exited", or "failed" to start
  emitted,       \* how many chunks were read from it
  eof,           \* the readers have come to the end (outWg)
  waiter,        \* where Handler.Wait is
  listed,        \* the process is in Service.processes
  crashed,       \* envd has panicked
  source,        \* what waits in DataEvent.Source
  sourceClosed,
  exited,        \* DataEvent.exited
  channels,      \* multiplexer -> its consumers
  capacity,      \* the room in the array of DataEvent.channels
  fan,           \* multiplexer -> where its goroutine is
  item,          \* multiplexer -> the value it hands out
  at,            \* multiplexer -> how far its loop over the consumers is
  view,          \* the array that the closing loop walks over,
  shared,        \* and whether it still is the one of DataEvent.channels
  shut,          \* the consumers whose channel for output was closed
  handler,       \* request -> where its handler is
  sub,           \* request -> where the goroutine is that streams to its client
  cancelled,     \* request -> its context is done
  leaves,
  got,           \* request -> what its client was sent
  since          \* request -> what had been read when it joined

process == <<kind, proc, emitted, eof, waiter, listed>>
pipe    == <<source, sourceClosed>>
mux     == <<channels, capacity, fan, item, at>>
closing == <<exited, view, shared, shut>>
calls   == <<handler, sub, cancelled, leaves>>
sent    == <<got, since>>
vars    == <<process, crashed, pipe, mux, closing, calls, sent>>

-----------------------------------------------------------------------------
Streams == {StartCall} \cup Connects
Muxes   == {"data", "end"}
End     == 0                    \* the end event; chunks are numbered from 1
Chunks  == 1 .. MaxOutput

ForkPC(m)   == IF m = "data" THEN "forkData" ELSE "forkEnd"
JoinPC(m)   == IF m = "data" THEN "joinData" ELSE "joinEnd"
RemovePC(m) == IF m = "data" THEN "removeData" ELSE "removeEnd"
Consumers(m) == {channels[m][i] : i \in DOMAIN channels[m]}

GoTo(s, pc) == handler' = [handler EXCEPT ![s] = pc]

Init ==
  /\ kind \in Kinds /\ proc = "new" /\ emitted = 0 /\ eof = FALSE
  /\ waiter = "none" /\ listed = FALSE /\ crashed = FALSE
  /\ source = <<>> /\ sourceClosed = FALSE /\ exited = FALSE
  /\ channels = [m \in Muxes |-> <<>>] /\ capacity = 0
  /\ fan = [m \in Muxes |-> "recv"] /\ item = [m \in Muxes |-> End]
  /\ at = [m \in Muxes |-> 1]
  /\ view = <<>> /\ shared = FALSE /\ shut = {}
  /\ handler = [s \in Streams |-> "idle"] /\ sub = [s \in Streams |-> "none"]
  /\ cancelled = [s \in Streams |-> FALSE] /\ leaves = 0
  /\ got = [s \in Streams |-> <<>>] /\ since = [s \in Streams |-> 0]

-----------------------------------------------------------------------------
(* The process, and the goroutines that read its output.  Its output stays  *)
(* open as long as a child of it has it, even when it has exited.           *)

\* Mutant: the reader does not wait for room in the buffer.
OutputUnbuffered ==
  /\ proc \in {"running", "exited"} /\ ~eof /\ emitted < MaxOutput
  /\ emitted' = emitted + 1 /\ source' = Append(source, emitted + 1)
  /\ UNCHANGED <<kind, proc, eof, waiter, listed, crashed, sourceClosed>>
  /\ UNCHANGED <<mux, closing, calls, sent>>

Output ==
  /\ proc \in {"running", "exited"} /\ ~eof
  /\ emitted < MaxOutput /\ Len(source) < outputBufferSize
  /\ emitted' = emitted + 1 /\ source' = Append(source, emitted + 1)
  /\ UNCHANGED <<kind, proc, eof, waiter, listed, crashed, sourceClosed>>
  /\ UNCHANGED <<mux, closing, calls, sent>>

OutputEnds ==
  /\ proc \in {"running", "exited"} /\ ~eof
  /\ eof' = TRUE
  /\ UNCHANGED <<kind, proc, emitted, waiter, listed, crashed, pipe, mux, closing, calls, sent>>

Exits ==
  /\ proc = "running" /\ proc' = "exited"
  /\ UNCHANGED <<kind, emitted, eof, waiter, listed, crashed, pipe, mux, closing, calls, sent>>

-----------------------------------------------------------------------------
(* Handler.Wait, and the goroutine that called it.                          *)

\* Mutant: outWg is not waited for.
CloseSourceEarly ==
  /\ waiter = "output"
  /\ waiter' = "reap" /\ sourceClosed' = TRUE
  /\ UNCHANGED <<kind, proc, emitted, eof, listed, crashed, source, mux, closing, calls, sent>>

CloseSource ==
  /\ waiter = "output" /\ eof
  /\ waiter' = "reap" /\ sourceClosed' = TRUE
  /\ UNCHANGED <<kind, proc, emitted, eof, listed, crashed, source, mux, closing, calls, sent>>

Reap ==
  /\ waiter = "reap" /\ proc = "exited"
  /\ waiter' = "send"
  /\ UNCHANGED <<kind, proc, emitted, eof, listed, crashed, pipe, mux, closing, calls, sent>>

\* EndEvent.Source has no buffer: its goroutine takes the event.
SendEnd ==
  /\ waiter = "send" /\ fan["end"] = "recv"
  /\ waiter' = "delete"
  /\ fan' = [fan EXCEPT !["end"] = "lock"] /\ item' = [item EXCEPT !["end"] = End]
  /\ UNCHANGED <<kind, proc, emitted, eof, listed, crashed, pipe, channels, capacity, at>>
  /\ UNCHANGED <<closing, calls, sent>>

DeleteEntry ==
  /\ waiter = "delete"
  /\ waiter' = "done" /\ listed' = FALSE
  /\ UNCHANGED <<kind, proc, emitted, eof, crashed, pipe, mux, closing, calls, sent>>

-----------------------------------------------------------------------------
(* The goroutine of a MultiplexedChannel.                                   *)

Receive ==
  /\ fan["data"] = "recv" /\ source # <<>>
  /\ item' = [item EXCEPT !["data"] = Head(source)] /\ source' = Tail(source)
  /\ fan' = [fan EXCEPT !["data"] = "lock"]
  /\ UNCHANGED <<process, crashed, sourceClosed, channels, capacity, at, closing, calls, sent>>

\* A request waits for the write lock: no new reader gets the read lock.
WantsLock(s, m) ==
  \/ handler[s] = JoinPC(m)
  \/ handler[s] = RemovePC(m) /\ s \in Consumers(m)

RLock(m) ==
  /\ fan[m] = "lock" /\ \A s \in Streams : ~WantsLock(s, m)
  /\ fan' = [fan EXCEPT ![m] = "send"] /\ at' = [at EXCEPT ![m] = 1]
  /\ UNCHANGED <<process, crashed, pipe, channels, capacity, item, closing, calls, sent>>

Turn(s, m) == fan[m] = "send" /\ at[m] \in DOMAIN channels[m] /\ channels[m][at[m]] = s

\* The stream's goroutine receives: chunks first, the end event after them.
Receives(s, m) == sub[s] = m

Deliver(s, m) ==
  /\ Turn(s, m) /\ Receives(s, m)
  /\ at' = [at EXCEPT ![m] = @ + 1]
  /\ got' = [got EXCEPT ![s] = Append(@, item[m])]
  /\ sub' = IF m = "end" THEN [sub EXCEPT ![s] = "done"] ELSE sub
  /\ UNCHANGED <<process, crashed, pipe, channels, capacity, fan, item, closing>>
  /\ UNCHANGED <<handler, cancelled, leaves, since>>

\* The client has gone: Send fails and the goroutine ends.
DeliverFails(s, m) ==
  /\ Turn(s, m) /\ Receives(s, m) /\ cancelled[s]
  /\ at' = [at EXCEPT ![m] = @ + 1] /\ sub' = [sub EXCEPT ![s] = "done"]
  /\ UNCHANGED <<process, crashed, pipe, channels, capacity, fan, item, closing>>
  /\ UNCHANGED <<handler, cancelled, leaves, sent>>

RUnlock(m) ==
  /\ fan[m] = "send" /\ at[m] = Len(channels[m]) + 1
  /\ fan' = [fan EXCEPT ![m] = "recv"]
  /\ UNCHANGED <<process, crashed, pipe, channels, capacity, item, at, closing, calls, sent>>

\* Only DataEvent.Source is ever closed.
Exited ==
  /\ fan["data"] = "recv" /\ source = <<>> /\ sourceClosed
  /\ exited' = TRUE /\ fan' = [fan EXCEPT !["data"] = "range"]
  /\ UNCHANGED <<process, crashed, pipe, channels, capacity, item, at>>
  /\ UNCHANGED <<view, shared, shut, calls, sent>>

\* The closing loop holds no lock: it walks over the array as it is now, of
\* which a remove shifts the elements and to which a Fork may append.
Range ==
  /\ fan["data"] = "range"
  /\ fan' = [fan EXCEPT !["data"] = "close"] /\ at' = [at EXCEPT !["data"] = 1]
  /\ view' = channels["data"] /\ shared' = TRUE
  /\ UNCHANGED <<process, crashed, pipe, channels, capacity, item, exited, shut, calls, sent>>

\* Mutant: every second consumer is left out.
CloseNextSkips ==
  /\ fan["data"] = "close" /\ at["data"] <= Len(view)
  /\ crashed' = (view[at["data"]] \in shut)
  /\ shut' = shut \cup {view[at["data"]]}
  /\ at' = [at EXCEPT !["data"] = @ + 2]
  /\ UNCHANGED <<process, pipe, channels, capacity, fan, item, exited, view, shared, calls, sent>>

\* To close a channel twice is a panic, which nothing recovers.
CloseNext ==
  /\ fan["data"] = "close" /\ at["data"] <= Len(view)
  /\ LET s == view[at["data"]] IN
       /\ crashed' = (s \in shut)
       /\ shut' = shut \cup {s}
  /\ at' = [at EXCEPT !["data"] = @ + 1]
  /\ UNCHANGED <<process, pipe, channels, capacity, fan, item, exited, view, shared, calls, sent>>

AllClosed ==
  /\ fan["data"] = "close" /\ at["data"] > Len(view)
  /\ fan' = [fan EXCEPT !["data"] = "done"]
  /\ view' = <<>> /\ shared' = FALSE
  /\ UNCHANGED <<process, crashed, pipe, channels, capacity, item, at, exited, shut, calls, sent>>

-----------------------------------------------------------------------------
(* Fork and the function it returns.                                        *)

\* exited is read before the lock is asked for; a Fork that sees it set gets a
\* channel that is closed already.
Fork(s, m) ==
  /\ handler[s] = ForkPC(m)
  /\ \/ /\ m = "data" /\ exited
        /\ shut' = shut \cup {s} /\ since' = [since EXCEPT ![s] = emitted]
        /\ GoTo(s, "forkEnd")
     \/ /\ ~(m = "data" /\ exited)
        /\ GoTo(s, JoinPC(m))
        /\ UNCHANGED <<shut, since>>
  /\ UNCHANGED <<process, crashed, pipe, mux, exited, view, shared, sub, cancelled, leaves, got>>

Joined(s) == IF s = StartCall THEN "cmdStart" ELSE "sendStart"
IsFull == Len(channels["data"]) = capacity

\* append: a full array is copied to one of twice its size, a loop over the old
\* one does not see it.
GrowArray ==
  /\ IsFull
  /\ capacity' = IF capacity = 0 THEN 1 ELSE 2 * capacity
  /\ shared' = FALSE /\ UNCHANGED view

AppendInPlace(s) ==
  LET i == Len(channels["data"]) + 1 IN
  /\ ~IsFull
  /\ view' = IF shared /\ i <= Len(view) THEN [view EXCEPT ![i] = s] ELSE view
  /\ UNCHANGED <<capacity, shared>>

Join(s, m) ==
  /\ handler[s] = JoinPC(m) /\ fan[m] # "send"
  /\ channels' = [channels EXCEPT ![m] = Append(@, s)]
  /\ \/ /\ m = "data" /\ (GrowArray \/ AppendInPlace(s))
        /\ since' = [since EXCEPT ![s] = emitted]
        /\ GoTo(s, "forkEnd") /\ UNCHANGED sub
     \/ /\ m = "end" /\ UNCHANGED <<capacity, view, shared, since>>
        /\ GoTo(s, Joined(s))
        /\ sub' = IF s = StartCall THEN [sub EXCEPT ![s] = "start"] ELSE sub
  /\ UNCHANGED <<process, crashed, pipe, fan, item, at, exited, shut, cancelled, leaves, got>>

\* Elements after the removed one move one place to the front.
Without(seq, i) == [j \in 1 .. Len(seq) - 1 |-> IF i <= j THEN seq[j + 1] ELSE seq[j]]

ShiftedView(i) ==
  LET cells == channels["data"]
  IN  [j \in DOMAIN view |-> IF i <= j /\ j < Len(cells) THEN cells[j + 1] ELSE view[j]]

AfterRemove(m) == IF m = "end" THEN "removeData" ELSE "done"

\* Mutant: remove does not take the lock.
RemoveUnlocked(s, m) ==
  /\ handler[s] = RemovePC(m)
  /\ channels' = [channels EXCEPT ![m] = SelectSeq(@, LAMBDA c : c # s)]
  /\ GoTo(s, AfterRemove(m))
  /\ cancelled' = IF m = "data" THEN [cancelled EXCEPT ![s] = TRUE] ELSE cancelled
  /\ UNCHANGED <<process, crashed, pipe, capacity, fan, item, at, exited, view, shared, shut>>
  /\ UNCHANGED <<sub, leaves, sent>>

\* The deferred calls of a handler: EndEvent is left first, then DataEvent; the
\* last of them cancels the context.
Remove(s, m) ==
  /\ handler[s] = RemovePC(m)
  /\ \/ /\ s \in Consumers(m) /\ fan[m] # "send"
        /\ \E i \in DOMAIN channels[m] :
             /\ channels[m][i] = s
             /\ channels' = [channels EXCEPT ![m] = Without(@, i)]
             /\ view' = IF m = "data" /\ shared THEN ShiftedView(i) ELSE view
     \/ /\ s \notin Consumers(m) /\ UNCHANGED <<channels, view>>
  /\ GoTo(s, AfterRemove(m))
  /\ cancelled' = IF m = "data" THEN [cancelled EXCEPT ![s] = TRUE] ELSE cancelled
  /\ UNCHANGED <<process, crashed, pipe, capacity, fan, item, at, exited, shared, shut>>
  /\ UNCHANGED <<sub, leaves, sent>>

-----------------------------------------------------------------------------
(* handleStart, InitializeStartProcess and handleConnect.                   *)

\* A pty starts the process with the handler, before Start has joined.
New(s) ==
  /\ handler[s] = "idle" /\ s = StartCall
  /\ proc' = IF kind = "pty" THEN "running" ELSE proc
  /\ GoTo(s, IF kind = "init" THEN "cmdStart" ELSE "forkData")
  /\ UNCHANGED <<kind, emitted, eof, waiter, listed, crashed, pipe, mux, closing>>
  /\ UNCHANGED <<sub, cancelled, leaves, sent>>

CmdStart(s) ==
  /\ handler[s] = "cmdStart"
  /\ proc' = IF kind = "pty" THEN proc ELSE "running"
  /\ GoTo(s, "store")
  /\ UNCHANGED <<kind, emitted, eof, waiter, listed, crashed, pipe, mux, closing>>
  /\ UNCHANGED <<sub, cancelled, leaves, sent>>

CmdStartFails(s) ==
  /\ handler[s] = "cmdStart" /\ kind # "pty"
  /\ proc' = "failed"
  /\ GoTo(s, IF kind = "init" THEN "done" ELSE "removeEnd")
  /\ UNCHANGED <<kind, emitted, eof, waiter, listed, crashed, pipe, mux, closing>>
  /\ UNCHANGED <<sub, cancelled, leaves, sent>>

Store(s) ==
  /\ handler[s] = "store"
  /\ listed' = TRUE
  /\ GoTo(s, IF kind = "init" THEN "goWait" ELSE "sendStart")
  /\ UNCHANGED <<kind, proc, emitted, eof, waiter, crashed, pipe, mux, closing>>
  /\ UNCHANGED <<sub, cancelled, leaves, sent>>

\* start <- event waits for the goroutine of the stream, whatever became of it.
SendStart(s) ==
  /\ handler[s] = "sendStart" /\ s = StartCall /\ sub[s] = "start"
  /\ \/ sub' = [sub EXCEPT ![s] = "data"]
     \/ cancelled[s] /\ sub' = [sub EXCEPT ![s] = "done"]
  /\ GoTo(s, "goWait")
  /\ UNCHANGED <<process, crashed, pipe, mux, closing, cancelled, leaves, sent>>

GoWait(s) ==
  /\ handler[s] = "goWait"
  /\ waiter' = "output"
  /\ GoTo(s, IF kind = "init" THEN "done" ELSE "select")
  /\ UNCHANGED <<kind, proc, emitted, eof, listed, crashed, pipe, mux, closing>>
  /\ UNCHANGED <<sub, cancelled, leaves, sent>>

Connect(s) ==
  /\ handler[s] = "idle" /\ s \in Connects /\ listed
  /\ GoTo(s, "forkData")
  /\ UNCHANGED <<process, crashed, pipe, mux, closing, sub, cancelled, leaves, sent>>

ConnectStarts(s) ==
  /\ handler[s] = "sendStart" /\ s \in Connects
  /\ \/ sub' = [sub EXCEPT ![s] = "data"] /\ GoTo(s, "select")
     \/ cancelled[s] /\ GoTo(s, "removeEnd") /\ UNCHANGED sub
  /\ UNCHANGED <<process, crashed, pipe, mux, closing, cancelled, leaves, sent>>

Returns(s) ==
  /\ handler[s] = "select" /\ (cancelled[s] \/ sub[s] = "done")
  /\ GoTo(s, "removeEnd")
  /\ UNCHANGED <<process, crashed, pipe, mux, closing, sub, cancelled, leaves, sent>>

-----------------------------------------------------------------------------
(* The goroutine that streams to the client, and the client.                *)

DataClosed(s) ==
  /\ sub[s] = "data" /\ s \in shut
  /\ sub' = [sub EXCEPT ![s] = "end"]
  /\ UNCHANGED <<process, crashed, pipe, mux, closing, handler, cancelled, leaves, sent>>

SubCancelled(s) ==
  /\ sub[s] \in {"start", "data", "end"} /\ cancelled[s]
  /\ sub' = [sub EXCEPT ![s] = "done"]
  /\ UNCHANGED <<process, crashed, pipe, mux, closing, handler, cancelled, leaves, sent>>

ClientLeaves(s) ==
  /\ handler[s] \notin {"idle", "done"} /\ ~cancelled[s] /\ leaves < MaxLeaves
  /\ ~(s = StartCall /\ kind = "init")
  /\ cancelled' = [cancelled EXCEPT ![s] = TRUE] /\ leaves' = leaves + 1
  /\ UNCHANGED <<process, crashed, pipe, mux, closing, handler, sub, sent>>

-----------------------------------------------------------------------------
Wait == CloseSource \/ Reap \/ SendEnd \/ DeleteEntry

Multiplex ==
  \/ Receive \/ Exited \/ Range \/ CloseNext \/ AllClosed
  \/ \E m \in Muxes : RLock(m) \/ RUnlock(m)

Handle(s) ==
  \/ CmdStart(s) \/ CmdStartFails(s) \/ Store(s) \/ SendStart(s) \/ GoWait(s)
  \/ ConnectStarts(s) \/ Returns(s)
  \/ \E m \in Muxes : Fork(s, m) \/ Join(s, m) \/ Remove(s, m)

Stream(s) ==
  \/ DataClosed(s) \/ SubCancelled(s)
  \/ \E m \in Muxes : Deliver(s, m) \/ DeliverFails(s, m)

Next ==
  /\ ~crashed
  /\ \/ Output \/ OutputEnds \/ Exits \/ Wait \/ Multiplex
     \/ \E s \in Streams :
          New(s) \/ Connect(s) \/ ClientLeaves(s) \/ Handle(s) \/ Stream(s)

Spec == Init /\ [][Next]_vars

(***************************************************************************)
(* envd's goroutines are scheduled, and a client that stays reads what it  *)
(* is sent.  Nothing is assumed of requests, nor of the process.           *)
(***************************************************************************)
Fairness ==
  /\ WF_vars(~crashed /\ Wait) /\ WF_vars(~crashed /\ Multiplex)
  /\ \A s \in Streams : WF_vars(~crashed /\ Handle(s)) /\ WF_vars(~crashed /\ Stream(s))

FairSpec == Spec /\ Fairness

-----------------------------------------------------------------------------
HandlerPC == {"idle", "forkData", "joinData", "forkEnd", "joinEnd", "cmdStart", "store",
              "sendStart", "goWait", "select", "removeEnd", "removeData", "done"}

TypeOK ==
  /\ kind \in Kinds /\ proc \in {"new", "running", "exited", "failed"}
  /\ emitted \in 0 .. MaxOutput /\ eof \in BOOLEAN /\ listed \in BOOLEAN
  /\ waiter \in {"none", "output", "reap", "send", "delete", "done"}
  /\ crashed \in BOOLEAN /\ sourceClosed \in BOOLEAN /\ exited \in BOOLEAN
  /\ source \in Seq(Chunks) /\ Len(source) <= outputBufferSize
  /\ channels \in [Muxes -> Seq(Streams)] /\ capacity \in Nat
  /\ fan \in [Muxes -> {"recv", "lock", "send", "range", "close", "done"}]
  /\ item \in [Muxes -> 0 .. MaxOutput] /\ at \in [Muxes -> Nat \ {0}]
  /\ view \in Seq(Streams) /\ shared \in BOOLEAN /\ shut \subseteq Streams
  /\ handler \in [Streams -> HandlerPC]
  /\ sub \in [Streams -> {"none", "start", "data", "end", "done"}]
  /\ cancelled \in [Streams -> BOOLEAN] /\ leaves \in 0 .. MaxLeaves
  /\ got \in [Streams -> Seq(0 .. MaxOutput)] /\ since \in [Streams -> 0 .. MaxOutput]

(***************************************************************************)
(* A client misses nothing: what it is sent is every chunk read since its  *)
(* request joined, in order and once, whoever joins and leaves meanwhile   *)
(* (the loop over the consumers is safe under its read lock).              *)
(***************************************************************************)
NothingSkipped ==
  \A s \in Streams : \A i \in DOMAIN got[s] :
    got[s][i] # End =>
      IF i = 1 THEN got[s][i] <= since[s] + 1 ELSE got[s][i] = got[s][i - 1] + 1

(***************************************************************************)
(* The end event is the last a client gets, once, and it comes after all   *)
(* output: although it travels through another multiplexer.                *)
(***************************************************************************)
EndIsLast ==
  \A s \in Streams : \A i \in DOMAIN got[s] :
    got[s][i] = End =>
      /\ i = Len(got[s]) /\ eof /\ proc = "exited"
      /\ IF i = 1 THEN since[s] = emitted ELSE got[s][i - 1] = emitted

\* A request is between joining DataEvent and reading from it.
Joining(s) == handler[s] \in {"forkData", "joinData", "forkEnd", "joinEnd", "sendStart"}

\* No client goes away early, and nobody connects once the output has ended.
Calm == leaves = 0 /\ (sourceClosed => \A s \in Connects : ~Joining(s))

(***************************************************************************)
(* Unless a client goes away early or connects when the output has ended,  *)
(* a process that has ended and closed its output is taken out of the list *)
(* and its Start returns.                                                  *)
(***************************************************************************)
EndedIsReported ==
  []Calm => ((proc = "exited" /\ eof) ~> (~listed /\ handler[StartCall] = "done"))

(***************************************************************************)
(* handler.go:111 "The output of the pty should correctly be passed        *)
(* though.": what is read after Start has joined reaches its client, as    *)
(* long as that client stays.                                              *)
(***************************************************************************)
OutputIsPassed ==
  \A n \in Chunks :
    (handler[StartCall] = "select" /\ since[StartCall] < n /\ n <= emitted)
      ~> (cancelled[StartCall] \/ \E i \in DOMAIN got[StartCall] : got[StartCall][i] = n)

=============================================================================
