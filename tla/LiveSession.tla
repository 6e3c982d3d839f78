----------------------------- MODULE LiveSession -----------------------------
(***************************************************************************)
(* One tracked livestream: the Live object of live.go and the goroutines   *)
(* that wss.go starts for it.                                              *)
(*                                                                         *)
(*   TrackRoom   fetches the room, publishes the messages of the first     *)
(*               answer and upgrades to the websocket                      *)
(*   readSocket  reads frames, publishes their events in Live.Events and   *)
(*               runs the deferred shutdown                                *)
(*   sendPing    writes a frame every ten seconds                          *)
(*   Close       called by any number of goroutines, runs once             *)
(*   consumer    the library user, who receives from Live.Events           *)
(*                                                                         *)
(* The server, the network and the interrupt handler are the environment.  *)
(* A message is reduced to its place in the server's order and to what     *)
(* parseMsg makes of it.  Frames that are read and change nothing (control *)
(* frames, text frames) are stuttering steps of this specification.        *)
(***************************************************************************)
EXTENDS Integers, Sequences

CONSTANTS
  ChanSize,   \* capacity of Live.Events (DEFAULT_EVENTS_CHAN_SIZE)
  Closers,    \* the goroutines that may call Live.Close
  MaxMsgs,    \* bound: how many messages the server ever sends
  MaxBatch    \* bound: how many messages one WebcastResponse holds

ASSUME SessionAssumption ==
  /\ ChanSize \in Nat \ {0}
  /\ MaxMsgs \in Nat
  /\ MaxBatch \in Nat

VARIABLES
  track,      \* where TrackRoom is
  reader,     \* where the readSocket goroutine is
  pinger,     \* where the sendPing goroutine is
  closer,     \* where each caller of Close is
  once,       \* the sync.Once of Live.close
  cancelled,  \* the context behind Live.done is cancelled
  client,     \* the TikTok client: "running", interrupted ("done"), "exited"
  conn,       \* Live.wss: "none", "open", "lost" by the peer, "closed" by us
  wg,         \* the counter of Live.wg
  streams,    \* TikTok.streams, as far as this session changes it
  events,     \* the buffer of Live.Events
  closed,     \* Live.Events is closed
  batch,      \* the messages of the current response still to be handled
  issued,     \* how many messages the server has sent
  last        \* place of the last event the consumer took

vars == <<track, reader, pinger, closer, once, cancelled, client, conn, wg,
          streams, events, closed, batch, issued, last>>

sharedVars == <<cancelled, conn, wg, streams, once>>
queueVars  == <<events, closed, batch, issued, last>>

(***************************************************************************)
(* What parseMsg makes of a message: an event, the control event that ends *)
(* the stream, nothing (unknown, undecodable or unimplemented types), or   *)
(* an error (a room banner whose JSON does not parse).                     *)
(***************************************************************************)
MsgKinds   == {"plain", "ended", "none", "bad"}
EventKinds == {"plain", "ended", "disconnect"}
Event      == [place : Nat, kind : EventKinds]
Batches    == UNION {[1..n -> MsgKinds] : n \in 0..MaxBatch}

\* The message at the head of the batch, counted in the server's order.
HeadPlace == issued - Len(batch) + 1
HeadEvent == [place |-> HeadPlace, kind |-> Head(batch)]
Publishes(kind) == kind \in {"plain", "ended"}

\* The length check one event late, and one event early: deliberate faults.
FullTooLate  == Len(events) > ChanSize
FullTooEarly == Len(events) >= ChanSize - 1

\* What parseWssMsg compares, and what a send to the channel needs.
Full == Len(events) = ChanSize
Room == Len(events) < ChanSize

Init ==
  /\ track = "new" /\ reader = "none" /\ pinger = "none"
  /\ closer = [c \in Closers |-> "idle"]
  /\ once = "unused" /\ cancelled = FALSE /\ client = "running"
  /\ conn = "none" /\ wg = 0 /\ streams = 0
  /\ events = <<>> /\ closed = FALSE
  /\ batch = <<>> /\ issued = 0 /\ last = 0

-----------------------------------------------------------------------------
(* Steps of one goroutine, which leave the control state of the others.    *)
(* Nothing runs once the process has exited.                               *)

Alive == client # "exited"

TrackTo(pc) ==
  /\ Alive /\ track' = pc
  /\ UNCHANGED <<reader, pinger, closer, client>>

ReaderTo(pc) ==
  /\ Alive /\ reader' = pc
  /\ UNCHANGED <<track, pinger, closer, client>>

PingerTo(pc) ==
  /\ Alive /\ pinger' = pc
  /\ UNCHANGED <<track, reader, closer, client>>

CloserTo(c, pc) ==
  /\ Alive /\ closer' = [closer EXCEPT ![c] = pc]
  /\ UNCHANGED <<track, reader, pinger, client>>

-----------------------------------------------------------------------------
(* Deliberate faults: each is an operator or action of this module with the *)
(* kind of slip a change to the code could make, and breaks a property.     *)

\* The loop over the messages does not advance after a send.
SendRepeats ==
  /\ reader = "send" /\ Room
  /\ events' = Append(events, HeadEvent)
  /\ ReaderTo(IF Head(batch) = "ended" THEN "ended" ELSE "parse")
  /\ UNCHANGED <<sharedVars, batch, closed, issued, last>>

\* The end of the session is not among what the loop polls for.
PollClientOnly ==
  /\ reader = "poll"
  /\ ReaderTo(IF client # "running" THEN "cancel" ELSE "next")
  /\ UNCHANGED <<sharedVars, queueVars>>

\* readSocket without its deferred cancel, and without its deferred Close.
NoDeferredCancel ==
  /\ reader = "cancel"
  /\ ReaderTo("disconnect")
  /\ UNCHANGED <<sharedVars, queueVars>>

NoDeferredClose ==
  /\ reader = "socket"
  /\ ReaderTo("channel")
  /\ UNCHANGED <<sharedVars, queueVars>>

\* Close also closes the channel, forgets the socket, or does not wait.
CloseSocketAndEvents(c) ==
  /\ closer[c] = "socket"
  /\ CloserTo(c, "wait")
  /\ conn' = "closed" /\ closed' = TRUE
  /\ UNCHANGED <<once, cancelled, wg, streams, events, batch, issued, last>>

CloseForgetsSocket(c) ==
  /\ closer[c] = "socket"
  /\ CloserTo(c, "wait")
  /\ UNCHANGED <<sharedVars, queueVars>>

CloseDoesNotWait(c) ==
  /\ closer[c] = "wait"
  /\ CloserTo(c, "release")
  /\ UNCHANGED <<sharedVars, queueVars>>

-----------------------------------------------------------------------------
(* TrackRoom: newLive, fetchRoom, connectRoom *)

NewLive ==
  /\ track = "new"
  /\ TrackTo("info")
  /\ streams' = streams + 1
  /\ UNCHANGED <<once, cancelled, conn, wg, queueVars>>

\* TrackRoom gives up and closes the channel; the stream stays counted.
GiveUp ==
  /\ TrackTo("failed")
  /\ closed' = TRUE
  /\ batch' = <<>>
  /\ UNCHANGED <<sharedVars, events, issued, last>>

\* getRoomInfo: the request or its answer is bad, or the live has ended.
FetchRoomInfo ==
  /\ track = "info"
  /\ \/ GiveUp
     \/ TrackTo("data") /\ UNCHANGED <<sharedVars, queueVars>>

\* getRoomData: the signed request, its cookies and its first messages.
FetchRoomData ==
  /\ track = "data"
  /\ \/ GiveUp
     \/ \E b \in Batches :
          /\ issued + Len(b) <= MaxMsgs
          /\ TrackTo("initial")
          /\ batch' = b
          /\ issued' = issued + Len(b)
          /\ UNCHANGED <<sharedVars, events, closed, last>>

\* One message of the first answer; a blocking send while nobody can receive.
InitialMessage ==
  /\ track = "initial" /\ batch # <<>>
  /\ \/ Head(batch) = "bad" /\ GiveUp
     \/ /\ Head(batch) # "bad"
        /\ IF Publishes(Head(batch))
           THEN Room /\ events' = Append(events, HeadEvent)
           ELSE UNCHANGED events
        /\ batch' = Tail(batch)
        /\ TrackTo("initial")
        /\ UNCHANGED <<sharedVars, closed, issued, last>>

\* tryConnectionUpgrade with no push server in the answer: an early return.
NoPushServer ==
  /\ track = "initial" /\ batch = <<>>
  /\ TrackTo("failed")
  /\ UNCHANGED <<sharedVars, queueVars>>

DialFails ==
  /\ track = "initial" /\ batch = <<>>
  /\ GiveUp

Upgrade ==
  /\ Alive /\ track = "initial" /\ batch = <<>>
  /\ track' = "live" /\ conn' = "open" /\ wg' = wg + 2
  /\ reader' = "next" /\ pinger' = "select"
  /\ UNCHANGED <<closer, client, once, cancelled, streams, queueVars>>

TrackRoom ==
  \/ NewLive \/ FetchRoomInfo \/ FetchRoomData \/ InitialMessage
  \/ NoPushServer \/ DialFails \/ Upgrade

-----------------------------------------------------------------------------
(* readSocket and parseWssMsg *)

ReadError ==
  /\ reader = "next"
  /\ ReaderTo("cancel")
  /\ conn' = "closed"
  /\ UNCHANGED <<once, cancelled, wg, streams, queueVars>>

(***************************************************************************)
(* A binary frame.  The empty batch stands for a response without          *)
(* messages, a payload that does not decode, and a frame of another        *)
(* payload type.  A broken connection may still hold frames that arrived   *)
(* before it broke.                                                        *)
(***************************************************************************)
ReadFrame ==
  /\ reader = "next"
  /\ \E b \in Batches, needsAck \in BOOLEAN :
       /\ issued + Len(b) <= MaxMsgs
       /\ batch' = b
       /\ issued' = issued + Len(b)
       /\ ReaderTo(IF needsAck THEN "ack" ELSE "parse")
  /\ UNCHANGED <<sharedVars, events, closed, last>>

\* sendAck returns, written or failed; a failure is only logged.
AckWritten ==
  /\ reader = "ack"
  /\ ReaderTo("parse")
  /\ UNCHANGED <<sharedVars, queueVars>>

\* parseMsg on the next message, and the look at the channel's length.
ParseMsg ==
  /\ reader = "parse" /\ batch # <<>>
  /\ \/ /\ Head(batch) = "bad"
        /\ batch' = <<>>
        /\ ReaderTo("poll")
     \/ /\ Head(batch) = "none"
        /\ batch' = Tail(batch)
        /\ ReaderTo("parse")
     \/ /\ Publishes(Head(batch))
        /\ batch' = batch
        /\ ReaderTo(IF Full THEN "discard" ELSE "send")
  /\ UNCHANGED <<sharedVars, events, closed, issued, last>>

BatchDone ==
  /\ reader = "parse" /\ batch = <<>>
  /\ ReaderTo("poll")
  /\ UNCHANGED <<sharedVars, queueVars>>

\* <-l.Events: a receive, which blocks when the channel is empty.
Discard ==
  /\ reader = "discard" /\ events # <<>>
  /\ events' = Tail(events)
  /\ ReaderTo("send")
  /\ UNCHANGED <<sharedVars, closed, batch, issued, last>>

Send ==
  /\ reader = "send" /\ Room
  /\ events' = Append(events, HeadEvent)
  /\ batch' = Tail(batch)
  /\ ReaderTo(IF Head(batch) = "ended" THEN "ended" ELSE "parse")
  /\ UNCHANGED <<sharedVars, closed, issued, last>>

\* The stream has ended: cancel, and go on with the rest of the batch.
EndStream ==
  /\ reader = "ended"
  /\ ReaderTo("parse")
  /\ cancelled' = TRUE
  /\ UNCHANGED <<once, conn, wg, streams, queueVars>>

Poll ==
  /\ reader = "poll"
  /\ ReaderTo(IF cancelled \/ client # "running" THEN "cancel" ELSE "next")
  /\ UNCHANGED <<sharedVars, queueVars>>

\* The deferred calls, last one first.
DeferCancel ==
  /\ reader = "cancel"
  /\ ReaderTo("disconnect")
  /\ cancelled' = TRUE
  /\ UNCHANGED <<once, conn, wg, streams, queueVars>>

DeferDisconnect ==
  /\ reader = "disconnect"
  /\ \/ /\ Room
        /\ events' = Append(events, [place |-> issued + 1, kind |-> "disconnect"])
        /\ issued' = issued + 1
     \/ /\ Full            \* nobody made room for five seconds
        /\ UNCHANGED <<events, issued>>
  /\ ReaderTo("socket")
  /\ UNCHANGED <<sharedVars, closed, batch, last>>

DeferCloseSocket ==
  /\ reader = "socket"
  /\ ReaderTo("channel")
  /\ conn' = "closed"
  /\ UNCHANGED <<once, cancelled, wg, streams, queueVars>>

DeferCloseEvents ==
  /\ reader = "channel"
  /\ ReaderTo("wg")
  /\ closed' = TRUE
  /\ UNCHANGED <<sharedVars, events, batch, issued, last>>

DeferDone ==
  /\ reader = "wg"
  /\ ReaderTo("gone")
  /\ wg' = wg - 1
  /\ UNCHANGED <<once, cancelled, conn, streams, queueVars>>

ReaderLocal ==
  \/ ParseMsg \/ BatchDone \/ Discard \/ Send \/ EndStream \/ Poll
  \/ DeferCancel \/ DeferDisconnect \/ DeferCloseSocket \/ DeferCloseEvents \/ DeferDone

Reader == ReadError \/ ReadFrame \/ AckWritten \/ ReaderLocal

-----------------------------------------------------------------------------
(* sendPing *)

Tick ==
  /\ pinger = "select"
  /\ PingerTo("write")
  /\ UNCHANGED <<sharedVars, queueVars>>

\* The write returns, done or failed; either way the loop goes on.
PingWritten ==
  /\ pinger = "write"
  /\ PingerTo("select")
  /\ UNCHANGED <<sharedVars, queueVars>>

PingStops ==
  /\ pinger = "select"
  /\ cancelled \/ client # "running"
  /\ PingerTo("wg")
  /\ UNCHANGED <<sharedVars, queueVars>>

PingDone ==
  /\ pinger = "wg"
  /\ PingerTo("gone")
  /\ wg' = wg - 1
  /\ UNCHANGED <<once, cancelled, conn, streams, queueVars>>

Pinger == Tick \/ PingWritten \/ PingStops \/ PingDone

-----------------------------------------------------------------------------
(* Close *)

\* The first caller runs the body of the Once, the others wait for it.
CallClose(c) ==
  /\ track = "live" /\ closer[c] = "idle"
  /\ once' = IF once = "unused" THEN "running" ELSE once
  /\ CloserTo(c, IF once = "unused" THEN "cancel" ELSE "blocked")
  /\ UNCHANGED <<cancelled, conn, wg, streams, queueVars>>

CloseCancels(c) ==
  /\ closer[c] = "cancel"
  /\ CloserTo(c, "socket")
  /\ cancelled' = TRUE
  /\ UNCHANGED <<once, conn, wg, streams, queueVars>>

CloseSocket(c) ==
  /\ closer[c] = "socket"
  /\ CloserTo(c, "wait")
  /\ conn' = "closed"
  /\ UNCHANGED <<once, cancelled, wg, streams, queueVars>>

CloseWaits(c) ==
  /\ closer[c] = "wait" /\ wg = 0
  /\ CloserTo(c, "release")
  /\ UNCHANGED <<sharedVars, queueVars>>

CloseReleases(c) ==
  /\ closer[c] = "release"
  /\ CloserTo(c, "returned")
  /\ streams' = streams - 1
  /\ once' = "done"
  /\ UNCHANGED <<cancelled, conn, wg, queueVars>>

CloseFollows(c) ==
  /\ closer[c] = "blocked" /\ once = "done"
  /\ CloserTo(c, "returned")
  /\ UNCHANGED <<sharedVars, queueVars>>

CloseLocal(c) ==
  \/ CloseCancels(c) \/ CloseSocket(c) \/ CloseWaits(c)
  \/ CloseReleases(c) \/ CloseFollows(c)

Closer(c) == CallClose(c) \/ CloseLocal(c)

-----------------------------------------------------------------------------
(* The consumer and the environment *)

controlVars == <<track, reader, pinger, closer>>

Receive ==
  /\ Alive /\ track = "live" /\ events # <<>>
  /\ last' = Head(events).place
  /\ events' = Tail(events)
  /\ UNCHANGED <<controlVars, client, sharedVars, closed, batch, issued>>

\* The peer or the network drops the connection.
ConnectionLost ==
  /\ Alive /\ conn = "open"
  /\ conn' = "lost"
  /\ UNCHANGED <<controlVars, client, once, cancelled, wg, streams, queueVars>>

\* The interrupt handler cancels the client's context, and later exits.
Interrupt ==
  /\ client = "running"
  /\ client' = "done"
  /\ UNCHANGED <<controlVars, sharedVars, queueVars>>

Exit ==
  /\ client = "done"
  /\ client' = "exited"
  /\ UNCHANGED <<controlVars, sharedVars, queueVars>>

Environment == ConnectionLost \/ Interrupt \/ Exit

-----------------------------------------------------------------------------
Next ==
  \/ TrackRoom \/ Reader \/ Pinger \/ Receive \/ Environment
  \/ \E c \in Closers : Closer(c)

Spec == Init /\ [][Next]_vars

Broken == conn # "open"

(***************************************************************************)
(* What the Go scheduler and the network guarantee while the process runs. *)
(* A goroutine that can take a step takes it.  A read or a write on an     *)
(* open connection may block for ever, on a broken one it returns: only    *)
(* finitely many frames are buffered, so the read fails in the end.  The   *)
(* select of sendPing chooses among its ready cases at random, and the     *)
(* ticker is ready once in ten seconds.                                    *)
(***************************************************************************)
Fairness ==
  /\ WF_vars(InitialMessage)
  /\ WF_vars(ReaderLocal)
  /\ SF_vars(Broken /\ ReadError)
  /\ WF_vars(Broken /\ AckWritten)
  /\ WF_vars(Broken /\ PingWritten)
  /\ SF_vars(PingStops)
  /\ WF_vars(PingDone)
  /\ \A c \in Closers : WF_vars(CloseLocal(c))
  /\ WF_vars(Exit)

FairSpec == Spec /\ Fairness

-----------------------------------------------------------------------------
(* Properties *)

ReaderStates == {"none", "next", "ack", "parse", "discard", "send", "ended", "poll",
                 "cancel", "disconnect", "socket", "channel", "wg", "gone"}
CloserStates == {"idle", "cancel", "socket", "wait", "release", "blocked", "returned"}

ControlTypes ==
  /\ track \in {"new", "info", "data", "initial", "live", "failed"}
  /\ reader \in ReaderStates
  /\ pinger \in {"none", "select", "write", "wg", "gone"}
  /\ closer \in [Closers -> CloserStates]
  /\ once \in {"unused", "running", "done"}
  /\ cancelled \in BOOLEAN /\ closed \in BOOLEAN
  /\ client \in {"running", "done", "exited"}
  /\ conn \in {"none", "open", "lost", "closed"}
  /\ wg \in Nat /\ streams \in Int

QueueTypes ==
  /\ events \in Seq(Event) /\ batch \in Seq(MsgKinds)
  /\ issued \in Nat /\ last \in Nat

\* Every variable keeps its type; Live.wg in particular never goes below zero,
\* which would be a panic in WaitGroup.Done.
TypeOK == ControlTypes /\ QueueTypes

\* When any call of Close has returned, also one that lost the race for the
\* Once, nothing of the session is left: both goroutines are gone, the socket
\* and the channel are closed, and the client's stream count is given back
\* exactly once (live.go:70-83).
ClosedIsQuiet ==
  \A c \in Closers : closer[c] = "returned" =>
     /\ reader = "gone" /\ pinger = "gone" /\ wg = 0
     /\ cancelled /\ closed /\ conn = "closed" /\ streams = 0

\* No goroutine ever stands before a send on Live.Events, or before closing
\* it, with the channel closed already: either would be a panic (live.go:155,
\* 285; wss.go:110, 224, 301, 311).
NoClosedChannelPanic ==
  (track \in {"info", "data", "initial"}
     \/ reader \in {"discard", "send", "disconnect", "channel"}) => ~closed

\* The send in parseWssMsg never blocks: since the check of the length, only
\* receivers have touched the channel (wss.go:221-224).
SendNeverBlocks == reader = "send" => Room

\* A queue ascends strictly, above lo, and leaves room below hi for as many
\* places as it holds events.
Ordered(q, lo, hi) ==
  /\ \A i \in 1..Len(q) : lo < q[i].place /\ q[i].place + (Len(q) - i) <= hi
  /\ \A i, j \in 1..Len(q) : i < j => q[i].place < q[j].place

\* The last place that has been handled, whether or not it became an event.
Handled == issued - Len(batch)

\* The consumer receives events in the server's order, none twice: what it
\* took last is older than what is buffered, the buffer ascends, and all of it
\* is older than the messages still to be handled (live.go:275-286,
\* wss.go:213-225).
InOrder == last <= Handled /\ Ordered(events, last, Handled)

\* The DisconnectEvent is the last thing in the channel, and by then the
\* session is cancelled (wss.go:107-113).
DisconnectIsLast ==
  \A i \in 1..Len(events) : events[i].kind = "disconnect" =>
     /\ i = Len(events) /\ cancelled
     /\ reader \in {"socket", "channel", "wg", "gone"}

(***************************************************************************)
(* The reader found the channel full, the consumer emptied it, and the     *)
(* reader is the only one who could fill it again.                         *)
(***************************************************************************)
StuckDiscard == reader = "discard" /\ events = <<>>

\* Every call of Close returns, except when the discard is stuck: neither a
\* silent server, nor a write that blocks on the open socket, nor a consumer
\* that has stopped receiving can hold it up (live.go:88-91).
CloseReturns ==
  \A c \in Closers :
    closer[c] # "idle" ~> (closer[c] = "returned" \/ StuckDiscard \/ ~Alive)

\* What each goroutine may have to wait for: the network while the connection
\* is open, room in the channel or something in it, the end of the session.
ReaderWaits ==
  \/ reader \in {"next", "ack"} /\ conn = "open"
  \/ reader = "send" /\ ~Room
  \/ reader = "disconnect" /\ ~Room /\ ~Full
  \/ StuckDiscard

PingerWaits ==
  \/ pinger = "select" /\ ~cancelled /\ client = "running"
  \/ pinger = "write" /\ conn = "open"

InOnce(c) == closer[c] \in {"cancel", "socket", "wait", "release"}

\* Nobody in Close waits in a circle: a caller waits for the wait group, whose
\* goroutines have nothing to wait for by then but the stuck discard, or it
\* waits for the caller that is inside the Once (live.go:70-83).
OnlyDiscardHoldsClose ==
  \A c \in Closers :
    /\ closer[c] = "wait" =>
         /\ ~PingerWaits /\ (ReaderWaits => StuckDiscard)
         /\ wg = 0 <=> reader = "gone" /\ pinger = "gone"
    /\ closer[c] = "blocked" => once = "done" \/ \E d \in Closers : InOnce(d)

\* How many steps the reader has left at most, from a place on.
StepsFrom == [none |-> 0, gone |-> 0, wg |-> 1, channel |-> 2, socket |-> 3, disconnect |-> 4,
              cancel |-> 5, send |-> 5, poll |-> 6, discard |-> 6, parse |-> 7, ended |-> 8,
              ack |-> 8, next |-> 9]

ReaderLeft == StepsFrom[reader] + 4 * (IF reader = "next" THEN MaxBatch ELSE Len(batch))

\* Once the session is cancelled every step of the reader brings it nearer to
\* its end, frames that change nothing aside: it takes one more response at the
\* most, whoever cancelled and wherever that met it, and a message in it that
\* ends the stream again does not send it round the loop (wss.go:118-188; the
\* context is polled at wss.go:178-187).
ReaderWindsDown ==
  [][cancelled => ReaderLeft' \in 0..(ReaderLeft - 1) \/ UNCHANGED <<reader, batch>>]_vars

\* Nothing of a session changes any more when its Close has been through,
\* except that the consumer takes what is left (live.go:70-83).
ClosedForGood ==
  [][once = "done" =>
       UNCHANGED <<track, reader, pinger, sharedVars, closed, batch, issued>>]_vars

\* What the consumer receives is always newer than what it received before, the
\* DisconnectEvent included (wss.go:213-225).
ReceivesForward == [][last' # last => last' > last]_vars

\* When the session is cancelled by the stream's end, or the connection is
\* lost, the channel is closed and both goroutines leave, though nobody calls
\* Close and nobody receives.
SessionEnds ==
  (cancelled \/ conn = "lost") ~>
     ((closed /\ wg = 0) \/ StuckDiscard \/ ~Alive)

\* The session implements the promise of EventStream.
StreamPhase ==
  IF closed THEN "closed"
  ELSE CASE reader = "discard" -> "full"
         [] reader = "send" -> "due"
         [] reader \in {"socket", "channel"} -> "final"
         [] OTHER -> "open"

Stream == INSTANCE EventStream WITH
  Capacity <- ChanSize,
  queue <- events,
  phase <- StreamPhase,
  top <- Handled,
  taken <- last

\* Whatever the goroutines do, the consumer sees the channel of EventStream.  In
\* particular he loses at most one event for one that is published, the oldest
\* and not a newer one, and only when the channel was full as the reader looked
\* at it; it need not be full any more (wss.go:213-225, live.go:275-286).
ImplementsEventStream == Stream!Spec

\* To its client the session is one of the sessions of StreamCount: it is in the
\* count from newLive to the end of its Close, TrackRoom that fails behind
\* newLive included, whichever call of Close gives it back (live.go:62-84).
StreamsCounter == INSTANCE StreamCount WITH
  Sessions <- {"session"},
  count <- streams,
  inside <- IF track # "new" /\ once # "done" THEN {"session"} ELSE {},
  over <- IF once = "done" THEN {"session"} ELSE {}

CountsItselfOnce == StreamsCounter!Spec

-----------------------------------------------------------------------------
(* The inductive invariant *)

Busy(pc) == IF pc \in {"none", "gone"} THEN 0 ELSE 1

\* The wait group counts the goroutines that have not called Done.
WgCounts == wg = Busy(reader) + Busy(pinger)

\* Before the upgrade nothing else runs, after it both goroutines exist.
TrackPhase ==
  /\ track # "live" =>
       /\ reader = "none" /\ pinger = "none" /\ conn = "none"
       /\ once = "unused" /\ ~cancelled
  /\ track = "live" => reader # "none" /\ pinger # "none" /\ conn # "none"

\* What each place in readSocket implies about the shared state.
ReaderPhase ==
  /\ closed => track = "failed" \/ reader \in {"wg", "gone"}
  /\ reader \in {"wg", "gone"} => closed
  /\ reader \in {"discard", "send"} => batch # <<>> /\ Publishes(Head(batch))
  /\ reader \in {"next", "poll", "cancel", "disconnect", "socket", "channel", "wg", "gone"}
       => batch = <<>>
  /\ reader \in {"disconnect", "socket", "channel", "wg", "gone"} => cancelled
  /\ reader \in {"channel", "wg", "gone"} => conn = "closed"

\* At most one goroutine is inside the Once, and how far it is.
ClosePhase ==
  /\ once = "unused" => \A c \in Closers : closer[c] = "idle"
  /\ \A c \in Closers :
       /\ InOnce(c) => once = "running"
       /\ closer[c] = "returned" => once = "done"
       /\ closer[c] \in {"socket", "wait", "release"} => cancelled
       /\ closer[c] \in {"wait", "release"} => conn = "closed"
       /\ closer[c] = "release" => wg = 0
  /\ \A c, d \in Closers : InOnce(c) /\ InOnce(d) => c = d
  /\ once = "done" => wg = 0 /\ cancelled /\ conn = "closed"
  /\ streams = IF track = "new" \/ once = "done" THEN 0 ELSE 1

ControlInv == ControlTypes /\ WgCounts /\ TrackPhase /\ ReaderPhase /\ ClosePhase
QueueInv   ==
  /\ QueueTypes /\ Len(events) <= ChanSize
  /\ InOrder /\ SendNeverBlocks /\ DisconnectIsLast

\* What every step preserves: the control state of the four goroutines fits
\* together, and the queue is in order.
SessionInv == ControlInv /\ QueueInv

-----------------------------------------------------------------------------
(* What the documentation says and the code does not do *)

\* "Close will terminate the connection": every call of Close returns.
CloseAlwaysReturns ==
  \A c \in Closers : closer[c] # "idle" ~> (closer[c] = "returned" \/ ~Alive)

\* "If channel is full, discard the first message": a message is discarded
\* only while the channel is full.
DiscardOnlyWhenFull == [][(reader = "discard" /\ reader' = "send") => Full]_vars

\* "This event should always be emitted": the DisconnectEvent reaches the
\* channel before the reader goes on with its shutdown.
DisconnectAlwaysEmitted ==
  [][(reader = "disconnect" /\ reader' = "socket") =>
        events' # <<>> /\ events'[Len(events')].kind = "disconnect"]_vars

\* "TrackRoom will start to track a room": once the first answer is there, the
\* messages in it do not keep TrackRoom from going on.
InitialMessagesPass == track = "initial" ~> (track # "initial" \/ batch = <<>> \/ ~Alive)
=============================================================================
