-------------------------- MODULE LiveSessionProofs --------------------------
(***************************************************************************)
(* Proofs about LiveSession for every channel size, every set of closers   *)
(* and every number of messages.  The inductive invariant is SessionInv:   *)
(* ControlInv says how the control states of the four goroutines fit       *)
(* together, QueueInv what Live.Events holds.  ControlInv is inductive by  *)
(* itself; QueueInv is preserved by the steps that start in ControlInv.    *)
(***************************************************************************)
EXTENDS LiveSession, SequenceTheorems, TLAPS

-----------------------------------------------------------------------------
(* Batches *)

\* A response is a sequence of messages, of a bounded length.
LEMMA BatchIsSeq ==
  ASSUME NEW b \in Batches
  PROVE  b \in Seq(MsgKinds) /\ Len(b) \in Nat /\ Len(b) <= MaxBatch
<1>1. PICK n \in 0..MaxBatch : b \in [1..n -> MsgKinds]
  BY DEF Batches
<1>2. n \in Nat /\ n <= MaxBatch
  BY SessionAssumption
<1>3. b \in Seq(MsgKinds) /\ Len(b) = n
  BY <1>1, <1>2
<1> QED
  BY <1>2, <1>3

\* Handling the head of a batch leaves a shorter batch of messages.
LEMMA BatchTail ==
  ASSUME NEW b \in Seq(MsgKinds), b # <<>>
  PROVE  /\ Head(b) \in MsgKinds
         /\ Tail(b) \in Seq(MsgKinds)
         /\ Len(Tail(b)) = Len(b) - 1
         /\ Len(b) \in Nat /\ Len(b) > 0
  BY HeadTailProperties, EmptySeq

-----------------------------------------------------------------------------
(* Ordered queues *)

\* What a queue holds are events with a place.
LEMMA QueuePlaces ==
  ASSUME NEW q \in Seq(Event)
  PROVE  /\ Len(q) \in Nat
         /\ \A i \in 1..Len(q) : q[i] \in Event /\ q[i].place \in Nat
<1>1. Len(q) \in Nat /\ \A i \in 1..Len(q) : q[i] \in Event
  BY ElementOfSeq, LenProperties
<1> QED
  BY <1>1 DEF Event

\* An event of a later place goes to the back of an ordered queue.
LEMMA AppendOrdered ==
  ASSUME NEW q \in Seq(Event), NEW lo \in Nat, NEW hi \in Nat, NEW e \in Event,
         lo <= hi, Ordered(q, lo, hi), e.place = hi + 1
  PROVE  Append(q, e) \in Seq(Event) /\ Ordered(Append(q, e), lo, hi + 1)
<1> DEFINE r == Append(q, e)
<1>1. /\ r \in Seq(Event) /\ Len(r) = Len(q) + 1 /\ Len(q) \in Nat
      /\ \A i \in 1..Len(q) : r[i] = q[i]
      /\ r[Len(q) + 1] = e
  BY AppendProperties, LenProperties
<1>2. \A i \in 1..Len(q) : q[i] \in Event /\ q[i].place \in Nat
  BY QueuePlaces
<1>3. ASSUME NEW i \in 1..Len(r)
      PROVE  lo < r[i].place /\ r[i].place + (Len(r) - i) <= hi + 1
  <2>1. CASE i = Len(q) + 1
    BY <1>1, <2>1
  <2>2. CASE i \in 1..Len(q)
    BY <1>1, <1>2, <2>2 DEF Ordered
  <2> QED
    BY <1>1, <2>1, <2>2
<1>4. ASSUME NEW i \in 1..Len(r), NEW j \in 1..Len(r), i < j
      PROVE  r[i].place < r[j].place
  <2>1. i \in 1..Len(q)
    BY <1>1, <1>4
  <2>2. CASE j = Len(q) + 1
    BY <1>1, <1>2, <2>1, <2>2 DEF Ordered
  <2>3. CASE j \in 1..Len(q)
    BY <1>1, <1>4, <2>1, <2>3 DEF Ordered
  <2> QED
    BY <1>1, <2>2, <2>3
<1> QED
  BY <1>1, <1>3, <1>4 DEF Ordered

\* Without its oldest event a queue is still ordered, now above that event.
LEMMA TailOrdered ==
  ASSUME NEW q \in Seq(Event), NEW lo \in Nat, NEW hi \in Nat,
         Ordered(q, lo, hi), q # <<>>
  PROVE  /\ Head(q) \in Event /\ Tail(q) \in Seq(Event)
         /\ Len(Tail(q)) = Len(q) - 1
         /\ lo < Head(q).place /\ Head(q).place <= hi
         /\ Ordered(Tail(q), Head(q).place, hi)
         /\ Ordered(Tail(q), lo, hi)
<1> DEFINE r == Tail(q)
<1>1. /\ Head(q) \in Event /\ r \in Seq(Event) /\ Len(r) = Len(q) - 1
      /\ \A i \in 1..Len(r) : r[i] = q[i + 1]
      /\ Len(q) \in Nat /\ Len(q) > 0 /\ Head(q) = q[1]
  BY HeadTailProperties, EmptySeq, LenProperties
<1>2. \A i \in 1..Len(q) : q[i] \in Event /\ q[i].place \in Nat
  BY QueuePlaces
<1>3. lo < Head(q).place /\ Head(q).place <= hi
  BY <1>1, <1>2 DEF Ordered
<1>4. ASSUME NEW i \in 1..Len(r)
      PROVE  /\ lo < r[i].place /\ Head(q).place < r[i].place
             /\ r[i].place + (Len(r) - i) <= hi
  BY <1>1, <1>2 DEF Ordered
<1>5. ASSUME NEW i \in 1..Len(r), NEW j \in 1..Len(r), i < j
      PROVE  r[i].place < r[j].place
  BY <1>1, <1>5 DEF Ordered
<1> QED
  BY <1>1, <1>3, <1>4, <1>5 DEF Ordered

\* Messages that become no event only raise the upper bound.
LEMMA WidenOrdered ==
  ASSUME NEW q \in Seq(Event), NEW lo \in Nat, NEW hi \in Nat, NEW up \in Nat,
         Ordered(q, lo, hi), hi <= up
  PROVE  Ordered(q, lo, up)
<1>1. Len(q) \in Nat /\ \A i \in 1..Len(q) : q[i] \in Event /\ q[i].place \in Nat
  BY QueuePlaces
<1> QED
  BY <1>1 DEF Ordered

-----------------------------------------------------------------------------
(* The control invariant *)

\* Before TrackRoom has begun nothing runs.
LEMMA InitControl == Init => ControlInv
<1> SUFFICES ASSUME Init PROVE ControlInv
  OBVIOUS
<1> USE DEF Init
<1>1. ControlTypes
  <2>1. cancelled \in BOOLEAN /\ closed \in BOOLEAN
    OBVIOUS
  <2>2. closer \in [Closers -> CloserStates]
    BY DEF CloserStates
  <2> QED
    BY <2>1, <2>2 DEF ControlTypes, ReaderStates
<1>2. WgCounts
  BY DEF WgCounts, Busy
<1>3. TrackPhase /\ ReaderPhase
  BY DEF TrackPhase, ReaderPhase
<1>4. ClosePhase
  BY DEF ClosePhase, InOnce
<1> QED
  BY <1>1, <1>2, <1>3, <1>4 DEF ControlInv

\* TrackRoom gives up before the websocket exists.
LEMMA GiveUpControl ==
  ASSUME ControlInv, track # "new", track # "live", GiveUp
  PROVE  ControlInv'
<1> USE DEF ControlInv, GiveUp, TrackTo, sharedVars
<1>1. ControlTypes'
  BY DEF ControlTypes
<1>2. WgCounts' /\ TrackPhase'
  BY DEF WgCounts, Busy, TrackPhase
<1>3. ReaderPhase'
  BY DEF ReaderPhase, TrackPhase, Publishes
<1>4. ClosePhase'
  BY DEF ClosePhase, InOnce
<1> QED
  BY <1>1, <1>2, <1>3, <1>4 DEF ControlInv

\* The steps of TrackRoom.
LEMMA TrackRoomControl == ControlInv /\ TrackRoom => ControlInv'
<1> SUFFICES ASSUME ControlInv, TrackRoom, ~GiveUp PROVE ControlInv'
  <2>1. TrackRoom /\ GiveUp => track # "new" /\ track # "live"
    BY DEF TrackRoom, NewLive, FetchRoomInfo, FetchRoomData, InitialMessage, NoPushServer,
           DialFails, Upgrade, GiveUp, TrackTo
  <2> QED
    BY <2>1, GiveUpControl
<1> USE DEF ControlInv, ControlTypes, WgCounts, TrackPhase, ReaderPhase, ClosePhase,
            Busy, InOnce, Publishes, ReaderStates, CloserStates,
            sharedVars, queueVars, TrackTo
<1>1. CASE NewLive
  BY <1>1 DEF NewLive
<1>2. CASE FetchRoomInfo
  BY <1>2 DEF FetchRoomInfo
<1>3. CASE FetchRoomData
  BY <1>3 DEF FetchRoomData
<1>4. CASE InitialMessage
  BY <1>4 DEF InitialMessage
<1>5. CASE NoPushServer
  BY <1>5 DEF NoPushServer
<1>6. CASE Upgrade
  BY <1>6 DEF Upgrade
<1> QED
  BY <1>1, <1>2, <1>3, <1>4, <1>5, <1>6 DEF TrackRoom, DialFails

\* The steps of readSocket.
LEMMA ReaderControl == ControlInv /\ Reader => ControlInv'
<1> SUFFICES ASSUME ControlInv, Reader PROVE ControlInv'
  OBVIOUS
<1> USE DEF ControlInv, ControlTypes, WgCounts, TrackPhase, ReaderPhase, ClosePhase,
            Busy, InOnce, Publishes, ReaderStates, CloserStates, sharedVars, queueVars, ReaderTo
<1>1. CASE ReadError
  BY <1>1 DEF ReadError
<1>2. CASE ReadFrame
  BY <1>2 DEF ReadFrame
<1>3. CASE AckWritten
  BY <1>3 DEF AckWritten
<1>4. CASE ParseMsg
  <2>1. /\ reader = "parse" /\ reader' \in {"parse", "poll", "discard", "send"}
        /\ reader' = "poll" => batch' = <<>>
        /\ reader' \in {"discard", "send"} => batch' # <<>> /\ Publishes(Head(batch'))
        /\ UNCHANGED <<track, pinger, closer, client, sharedVars, closed>>
    BY <1>4 DEF ParseMsg
  <2> QED
    BY <2>1
<1>5. CASE BatchDone
  BY <1>5 DEF BatchDone
<1>6. CASE Discard
  BY <1>6 DEF Discard
<1>7. CASE Send
  BY <1>7 DEF Send
<1>8. CASE EndStream
  BY <1>8 DEF EndStream
<1>9. CASE Poll
  BY <1>9 DEF Poll
<1>10. CASE DeferCancel
  BY <1>10 DEF DeferCancel
<1>11. CASE DeferDisconnect
  BY <1>11 DEF DeferDisconnect
<1>12. CASE DeferCloseSocket
  BY <1>12 DEF DeferCloseSocket
<1>13. CASE DeferCloseEvents
  BY <1>13 DEF DeferCloseEvents
<1>14. CASE DeferDone
  BY <1>14 DEF DeferDone
<1> QED
  BY <1>1, <1>2, <1>3, <1>4, <1>5, <1>6, <1>7,
     <1>8, <1>9, <1>10, <1>11, <1>12, <1>13, <1>14 DEF Reader, ReaderLocal

\* The steps of sendPing.
LEMMA PingerControl == ControlInv /\ Pinger => ControlInv'
<1> SUFFICES ASSUME ControlInv, Pinger PROVE ControlInv'
  OBVIOUS
<1> USE DEF ControlInv, ControlTypes, WgCounts, TrackPhase, ReaderPhase, ClosePhase,
            Busy, InOnce, Publishes, ReaderStates, CloserStates, sharedVars, queueVars, PingerTo
<1>1. CASE Tick
  BY <1>1 DEF Tick
<1>2. CASE PingWritten
  BY <1>2 DEF PingWritten
<1>3. CASE PingStops
  BY <1>3 DEF PingStops
<1>4. CASE PingDone
  BY <1>4 DEF PingDone
<1> QED
  BY <1>1, <1>2, <1>3, <1>4 DEF Pinger

\* The steps of Close.
LEMMA CloserControl ==
  ASSUME NEW c \in Closers, ControlInv, Closer(c)
  PROVE  ControlInv'
<1> USE DEF ControlInv, ControlTypes, WgCounts, TrackPhase, ReaderPhase, ClosePhase,
            Busy, InOnce, Publishes, ReaderStates, CloserStates, sharedVars, queueVars, CloserTo
<1>1. CASE CallClose(c)
  BY <1>1 DEF CallClose
<1>2. CASE CloseCancels(c)
  BY <1>2 DEF CloseCancels
<1>3. CASE CloseSocket(c)
  BY <1>3 DEF CloseSocket
<1>4. CASE CloseWaits(c)
  BY <1>4 DEF CloseWaits
<1>5. CASE CloseReleases(c)
  BY <1>5 DEF CloseReleases
<1>6. CASE CloseFollows(c)
  BY <1>6 DEF CloseFollows
<1> QED
  BY <1>1, <1>2, <1>3, <1>4, <1>5, <1>6 DEF Closer, CloseLocal

\* The consumer, the environment, and steps of something else altogether.
LEMMA OtherControl ==
  ASSUME ControlInv, Receive \/ Environment \/ UNCHANGED vars
  PROVE  ControlInv'
<1> USE DEF ControlInv, ControlTypes, WgCounts, TrackPhase, ReaderPhase, ClosePhase,
            Busy, InOnce, Publishes, ReaderStates, CloserStates,
            sharedVars, queueVars, controlVars
<1>1. CASE Receive
  BY <1>1 DEF Receive
<1>2. CASE ConnectionLost
  BY <1>2 DEF ConnectionLost
<1>3. CASE Interrupt
  BY <1>3 DEF Interrupt
<1>4. CASE Exit
  BY <1>4 DEF Exit
<1>5. CASE UNCHANGED vars
  BY <1>5 DEF vars
<1> QED
  BY <1>1, <1>2, <1>3, <1>4, <1>5 DEF Environment

\* The four goroutines fit together after every step.
THEOREM ControlStep == ControlInv /\ [Next]_vars => ControlInv'
  BY TrackRoomControl, ReaderControl, PingerControl, CloserControl, OtherControl DEF Next

-----------------------------------------------------------------------------
(* The queue invariant *)

LEMMA InitQueue == Init => QueueInv
<1> SUFFICES ASSUME Init PROVE QueueInv
  OBVIOUS
<1>1. events = <<>> /\ batch = <<>> /\ issued = 0 /\ last = 0 /\ reader = "none"
  BY DEF Init
<1>2. QueueTypes /\ Len(events) = 0 /\ Len(batch) = 0
  BY <1>1, EmptySeq DEF QueueTypes
<1>3. InOrder
  BY <1>1, <1>2 DEF InOrder, Ordered, Handled
<1> QED
  BY <1>1, <1>2, <1>3, SessionAssumption
     DEF QueueInv, SendNeverBlocks, DisconnectIsLast

\* Where the reader stands once the end has been announced.
Leaving == {"socket", "channel", "wg", "gone"}

\* A step that leaves the queue alone, and does not bring the reader before a
\* send.
Quiet ==
  /\ UNCHANGED <<events, batch, issued, last>>
  /\ cancelled => cancelled'
  /\ reader' = "send" => reader = "send"
  /\ reader \in Leaving => reader' \in Leaving

LEMMA QuietStep == QueueInv /\ Quiet => QueueInv'
<1> SUFFICES ASSUME QueueInv, Quiet PROVE QueueInv'
  OBVIOUS
<1> USE DEF QueueInv, Quiet
<1>1. QueueTypes' /\ InOrder' /\ Len(events') <= ChanSize
  BY DEF QueueTypes, InOrder, Ordered, Handled
<1>2. SendNeverBlocks'
  BY DEF SendNeverBlocks, Room
<1>3. DisconnectIsLast'
  BY DEF DisconnectIsLast, Leaving
<1> QED
  BY <1>1, <1>2, <1>3

\* Facts about the queue and the batch that every step below starts from.
LEMMA QueueFacts ==
  ASSUME QueueInv
  PROVE  /\ events \in Seq(Event) /\ Len(events) \in Nat /\ Len(events) <= ChanSize
         /\ batch \in Seq(MsgKinds) /\ Len(batch) \in Nat
         /\ issued \in Nat /\ last \in Nat /\ ChanSize \in Nat
         /\ Handled \in Nat /\ last <= Handled /\ Ordered(events, last, Handled)
<1>1. events \in Seq(Event) /\ batch \in Seq(MsgKinds) /\ issued \in Nat /\ last \in Nat
  BY DEF QueueInv, QueueTypes
<1>2. Len(events) \in Nat /\ Len(batch) \in Nat
  BY <1>1, LenProperties
<1>3. last <= Handled /\ Ordered(events, last, Handled) /\ Len(events) <= ChanSize
  BY DEF QueueInv, InOrder
<1>4. Handled \in Nat
  BY <1>1, <1>2, <1>3 DEF Handled
<1> QED
  BY <1>1, <1>2, <1>3, <1>4, SessionAssumption

\* A new event takes its place behind all others.
LEMMA PublishStep ==
  ASSUME QueueInv, NEW e \in Event, e.place = Handled + 1, Room,
         events' = Append(events, e), Handled' = Handled + 1, last' = last,
         issued' \in Nat, batch' \in Seq(MsgKinds)
  PROVE  QueueTypes' /\ Len(events') <= ChanSize /\ InOrder'
<1>1. Append(events, e) \in Seq(Event) /\ Ordered(Append(events, e), last, Handled + 1)
  BY QueueFacts, AppendOrdered
<1>2. Len(events') = Len(events) + 1
  BY QueueFacts, AppendProperties
<1>3. QueueTypes' /\ Len(events') <= ChanSize
  BY <1>1, <1>2, QueueFacts DEF QueueTypes, Room
<1>4. InOrder'
  BY <1>1, QueueFacts DEF InOrder
<1> QED
  BY <1>3, <1>4

\* Messages are handled without a trace in the queue.
LEMMA SkipStep ==
  ASSUME QueueInv, UNCHANGED <<events, last>>, Handled' \in Nat, Handled <= Handled',
         issued' \in Nat, batch' \in Seq(MsgKinds)
  PROVE  QueueTypes' /\ Len(events') <= ChanSize /\ InOrder'
<1>1. Ordered(events, last, Handled')
  BY QueueFacts, WidenOrdered
<1> QED
  BY <1>1, QueueFacts DEF InOrder, QueueTypes

\* The oldest event leaves, to the consumer or for good.
LEMMA PopStep ==
  ASSUME QueueInv, events # <<>>, events' = Tail(events), UNCHANGED <<batch, issued>>,
         last' = last \/ last' = Head(events).place
  PROVE  /\ QueueTypes' /\ Len(events') = Len(events) - 1 /\ InOrder'
         /\ (reader' = reader \/ reader \notin Leaving) /\ cancelled' = cancelled
              => DisconnectIsLast'
<1>1. /\ Head(events) \in Event /\ Tail(events) \in Seq(Event)
      /\ Len(Tail(events)) = Len(events) - 1
      /\ Head(events).place <= Handled
      /\ Ordered(Tail(events), Head(events).place, Handled)
      /\ Ordered(Tail(events), last, Handled)
  BY QueueFacts, TailOrdered
<1>2. Head(events).place \in Nat
  BY <1>1 DEF Event
<1>3. Handled' = Handled
  BY DEF Handled
<1>4. QueueTypes'
  BY <1>1, <1>2, QueueFacts DEF QueueTypes
<1>5. InOrder'
  BY <1>1, <1>3, QueueFacts DEF InOrder
<1>6. ASSUME reader' = reader \/ reader \notin Leaving, cancelled' = cancelled
      PROVE  DisconnectIsLast'
  <2> SUFFICES ASSUME NEW i \in 1..Len(Tail(events)), Tail(events)[i].kind = "disconnect"
               PROVE  i = Len(Tail(events)) /\ cancelled' /\ reader' \in Leaving
    BY DEF DisconnectIsLast, Leaving
  <2>1. Tail(events)[i] = events[i + 1] /\ i + 1 \in 1..Len(events)
    BY <1>1, QueueFacts, HeadTailProperties
  <2>2. i + 1 = Len(events)
    BY <2>1 DEF QueueInv, DisconnectIsLast
  <2>3. cancelled /\ reader \in Leaving
    BY <2>1 DEF QueueInv, DisconnectIsLast, Leaving
  <2>4. i = Len(Tail(events))
    <3>1. Len(Tail(events)) = Len(events) - 1 /\ Len(events) \in Nat /\ i \in Int
      BY <1>1, QueueFacts
    <3> QED
      BY <2>2, <3>1
  <2>5. cancelled' /\ reader' \in Leaving
    BY <1>6, <2>3
  <2> QED
    BY <2>4, <2>5
<1> QED
  BY <1>1, <1>4, <1>5, <1>6

\* The end has not been announced, and the new event does not announce it.
LEMMA AppendNotLast ==
  ASSUME QueueInv, reader \notin Leaving, NEW e \in Event,
         events' = Append(events, e), e.kind # "disconnect"
  PROVE  DisconnectIsLast'
<1> SUFFICES ASSUME NEW i \in 1..Len(Append(events, e)) PROVE Append(events, e)[i].kind # "disconnect"
  BY DEF DisconnectIsLast
<1>1. /\ Len(Append(events, e)) = Len(events) + 1 /\ Len(events) \in Nat
      /\ \A j \in 1..Len(events) : Append(events, e)[j] = events[j]
      /\ Append(events, e)[Len(events) + 1] = e
  BY QueueFacts, AppendProperties
<1>2. \A j \in 1..Len(events) : events[j].kind # "disconnect"
  BY DEF QueueInv, DisconnectIsLast, Leaving
<1>3. CASE i = Len(events) + 1
  BY <1>1, <1>3
<1>4. CASE i \in 1..Len(events)
  BY <1>1, <1>2, <1>4
<1> QED
  BY <1>1, <1>3, <1>4

\* A message that publishes is an event of its own place.
LEMMA HeadEventType ==
  ASSUME QueueInv, batch # <<>>, Publishes(Head(batch))
  PROVE  /\ HeadEvent \in Event /\ HeadEvent.place = Handled + 1
         /\ HeadEvent.kind # "disconnect"
<1>1. HeadPlace = Handled + 1 /\ HeadPlace \in Nat
  BY QueueFacts DEF HeadPlace, Handled
<1> QED
  BY <1>1 DEF HeadEvent, Event, EventKinds, Publishes

\* When the head of the batch has been handled, one more message has been.
LEMMA HandleHead ==
  ASSUME QueueInv, batch # <<>>, batch' = Tail(batch), issued' = issued
  PROVE  /\ Handled' = Handled + 1 /\ Handled' \in Nat
         /\ batch' \in Seq(MsgKinds) /\ issued' \in Nat
  BY QueueFacts, BatchTail DEF Handled

\* When the rest of the batch is given up, its messages count as handled.
LEMMA HandleAll ==
  ASSUME QueueInv, batch' = <<>>, issued' = issued
  PROVE  /\ Handled <= Handled' /\ Handled' \in Nat
         /\ batch' \in Seq(MsgKinds) /\ issued' \in Nat
<1>1. Len(batch') = 0 /\ batch' \in Seq(MsgKinds)
  BY EmptySeq
<1> QED
  BY <1>1, QueueFacts DEF Handled

\* A new response brings as many messages as it will take to handle it.
LEMMA HandleNew ==
  ASSUME QueueInv, NEW b \in Batches, batch' = b, issued' = issued + Len(b)
  PROVE  /\ Handled <= Handled' /\ Handled' \in Nat
         /\ batch' \in Seq(MsgKinds) /\ issued' \in Nat
  BY QueueFacts, BatchIsSeq DEF Handled

\* TrackRoom runs before anything can leave or discard.
LEMMA TrackRoomQueue ==
  ASSUME ControlInv, QueueInv, TrackRoom
  PROVE  QueueInv'
<1>1. track # "live" /\ reader = "none" /\ reader' \in {"none", "next"} /\ UNCHANGED <<cancelled, last>>
  BY DEF ControlInv, TrackPhase, TrackRoom, NewLive, FetchRoomInfo, FetchRoomData, InitialMessage,
         NoPushServer, DialFails, Upgrade, GiveUp, TrackTo, sharedVars, queueVars
<1>2. SendNeverBlocks' /\ reader \notin Leaving
  BY <1>1 DEF SendNeverBlocks, Leaving
<1>3. UNCHANGED events => DisconnectIsLast'
  BY <1>1 DEF QueueInv, DisconnectIsLast
<1>4. CASE GiveUp
  <2>1. batch' = <<>> /\ UNCHANGED <<events, last, issued>>
    BY <1>4 DEF GiveUp, sharedVars
  <2> QED
    BY <1>2, <1>3, <2>1, HandleAll, SkipStep DEF QueueInv
<1>5. CASE FetchRoomData /\ ~GiveUp
  <2>1. PICK b \in Batches : batch' = b /\ issued' = issued + Len(b) /\ UNCHANGED <<events, last>>
    BY <1>5 DEF FetchRoomData
  <2> QED
    BY <1>2, <1>3, <2>1, HandleNew, SkipStep DEF QueueInv
<1>6. CASE InitialMessage /\ ~GiveUp
  <2>1. batch # <<>> /\ batch' = Tail(batch) /\ UNCHANGED <<issued, last>>
    BY <1>6 DEF InitialMessage
  <2>2. CASE Publishes(Head(batch))
    <3>1. Room /\ events' = Append(events, HeadEvent)
      BY <1>6, <2>2 DEF InitialMessage
    <3> QED
      BY <1>2, <2>1, <2>2, <3>1, HandleHead, HeadEventType, PublishStep, AppendNotLast DEF QueueInv
  <2>3. CASE ~Publishes(Head(batch))
    <3>1. UNCHANGED events
      BY <1>6, <2>3 DEF InitialMessage
    <3> QED
      BY <1>2, <1>3, <2>1, <3>1, HandleHead, QueueFacts, SkipStep DEF QueueInv
  <2> QED
    BY <2>2, <2>3
<1>7. CASE NewLive \/ (FetchRoomInfo /\ ~GiveUp) \/ NoPushServer \/ Upgrade
  <2>1. Quiet
    BY <1>1, <1>7 DEF Quiet, Leaving, NewLive, FetchRoomInfo, NoPushServer, Upgrade, TrackTo, queueVars
  <2> QED
    BY <2>1, QuietStep
<1> QED
  BY <1>4, <1>5, <1>6, <1>7 DEF TrackRoom, DialFails

\* parseMsg leaves the queue alone and decides what happens to it next.
LEMMA ParseMsgQueue == QueueInv /\ ParseMsg => QueueInv'
<1> SUFFICES ASSUME QueueInv, ParseMsg PROVE QueueInv'
  OBVIOUS
<1>1. batch # <<>> /\ reader = "parse" /\ UNCHANGED <<events, last, issued, cancelled>>
  BY DEF ParseMsg, sharedVars
<1>2. DisconnectIsLast'
  BY <1>1 DEF QueueInv, DisconnectIsLast
<1>3. CASE batch' = <<>> /\ reader' = "poll"
  BY <1>1, <1>2, <1>3, HandleAll, SkipStep DEF QueueInv, SendNeverBlocks
<1>4. CASE batch' = Tail(batch) /\ reader' = "parse"
  BY <1>1, <1>2, <1>4, HandleHead, QueueFacts, SkipStep DEF QueueInv, SendNeverBlocks
<1>5. CASE batch' = batch /\ reader' = IF Full THEN "discard" ELSE "send"
  <2>1. QueueTypes' /\ Len(events') <= ChanSize /\ InOrder'
    BY <1>1, <1>5, QueueFacts DEF QueueTypes, InOrder, Ordered, Handled
  <2>2. SendNeverBlocks'
    BY <1>1, <1>5, QueueFacts DEF SendNeverBlocks, Full, Room
  <2> QED
    BY <1>2, <2>1, <2>2 DEF QueueInv
<1> QED
  BY <1>3, <1>4, <1>5 DEF ParseMsg, ReaderTo

\* The last event announces the end.
LEMMA DeferDisconnectQueue ==
  ASSUME ControlInv, QueueInv, DeferDisconnect
  PROVE  QueueInv'
<1>1. /\ reader = "disconnect" /\ reader' = "socket" /\ cancelled /\ cancelled'
      /\ batch = <<>> /\ batch' = batch /\ last' = last
  BY DEF ControlInv, ReaderPhase, DeferDisconnect, ReaderTo, sharedVars
<1>2. SendNeverBlocks'
  BY <1>1 DEF SendNeverBlocks
<1>3. \A i \in 1..Len(events) : events[i].kind # "disconnect"
  BY <1>1 DEF QueueInv, DisconnectIsLast
<1>4. Len(batch) = 0 /\ Handled = issued
  BY <1>1, EmptySeq, QueueFacts DEF Handled
<1>5. CASE UNCHANGED <<events, issued>>
  <2>1. Handled' = Handled
    BY <1>1, <1>5 DEF Handled
  <2> QED
    BY <1>1, <1>2, <1>3, <1>5, <2>1, QueueFacts, SkipStep DEF QueueInv, DisconnectIsLast
<1>6. CASE ~UNCHANGED <<events, issued>>
  <2> DEFINE e == [place |-> issued + 1, kind |-> "disconnect"]
  <2>1. Room /\ events' = Append(events, e) /\ issued' = issued + 1
    BY <1>6 DEF DeferDisconnect
  <2>2. e \in Event /\ e.place = Handled + 1
    BY <1>4, QueueFacts DEF Event, EventKinds
  <2>3. Handled' = Handled + 1 /\ issued' \in Nat /\ batch' \in Seq(MsgKinds)
    BY <1>1, <1>4, <2>1, QueueFacts DEF Handled
  <2>4. QueueTypes' /\ Len(events') <= ChanSize /\ InOrder'
    BY <1>1, <2>1, <2>2, <2>3, PublishStep
  <2>5. \A i \in 1..Len(events') : events'[i].kind = "disconnect" => i = Len(events')
    <3>1. /\ Len(events') = Len(events) + 1 /\ Len(events) \in Nat
          /\ \A i \in 1..Len(events) : events'[i] = events[i]
      BY <2>1, <2>2, QueueFacts, AppendProperties
    <3> QED
      BY <1>3, <3>1
  <2> QED
    BY <1>1, <1>2, <2>4, <2>5 DEF QueueInv, DisconnectIsLast
<1> QED
  BY <1>5, <1>6

\* The steps of readSocket.
LEMMA ReaderQueue ==
  ASSUME ControlInv, QueueInv, Reader
  PROVE  QueueInv'
<1>1. CASE ReadFrame
  <2>1. PICK b \in Batches : batch' = b /\ issued' = issued + Len(b)
    BY <1>1 DEF ReadFrame
  <2>2. /\ reader = "next" /\ reader' \in {"ack", "parse"}
        /\ UNCHANGED <<events, last, cancelled>>
    BY <1>1 DEF ReadFrame, ReaderTo, sharedVars
  <2> QED
    BY <2>1, <2>2, HandleNew, SkipStep
       DEF QueueInv, SendNeverBlocks, DisconnectIsLast
<1>2. CASE Discard
  <2>1. /\ reader = "discard" /\ reader' = "send" /\ events # <<>> /\ events' = Tail(events)
        /\ UNCHANGED <<batch, issued, last, cancelled>>
    BY <1>2 DEF Discard, ReaderTo, sharedVars
  <2>2. QueueTypes' /\ Len(events') = Len(events) - 1 /\ InOrder' /\ DisconnectIsLast'
    BY <2>1, PopStep DEF Leaving
  <2>3. Len(events') < ChanSize
    BY <2>2, QueueFacts
  <2> QED
    BY <2>1, <2>2, <2>3, QueueFacts DEF QueueInv, SendNeverBlocks, Room
<1>3. CASE Send
  <2>1. /\ reader = "send" /\ reader' \in {"ended", "parse"} /\ Room
        /\ events' = Append(events, HeadEvent) /\ batch' = Tail(batch)
        /\ UNCHANGED <<issued, last>>
    BY <1>3 DEF Send, ReaderTo
  <2>2. batch # <<>> /\ Publishes(Head(batch)) /\ reader \notin Leaving
    BY <2>1 DEF ControlInv, ReaderPhase, Leaving
  <2>3. QueueTypes' /\ Len(events') <= ChanSize /\ InOrder' /\ DisconnectIsLast'
    BY <2>1, <2>2, HandleHead, HeadEventType, PublishStep, AppendNotLast
  <2> QED
    BY <2>1, <2>3 DEF QueueInv, SendNeverBlocks
<1>4. CASE ~(ReadFrame \/ ParseMsg \/ Discard \/ Send \/ DeferDisconnect)
  <2>1. Quiet
    BY <1>4 DEF Quiet, Leaving, Reader, ReaderLocal, ReadError, AckWritten, BatchDone, EndStream,
                Poll, DeferCancel, DeferCloseSocket, DeferCloseEvents, DeferDone,
                ReaderTo, sharedVars, queueVars
  <2> QED
    BY <2>1, QuietStep
<1> QED
  BY <1>1, <1>2, <1>3, <1>4, ParseMsgQueue, DeferDisconnectQueue

\* The consumer takes the oldest event, also from a closed channel.
LEMMA ReceiveQueue == QueueInv /\ Receive => QueueInv'
<1> SUFFICES ASSUME QueueInv, Receive PROVE QueueInv'
  OBVIOUS
<1>1. /\ events # <<>> /\ events' = Tail(events) /\ last' = Head(events).place
      /\ UNCHANGED <<batch, issued, reader, cancelled>>
  BY DEF Receive, controlVars, sharedVars
<1>2. QueueTypes' /\ Len(events') = Len(events) - 1 /\ InOrder' /\ DisconnectIsLast'
  BY <1>1, PopStep
<1>3. Len(events') < ChanSize
  BY <1>2, QueueFacts
<1> QED
  BY <1>1, <1>2, <1>3, QueueFacts DEF QueueInv, SendNeverBlocks, Room

\* sendPing, Close and the environment do not touch the queue.
LEMMA OtherQueue ==
  ASSUME QueueInv, Pinger \/ (\E c \in Closers : Closer(c)) \/ Environment \/ UNCHANGED vars
  PROVE  QueueInv'
<1>1. Quiet
  <2>1. CASE Pinger
    BY <2>1 DEF Quiet, Pinger, Tick, PingWritten, PingStops, PingDone, PingerTo, sharedVars, queueVars
  <2>2. CASE \E c \in Closers : Closer(c)
    BY <2>2 DEF Quiet, Closer, CloseLocal, CallClose, CloseCancels, CloseSocket, CloseWaits,
                CloseReleases, CloseFollows, CloserTo, sharedVars, queueVars
  <2>3. CASE Environment \/ UNCHANGED vars
    BY <2>3 DEF Quiet, Environment, ConnectionLost, Interrupt, Exit, controlVars, sharedVars,
                queueVars, vars
  <2> QED
    BY <2>1, <2>2, <2>3
<1> QED
  BY <1>1, QuietStep

\* The queue stays in order after every step.
THEOREM QueueStep == ControlInv /\ QueueInv /\ [Next]_vars => QueueInv'
  BY TrackRoomQueue, ReaderQueue, ReceiveQueue, OtherQueue DEF Next

-----------------------------------------------------------------------------
(* The properties *)

\* The inductive invariant holds in every reachable state.
THEOREM SessionInvariant == Spec => []SessionInv
<1>1. Init => SessionInv
  BY InitControl, InitQueue DEF SessionInv
<1>2. SessionInv /\ [Next]_vars => SessionInv'
  BY ControlStep, QueueStep DEF SessionInv
<1> QED
  BY <1>1, <1>2, PTL DEF Spec

\* Every variable keeps its type; the wait group never goes below zero.
THEOREM TypeCorrect == Spec => []TypeOK
<1>1. SessionInv => TypeOK
  BY DEF SessionInv, ControlInv, QueueInv, TypeOK
<1> QED
  BY <1>1, SessionInvariant, PTL

\* Whoever returns from Close finds nothing of the session left.
THEOREM CloseLeavesNothing == Spec => []ClosedIsQuiet
<1>1. SessionInv => ClosedIsQuiet
  <2> SUFFICES ASSUME SessionInv, NEW c \in Closers, closer[c] = "returned"
               PROVE  /\ reader = "gone" /\ pinger = "gone" /\ wg = 0
                      /\ cancelled /\ closed /\ conn = "closed" /\ streams = 0
    BY DEF ClosedIsQuiet
  <2> USE DEF SessionInv, ControlInv
  <2>1. once = "done" /\ wg = 0 /\ streams = 0
    BY DEF ClosePhase
  <2>2. cancelled /\ conn = "closed"
    BY <2>1 DEF ClosePhase
  <2>3. reader # "none" /\ pinger # "none"
    BY <2>1 DEF TrackPhase, ControlTypes
  <2>4. Busy(reader) = 0 /\ Busy(pinger) = 0
    BY <2>1 DEF WgCounts, Busy
  <2>5. reader = "gone" /\ pinger = "gone"
    BY <2>3, <2>4 DEF Busy
  <2> QED
    BY <2>1, <2>2, <2>5 DEF ReaderPhase
<1> QED
  BY <1>1, SessionInvariant, PTL

\* Nobody is about to send on a closed channel or to close it again.
THEOREM NoPanic == Spec => []NoClosedChannelPanic
<1>1. SessionInv => NoClosedChannelPanic
  BY DEF SessionInv, ControlInv, ControlTypes, ReaderPhase, TrackPhase, NoClosedChannelPanic
<1> QED
  BY <1>1, SessionInvariant, PTL

\* The consumer's view of the channel: the server's order, no repetition.
THEOREM EventsInOrder == Spec => []InOrder
<1>1. SessionInv => InOrder
  BY DEF SessionInv, QueueInv
<1> QED
  BY <1>1, SessionInvariant, PTL

\* After the check of the length the reader's send finds room.
THEOREM SendFindsRoom == Spec => []SendNeverBlocks
<1>1. SessionInv => SendNeverBlocks
  BY DEF SessionInv, QueueInv
<1> QED
  BY <1>1, SessionInvariant, PTL

\* The DisconnectEvent is the last event, and comes after the cancellation.
THEOREM DisconnectComesLast == Spec => []DisconnectIsLast
<1>1. SessionInv => DisconnectIsLast
  BY DEF SessionInv, QueueInv
<1> QED
  BY <1>1, SessionInvariant, PTL

-----------------------------------------------------------------------------
(* What holds up a Close, and how a session ends *)

\* As long as the Once runs, the caller that runs it is inside it.
OnceHasRunner == once = "running" => \E c \in Closers : InOnce(c)

LEMMA OnceHasRunnerStep == ControlInv /\ OnceHasRunner /\ [Next]_vars => OnceHasRunner'
<1> SUFFICES ASSUME ControlInv, OnceHasRunner, [Next]_vars, once' = "running"
             PROVE  \E c \in Closers : InOnce(c)'
  BY DEF OnceHasRunner
<1>1. closer \in [Closers -> CloserStates]
  BY DEF ControlInv, ControlTypes
<1>2. CASE UNCHANGED <<closer, once>>
  BY <1>2 DEF OnceHasRunner, InOnce
<1>3. CASE \E c \in Closers : Closer(c)
  <2>1. PICK c \in Closers : Closer(c)
    BY <1>3
  <2>2. CASE CallClose(c) /\ once = "unused"
    <3>1. closer' = [closer EXCEPT ![c] = "cancel"]
      BY <2>2 DEF CallClose, CloserTo
    <3> QED
      BY <1>1, <3>1 DEF InOnce
  <2>3. CASE CallClose(c) /\ once # "unused"
    <3>1. once = "running" /\ closer[c] = "idle" /\ closer' = [closer EXCEPT ![c] = "blocked"]
      BY <2>3 DEF CallClose, CloserTo
    <3>2. PICK d \in Closers : InOnce(d)
      BY <3>1 DEF OnceHasRunner
    <3> QED
      BY <1>1, <3>1, <3>2 DEF InOnce
  <2>4. CASE CloseCancels(c) \/ CloseSocket(c) \/ CloseWaits(c)
    <3>1. \/ closer' = [closer EXCEPT ![c] = "socket"]
          \/ closer' = [closer EXCEPT ![c] = "wait"]
          \/ closer' = [closer EXCEPT ![c] = "release"]
      BY <2>4 DEF CloseCancels, CloseSocket, CloseWaits, CloserTo
    <3> QED
      BY <1>1, <3>1 DEF InOnce
  <2>5. CASE CloseReleases(c) \/ CloseFollows(c)
    BY <2>5 DEF CloseReleases, CloseFollows, sharedVars
  <2> QED
    BY <2>1, <2>2, <2>3, <2>4, <2>5 DEF Closer, CloseLocal
<1>4. CASE TrackRoom \/ Receive \/ Environment \/ UNCHANGED vars
  <2>1. UNCHANGED <<closer, once>>
    BY <1>4 DEF TrackRoom, NewLive, FetchRoomInfo, FetchRoomData, InitialMessage, NoPushServer,
                DialFails, Upgrade, GiveUp, TrackTo, Receive, Environment, ConnectionLost, Interrupt,
                Exit, controlVars, sharedVars, vars
  <2> QED
    BY <2>1, <1>2
<1>5. CASE Reader \/ Pinger
  <2>1. UNCHANGED <<closer, once>>
    BY <1>5 DEF Reader, ReaderLocal, ReadError, ReadFrame, AckWritten, ParseMsg, BatchDone, Discard,
                Send, EndStream, Poll, DeferCancel, DeferDisconnect, DeferCloseSocket,
                DeferCloseEvents, DeferDone, ReaderTo, Pinger, Tick, PingWritten, PingStops,
                PingDone, PingerTo, sharedVars
  <2> QED
    BY <2>1, <1>2
<1> QED
  BY <1>3, <1>4, <1>5 DEF Next

\* Nobody in Close waits in a circle: all that can keep it waiting while the
\* process runs is a reader that is stuck in its discard.
THEOREM NoCircleInClose == Spec => []OnlyDiscardHoldsClose
<1>1. Init => OnceHasRunner
  BY DEF Init, OnceHasRunner
<1>2. SessionInv /\ OnceHasRunner => OnlyDiscardHoldsClose
  <2> SUFFICES ASSUME SessionInv, OnceHasRunner, NEW c \in Closers
               PROVE  /\ closer[c] = "wait" =>
                           /\ ~PingerWaits /\ (ReaderWaits => StuckDiscard)
                           /\ wg = 0 <=> reader = "gone" /\ pinger = "gone"
                      /\ closer[c] = "blocked" => once = "done" \/ \E d \in Closers : InOnce(d)
    BY DEF OnlyDiscardHoldsClose
  <2> USE DEF SessionInv, ControlInv
  <2>1. ASSUME closer[c] = "wait"
        PROVE  /\ ~PingerWaits /\ (ReaderWaits => StuckDiscard)
               /\ wg = 0 <=> reader = "gone" /\ pinger = "gone"
    <3>1. cancelled /\ conn = "closed" /\ once = "running"
      BY <2>1 DEF ClosePhase, InOnce
    <3>2. track = "live" /\ reader # "none" /\ pinger # "none"
      BY <3>1 DEF TrackPhase
    <3>3. Room \/ Full
      BY QueueFacts DEF Room, Full
    <3>4. ReaderWaits => StuckDiscard
      BY <3>1, <3>3 DEF ReaderWaits, QueueInv, SendNeverBlocks
    <3>5. ~PingerWaits
      BY <3>1 DEF PingerWaits
    <3>6. wg = 0 <=> reader = "gone" /\ pinger = "gone"
      BY <3>2 DEF WgCounts, Busy
    <3> QED
      BY <3>4, <3>5, <3>6
  <2>2. ASSUME closer[c] = "blocked"
        PROVE  once = "done" \/ \E d \in Closers : InOnce(d)
    <3>1. once \in {"running", "done"}
      BY <2>2 DEF ClosePhase, ControlTypes
    <3> QED
      BY <3>1 DEF OnceHasRunner
  <2> QED
    BY <2>1, <2>2
<1>3. SessionInv /\ OnceHasRunner /\ [Next]_vars => OnceHasRunner'
  BY OnceHasRunnerStep DEF SessionInv
<1> QED
  BY <1>1, <1>2, <1>3, SessionInvariant, PTL DEF Spec

\* The steps of the reader, one by one, when the session is cancelled.
LEMMA ReaderShrinks ==
  ASSUME SessionInv, Reader, cancelled
  PROVE  ReaderLeft' \in 0..(ReaderLeft - 1)
<1> USE DEF StepsFrom
<1>a. /\ Len(batch) \in Nat /\ batch \in Seq(MsgKinds) /\ MaxBatch \in Nat
      /\ batch # <<>> => Tail(batch) \in Seq(MsgKinds) /\ Len(Tail(batch)) = Len(batch) - 1 /\ Len(batch) > 0
      /\ Len(<<>>) = 0
  BY QueueFacts, SessionAssumption, BatchTail, EmptySeq DEF SessionInv
<1>b. reader \in {"next", "poll", "cancel", "disconnect", "socket", "channel", "wg"} => Len(batch) = 0
  BY <1>a DEF SessionInv, ControlInv, ReaderPhase
<1>1. CASE ReadError
  <2>1. reader = "next" /\ reader' = "cancel" /\ batch' = batch
    BY <1>1 DEF ReadError, ReaderTo, queueVars
  <2> QED
    BY <1>a, <1>b, <2>1 DEF ReaderLeft
<1>2. CASE ReadFrame
  <2>1. PICK b \in Batches : batch' = b /\ reader = "next" /\ reader' \in {"ack", "parse"}
    BY <1>2 DEF ReadFrame, ReaderTo
  <2>2. Len(b) \in Nat /\ Len(b) <= MaxBatch
    BY BatchIsSeq
  <2> QED
    BY <1>a, <2>1, <2>2 DEF ReaderLeft
<1>3. CASE AckWritten \/ BatchDone \/ Discard \/ EndStream
  <2>1. /\ \/ reader = "ack" /\ reader' = "parse"
           \/ reader = "parse" /\ reader' = "poll"
           \/ reader = "discard" /\ reader' = "send"
           \/ reader = "ended" /\ reader' = "parse"
        /\ batch' = batch
    BY <1>3 DEF AckWritten, BatchDone, Discard, EndStream, ReaderTo, queueVars
  <2> QED
    BY <1>a, <2>1 DEF ReaderLeft
<1>4. CASE ParseMsg
  <2>1. /\ reader = "parse" /\ batch # <<>>
        /\ \/ reader' = "poll" /\ batch' = <<>>
           \/ reader' = "parse" /\ batch' = Tail(batch)
           \/ reader' \in {"discard", "send"} /\ batch' = batch
    BY <1>4 DEF ParseMsg, ReaderTo
  <2> QED
    BY <1>a, <2>1 DEF ReaderLeft
<1>5. CASE Send
  <2>1. reader = "send" /\ reader' \in {"ended", "parse"} /\ batch' = Tail(batch) /\ batch # <<>>
    BY <1>5 DEF Send, ReaderTo, SessionInv, ControlInv, ReaderPhase
  <2> QED
    BY <1>a, <2>1 DEF ReaderLeft
<1>6. CASE Poll \/ DeferCancel \/ DeferDisconnect \/ DeferCloseSocket \/ DeferCloseEvents \/ DeferDone
  <2>1. /\ \/ reader = "poll" /\ reader' = "cancel"
           \/ reader = "cancel" /\ reader' = "disconnect"
           \/ reader = "disconnect" /\ reader' = "socket"
           \/ reader = "socket" /\ reader' = "channel"
           \/ reader = "channel" /\ reader' = "wg"
           \/ reader = "wg" /\ reader' = "gone"
        /\ batch' = batch
    BY <1>6 DEF Poll, DeferCancel, DeferDisconnect, DeferCloseSocket, DeferCloseEvents, DeferDone,
                ReaderTo, queueVars
  <2> QED
    BY <1>a, <1>b, <2>1 DEF ReaderLeft
<1> QED
  BY <1>1, <1>2, <1>3, <1>4, <1>5, <1>6 DEF Reader, ReaderLocal

\* After the cancellation the reader is on its way out: each of its steps is
\* one step fewer that is left.
THEOREM ReaderComesToItsEnd == Spec => ReaderWindsDown
<1> DEFINE Down == cancelled => ReaderLeft' \in 0..(ReaderLeft - 1) \/ UNCHANGED <<reader, batch>>
<1>1. SessionInv /\ [Next]_vars => [Down]_vars
  <2> SUFFICES ASSUME SessionInv, [Next]_vars, cancelled
               PROVE  ReaderLeft' \in 0..(ReaderLeft - 1) \/ UNCHANGED <<reader, batch>>
    OBVIOUS
  <2>1. track = "live" /\ ~TrackRoom
    BY DEF SessionInv, ControlInv, TrackPhase, TrackRoom, NewLive, FetchRoomInfo, FetchRoomData,
           InitialMessage, NoPushServer, DialFails, Upgrade
  <2>2. CASE Reader
    BY <2>2, ReaderShrinks
  <2>3. CASE Pinger \/ Receive \/ Environment \/ UNCHANGED vars \/ \E c \in Closers : Closer(c)
    BY <2>3 DEF Pinger, Tick, PingWritten, PingStops, PingDone, PingerTo, Receive, Environment,
                ConnectionLost, Interrupt, Exit, Closer, CloseLocal, CallClose, CloseCancels,
                CloseSocket, CloseWaits, CloseReleases, CloseFollows, CloserTo,
                controlVars, queueVars, vars
  <2> QED
    BY <2>1, <2>2, <2>3 DEF Next
<1> QED
  BY <1>1, SessionInvariant, PTL DEF Spec, ReaderWindsDown

\* Once Close has been through, only the consumer still moves the session.
THEOREM NothingAfterClose == Spec => ClosedForGood
<1> DEFINE Still == once = "done" =>
                      UNCHANGED <<track, reader, pinger, sharedVars, closed, batch, issued>>
<1>1. SessionInv /\ [Next]_vars => [Still]_vars
  <2> SUFFICES ASSUME SessionInv, [Next]_vars, once = "done"
               PROVE  UNCHANGED <<track, reader, pinger, sharedVars, closed, batch, issued>>
    OBVIOUS
  <2> USE DEF SessionInv, ControlInv
  <2>1. wg = 0 /\ conn = "closed" /\ \A c \in Closers : ~InOnce(c)
    BY DEF ClosePhase
  <2>2. track = "live" /\ reader # "none" /\ pinger # "none"
    BY <2>1 DEF TrackPhase
  <2>3. reader = "gone" /\ pinger = "gone"
    BY <2>1, <2>2 DEF WgCounts, Busy
  <2>4. ~TrackRoom
    BY <2>2 DEF TrackRoom, NewLive, FetchRoomInfo, FetchRoomData, InitialMessage, NoPushServer,
                DialFails, Upgrade
  <2>5. ~Reader /\ ~Pinger
    BY <2>3 DEF Reader, ReaderLocal, ReadError, ReadFrame, AckWritten, ParseMsg, BatchDone, Discard,
                Send, EndStream, Poll, DeferCancel, DeferDisconnect, DeferCloseSocket,
                DeferCloseEvents, DeferDone, Pinger, Tick, PingWritten, PingStops, PingDone
  <2>6. CASE Receive \/ Environment \/ UNCHANGED vars
    BY <2>1, <2>6 DEF Receive, Environment, ConnectionLost, Interrupt, Exit, controlVars, sharedVars,
                      queueVars, vars
  <2>7. CASE \E c \in Closers : Closer(c)
    BY <2>1, <2>7 DEF Closer, CloseLocal, CallClose, CloseCancels, CloseSocket, CloseWaits,
                      CloseReleases, CloseFollows, CloserTo, InOnce, sharedVars, queueVars
  <2> QED
    BY <2>4, <2>5, <2>6, <2>7 DEF Next
<1> QED
  BY <1>1, SessionInvariant, PTL DEF Spec, ClosedForGood

\* Each event the consumer takes is newer than the one before.
THEOREM ReceivesNewer == Spec => ReceivesForward
<1> DEFINE Forward == last' # last => last' > last
<1>1. SessionInv /\ [Next]_vars => [Forward]_vars
  <2> SUFFICES ASSUME SessionInv, [Next]_vars, last' # last PROVE last' > last
    OBVIOUS
  <2>1. QueueInv
    BY DEF SessionInv
  <2>2. CASE Receive
    BY <2>1, <2>2, QueueFacts, TailOrdered DEF Receive, Event
  <2>3. CASE TrackRoom \/ Environment \/ UNCHANGED vars
    BY <2>3 DEF TrackRoom, NewLive, FetchRoomInfo, FetchRoomData, InitialMessage, NoPushServer,
                DialFails, Upgrade, GiveUp, Environment, ConnectionLost, Interrupt, Exit, queueVars, vars
  <2>4. CASE Reader
    BY <2>4 DEF Reader, ReaderLocal, ReadError, ReadFrame, AckWritten, ParseMsg, BatchDone, Discard,
                Send, EndStream, Poll, DeferCancel, DeferDisconnect, DeferCloseSocket,
                DeferCloseEvents, DeferDone, queueVars
  <2>5. CASE Pinger \/ \E c \in Closers : Closer(c)
    BY <2>5 DEF Pinger, Tick, PingWritten, PingStops, PingDone, Closer, CloseLocal, CallClose,
                CloseCancels, CloseSocket, CloseWaits, CloseReleases, CloseFollows, queueVars
  <2> QED
    BY <2>2, <2>3, <2>4, <2>5 DEF Next
<1> QED
  BY <1>1, SessionInvariant, PTL DEF Spec, ReceivesForward

-----------------------------------------------------------------------------
(* Refinement *)

\* An unused channel is the abstract one's initial state.
LEMMA StreamInit == Init => Stream!Init
<1> SUFFICES ASSUME Init PROVE Stream!Init
  OBVIOUS
<1>1. events = <<>> /\ last = 0 /\ batch = <<>> /\ issued = 0
  BY DEF Init
<1>2. StreamPhase = "open"
  <2>1. ~closed /\ reader = "none"
    BY DEF Init
  <2> QED
    BY <2>1 DEF StreamPhase
<1>3. Handled = 0
  <2>1. Len(batch) = 0 /\ issued = 0
    <3>1. batch \in Seq(MsgKinds) /\ Len(batch) = 0
      BY <1>1, EmptySeq
    <3> QED
      BY <1>1, <3>1
  <2> QED
    BY <2>1 DEF Handled
<1> QED
  BY <1>1, <1>2, <1>3 DEF Stream!Init

\* Messages that become no event are a skip, or nothing at all.
LEMMA SkipStream ==
  ASSUME StreamPhase = "open", StreamPhase' = "open", UNCHANGED <<events, last>>,
         Handled' \in Nat, Handled \in Nat, Handled <= Handled'
  PROVE  [Stream!Next]_(Stream!vars)
<1>1. CASE Handled' = Handled
  BY <1>1 DEF Stream!vars
<1>2. CASE Handled' > Handled
  BY <1>2 DEF Stream!Next, Stream!Skip
<1> QED
  BY <1>1, <1>2

\* The head of the batch becomes an event.
LEMMA PublishStream ==
  ASSUME QueueInv, StreamPhase \in {"open", "due"}, StreamPhase' = "open",
         batch # <<>>, batch' = Tail(batch), issued' = issued, last' = last,
         Publishes(Head(batch)), Room, events' = Append(events, HeadEvent)
  PROVE  Stream!Next
<1>1. Handled' = Handled + 1
  BY HandleHead
<1>2. HeadEvent = [place |-> Handled', kind |-> Head(batch)]
  BY <1>1, QueueFacts DEF HeadEvent, HeadPlace, Handled
<1>3. Head(batch) \in Stream!Kinds
  BY DEF Publishes, Stream!Kinds
<1>4. Stream!Publish
  BY <1>1, <1>2, <1>3 DEF Stream!Publish, Room
<1> QED
  BY <1>4 DEF Stream!Next

\* Before the upgrade the channel is open, and TrackRoom may close it.
LEMMA TrackRoomStream ==
  ASSUME SessionInv, TrackRoom
  PROVE  [Stream!Next]_(Stream!vars)
<1>1. ControlInv /\ QueueInv
  BY DEF SessionInv
<1>2. track \in {"new", "info", "data", "initial"} /\ reader = "none" /\ reader' \in {"none", "next"}
  BY <1>1 DEF ControlInv, TrackPhase, TrackRoom, NewLive, FetchRoomInfo, FetchRoomData,
              InitialMessage, NoPushServer, DialFails, Upgrade, GiveUp, TrackTo
<1>3. ~closed
  BY <1>1, <1>2 DEF ControlInv, ReaderPhase
<1>4. StreamPhase = "open"
  BY <1>2, <1>3 DEF StreamPhase
<1>5. closed' = closed => StreamPhase' = "open"
  BY <1>2, <1>3 DEF StreamPhase
<1>6. CASE GiveUp
  <2>1. batch' = <<>> /\ UNCHANGED <<events, last, issued>>
    BY <1>6 DEF GiveUp, sharedVars
  <2>2. StreamPhase' = "closed"
    BY <1>6 DEF GiveUp, StreamPhase
  <2>3. Handled' \in Nat /\ Handled' >= Handled
    BY <1>1, <2>1, HandleAll, QueueFacts
  <2>4. Stream!Shut
    BY <1>4, <2>1, <2>2, <2>3 DEF Stream!Shut
  <2> QED
    BY <2>4 DEF Stream!Next
<1>7. CASE FetchRoomData /\ ~GiveUp
  <2>1. PICK b \in Batches : batch' = b /\ issued' = issued + Len(b) /\ UNCHANGED <<events, last, closed>>
    BY <1>7 DEF FetchRoomData
  <2> QED
    BY <1>1, <1>4, <1>5, <2>1, HandleNew, QueueFacts, SkipStream
<1>8. CASE InitialMessage /\ ~GiveUp
  <2>1. batch # <<>> /\ batch' = Tail(batch) /\ UNCHANGED <<issued, last, closed>>
    BY <1>8 DEF InitialMessage
  <2>2. CASE Publishes(Head(batch))
    BY <1>1, <1>4, <1>5, <1>8, <2>1, <2>2, PublishStream DEF InitialMessage
  <2>3. CASE ~Publishes(Head(batch))
    <3>1. UNCHANGED events
      BY <1>8, <2>3 DEF InitialMessage
    <3> QED
      BY <1>1, <1>4, <1>5, <2>1, <3>1, HandleHead, QueueFacts, SkipStream
  <2> QED
    BY <2>2, <2>3
<1>9. CASE NewLive \/ (FetchRoomInfo /\ ~GiveUp) \/ NoPushServer \/ Upgrade
  <2>1. UNCHANGED <<events, last, closed, batch, issued>>
    BY <1>9 DEF NewLive, FetchRoomInfo, NoPushServer, Upgrade, queueVars
  <2>2. Handled' = Handled
    BY <2>1 DEF Handled
  <2> QED
    BY <1>4, <1>5, <2>1, <2>2 DEF Stream!vars
<1> QED
  BY <1>6, <1>7, <1>8, <1>9 DEF TrackRoom, DialFails

\* readSocket looks, publishes, skips, drops, announces and shuts.
LEMMA ReaderStream ==
  ASSUME SessionInv, Reader
  PROVE  [Stream!Next]_(Stream!vars)
<1>1. ControlInv /\ QueueInv
  BY DEF SessionInv
<1>2. reader # "none" /\ track' = track /\ track = "live"
  BY <1>1 DEF ControlInv, TrackPhase, Reader, ReaderLocal, ReadError, ReadFrame, AckWritten, ParseMsg,
              BatchDone, Discard, Send, EndStream, Poll, DeferCancel, DeferDisconnect,
              DeferCloseSocket, DeferCloseEvents, DeferDone, ReaderTo
<1>3. reader \notin {"wg", "gone"} => ~closed
  BY <1>1, <1>2 DEF ControlInv, ReaderPhase
<1>4. reader \notin Leaving \cup {"discard", "send"} => StreamPhase = "open"
  BY <1>3 DEF StreamPhase, Leaving
<1>5. CASE ReadFrame
  <2>1. PICK b \in Batches : batch' = b /\ issued' = issued + Len(b)
    BY <1>5 DEF ReadFrame
  <2>2. reader = "next" /\ reader' \in {"ack", "parse"} /\ UNCHANGED <<events, last, closed>>
    BY <1>5 DEF ReadFrame, ReaderTo
  <2>3. StreamPhase = "open" /\ StreamPhase' = "open"
    BY <1>3, <1>4, <2>2 DEF StreamPhase, Leaving
  <2> QED
    BY <1>1, <2>1, <2>2, <2>3, HandleNew, QueueFacts, SkipStream
<1>6. CASE ParseMsg
  <2>1. reader = "parse" /\ batch # <<>> /\ UNCHANGED <<events, last, closed, issued>>
    BY <1>6 DEF ParseMsg, ReaderTo
  <2>2. StreamPhase = "open" /\ ~closed'
    BY <1>3, <1>4, <2>1 DEF Leaving
  <2>3. CASE batch' = batch /\ reader' = IF Full THEN "discard" ELSE "send"
    <3>1. StreamPhase' = IF Len(events) = ChanSize THEN "full" ELSE "due"
      BY <2>2, <2>3 DEF StreamPhase, Full
    <3>2. Handled' = Handled
      BY <2>1, <2>3 DEF Handled
    <3>3. Stream!Arrive
      BY <2>1, <2>2, <3>1, <3>2 DEF Stream!Arrive
    <3> QED
      BY <3>3 DEF Stream!Next
  <2>4. CASE (batch' = <<>> \/ batch' = Tail(batch)) /\ reader' \in {"poll", "parse"}
    <3>1. StreamPhase' = "open"
      BY <2>2, <2>4 DEF StreamPhase
    <3>2. Handled' \in Nat /\ Handled <= Handled'
      BY <1>1, <2>1, <2>4, HandleAll, HandleHead, QueueFacts
    <3> QED
      BY <1>1, <2>1, <2>2, <3>1, <3>2, QueueFacts, SkipStream
  <2> QED
    BY <1>6, <2>3, <2>4 DEF ParseMsg, ReaderTo
<1>7. CASE Discard
  <2>1. /\ reader = "discard" /\ reader' = "send" /\ events # <<>> /\ events' = Tail(events)
        /\ UNCHANGED <<batch, issued, last, closed>>
    BY <1>7 DEF Discard, ReaderTo
  <2>2. StreamPhase = "full" /\ StreamPhase' = "due"
    BY <1>3, <2>1 DEF StreamPhase
  <2>3. Handled' = Handled
    BY <2>1 DEF Handled
  <2> QED
    BY <2>1, <2>2, <2>3 DEF Stream!Next, Stream!Drop
<1>8. CASE Send
  <2>1. /\ reader = "send" /\ reader' \in {"ended", "parse"} /\ Room
        /\ events' = Append(events, HeadEvent) /\ batch' = Tail(batch)
        /\ UNCHANGED <<issued, last, closed>>
    BY <1>8 DEF Send, ReaderTo
  <2>2. batch # <<>> /\ Publishes(Head(batch))
    BY <1>1, <2>1 DEF ControlInv, ReaderPhase
  <2>3. StreamPhase = "due" /\ StreamPhase' = "open"
    BY <1>3, <2>1 DEF StreamPhase
  <2> QED
    BY <1>1, <2>1, <2>2, <2>3, PublishStream
<1>9. CASE DeferDisconnect
  <2>1. /\ reader = "disconnect" /\ reader' = "socket" /\ batch = <<>>
        /\ UNCHANGED <<batch, last, closed>>
    BY <1>1, <1>9 DEF DeferDisconnect, ReaderTo, ControlInv, ReaderPhase
  <2>2. StreamPhase = "open" /\ StreamPhase' = "final"
    BY <1>3, <1>4, <2>1 DEF StreamPhase, Leaving
  <2>3. Len(batch) = 0 /\ Handled = issued /\ Handled' = issued'
    BY <1>9, <2>1, EmptySeq, QueueFacts, <1>1 DEF Handled, DeferDisconnect
  <2>4. Stream!Announce
    BY <1>9, <2>1, <2>2, <2>3 DEF DeferDisconnect, Stream!Announce, Room, Full
  <2> QED
    BY <2>4 DEF Stream!Next
<1>10. CASE DeferCloseEvents
  <2>1. /\ reader = "channel" /\ closed' /\ UNCHANGED <<events, batch, issued, last>>
    BY <1>10 DEF DeferCloseEvents
  <2>2. StreamPhase = "final" /\ StreamPhase' = "closed"
    BY <1>3, <2>1 DEF StreamPhase
  <2>3. Handled' = Handled /\ Handled \in Nat
    BY <1>1, <2>1, QueueFacts DEF Handled
  <2> QED
    BY <2>1, <2>2, <2>3 DEF Stream!Next, Stream!Shut
<1>11. CASE ~(ReadFrame \/ ParseMsg \/ Discard \/ Send \/ DeferDisconnect \/ DeferCloseEvents)
  <2>1. /\ UNCHANGED <<events, last, closed, batch, issued>>
        /\ reader \in {"socket", "channel"} <=> reader' \in {"socket", "channel"}
        /\ {reader, reader'} \cap {"discard", "send"} = {}
    BY <1>11 DEF Reader, ReaderLocal, ReadError, AckWritten, BatchDone, EndStream, Poll,
                 DeferCancel, DeferCloseSocket, DeferDone, ReaderTo, queueVars
  <2> QED
    BY <2>1 DEF Stream!vars, StreamPhase, Handled
<1> QED
  BY <1>5, <1>6, <1>7, <1>8, <1>9, <1>10, <1>11

\* The consumer takes, and nobody else is seen.
LEMMA OtherStream ==
  ASSUME SessionInv,
         Receive \/ Pinger \/ (\E c \in Closers : Closer(c)) \/ Environment \/ UNCHANGED vars
  PROVE  [Stream!Next]_(Stream!vars)
<1>1. CASE Receive
  <2>1. /\ events # <<>> /\ events' = Tail(events) /\ last' = Head(events).place
        /\ UNCHANGED <<batch, issued, closed, reader>>
    BY <1>1 DEF Receive, controlVars
  <2>2. Handled' = Handled /\ StreamPhase' = StreamPhase
    BY <2>1 DEF Handled, StreamPhase
  <2> QED
    BY <2>1, <2>2 DEF Stream!Next, Stream!Take
<1>2. CASE Pinger \/ (\E c \in Closers : Closer(c)) \/ Environment \/ UNCHANGED vars
  <2>1. UNCHANGED <<events, last, closed, batch, issued, reader>>
    BY <1>2 DEF Pinger, Tick, PingWritten, PingStops, PingDone, PingerTo,
                Closer, CloseLocal, CallClose, CloseCancels, CloseSocket, CloseWaits, CloseReleases,
                CloseFollows, CloserTo, Environment, ConnectionLost, Interrupt, Exit,
                controlVars, queueVars, vars
  <2> QED
    BY <2>1 DEF Stream!vars, StreamPhase, Handled
<1> QED
  BY <1>1, <1>2

\* Every behaviour of the session is one of the promised event stream.
THEOREM SessionImplementsStream == Spec => ImplementsEventStream
<1>1. SessionInv /\ [Next]_vars => [Stream!Next]_(Stream!vars)
  BY TrackRoomStream, ReaderStream, OtherStream DEF Next
<1> QED
  BY <1>1, StreamInit, SessionInvariant, PTL DEF Spec, ImplementsEventStream, Stream!Spec

-----------------------------------------------------------------------------
(* The session is one of the streams that its client counts *)

\* Every other step leaves the count alone, and the places it follows.
LEMMA NoCountStep ==
  ASSUME [Next]_vars, ControlInv, ~NewLive, \A c \in Closers : ~CloseReleases(c)
  PROVE  streams' = streams /\ (track' = "new" <=> track = "new")
         /\ (once' = "done" <=> once = "done")
<1> USE DEF sharedVars
<1>1. CASE TrackRoom
  BY <1>1 DEF TrackRoom, FetchRoomInfo, FetchRoomData, InitialMessage, NoPushServer, DialFails,
              Upgrade, GiveUp, TrackTo
<1>2. CASE Reader
  BY <1>2 DEF Reader, ReaderLocal, ReadError, ReadFrame, AckWritten, ParseMsg, BatchDone, Discard,
              Send, EndStream, Poll, DeferCancel, DeferDisconnect, DeferCloseSocket,
              DeferCloseEvents, DeferDone, ReaderTo
<1>3. CASE Pinger
  BY <1>3 DEF Pinger, Tick, PingWritten, PingStops, PingDone, PingerTo
<1>4. ASSUME NEW c \in Closers, Closer(c)
      PROVE  streams' = streams /\ track' = track /\ (once' = "done" <=> once = "done")
  BY <1>4 DEF Closer, CloseLocal, CallClose, CloseCancels, CloseSocket, CloseWaits, CloseFollows,
              CloserTo
<1>5. CASE Receive \/ Environment \/ UNCHANGED vars
  BY <1>5 DEF Receive, Environment, ConnectionLost, Interrupt, Exit, controlVars, vars
<1> QED
  BY <1>1, <1>2, <1>3, <1>4, <1>5 DEF Next

LEMMA CountStep == ControlInv /\ [Next]_vars => [StreamsCounter!Next]_(StreamsCounter!vars)
<1> SUFFICES ASSUME ControlInv, [Next]_vars
             PROVE  [StreamsCounter!Next]_(StreamsCounter!vars)
  OBVIOUS
<1>1. CASE NewLive
  <2>1. track = "new" /\ track' = "info" /\ streams' = streams + 1 /\ once' = once /\ once = "unused"
    BY <1>1 DEF NewLive, TrackTo, ControlInv, TrackPhase
  <2>2. StreamsCounter!Enter("session")
    BY <2>1 DEF StreamsCounter!Enter
  <2> QED
    BY <2>2 DEF StreamsCounter!Next
<1>2. ASSUME NEW c \in Closers, CloseReleases(c)
      PROVE  StreamsCounter!Next
  <2>1. track = "live" /\ once = "running"
    BY <1>2 DEF CloseReleases, ControlInv, ClosePhase, TrackPhase, InOnce
  <2>2. track' = track /\ once' = "done" /\ streams' = streams - 1
    BY <1>2 DEF CloseReleases, CloserTo
  <2>3. StreamsCounter!Leave("session")
    BY <2>1, <2>2 DEF StreamsCounter!Leave
  <2> QED
    BY <2>3 DEF StreamsCounter!Next
<1>3. CASE ~NewLive /\ \A c \in Closers : ~CloseReleases(c)
  BY <1>3, NoCountStep DEF StreamsCounter!vars
<1> QED
  BY <1>1, <1>2, <1>3

\* A session counts itself once and gives itself back once, whatever fails and
\* however often it is closed.
THEOREM SessionCountsOnce == Spec => CountsItselfOnce
<1>1. Init => StreamsCounter!Init
  BY DEF Init, StreamsCounter!Init
<1>2. SessionInv => ControlInv
  BY DEF SessionInv
<1> QED
  BY <1>1, <1>2, CountStep, SessionInvariant, PTL DEF Spec, CountsItselfOnce, StreamsCounter!Spec
=============================================================================
