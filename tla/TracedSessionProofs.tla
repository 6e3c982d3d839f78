-------------------------- MODULE TracedSessionProofs --------------------------
(***************************************************************************)
(* A traced session implements LiveSession, so that the invariants proved  *)
(* there hold with tracing on, for every capacity of the trace channel.    *)
(***************************************************************************)
EXTENDS TracedSession, LiveSessionProofs

\* Every step of a traced session is a step of the session or leaves it alone.
LEMMA TracedStepIsStep == [TracedNext]_tracedVars => [Next]_vars
<1> SUFFICES ASSUME [TracedNext]_tracedVars PROVE [Next]_vars
  OBVIOUS
<1>1. CASE TracedRead \/ TracedAck \/ FreeReader \/ FreeError
  <2>1. Reader
    BY <1>1 DEF TracedRead, TracedAck, FreeReader, FreeError, Reader
  <2> QED
    BY <2>1 DEF Next
<1>2. CASE TracedPing \/ FreePinger
  <2>1. Pinger
    BY <1>2 DEF TracedPing, FreePinger, Pinger
  <2> QED
    BY <2>1 DEF Next
<1>3. CASE \/ OtherFrame \/ HandOver("reader") \/ HandOver("pinger")
           \/ OtherSessionTraces \/ WriteTrace \/ WriterStops
  <2>1. UNCHANGED vars
    BY <1>3 DEF OtherFrame, HandOver, OtherSessionTraces, WriteTrace, WriterStops
  <2> QED
    BY <2>1
<1>4. CASE TracedExit
  BY <1>4 DEF TracedExit, Next, Environment
<1>5. CASE Others
  BY <1>5 DEF Others, Next, Environment
<1>6. CASE UNCHANGED tracedVars
  BY <1>6 DEF tracedVars
<1> QED
  BY <1>1, <1>2, <1>3, <1>4, <1>5, <1>6 DEF TracedNext

\* Tracing changes when a session's goroutines take their steps, never which
\* steps they take (wss.go:165-167, 262-267, 286-288).
THEOREM TracingIsTransparent == TracedSpec => SessionStepsOnly
<1>1. TracedInit => Init
  BY DEF TracedInit
<1> QED
  BY <1>1, TracedStepIsStep, PTL DEF TracedSpec, SessionStepsOnly, Spec

\* So a traced session, too, never sends on a closed channel or closes it
\* twice, delivers its events in order and leaves nothing behind; and no
\* caller of Close waits in a circle.
THEOREM TracedSessionSafe ==
  TracedSpec => [](/\ NoClosedChannelPanic /\ InOrder /\ SendNeverBlocks /\ ClosedIsQuiet
                   /\ DisconnectIsLast /\ OnlyDiscardHoldsClose)
<1>1. TracedSpec => Spec
  BY TracingIsTransparent DEF SessionStepsOnly
<1> QED
  BY <1>1, NoPanic, EventsInOrder, SendFindsRoom, CloseLeavesNothing, DisconnectComesLast,
     NoCircleInClose, PTL

\* It winds down as an untraced one does, nothing of it changes after Close,
\* its user sees the channel that EventStream promises, and its client counts
\* it once.
THEOREM TracedSessionMoves ==
  TracedSpec => /\ ReaderWindsDown /\ ClosedForGood /\ ReceivesForward
                /\ ImplementsEventStream /\ CountsItselfOnce
  BY TracingIsTransparent, ReaderComesToItsEnd, NothingAfterClose, ReceivesNewer,
     SessionImplementsStream, SessionCountsOnce DEF SessionStepsOnly

-----------------------------------------------------------------------------
(* The trace channel *)

LEMMA TracedStart == TracedInit => TracedTypeOK
  BY TraceAssumption DEF TracedInit, TracedTypeOK

\* A goroutine that is sending a trace stays where it is; the type invariant
\* of the session is not needed for it.
LEMMA TracedTypeStep == TracedTypeOK /\ [TracedNext]_tracedVars => TracedTypeOK'
<1> SUFFICES ASSUME TracedTypeOK, [TracedNext]_tracedVars PROVE TracedTypeOK'
  OBVIOUS
<1> USE DEF TracedTypeOK, traceVars
<1>1. CASE TracedRead
  <2>1. reader' \in {"ack", "parse"} /\ pinger' = pinger
    BY <1>1 DEF TracedRead, ReadFrame, ReaderTo
  <2> QED
    BY <1>1, <2>1 DEF TracedRead
<1>2. CASE OtherFrame
  BY <1>2 DEF OtherFrame, vars
<1>3. CASE TracedAck
  <2>1. reader' = "parse" /\ pinger' = pinger
    BY <1>3 DEF TracedAck, AckWritten, ReaderTo
  <2> QED
    BY <1>3, <2>1 DEF TracedAck
<1>4. CASE TracedPing
  <2>1. pinger' = "select" /\ reader' = reader
    BY <1>4 DEF TracedPing, PingWritten, PingerTo
  <2> QED
    BY <1>4, <2>1 DEF TracedPing
<1>5. ASSUME NEW g \in {"reader", "pinger"}, HandOver(g) PROVE TracedTypeOK'
  <2>1. reader' = reader /\ pinger' = pinger /\ writer' = writer /\ tracing' \subseteq tracing
    BY <1>5 DEF HandOver, vars
  <2>2. traces' \in 0..TraceSize
    BY <1>5, TraceAssumption DEF HandOver
  <2> QED
    BY <2>1, <2>2
<1>6. CASE FreeReader \/ FreeError
  <2>1. "reader" \notin tracing /\ UNCHANGED traceVars
    BY <1>6 DEF FreeReader, FreeError
  <2>2. pinger' = pinger
    BY <1>6 DEF FreeReader, FreeError, ReaderLocal, ReadError, ParseMsg, BatchDone, Discard,
                Send, EndStream, Poll, DeferCancel, DeferDisconnect, DeferCloseSocket,
                DeferCloseEvents, DeferDone, ReaderTo
  <2> QED
    BY <2>1, <2>2
<1>7. CASE FreePinger
  <2>1. "pinger" \notin tracing /\ UNCHANGED traceVars
    BY <1>7 DEF FreePinger
  <2>2. reader' = reader
    BY <1>7 DEF FreePinger, Tick, PingStops, PingDone, PingerTo
  <2> QED
    BY <2>1, <2>2
<1>8. CASE WriteTrace
  <2>1. reader' = reader /\ pinger' = pinger /\ writer' = writer /\ tracing' = tracing
    BY <1>8 DEF WriteTrace, vars
  <2>2. traces' \in 0..TraceSize
    BY <1>8, TraceAssumption DEF WriteTrace
  <2> QED
    BY <2>1, <2>2
<1>9. CASE WriterStops
  BY <1>9 DEF WriterStops, vars
<1>10. CASE TracedExit
  BY <1>10 DEF TracedExit, Exit, controlVars
<1>11. CASE Others
  <2>1. UNCHANGED traceVars
    BY <1>11 DEF Others
  <2>2. UNCHANGED <<reader, pinger>> \/ (reader' = "next" /\ pinger' = "select")
    <3>1. CASE TrackRoom
      BY <3>1 DEF TrackRoom, NewLive, FetchRoomInfo, FetchRoomData, InitialMessage,
                  NoPushServer, DialFails, GiveUp, Upgrade, TrackTo
    <3>2. CASE Receive \/ ConnectionLost \/ Interrupt
      BY <3>2 DEF Receive, ConnectionLost, Interrupt, controlVars
    <3>3. ASSUME NEW c \in Closers, Closer(c) PROVE UNCHANGED <<reader, pinger>>
      BY <3>3 DEF Closer, CloseLocal, CallClose, CloseCancels, CloseSocket, CloseWaits,
                  CloseReleases, CloseFollows, CloserTo
    <3> QED
      BY <3>1, <3>2, <3>3, <1>11 DEF Others
  <2> QED
    BY <2>1, <2>2
<1>12. CASE UNCHANGED tracedVars
  BY <1>12 DEF tracedVars, vars
<1>13. CASE OtherSessionTraces
  <2>1. reader' = reader /\ pinger' = pinger /\ writer' = writer /\ tracing' = tracing
    BY <1>13 DEF OtherSessionTraces, vars
  <2>2. traces' \in 0..TraceSize
    BY <1>13, TraceAssumption DEF OtherSessionTraces
  <2> QED
    BY <2>1, <2>2
<1> QED
  BY <1>1, <1>2, <1>3, <1>4, <1>5, <1>6, <1>7, <1>8, <1>9, <1>10, <1>11, <1>12, <1>13
     DEF TracedNext

\* The trace channel stays within its capacity, and whoever waits to hand a
\* trace over is at a place of the code that traces.
THEOREM TraceChannelTyped == TracedSpec => []TracedTypeOK
  BY TracedStart, TracedTypeStep, PTL DEF TracedSpec

\* The writer leaves after the interrupt, and the process after the writer.
WriterPhase ==
  /\ writer \in {"running", "gone"} /\ client \in {"running", "done", "exited"}
  /\ writer = "gone" => client # "running"
  /\ client = "exited" => writer = "gone"

\* Apart from the exit, a step leaves the client as it is or interrupts it.
LEMMA ClientSteps ==
  ASSUME [TracedNext]_tracedVars, ~TracedExit
  PROVE  client' = client \/ Interrupt
<1>1. CASE TracedRead \/ OtherFrame \/ TracedAck \/ FreeReader \/ FreeError
  BY <1>1 DEF TracedRead, OtherFrame, TracedAck, FreeReader, FreeError, ReadFrame, AckWritten,
              ReadError, ReaderLocal, ParseMsg, BatchDone, Discard, Send, EndStream, Poll,
              DeferCancel, DeferDisconnect, DeferCloseSocket, DeferCloseEvents, DeferDone,
              ReaderTo, vars
<1>2. CASE TracedPing \/ FreePinger
  BY <1>2 DEF TracedPing, FreePinger, PingWritten, Tick, PingStops, PingDone, PingerTo
<1>3. CASE \/ HandOver("reader") \/ HandOver("pinger") \/ OtherSessionTraces
           \/ WriteTrace \/ WriterStops \/ UNCHANGED tracedVars
  BY <1>3 DEF HandOver, OtherSessionTraces, WriteTrace, WriterStops, tracedVars, vars
<1>4. CASE Others
  BY <1>4 DEF Others, TrackRoom, NewLive, FetchRoomInfo, FetchRoomData, InitialMessage,
              NoPushServer, DialFails, Upgrade, GiveUp, TrackTo, Receive, ConnectionLost,
              Closer, CloseLocal, CallClose, CloseCancels, CloseSocket, CloseWaits,
              CloseReleases, CloseFollows, CloserTo
<1> QED
  BY <1>1, <1>2, <1>3, <1>4 DEF TracedNext

LEMMA WriterPhaseStep == WriterPhase /\ [TracedNext]_tracedVars => WriterPhase'
<1> SUFFICES ASSUME WriterPhase, [TracedNext]_tracedVars PROVE WriterPhase'
  OBVIOUS
<1> USE DEF WriterPhase
<1>1. CASE WriterStops
  BY <1>1 DEF WriterStops, vars
<1>2. CASE TracedExit
  BY <1>2 DEF TracedExit, Exit, traceVars
<1>3. CASE ~WriterStops /\ ~TracedExit
  <2>1. writer' = writer
    BY <1>3 DEF TracedNext, TracedRead, OtherFrame, TracedAck, TracedPing, HandOver, OtherSessionTraces,
                FreeReader, FreeError, FreePinger, WriteTrace, Others, traceVars, tracedVars
  <2> QED
    BY <1>3, <2>1, ClientSteps DEF Interrupt
<1> QED
  BY <1>1, <1>2, <1>3

\* A trace never waits for a writer that has left a running client, and the
\* exit waits for the writer.
THEOREM TracesHaveAWriter == TracedSpec => []WriterOutlastsTraces
<1>1. TracedInit => WriterPhase
  BY DEF TracedInit, Init, WriterPhase
<1>2. WriterPhase /\ TracedTypeOK => WriterOutlastsTraces
  BY TraceAssumption DEF WriterPhase, TracedTypeOK, WriterOutlastsTraces, Alive
<1> QED
  BY <1>1, <1>2, WriterPhaseStep, TraceChannelTyped, PTL DEF TracedSpec
=============================================================================
