---------------------------- MODULE TracedSession ----------------------------
(***************************************************************************)
(* A session of a client that traces the websocket (EnableWSTrace), with   *)
(* the client's trace writer and interrupt handler (tiktok.go 130-172).    *)
(*                                                                         *)
(* The reader and the pinger of LiveSession send what they read and wrote  *)
(* to the client's trace channel, and do not go on before they have.  One  *)
(* writer takes the traces from the channel and leaves when the client is  *)
(* interrupted; the interrupt handler waits for the writer, and only for   *)
(* the writer, before it exits the process.                                *)
(*                                                                         *)
(* The client's other sessions send to the same channel: of them only that *)
(* is modelled, that at any time one of them may put a trace into it.      *)
(***************************************************************************)
EXTENDS LiveSession

CONSTANT TraceSize   \* capacity of wsTraceChan

ASSUME TraceAssumption == TraceSize \in Nat \ {0}

VARIABLES
  traces,   \* how many traces are in the channel
  writer,   \* the trace writer: "running", or "gone" when Done has been called
  tracing   \* the goroutines that are sending a trace: "reader", "pinger"

traceVars  == <<traces, writer, tracing>>
tracedVars == <<vars, traceVars>>

TracedInit == Init /\ traces = 0 /\ writer = "running" /\ tracing = {}

-----------------------------------------------------------------------------
(* Deliberate faults *)

\* A text frame falls through to the check for a cancellation.
OtherFrameFallsThrough ==
  /\ reader = "next" /\ "reader" \notin tracing
  /\ ReaderTo("poll")
  /\ tracing' = tracing \cup {"reader"}
  /\ UNCHANGED <<sharedVars, queueVars, traces, writer>>

\* The writer leaves with the first session that is cancelled.
WriterStopsEarly ==
  /\ Alive /\ writer = "running" /\ cancelled
  /\ writer' = "gone"
  /\ UNCHANGED <<vars, traces, tracing>>

\* The handler waits for the goroutines of the session as well.
ExitWaitsForSessions ==
  /\ writer = "gone" /\ wg = 0
  /\ Exit
  /\ UNCHANGED traceVars

-----------------------------------------------------------------------------
(* The session's goroutines *)

\* Every binary frame is traced before it is parsed.
TracedRead ==
  /\ "reader" \notin tracing
  /\ ReadFrame
  /\ tracing' = tracing \cup {"reader"}
  /\ UNCHANGED <<traces, writer>>

\* A frame of another kind is traced and otherwise ignored.
OtherFrame ==
  /\ Alive /\ reader = "next" /\ "reader" \notin tracing
  /\ tracing' = tracing \cup {"reader"}
  /\ UNCHANGED <<vars, traces, writer>>

\* An acknowledgement is traced when its write succeeded.
TracedAck ==
  /\ "reader" \notin tracing
  /\ AckWritten
  /\ tracing' \in {tracing, tracing \cup {"reader"}}
  /\ UNCHANGED <<traces, writer>>

\* So is a ping.
TracedPing ==
  /\ "pinger" \notin tracing
  /\ PingWritten
  /\ tracing' \in {tracing, tracing \cup {"pinger"}}
  /\ UNCHANGED <<traces, writer>>

\* The send of the trace, which blocks while the channel is full.
HandOver(g) ==
  /\ Alive /\ g \in tracing /\ traces < TraceSize
  /\ tracing' = tracing \ {g}
  /\ traces' = traces + 1
  /\ UNCHANGED <<vars, writer>>

\* A goroutine of another session of the client hands over a trace of its own.
OtherSessionTraces ==
  /\ Alive /\ traces < TraceSize
  /\ traces' = traces + 1
  /\ UNCHANGED <<vars, writer, tracing>>

\* What a goroutine does that is not sending a trace.
FreeReader == "reader" \notin tracing /\ ReaderLocal /\ UNCHANGED traceVars
FreeError  == "reader" \notin tracing /\ ReadError /\ UNCHANGED traceVars
FreePinger ==
  /\ "pinger" \notin tracing
  /\ Tick \/ PingStops \/ PingDone
  /\ UNCHANGED traceVars

-----------------------------------------------------------------------------
(* The client's goroutines *)

WriteTrace ==
  /\ Alive /\ writer = "running" /\ traces > 0
  /\ traces' = traces - 1
  /\ UNCHANGED <<vars, writer, tracing>>

\* The select of the writer takes the cancellation, traces or not.
WriterStops ==
  /\ writer = "running" /\ client = "done"
  /\ writer' = "gone"
  /\ UNCHANGED <<vars, traces, tracing>>

\* The interrupt handler, behind its wait for the writer.
TracedExit ==
  /\ writer = "gone"
  /\ Exit
  /\ UNCHANGED traceVars

Others ==
  /\ TrackRoom \/ Receive \/ ConnectionLost \/ Interrupt \/ \E c \in Closers : Closer(c)
  /\ UNCHANGED traceVars

TracedNext ==
  \/ TracedRead \/ OtherFrame \/ TracedAck \/ TracedPing
  \/ HandOver("reader") \/ HandOver("pinger") \/ OtherSessionTraces
  \/ FreeReader \/ FreeError \/ FreePinger
  \/ WriteTrace \/ WriterStops \/ TracedExit \/ Others

TracedSpec == TracedInit /\ [][TracedNext]_tracedVars

(***************************************************************************)
(* As in LiveSession, a goroutine that can take a step takes it, and a     *)
(* read or write returns on a broken connection.  A broken read fails in   *)
(* the end though frames of other kinds may still be buffered.  A sender   *)
(* that waits for room gets it in the end, whatever other sessions send    *)
(* (the runtime serves the senders that wait for a channel in the order    *)
(* they came), and the select of the writer chooses at random.             *)
(***************************************************************************)
TracedFairness ==
  /\ WF_tracedVars(InitialMessage /\ UNCHANGED traceVars)
  /\ WF_tracedVars(FreeReader)
  /\ SF_tracedVars(Broken /\ FreeError)
  /\ WF_tracedVars(Broken /\ TracedAck)
  /\ WF_tracedVars(Broken /\ TracedPing)
  /\ SF_tracedVars("pinger" \notin tracing /\ PingStops /\ UNCHANGED traceVars)
  /\ WF_tracedVars("pinger" \notin tracing /\ PingDone /\ UNCHANGED traceVars)
  /\ \A c \in Closers : WF_tracedVars(CloseLocal(c) /\ UNCHANGED traceVars)
  /\ SF_tracedVars(HandOver("reader"))
  /\ SF_tracedVars(HandOver("pinger"))
  /\ WF_tracedVars(WriteTrace)
  /\ SF_tracedVars(WriterStops)
  /\ WF_tracedVars(TracedExit)

TracedFairSpec == TracedSpec /\ TracedFairness

-----------------------------------------------------------------------------
(* Properties *)

\* The channel holds no more than its capacity, and only goroutines that exist
\* and are at a place that traces are sending to it.
TracedTypeOK ==
  /\ traces \in 0..TraceSize
  /\ writer \in {"running", "gone"}
  /\ tracing \subseteq {"reader", "pinger"}
  /\ "reader" \in tracing => reader \in {"next", "ack", "parse"}
  /\ "pinger" \in tracing => pinger = "select"

\* A traced session is a session: tracing delays its goroutines and changes
\* nothing else, so all that LiveSession promises holds of it too.
SessionStepsOnly == Spec

\* Whoever waits to hand over a trace waits for room, for a writer that can make
\* room, or for the end of the process: the writer leaves only when the client
\* is interrupted, and the process does not exit before the writer has written
\* what it took (tiktok.go:144-172, wss.go:165-167).
WriterOutlastsTraces ==
  /\ tracing # {} => \/ traces < TraceSize
                     \/ writer = "running" /\ traces > 0
                     \/ client # "running"
  /\ ~Alive => writer = "gone"

\* No goroutine of the session is left with a trace it cannot hand over, however
\* many other sessions of the client fill the channel: the writer takes traces until the client is interrupted, and the process exits
\* soon after, though the writer no longer takes any (wss.go:165-167, 262-267,
\* 286-288).
TracesAccepted ==
  \A g \in {"reader", "pinger"} : g \in tracing ~> (g \notin tracing \/ ~Alive)

\* An interrupt ends the process, whatever the sessions are blocked in
\* (tiktok.go:164-172).
InterruptExits == client = "done" ~> ~Alive

\* Tracing does not keep Close from returning: the promise of LiveSession that
\* needs fairness holds of traced sessions (wss.go:166, live.go:78).
TracedCloseReturns == CloseReturns

-----------------------------------------------------------------------------
(* What the documentation says and the code does not do *)

\* "EnableWSTrace will put traces for all websocket messages into the given
\* file": when the process exits, no trace is left in the channel or with its
\* sender.
AllTraced == ~Alive => traces = 0 /\ tracing = {}
=============================================================================
