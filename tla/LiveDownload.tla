----------------------------- MODULE LiveDownload -----------------------------
(***************************************************************************)
(* A session with a download: Live.DownloadStream of live.go next to the   *)
(* goroutines of LiveSession.                                              *)
(*                                                                         *)
(*   caller   starts ffmpeg, counts the download in Live.wg and waits for  *)
(*            the whole wait group                                         *)
(*   drainer  empties Live.Events while ffmpeg runs, and stops ffmpeg when *)
(*            the session ends: first with a "q", five seconds later by    *)
(*            cancelling the command's context, which kills it             *)
(*   waiter   reaps ffmpeg and calls Done                                  *)
(*                                                                         *)
(* One download per session.  The pipes of ffmpeg are left out: the waiter *)
(* reads them to their end, which is the end of the process.               *)
(***************************************************************************)
EXTENDS LiveSession

VARIABLES
  dl,        \* where the call of DownloadStream is
  drainer,   \* where the draining goroutine is
  waiter,    \* where the goroutine that waits for ffmpeg is
  ffmpeg,    \* the process: "none", "running", "exited"
  locked,    \* mu is held by the drainer
  finished,  \* the flag that mu guards
  asked,     \* "q" has been written to ffmpeg
  killed     \* the command's context is cancelled

downloadVars == <<dl, drainer, waiter, ffmpeg, locked, finished, asked, killed>>
allVars == <<vars, downloadVars>>

\* What a step of the download leaves alone in the session.
sessionVars == <<track, reader, pinger, closer, once, cancelled, client, conn,
                 streams, closed, batch, issued>>

DownloadInit ==
  /\ Init
  /\ dl = "idle" /\ drainer = "none" /\ waiter = "none" /\ ffmpeg = "none"
  /\ locked = FALSE /\ finished = FALSE /\ asked = FALSE /\ killed = FALSE

-----------------------------------------------------------------------------
(* Deliberate faults: slips of the kind a change to the code could make *)

\* The waiter is started without a wg.Add.
RegisterUncounted ==
  /\ Alive /\ dl = "started"
  /\ dl' = "waiting" /\ waiter' = "wait"
  /\ UNCHANGED <<sessionVars, wg, events, last, drainer, ffmpeg, locked, finished, asked, killed>>

\* DownloadStream does not wait.
ReturnAtOnce ==
  /\ Alive /\ dl = "waiting"
  /\ dl' = "returned"
  /\ UNCHANGED <<sessionVars, wg, events, last, drainer, waiter, ffmpeg, locked, finished, asked, killed>>

\* The drainer asks again, and again, until ffmpeg has been reaped.
AskAgain ==
  /\ Alive /\ drainer = "quit"
  /\ drainer' = "lock" /\ locked' = FALSE
  /\ UNCHANGED <<sessionVars, wg, events, last, dl, waiter, ffmpeg, finished, asked, killed>>

\* The drainer takes an event for the end of the session: the test of the
\* receive is inverted.
StopOnEvent ==
  /\ Alive /\ drainer = "drain"
  /\ cancelled \/ events # <<>>
  /\ drainer' = "lock" /\ events' = IF cancelled THEN events ELSE Tail(events)
  /\ UNCHANGED <<sessionVars, wg, last, dl, waiter, ffmpeg, locked, finished, asked, killed>>

\* The drainer does not cancel the command's context, or does not unlock.
NoKill ==
  /\ Alive /\ drainer = "kill"
  /\ drainer' = "rest" /\ locked' = FALSE
  /\ UNCHANGED <<sessionVars, wg, events, last, dl, waiter, ffmpeg, finished, asked, killed>>

KeepLock ==
  /\ Alive /\ drainer = "kill"
  /\ drainer' = "rest" /\ killed' = TRUE
  /\ UNCHANGED <<sessionVars, wg, events, last, dl, waiter, ffmpeg, locked, finished, asked>>

\* The drainer calls Done when it has stopped ffmpeg, in the waiter's place.
KillAndDone ==
  /\ Alive /\ drainer = "kill"
  /\ drainer' = "rest" /\ killed' = TRUE /\ locked' = FALSE /\ wg' = wg - 1
  /\ UNCHANGED <<sessionVars, events, last, dl, waiter, ffmpeg, finished, asked>>

-----------------------------------------------------------------------------
(* The caller *)

\* No ffmpeg, no stream URL, no pipe, or the process does not start.
RefuseDownload ==
  /\ Alive /\ track = "live" /\ dl = "idle"
  /\ dl' = "failed"
  /\ UNCHANGED <<sessionVars, wg, events, last, drainer, waiter, ffmpeg, locked, finished, asked, killed>>

StartDownload ==
  /\ Alive /\ track = "live" /\ dl = "idle"
  /\ dl' = "started" /\ ffmpeg' = "running" /\ drainer' = "drain"
  /\ UNCHANGED <<sessionVars, wg, events, last, waiter, locked, finished, asked, killed>>

RegisterDownload ==
  /\ Alive /\ dl = "started"
  /\ dl' = "waiting" /\ waiter' = "wait" /\ wg' = wg + 1
  /\ UNCHANGED <<sessionVars, events, last, drainer, ffmpeg, locked, finished, asked, killed>>

\* The caller waits for everyone in the wait group, not only for the download.
ReturnFromDownload ==
  /\ Alive /\ dl = "waiting" /\ wg = 0
  /\ dl' = "returned"
  /\ UNCHANGED <<sessionVars, wg, events, last, drainer, waiter, ffmpeg, locked, finished, asked, killed>>

Caller == RegisterDownload \/ ReturnFromDownload

-----------------------------------------------------------------------------
(* The drainer *)

DrainEvent ==
  /\ Alive /\ drainer \in {"drain", "rest"} /\ events # <<>>
  /\ events' = Tail(events) /\ last' = Head(events).place
  /\ UNCHANGED <<sessionVars, wg, downloadVars>>

\* The session is cancelled, or the channel is closed and empty.
StopDraining ==
  /\ Alive /\ drainer = "drain"
  /\ cancelled \/ (closed /\ events = <<>>)
  /\ drainer' = "lock"
  /\ UNCHANGED <<sessionVars, wg, events, last, dl, waiter, ffmpeg, locked, finished, asked, killed>>

AskToQuit ==
  /\ Alive /\ drainer = "lock"
  /\ locked' = TRUE
  /\ asked' = ~finished
  /\ drainer' = IF finished THEN "kill" ELSE "quit"
  /\ UNCHANGED <<sessionVars, wg, events, last, dl, waiter, ffmpeg, finished, killed>>

\* Five seconds with the lock held.
QuitTimeout ==
  /\ Alive /\ drainer = "quit"
  /\ drainer' = "kill"
  /\ UNCHANGED <<sessionVars, wg, events, last, dl, waiter, ffmpeg, locked, finished, asked, killed>>

Kill ==
  /\ Alive /\ drainer = "kill"
  /\ drainer' = "rest" /\ killed' = TRUE /\ locked' = FALSE
  /\ UNCHANGED <<sessionVars, wg, events, last, dl, waiter, ffmpeg, finished, asked>>

DrainerEnds ==
  /\ Alive /\ drainer = "rest" /\ closed /\ events = <<>>
  /\ drainer' = "gone"
  /\ UNCHANGED <<sessionVars, wg, events, last, dl, waiter, ffmpeg, locked, finished, asked, killed>>

DrainerLocal == AskToQuit \/ QuitTimeout \/ Kill \/ DrainerEnds
Drainer == DrainEvent \/ StopDraining \/ DrainerLocal

-----------------------------------------------------------------------------
(* ffmpeg and the waiter *)

\* The broadcast ends, ffmpeg fails, quits as asked, or is killed.
FfmpegExits ==
  /\ ffmpeg = "running"
  /\ ffmpeg' = "exited"
  /\ UNCHANGED <<sessionVars, wg, events, last, dl, drainer, waiter, locked, finished, asked, killed>>

Reap ==
  /\ Alive /\ waiter = "wait" /\ ffmpeg = "exited"
  /\ waiter' = "lock"
  /\ UNCHANGED <<sessionVars, wg, events, last, dl, drainer, ffmpeg, locked, finished, asked, killed>>

Finish ==
  /\ Alive /\ waiter = "lock" /\ ~locked
  /\ waiter' = "wg" /\ finished' = TRUE
  /\ UNCHANGED <<sessionVars, wg, events, last, dl, drainer, ffmpeg, locked, asked, killed>>

WaiterDone ==
  /\ Alive /\ waiter = "wg"
  /\ waiter' = "gone" /\ wg' = wg - 1
  /\ UNCHANGED <<sessionVars, events, last, dl, drainer, ffmpeg, locked, finished, asked, killed>>

Waiter == Reap \/ Finish \/ WaiterDone

-----------------------------------------------------------------------------
Download == RefuseDownload \/ StartDownload \/ Caller \/ Drainer \/ FfmpegExits \/ Waiter

DownloadNext ==
  \/ Next /\ UNCHANGED downloadVars
  \/ Download

DownloadSpec == DownloadInit /\ [][DownloadNext]_allVars

(***************************************************************************)
(* The goroutines of the download run as those of the session do.  Nothing *)
(* is assumed of ffmpeg except that a kill ends it.                        *)
(***************************************************************************)
DownloadFairness ==
  /\ WF_allVars(Caller)
  /\ WF_allVars(DrainEvent)
  /\ WF_allVars(StopDraining)
  /\ WF_allVars(DrainerLocal)
  /\ WF_allVars(killed /\ FfmpegExits)
  /\ WF_allVars(Waiter)

FairDownloadSpec == DownloadSpec /\ Fairness /\ DownloadFairness

-----------------------------------------------------------------------------
(* Properties *)

DownloadTypes ==
  /\ dl \in {"idle", "failed", "started", "waiting", "returned"}
  /\ drainer \in {"none", "drain", "lock", "quit", "kill", "rest", "gone"}
  /\ waiter \in {"none", "wait", "lock", "wg", "gone"}
  /\ ffmpeg \in {"none", "running", "exited"}
  /\ locked \in BOOLEAN /\ finished \in BOOLEAN
  /\ asked \in BOOLEAN /\ killed \in BOOLEAN

\* Every variable keeps its type; Live.wg counts the waiter as well.
DownloadTypeOK ==
  /\ TypeOK /\ DownloadTypes
  /\ wg = Busy(reader) + Busy(pinger) + Busy(waiter)

\* Close does not get past its wait while a download that is in the wait group
\* has its process or its waiter left (live.go:78, 392).
CloseOutlastsDownload ==
  [][\A c \in Closers : closer[c] = "wait" /\ closer'[c] = "release" =>
       waiter \in {"none", "gone"} /\ (waiter = "gone" => ffmpeg = "exited")]_allVars

\* When DownloadStream has returned, nothing writes to the file any more, though
\* a killed ffmpeg may not have written its end, and the session is over: ffmpeg
\* has been reaped, and the reader and the pinger are gone (live.go:392, 432).
DownloadReturnsLast ==
  dl = "returned" =>
    /\ ffmpeg = "exited" /\ waiter = "gone"
    /\ reader = "gone" /\ pinger = "gone" /\ closed

\* ffmpeg is killed only after it has been asked to quit, so that it can write
\* the end of the file; or it has ended already.
KillIsLastResort == killed => asked \/ ffmpeg = "exited"

\* Once the session is cancelled its ffmpeg ends, one that ignores the "q" and
\* one whose reader hangs in the discard included.
FfmpegStops ==
  (cancelled /\ ffmpeg = "running") ~> (ffmpeg = "exited" \/ ~Alive)

\* Once the session is cancelled a call of DownloadStream returns and its
\* drainer leaves, unless the reader hangs in the discard.
DownloadEnds ==
  (cancelled /\ dl = "waiting") ~>
     ((dl = "returned" /\ drainer = "gone") \/ StuckDiscard \/ ~Alive)

\* How many steps the caller, the drainer, the waiter and ffmpeg have left at
\* most, receives aside.
CallerSteps  == [idle |-> 3, started |-> 2, waiting |-> 1, failed |-> 0, returned |-> 0]
DrainerSteps == [none |-> 6, drain |-> 5, lock |-> 4, quit |-> 3, kill |-> 2, rest |-> 1, gone |-> 0]
WaiterSteps  == [none |-> 4, wait |-> 3, lock |-> 2, wg |-> 1, gone |-> 0]
FfmpegSteps  == [none |-> 2, running |-> 1, exited |-> 0]

OwnLeft == CallerSteps[dl] + DrainerSteps[drainer] + WaiterSteps[waiter] + FfmpegSteps[ffmpeg]

DownloadLeft == 2 * ReaderLeft + Len(events) + OwnLeft

\* Once the session is cancelled the reader, which puts events into the channel,
\* and the three that take them out cannot keep each other going: every step of
\* theirs lowers one common bound, a download that is started late included
\* (live.go:361-389, wss.go:178-225).
DownloadWindsDown ==
  [][cancelled => DownloadLeft' \in 0..(DownloadLeft - 1)
                    \/ UNCHANGED <<reader, batch, events, downloadVars>>]_allVars

\* What the goroutines of the download may have to wait for.
WaiterWaits ==
  \/ waiter = "wait" /\ ffmpeg = "running"
  \/ waiter = "lock" /\ locked
DrainerWaits ==
  \/ drainer = "drain" /\ events = <<>> /\ ~closed /\ ~cancelled
  \/ drainer = "lock" /\ locked
  \/ drainer = "rest" /\ events = <<>> /\ ~closed

\* Nobody waits in a circle through the wait group, the lock and ffmpeg.  When
\* Close waits, what it waits for is not held up by the session but for the
\* stuck discard; and when the session is cancelled and the waiter is held up,
\* by the lock or by ffmpeg, then the drainer is on its way to release it, or
\* has killed ffmpeg already (live.go:78, 363-384, 387-427).
NoCircleInDownload ==
  /\ \A c \in Closers : closer[c] = "wait" =>
       /\ ~PingerWaits /\ (ReaderWaits => StuckDiscard)
       /\ wg = 0 <=> reader = "gone" /\ pinger = "gone" /\ waiter \in {"none", "gone"}
  /\ cancelled /\ WaiterWaits =>
       \/ ffmpeg = "running" /\ killed
       \/ drainer \in {"drain", "lock", "quit", "kill"} /\ ~DrainerWaits

\* What LiveSession promises of Live.Events also holds with the drainer as one
\* more goroutine that receives from it (live.go:363-384, wss.go:213-225).
EventsSafe ==
  NoClosedChannelPanic /\ InOrder /\ SendNeverBlocks /\ DisconnectIsLast

\* The session below a download is a session: the drainer is one more consumer,
\* and the waiter's place in the wait group only makes others wait longer.
Session == INSTANCE LiveSession WITH wg <- wg - Busy(waiter)

DownloadIsSession == Session!Spec

\* A caller of DownloadStream gets the one recording that Recording promises,
\* with the end of the session as its only end but ffmpeg's own: the request to
\* quit and the kill come in this order, once each and not before the session
\* is cancelled, no request comes once the waiter has set the flag, whichever of
\* it and the drainer is first at the lock, and the call returns last
\* (live.go:299-436; the flag at 376-382 and 423-425).
Recorder == INSTANCE Recording WITH
  call <- CASE dl = "failed" -> "refused"
            [] dl \in {"started", "waiting"} -> "on"
            [] OTHER -> dl,
  file <- CASE ffmpeg = "running" -> "on"
            [] ffmpeg = "exited" -> IF finished THEN "settled" ELSE "ended"
            [] OTHER -> "none",
  cut  <- killed,
  over <- cancelled

ImplementsRecording == Recorder!Spec

-----------------------------------------------------------------------------
(* The inductive invariant *)

\* How far the caller, the drainer and the waiter are, and what each place
\* implies about the process, the lock and the flags.
DownloadPhase ==
  /\ dl \in {"started", "waiting", "returned"} <=> drainer # "none"
  /\ dl \in {"waiting", "returned"} <=> waiter # "none"
  /\ dl = "returned" => waiter = "gone" /\ reader = "gone" /\ pinger = "gone"
  /\ drainer # "none" => track = "live"
  /\ waiter \in {"lock", "wg", "gone"} => ffmpeg = "exited"
  /\ finished <=> waiter \in {"wg", "gone"}
  /\ asked => drainer \in {"quit", "kill", "rest", "gone"}
  /\ drainer = "quit" => asked
  /\ drainer \in {"kill", "rest", "gone"} => asked \/ ffmpeg = "exited"
  /\ killed <=> drainer \in {"rest", "gone"}
  /\ locked <=> drainer \in {"quit", "kill"}
  /\ ffmpeg # "none" <=> drainer # "none"
  /\ drainer \notin {"none", "drain"} => cancelled

-----------------------------------------------------------------------------
(* What the documentation says and the code does not do *)

\* "Close will ... stop any downloads": an ffmpeg that ran before Close was
\* called no longer runs when Close has returned.
CloseStopsDownloads ==
  \A c \in Closers :
    [](closer[c] = "idle" /\ ffmpeg = "running" =>
         [](closer[c] = "returned" => ffmpeg # "running"))

\* "Send q key press to quit" if not finished: ffmpeg is not asked any more when
\* it has been reaped.  The flag is set behind the lock that the waiter takes
\* after it has reaped (live.go:422-425); a drainer that is there first writes to
\* the closed pipe, ignores the error and keeps the waiter for five seconds.
NoQuitToReaped == [][asked' # asked => waiter \in {"none", "wait"}]_allVars

\* "Started downloading": DownloadStream returns with the session still going,
\* and the events can then be received.
ReturnsWhileLive == dl = "returned" => ~closed
=============================================================================
