-------------------------- MODULE LiveDownloadProofs --------------------------
(***************************************************************************)
(* A download leaves its session a session: LiveDownload implements        *)
(* LiveSession when the waiter is left out of the wait group.  With that   *)
(* the invariants proved of the session hold below a download too, and the *)
(* invariants of the download follow from DownloadPhase.  To its caller    *)
(* the download is a Recording.                                            *)
(***************************************************************************)
EXTENDS LiveDownload, SequenceTheorems, TLAPS

\* The session below the download, with its theorems.
SP == INSTANCE LiveSessionProofs WITH wg <- wg - Busy(waiter)

\* The wait group counts the reader, the pinger and the waiter.
DownloadCounts ==
  /\ wg = Busy(reader) + Busy(pinger) + Busy(waiter)
  /\ waiter \in {"none", "wait", "lock", "wg", "gone"}

LEMMA BusyNat == \A pc : Busy(pc) \in {0, 1} /\ (Busy(pc) = 0 <=> pc \in {"none", "gone"})
  BY DEF Busy

-----------------------------------------------------------------------------
(* The steps of the session, with the download at rest *)

\* TrackRoom.
LEMMA TrackRoomIsSession ==
  ASSUME TrackRoom, UNCHANGED downloadVars, DownloadCounts
  PROVE  SP!TrackRoom /\ wg' \in Int
<1>0. waiter' = waiter /\ wg \in Int /\ Busy(waiter) \in {0, 1} /\ (wg = 0 => Busy(waiter) = 0)
  BY BusyNat DEF downloadVars, DownloadCounts
<1> USE <1>0 DEF Alive, SP!Alive, TrackTo, SP!TrackTo, GiveUp, SP!GiveUp, sharedVars, SP!sharedVars, queueVars, SP!queueVars, Batches, SP!Batches, MsgKinds, SP!MsgKinds, Publishes, SP!Publishes, HeadEvent, SP!HeadEvent, HeadPlace, SP!HeadPlace, Room, SP!Room
<1>1. NewLive => SP!NewLive /\ wg' \in Int
  BY DEF NewLive, SP!NewLive
<1>2. FetchRoomInfo => SP!FetchRoomInfo /\ wg' \in Int
  BY DEF FetchRoomInfo, SP!FetchRoomInfo
<1>3. FetchRoomData => SP!FetchRoomData /\ wg' \in Int
  BY DEF FetchRoomData, SP!FetchRoomData
<1>4. InitialMessage => SP!InitialMessage /\ wg' \in Int
  BY DEF InitialMessage, SP!InitialMessage
<1>5. NoPushServer => SP!NoPushServer /\ wg' \in Int
  BY DEF NoPushServer, SP!NoPushServer
<1>6. DialFails => SP!DialFails /\ wg' \in Int
  BY DEF DialFails, SP!DialFails
<1>7. Upgrade => SP!Upgrade /\ wg' \in Int
  BY DEF Upgrade, SP!Upgrade
<1> QED
  BY <1>1, <1>2, <1>3, <1>4, <1>5, <1>6, <1>7 DEF TrackRoom, SP!TrackRoom

\* readSocket.
LEMMA ReaderIsSession ==
  ASSUME Reader, UNCHANGED downloadVars, DownloadCounts
  PROVE  SP!Reader /\ wg' \in Int
<1>0. waiter' = waiter /\ wg \in Int /\ Busy(waiter) \in {0, 1} /\ (wg = 0 => Busy(waiter) = 0)
  BY BusyNat DEF downloadVars, DownloadCounts
<1> USE <1>0 DEF Alive, SP!Alive, ReaderTo, SP!ReaderTo, sharedVars, SP!sharedVars, queueVars, SP!queueVars, Batches, SP!Batches, MsgKinds, SP!MsgKinds, Publishes, SP!Publishes, HeadEvent, SP!HeadEvent, HeadPlace, SP!HeadPlace, Room, SP!Room, Full, SP!Full
<1>1. ReadError => SP!ReadError /\ wg' \in Int
  BY DEF ReadError, SP!ReadError
<1>2. ReadFrame => SP!ReadFrame /\ wg' \in Int
  BY DEF ReadFrame, SP!ReadFrame
<1>3. AckWritten => SP!AckWritten /\ wg' \in Int
  BY DEF AckWritten, SP!AckWritten
<1>4. ParseMsg => SP!ParseMsg /\ wg' \in Int
  BY DEF ParseMsg, SP!ParseMsg
<1>5. BatchDone => SP!BatchDone /\ wg' \in Int
  BY DEF BatchDone, SP!BatchDone
<1>6. Discard => SP!Discard /\ wg' \in Int
  BY DEF Discard, SP!Discard
<1>7. Send => SP!Send /\ wg' \in Int
  BY DEF Send, SP!Send
<1>8. EndStream => SP!EndStream /\ wg' \in Int
  BY DEF EndStream, SP!EndStream
<1>9. Poll => SP!Poll /\ wg' \in Int
  BY DEF Poll, SP!Poll
<1>10. DeferCancel => SP!DeferCancel /\ wg' \in Int
  BY DEF DeferCancel, SP!DeferCancel
<1>11. DeferDisconnect => SP!DeferDisconnect /\ wg' \in Int
  BY DEF DeferDisconnect, SP!DeferDisconnect
<1>12. DeferCloseSocket => SP!DeferCloseSocket /\ wg' \in Int
  BY DEF DeferCloseSocket, SP!DeferCloseSocket
<1>13. DeferCloseEvents => SP!DeferCloseEvents /\ wg' \in Int
  BY DEF DeferCloseEvents, SP!DeferCloseEvents
<1>14. DeferDone => SP!DeferDone /\ wg' \in Int
  BY DEF DeferDone, SP!DeferDone
<1> QED
  BY <1>1, <1>2, <1>3, <1>4, <1>5, <1>6, <1>7, <1>8, <1>9, <1>10, <1>11, <1>12, <1>13, <1>14 DEF Reader, SP!Reader, ReaderLocal, SP!ReaderLocal

\* sendPing.
LEMMA PingerIsSession ==
  ASSUME Pinger, UNCHANGED downloadVars, DownloadCounts
  PROVE  SP!Pinger /\ wg' \in Int
<1>0. waiter' = waiter /\ wg \in Int /\ Busy(waiter) \in {0, 1} /\ (wg = 0 => Busy(waiter) = 0)
  BY BusyNat DEF downloadVars, DownloadCounts
<1> USE <1>0 DEF Alive, SP!Alive, PingerTo, SP!PingerTo, sharedVars, SP!sharedVars, queueVars, SP!queueVars
<1>1. Tick => SP!Tick /\ wg' \in Int
  BY DEF Tick, SP!Tick
<1>2. PingWritten => SP!PingWritten /\ wg' \in Int
  BY DEF PingWritten, SP!PingWritten
<1>3. PingStops => SP!PingStops /\ wg' \in Int
  BY DEF PingStops, SP!PingStops
<1>4. PingDone => SP!PingDone /\ wg' \in Int
  BY DEF PingDone, SP!PingDone
<1> QED
  BY <1>1, <1>2, <1>3, <1>4 DEF Pinger, SP!Pinger

\* Close; a wait group of zero counts no waiter either.
LEMMA CloserIsSession ==
  ASSUME NEW c \in Closers, Closer(c), UNCHANGED downloadVars, DownloadCounts
  PROVE  SP!Closer(c) /\ wg' \in Int
<1>0. waiter' = waiter /\ wg \in Int /\ Busy(waiter) \in {0, 1} /\ (wg = 0 => Busy(waiter) = 0)
  BY BusyNat DEF downloadVars, DownloadCounts
<1> USE <1>0 DEF Alive, SP!Alive, CloserTo, SP!CloserTo, sharedVars, SP!sharedVars, queueVars, SP!queueVars
<1>1. CallClose(c) => SP!CallClose(c) /\ wg' \in Int
  BY DEF CallClose, SP!CallClose
<1>2. CloseCancels(c) => SP!CloseCancels(c) /\ wg' \in Int
  BY DEF CloseCancels, SP!CloseCancels
<1>3. CloseSocket(c) => SP!CloseSocket(c) /\ wg' \in Int
  BY DEF CloseSocket, SP!CloseSocket
<1>4. CloseWaits(c) => SP!CloseWaits(c) /\ wg' \in Int
  BY DEF CloseWaits, SP!CloseWaits
<1>5. CloseReleases(c) => SP!CloseReleases(c) /\ wg' \in Int
  BY DEF CloseReleases, SP!CloseReleases
<1>6. CloseFollows(c) => SP!CloseFollows(c) /\ wg' \in Int
  BY DEF CloseFollows, SP!CloseFollows
<1> QED
  BY <1>1, <1>2, <1>3, <1>4, <1>5, <1>6 DEF Closer, SP!Closer, CloseLocal, SP!CloseLocal

\* The consumer and the environment.
LEMMA OtherIsSession ==
  ASSUME Receive \/ Environment \/ UNCHANGED vars, UNCHANGED downloadVars, DownloadCounts
  PROVE  [SP!Next]_(SP!vars) /\ wg' \in Int
<1>0. waiter' = waiter /\ wg \in Int /\ Busy(waiter) \in {0, 1}
  BY BusyNat DEF downloadVars, DownloadCounts
<1> USE <1>0 DEF Alive, SP!Alive, controlVars, SP!controlVars, sharedVars, SP!sharedVars,
                 queueVars, SP!queueVars
<1>1. Receive => SP!Receive /\ wg' \in Int
  BY DEF Receive, SP!Receive
<1>2. ConnectionLost => SP!ConnectionLost /\ wg' \in Int
  BY DEF ConnectionLost, SP!ConnectionLost
<1>3. Interrupt => SP!Interrupt /\ wg' \in Int
  BY DEF Interrupt, SP!Interrupt
<1>4. Exit => SP!Exit /\ wg' \in Int
  BY DEF Exit, SP!Exit
<1>5. UNCHANGED vars => UNCHANGED SP!vars /\ wg' \in Int
  BY DEF vars, SP!vars
<1> QED
  BY <1>1, <1>2, <1>3, <1>4, <1>5 DEF Environment, SP!Environment, SP!Next

-----------------------------------------------------------------------------
(* The steps of the download *)

\* What a step of the download other than a receive is to the session: nothing.
LEMMA DownloadIsStutter ==
  ASSUME DownloadCounts, DownloadPhase,
         \/ RefuseDownload \/ StartDownload \/ Caller \/ StopDraining
         \/ DrainerLocal \/ FfmpegExits \/ Waiter
  PROVE  UNCHANGED SP!vars /\ wg' \in Int
<1>0. wg \in Int /\ Busy(waiter) \in {0, 1}
  BY BusyNat DEF DownloadCounts
<1> USE <1>0 DEF sessionVars, SP!vars
<1>1. waiter' \in {"none", "wait", "lock", "wg", "gone"} /\ wg' \in Int
      /\ wg' - Busy(waiter)' = wg - Busy(waiter)
  <2>1. CASE RegisterDownload
    <3>1. wg' = wg + 1 /\ waiter' = "wait" /\ waiter = "none"
      BY <2>1 DEF RegisterDownload, DownloadPhase, DownloadCounts
    <3> QED
      BY <3>1 DEF Busy
  <2>2. CASE WaiterDone
    <3>1. wg' = wg - 1 /\ waiter' = "gone" /\ waiter = "wg"
      BY <2>2 DEF WaiterDone
    <3> QED
      BY <3>1 DEF Busy
  <2>3. CASE Reap \/ Finish
    <3>1. wg' = wg /\ waiter \in {"wait", "lock"} /\ waiter' \in {"lock", "wg"}
      BY <2>3 DEF Reap, Finish
    <3> QED
      BY <3>1 DEF Busy
  <2>4. CASE ~RegisterDownload /\ ~Waiter
    <3>1. wg' = wg /\ waiter' = waiter
      BY <2>4 DEF RefuseDownload, StartDownload, Caller, ReturnFromDownload, StopDraining, DrainerLocal,
                  AskToQuit, QuitTimeout, Kill, DrainerEnds, FfmpegExits
    <3> QED
      BY <3>1 DEF DownloadCounts, Busy
  <2> QED
    BY <2>1, <2>2, <2>3, <2>4 DEF Waiter
<1>2. UNCHANGED <<sessionVars, events, last>>
  BY DEF RefuseDownload, StartDownload, Caller, RegisterDownload, ReturnFromDownload, StopDraining,
         DrainerLocal, AskToQuit, QuitTimeout, Kill, DrainerEnds, FfmpegExits, Waiter, Reap,
         Finish, WaiterDone
<1> QED
  BY <1>1, <1>2 DEF sessionVars, SP!vars

\* The drainer is a consumer.
LEMMA DrainIsReceive ==
  ASSUME DownloadCounts, DownloadPhase, DrainEvent
  PROVE  SP!Receive /\ wg' \in Int
<1>1. track = "live" /\ waiter' = waiter /\ wg' = wg /\ wg \in Int
  BY BusyNat DEF DownloadCounts, DownloadPhase, DrainEvent, downloadVars
<1> QED
  BY <1>1 DEF DrainEvent, SP!Receive, Alive, SP!Alive, sessionVars, SP!controlVars, SP!sharedVars

\* Every step of the session with its download is a step of the session.
LEMMA StepIsSession ==
  ASSUME DownloadCounts, DownloadPhase, [DownloadNext]_allVars
  PROVE  [SP!Next]_(SP!vars) /\ wg' \in Int
<1>1. CASE Next /\ UNCHANGED downloadVars
  BY <1>1, TrackRoomIsSession, ReaderIsSession, PingerIsSession, CloserIsSession, OtherIsSession
     DEF Next, SP!Next
<1>2. CASE DrainEvent
  BY <1>2, DrainIsReceive DEF SP!Next
<1>3. CASE Download /\ ~DrainEvent
  BY <1>3, DownloadIsStutter DEF Download, Drainer
<1>4. CASE UNCHANGED allVars
  BY <1>4, OtherIsSession DEF allVars
<1> QED
  BY <1>1, <1>2, <1>3, <1>4 DEF DownloadNext, Download, Drainer

-----------------------------------------------------------------------------
(* The inductive invariant *)

\* What the session's goroutines cannot undo.
LEMMA LiveStaysLive ==
  ASSUME Next, track = "live"
  PROVE  /\ track' = "live"
         /\ reader = "gone" => reader' = "gone"
         /\ pinger = "gone" => pinger' = "gone"
<1>1. CASE TrackRoom
  BY <1>1 DEF TrackRoom, NewLive, FetchRoomInfo, FetchRoomData, InitialMessage, NoPushServer,
              DialFails, Upgrade, GiveUp
<1>2. CASE Reader
  BY <1>2 DEF Reader, ReaderLocal, ReadError, ReadFrame, AckWritten, ParseMsg, BatchDone, Discard,
              Send, EndStream, Poll, DeferCancel, DeferDisconnect, DeferCloseSocket,
              DeferCloseEvents, DeferDone, ReaderTo
<1>3. CASE Pinger
  BY <1>3 DEF Pinger, Tick, PingWritten, PingStops, PingDone, PingerTo
<1>4. ASSUME NEW c \in Closers, Closer(c) PROVE UNCHANGED <<track, reader, pinger>>
  BY <1>4 DEF Closer, CloseLocal, CallClose, CloseCancels, CloseSocket, CloseWaits,
              CloseReleases, CloseFollows, CloserTo
<1>5. CASE Receive \/ Environment
  BY <1>5 DEF Receive, Environment, ConnectionLost, Interrupt, Exit, controlVars
<1> QED
  BY <1>1, <1>2, <1>3, <1>4, <1>5 DEF Next

\* A session that is cancelled stays so.
LEMMA CancelledStays ==
  ASSUME Next
  PROVE  cancelled' = cancelled \/ cancelled' = TRUE
<1>1. CASE TrackRoom
  BY <1>1 DEF TrackRoom, NewLive, FetchRoomInfo, FetchRoomData, InitialMessage, NoPushServer,
              DialFails, Upgrade, GiveUp, TrackTo, sharedVars
<1>2. CASE Reader
  BY <1>2 DEF Reader, ReaderLocal, ReadError, ReadFrame, AckWritten, ParseMsg, BatchDone, Discard,
              Send, EndStream, Poll, DeferCancel, DeferDisconnect, DeferCloseSocket,
              DeferCloseEvents, DeferDone, ReaderTo, sharedVars
<1>3. CASE Pinger
  BY <1>3 DEF Pinger, Tick, PingWritten, PingStops, PingDone, PingerTo, sharedVars
<1>4. ASSUME NEW c \in Closers, Closer(c) PROVE cancelled' = cancelled \/ cancelled' = TRUE
  BY <1>4 DEF Closer, CloseLocal, CallClose, CloseCancels, CloseSocket, CloseWaits,
              CloseReleases, CloseFollows, CloserTo, sharedVars
<1>5. CASE Receive \/ Environment
  BY <1>5 DEF Receive, Environment, ConnectionLost, Interrupt, Exit, controlVars, sharedVars
<1> QED
  BY <1>1, <1>2, <1>3, <1>4, <1>5 DEF Next

\* What every step preserves.
DownloadInv == DownloadTypes /\ DownloadCounts /\ DownloadPhase /\ SP!ControlInv

LEMMA DownloadStart == DownloadInit => DownloadInv /\ SP!Init
<1> SUFFICES ASSUME DownloadInit PROVE DownloadInv /\ SP!Init
  OBVIOUS
<1>1. SP!Init
  <2>1. wg = 0 /\ waiter = "none"
    BY DEF DownloadInit, Init
  <2>2. Busy(waiter) = 0
    BY <2>1 DEF Busy
  <2>3. wg - Busy(waiter) = 0
    BY <2>1, <2>2
  <2> QED
    BY <2>3 DEF DownloadInit, Init, SP!Init
<1>2. DownloadCounts
  BY DEF DownloadInit, Init, DownloadCounts, Busy
<1>3. DownloadPhase
  BY DEF DownloadInit, Init, DownloadPhase
<1>4. SP!ControlInv
  BY <1>1, SP!InitControl, SessionAssumption
<1>5. DownloadTypes
  BY DEF DownloadInit, DownloadTypes
<1> QED
  BY <1>1, <1>2, <1>3, <1>4, <1>5 DEF DownloadInv

\* The steps of the download keep its phases.
LEMMA PhaseStep ==
  ASSUME DownloadInv, [DownloadNext]_allVars
  PROVE  DownloadPhase'
<1> USE DEF DownloadInv, DownloadPhase, sessionVars
<1>1. CASE Next /\ UNCHANGED downloadVars
  BY <1>1, LiveStaysLive, CancelledStays DEF downloadVars
<1>2. CASE RefuseDownload
  BY <1>2 DEF RefuseDownload
<1>3. CASE StartDownload
  BY <1>3 DEF StartDownload
<1>4. CASE RegisterDownload
  BY <1>4 DEF RegisterDownload
<1>5. CASE ReturnFromDownload
  <2>1. waiter # "none" /\ reader # "none" /\ pinger # "none"
    BY <1>5 DEF ReturnFromDownload, DownloadInv, SP!ControlInv, SP!TrackPhase
  <2>2. Busy(waiter) = 0 /\ Busy(reader) = 0 /\ Busy(pinger) = 0
    BY <1>5, BusyNat DEF ReturnFromDownload, DownloadInv, DownloadCounts
  <2>3. waiter = "gone" /\ reader = "gone" /\ pinger = "gone"
    BY <2>1, <2>2, BusyNat
  <2> QED
    BY <1>5, <2>3 DEF ReturnFromDownload
<1>6. CASE DrainEvent
  BY <1>6 DEF DrainEvent, downloadVars
<1>7. CASE StopDraining
  <2>1. cancelled
    BY <1>7 DEF StopDraining, DownloadInv, SP!ControlInv, SP!ReaderPhase
  <2> QED
    BY <1>7, <2>1 DEF StopDraining
<1>8. CASE AskToQuit
  BY <1>8 DEF AskToQuit
<1>9. CASE QuitTimeout
  BY <1>9 DEF QuitTimeout
<1>10. CASE Kill
  BY <1>10 DEF Kill
<1>11. CASE DrainerEnds
  BY <1>11 DEF DrainerEnds
<1>12. CASE FfmpegExits
  BY <1>12 DEF FfmpegExits
<1>13. CASE Reap
  BY <1>13 DEF Reap
<1>14. CASE Finish
  BY <1>14 DEF Finish
<1>15. CASE WaiterDone
  BY <1>15 DEF WaiterDone
<1>16. CASE UNCHANGED allVars
  BY <1>16 DEF allVars, vars, downloadVars
<1> QED
  BY <1>1, <1>2, <1>3, <1>4, <1>5, <1>6, <1>7, <1>8, <1>9, <1>10, <1>11, <1>12, <1>13, <1>14,
     <1>15, <1>16 DEF DownloadNext, Download, Caller, Drainer, DrainerLocal, Waiter

\* They keep the types.
LEMMA TypesStep ==
  ASSUME DownloadTypes, [DownloadNext]_allVars
  PROVE  DownloadTypes'
<1> USE DEF DownloadTypes
<1>1. UNCHANGED downloadVars => DownloadTypes'
  BY DEF downloadVars
<1>2. CASE RefuseDownload \/ StartDownload \/ Caller
  BY <1>2 DEF RefuseDownload, StartDownload, Caller, RegisterDownload, ReturnFromDownload
<1>3. CASE StopDraining \/ QuitTimeout \/ DrainerEnds
  BY <1>3 DEF StopDraining, QuitTimeout, DrainerEnds
<1>4. CASE AskToQuit
  <2>1. locked' \in BOOLEAN /\ asked' \in BOOLEAN /\ drainer' \in {"kill", "quit"}
    BY <1>4 DEF AskToQuit
  <2> QED
    BY <1>4, <2>1 DEF AskToQuit
<1>5. CASE Kill
  BY <1>5 DEF Kill
<1>6. CASE FfmpegExits \/ Waiter
  BY <1>6 DEF FfmpegExits, Waiter, Reap, Finish, WaiterDone
<1>7. DrainEvent \/ UNCHANGED allVars => UNCHANGED downloadVars
  BY DEF DrainEvent, allVars
<1> QED
  BY <1>1, <1>2, <1>3, <1>4, <1>5, <1>6, <1>7 DEF DownloadNext, Download, Drainer, DrainerLocal

LEMMA DownloadStep == DownloadInv /\ [DownloadNext]_allVars => DownloadInv' /\ [SP!Next]_(SP!vars)
<1> SUFFICES ASSUME DownloadInv, [DownloadNext]_allVars
             PROVE  DownloadInv' /\ [SP!Next]_(SP!vars)
  OBVIOUS
<1>1. [SP!Next]_(SP!vars) /\ wg' \in Int
  BY StepIsSession DEF DownloadInv
<1>2. SP!ControlInv'
  BY <1>1, SP!ControlStep, SessionAssumption DEF DownloadInv
<1>3. DownloadPhase'
  BY PhaseStep
<1>4. waiter' \in {"none", "wait", "lock", "wg", "gone"}
  BY DEF DownloadInv, DownloadCounts, DownloadNext, Download, RefuseDownload, StartDownload, Caller,
         RegisterDownload, ReturnFromDownload, Drainer, DrainEvent, StopDraining, DrainerLocal,
         AskToQuit, QuitTimeout, Kill, DrainerEnds, FfmpegExits, Waiter, Reap, Finish, WaiterDone,
         downloadVars, allVars
<1>5. DownloadCounts'
  <2>1. wg' - Busy(waiter)' = Busy(reader)' + Busy(pinger)'
    BY <1>2 DEF SP!ControlInv, SP!WgCounts, Busy, SP!Busy
  <2>2. Busy(waiter)' \in Int /\ Busy(reader)' \in Int /\ Busy(pinger)' \in Int
    BY DEF Busy
  <2> QED
    BY <1>1, <1>4, <2>1, <2>2 DEF DownloadCounts
<1> QED
  BY <1>1, <1>2, <1>3, <1>5, TypesStep DEF DownloadInv

-----------------------------------------------------------------------------
(* The session of LiveDownload and the one with its theorems are the same *)

LEMMA SameSession == SP!Spec => Session!Spec
<1>1. SP!TrackRoom => Session!TrackRoom
  BY DEF
    SP!TrackRoom, SP!NewLive, SP!FetchRoomInfo, SP!FetchRoomData, SP!InitialMessage,
          SP!NoPushServer, SP!DialFails, SP!Upgrade, SP!TrackTo, SP!GiveUp, SP!Alive,
          SP!sharedVars, SP!queueVars, SP!Batches, SP!MsgKinds, SP!Publishes, SP!HeadEvent,
          SP!HeadPlace, SP!Room, SP!Full, Session!TrackRoom, Session!NewLive,
          Session!FetchRoomInfo, Session!FetchRoomData, Session!InitialMessage,
          Session!NoPushServer, Session!DialFails, Session!Upgrade, Session!TrackTo,
          Session!GiveUp, Session!Alive, Session!sharedVars, Session!queueVars,
          Session!Batches, Session!MsgKinds, Session!Publishes, Session!HeadEvent,
          Session!HeadPlace, Session!Room, Session!Full
<1>2. SP!Reader => Session!Reader
  BY DEF
    SP!Reader, SP!ReadError, SP!ReadFrame, SP!AckWritten, SP!ReaderLocal, SP!ParseMsg,
          SP!BatchDone, SP!Discard, SP!Send, SP!EndStream, SP!Poll, SP!DeferCancel,
          SP!DeferDisconnect, SP!DeferCloseSocket, SP!DeferCloseEvents, SP!DeferDone,
          SP!ReaderTo, SP!Alive, SP!sharedVars, SP!queueVars, SP!Batches, SP!MsgKinds,
          SP!Publishes, SP!HeadEvent, SP!HeadPlace, SP!Room, SP!Full, Session!Reader,
          Session!ReadError, Session!ReadFrame, Session!AckWritten, Session!ReaderLocal,
          Session!ParseMsg, Session!BatchDone, Session!Discard, Session!Send,
          Session!EndStream, Session!Poll, Session!DeferCancel, Session!DeferDisconnect,
          Session!DeferCloseSocket, Session!DeferCloseEvents, Session!DeferDone,
          Session!ReaderTo, Session!Alive, Session!sharedVars, Session!queueVars,
          Session!Batches, Session!MsgKinds, Session!Publishes, Session!HeadEvent,
          Session!HeadPlace, Session!Room, Session!Full
<1>3. SP!Pinger => Session!Pinger
  BY DEF
    SP!Pinger, SP!Tick, SP!PingWritten, SP!PingStops, SP!PingDone, SP!PingerTo, SP!Alive,
          SP!sharedVars, SP!queueVars, SP!Batches, SP!MsgKinds, SP!Publishes, SP!HeadEvent,
          SP!HeadPlace, SP!Room, SP!Full, Session!Pinger, Session!Tick,
          Session!PingWritten, Session!PingStops, Session!PingDone, Session!PingerTo,
          Session!Alive, Session!sharedVars, Session!queueVars, Session!Batches,
          Session!MsgKinds, Session!Publishes, Session!HeadEvent, Session!HeadPlace,
          Session!Room, Session!Full
<1>4. SP!Receive => Session!Receive
  BY DEF
    SP!Receive, SP!controlVars, SP!Alive, SP!sharedVars, SP!queueVars, SP!Batches,
          SP!MsgKinds, SP!Publishes, SP!HeadEvent, SP!HeadPlace, SP!Room, SP!Full,
          Session!Receive, Session!controlVars, Session!Alive, Session!sharedVars,
          Session!queueVars, Session!Batches, Session!MsgKinds, Session!Publishes,
          Session!HeadEvent, Session!HeadPlace, Session!Room, Session!Full
<1>5. SP!Environment => Session!Environment
  BY DEF
    SP!Environment, SP!ConnectionLost, SP!Interrupt, SP!Exit, SP!controlVars, SP!Alive,
          SP!sharedVars, SP!queueVars, SP!Batches, SP!MsgKinds, SP!Publishes, SP!HeadEvent,
          SP!HeadPlace, SP!Room, SP!Full, Session!Environment, Session!ConnectionLost,
          Session!Interrupt, Session!Exit, Session!controlVars, Session!Alive,
          Session!sharedVars, Session!queueVars, Session!Batches, Session!MsgKinds,
          Session!Publishes, Session!HeadEvent, Session!HeadPlace, Session!Room,
          Session!Full
<1>6. ASSUME NEW c \in Closers, SP!Closer(c) PROVE Session!Closer(c)
  BY <1>6 DEF
    SP!Closer, SP!CloseLocal, SP!CallClose, SP!CloseCancels, SP!CloseSocket, SP!CloseWaits,
          SP!CloseReleases, SP!CloseFollows, SP!CloserTo, SP!Alive, SP!sharedVars,
          SP!queueVars, Session!Closer, Session!CloseLocal, Session!CallClose,
          Session!CloseCancels, Session!CloseSocket, Session!CloseWaits,
          Session!CloseReleases, Session!CloseFollows, Session!CloserTo, Session!Alive,
          Session!sharedVars, Session!queueVars
<1>7. UNCHANGED SP!vars => UNCHANGED Session!vars
  BY DEF SP!vars, Session!vars
<1>8. SP!Init => Session!Init
  BY DEF SP!Init, Session!Init
<1>9. [SP!Next]_(SP!vars) => [Session!Next]_(Session!vars)
  BY <1>1, <1>2, <1>3, <1>4, <1>5, <1>6, <1>7 DEF SP!Next, Session!Next
<1> QED
  BY <1>8, <1>9, PTL DEF SP!Spec, Session!Spec

-----------------------------------------------------------------------------
(* Theorems *)

\* A session with a download implements LiveSession: the drainer is one of its
\* consumers, the waiter one more that Close waits for.
THEOREM DownloadImplementsSession == DownloadSpec => DownloadIsSession
<1>1. DownloadSpec => SP!Spec
  BY DownloadStart, DownloadStep, PTL DEF DownloadSpec, SP!Spec
<1> QED
  BY <1>1, SameSession DEF DownloadIsSession

\* The session's invariants hold below a download, next to the download's own.
THEOREM DownloadInvariant == DownloadSpec => [](DownloadInv /\ SP!SessionInv)
<1>1. DownloadSpec => []DownloadInv
  BY DownloadStart, DownloadStep, PTL DEF DownloadSpec
<1>2. DownloadSpec => SP!Spec
  BY DownloadStart, DownloadStep, PTL DEF DownloadSpec, SP!Spec
<1>3. SP!Spec => []SP!SessionInv
  BY SP!SessionInvariant, SessionAssumption
<1> QED
  BY <1>1, <1>2, <1>3, PTL

\* What the invariant says of the wait group and of a caller that has returned.
LEMMA Counted ==
  ASSUME DownloadInv
  PROVE  /\ wg \in Nat
         /\ wg = 0 => /\ waiter \in {"none", "gone"} /\ reader \in {"none", "gone"}
                      /\ pinger \in {"none", "gone"}
<1>1. /\ Busy(reader) \in {0, 1} /\ Busy(pinger) \in {0, 1} /\ Busy(waiter) \in {0, 1}
      /\ wg = Busy(reader) + Busy(pinger) + Busy(waiter)
  BY BusyNat DEF DownloadInv, DownloadCounts
<1>2. wg \in Nat /\ (wg = 0 => Busy(reader) = 0 /\ Busy(pinger) = 0 /\ Busy(waiter) = 0)
  BY <1>1
<1> QED
  BY <1>2, BusyNat

\* Every variable of the session and of the download keeps its type.
THEOREM DownloadTypesCorrect == DownloadSpec => []DownloadTypeOK
<1>1. DownloadInv /\ SP!SessionInv => DownloadTypeOK
  <2> SUFFICES ASSUME DownloadInv, SP!SessionInv PROVE DownloadTypeOK
    OBVIOUS
  <2>1. ControlTypes
    BY Counted DEF SP!SessionInv, SP!ControlInv, SP!ControlTypes, ControlTypes, SP!ReaderStates,
                   ReaderStates, SP!CloserStates, CloserStates
  <2>2. QueueTypes
    BY DEF SP!SessionInv, SP!QueueInv, SP!QueueTypes, QueueTypes, SP!Event, Event,
           SP!EventKinds, EventKinds, SP!MsgKinds, MsgKinds
  <2> QED
    BY <2>1, <2>2 DEF TypeOK, DownloadTypeOK, DownloadInv, DownloadCounts
<1> QED
  BY <1>1, DownloadInvariant, PTL

\* The caller, the drainer and the waiter stay in step with the process.
THEOREM DownloadInPhase == DownloadSpec => []DownloadPhase
<1>1. DownloadInv => DownloadPhase
  BY DEF DownloadInv
<1> QED
  BY <1>1, DownloadInvariant, PTL

\* When DownloadStream has returned, ffmpeg is reaped and the session is over.
THEOREM ReturnIsLast == DownloadSpec => []DownloadReturnsLast
<1>1. DownloadInv => DownloadReturnsLast
  BY DEF DownloadInv, DownloadPhase, DownloadReturnsLast, SP!ControlInv, SP!ReaderPhase
<1> QED
  BY <1>1, DownloadInvariant, PTL

\* No kill before ffmpeg was asked to quit, or has ended by itself.
THEOREM KillComesLast == DownloadSpec => []KillIsLastResort
<1>1. DownloadInv => KillIsLastResort
  BY DEF DownloadInv, DownloadPhase, KillIsLastResort
<1> QED
  BY <1>1, DownloadInvariant, PTL

\* Only CloseWaits lets a call of Close go on.
LEMMA ReleaseNeedsZero ==
  ASSUME [DownloadNext]_allVars, NEW c \in Closers,
         closer[c] = "wait", closer'[c] = "release"
  PROVE  wg = 0
<1>1. closer' # closer
  OBVIOUS
<1>2. Next
  BY <1>1 DEF DownloadNext, Download, RefuseDownload, StartDownload, Caller, RegisterDownload,
         ReturnFromDownload, Drainer, DrainEvent, StopDraining, DrainerLocal, AskToQuit,
         QuitTimeout, Kill, DrainerEnds, FfmpegExits, Waiter, Reap, Finish, WaiterDone,
         sessionVars, allVars, vars
<1>3. PICK d \in Closers : Closer(d)
  <2>1. CASE TrackRoom
    BY <1>1, <2>1 DEF TrackRoom, NewLive, FetchRoomInfo, FetchRoomData, InitialMessage,
                      NoPushServer, DialFails, Upgrade, GiveUp, TrackTo
  <2>2. CASE Reader
    BY <1>1, <2>2 DEF Reader, ReaderLocal, ReadError, ReadFrame, AckWritten, ParseMsg, BatchDone,
                      Discard, Send, EndStream, Poll, DeferCancel, DeferDisconnect,
                      DeferCloseSocket, DeferCloseEvents, DeferDone, ReaderTo
  <2>3. CASE Pinger
    BY <1>1, <2>3 DEF Pinger, Tick, PingWritten, PingStops, PingDone, PingerTo
  <2>4. CASE Receive \/ Environment
    BY <1>1, <2>4 DEF Receive, Environment, ConnectionLost, Interrupt, Exit, controlVars
  <2> QED
    BY <1>2, <2>1, <2>2, <2>3, <2>4 DEF Next
<1>4. \A pc : CloserTo(d, pc) /\ pc # "release" => closer'[c] # "release"
  BY DEF CloserTo
<1>5. CloseWaits(d)
  BY <1>3, <1>4 DEF Closer, CloseLocal, CallClose, CloseCancels, CloseSocket, CloseReleases,
                    CloseFollows
<1> QED
  BY <1>5 DEF CloseWaits

\* Close waits for the process of a download that is counted.
THEOREM CloseWaitsForDownload == DownloadSpec => CloseOutlastsDownload
<1> DEFINE Outlasts ==
      \A c \in Closers : closer[c] = "wait" /\ closer'[c] = "release" =>
        waiter \in {"none", "gone"} /\ (waiter = "gone" => ffmpeg = "exited")
<1>1. DownloadInv /\ [DownloadNext]_allVars => [Outlasts]_allVars
  <2> SUFFICES ASSUME DownloadInv, [DownloadNext]_allVars,
                      NEW c \in Closers, closer[c] = "wait", closer'[c] = "release"
               PROVE  waiter \in {"none", "gone"} /\ (waiter = "gone" => ffmpeg = "exited")
    BY DEF allVars
  <2>1. wg = 0
    BY ReleaseNeedsZero
  <2> QED
    BY <2>1, Counted DEF DownloadInv, DownloadPhase
<1> QED
  BY <1>1, DownloadInvariant, PTL DEF DownloadSpec, CloseOutlastsDownload

\* Neither the wait group, nor the lock, nor ffmpeg closes a circle.
THEOREM DownloadHasNoCircle == DownloadSpec => []NoCircleInDownload
<1>1. ASSUME DownloadInv, SP!SessionInv, NEW c \in Closers, closer[c] = "wait"
      PROVE  /\ ~PingerWaits /\ (ReaderWaits => StuckDiscard)
             /\ wg = 0 <=> reader = "gone" /\ pinger = "gone" /\ waiter \in {"none", "gone"}
  <2>1. cancelled /\ conn = "closed"
    BY <1>1 DEF DownloadInv, SP!ControlInv, SP!ClosePhase
  <2>2. reader # "none" /\ pinger # "none"
    BY <2>1, <1>1 DEF DownloadInv, SP!ControlInv, SP!TrackPhase
  <2>3. ~PingerWaits
    BY <2>1 DEF PingerWaits
  <2>4. Room \/ Full
    BY <1>1, LenProperties, SessionAssumption
       DEF Room, Full, SP!SessionInv, SP!QueueInv, SP!QueueTypes
  <2>5. ReaderWaits => StuckDiscard
    BY <1>1, <2>1, <2>4 DEF ReaderWaits, SP!SessionInv, SP!QueueInv, SP!SendNeverBlocks, SP!Room, Room
  <2>6. /\ Busy(reader) \in {0, 1} /\ Busy(pinger) \in {0, 1} /\ Busy(waiter) \in {0, 1}
        /\ wg = Busy(reader) + Busy(pinger) + Busy(waiter)
    BY <1>1, BusyNat DEF DownloadInv, DownloadCounts
  <2>7. wg = 0 <=> Busy(reader) = 0 /\ Busy(pinger) = 0 /\ Busy(waiter) = 0
    BY <2>6
  <2> QED
    BY <2>2, <2>3, <2>5, <2>7, BusyNat
<1>2. ASSUME DownloadInv, cancelled, WaiterWaits
      PROVE  \/ ffmpeg = "running" /\ killed
             \/ drainer \in {"drain", "lock", "quit", "kill"} /\ ~DrainerWaits
  BY <1>2 DEF WaiterWaits, DrainerWaits, DownloadInv, DownloadPhase, DownloadTypes
<1>3. DownloadInv /\ SP!SessionInv => NoCircleInDownload
  BY <1>1, <1>2 DEF NoCircleInDownload
<1> QED
  BY <1>3, DownloadInvariant, PTL

\* The promises about Live.Events survive the drainer.
THEOREM DownloadKeepsEvents == DownloadSpec => []EventsSafe
<1>1. DownloadInv /\ SP!SessionInv => EventsSafe
  <2> SUFFICES ASSUME SP!SessionInv PROVE EventsSafe
    OBVIOUS
  <2>1. NoClosedChannelPanic
    BY DEF SP!SessionInv, SP!ControlInv, SP!ControlTypes, SP!ReaderPhase, SP!TrackPhase,
           NoClosedChannelPanic
  <2>2. InOrder /\ DisconnectIsLast
    BY DEF SP!SessionInv, SP!QueueInv, SP!InOrder, SP!Ordered, SP!Handled, SP!DisconnectIsLast,
           InOrder, Ordered, Handled, DisconnectIsLast
  <2>3. SendNeverBlocks
    BY DEF SP!SessionInv, SP!QueueInv, SP!SendNeverBlocks, SP!Room, SendNeverBlocks, Room
  <2> QED
    BY <2>1, <2>2, <2>3 DEF EventsSafe
<1> QED
  BY <1>1, DownloadInvariant, PTL

\* Who receives from Live.Events next to a download, the drainer or the user,
\* sees the channel that EventStream promises.
THEOREM DownloadImplementsStream == DownloadSpec => ImplementsEventStream
<1>1. DownloadSpec => SP!Spec
  BY DownloadStart, DownloadStep, PTL DEF DownloadSpec, SP!Spec
<1>2. SP!Spec => SP!ImplementsEventStream
  BY SP!SessionImplementsStream, SessionAssumption
<1>3. SP!ImplementsEventStream => ImplementsEventStream
  <2>1. SP!Stream!Init => Stream!Init
    BY DEF SP!Stream!Init, Stream!Init, SP!Handled, Handled, SP!StreamPhase, StreamPhase
  <2>2. [SP!Stream!Next]_(SP!Stream!vars) => [Stream!Next]_(Stream!vars)
    BY DEF SP!Stream!Next, SP!Stream!Arrive, Stream!Arrive, SP!Stream!Publish, SP!Stream!Skip, SP!Stream!Drop, SP!Stream!Take,
           SP!Stream!Announce, SP!Stream!Shut, SP!Stream!vars, SP!Stream!Kinds, Stream!Next,
           Stream!Publish, Stream!Skip, Stream!Drop, Stream!Take, Stream!Announce, Stream!Shut,
           Stream!vars, Stream!Kinds, SP!Handled, Handled, SP!StreamPhase, StreamPhase
  <2> QED
    BY <2>1, <2>2, PTL
       DEF SP!ImplementsEventStream, SP!Stream!Spec, ImplementsEventStream, Stream!Spec
<1> QED
  BY <1>1, <1>2, <1>3

\* A step of the session is to the recording the end of the session, or nothing.
LEMMA SessionStepRecords ==
  ASSUME Next, UNCHANGED downloadVars, cancelled \in BOOLEAN
  PROVE  [Recorder!Next]_(Recorder!vars)
<1>1. UNCHANGED <<dl, ffmpeg, finished, asked, killed>>
  BY DEF downloadVars
<1>2. CASE cancelled' = cancelled
  BY <1>1, <1>2 DEF Recorder!vars
<1>3. CASE ~cancelled /\ cancelled' = TRUE
  BY <1>1, <1>3 DEF Recorder!Next, Recorder!SessionEnds
<1> QED
  BY <1>2, <1>3, CancelledStays

\* A step of the download is a step of the recording, or none.
LEMMA DownloadStepRecords ==
  ASSUME DownloadInv, Download
  PROVE  [Recorder!Next]_(Recorder!vars)
<1> USE DEF DownloadInv, DownloadPhase, DownloadTypes, sessionVars
<1>1. CASE RefuseDownload
  BY <1>1 DEF RefuseDownload, Recorder!Next, Recorder!Refuse
<1>2. CASE StartDownload
  BY <1>2 DEF StartDownload, Recorder!Next, Recorder!Start
<1>3. CASE RegisterDownload \/ DrainEvent \/ StopDraining \/ QuitTimeout \/ DrainerEnds
           \/ Reap \/ WaiterDone
  BY <1>3 DEF RegisterDownload, DrainEvent, StopDraining, QuitTimeout, DrainerEnds, Reap, WaiterDone,
              downloadVars, Recorder!vars
<1>4. CASE ReturnFromDownload
  <2>1. waiter = "gone" /\ reader = "gone"
    BY <1>4, Counted DEF ReturnFromDownload, SP!ControlInv, SP!TrackPhase
  <2>2. finished /\ ffmpeg = "exited" /\ cancelled
    BY <2>1 DEF SP!ControlInv, SP!ReaderPhase
  <2> QED
    BY <1>4, <2>2 DEF ReturnFromDownload, Recorder!Next, Recorder!Return
<1>5. CASE AskToQuit
  <2>1. cancelled /\ asked = FALSE /\ killed = FALSE /\ ffmpeg \in {"running", "exited"}
    BY <1>5 DEF AskToQuit
  <2>2. CASE finished
    BY <1>5, <2>1, <2>2 DEF AskToQuit, Recorder!vars
  <2>3. CASE ~finished
    BY <1>5, <2>1, <2>3 DEF AskToQuit, Recorder!Next, Recorder!AskToQuit
  <2> QED
    BY <2>2, <2>3
<1>6. CASE Kill
  <2>1. cancelled /\ killed = FALSE /\ (asked \/ ffmpeg = "exited")
    BY <1>6 DEF Kill
  <2> QED
    BY <1>6, <2>1 DEF Kill, Recorder!Next, Recorder!Cut
<1>7. CASE FfmpegExits
  <2>1. finished = FALSE
    BY <1>7 DEF FfmpegExits
  <2> QED
    BY <1>7, <2>1 DEF FfmpegExits, Recorder!Next, Recorder!End
<1>8. CASE Finish
  <2>1. finished = FALSE /\ ffmpeg = "exited"
    BY <1>8 DEF Finish
  <2> QED
    BY <1>8, <2>1 DEF Finish, Recorder!Next, Recorder!Settle
<1> QED
  BY <1>1, <1>2, <1>3, <1>4, <1>5, <1>6, <1>7, <1>8
     DEF Download, Caller, Drainer, DrainerLocal, Waiter

\* DownloadStream records the session once, stops with the session in the order
\* request, kill, and returns last.
THEOREM DownloadImplementsRecording == DownloadSpec => ImplementsRecording
<1>1. DownloadInit => Recorder!Init
  BY DEF DownloadInit, Init, Recorder!Init
<1>2. DownloadInv /\ [DownloadNext]_allVars => [Recorder!Next]_(Recorder!vars)
  <2>1. DownloadInv => cancelled \in BOOLEAN
    BY DEF DownloadInv, SP!ControlInv, SP!ControlTypes
  <2>2. UNCHANGED allVars => UNCHANGED Recorder!vars
    BY DEF allVars, vars, downloadVars, Recorder!vars
  <2> QED
    BY <2>1, <2>2, SessionStepRecords, DownloadStepRecords DEF DownloadNext
<1> QED
  BY <1>1, <1>2, DownloadInvariant, PTL DEF DownloadSpec, ImplementsRecording, Recorder!Spec

\* The two action properties of the session hold with a download as well: the
\* drainer too receives newer events only, and does not hold up the reader.
THEOREM DownloadKeepsPace == DownloadSpec => ReaderWindsDown /\ ReceivesForward
<1> DEFINE Down    == cancelled => ReaderLeft' \in 0..(ReaderLeft - 1) \/ UNCHANGED <<reader, batch>>
           SPDown  == cancelled => SP!ReaderLeft' \in 0..(SP!ReaderLeft - 1) \/ UNCHANGED <<reader, batch>>
           Forward == last' # last => last' > last
<1>1. DownloadSpec => SP!Spec
  BY DownloadStart, DownloadStep, PTL DEF DownloadSpec, SP!Spec
<1>2. SP!Spec => [][SPDown]_(SP!vars)
  BY SP!ReaderComesToItsEnd, SessionAssumption DEF SP!ReaderWindsDown
<1>3. SP!Spec => [][Forward]_(SP!vars)
  BY SP!ReceivesNewer, SessionAssumption DEF SP!ReceivesForward
<1>4. [SPDown]_(SP!vars) => [Down]_vars
  <2>1. SP!ReaderLeft = ReaderLeft /\ SP!ReaderLeft' = ReaderLeft'
    BY DEF SP!ReaderLeft, ReaderLeft, SP!StepsFrom, StepsFrom
  <2> QED
    BY <2>1 DEF SP!vars
<1>5. [Forward]_(SP!vars) => [Forward]_vars
  BY DEF SP!vars
<1> QED
  BY <1>1, <1>2, <1>3, <1>4, <1>5, PTL DEF ReaderWindsDown, ReceivesForward

\* And its client counts a session with a download once: neither the drainer
\* nor the waiter, which Close has to wait for, gives the count back.
THEOREM DownloadCountsOnce == DownloadSpec => CountsItselfOnce
<1>1. DownloadSpec => SP!Spec
  BY DownloadStart, DownloadStep, PTL DEF DownloadSpec, SP!Spec
<1>2. SP!Spec => SP!CountsItselfOnce
  BY SP!SessionCountsOnce, SessionAssumption
<1>3. SP!CountsItselfOnce => CountsItselfOnce
  <2>1. SP!StreamsCounter!Init => StreamsCounter!Init
    BY DEF SP!StreamsCounter!Init, StreamsCounter!Init
  <2>2. [SP!StreamsCounter!Next]_(SP!StreamsCounter!vars) => [StreamsCounter!Next]_(StreamsCounter!vars)
    BY DEF SP!StreamsCounter!Next, SP!StreamsCounter!Enter, SP!StreamsCounter!Leave,
           SP!StreamsCounter!vars, StreamsCounter!Next, StreamsCounter!Enter,
           StreamsCounter!Leave, StreamsCounter!vars
  <2> QED
    BY <2>1, <2>2, PTL DEF SP!CountsItselfOnce, SP!StreamsCounter!Spec, CountsItselfOnce, StreamsCounter!Spec
<1> QED
  BY <1>1, <1>2, <1>3

-----------------------------------------------------------------------------
(* How far a cancelled session and its download still go *)

\* The parts of the bound are natural numbers.
LEMMA LeftIsNat ==
  ASSUME DownloadInv, SP!SessionInv
  PROVE  /\ ReaderLeft \in Nat /\ OwnLeft \in Nat
         /\ events \in Seq(Event) /\ Len(events) \in Nat
<1>1. ReaderLeft \in Nat
  <2>1. Len(batch) \in Nat /\ MaxBatch \in Nat
    BY LenProperties, SessionAssumption DEF SP!SessionInv, SP!QueueInv, SP!QueueTypes
  <2>2. StepsFrom[reader] \in Nat
    BY DEF StepsFrom, DownloadInv, SP!ControlInv, SP!ControlTypes, SP!ReaderStates
  <2> QED
    BY <2>1, <2>2 DEF ReaderLeft
<1>2. OwnLeft \in Nat
  <2>1. CallerSteps[dl] \in Nat /\ DrainerSteps[drainer] \in Nat
    BY DEF DownloadInv, DownloadTypes, CallerSteps, DrainerSteps
  <2>2. WaiterSteps[waiter] \in Nat /\ FfmpegSteps[ffmpeg] \in Nat
    BY DEF DownloadInv, DownloadTypes, WaiterSteps, FfmpegSteps
  <2> QED
    BY <2>1, <2>2 DEF OwnLeft
<1>3. events \in Seq(Event)
  BY DEF SP!SessionInv, SP!QueueInv, SP!QueueTypes, SP!Event, Event, SP!EventKinds, EventKinds,
         SP!MsgKinds, MsgKinds
<1> QED
  BY <1>1, <1>2, <1>3, LenProperties

\* A step of the reader puts one event into the channel at the most.
LEMMA ReaderAddsOne ==
  ASSUME Reader, events \in Seq(Event), issued \in Nat, batch \in Seq(MsgKinds),
         reader = "send" => batch # <<>>
  PROVE  Len(events') \in 0..(Len(events) + 1)
<1>1. events' = events \/ Discard \/ Send \/ DeferDisconnect
  BY DEF Reader, ReaderLocal, ReadError, ReadFrame, AckWritten, ParseMsg, BatchDone, EndStream,
         Poll, DeferCancel, DeferCloseSocket, DeferCloseEvents, DeferDone, queueVars
<1>2. Len(events) \in Nat
  BY LenProperties
<1>3. CASE events' = events
  BY <1>2, <1>3
<1>4. CASE Discard
  <2>1. events # <<>> /\ events' = Tail(events)
    BY <1>4 DEF Discard
  <2>2. Tail(events) \in Seq(Event) /\ Len(Tail(events)) = Len(events) - 1
    BY <2>1, HeadTailProperties
  <2>3. Len(events') \in Nat
    BY <2>1, <2>2, LenProperties
  <2> QED
    BY <1>2, <2>1, <2>2, <2>3
<1>5. ASSUME NEW e, events' = Append(events, e) PROVE Len(events') \in 0..(Len(events) + 1)
  <2>1. Len(Append(events, e)) = Len(events) + 1
    OBVIOUS
  <2> QED
    BY <1>2, <1>5, <2>1
<1> QED
  BY <1>1, <1>3, <1>4, <1>5 DEF Send, DeferDisconnect

\* A receive takes one out.
LEMMA ReceiveTakesOne ==
  ASSUME events \in Seq(Event), events # <<>>, events' = Tail(events)
  PROVE  Len(events') \in 0..(Len(events) - 1)
<1>1. Tail(events) \in Seq(Event) /\ Len(Tail(events)) = Len(events) - 1
  BY HeadTailProperties
<1>2. Len(events') \in Nat
  BY <1>1, LenProperties
<1> QED
  BY <1>1, <1>2

\* Every step of the download other than a receive is one of its own.
LEMMA OwnShrinks ==
  ASSUME DownloadInv, Download, ~DrainEvent
  PROVE  OwnLeft' \in 0..(OwnLeft - 1) /\ UNCHANGED <<reader, batch, events>>
<1> USE DEF sessionVars
<1>1. UNCHANGED <<reader, batch, events>>
  BY DEF Download, RefuseDownload, StartDownload, Caller, RegisterDownload, ReturnFromDownload,
         Drainer, StopDraining, DrainerLocal, AskToQuit, QuitTimeout, Kill, DrainerEnds,
         FfmpegExits, Waiter, Reap, Finish, WaiterDone
<1>2. /\ CallerSteps[dl] \in Nat /\ DrainerSteps[drainer] \in Nat
      /\ WaiterSteps[waiter] \in Nat /\ FfmpegSteps[ffmpeg] \in Nat
  BY DEF DownloadInv, DownloadTypes, CallerSteps, DrainerSteps, WaiterSteps, FfmpegSteps
<1>3. CASE RefuseDownload \/ ReturnFromDownload
  <2>1. CallerSteps[dl'] \in 0..(CallerSteps[dl] - 1) /\ UNCHANGED <<drainer, waiter, ffmpeg>>
    BY <1>3 DEF RefuseDownload, ReturnFromDownload, CallerSteps
  <2> QED
    BY <1>1, <1>2, <2>1 DEF OwnLeft
<1>4. CASE StartDownload
  <2>1. dl = "idle" /\ drainer = "none" /\ ffmpeg = "none"
    BY <1>4 DEF StartDownload, DownloadInv, DownloadPhase, DownloadTypes
  <2>2. /\ CallerSteps[dl'] = CallerSteps[dl] - 1 /\ DrainerSteps[drainer'] = DrainerSteps[drainer] - 1
        /\ FfmpegSteps[ffmpeg'] = FfmpegSteps[ffmpeg] - 1 /\ waiter' = waiter
        /\ CallerSteps[dl] = 3 /\ DrainerSteps[drainer] = 6 /\ FfmpegSteps[ffmpeg] = 2
    BY <1>4, <2>1 DEF StartDownload, CallerSteps, DrainerSteps, FfmpegSteps
  <2> QED
    BY <1>1, <1>2, <2>2 DEF OwnLeft
<1>5. CASE RegisterDownload
  <2>1. dl = "started" /\ waiter = "none"
    BY <1>5 DEF RegisterDownload, DownloadInv, DownloadPhase
  <2>2. /\ CallerSteps[dl'] = 1 /\ CallerSteps[dl] = 2 /\ WaiterSteps[waiter'] = 3
        /\ WaiterSteps[waiter] = 4 /\ UNCHANGED <<drainer, ffmpeg>>
    BY <1>5, <2>1 DEF RegisterDownload, CallerSteps, WaiterSteps
  <2> QED
    BY <1>1, <1>2, <2>2 DEF OwnLeft
<1>6. CASE StopDraining \/ DrainerLocal
  <2>1. UNCHANGED <<dl, waiter, ffmpeg>>
        /\ \/ drainer = "drain" /\ drainer' = "lock"
           \/ drainer = "lock" /\ drainer' \in {"quit", "kill"}
           \/ drainer = "quit" /\ drainer' = "kill"
           \/ drainer = "kill" /\ drainer' = "rest"
           \/ drainer = "rest" /\ drainer' = "gone"
    BY <1>6 DEF StopDraining, DrainerLocal, AskToQuit, QuitTimeout, Kill, DrainerEnds
  <2>2. DrainerSteps[drainer'] \in 0..(DrainerSteps[drainer] - 1)
    BY <2>1 DEF DrainerSteps
  <2> QED
    BY <1>1, <1>2, <2>1, <2>2 DEF OwnLeft
<1>7. CASE Waiter
  <2>1. UNCHANGED <<dl, drainer, ffmpeg>>
        /\ \/ waiter = "wait" /\ waiter' = "lock"
           \/ waiter = "lock" /\ waiter' = "wg"
           \/ waiter = "wg" /\ waiter' = "gone"
    BY <1>7 DEF Waiter, Reap, Finish, WaiterDone
  <2>2. WaiterSteps[waiter'] \in 0..(WaiterSteps[waiter] - 1)
    BY <2>1 DEF WaiterSteps
  <2> QED
    BY <1>1, <1>2, <2>1, <2>2 DEF OwnLeft
<1>8. CASE FfmpegExits
  <2>1. UNCHANGED <<dl, drainer, waiter>> /\ FfmpegSteps[ffmpeg'] = 0 /\ FfmpegSteps[ffmpeg] = 1
    BY <1>8 DEF FfmpegExits, FfmpegSteps
  <2> QED
    BY <1>1, <1>2, <2>1 DEF OwnLeft
<1> QED
  BY <1>3, <1>4, <1>5, <1>6, <1>7, <1>8 DEF Download, Caller, Drainer

\* With the session cancelled the reader loses two for the one that its event
\* may add, so that no step leaves the bound where it was.
THEOREM DownloadComesToItsEnd == DownloadSpec => DownloadWindsDown
<1> DEFINE Down == cancelled => DownloadLeft' \in 0..(DownloadLeft - 1)
                                  \/ UNCHANGED <<reader, batch, events, downloadVars>>
<1>1. DownloadInv /\ SP!SessionInv /\ [DownloadNext]_allVars => [Down]_allVars
  <2> SUFFICES ASSUME DownloadInv, SP!SessionInv, [DownloadNext]_allVars, cancelled
               PROVE  DownloadLeft' \in 0..(DownloadLeft - 1)
                        \/ UNCHANGED <<reader, batch, events, downloadVars>>
    OBVIOUS
  <2>1. /\ ReaderLeft \in Nat /\ OwnLeft \in Nat /\ events \in Seq(Event) /\ Len(events) \in Nat
    BY LeftIsNat
  <2>2. track = "live" /\ ~TrackRoom
    BY DEF DownloadInv, SP!ControlInv, SP!TrackPhase, TrackRoom, NewLive, FetchRoomInfo, FetchRoomData,
           InitialMessage, NoPushServer, DialFails, Upgrade
  <2>3. UNCHANGED downloadVars => OwnLeft' = OwnLeft
    BY DEF downloadVars, OwnLeft
  <2>4. UNCHANGED <<reader, batch>> => ReaderLeft' = ReaderLeft
    BY DEF ReaderLeft
  <2>5. CASE Reader /\ UNCHANGED downloadVars
    <3>1. SP!Reader
      BY <2>5, ReaderIsSession DEF DownloadInv
    <3>2. SP!ReaderLeft' \in 0..(SP!ReaderLeft - 1)
      BY <3>1, SP!ReaderShrinks, SessionAssumption
    <3>3. SP!ReaderLeft = ReaderLeft /\ SP!ReaderLeft' = ReaderLeft'
      BY DEF SP!ReaderLeft, ReaderLeft, SP!StepsFrom, StepsFrom
    <3>4. Len(events') \in 0..(Len(events) + 1)
      <4>1. issued \in Nat /\ batch \in Seq(MsgKinds) /\ (reader = "send" => batch # <<>>)
        BY DEF SP!SessionInv, SP!QueueInv, SP!QueueTypes, SP!MsgKinds, MsgKinds, DownloadInv,
               SP!ControlInv, SP!ReaderPhase
      <4> QED
        BY <2>1, <2>5, <4>1, ReaderAddsOne
    <3> QED
      BY <2>1, <2>3, <2>5, <3>2, <3>3, <3>4 DEF DownloadLeft
  <2>6. CASE (Receive /\ UNCHANGED downloadVars) \/ DrainEvent
    <3>1. UNCHANGED <<reader, batch, downloadVars>> /\ events # <<>> /\ events' = Tail(events)
      BY <2>6 DEF Receive, DrainEvent, sessionVars, controlVars
    <3>2. Len(events') \in 0..(Len(events) - 1)
      BY <2>1, <3>1, ReceiveTakesOne
    <3> QED
      BY <2>1, <2>3, <2>4, <3>1, <3>2 DEF DownloadLeft
  <2>7. CASE Download /\ ~DrainEvent
    <3>1. OwnLeft' \in 0..(OwnLeft - 1) /\ UNCHANGED <<reader, batch, events>>
      BY <2>7, OwnShrinks
    <3> QED
      BY <2>1, <2>4, <3>1 DEF DownloadLeft
  <2>8. CASE (Pinger \/ Environment \/ \E c \in Closers : Closer(c)) /\ UNCHANGED downloadVars
    BY <2>8 DEF Pinger, Tick, PingWritten, PingStops, PingDone, PingerTo, Environment,
                ConnectionLost, Interrupt, Exit, Closer, CloseLocal, CallClose, CloseCancels,
                CloseSocket, CloseWaits, CloseReleases, CloseFollows, CloserTo,
                controlVars, queueVars
  <2>9. CASE UNCHANGED allVars
    BY <2>9 DEF allVars, vars
  <2> QED
    BY <2>2, <2>5, <2>6, <2>7, <2>8, <2>9 DEF DownloadNext, Next
<1> QED
  BY <1>1, DownloadInvariant, PTL DEF DownloadSpec, DownloadWindsDown
=============================================================================
