# TLA+ models of gotiktoklive

gotiktoklive tracks TikTok livestreams: it looks a room up over HTTP, gets the
first messages and a websocket address from a signing service, and then turns
the frames of the websocket into Go values on a channel. This directory holds
TLA+ specifications of its concurrent parts, the TLC runs that check them on
small instances and TLAPS proofs for instances of any size.

## The system

| Component | Source | State | Operations | What must hold |
|---|---|---|---|---|
| Live session | `live.go` 54-289, `wss.go` | `Live.Events`, `wg`, `wss`, the context behind `done`/`cancel`, the `sync.Once` of `close`, `cursor` | `TrackRoom`, `readSocket`, `parseWssMsg`, `sendAck`, `sendPing`, `Close` | events in order, no panic, `Close` returns and leaves nothing, the channel is closed in the end |
| Download | `live.go` 291-436 | the ffmpeg process, `mu`, `finished`, the same `Events` and `wg` | `DownloadStream`, its drainer and waiter | ffmpeg ends with the session, is asked before it is killed, is never left behind |
| Feed | `feed.go` | `LiveStreams`, `HasMore`, `maxTime` | `Next`, `Track` | pages without gaps or repetition, all items collected |
| Signing | `live.go` 438-462, `tiktok.go` 115-128 and 373-398 | the limiter | `signURL`, `GetSignerLimits` | never more requests than the limit |
| Message parsing | `utils.go` | the process-wide `msgIDCache` | `parseMsg`, `cachedHistory` | an event is history exactly when it was seen before |
| Client | `tiktok.go`, `options.go` | `streams`, `wsTraceChan`, the client's context, its proxy, transport and cookie jar | `NewTikTok`, the options, the trace writer, the interrupt handler | made whole or not at all, the stream count matches the sessions, traces do not block sessions |
| Requests | `requests.go`, `logging.go` | none | `sendRequest` | every failure is an error, and the right one |
| Lookups | `tiktok.go`, `live.go` | none | `GetUserInfo`, `IsLive`, `GetRoomInfo`, `GetPriceList`, ... | a room ID or an error |
| Proxy dialer | `http_proxy.go` | a connection | `Dial` | a connection through the last proxy given, or none left |
| Data | `types.go`, `const.go`, `errors.go`, `proto/` | none | | |

How they interact. `TrackRoom` runs in the user's goroutine; it creates the
`Live`, counts it in the client's `streams`, calls the HTTP component twice
(room info; the signer, whose answer has the first messages), sends those into
`Live.Events` and, when the websocket is up, starts two goroutines. The reader
is the only sender from then on, and it also *receives* from the channel to
discard the oldest event when the channel is full. The user receives from the
channel in some goroutine and calls `Close` from any number of them.
`DownloadStream` adds a third receiver and a third member of the wait group.
All of them meet in four pieces of shared state: the channel, the wait group,
the session's context and the socket.

What is hard here: the check-then-act on the channel's length (`wss.go:221`),
three places that send to and three that close one channel, two concurrent
shutdowns (the reader's deferred calls and `Close`) that touch the same socket,
waits without a timeout (`wg.Wait`, a read, a write, the HTTP requests), and a
wait group that is added to while somebody may be waiting on it. The full list,
line by line, is under "hazards" in `PROJECT.json`.

## Modules

| Module | Models | Proofs | Instances |
|---|---|---|---|
| `EventStream` | what `Live.Events` promises, without goroutines: a bounded channel in the server's order that drops one old event for a new one that found it full, may announce the end, and closes | | |
| `LiveSession` | one session: `TrackRoom`, `readSocket`, `sendPing`, `Close`, the consumer, the network, the interrupt handler; implements `EventStream`, and `StreamCount` with one session | `LiveSessionProofs` | `MCLiveSession` |
| `TracedSession` | `LiveSession` with every frame sent to the client's trace channel, which other sessions fill as well, the trace writer and the exit; implements `LiveSession` | `TracedSessionProofs` | `MCTracedSession` |
| `Recording` | what a caller of `DownloadStream` is promised, without goroutines, lock and wait group: one recording, stopped only by the end of the session and in order, and a call that returns last | | |
| `LiveDownload` | `LiveSession` with one call of `DownloadStream` and ffmpeg; implements `LiveSession` and `Recording` | `LiveDownloadProofs` | `MCLiveDownload` |
| `StreamCount` | what the client's stream count promises, without the lock and what it guards: it moves by one, in one step, as sessions begin and end | | |
| `TikTokClient` | several rooms tracked with one client: the lookups, `sendRequest`, the stream count, `signURL`, the cookie jar; implements `StreamCount` | `TikTokClientProofs` | `MCTikTokClient` |
| `ClientSetup` | the making of a client from environment and options; the choice of a proxy and the CONNECT handshake of a dial | `ClientSetupProofs` | `MCClientSetup` |
| `SignLimiter` | the limiter of a client, its callers and the signer's windows | `SignLimiterProofs` | `MCSignLimiter` |
| `MessageHistory` | `parseMsg` and the cache of seen ids, shared by sessions | `MessageHistoryProofs` | `MCMessageHistory` |
| `Feed` | `Feed.Next` with overlapping callers | `FeedProofs` | `MCFeed` |

How they fit. `LiveSession` is the core; `TracedSession` and `LiveDownload`
extend it with what shares its variables, and are both shown to leave it a
session. `StreamCount` is what `LiveSession` and `TikTokClient` have in common:
each is shown to implement it, the one as a single session, the other as the
client of many. `TikTokClient` looks at many sessions from outside: it stops where
`LiveSession` begins (`live`) and goes on where its `Close` has waited. Its
limiter is a wait, of which `SignLimiter` is the inside; its client is one that
`ClientSetup` has made. `MessageHistory` is the inside of the one place where
`LiveSession` chooses what a message becomes.

### LiveSession

Each goroutine has a variable for where it is.

| Variable | Code |
|---|---|
| `track` | the call of `TrackRoom`: `new`, `info` (room info requested), `data` (first answer requested), `initial` (its messages, then the upgrade), `live` (returned), `failed` |
| `reader` | `readSocket` and `parseWssMsg`: `next` is the read of a frame, `ack` the write of the acknowledgement, `parse` the loop over the messages, `discard` and `send` lines 222 and 224 of `wss.go`, `ended` line 232, `poll` the select behind the message, and `cancel`, `disconnect`, `socket`, `channel`, `wg` the deferred calls in the order they run |
| `pinger` | `sendPing`: `select`, `write`, `wg` (its deferred `Done`) |
| `closer[c]` | a caller of `Close`: `cancel`, `socket`, `wait`, `release` are the statements inside the `Once`; `blocked` is a caller that waits for another one's run of it |
| `once`, `cancelled`, `conn`, `wg`, `streams` | the `Once`, the context, the socket, the wait group, this session's share in `TikTok.streams` |
| `events`, `closed` | the buffer of `Live.Events`, and whether it is closed |
| `batch`, `issued`, `last` | messages of the current response still to be handled; how many messages the server has sent; the place of the last event the consumer took |
| `client` | the process: `running`, `done` (interrupted), `exited` |

A message is its place in the server's order and one of four kinds: it becomes
an event, it becomes the control event that ends the stream, it becomes nothing
(unknown type, undecodable payload, unimplemented type), or its parsing fails
(a room banner whose JSON does not parse; the rest of the response is then
dropped). One action is one step between two points at which another goroutine
can interfere. The look at the channel's length (in `ParseMsg`), the receive
that discards (`Discard`) and the send (`Send`) are three steps, which is where
the races are. A read or write of the socket is one step that may be taken at
any time and must be taken only when the connection is broken. Frames that
change nothing (control frames, text frames) are stuttering steps, as is a
failed acknowledgement after it has been logged.

### LiveDownload

It extends `LiveSession` with the caller of `DownloadStream` (`dl`), the
draining goroutine (`drainer`: `drain` is its first loop, `lock`, `quit` and
`kill` the locked part, `rest` the second loop), the waiting goroutine
(`waiter`), the process (`ffmpeg`, `asked`, `killed`) and the lock with its flag
(`locked`, `finished`). Steps of the session leave these alone; the download
shares `events`, `last` and `wg` with it. A download may be started at any time
after `TrackRoom` has returned, after `Close` too, as in the code. The waiter's
reading of stdout and stderr to their end is part of its waiting for the
process. ffmpeg may end at any time.

`Recorder` maps it to `Recording`: the call is on from `cmd.Start` until it
returns, the file is settled when the waiter has set `finished`, `cut` is the
cancelled context of the command and `over` that of the session. Registering
with the wait group, draining, the five seconds and the lock are stutters.

### TracedSession

`traces` is the number of traces in `wsTraceChan`, `writer` the goroutine of
`tiktok.go:142`, `tracing` the goroutines of the session that are in the middle
of a send to the channel. The reader traces each binary frame before it is
parsed and each acknowledgement, the pinger each ping; the steps of
`LiveSession` that follow one wait for it. The interrupt handler waits for the
writer and then exits, whatever the sessions do. The channel belongs to the
client: of its other sessions only that is kept which this one can notice, that
they put traces into it (`OtherSessionTraces`), at any time while the process
lives and as often as there is room.

### TikTokClient

`at[s]` is where a call of `TrackUser` or `TrackRoom` is, from the request for
the user's page (`user`), `newLive` (`new`, `count`: the lock, the load and the
store are `Lock` and `CountUp`), `info`, `sign` and `take` (the query of
`signURL` is built before the limiter is waited for), `fetched`, `decode`,
`dial` to `live`; `closing`, `uncount`, `closed` is `Close` behind its wait.
`refused` is a failure before `newLive`, `failed` one behind it. Any request may
be lost, and may be answered with any of the statuses that `sendRequest` treats
differently; `SendRequest` is its decision. An answer that decodes without the
object that the code dereferences next is `Crash`. The cookie in the jar is the
number of the answer it came with.

### ClientSetup

`script` is the input: the values of `HTTP_PROXY` and `HTTPS_PROXY` and then the
options, `i` how much of it has been applied. `pc` is the place in
`NewTikTokWithApiKey`, then in `connect` and `httpProxy.Dial`. A `file` that is
`nil` is one whose creation failed. `crashed` is the panic of a limiter whose rate
is zero; what the rate is, is in `SignLimiter`. `transport` says through which proxy the
http client goes and whether the logging transport is around it.

### SignLimiter, MessageHistory, Feed

`SignLimiter` has a clock in ticks; `issued` are the times of the permissions.
`MessageHistory` has a clock as well and `deadline[id]`, the expiry of an id's
cache entry; an entry on the tick of its expiry may count as present or not.
`Feed` splits `Next` at the points where another call can come between: the
check of `HasMore`, the read of the cursor, the answer, and the two writes.

## What TLC checks

| Run | Instance | Question |
|---|---|---|
| `session` | channel of 2, 3 messages, batches up to 2, 2 closers | the inductive invariant (types included), order, no panic, nobody in `Close` waits in a circle, nothing left after `Close`, a cancelled reader only winds down, refinement of `EventStream` (what a slow consumer loses included); `Close` returns and a cancelled or disconnected session ends, both except for the stuck discard |
| `traced` | channel of 1, 1 message, 1 trace, 1 closer | a traced session takes only steps of `LiveSession`; no goroutine is stuck with a trace, whatever other sessions trace, an interrupt exits, `Close` returns with tracing on |
| `download` | channel of 1, 2 messages, batches of 1, 1 closer | what `Close`, `DownloadStream` and ffmpeg may never do to each other, wait in a circle and keep each other going among them; refinement of `Recording`; below a download is a session; a cancelled session ends its ffmpeg and its download |
| `client` | 2 sessions | the stream count is exact and an atomic counter, the signer is told one with the asker in it, no dial has a stale cookie, `Close` gets the lock and gives its count back |
| `setup` | 3 proxies, one of an unknown scheme, 3 options | a client is made whole or not at all; the websocket goes through the last proxy, and the http client too unless a debug option comes behind it; no connection is left |
| `limiter` | 3 callers, minute of 10 ticks, 6 permissions, 12 ticks | permissions are spaced, nobody waits longer than for those ahead, the rate is never zero |
| `history` | 2 sessions, 2 ids, timeout of 2, 6 ticks, 4 events | new once in a timeout, history only of what was new |
| `feed` | 2 callers, 3 items, pages of 2, 5 calls | no item skipped, the end is the end, each item once |
| `close_hangs` | channel of 1, 2 messages | `Close` always returns: **violated** |
| `initial_backlog` | channel of 1 | the first answer does not stop `TrackRoom`: **violated** |
| `close_leaves_download` | channel of 1, 1 message | `Close` stops a running download: **violated** |
| `download_blocks` | as above | `DownloadStream` returns while there are events to receive: **violated** |

The bounds. `MaxMsgs` limits how many messages the server ever sends and
`MaxBatch` how many are in one response. Three messages on a channel of two, in
batches of up to two, are enough for the channel to fill up, for an event to be
discarded with another behind it, for a parse failure with a message lost behind
it, and for a stream that ends in the middle of a batch; two closers are enough
for one to run the `Once` and one to wait for it. In the runs with a channel of
one, two messages already reach the stuck discard. A trace channel of one fills
while both senders wait. Two sessions of a client are one that holds the lock
and one that waits for it, or one that overtakes the other on the way to its
dial; that more of them change nothing is proved. Three options are two that
write the same transport and one between or behind them. Three items on pages of
two are a full page and a last one; five calls let one be answered when all
others are through. Six permissions let callers come back while others sleep,
and are one more than five in a minute; six ticks are three timeouts of the
history, the first expiry, one on the tick and one late.

The runs set `CHECK_DEADLOCK FALSE`, since a session really stops: everything
has returned, or the process has exited, or (the finding below) everyone waits.
Callers, ids and proxies are symmetric in the runs without a liveness property
only; symmetry is not sound for liveness.

### Fairness

`Fairness` in `LiveSession` assumes what the Go scheduler gives, and nothing of
the server or the user. A goroutine that can take a step takes it (weak
fairness of the local steps). A read or a write that the network may block is
only assumed to return when the connection is broken, by the peer or by our own
`Close` of it, because that makes the call return with an error. The read is
strongly fair, since frames that are still buffered may come first; there are
finitely many. `PingStops` is strongly fair because a `select` with several
ready cases picks one at random, and the ticker is ready once in ten seconds.
`FetchRoomInfo`, `FetchRoomData` and the dial are not fair: they have no timeout
and may hang. `Receive`, `CallClose` and `Tick` are not fair either: no property
relies on a user who receives, closes or waits. `Exit` is fair since the handler
waits only for the trace writer. In `LiveDownload` the three goroutines are
fair in the same way, and a killed ffmpeg ends; one that was merely asked to
quit need not.

`TracedSession` adds the writer and the two sends to its channel. A send and the
writer's leaving are strongly fair: the runtime serves the senders of a channel
in the order they came, and the writer's `select` picks a ready case at random,
so that neither is passed over for ever, by other sessions neither. The traces
of other sessions are not fair: they may stop coming. `TikTokClient` assumes that the lock of
the client goes to a goroutine that keeps waiting for it, which `sync.Mutex`
guarantees, and nothing about requests: they may hang, and have no timeout
(`requests.go:130`). With few sessions each of which takes the lock twice, weak
fairness is enough.

### Where the code does not do what is said of it

Four runs keep a counterexample each:

* **The discard can hang the session** (`close_hangs`, `wss.go:221-224`). The
  reader sees the channel full, the consumer empties it, the reader receives
  from the empty channel and is the only one who could send. `Close` then waits
  for ever and `Events` is never closed. `CloseReturns`, `SessionEnds` and
  `DownloadEnds` state that this is the *only* way to hang, apart from the
  exit of the process.
* **`TrackRoom` can hang on its first answer** (`initial_backlog`, `live.go:285`):
  the first messages are sent before anybody has the channel.
* **`Close` can leave ffmpeg running** (`close_leaves_download`, `live.go:392`):
  ffmpeg is started before it is counted.
* **`DownloadStream` blocks for the whole session** (`download_blocks`,
  `live.go:432`), so the loop that follows it in the project's README finds a
  closed channel.

The other disagreements have a definition in the last section of their module
and no run of their own. TLC finds each of them violated when its name replaces
the properties in the module's cfg (`PROPERTY` for those of `LiveSession` and
`LiveDownload`, `INVARIANT` for the others):

| Definition | Module | What the code does |
|---|---|---|
| `DiscardOnlyWhenFull` | `LiveSession` | the race of `close_hangs` with a consumer that takes one event instead of all: an event is discarded from a channel with room, against "If channel is full, discard the first message" (`wss.go:220`). What is left of that sentence is `EventStream`'s: one event at most for one that is published, and only when the channel was full at the look |
| `DisconnectAlwaysEmitted` | `LiveSession` | the `DisconnectEvent` is given up after five seconds without room (`wss.go:109`) |
| `NoQuitToReaped` | `LiveDownload` | the flag `finished` is set behind the lock, after the process has been reaped (`live.go:422-425`); a drainer that is first at the lock writes its "q" to the closed pipe, ignores the error and sleeps five seconds with the lock held, while the waiter and so `Close` wait |
| `AllTraced` | `TracedSession` | the trace writer leaves on an interrupt with traces in its channel (`tiktok.go:149`) |
| `HourKept` | `SignLimiter` | the limiter knows only minutes (`tiktok.go:122`) and exceeds the limit per hour that it has asked for, against "a safety guard to never go over the signer's advertised capabilities" (`live.go:448`) |
| `FivePerMinute` | `SignLimiter` | without the signer's limits it allows ten a minute (`tiktok.go:126`), documented as five (`options.go:24`) |
| `AllCollected` | `Feed` | `Feed.LiveStreams` stays empty (`feed.go:64`), against "All items will be added to the Feed.LiveStreams list" (`feed.go:31`) |
| `NotFoundIsNotFound` | `TikTokClient` | `UserNotFound` is what a redirect yields (`tiktok.go:191`); a 404 is returned by `sendRequest` as another error before the validator sees it (`requests.go:146`) |
| `ProxyForBoth` | `ClientSetup` | the debug option, given behind the proxy option, takes the http client off the proxy (`options.go:43`), against `options.go:58` |
| `TraceHasFile` | `ClientSetup` | a trace file that cannot be created is no error (`tiktok.go:138`), against `options.go:47` |
| `DialReturns` | `ClientSetup` | a proxy that hangs up during CONNECT ends the process: the error branch uses a response that is nil then (`http_proxy.go:97`) |

## What is proved

`LiveSessionProofs` proves for every `ChanSize > 0`, every set `Closers` and all
bounds `MaxMsgs` and `MaxBatch` (`SessionAssumption`, the only assumption):

| Theorem | Statement |
|---|---|
| `SessionInvariant` | `Spec => []SessionInv` |
| `TypeCorrect` | `Spec => []TypeOK`; `wg` in particular never becomes negative |
| `CloseLeavesNothing` | `Spec => []ClosedIsQuiet` |
| `NoPanic` | `Spec => []NoClosedChannelPanic` |
| `EventsInOrder` | `Spec => []InOrder` |
| `SendFindsRoom` | `Spec => []SendNeverBlocks` |
| `DisconnectComesLast` | `Spec => []DisconnectIsLast` |
| `SessionImplementsStream` | `Spec => ImplementsEventStream`, the refinement of `EventStream`: order, and one event lost at most for one published and only when the channel was found full |
| `NoCircleInClose` | `Spec => []OnlyDiscardHoldsClose`: once `Close` waits, the pinger has nothing to wait for and the reader only the stuck discard; who waits for the `Once` has somebody inside it |
| `ReaderComesToItsEnd` | `Spec => ReaderWindsDown`: after the cancellation each step of the reader brings it nearer to its end |
| `NothingAfterClose` | `Spec => ClosedForGood`: what `Close` leaves does not change any more |
| `ReceivesNewer` | `Spec => ReceivesForward`: the consumer never receives what is older than what it had |
| `SessionCountsOnce` | `Spec => CountsItselfOnce`, the refinement of `StreamCount`: whatever fails and however often it is closed, a session is counted once and given back at most once |

The argument. None of these properties is inductive by itself: that nothing is
left when `Close` returns, for example, needs that the wait group counts exactly
the goroutines that have not finished (`WgCounts`), that at most one caller is
inside the `Once` (`ClosePhase`), that the reader closes the channel before its
`Done` (`ReaderPhase`), and that nothing runs before the upgrade (`TrackPhase`).
Together with the control types they form `ControlInv`, which is inductive
without any knowledge of the channel's contents (`ControlStep`, one lemma per
goroutine, one case per action). `QueueInv` is about the contents: the buffer
ascends strictly, above what the consumer took and below what is still to be
handled, with room for as many places as it holds events (`Ordered`), which
makes it inductive. The lemmas `AppendOrdered`,
`TailOrdered` and `WidenOrdered` say what the three things that happen to a
queue do to `Ordered`; `PublishStep`, `PopStep`, `SkipStep` and `QuietStep` lift
them to steps of the specification, and `QueueStep` goes through the actions.
The refinement maps the buffer to the abstract queue, the last handled place to
`top`, and the position of the reader to the phase: `full` and `due` while it
stands before its discard and its send, `final` in its deferred calls.

`NoCircleInClose` needs one fact more, that an `Once` that has been begun and is
not done has its caller still inside (`OnceHasRunner`, inductive next to
`ControlInv`); the rest is what `WgCounts` says of who is left when the context
and the socket are closed. `ReaderWindsDown` is stated with a measure: the steps
from each place of the reader to its end (`StepsFrom`) plus four for every
message it may still handle (`ReaderLeft`). `ReaderShrinks` shows, action by
action, that with the context cancelled each lowers it, for batches of any
length; the four per message are its look at the channel, the discard, the send
and the check for the stream's end. Both are the safety halves of `CloseReturns` and `SessionEnds`:
what fairness adds is that an enabled goroutine moves.

The other modules of proofs assume only what their models name
(`ClientAssumption`, `SetupAssumption`, `LimiterAssumption`, `HistoryAssumption`,
`FeedAssumption`, `TraceAssumption`): positive capacities, finite sets of
sessions and of callers (there are finitely many goroutines, and counts are
cardinalities), proxies that are not words.

| Module | Theorems | Argument |
|---|---|---|
| `TracedSessionProofs` | `TracingIsTransparent` (`TracedSpec => Spec`), `TracedSessionSafe`, `TracedSessionMoves`, `TracesHaveAWriter`, `TraceChannelTyped` | every step with tracing is one of `LiveSession` or none, so all that is proved of it holds, action properties and the refinement of `EventStream` too, whatever other sessions do to the channel; that a sender of a trace has a writer needs `WriterPhase`, where writer, handler and process can be together |
| `LiveDownloadProofs` | `DownloadImplementsSession`, `DownloadTypesCorrect`, `DownloadInPhase`, `ReturnIsLast`, `KillComesLast`, `CloseWaitsForDownload`, `DownloadHasNoCircle`, `DownloadKeepsEvents`, `DownloadImplementsStream`, `DownloadImplementsRecording`, `DownloadKeepsPace`, `DownloadCountsOnce`, `DownloadComesToItsEnd` | with the waiter taken out of the wait group the steps are those of a session; its `SessionInv` then holds below the download, and with `DownloadPhase` (where drainer, waiter, lock and ffmpeg can be together) it is inductive. `DownloadHasNoCircle` reads off `DownloadPhase` that the lock is held only by a drainer that is about to release it, and that a drainer at rest has killed ffmpeg. What is proved of `LiveSession` without the wait group carries over word for word. The refinement of `Recording` needs of the session that it is never cancelled back (`CancelledStays`), that a closed channel means a cancelled session (`ReaderPhase`), for a drainer that leaves by the closed channel, and that the reader has left when the call returns. `DownloadComesToItsEnd` counts what a cancelled session and its download can still do (`DownloadLeft`): two for each step the reader has left, one for each event in the channel, and the steps of the caller, the drainer, the waiter and ffmpeg; a send costs the reader two and adds one event, so that each step lowers the sum |
| `TikTokClientProofs` | `ClientTypeCorrect`, `CountIsExact`, `SignerIsToldRight`, `CookiesNotStale`, `RestIsFailures`, `ErrorsAreTrue`, `MutexMakesCounter` | `ClientInv`: what the holder of the lock has loaded is still the count (`SeenFresh`), the newest cookie of the jar is some session's own (`CookiePhase`); the count moves with the set of counted sessions, by the cardinality of a set with one element more or less. By `SeenFresh` the store of a holder is one `Enter` or `Leave` of `StreamCount` and every other step a stutter (`StepIsCounterStep`). `ErrorsAreTrue` is inductive with the types: a session that has not failed has had no bad answer (`GoodSoFar`), and every failure fits the answer it follows (`FailTells`) |
| `ClientSetupProofs` | `SetupTypeCorrect`, `MadeOrNot`, `SocketProxy`, `OneProxyForBoth`, `ConnectionsClosed` | `SetupInv`: the proxy of the client is the last among what has been applied so far, and its transport goes through the last that no debug option came behind (`TransportAsGiven`); `LastOfNext` says what one thing more does to "the last", `LastOfUnique` that there is one. `OneProxyForBoth` gives a condition under which what `options.go:58` says does hold |
| `SignLimiterProofs` | `LimiterTypeCorrect`, `PermissionsSpaced`, `SleepIsBounded`, `NoBurst`, `SlowSignerKeepsHour` | see below |
| `MessageHistoryProofs` | `NewOnlyOnce`, `HistoryHasOrigin`, `EntriesExact` | an entry is the deadline of the last event of its id that was new |
| `FeedProofs` | `FeedTypeCorrect`, `NothingSkipped`, `EndsComplete`, `OnceInTurn`, `OnceInAll`, `CursorMovesForward` | `CallPhase` bounds the cursor of every call in flight; `CalmPhase` says what holds while calls do not overlap |

The limiter. `WaitsItsTurn` compares a sleeper's slot with the *number* of
sleepers ahead of it, and is not inductive: when the first sleeper returns, the
number goes down for all others, and nothing says that the clock has come far
enough. What is inductive is the shape of the queue: a permission that is not
due yet has a sleeper (`LastHeld`), and a sleeper that is more than an interval
from now has another one exactly an interval ahead (`SleepersChained`). Following
the chain from a sleeper to the front meets each of those ahead at most once, so
that their number bounds the wait (`ChainServes`: among sleepers that waited
longer than their turn, one with the fewest ahead of it would have, an interval
ahead, a sleeper that does not wait longer, and so not wait longer itself). `NoBurst` follows from `PermitsSpaced`: the permissions in a window
lie between the first and the last of them, whose numbers are at most as far
apart as the window has intervals (`SpacedWindow`). It holds of windows that
begin anywhere, which is what a limit per minute means; `SlowSignerKeepsHour`
derives from it for which signers the limiter also keeps the hour, and so how
far the comment at `live.go:448` is right.

Some definitions are proved and have no run of their own. The type invariants of
`LiveSession` and `TikTokClient` are part of their module's invariant; those of
`LiveDownload`, `TracedSession`, `MessageHistory`, `Feed` and `ClientSetup`,
`DownloadPhase` and `EntryIsLastNew` are what the other theorems rest on. The
others say more than a run asks: `ClosedForGood`, `ReceivesForward` and
`CountsItselfOnce` of the session, `EventsSafe` and `KillIsLastResort` of the
download, `ErrorsTellStatus` of the client,
`WriterOutlastsTraces` of the traces, `EndedOnceEach` and `CursorForward` of the
feed, `RestCountsFailures` of the client, `HourKeptIfSlow` of the limiter. TLC finds no violation of any of them when it
is added to the cfg of the module's run; `WindowKept` ranges over all stretches of
time, so TLC needs a bound on `start` and `n` for it (the length of the run is
enough).

Only model-checked: the liveness properties, since fairness and `ENABLED` are out
of the prover's reach. These are `CloseReturns`, `SessionEnds`, `FfmpegStops`,
`DownloadEnds`, `TracesAccepted`, `InterruptExits`, `TracedCloseReturns` and
`CloseCounts`. Of the first seven, what can be said without fairness is proved:
that nobody waits for what will not come (`NoCircleInClose`,
`DownloadHasNoCircle`, `TracesHaveAWriter`) and that the reader, and with it a
download, has only so far to go (`ReaderComesToItsEnd`, `DownloadComesToItsEnd`). Every invariant and every action property that a
run of these modules expects to hold is a theorem.

## What is not modelled, and why

* `proto/*.pb.go` (29331 of 32749 lines) is generated from the protocol's
  description: accessors and reflection tables. A model of it would be a model
  of the protobuf runtime. `types.go`, most of `const.go` and `errors.go` are
  declarations. The lines with behaviour of this program's own are some 2000 in
  `live.go`, `wss.go`, `tiktok.go`, `requests.go`, `feed.go`, `options.go`,
  `http_proxy.go` and `utils.go`, and the models cover what of these has control
  worth checking. The share of all lines that is modelled is small for that
  reason and cannot be large.
* The translation of each protobuf message to its Go event (the cases of
  `parseMsg`): field by field, with no state. What matters to others, whether a
  message becomes an event, nothing or an error and whether it is history, is in
  `MessageHistory` and `LiveSession`. Some cases read parts of the message that
  may be absent (`pt.Common` of a room message, `utils.go:53`) and would panic
  on one that lacks them, in the reader or in `TrackRoom`; no step stands for it.
  It would be one more `Exit`, without the interrupt before it, after which
  nothing of the session moves.
* The building of requests, headers and the decompression in `sendRequest`; a
  failure of theirs is a lost request.
* `IsLive`, `GetPriceList`, `GetRoomInfo` and `getGiftInfo`: one request and one
  decoding each; nothing reads what they leave, which is nothing.
* SOCKS proxies, whose handshake is the library's, and `httpsDialer`, which
  nothing uses.
* Below the level of the models: the bytes of a frame (an acknowledgement and a
  ping may interleave theirs on the socket, `wss.go:260` and `283`), the two
  halves of `WaitGroup.Wait`, frames that the websocket library has buffered
  when the dial returns, a signal that arrives before the handler's goroutine
  has started.

## Plan

All modules of the plan are written: the core (`EventStream`, `LiveSession`),
what extends it (`TracedSession`, `LiveDownload` with `Recording`), and the
client around it (`TikTokClient` with `StreamCount`, `ClientSetup`,
`SignLimiter`, `MessageHistory`, `Feed`). Every invariant and action property
the runs check is proved, and so are all refinements. Left for whoever goes on:

1. Fairness between the sessions of a client that share a trace channel: the
   other sessions of `TracedSession` only fill it, and nothing is said of theirs.
2. Several downloads of one session, which share its drained channel.
