--------------------------------- MODULE Feed ---------------------------------
(***************************************************************************)
(* A feed of recommended livestreams: Feed.Next of feed.go, called by any  *)
(* number of goroutines on one Feed.                                       *)
(*                                                                         *)
(* Next does not lock.  It reads HasMore, reads the cursor maxTime, asks   *)
(* for the page behind it, and writes HasMore and maxTime from the answer; *)
(* the steps of two calls interleave.  A request that fails in any way     *)
(* (transport, status, JSON) leaves the feed as it was.                    *)
(*                                                                         *)
(* The server is external: its recommendations are the items 1..Items in   *)
(* a fixed order, a page is what follows the cursor it was sent, and a     *)
(* first request is one with cursor zero.  It may also refuse with an      *)
(* answer that has status 200 and nothing in it but, perhaps, has_more.    *)
(***************************************************************************)
EXTENDS Integers

CONSTANTS
  Callers,   \* the goroutines that call Feed.Next
  Items,     \* how many livestreams the server recommends
  PageSize,  \* the most the server puts in a page
  MaxCalls   \* bound: how many calls are made

ASSUME FeedAssumption ==
  /\ Items \in Nat /\ PageSize \in Nat \ {0} /\ MaxCalls \in Nat

VARIABLES
  hasMore,      \* Feed.HasMore
  maxTime,      \* Feed.maxTime
  liveStreams,  \* Feed.LiveStreams
  call,         \* where each caller is in Next
  sent,         \* the cursor each call has read
  page,         \* the answer each call has got
  got,          \* how often each item has been returned to a caller
  calls,        \* how many calls have been made
  calm,         \* no two calls have overlapped, and no refusal was answered
  refused       \* a refusal ended the feed

vars == <<hasMore, maxTime, liveStreams, call, sent, page, got, calls, calm, refused>>
callVars == <<call, sent, page>>
feedVars == <<hasMore, maxTime, liveStreams, got>>
history  == <<calls, calm, refused>>

Page == [from : 0..Items, next : 0..Items, more : BOOLEAN]
NoPage == [from |-> 0, next |-> 0, more |-> FALSE]

\* What the page behind cursor m may be: the last one says so.
PagesAt(m) ==
  {p \in Page : /\ p.from = m /\ p.next \in m..(m + PageSize)
                /\ p.more = (p.next < Items)}

Refusals == {p \in Page : p.from = 0 /\ p.next = 0}

Init ==
  /\ hasMore = TRUE /\ maxTime = 0 /\ liveStreams = {}
  /\ call = [c \in Callers |-> "idle"]
  /\ sent = [c \in Callers |-> 0] /\ page = [c \in Callers |-> NoPage]
  /\ got = [i \in 1..Items |-> 0]
  /\ calls = 0 /\ calm = TRUE /\ refused = FALSE

-----------------------------------------------------------------------------
(* Deliberate faults *)

\* The cursor is moved before the request has succeeded.
FailMoved(c) ==
  /\ call[c] = "sent"
  /\ call' = [call EXCEPT ![c] = "idle"]
  /\ maxTime' = IF maxTime < Items THEN maxTime + 1 ELSE maxTime
  /\ UNCHANGED <<sent, page, hasMore, liveStreams, got, history>>

\* An empty page ends the feed.
SetMoreByLength(c) ==
  /\ call[c] = "more"
  /\ hasMore' = (page[c].next > page[c].from)
  /\ call' = [call EXCEPT ![c] = "cursor"]
  /\ UNCHANGED <<sent, page, maxTime, liveStreams, got, history>>

\* The cursor is the number of items of the page, not their place.
SetCursorByLength(c) ==
  /\ call[c] = "cursor"
  /\ maxTime' = page[c].next - page[c].from
  /\ got' = [i \in 1..Items |->
               IF page[c].from < i /\ i <= page[c].next THEN got[i] + 1 ELSE got[i]]
  /\ call' = [call EXCEPT ![c] = "idle"]
  /\ UNCHANGED <<sent, page, hasMore, liveStreams, history>>

-----------------------------------------------------------------------------
(* Next; without HasMore it is an error and changes nothing *)

Begin(c) ==
  /\ call[c] = "idle" /\ hasMore /\ calls < MaxCalls
  /\ call' = [call EXCEPT ![c] = "begun"]
  /\ calls' = calls + 1
  /\ calm' = (calm /\ \A d \in Callers : call[d] = "idle")
  /\ UNCHANGED <<feedVars, sent, page, refused>>

ReadCursor(c) ==
  /\ call[c] = "begun"
  /\ sent' = [sent EXCEPT ![c] = maxTime]
  /\ call' = [call EXCEPT ![c] = "sent"]
  /\ UNCHANGED <<feedVars, page, history>>

Fail(c) ==
  /\ call[c] = "sent"
  /\ call' = [call EXCEPT ![c] = "idle"]
  /\ UNCHANGED <<feedVars, sent, page, history>>

Answered(c, p) ==
  /\ call[c] = "sent"
  /\ page' = [page EXCEPT ![c] = p]
  /\ call' = [call EXCEPT ![c] = "more"]
  /\ UNCHANGED <<feedVars, sent, calls>>

Answer(c) ==
  \E p \in PagesAt(sent[c]) : Answered(c, p) /\ UNCHANGED <<calm, refused>>

Refuse(c) ==
  \E p \in Refusals : Answered(c, p) /\ calm' = FALSE /\ refused' = (refused \/ ~p.more)

SetMore(c) ==
  /\ call[c] = "more"
  /\ hasMore' = page[c].more
  /\ call' = [call EXCEPT ![c] = "cursor"]
  /\ UNCHANGED <<sent, page, maxTime, liveStreams, got, history>>

\* The cursor, and the page returned to the caller.
SetCursor(c) ==
  /\ call[c] = "cursor"
  /\ maxTime' = page[c].next
  /\ got' = [i \in 1..Items |->
               IF page[c].from < i /\ i <= page[c].next THEN got[i] + 1 ELSE got[i]]
  /\ call' = [call EXCEPT ![c] = "idle"]
  /\ UNCHANGED <<sent, page, hasMore, liveStreams, history>>

NextCall(c) ==
  \/ Begin(c) \/ ReadCursor(c) \/ Fail(c) \/ Answer(c) \/ Refuse(c)
  \/ SetMore(c) \/ SetCursor(c)

Next == \E c \in Callers : NextCall(c)

Spec == Init /\ [][Next]_vars

-----------------------------------------------------------------------------
(* Properties *)

\* Every variable keeps its type.
TypeOK ==
  /\ hasMore \in BOOLEAN /\ maxTime \in 0..Items /\ liveStreams \subseteq 1..Items
  /\ call \in [Callers -> {"idle", "begun", "sent", "more", "cursor"}]
  /\ sent \in [Callers -> 0..Items] /\ page \in [Callers -> Page]
  /\ got \in [1..Items -> Nat]
  /\ calls \in Nat /\ calm \in BOOLEAN /\ refused \in BOOLEAN

\* Whatever calls overlap, fail or are refused, the cursor never gets past an
\* item that no call has returned (feed.go:41-59).
NoGap == \A i \in 1..maxTime : got[i] > 0

\* The item is in a page that a call has still to return.
InHand(i) ==
  \E c \in Callers : call[c] = "cursor" /\ page[c].from < i /\ i <= page[c].next

\* The feed ends only when the server has nothing left that was not returned,
\* the calls that write HasMore out of order included; or the server refused
\* (feed.go:34, 58).
EndIsTheEnd ==
  ~hasMore => refused \/ \A i \in 1..Items : got[i] > 0 \/ InHand(i)

\* Calls that do not overlap return each item once, failed ones in between
\* notwithstanding, and the cursor is the last one returned.
EachOnce ==
  calm => \A i \in 1..Items : got[i] = IF i <= maxTime THEN 1 ELSE 0

\* When a feed that was never used by two calls at once has ended, each item
\* has been returned exactly once and the cursor is at the end (feed.go:33-59).
EndedOnceEach ==
  calm /\ ~hasMore /\ (\A c \in Callers : call[c] = "idle") =>
    maxTime = Items /\ \A i \in 1..Items : got[i] = 1

\* Calls that do not overlap never take the cursor back (feed.go:58-59).
CursorForward == [][calm' => maxTime' >= maxTime]_vars

-----------------------------------------------------------------------------
(* The inductive invariant *)

\* What a call has read or got is covered: all before it has been returned.
CallPhase ==
  \A c \in Callers :
    /\ call[c] \in {"sent", "more", "cursor"} => \A i \in 1..sent[c] : got[i] > 0
    /\ call[c] \in {"more", "cursor"} =>
         /\ page[c].from <= page[c].next
         /\ \A i \in 1..page[c].from : got[i] > 0
         /\ ~page[c].more => refused \/ page[c].next = Items

\* A call that is alone works from the cursor as it is.
CalmPhase ==
  calm =>
    /\ ~refused
    /\ \A c, d \in Callers : call[c] # "idle" /\ call[d] # "idle" => c = d
    /\ \A c \in Callers :
         /\ call[c] \in {"sent", "more", "cursor"} => sent[c] = maxTime
         /\ call[c] \in {"more", "cursor"} => page[c].from = sent[c]

FeedInv == TypeOK /\ NoGap /\ CallPhase /\ EndIsTheEnd /\ CalmPhase /\ EachOnce

-----------------------------------------------------------------------------
(* What the documentation says and the code does not do *)

\* "All items will be added to the Feed.LiveStreams list."
AllCollected == \A i \in 1..Items : got[i] > 0 => i \in liveStreams
=============================================================================
