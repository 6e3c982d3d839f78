----------------------------- MODULE TikTokClient -----------------------------
(***************************************************************************)
(* Several rooms tracked with one TikTok client: TrackUser and TrackRoom,  *)
(* the requests they make, and what the sessions share.                    *)
(*                                                                         *)
(*   streams  the client's count of sessions, written under the lock mu,   *)
(*            and sent to the signer (uuc) as signURL reads it, unlocked   *)
(*   Jar      the cookie jar of the client: the cookie of a signed answer  *)
(*            goes in, and the websocket is dialled with what is in it     *)
(*                                                                         *)
(* A session stands for one call of TrackUser or TrackRoom and the Live it *)
(* returns; LiveSession is its inside from there on.  Of an answer the     *)
(* status, and what the decoding finds, are kept.  The limiter is a wait   *)
(* of unknown length (SignLimiter is its inside).                          *)
(***************************************************************************)
EXTENDS Integers, FiniteSets

CONSTANT Sessions   \* the calls that are ever made

ASSUME ClientAssumption == IsFiniteSet(Sessions)

VARIABLES
  at,       \* where each session is
  err,      \* the error each failed call returned
  status,   \* the status of the last answer each session got
  mu,       \* the holders of TikTok.mu
  seen,     \* the value of streams that a holder of mu has loaded
  streams,  \* TikTok.streams
  uuc,      \* the count each session sends to the signer
  jar,      \* the cookie in the jar: the n-th one put there
  own,      \* the cookie of each session's signed answer
  dialled,  \* the cookie each session's websocket is dialled with
  crashed   \* a nil pointer has ended the process

vars == <<at, err, status, mu, seen, streams, uuc, jar, own, dialled, crashed>>
countVars  == <<mu, seen, streams>>
cookieVars == <<jar, own, dialled>>

Statuses == {200, 302, 403, 404, 429, 500}

(***************************************************************************)
(* What sendRequest makes of a status.  The validator of the caller sees   *)
(* only what is below 400; redirects are not followed.                     *)
(***************************************************************************)
SendRequest(code, validated) ==
  CASE code = 429 -> "ErrRateLimitExceeded"
    [] code = 403 -> "ErrIPBlockedOrBanned"
    [] code >= 400 /\ code \notin {403, 429} -> "status"
    [] code < 400 /\ code # 200 /\ validated -> "UserNotFound"
    [] OTHER -> "ok"

Errors == {"ok", "transport", "decode", "status", "UserNotFound", "ErrRateLimitExceeded",
           "ErrIPBlockedOrBanned", "ErrUserNotFound", "ErrUserOffline", "ErrLiveHasEnded",
           "cookie", "upgrade"}

Init ==
  /\ at = [s \in Sessions |-> "idle"]
  /\ err = [s \in Sessions |-> "ok"] /\ status = [s \in Sessions |-> 200]
  /\ mu = {} /\ seen = [s \in Sessions |-> 0] /\ streams = 0
  /\ uuc = [s \in Sessions |-> 0]
  /\ jar = 0 /\ own = [s \in Sessions |-> 0] /\ dialled = [s \in Sessions |-> 0]
  /\ crashed = FALSE

To(s, pc) == ~crashed /\ at' = [at EXCEPT ![s] = pc]

\* The call returns an error; before newLive the session was not counted.
Fail(s, e) ==
  /\ To(s, IF at[s] = "user" THEN "refused" ELSE "failed")
  /\ err' = [err EXCEPT ![s] = e]
  /\ UNCHANGED <<countVars, uuc, cookieVars, crashed>>

-----------------------------------------------------------------------------
(* Deliberate faults *)

\* The count is changed without the lock, or the lock is kept.
LockUnguarded(s) ==
  /\ at[s] \in {"new", "closing"}
  /\ To(s, IF at[s] = "new" THEN "count" ELSE "uncount")
  /\ mu' = mu \cup {s}
  /\ seen' = [seen EXCEPT ![s] = streams]
  /\ UNCHANGED <<err, status, streams, uuc, cookieVars, crashed>>

CountUpKeepsLock(s) ==
  /\ at[s] = "count"
  /\ To(s, "info")
  /\ streams' = seen[s] + 1
  /\ UNCHANGED <<mu, err, status, seen, uuc, cookieVars, crashed>>

\* newLive does not count the session.
CountUpForNothing(s) ==
  /\ at[s] = "count"
  /\ To(s, "info")
  /\ streams' = seen[s] /\ mu' = mu \ {s}
  /\ UNCHANGED <<err, status, seen, uuc, cookieVars, crashed>>

\* The cookies for the dial are taken before the answer's are put in.
StoreCookieLate(s) ==
  /\ at[s] = "fetched"
  /\ \/ Fail(s, "cookie")
     \/ /\ To(s, "dial")
        /\ dialled' = [dialled EXCEPT ![s] = jar]
        /\ jar' = jar + 1 /\ own' = [own EXCEPT ![s] = jar + 1]
        /\ UNCHANGED <<err, countVars, uuc, crashed>>
  /\ UNCHANGED status

-----------------------------------------------------------------------------
(* The room of a user: GetLiveRoomUserInfo, GetUserInfo, getRoomID *)

\* A request is answered with a status, or fails on its way.
Answered(s, code) == status' = [status EXCEPT ![s] = code]
Lost(s) == Fail(s, "transport") /\ UNCHANGED status

TrackUser(s) ==
  /\ at[s] = "idle"
  /\ To(s, "user")
  /\ UNCHANGED <<err, status, countVars, uuc, cookieVars, crashed>>

TrackRoom(s) ==
  /\ at[s] = "idle"
  /\ To(s, "new")
  /\ UNCHANGED <<err, status, countVars, uuc, cookieVars, crashed>>

\* A decoded answer lacks the object the code goes on with.
Crash ==
  /\ ~crashed /\ crashed' = TRUE
  /\ UNCHANGED <<at, err, countVars, uuc, cookieVars>>

\* No JSON in the page, JSON that does not decode, no room in it, a room
\* without a user, a user without a room ID, or a room ID.
LookUpUser(s) ==
  /\ at[s] = "user"
  /\ \/ Lost(s)
     \/ \E code \in Statuses :
          /\ Answered(s, code)
          /\ LET e == SendRequest(code, TRUE) IN
             \/ e # "ok" /\ Fail(s, e)
             \/ /\ e = "ok"
                /\ \/ \E f \in {"ErrIPBlockedOrBanned", "decode", "ErrUserNotFound",
                                "ErrUserOffline"} : Fail(s, f)
                   \/ Crash
                   \/ To(s, "new") /\ UNCHANGED <<err, countVars, uuc, cookieVars, crashed>>

-----------------------------------------------------------------------------
(* newLive and Close: the count *)

Lock(s) ==
  /\ at[s] \in {"new", "closing"} /\ mu = {}
  /\ To(s, IF at[s] = "new" THEN "count" ELSE "uncount")
  /\ mu' = mu \cup {s}
  /\ seen' = [seen EXCEPT ![s] = streams]
  /\ UNCHANGED <<err, status, streams, uuc, cookieVars, crashed>>

CountUp(s) ==
  /\ at[s] = "count"
  /\ To(s, "info")
  /\ streams' = seen[s] + 1 /\ mu' = mu \ {s}
  /\ UNCHANGED <<err, status, seen, uuc, cookieVars, crashed>>

CountDown(s) ==
  /\ at[s] = "uncount"
  /\ To(s, "closed")
  /\ streams' = seen[s] - 1 /\ mu' = mu \ {s}
  /\ UNCHANGED <<err, status, seen, uuc, cookieVars, crashed>>

-----------------------------------------------------------------------------
(* fetchRoom: getRoomInfo and getRoomData *)

\* The answer's room is missing (a crash), has ended, or is on.
FetchRoomInfo(s) ==
  /\ at[s] = "info"
  /\ \/ Lost(s)
     \/ \E code \in Statuses :
          /\ Answered(s, code)
          /\ LET e == SendRequest(code, FALSE) IN
             \/ e # "ok" /\ Fail(s, e)
             \/ /\ e = "ok"
                /\ \/ Fail(s, "decode") \/ Fail(s, "ErrLiveHasEnded")
                   \/ Crash
                   \/ To(s, "sign") /\ UNCHANGED <<err, countVars, uuc, cookieVars, crashed>>

\* signURL builds its query before it waits for the limiter.
ReadCount(s) ==
  /\ at[s] = "sign"
  /\ To(s, "take")
  /\ uuc' = [uuc EXCEPT ![s] = streams]
  /\ UNCHANGED <<err, status, countVars, cookieVars, crashed>>

TakeAndSend(s) ==
  /\ at[s] = "take"
  /\ \/ Lost(s)
     \/ \E code \in Statuses :
          /\ Answered(s, code)
          /\ LET e == SendRequest(code, FALSE) IN
             \/ e # "ok" /\ Fail(s, e)
             \/ e = "ok" /\ To(s, "fetched")
                /\ UNCHANGED <<err, countVars, uuc, cookieVars, crashed>>

\* The answer's cookie goes into the jar; an answer without one is an error.
StoreCookie(s) ==
  /\ at[s] = "fetched"
  /\ \/ Fail(s, "cookie")
     \/ /\ To(s, "decode")
        /\ jar' = jar + 1 /\ own' = [own EXCEPT ![s] = jar + 1]
        /\ UNCHANGED <<dialled, err, countVars, uuc, crashed>>
  /\ UNCHANGED status

\* The answer does not decode, a message of it is bad, or there is no push
\* server; or the dial is prepared, with the cookies that are in the jar now.
PrepareDial(s) ==
  /\ at[s] = "decode"
  /\ \/ Fail(s, "decode") \/ Fail(s, "upgrade")
     \/ /\ To(s, "dial")
        /\ dialled' = [dialled EXCEPT ![s] = jar]
        /\ UNCHANGED <<jar, own, err, countVars, uuc, crashed>>
  /\ UNCHANGED status

Dial(s) ==
  /\ at[s] = "dial"
  /\ \/ Fail(s, "upgrade")
     \/ To(s, "live") /\ UNCHANGED <<err, countVars, uuc, cookieVars, crashed>>
  /\ UNCHANGED status

\* Close has cancelled, closed the socket and waited for the goroutines.
CloseWaited(s) ==
  /\ at[s] = "live"
  /\ To(s, "closing")
  /\ UNCHANGED <<err, status, countVars, uuc, cookieVars, crashed>>

-----------------------------------------------------------------------------
Count(s) == Lock(s) \/ CountUp(s) \/ CountDown(s)

Session(s) ==
  \/ TrackUser(s) \/ TrackRoom(s) \/ LookUpUser(s) \/ Count(s) \/ FetchRoomInfo(s)
  \/ ReadCount(s) \/ TakeAndSend(s) \/ StoreCookie(s) \/ PrepareDial(s) \/ Dial(s)
  \/ CloseWaited(s)

Next == \E s \in Sessions : Session(s)

Spec == Init /\ [][Next]_vars

\* A goroutine that can have the lock takes it, and one that has it goes on.
FairSpec == Spec /\ \A s \in Sessions : WF_vars(Count(s))

-----------------------------------------------------------------------------
(* Properties *)

\* Every variable keeps its type, and one goroutine at a time has the lock.
TypeOK ==
  /\ at \in [Sessions -> {"idle", "user", "refused", "new", "count", "info", "sign", "take",
                          "fetched", "decode", "dial", "live", "closing", "uncount", "closed",
                          "failed"}]
  /\ err \in [Sessions -> Errors] /\ status \in [Sessions -> Statuses]
  /\ mu = {s \in Sessions : at[s] \in {"count", "uncount"}}
  /\ \A s, t \in mu : s = t
  /\ seen \in [Sessions -> Int] /\ streams \in Int /\ uuc \in [Sessions -> Int]
  /\ jar \in Nat /\ own \in [Sessions -> 0..jar] /\ dialled \in [Sessions -> 0..jar]
  /\ crashed \in BOOLEAN

\* The sessions that newLive has counted and Close has not: those that failed
\* behind newLive stay in.
Counted(s) == at[s] \notin {"idle", "user", "refused", "new", "count", "closed"}

\* No update of the count is lost, whatever sessions begin, fail and close at
\* the same time; a failed TrackRoom leaves its session counted (live.go:62-82).
StreamsExact == streams = Cardinality({s \in Sessions : Counted(s)})

\* Who holds TikTok.mu does its load and its store as if in one step: the count
\* that newLive and Close change is the counter of StreamCount (live.go:62-82).
StreamsCounter == INSTANCE StreamCount WITH
  count <- streams,
  inside <- {s \in Sessions : Counted(s)},
  over <- {s \in Sessions : at[s] = "closed"}

ImplementsStreamCount == StreamsCounter!Spec

\* When no session is between newLive and the end of its Close, the count tells
\* how many calls of TrackRoom have failed behind newLive: a failed session has
\* no Close that would give the count back (live.go:62-82, 145-163).
AtRest == \A s \in Sessions : at[s] \in {"idle", "user", "refused", "new", "closed", "failed"}

RestCountsFailures ==
  AtRest => streams = Cardinality({s \in Sessions : at[s] = "failed"})

\* The signer is told a count that has the asker in it and no session that was
\* never begun, though it is read without the lock and before the wait for the
\* limiter (live.go:441, 451).
AskerIsCounted ==
  \A s \in Sessions :
    at[s] \in {"take", "fetched", "decode", "dial", "live"} =>
      uuc[s] \in 1..Cardinality({t \in Sessions : at[t] \notin {"idle", "user", "refused"}})

\* The websocket is dialled with the session's own cookie or with a newer one
\* of a session that has overtaken it (live.go:258, wss.go:29).
DialNotStale ==
  \A s \in Sessions : dialled[s] # 0 =>
    \E t \in Sessions : dialled[s] = own[t] /\ own[t] >= own[s] /\ own[s] > 0

\* The caller can tell from the error what the server said: after an answer of
\* 400 and above the session makes no other request and ends with the error of
\* that status, and of an earlier answer no error is left over; only a 429 is
\* reported as the rate limit, and only the look-up of a user, redirected, as
\* UserNotFound (requests.go:144-159).
ErrorTells(s) ==
  /\ err[s] = "ok" <=> at[s] \notin {"refused", "failed"}
  /\ err[s] = "ErrRateLimitExceeded" <=> status[s] = 429
  /\ status[s] = 403 => err[s] = "ErrIPBlockedOrBanned"
  /\ err[s] = "status" <=> status[s] \in {404, 500}
  /\ err[s] = "UserNotFound" => status[s] = 302 /\ at[s] = "refused"

ErrorsTellStatus == \A s \in Sessions : ErrorTells(s)

\* Close gives the count back and returns, however many wait for the lock.
CloseCounts == \A s \in Sessions : at[s] = "closing" ~> (at[s] = "closed" \/ crashed)

-----------------------------------------------------------------------------
(* The inductive invariant *)

\* What the holder of the lock has loaded is the count still.
SeenFresh == \A s \in mu : seen[s] = streams

\* The jar holds the newest cookie, and a session has one from StoreCookie on.
CookiePhase ==
  /\ jar # 0 => \E t \in Sessions : own[t] = jar
  /\ \A s \in Sessions :
       /\ at[s] \in {"idle", "user", "refused", "new", "count", "info", "sign", "take", "fetched"}
            => own[s] = 0 /\ dialled[s] = 0
       /\ at[s] = "decode" => own[s] # 0

ClientInv ==
  TypeOK /\ SeenFresh /\ StreamsExact /\ AskerIsCounted /\ CookiePhase /\ DialNotStale

-----------------------------------------------------------------------------
(* What the documentation says and the code does not do *)

\* "if user is not found that means there was never a live by that user": the
\* error is returned on the server's word that there is no such page.
NotFoundIsNotFound == \A s \in Sessions : err[s] = "UserNotFound" => status[s] = 404
=============================================================================
