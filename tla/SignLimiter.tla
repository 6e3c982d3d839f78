------------------------------ MODULE SignLimiter ------------------------------
(***************************************************************************)
(* The signing requests of one TikTok client and the limiter they pass.    *)
(*                                                                         *)
(*   NewTikTok   asks the signer for its limits, unless that is disabled,  *)
(*               and makes a limiter for so many permissions per minute    *)
(*   signURL     takes a permission, sleeping until it is due, and sends   *)
(*               its request to the signer                                 *)
(*                                                                         *)
(* The limiter (go.uber.org/ratelimit without slack) is a library: it      *)
(* issues permissions at least an interval apart, to any number of callers *)
(* at once.  Time is counted in ticks of which Minute and Hour are the     *)
(* multiples; a permission's time is when its caller may go on.            *)
(***************************************************************************)
EXTENDS Integers, Sequences, FiniteSets

CONSTANTS
  Callers,     \* the goroutines that track rooms with this client
  Minute,      \* a minute in ticks
  Hour,        \* an hour in ticks
  Advertised,  \* the answers the signer may give: [minute : Nat, hour : Nat]
  MaxTime,     \* bound: when the clock stops
  MaxTakes     \* bound: how many permissions are taken

ASSUME LimiterAssumption ==
  /\ Minute \in Nat \ {0} /\ Hour \in Nat
  /\ Advertised \subseteq [minute : Nat, hour : Nat]
  /\ MaxTime \in Nat /\ MaxTakes \in Nat
  /\ IsFiniteSet(Callers)

VARIABLES
  now,      \* the clock
  setup,    \* NewTikTok: "new", "ready", "failed" with an error, "panicked"
  limits,   \* what the signer advertises, asked or not
  asked,    \* the client has asked for it (getLimits)
  rate,     \* permissions per minute of the limiter
  issued,   \* the permissions, in the order they were taken
  caller,   \* where each caller is: "idle" or "sleeping"
  slot      \* when the permission of a sleeping caller is due

vars == <<now, setup, limits, asked, rate, issued, caller, slot>>

\* ratelimit.Per(1*time.Minute) over the rate, in whole ticks.
Interval == Minute \div rate

\* The rate used when the signer is not asked.
DefaultRate == 10

Init ==
  /\ now = 0 /\ setup = "new" /\ limits \in Advertised /\ asked \in BOOLEAN
  /\ rate = 0 /\ issued = <<>>
  /\ caller = [c \in Callers |-> "idle"] /\ slot = [c \in Callers |-> 0]

-----------------------------------------------------------------------------
(* Deliberate faults *)

\* Two callers read the last permission before either has taken the next.
DueUnshared ==
  IF Len(issued) < 2 THEN now ELSE issued[Len(issued) - 1] + Interval

\* The permission is due an interval from now, whatever is ahead.
DueTwice ==
  IF issued = <<>> THEN now ELSE issued[Len(issued)] + 2 * Interval

\* A limiter of rate zero is made.
CreateAnyway ==
  /\ setup = "new"
  /\ setup' = "ready" /\ rate' = IF asked THEN limits.minute ELSE DefaultRate
  /\ UNCHANGED <<now, limits, asked, issued, caller, slot>>

-----------------------------------------------------------------------------
(* NewTikTok *)

\* GetSignerLimits: no connection, a bad status or an answer that is not JSON.
LimitsUnknown ==
  /\ setup = "new" /\ asked
  /\ setup' = "failed"
  /\ UNCHANGED <<now, limits, asked, rate, issued, caller, slot>>

\* The limiter takes only the limit per minute; it divides by the rate, so
\* that an answer without that limit, which decodes to zero, is a panic.
CreateLimiter ==
  /\ setup = "new"
  /\ rate' = IF asked THEN limits.minute ELSE DefaultRate
  /\ setup' = IF rate' = 0 THEN "panicked" ELSE "ready"
  /\ UNCHANGED <<now, limits, asked, issued, caller, slot>>

-----------------------------------------------------------------------------
(* signURL *)

\* When the next permission is due: at once, or an interval after the last.
Due ==
  IF issued = <<>> \/ now > issued[Len(issued)] + Interval
  THEN now
  ELSE issued[Len(issued)] + Interval

Take(c) ==
  /\ setup = "ready" /\ caller[c] = "idle" /\ Len(issued) < MaxTakes
  /\ issued' = Append(issued, Due)
  /\ slot' = [slot EXCEPT ![c] = Due]
  /\ caller' = [caller EXCEPT ![c] = "sleeping"]
  /\ UNCHANGED <<now, setup, limits, asked, rate>>

\* The permission is due, and the caller sends its request; the sleep may last
\* longer than it had to.
TakeReturns(c) ==
  /\ caller[c] = "sleeping" /\ slot[c] <= now
  /\ caller' = [caller EXCEPT ![c] = "idle"]
  /\ slot' = [slot EXCEPT ![c] = 0]
  /\ UNCHANGED <<now, setup, limits, asked, rate, issued>>

Tick ==
  /\ now < MaxTime
  /\ now' = now + 1
  /\ UNCHANGED <<setup, limits, asked, rate, issued, caller, slot>>

Next ==
  \/ LimitsUnknown \/ CreateLimiter \/ Tick
  \/ \E c \in Callers : Take(c) \/ TakeReturns(c)

Spec == Init /\ [][Next]_vars

-----------------------------------------------------------------------------
(* Properties *)

\* Every variable keeps its type; a client that is ready has a limiter with a
\* rate it can divide by.
TypeOK ==
  /\ now \in Nat /\ rate \in Nat /\ limits \in Advertised /\ asked \in BOOLEAN
  /\ setup \in {"new", "ready", "failed", "panicked"}
  /\ setup = "ready" => rate > 0
  /\ setup # "ready" => issued = <<>>
  /\ issued \in Seq(Nat)
  /\ caller \in [Callers -> {"idle", "sleeping"}]
  /\ slot \in [Callers -> Nat]

\* However many goroutines take permissions at once, and however long they let
\* the limiter rest, any two permissions are as many intervals apart as there
\* are permissions from one to the other; rate of them take the minute that
\* the limit is for, up to the rounding of the interval (live.go:451).
PermitsSpaced ==
  \A i, j \in 1..Len(issued) : i < j =>
     issued[i] + (j - i) * Interval <= issued[j]

\* A caller sleeps no longer than it takes to serve those ahead of it: neither
\* idle time nor callers that come later push its permission back.
Ahead(c) == {d \in Callers : caller[d] = "sleeping" /\ slot[d] < slot[c]}

WaitsItsTurn ==
  \A c \in Callers : caller[c] = "sleeping" =>
     slot[c] <= now + (Cardinality(Ahead(c)) + 1) * Interval

\* How many permissions were due in the time from start.
Within(start, length) ==
  Cardinality({i \in 1..Len(issued) : start <= issued[i] /\ issued[i] < start + length})

\* In no stretch of time, wherever it begins, are there more permissions than
\* it has intervals: no burst, also after a rest and from many goroutines, goes
\* over the limit per minute (live.go:451, tiktok.go:122).
WindowKept == \A start, n \in Nat : Within(start, n * Interval) <= n

-----------------------------------------------------------------------------
(* The inductive invariant *)

\* A permission that is due later than now has a caller who sleeps for it.
LastHeld ==
  issued # <<>> =>
    \/ issued[Len(issued)] <= now
    \/ /\ Interval > 0
       /\ \E c \in Callers : caller[c] = "sleeping" /\ slot[c] = issued[Len(issued)]

\* Who sleeps longer than an interval is an interval behind another sleeper.
SleepersChained ==
  \A c \in Callers : caller[c] = "sleeping" =>
    /\ issued # <<>>
    /\ slot[c] <= now \/ Interval > 0
    /\ \/ slot[c] <= now + Interval
       \/ \E d \in Callers : caller[d] = "sleeping" /\ slot[d] = slot[c] - Interval

\* What every step preserves.
LimiterInv == TypeOK /\ PermitsSpaced /\ LastHeld /\ SleepersChained

-----------------------------------------------------------------------------
(* What the documentation says and the code does not do *)

\* "a safety guard to never go over the signer's advertised capabilities": in
\* no hour are there more permissions than the signer allows for one.
HourKept == asked => \A t \in 0..now : Within(t, Hour) <= limits.hour

\* It is so of a signer whose limit per hour is not below what its limit per
\* minute lets through in an hour.
HourKeptIfSlow ==
  setup = "ready" /\ Hour <= limits.hour * Interval => HourKept

\* "limited to signing only 5 signing requests per minute": when the signer is
\* not asked, no sixth permission is issued within a minute of the first.
FivePerMinute ==
  ~asked => \A i \in 1..Len(issued) :
     i + 5 <= Len(issued) => issued[i] + Minute <= issued[i + 5]
=============================================================================
