---------------------------- MODULE MessageHistory ----------------------------
(***************************************************************************)
(* How parseMsg (utils.go) tells new events from old ones.                 *)
(*                                                                         *)
(*   parseMsg       turns a message into an event, into nothing or into    *)
(*                  an error                                               *)
(*   cachedHistory  looks the message's id up in a cache that all sessions *)
(*                  of the process share, and enters it                    *)
(*                                                                         *)
(* Every tracked session parses messages, in its own goroutine.  The cache *)
(* (imcache) is a library: GetOrSet is one atomic step, an entry that has  *)
(* expired counts as absent, and on the tick of its expiry it may be       *)
(* either.  The cache has no cleaner, so entries are only ever replaced.   *)
(* The server sends every message with its common part.                    *)
(***************************************************************************)
EXTENDS Integers, Sequences

CONSTANTS
  Sessions,   \* the tracked sessions of the process
  Ids,        \* the ids of messages
  Timeout,    \* messageHistoryTimeout in ticks
  MaxTime,    \* bound: when the clock stops
  MaxEvents   \* bound: how many events are parsed

ASSUME HistoryAssumption == Timeout \in Nat \ {0} /\ MaxTime \in Nat /\ MaxEvents \in Nat

VARIABLES
  now,       \* the clock, which starts at 1
  deadline,  \* msgIDCache: when the entry of an id expires, 0 without an entry
  parsed     \* the events parsed so far

vars == <<now, deadline, parsed>>

(***************************************************************************)
(* What a message can be.  A pin becomes an event whatever it pins, with   *)
(* the id of the pin in the cache, though the event of one that cannot be  *)
(* read shows the id of the message around it.                             *)
(***************************************************************************)
Nothing == {"unknown type", "undecodable", "unimplemented", "empty gift"}
Pins    == {"pin of unknown type", "undecodable pin", "pinned chat", "other pin"}
Plain   == {"message", "gift", "banner"}
Events  == Pins \cup Plain
Kinds   == Nothing \cup {"bad banner"} \cup Events

Message == [id : Ids, kind : Kinds, flagged : BOOLEAN]
Parsed  == [session : Sessions, id : Ids, flagged : BOOLEAN, history : BOOLEAN, at : Nat]

Init == now = 1 /\ deadline = [m \in Ids |-> 0] /\ parsed = <<>>

\* Whether the cache holds an entry for the id that has not expired.
MayBePresent(id) == deadline[id] # 0 /\ now <= deadline[id]
MayBeAbsent(id)  == now >= deadline[id]

Remember(s, m, history) ==
  parsed' = Append(parsed, [session |-> s, id |-> m.id, flagged |-> m.flagged,
                            history |-> history, at |-> now])

-----------------------------------------------------------------------------
(* Deliberate faults *)

\* An id that is seen again stays for another fifteen minutes.
CachedHistoryRefreshed(id, present) ==
  /\ IF present THEN MayBePresent(id) ELSE MayBeAbsent(id)
  /\ deadline' = [deadline EXCEPT ![id] = now + Timeout]

\* Two sessions look before either of them enters the id.
CachedHistoryRaced(id, present) ==
  /\ IF present THEN MayBePresent(id) ELSE deadline[id] <= now + Timeout
  /\ deadline' = [deadline EXCEPT ![id] = IF present THEN @ ELSE now + Timeout]

-----------------------------------------------------------------------------
(* parseMsg *)

\* GetOrSet: present or not, the entry is made and its expiry set only once.
CachedHistory(id, present) ==
  /\ IF present THEN MayBePresent(id) ELSE MayBeAbsent(id)
  /\ deadline' = [deadline EXCEPT ![id] = IF present THEN @ ELSE now + Timeout]

\* A message the server flags as history is not looked up, nor entered.
ParseFlagged(s, m) ==
  /\ m.kind \in Events /\ m.flagged
  /\ Remember(s, m, TRUE)
  /\ UNCHANGED <<now, deadline>>

ParseNew(s, m) ==
  /\ m.kind \in Events /\ ~m.flagged
  /\ \E present \in BOOLEAN : CachedHistory(m.id, present) /\ Remember(s, m, present)
  /\ UNCHANGED now

\* No event, so nothing is looked up; a banner's JSON is read before that too.
ParseToNothing(m) ==
  /\ m.kind \in Nothing \cup {"bad banner"}
  /\ UNCHANGED vars

Tick ==
  /\ now < MaxTime
  /\ now' = now + 1
  /\ UNCHANGED <<deadline, parsed>>

Next ==
  \/ Tick
  \/ \E s \in Sessions, m \in Message :
       /\ Len(parsed) < MaxEvents
       /\ ParseFlagged(s, m) \/ ParseNew(s, m) \/ ParseToNothing(m)

Spec == Init /\ [][Next]_vars

-----------------------------------------------------------------------------
(* Properties *)

\* Every variable keeps its type: an entry always has an expiry.
TypeOK == now \in Nat \ {0} /\ deadline \in [Ids -> Nat] /\ parsed \in Seq(Parsed)

Fresh(i)   == ~parsed[i].history
SameId(i, j) == parsed[i].id = parsed[j].id

\* Of all sessions together, at most one reports a message as new within the
\* fifteen minutes, however often and to whom the server sends it again
\* (utils.go:306-309).
FreshOnce ==
  \A i, j \in 1..Len(parsed) :
     i < j /\ Fresh(i) /\ Fresh(j) /\ SameId(i, j)
       => parsed[i].at + Timeout <= parsed[j].at

\* An event is called history, without the server saying so, only when some
\* session reported the same message as new in the last fifteen minutes:
\* neither a repetition nor a message the server had flagged counts as a sight.
HistoryWasNew ==
  \A j \in 1..Len(parsed) :
     parsed[j].history /\ ~parsed[j].flagged =>
       \E i \in 1..(j - 1) :
          Fresh(i) /\ SameId(i, j) /\ parsed[j].at <= parsed[i].at + Timeout

\* An entry expires one timeout after the last time its message was new.
EntryIsLastNew ==
  \A m \in Ids :
     /\ \A i \in 1..Len(parsed) :
          Fresh(i) /\ parsed[i].id = m => parsed[i].at + Timeout <= deadline[m]
     /\ deadline[m] # 0 =>
          \E i \in 1..Len(parsed) :
             Fresh(i) /\ parsed[i].id = m /\ deadline[m] = parsed[i].at + Timeout
=============================================================================
