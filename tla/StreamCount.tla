----------------------------- MODULE StreamCount -----------------------------
(***************************************************************************)
(* What the count of a client's streams promises, without TikTok.mu and    *)
(* the loads and stores it guards: the count moves by one, in one step,    *)
(* when a session begins and again when its Close has been through, and no *)
(* session begins or ends twice.  One that fails behind newLive stays in.  *)
(***************************************************************************)
EXTENDS Integers

CONSTANT Sessions   \* the sessions the client may track

VARIABLES
  count,   \* TikTok.streams
  inside,  \* the sessions that newLive has counted and Close has not
  over     \* the sessions that have been closed

vars == <<count, inside, over>>

Init == count = 0 /\ inside = {} /\ over = {}

\* newLive counts the session.
Enter(s) ==
  /\ s \notin inside \cup over
  /\ inside' = inside \cup {s} /\ count' = count + 1
  /\ UNCHANGED over

\* The body of the Once in Close gives the count back.
Leave(s) ==
  /\ s \in inside
  /\ inside' = inside \ {s} /\ over' = over \cup {s} /\ count' = count - 1

Next == \E s \in Sessions : Enter(s) \/ Leave(s)

Spec == Init /\ [][Next]_vars
=============================================================================
