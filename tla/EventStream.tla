----------------------------- MODULE EventStream -----------------------------
(***************************************************************************)
(* What Live.Events promises to the library user, without the goroutines,  *)
(* frames and contexts that produce it: a bounded channel that delivers    *)
(* events in the server's order, drops one old event for a new one when    *)
(* the user is too slow, may announce the end with one final event, and is *)
(* then closed once and for all.                                           *)
(***************************************************************************)
EXTENDS Integers, Sequences

CONSTANT Capacity   \* the size of the channel's buffer

VARIABLES
  queue,   \* the buffered events
  phase,   \* "open"; "due" or "full" when an event is at hand and there is
           \* room for it or not; "final" once the end is announced; "closed"
  top,     \* place of the newest message the stream has dealt with
  taken    \* place of the last event the user received

vars == <<queue, phase, top, taken>>

Kinds == {"plain", "ended"}

Init == queue = <<>> /\ phase = "open" /\ top = 0 /\ taken = 0

\* The next message will become an event.  Whether one that is queued has to
\* give way to it is decided here, once and for all.
Arrive ==
  /\ phase = "open"
  /\ phase' = IF Len(queue) = Capacity THEN "full" ELSE "due"
  /\ UNCHANGED <<queue, top, taken>>

\* It goes to the back of the queue.
Publish ==
  /\ phase \in {"open", "due"} /\ Len(queue) < Capacity
  /\ phase' = "open"
  /\ top' = top + 1
  /\ \E k \in Kinds : queue' = Append(queue, [place |-> top', kind |-> k])
  /\ UNCHANGED taken

\* Messages that become no event.
Skip ==
  /\ phase = "open"
  /\ top' \in Nat /\ top' > top
  /\ UNCHANGED <<queue, phase, taken>>

\* The oldest event gives way: one for one that arrived when the queue was
\* full, and never without.  What the user has taken since then does not count:
\* an event may be dropped that needed not be, and when he has taken them all
\* there is none to drop and nothing follows.
Drop ==
  /\ phase = "full" /\ queue # <<>>
  /\ phase' = "due"
  /\ queue' = Tail(queue)
  /\ UNCHANGED <<top, taken>>

\* The user receives; a closed channel still delivers what is buffered.
Take ==
  /\ queue # <<>>
  /\ taken' = Head(queue).place
  /\ queue' = Tail(queue)
  /\ UNCHANGED <<phase, top>>

\* The end is announced, unless the queue has no room for the announcement.
Announce ==
  /\ phase = "open"
  /\ phase' = "final"
  /\ \/ /\ Len(queue) < Capacity
        /\ top' = top + 1
        /\ queue' = Append(queue, [place |-> top', kind |-> "disconnect"])
     \/ /\ Len(queue) = Capacity
        /\ UNCHANGED <<queue, top>>
  /\ UNCHANGED taken

\* The stream closes; messages not dealt with by now never are.
Shut ==
  /\ phase \in {"open", "final"}
  /\ phase' = "closed"
  /\ top' \in Nat /\ top' >= top
  /\ UNCHANGED <<queue, taken>>

Next == Arrive \/ Publish \/ Skip \/ Drop \/ Take \/ Announce \/ Shut

Spec == Init /\ [][Next]_vars
=============================================================================
