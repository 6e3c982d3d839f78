------------------------------ MODULE Recording ------------------------------
(***************************************************************************)
(* What a call of Live.DownloadStream promises the one who makes it,       *)
(* without the goroutines, the lock and the wait group behind it: one      *)
(* recording, that the end of the session brings to an orderly end.        *)
(***************************************************************************)

VARIABLES
  call,   \* the call of DownloadStream: "idle", "refused", "on", "returned"
  file,   \* the recording: "none", "on", "ended" with its ffmpeg, "settled"
  asked,  \* ffmpeg has been asked to write the end of the file
  cut,    \* what is left of ffmpeg has been killed
  over    \* the session has been cancelled

vars == <<call, file, asked, cut, over>>

Init ==
  /\ call = "idle" /\ file = "none"
  /\ asked = FALSE /\ cut = FALSE /\ over = FALSE

SessionEnds ==
  /\ ~over
  /\ over' = TRUE
  /\ UNCHANGED <<call, file, asked, cut>>

\* An error leaves no recording behind.
Refuse ==
  /\ call = "idle"
  /\ call' = "refused"
  /\ UNCHANGED <<file, asked, cut, over>>

Start ==
  /\ call = "idle"
  /\ call' = "on" /\ file' = "on"
  /\ UNCHANGED <<asked, cut, over>>

\* The end of the session ends the recording, nothing else in the library does:
\* first with a request, made once and never of a recording that has been
\* settled.  One that has ended may still be asked, when its ffmpeg has been
\* reaped also, and does not hear it.
AskToQuit ==
  /\ over /\ ~asked /\ ~cut /\ file \in {"on", "ended"}
  /\ asked' = TRUE
  /\ UNCHANGED <<call, file, cut, over>>

\* The kill comes once, after the request, or when there is nothing to kill.
Cut ==
  /\ over /\ ~cut
  /\ asked \/ file \in {"ended", "settled"}
  /\ cut' = TRUE
  /\ UNCHANGED <<call, file, asked, over>>

\* The process ends, for reasons of its own or because it has to.
End ==
  /\ file = "on"
  /\ file' = "ended"
  /\ UNCHANGED <<call, asked, cut, over>>

\* Its ffmpeg has been reaped, what it wrote has been read, and the library has
\* taken note of it.
Settle ==
  /\ file = "ended"
  /\ file' = "settled"
  /\ UNCHANGED <<call, asked, cut, over>>

\* The caller gets the recording when it is settled and the session is over.
Return ==
  /\ call = "on" /\ file = "settled" /\ over
  /\ call' = "returned"
  /\ UNCHANGED <<file, asked, cut, over>>

Next ==
  \/ SessionEnds \/ Refuse \/ Start \/ Return
  \/ AskToQuit \/ Cut \/ End \/ Settle

Spec == Init /\ [][Next]_vars
=============================================================================
