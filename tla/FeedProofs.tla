------------------------------ MODULE FeedProofs ------------------------------
(***************************************************************************)
(* Theorems about Feed, for any number of callers, items and calls and any *)
(* page size.  The invariant says of each call that what lies before the   *)
(* cursor it has read has been returned, and of a call that is alone that  *)
(* its cursor is the feed's.                                               *)
(***************************************************************************)
EXTENDS Feed, TLAPS

USE FeedAssumption

LEMMA FeedStart == Init => FeedInv
<1> SUFFICES ASSUME Init PROVE FeedInv
  OBVIOUS
<1> USE DEF Init
<1>1. NoPage \in Page
  BY DEF NoPage, Page
<1>2. TypeOK
  <2>1. call \in [Callers -> {"idle", "begun", "sent", "more", "cursor"}]
    OBVIOUS
  <2>2. sent \in [Callers -> 0..Items] /\ page \in [Callers -> Page] /\ got \in [1..Items -> Nat]
    BY <1>1
  <2>3. hasMore \in BOOLEAN /\ calm \in BOOLEAN /\ refused \in BOOLEAN
    OBVIOUS
  <2> QED
    BY <2>1, <2>2, <2>3 DEF TypeOK
<1>3. NoGap /\ CallPhase /\ EndIsTheEnd
  BY DEF NoGap, CallPhase, EndIsTheEnd
<1>4. CalmPhase /\ EachOnce
  BY DEF CalmPhase, EachOnce
<1> QED
  BY <1>2, <1>3, <1>4 DEF FeedInv

\* A call that leaves the feed alone and only goes on.
LEMMA BeginStep == ASSUME FeedInv, NEW c \in Callers, Begin(c) PROVE FeedInv'
<1> USE DEF FeedInv, Begin, feedVars
<1>1. TypeOK'
  BY DEF TypeOK
<1>2. NoGap' /\ CallPhase'
  BY DEF TypeOK, NoGap, CallPhase
<1>3. EndIsTheEnd'
  BY DEF TypeOK, EndIsTheEnd, InHand
<1>4. CalmPhase' /\ EachOnce'
  BY DEF TypeOK, CalmPhase, EachOnce
<1> QED
  BY <1>1, <1>2, <1>3, <1>4

\* The cursor that is read has everything before it returned.
LEMMA ReadCursorStep == ASSUME FeedInv, NEW c \in Callers, ReadCursor(c) PROVE FeedInv'
<1> USE DEF FeedInv, ReadCursor, feedVars, history
<1>1. TypeOK'
  BY DEF TypeOK
<1>2. NoGap' /\ CallPhase'
  BY DEF TypeOK, NoGap, CallPhase
<1>3. EndIsTheEnd'
  BY DEF TypeOK, EndIsTheEnd, InHand
<1>4. CalmPhase' /\ EachOnce'
  BY DEF TypeOK, CalmPhase, EachOnce
<1> QED
  BY <1>1, <1>2, <1>3, <1>4

LEMMA FailStep == ASSUME FeedInv, NEW c \in Callers, Fail(c) PROVE FeedInv'
<1> USE DEF FeedInv, Fail, feedVars, history
<1>1. TypeOK'
  BY DEF TypeOK
<1>2. NoGap' /\ CallPhase'
  BY DEF TypeOK, NoGap, CallPhase
<1>3. EndIsTheEnd'
  BY DEF TypeOK, EndIsTheEnd, InHand
<1>4. CalmPhase' /\ EachOnce'
  BY DEF TypeOK, CalmPhase, EachOnce
<1> QED
  BY <1>1, <1>2, <1>3, <1>4

\* An answer fits the cursor that was sent, or is a refusal and ends the calm.
LEMMA AnswerStep ==
  ASSUME FeedInv, NEW c \in Callers, Answer(c) \/ Refuse(c)
  PROVE  FeedInv'
<1>1. PICK p \in Page :
        /\ Answered(c, p)
        /\ \/ p.from = sent[c] /\ p.from <= p.next /\ p.more = (p.next < Items)
              /\ UNCHANGED <<calm, refused>>
           \/ p.from = 0 /\ p.next = 0 /\ calm' = FALSE /\ refused' = (refused \/ ~p.more)
  BY DEF Answer, Refuse, PagesAt, Refusals, FeedInv, TypeOK
<1> USE <1>1 DEF FeedInv, Answered, feedVars
<1>2. TypeOK'
  BY DEF TypeOK
<1>3. NoGap'
  BY DEF NoGap
<1>4. CallPhase'
  <2> SUFFICES ASSUME NEW d \in Callers PROVE CallPhase!(d)'
    BY DEF CallPhase
  <2>1. CASE d = c
    <3>1. call'[d] = "more" /\ page'[d] = p /\ UNCHANGED <<sent, got>>
      BY <2>1 DEF TypeOK
    <3>2. \A i \in 1..sent[d] : got[i] > 0
      BY <2>1 DEF CallPhase
    <3>3. p.from <= p.next /\ \A i \in 1..p.from : got[i] > 0
      BY <2>1, <3>2 DEF Page
    <3>4. ASSUME ~p.more, p.next # Items PROVE refused'
      <4>1. p.next < Items
        BY <3>4 DEF Page
      <4>2. p.more # (p.next < Items)
        BY <3>4, <4>1
      <4>3. refused' = (refused \/ ~p.more)
        BY <4>2, Zenon
      <4> QED
        BY <3>4, <4>3, Zenon
    <3> QED
      BY <3>1, <3>2, <3>3, <3>4
  <2>2. CASE d # c
    BY <2>2 DEF TypeOK, CallPhase, Page
  <2> QED
    BY <2>1, <2>2
<1>5. EndIsTheEnd'
  BY DEF TypeOK, EndIsTheEnd, InHand
<1>6. CalmPhase' /\ EachOnce'
  BY DEF TypeOK, CalmPhase, EachOnce
<1> QED
  BY <1>2, <1>3, <1>4, <1>5, <1>6

\* HasMore is cleared only by a page that ends with the last item.
LEMMA SetMoreStep == ASSUME FeedInv, NEW c \in Callers, SetMore(c) PROVE FeedInv'
<1> USE DEF FeedInv, SetMore, history
<1>1. TypeOK'
  BY DEF TypeOK, Page
<1>2. NoGap' /\ CallPhase'
  BY DEF TypeOK, NoGap, CallPhase
<1>3. EndIsTheEnd'
  <2> SUFFICES ASSUME ~page[c].more, ~refused, NEW i \in 1..Items, got[i] = 0
               PROVE  InHand(i)'
    BY DEF EndIsTheEnd, TypeOK
  <2>1. page[c].next = Items /\ ~(i \in 1..page[c].from) /\ page[c].from \in 0..Items
    BY DEF CallPhase, TypeOK, Page
  <2>2. page[c].from < i /\ i <= page[c].next /\ call'[c] = "cursor"
    BY <2>1 DEF TypeOK
  <2> QED
    BY <2>2 DEF InHand
<1>4. CalmPhase' /\ EachOnce'
  BY DEF TypeOK, CalmPhase, EachOnce
<1> QED
  BY <1>1, <1>2, <1>3, <1>4

\* The items of the page are returned as the cursor moves behind them.
LEMMA SetCursorStep == ASSUME FeedInv, NEW c \in Callers, SetCursor(c) PROVE FeedInv'
<1> USE DEF FeedInv, SetCursor, history
<1>1. /\ page[c].from \in 0..Items /\ page[c].next \in 0..Items /\ page[c].from <= page[c].next
      /\ \A i \in 1..page[c].from : got[i] > 0
  BY DEF CallPhase, TypeOK, Page
<1>2. TypeOK'
  BY <1>1 DEF TypeOK
<1>3. \A i \in 1..Items : got[i] > 0 => got'[i] > 0
  BY DEF TypeOK
<1>4. \A i \in 1..page[c].next : got'[i] > 0
  BY <1>1, <1>3 DEF TypeOK
<1>5. NoGap'
  BY <1>4 DEF NoGap
<1>6. CallPhase'
  BY <1>3 DEF TypeOK, CallPhase, Page
<1>7. EndIsTheEnd'
  <2> SUFFICES ASSUME ~hasMore, ~refused, NEW i \in 1..Items, ~(got'[i] > 0)
               PROVE  InHand(i)'
    BY DEF EndIsTheEnd
  <2>1. PICK d \in Callers : call[d] = "cursor" /\ page[d].from < i /\ i <= page[d].next
    BY <1>3 DEF EndIsTheEnd, InHand
  <2>2. d # c
    BY <2>1, <1>4, <1>1
  <2> QED
    BY <2>1, <2>2 DEF InHand, TypeOK
<1>8. CalmPhase' /\ EachOnce'
  <2> SUFFICES ASSUME calm PROVE CalmPhase' /\ EachOnce'
    BY DEF CalmPhase, EachOnce
  <2>1. page[c].from = maxTime /\ \A d \in Callers : d # c => call[d] = "idle"
    BY DEF CalmPhase, TypeOK
  <2>2. CalmPhase'
    BY <2>1 DEF CalmPhase, TypeOK
  <2>3. EachOnce'
    BY <2>1, <1>1 DEF EachOnce, TypeOK
  <2> QED
    BY <2>2, <2>3
<1> QED
  BY <1>2, <1>5, <1>6, <1>7, <1>8

LEMMA FeedStep == FeedInv /\ [Next]_vars => FeedInv'
<1> SUFFICES ASSUME FeedInv, [Next]_vars PROVE FeedInv'
  OBVIOUS
<1>1. CASE UNCHANGED vars
  BY <1>1 DEF vars, FeedInv, TypeOK, NoGap, CallPhase, EndIsTheEnd, InHand, CalmPhase, EachOnce
<1>2. ASSUME NEW c \in Callers, NextCall(c) PROVE FeedInv'
  BY <1>2, BeginStep, ReadCursorStep, FailStep, AnswerStep, SetMoreStep, SetCursorStep
     DEF NextCall
<1> QED
  BY <1>1, <1>2 DEF Next

-----------------------------------------------------------------------------
(* Theorems *)

LEMMA FeedInvariant == Spec => []FeedInv
  BY FeedStart, FeedStep, PTL DEF Spec

\* The cursor stays within the server's list, and the calls within Next.
THEOREM FeedTypeCorrect == Spec => []TypeOK
<1>1. FeedInv => TypeOK
  BY DEF FeedInv
<1> QED
  BY <1>1, FeedInvariant, PTL

\* The cursor never passes an item that was not returned.
THEOREM NothingSkipped == Spec => []NoGap
<1>1. FeedInv => NoGap
  BY DEF FeedInv
<1> QED
  BY <1>1, FeedInvariant, PTL

\* The feed ends when everything has been returned, or the server refused.
THEOREM EndsComplete == Spec => []EndIsTheEnd
<1>1. FeedInv => EndIsTheEnd
  BY DEF FeedInv
<1> QED
  BY <1>1, FeedInvariant, PTL

\* Calls that do not overlap return each item once.
THEOREM OnceInTurn == Spec => []EachOnce
<1>1. FeedInv => EachOnce
  BY DEF FeedInv
<1> QED
  BY <1>1, FeedInvariant, PTL

\* A feed that one call at a time has used to its end has returned each item
\* once, and its cursor is behind the last.
THEOREM OnceInAll == Spec => []EndedOnceEach
<1>1. FeedInv => EndedOnceEach
  <2> SUFFICES ASSUME FeedInv, calm, ~hasMore, \A c \in Callers : call[c] = "idle"
               PROVE  maxTime = Items /\ \A i \in 1..Items : got[i] = 1
    BY DEF EndedOnceEach
  <2>1. maxTime \in 0..Items /\ ~refused
    BY DEF FeedInv, TypeOK, CalmPhase
  <2>2. \A i \in 1..Items : got[i] > 0
    BY <2>1 DEF FeedInv, EndIsTheEnd, InHand
  <2>3. \A i \in 1..Items : got[i] = IF i <= maxTime THEN 1 ELSE 0
    BY DEF FeedInv, EachOnce
  <2>4. \A i \in 1..Items : i <= maxTime
    BY <2>2, <2>3
  <2>5. maxTime = Items
    BY <2>1, <2>4
  <2> QED
    BY <2>3, <2>4, <2>5
<1> QED
  BY <1>1, FeedInvariant, PTL

\* Alone, a call moves the cursor forward only.
THEOREM CursorMovesForward == Spec => CursorForward
<1> DEFINE Forward == calm' => maxTime' >= maxTime
<1>1. FeedInv /\ [Next]_vars => [Forward]_vars
  <2> SUFFICES ASSUME FeedInv, [Next]_vars, calm' PROVE maxTime' >= maxTime
    OBVIOUS
  <2>1. maxTime \in 0..Items
    BY DEF FeedInv, TypeOK
  <2>2. CASE maxTime' = maxTime
    BY <2>1, <2>2
  <2>3. ASSUME NEW c \in Callers, SetCursor(c) PROVE maxTime' >= maxTime
    <3>1. call[c] = "cursor" /\ calm /\ maxTime' = page[c].next
      BY <2>3 DEF SetCursor, history
    <3>2. page[c].from = maxTime /\ page[c].from <= page[c].next
      BY <3>1 DEF FeedInv, CalmPhase, CallPhase
    <3> QED
      BY <3>1, <3>2
  <2> QED
    BY <2>2, <2>3 DEF Next, NextCall, Begin, ReadCursor, Fail, Answer, Refuse, Answered, SetMore,
                      feedVars, vars
<1> QED
  BY <1>1, FeedInvariant, PTL DEF Spec, CursorForward
=============================================================================
