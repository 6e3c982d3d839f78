-------------------------- MODULE TikTokClientProofs --------------------------
(***************************************************************************)
(* Theorems about TikTokClient, for any finite set of sessions.  Every     *)
(* step but those under the lock moves one session without entering or     *)
(* leaving the count (MoveOrCount); the count and the cookies are treated  *)
(* apart from there on.                                                    *)
(***************************************************************************)
EXTENDS TikTokClient, FiniteSetTheorems, TLAPS

States == {"idle", "user", "refused", "new", "count", "info", "sign", "take", "fetched",
           "decode", "dial", "live", "closing", "uncount", "closed", "failed"}
Outside == {"idle", "user", "refused", "new", "count", "closed"}
Unborn == {"idle", "user", "refused"}

\* Session s goes to pc without entering or leaving the count.
Moves(s, pc) ==
  /\ pc \in States /\ at' = [at EXCEPT ![s] = pc]
  /\ pc \notin {"count", "uncount", "closed"} /\ at[s] \notin {"count", "uncount", "closed"}
  /\ pc \in Outside <=> at[s] \in Outside
  /\ at[s] \notin Unborn => pc \notin Unborn
  /\ UNCHANGED countVars

Early == {"idle", "user", "refused", "new", "count", "info", "sign", "take", "fetched"}

\* The cookies are left alone, and the session does not get ahead of them.
KeepsCookies(s, pc) ==
  /\ UNCHANGED cookieVars
  /\ pc # "decode" /\ (pc \in Early => at[s] \in Early)

\* What a step outside the lock does to the control state.
Step(s) ==
  \E pc \in States :
    /\ Moves(s, pc)
    /\ err' \in [Sessions -> Errors] /\ status' \in [Sessions -> Statuses]
    /\ crashed' \in BOOLEAN
    /\ \/ uuc' = uuc /\ pc # "take" /\ KeepsCookies(s, pc)
          /\ (pc \in {"fetched", "decode", "dial", "live"} =>
                at[s] \in {"take", "fetched", "decode", "dial", "live"})
       \/ at[s] = "sign" /\ pc = "take" /\ uuc' = [uuc EXCEPT ![s] = streams] /\ UNCHANGED cookieVars
       \/ at[s] = "fetched" /\ pc = "decode" /\ uuc' = uuc
          /\ jar' = jar + 1 /\ own' = [own EXCEPT ![s] = jar + 1] /\ dialled' = dialled
       \/ at[s] = "decode" /\ pc = "dial" /\ uuc' = uuc
          /\ dialled' = [dialled EXCEPT ![s] = jar] /\ UNCHANGED <<jar, own>>

LEMMA ResultType == \A code \in Statuses, v \in BOOLEAN : SendRequest(code, v) \in Errors
  BY DEF Statuses, SendRequest, Errors

LEMMA FailMoves ==
  ASSUME TypeOK, NEW s \in Sessions, NEW e \in Errors, Fail(s, e),
         at[s] \in {"user", "info", "take", "fetched", "decode", "dial"},
         status' \in [Sessions -> Statuses]
  PROVE  Step(s)
<1> DEFINE pc == IF at[s] = "user" THEN "refused" ELSE "failed"
<1>1. pc \in States /\ pc \notin {"count", "uncount"} /\ (pc \in Outside <=> at[s] \in Outside)
      /\ (at[s] \notin Unborn => pc \notin Unborn)
  BY DEF TypeOK, States, Outside, Unborn
<1>2. Moves(s, pc) /\ KeepsCookies(s, pc)
  BY <1>1 DEF Fail, To, Moves, KeepsCookies, Early
<1>3. err' \in [Sessions -> Errors] /\ UNCHANGED <<uuc, crashed>> /\ crashed' \in BOOLEAN
  BY DEF Fail, TypeOK
<1>4. pc # "take" /\ pc \notin {"fetched", "decode", "dial", "live"}
  OBVIOUS
<1> QED
  BY <1>1, <1>2, <1>3, <1>4 DEF Step

\* A session that stays or goes on without touching count or cookies.
LEMMA ToMoves ==
  ASSUME TypeOK, NEW s \in Sessions, NEW pc \in States, at' = [at EXCEPT ![s] = pc],
         <<at[s], pc>> \in {<<"idle", "user">>, <<"idle", "new">>, <<"user", "new">>,
                            <<"user", "user">>, <<"info", "info">>, <<"info", "sign">>,
                            <<"take", "fetched">>, <<"dial", "live">>, <<"live", "closing">>},
         UNCHANGED <<err, countVars, uuc, cookieVars>>,
         status' \in [Sessions -> Statuses], crashed' \in BOOLEAN
  PROVE  Step(s)
<1>1. Moves(s, pc)
  BY DEF Moves, Outside, Unborn
<1>2. KeepsCookies(s, pc) /\ pc # "take"
  BY DEF KeepsCookies, Early
<1>3. pc \in {"fetched", "decode", "dial", "live"} =>
        at[s] \in {"take", "fetched", "decode", "dial", "live"}
  OBVIOUS
<1> QED
  BY <1>1, <1>2, <1>3 DEF Step, TypeOK

\* A crash stops everything where it is.
LEMMA CrashMoves ==
  ASSUME TypeOK, NEW s \in Sessions, Crash, at[s] \in {"user", "info"},
         status' \in [Sessions -> Statuses]
  PROVE  Step(s)
<1>1. at' = [at EXCEPT ![s] = at[s]] /\ at[s] \in States
  BY DEF Crash, TypeOK, States
<1> QED
  BY <1>1, ToMoves DEF Crash

\* Every step moves one session, or is a step under the lock.
LEMMA MoveOrCount ==
  ASSUME TypeOK, NEW s \in Sessions, Session(s)
  PROVE  Step(s) \/ Count(s)
<1> USE DEF To, States
<1>0. status \in [Sessions -> Statuses] /\ crashed \in BOOLEAN
      /\ \A code \in Statuses : Answered(s, code) => status' \in [Sessions -> Statuses]
  BY DEF TypeOK, Answered
<1>e. {"transport", "decode", "ErrUserNotFound", "ErrUserOffline", "ErrIPBlockedOrBanned",
       "ErrLiveHasEnded", "cookie", "upgrade"} \subseteq Errors
  BY DEF Errors
<1>l. ASSUME Lost(s), at[s] \in {"user", "info", "take"} PROVE Step(s)
  BY <1>l, <1>0, <1>e, FailMoves DEF Lost
<1>1. CASE TrackUser(s)
  BY <1>1, <1>0, ToMoves DEF TrackUser
<1>2. CASE TrackRoom(s)
  BY <1>2, <1>0, ToMoves DEF TrackRoom
<1>3. CASE LookUpUser(s)
  <2> USE <1>3
  <2>1. at[s] = "user"
    BY DEF LookUpUser
  <2>2. CASE Lost(s)
    BY <2>1, <2>2, <1>l
  <2>3. ASSUME NEW code \in Statuses, Answered(s, code),
               LET e == SendRequest(code, TRUE) IN
                 \/ e # "ok" /\ Fail(s, e)
                 \/ /\ e = "ok"
                    /\ \/ \E f \in {"ErrIPBlockedOrBanned", "decode", "ErrUserNotFound",
                                    "ErrUserOffline"} : Fail(s, f)
                       \/ Crash
                       \/ To(s, "new") /\ UNCHANGED <<err, countVars, uuc, cookieVars, crashed>>
        PROVE Step(s)
    <3>1. CASE Fail(s, SendRequest(code, TRUE))
      BY <3>1, <2>1, <2>3, <1>0, ResultType, FailMoves
    <3>2. CASE \E f \in {"ErrIPBlockedOrBanned", "decode", "ErrUserNotFound", "ErrUserOffline"} :
                 Fail(s, f)
      BY <3>2, <2>1, <2>3, <1>0, <1>e, FailMoves
    <3>3. CASE Crash
      BY <3>3, <2>1, <2>3, <1>0, CrashMoves
    <3>4. CASE To(s, "new") /\ UNCHANGED <<err, countVars, uuc, cookieVars, crashed>>
      BY <3>4, <2>1, <2>3, <1>0, ToMoves
    <3> QED
      BY <2>3, <3>1, <3>2, <3>3, <3>4
  <2> QED
    BY <2>2, <2>3 DEF LookUpUser
<1>4. CASE FetchRoomInfo(s)
  <2> USE <1>4
  <2>1. at[s] = "info"
    BY DEF FetchRoomInfo
  <2>2. CASE Lost(s)
    BY <2>1, <2>2, <1>l
  <2>3. ASSUME NEW code \in Statuses, Answered(s, code),
               LET e == SendRequest(code, FALSE) IN
                 \/ e # "ok" /\ Fail(s, e)
                 \/ /\ e = "ok"
                    /\ \/ Fail(s, "decode") \/ Fail(s, "ErrLiveHasEnded")
                       \/ Crash
                       \/ To(s, "sign") /\ UNCHANGED <<err, countVars, uuc, cookieVars, crashed>>
        PROVE Step(s)
    <3>1. CASE Fail(s, SendRequest(code, FALSE))
      BY <3>1, <2>1, <2>3, <1>0, ResultType, FailMoves
    <3>2. CASE Fail(s, "decode") \/ Fail(s, "ErrLiveHasEnded")
      BY <3>2, <2>1, <2>3, <1>0, <1>e, FailMoves
    <3>3. CASE Crash
      BY <3>3, <2>1, <2>3, <1>0, CrashMoves
    <3>4. CASE To(s, "sign") /\ UNCHANGED <<err, countVars, uuc, cookieVars, crashed>>
      BY <3>4, <2>1, <2>3, <1>0, ToMoves
    <3> QED
      BY <2>3, <3>1, <3>2, <3>3, <3>4
  <2> QED
    BY <2>2, <2>3 DEF FetchRoomInfo
<1>5. CASE ReadCount(s)
  <2>1. Moves(s, "take")
    BY <1>5 DEF ReadCount, Moves, Outside, Unborn
  <2> QED
    BY <1>5, <1>0, <2>1 DEF ReadCount, Step, TypeOK
<1>6. CASE TakeAndSend(s)
  <2> USE <1>6
  <2>1. at[s] = "take"
    BY DEF TakeAndSend
  <2>2. CASE Lost(s)
    BY <2>1, <2>2, <1>l
  <2>3. ASSUME NEW code \in Statuses, Answered(s, code),
               \/ Fail(s, SendRequest(code, FALSE))
               \/ To(s, "fetched") /\ UNCHANGED <<err, countVars, uuc, cookieVars, crashed>>
        PROVE Step(s)
    <3>1. CASE Fail(s, SendRequest(code, FALSE))
      BY <3>1, <2>1, <2>3, <1>0, ResultType, FailMoves
    <3>2. CASE To(s, "fetched") /\ UNCHANGED <<err, countVars, uuc, cookieVars, crashed>>
      BY <3>2, <2>1, <2>3, <1>0, ToMoves
    <3> QED
      BY <2>3, <3>1, <3>2
  <2> QED
    BY <2>2, <2>3 DEF TakeAndSend
<1>7. CASE StoreCookie(s)
  <2>1. CASE Fail(s, "cookie")
    BY <1>7, <2>1, <1>0, <1>e, FailMoves DEF StoreCookie
  <2>2. CASE ~Fail(s, "cookie")
    <3>1. Moves(s, "decode")
      BY <1>7, <2>2 DEF StoreCookie, Moves, Outside, Unborn
    <3> QED
      BY <1>7, <2>2, <1>0, <3>1 DEF StoreCookie, Step, TypeOK
  <2> QED
    BY <2>1, <2>2
<1>8. CASE PrepareDial(s)
  <2>1. CASE Fail(s, "decode") \/ Fail(s, "upgrade")
    BY <1>8, <2>1, <1>0, <1>e, FailMoves DEF PrepareDial
  <2>2. CASE ~(Fail(s, "decode") \/ Fail(s, "upgrade"))
    <3>1. Moves(s, "dial")
      BY <1>8, <2>2 DEF PrepareDial, Moves, Outside, Unborn
    <3> QED
      BY <1>8, <2>2, <1>0, <3>1 DEF PrepareDial, Step, TypeOK
  <2> QED
    BY <2>1, <2>2
<1>9. CASE Dial(s)
  <2>1. CASE Fail(s, "upgrade")
    BY <1>9, <2>1, <1>0, <1>e, FailMoves DEF Dial
  <2>2. CASE ~Fail(s, "upgrade")
    BY <1>9, <2>2, <1>0, ToMoves DEF Dial
  <2> QED
    BY <2>1, <2>2
<1>10. CASE CloseWaited(s)
  BY <1>10, <1>0, ToMoves DEF CloseWaited
<1> QED
  BY <1>1, <1>2, <1>3, <1>4, <1>5, <1>6, <1>7, <1>8, <1>9, <1>10 DEF Session

-----------------------------------------------------------------------------
(* The count *)

Inside == {s \in Sessions : Counted(s)}
Born == {s \in Sessions : at[s] \notin Unborn}

LEMMA InsideFinite ==
  /\ IsFiniteSet(Inside) /\ Cardinality(Inside) \in Nat
  /\ IsFiniteSet(Born) /\ Cardinality(Born) \in Nat
  BY ClientAssumption, FS_Subset, FS_CardinalityType DEF Inside, Born

\* A move leaves the lock, the count and who is in it alone.
LEMMA MoveKeepsCount ==
  ASSUME TypeOK, SeenFresh, StreamsExact, NEW s \in Sessions, NEW pc \in States, Moves(s, pc)
  PROVE  SeenFresh' /\ StreamsExact' /\ Inside' = Inside
<1>1. \A t \in Sessions : Counted(t)' <=> Counted(t)
  BY DEF Moves, TypeOK, Counted, Outside
<1>2. Inside' = Inside
  BY <1>1 DEF Inside
<1> QED
  BY <1>2 DEF Moves, countVars, SeenFresh, StreamsExact, Inside

\* Under the lock the count is loaded, and stored with one session more or less.
LEMMA CountKeepsCount ==
  ASSUME TypeOK, SeenFresh, StreamsExact, NEW s \in Sessions, Count(s)
  PROVE  SeenFresh' /\ StreamsExact'
<1>1. CASE Lock(s)
  <2>1. \A t \in Sessions : Counted(t)' <=> Counted(t)
    BY <1>1 DEF Lock, To, TypeOK, Counted
  <2>2. Inside' = Inside
    BY <2>1 DEF Inside
  <2>3. StreamsExact'
    BY <1>1, <2>2 DEF Lock, StreamsExact, Inside
  <2>4. SeenFresh'
    BY <1>1 DEF Lock, SeenFresh, TypeOK
  <2> QED
    BY <2>3, <2>4
<1>2. CASE CountUp(s)
  <2>1. s \in mu /\ mu' = {} /\ seen[s] = streams
    BY <1>2 DEF CountUp, TypeOK, SeenFresh
  <2>2. s \notin Inside /\ Inside' = Inside \cup {s}
    BY <1>2 DEF CountUp, To, TypeOK, Inside, Counted
  <2>3. Cardinality(Inside') = Cardinality(Inside) + 1
    BY <2>2, InsideFinite, FS_AddElement
  <2>4. StreamsExact'
    BY <1>2, <2>1, <2>3 DEF CountUp, StreamsExact, Inside
  <2> QED
    BY <2>1, <2>4 DEF SeenFresh
<1>3. CASE CountDown(s)
  <2>1. s \in mu /\ mu' = {} /\ seen[s] = streams
    BY <1>3 DEF CountDown, TypeOK, SeenFresh
  <2>2. s \in Inside /\ Inside' = Inside \ {s}
    BY <1>3 DEF CountDown, To, TypeOK, Inside, Counted
  <2>3. Cardinality(Inside') = Cardinality(Inside) - 1
    BY <2>2, InsideFinite, FS_RemoveElement
  <2>4. StreamsExact'
    BY <1>3, <2>1, <2>3 DEF CountDown, StreamsExact, Inside
  <2> QED
    BY <2>1, <2>4 DEF SeenFresh
<1> QED
  BY <1>1, <1>2, <1>3 DEF Count

-----------------------------------------------------------------------------
(* The types and the lock *)

LEMMA StepTypes == ASSUME TypeOK, NEW s \in Sessions, Step(s) PROVE TypeOK'
<1>1. PICK pc \in States :
        /\ Moves(s, pc)
        /\ err' \in [Sessions -> Errors] /\ status' \in [Sessions -> Statuses]
        /\ crashed' \in BOOLEAN
        /\ \/ uuc' = uuc /\ UNCHANGED cookieVars
           \/ uuc' = [uuc EXCEPT ![s] = streams] /\ UNCHANGED cookieVars
           \/ uuc' = uuc /\ jar' = jar + 1 /\ own' = [own EXCEPT ![s] = jar + 1] /\ dialled' = dialled
           \/ uuc' = uuc /\ dialled' = [dialled EXCEPT ![s] = jar] /\ UNCHANGED <<jar, own>>
  BY DEF Step, KeepsCookies
<1>2. at' \in [Sessions -> States] /\ at \in [Sessions -> States]
  BY <1>1 DEF Moves, TypeOK, States
<1>3. mu' = {t \in Sessions : at'[t] \in {"count", "uncount"}}
  BY <1>1, <1>2 DEF Moves, TypeOK, countVars
<1>4. UNCHANGED <<mu, seen, streams>>
  BY <1>1 DEF Moves, countVars
<1>5. uuc' \in [Sessions -> Int]
  BY <1>1 DEF TypeOK
<1>6. jar' \in Nat /\ own' \in [Sessions -> 0..jar'] /\ dialled' \in [Sessions -> 0..jar']
  <2>1. jar \in Nat /\ own \in [Sessions -> 0..jar] /\ dialled \in [Sessions -> 0..jar]
    BY DEF TypeOK
  <2>2. CASE UNCHANGED cookieVars
    BY <2>1, <2>2 DEF cookieVars
  <2>3. CASE jar' = jar + 1 /\ own' = [own EXCEPT ![s] = jar + 1] /\ dialled' = dialled
    BY <2>1, <2>3
  <2>4. CASE dialled' = [dialled EXCEPT ![s] = jar] /\ UNCHANGED <<jar, own>>
    BY <2>1, <2>4
  <2> QED
    BY <1>1, <2>2, <2>3, <2>4
<1> QED
  BY <1>1, <1>2, <1>3, <1>4, <1>5, <1>6 DEF TypeOK, States

LEMMA CountTypes == ASSUME TypeOK, NEW s \in Sessions, Count(s) PROVE TypeOK'
<1>1. UNCHANGED <<err, status, uuc, cookieVars, crashed>>
  BY DEF Count, Lock, CountUp, CountDown
<1>2. at' \in [Sessions -> States]
  BY DEF Count, Lock, CountUp, CountDown, To, TypeOK, States
<1>3. mu' = {t \in Sessions : at'[t] \in {"count", "uncount"}} /\ \A t, u \in mu' : t = u
  <2>1. CASE Lock(s)
    BY <2>1 DEF Lock, To, TypeOK
  <2>2. CASE CountUp(s) \/ CountDown(s)
    BY <2>2 DEF CountUp, CountDown, To, TypeOK
  <2> QED
    BY <2>1, <2>2 DEF Count
<1>4. seen' \in [Sessions -> Int] /\ streams' \in Int
  BY DEF Count, Lock, CountUp, CountDown, TypeOK
<1> QED
  BY <1>1, <1>2, <1>3, <1>4 DEF TypeOK, States, cookieVars

-----------------------------------------------------------------------------
(* The count that the signer is told *)

Asks(pc) == pc \in {"take", "fetched", "decode", "dial", "live"}

\* The count is at least one where a session is inside, and never exceeds
\* the sessions that were begun.
LEMMA CountBounds ==
  ASSUME TypeOK, StreamsExact, NEW s \in Inside
  PROVE  streams \in 1..Cardinality(Born)
<1>1. streams = Cardinality(Inside) /\ Cardinality(Inside) \in Nat /\ Cardinality(Born) \in Nat
  BY InsideFinite DEF StreamsExact, Inside
<1>2. Cardinality(Inside) # 0
  BY InsideFinite, FS_EmptySet
<1>3. Inside \subseteq Born
  BY DEF Inside, Born, Counted, Unborn
<1>4. Cardinality(Inside) <= Cardinality(Born)
  BY <1>3, InsideFinite, FS_Subset
<1> QED
  BY <1>1, <1>2, <1>4

LEMMA BornGrows ==
  ASSUME TypeOK, Born \subseteq Born'
  PROVE  Cardinality(Born) <= Cardinality(Born') /\ Cardinality(Born') \in Nat
<1>1. IsFiniteSet(Born') /\ Cardinality(Born') \in Nat
  BY ClientAssumption, FS_Subset, FS_CardinalityType DEF Born
<1> QED
  BY <1>1, FS_Subset

LEMMA AskerStep ==
  ASSUME ClientInv, NEW s \in Sessions, Step(s) \/ Count(s)
  PROVE  AskerIsCounted'
<1> USE DEF ClientInv
<1>1. Born \subseteq Born'
  <2>1. CASE Step(s)
    <3>1. PICK pc \in States : Moves(s, pc)
      BY <2>1 DEF Step
    <3> QED
      BY <3>1 DEF Moves, Born, TypeOK
  <2>2. CASE Count(s)
    BY <2>2 DEF Count, Lock, CountUp, CountDown, To, Born, Unborn, TypeOK
  <2> QED
    BY <2>1, <2>2
<1>2. Cardinality(Born) \in Nat /\ Cardinality(Born) <= Cardinality(Born') /\ Cardinality(Born') \in Nat
  BY <1>1, BornGrows, InsideFinite
<1>3. \A t \in Sessions : Asks(at'[t]) => uuc'[t] \in 1..Cardinality(Born)
  <2>0. \A t \in Sessions : Asks(at[t]) => uuc[t] \in 1..Cardinality(Born)
    BY DEF AskerIsCounted, Born, Unborn, Asks
  <2>1. CASE Count(s)
    BY <2>0, <2>1 DEF Count, Lock, CountUp, CountDown, To, Asks, TypeOK
  <2>2. CASE Step(s)
    <3>1. PICK pc \in States :
            /\ at' = [at EXCEPT ![s] = pc]
            /\ \/ uuc' = uuc /\ (Asks(pc) => Asks(at[s]))
               \/ at[s] = "sign" /\ uuc' = [uuc EXCEPT ![s] = streams]
      BY <2>2 DEF Step, Moves, Asks
    <3>2. CASE uuc' = uuc /\ (Asks(pc) => Asks(at[s]))
      BY <2>0, <3>1, <3>2 DEF TypeOK
    <3>3. CASE at[s] = "sign" /\ uuc' = [uuc EXCEPT ![s] = streams]
      <4>1. s \in Inside
        BY <3>3 DEF Inside, Counted
      <4>2. streams \in 1..Cardinality(Born)
        BY <4>1, CountBounds
      <4> QED
        BY <2>0, <3>1, <3>3, <4>2 DEF TypeOK
    <3> QED
      BY <3>1, <3>2, <3>3
  <2> QED
    BY <2>1, <2>2
<1>4. \A t \in Sessions : Asks(at'[t]) => uuc'[t] \in 1..Cardinality(Born')
  BY <1>2, <1>3
<1> QED
  BY <1>4 DEF AskerIsCounted, Born, Unborn, Asks

-----------------------------------------------------------------------------
(* The cookies *)

LEMMA CookieStep ==
  ASSUME ClientInv, NEW s \in Sessions, Step(s) \/ Count(s)
  PROVE  CookiePhase' /\ DialNotStale'
<1> USE DEF ClientInv
<1>1. CASE Count(s)
  <2>1. PICK pc \in States : /\ at' = [at EXCEPT ![s] = pc] /\ UNCHANGED <<jar, own, dialled>>
                             /\ pc # "decode" /\ (pc \in Early => at[s] \in Early)
    BY <1>1 DEF Count, Lock, CountUp, CountDown, To, cookieVars, Early, States
  <2> QED
    BY <2>1 DEF CookiePhase, DialNotStale, TypeOK, Early
<1>2. CASE Step(s)
  <2>1. PICK pc \in States :
          /\ at' = [at EXCEPT ![s] = pc]
          /\ \/ UNCHANGED <<jar, own, dialled>> /\ pc # "decode" /\ (pc \in Early => at[s] \in Early)
             \/ at[s] = "fetched" /\ pc = "decode"
                /\ jar' = jar + 1 /\ own' = [own EXCEPT ![s] = jar + 1] /\ dialled' = dialled
             \/ at[s] = "decode" /\ pc = "dial"
                /\ dialled' = [dialled EXCEPT ![s] = jar] /\ UNCHANGED <<jar, own>>
    BY <1>2 DEF Step, Moves, KeepsCookies, cookieVars, Early
  <2>2. CASE UNCHANGED <<jar, own, dialled>> /\ pc # "decode" /\ (pc \in Early => at[s] \in Early)
    BY <2>1, <2>2 DEF CookiePhase, DialNotStale, TypeOK, Early
  <2>3. CASE /\ at[s] = "fetched" /\ pc = "decode"
             /\ jar' = jar + 1 /\ own' = [own EXCEPT ![s] = jar + 1] /\ dialled' = dialled
    <3>1. own[s] = 0 /\ dialled[s] = 0
      BY <2>3 DEF CookiePhase
    <3>2. CookiePhase'
      BY <2>1, <2>3 DEF CookiePhase, TypeOK
    <3>3. ASSUME NEW t \in Sessions, dialled[t] # 0
          PROVE  \E u \in Sessions : dialled[t] = own'[u] /\ own'[u] >= own'[t] /\ own'[t] > 0
      <4>1. PICK u \in Sessions : dialled[t] = own[u] /\ own[u] >= own[t] /\ own[t] > 0
        BY <3>3 DEF DialNotStale
      <4>2. u # s /\ t # s
        BY <3>1, <3>3, <4>1
      <4> QED
        BY <2>3, <4>1, <4>2
    <3> QED
      BY <2>3, <3>2, <3>3 DEF DialNotStale
  <2>4. CASE /\ at[s] = "decode" /\ pc = "dial"
             /\ dialled' = [dialled EXCEPT ![s] = jar] /\ UNCHANGED <<jar, own>>
    <3>1. own[s] \in 1..jar
      BY <2>4 DEF CookiePhase, TypeOK
    <3>2. \E u \in Sessions : jar = own[u] /\ own[u] >= own[s] /\ own[s] > 0
      BY <3>1 DEF CookiePhase, TypeOK
    <3>3. CookiePhase'
      BY <2>1, <2>4 DEF CookiePhase, TypeOK
    <3> QED
      BY <2>4, <3>2, <3>3 DEF DialNotStale, TypeOK
  <2> QED
    BY <2>1, <2>2, <2>3, <2>4
<1> QED
  BY <1>1, <1>2

-----------------------------------------------------------------------------
(* Theorems *)

LEMMA ClientStart == Init => ClientInv
<1> SUFFICES ASSUME Init PROVE ClientInv
  OBVIOUS
<1> USE DEF Init
<1>1. TypeOK
  <2>1. /\ at \in [Sessions -> {"idle", "user", "refused", "new", "count", "info", "sign", "take",
                               "fetched", "decode", "dial", "live", "closing", "uncount",
                               "closed", "failed"}]
        /\ err \in [Sessions -> Errors] /\ status \in [Sessions -> Statuses]
    BY DEF Errors, Statuses
  <2>2. mu = {s \in Sessions : at[s] \in {"count", "uncount"}}
    OBVIOUS
  <2>3. \A s, t \in mu : s = t
    OBVIOUS
  <2>4. /\ seen \in [Sessions -> Int] /\ streams \in Int /\ uuc \in [Sessions -> Int]
        /\ jar \in Nat /\ own \in [Sessions -> 0..jar] /\ dialled \in [Sessions -> 0..jar]
    OBVIOUS
  <2>5. crashed \in BOOLEAN
    BY Zenon
  <2> QED
    BY <2>1, <2>2, <2>3, <2>4, <2>5, Zenon DEF TypeOK
<1>2. SeenFresh /\ CookiePhase /\ DialNotStale
  BY DEF SeenFresh, CookiePhase, DialNotStale
<1>3. StreamsExact
  <2>1. {s \in Sessions : Counted(s)} = {}
    BY DEF Counted
  <2> QED
    BY <2>1, FS_EmptySet DEF StreamsExact
<1>4. AskerIsCounted
  BY DEF AskerIsCounted
<1> QED
  BY <1>1, <1>2, <1>3, <1>4 DEF ClientInv

LEMMA ClientStep == ClientInv /\ [Next]_vars => ClientInv'
<1> SUFFICES ASSUME ClientInv, [Next]_vars PROVE ClientInv'
  OBVIOUS
<1>1. CASE UNCHANGED vars
  BY <1>1 DEF vars, ClientInv, TypeOK, SeenFresh, StreamsExact, Counted, AskerIsCounted,
              CookiePhase, DialNotStale
<1>2. ASSUME NEW s \in Sessions, Session(s) PROVE ClientInv'
  <2>1. TypeOK /\ SeenFresh /\ StreamsExact /\ (Step(s) \/ Count(s))
    BY <1>2, MoveOrCount DEF ClientInv
  <2>2. TypeOK'
    BY <2>1, StepTypes, CountTypes
  <2>3. SeenFresh' /\ StreamsExact'
    <3>1. CASE Count(s)
      BY <2>1, <3>1, CountKeepsCount
    <3>2. CASE Step(s)
      <4>1. PICK pc \in States : Moves(s, pc)
        BY <3>2 DEF Step
      <4> QED
        BY <2>1, <4>1, MoveKeepsCount
    <3> QED
      BY <2>1, <3>1, <3>2
  <2>4. AskerIsCounted' /\ CookiePhase' /\ DialNotStale'
    BY <2>1, AskerStep, CookieStep
  <2> QED
    BY <2>2, <2>3, <2>4 DEF ClientInv
<1> QED
  BY <1>1, <1>2 DEF Next

LEMMA ClientInvariant == Spec => []ClientInv
  BY ClientStart, ClientStep, PTL DEF Spec

\* Types, and mutual exclusion under TikTok.mu.
THEOREM ClientTypeCorrect == Spec => []TypeOK
<1>1. ClientInv => TypeOK
  BY DEF ClientInv
<1> QED
  BY <1>1, ClientInvariant, PTL

\* The client's count is exact, failed sessions included.
THEOREM CountIsExact == Spec => []StreamsExact
<1>1. ClientInv => StreamsExact
  BY DEF ClientInv
<1> QED
  BY <1>1, ClientInvariant, PTL

\* The signer is never told zero, nor more than were begun.
THEOREM SignerIsToldRight == Spec => []AskerIsCounted
<1>1. ClientInv => AskerIsCounted
  BY DEF ClientInv
<1> QED
  BY <1>1, ClientInvariant, PTL

\* No websocket is dialled with a cookie older than the session's own.
THEOREM CookiesNotStale == Spec => []DialNotStale
<1>1. ClientInv => DialNotStale
  BY DEF ClientInv
<1> QED
  BY <1>1, ClientInvariant, PTL

\* Of the sessions at rest only the failed ones are still counted.
THEOREM RestIsFailures == Spec => []RestCountsFailures
<1>1. ClientInv => RestCountsFailures
  <2> SUFFICES ASSUME ClientInv, AtRest
               PROVE  streams = Cardinality({s \in Sessions : at[s] = "failed"})
    BY DEF RestCountsFailures
  <2>1. {s \in Sessions : Counted(s)} = {s \in Sessions : at[s] = "failed"}
    BY DEF AtRest, Counted
  <2> QED
    BY <2>1 DEF ClientInv, StreamsExact
<1> QED
  BY <1>1, ClientInvariant, PTL

-----------------------------------------------------------------------------
(* The errors *)

\* An error that fits the status of the answer.
Fits(code, e) ==
  /\ e # "ok"
  /\ e = "ErrRateLimitExceeded" <=> code = 429
  /\ code = 403 => e = "ErrIPBlockedOrBanned"
  /\ e = "status" <=> code \in {404, 500}
  /\ e = "UserNotFound" => code = 302

\* What sendRequest makes of each status, with the validator and without.
LEMMA ValidatedFits ==
  ASSUME NEW code \in Statuses
  PROVE  /\ SendRequest(code, TRUE) \in Errors
         /\ IF SendRequest(code, TRUE) = "ok"
            THEN code = 200 ELSE Fits(code, SendRequest(code, TRUE))
  BY DEF Statuses, SendRequest, Fits, Errors

LEMMA ResultFits ==
  ASSUME NEW code \in Statuses
  PROVE  /\ SendRequest(code, FALSE) \in Errors \ {"UserNotFound"}
         /\ IF SendRequest(code, FALSE) = "ok"
            THEN code \in {200, 302} ELSE Fits(code, SendRequest(code, FALSE))
  BY DEF Statuses, SendRequest, Fits, Errors

\* A step of a session touches nobody else's place, error and status.
LEMMA OthersErrors ==
  ASSUME TypeOK, NEW s \in Sessions, Session(s), NEW t \in Sessions, t # s
  PROVE  at'[t] = at[t] /\ err'[t] = err[t] /\ status'[t] = status[t]
<1> USE DEF To, TypeOK
<1>1. \A e : Fail(s, e) => at'[t] = at[t] /\ err'[t] = err[t]
  BY DEF Fail
<1>2. \A code \in Statuses : Answered(s, code) => status'[t] = status[t]
  BY DEF Answered
<1>3. Crash => at'[t] = at[t] /\ err'[t] = err[t]
  BY DEF Crash
<1>4. Lost(s) => at'[t] = at[t] /\ err'[t] = err[t] /\ status'[t] = status[t]
  BY <1>1 DEF Lost
<1>5. CASE TrackUser(s) \/ TrackRoom(s) \/ ReadCount(s) \/ CloseWaited(s) \/ Count(s)
  BY <1>5 DEF TrackUser, TrackRoom, ReadCount, CloseWaited, Count, Lock, CountUp, CountDown
<1>6. CASE LookUpUser(s)
  BY <1>1, <1>2, <1>3, <1>4, <1>6 DEF LookUpUser
<1>7. CASE FetchRoomInfo(s)
  BY <1>1, <1>2, <1>3, <1>4, <1>7 DEF FetchRoomInfo
<1>8. CASE TakeAndSend(s)
  BY <1>1, <1>2, <1>4, <1>8 DEF TakeAndSend
<1>9. CASE StoreCookie(s) \/ PrepareDial(s) \/ Dial(s)
  BY <1>1, <1>9 DEF StoreCookie, PrepareDial, Dial
<1> QED
  BY <1>5, <1>6, <1>7, <1>8, <1>9 DEF Session

\* A call that fails with an error that fits its answer tells it.
LEMMA FailTells ==
  ASSUME TypeOK, NEW s \in Sessions, NEW e \in Errors, Fail(s, e), Fits(status'[s], e),
         e = "UserNotFound" => at[s] = "user"
  PROVE  ErrorTells(s)'
<1>1. err'[s] = e /\ at'[s] = IF at[s] = "user" THEN "refused" ELSE "failed"
  BY DEF Fail, To, TypeOK
<1> QED
  BY <1>1 DEF ErrorTells, Fits

\* A session that has not failed has had no bad answer.
LEMMA GoodSoFar ==
  ASSUME TypeOK, NEW s \in Sessions, ErrorTells(s), at[s] \notin {"refused", "failed"}
  PROVE  err[s] = "ok" /\ status[s] \in {200, 302}
<1>1. err[s] = "ok" /\ status[s] \in Statuses
  BY DEF ErrorTells, TypeOK
<1> QED
  BY <1>1 DEF Statuses, ErrorTells

\* A session that goes on has had a good answer, if any.
LEMMA GoesOn ==
  ASSUME NEW s \in Sessions, at'[s] \notin {"refused", "failed"}, err'[s] = "ok",
         status'[s] \in {200, 302}
  PROVE  ErrorTells(s)'
  BY DEF ErrorTells

LEMMA OwnError ==
  ASSUME TypeOK, NEW s \in Sessions, ErrorTells(s), Session(s)
  PROVE  ErrorTells(s)'
<1> USE DEF To
<1>a. at \in [Sessions -> States] /\ status \in [Sessions -> Statuses]
  BY DEF TypeOK, States
<1>1. at[s] \notin {"refused", "failed"}
  BY DEF Session, TrackUser, TrackRoom, LookUpUser, FetchRoomInfo, ReadCount, TakeAndSend, StoreCookie,
         PrepareDial, Dial, CloseWaited, Count, Lock, CountUp, CountDown
<1>2. err[s] = "ok" /\ status[s] \in {200, 302}
  BY <1>1, GoodSoFar
<1>3. \A code \in Statuses : Answered(s, code) => status'[s] = code
  BY <1>a DEF Answered
<1>4. ASSUME NEW code \in {200, 302},
             NEW e \in {"transport", "cookie", "decode", "upgrade", "ErrUserNotFound",
                        "ErrUserOffline", "ErrIPBlockedOrBanned", "ErrLiveHasEnded"}
      PROVE  e \in Errors /\ e # "UserNotFound" /\ Fits(code, e)
  BY DEF Errors, Fits
<1>5. ASSUME Lost(s) PROVE ErrorTells(s)'
  <2>1. status'[s] \in {200, 302}
    BY <1>2, <1>5 DEF Lost
  <2>2. "transport" \in Errors /\ Fits(status'[s], "transport")
    BY <1>4, <2>1
  <2> QED
    BY <1>5, <2>2, FailTells DEF Lost
<1>6. ASSUME at'[s] = at[s] \/ at'[s] \in {"user", "new", "sign", "fetched", "decode", "dial", "live"},
             err' = err, status'[s] \in {200, 302}
      PROVE  ErrorTells(s)'
  BY <1>1, <1>2, <1>6, GoesOn
<1>7. CASE TrackUser(s) \/ TrackRoom(s) \/ ReadCount(s) \/ CloseWaited(s) \/ Count(s)
  <2>1. at'[s] \notin {"refused", "failed"} /\ err' = err /\ status' = status
    BY <1>a, <1>7 DEF TrackUser, TrackRoom, ReadCount, CloseWaited, Count, Lock, CountUp, CountDown
  <2> QED
    BY <1>2, <2>1, GoesOn
<1>8. CASE LookUpUser(s)
  <2>1. at[s] = "user"
    BY <1>8 DEF LookUpUser
  <2>2. ASSUME NEW code \in Statuses, Answered(s, code), SendRequest(code, TRUE) # "ok",
               Fail(s, SendRequest(code, TRUE))
        PROVE  ErrorTells(s)'
    <3>1. SendRequest(code, TRUE) \in Errors /\ Fits(status'[s], SendRequest(code, TRUE))
      BY <1>3, <2>2, ValidatedFits
    <3> QED
      BY <2>1, <2>2, <3>1, FailTells
  <2>3. ASSUME NEW code \in Statuses, Answered(s, code), SendRequest(code, TRUE) = "ok",
               NEW f \in {"ErrIPBlockedOrBanned", "decode", "ErrUserNotFound", "ErrUserOffline"},
               Fail(s, f)
        PROVE  ErrorTells(s)'
    <3>1. status'[s] \in {200, 302}
      BY <1>3, <2>3, ValidatedFits
    <3>2. f \in Errors /\ f # "UserNotFound" /\ Fits(status'[s], f)
      BY <1>4, <3>1
    <3> QED
      BY <2>3, <3>2, FailTells
  <2>4. ASSUME NEW code \in Statuses, Answered(s, code), SendRequest(code, TRUE) = "ok",
               Crash \/ (at' = [at EXCEPT ![s] = "new"] /\ err' = err)
        PROVE  ErrorTells(s)'
    <3>1. status'[s] \in {200, 302}
      BY <1>3, <2>4, ValidatedFits
    <3>2. err' = err /\ (at'[s] = at[s] \/ at'[s] = "new")
      BY <1>a, <2>4 DEF Crash
    <3> QED
      BY <1>6, <3>1, <3>2
  <2> QED
    BY <1>5, <1>8, <2>2, <2>3, <2>4 DEF LookUpUser
<1>9. ASSUME NEW code \in Statuses, Answered(s, code), SendRequest(code, FALSE) # "ok",
             Fail(s, SendRequest(code, FALSE))
      PROVE  ErrorTells(s)'
  <2>1. SendRequest(code, FALSE) \in Errors /\ SendRequest(code, FALSE) # "UserNotFound"
        /\ Fits(status'[s], SendRequest(code, FALSE))
    BY <1>3, <1>9, ResultFits
  <2> QED
    BY <1>9, <2>1, FailTells
<1>10. ASSUME NEW code \in Statuses, Answered(s, code), SendRequest(code, FALSE) = "ok"
       PROVE  status'[s] \in {200, 302}
  BY <1>3, <1>10, ResultFits
<1>11. CASE FetchRoomInfo(s)
  <2>1. ASSUME NEW code \in Statuses, Answered(s, code), SendRequest(code, FALSE) = "ok",
               NEW f \in {"decode", "ErrLiveHasEnded"}, Fail(s, f)
        PROVE  ErrorTells(s)'
    <3>1. status'[s] \in {200, 302}
      BY <1>10, <2>1
    <3>2. f \in Errors /\ f # "UserNotFound" /\ Fits(status'[s], f)
      BY <1>4, <3>1
    <3> QED
      BY <2>1, <3>2, FailTells
  <2>2. ASSUME NEW code \in Statuses, Answered(s, code), SendRequest(code, FALSE) = "ok",
               Crash \/ (at' = [at EXCEPT ![s] = "sign"] /\ err' = err)
        PROVE  ErrorTells(s)'
    <3>1. err' = err /\ (at'[s] = at[s] \/ at'[s] = "sign")
      BY <1>a, <2>2 DEF Crash
    <3> QED
      BY <1>6, <1>10, <2>2, <3>1
  <2> QED
    BY <1>5, <1>9, <1>11, <2>1, <2>2 DEF FetchRoomInfo
<1>12. CASE TakeAndSend(s)
  <2>1. ASSUME NEW code \in Statuses, Answered(s, code), SendRequest(code, FALSE) = "ok",
               at' = [at EXCEPT ![s] = "fetched"], err' = err
        PROVE  ErrorTells(s)'
    <3>1. at'[s] = "fetched"
      BY <1>a, <2>1
    <3> QED
      BY <1>6, <1>10, <2>1, <3>1
  <2> QED
    BY <1>5, <1>9, <1>12, <2>1 DEF TakeAndSend
<1>13. CASE StoreCookie(s) \/ PrepareDial(s) \/ Dial(s)
  <2>1. status'[s] \in {200, 302}
    BY <1>2, <1>13 DEF StoreCookie, PrepareDial, Dial
  <2>2. ASSUME NEW e \in {"cookie", "decode", "upgrade"}, Fail(s, e) PROVE ErrorTells(s)'
    <3>1. e \in Errors /\ e # "UserNotFound" /\ Fits(status'[s], e)
      BY <1>4, <2>1
    <3> QED
      BY <2>2, <3>1, FailTells
  <2>3. CASE at'[s] \in {"decode", "dial", "live"} /\ err' = err
    BY <1>6, <2>1, <2>3
  <2> QED
    BY <1>a, <1>13, <2>2, <2>3 DEF StoreCookie, PrepareDial, Dial
<1> QED
  BY <1>7, <1>8, <1>11, <1>12, <1>13 DEF Session

\* The error of a call tells what the server answered, whatever the others do.
THEOREM ErrorsAreTrue == Spec => []ErrorsTellStatus
<1>1. Init => ErrorsTellStatus
  BY DEF Init, ErrorsTellStatus, ErrorTells
<1>2. TypeOK /\ ErrorsTellStatus /\ [Next]_vars => ErrorsTellStatus'
  <2> SUFFICES ASSUME TypeOK, ErrorsTellStatus, [Next]_vars, NEW t \in Sessions
               PROVE  ErrorTells(t)'
    BY DEF ErrorsTellStatus
  <2>1. ErrorTells(t)
    BY DEF ErrorsTellStatus
  <2>2. CASE UNCHANGED vars
    BY <2>1, <2>2 DEF vars, ErrorTells
  <2>3. ASSUME NEW s \in Sessions, Session(s) PROVE ErrorTells(t)'
    <3>1. CASE s = t
      BY <2>1, <2>3, <3>1, OwnError
    <3>2. CASE s # t
      <4>1. at'[t] = at[t] /\ err'[t] = err[t] /\ status'[t] = status[t]
        BY <2>3, <3>2, OthersErrors
      <4> QED
        BY <2>1, <4>1 DEF ErrorTells
    <3> QED
      BY <3>1, <3>2
  <2> QED
    BY <2>2, <2>3 DEF Next
<1> QED
  BY <1>1, <1>2, ClientTypeCorrect, PTL DEF Spec

-----------------------------------------------------------------------------
(* The counter that TikTok.mu makes of the count *)

Over == {s \in Sessions : at[s] = "closed"}

\* Outside the lock nobody enters or leaves, and under it one session does,
\* with the count.
LEMMA StepIsCounterStep ==
  ASSUME TypeOK, SeenFresh, NEW s \in Sessions, Step(s) \/ Count(s)
  PROVE  \/ UNCHANGED <<streams, Inside, Over>>
         \/ /\ s \notin Inside \cup Over /\ Inside' = Inside \cup {s}
            /\ streams' = streams + 1 /\ Over' = Over
         \/ /\ s \in Inside /\ Inside' = Inside \ {s} /\ Over' = Over \cup {s}
            /\ streams' = streams - 1
<1>1. CASE Step(s)
  <2>1. PICK pc \in States : Moves(s, pc)
    BY <1>1 DEF Step
  <2>2. \A t \in Sessions : Counted(t)' <=> Counted(t)
    BY <2>1 DEF Moves, TypeOK, Counted, Outside
  <2>3. \A t \in Sessions : (at'[t] = "closed") <=> (at[t] = "closed")
    BY <2>1 DEF Moves, TypeOK
  <2> QED
    BY <2>1, <2>2, <2>3 DEF Moves, countVars, Inside, Over
<1>2. CASE Lock(s)
  <2>1. UNCHANGED streams /\ Inside' = Inside /\ Over' = Over
    BY <1>2 DEF Lock, To, TypeOK, Counted, Inside, Over
  <2> QED
    BY <2>1
<1>3. CASE CountUp(s)
  <2>1. seen[s] = streams
    BY <1>3 DEF CountUp, TypeOK, SeenFresh
  <2>2. s \notin Inside \cup Over /\ Inside' = Inside \cup {s} /\ Over' = Over
    BY <1>3 DEF CountUp, To, TypeOK, Inside, Counted, Over
  <2> QED
    BY <1>3, <2>1, <2>2 DEF CountUp
<1>4. CASE CountDown(s)
  <2>1. seen[s] = streams
    BY <1>4 DEF CountDown, TypeOK, SeenFresh
  <2>2. s \in Inside /\ Inside' = Inside \ {s} /\ Over' = Over \cup {s}
    BY <1>4 DEF CountDown, To, TypeOK, Inside, Counted, Over
  <2> QED
    BY <1>4, <2>1, <2>2 DEF CountDown
<1> QED
  BY <1>1, <1>2, <1>3, <1>4 DEF Count

\* The loads and stores under TikTok.mu are steps of an atomic counter.
THEOREM MutexMakesCounter == Spec => ImplementsStreamCount
<1>1. Init => StreamsCounter!Init
  BY DEF Init, StreamsCounter!Init, Counted
<1>2. ClientInv /\ [Next]_vars => [StreamsCounter!Next]_(StreamsCounter!vars)
  <2> SUFFICES ASSUME ClientInv, [Next]_vars
               PROVE  [StreamsCounter!Next]_(StreamsCounter!vars)
    OBVIOUS
  <2>1. CASE UNCHANGED vars
    BY <2>1 DEF vars, StreamsCounter!vars, Counted
  <2>2. ASSUME NEW s \in Sessions, Session(s)
        PROVE  [StreamsCounter!Next]_(StreamsCounter!vars)
    <3>1. TypeOK /\ SeenFresh /\ (Step(s) \/ Count(s))
      BY <2>2, MoveOrCount DEF ClientInv
    <3>2. CASE UNCHANGED <<streams, Inside, Over>>
      BY <3>2 DEF StreamsCounter!vars, Inside, Over
    <3>3. CASE /\ s \notin Inside \cup Over /\ Inside' = Inside \cup {s}
               /\ streams' = streams + 1 /\ Over' = Over
      BY <3>3 DEF StreamsCounter!Next, StreamsCounter!Enter, Inside, Over
    <3>4. CASE /\ s \in Inside /\ Inside' = Inside \ {s} /\ Over' = Over \cup {s}
               /\ streams' = streams - 1
      BY <3>4 DEF StreamsCounter!Next, StreamsCounter!Leave, Inside, Over
    <3> QED
      BY <3>1, <3>2, <3>3, <3>4, StepIsCounterStep
  <2> QED
    BY <2>1, <2>2 DEF Next
<1> QED
  BY <1>1, <1>2, ClientInvariant, PTL DEF Spec, ImplementsStreamCount, StreamsCounter!Spec
=============================================================================
