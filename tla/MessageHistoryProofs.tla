------------------------- MODULE MessageHistoryProofs -------------------------
(***************************************************************************)
(* MessageHistory reports a message as new once in a timeout, for every    *)
(* number of sessions and messages and every length of the timeout.        *)
(***************************************************************************)
EXTENDS MessageHistory, SequenceTheorems, TLAPS

\* What every step preserves.
HistoryInv == TypeOK /\ FreshOnce /\ HistoryWasNew /\ EntryIsLastNew

-----------------------------------------------------------------------------
(* Lemmas *)

\* The log grows by one entry and keeps the others.
LEMMA RememberAppends ==
  ASSUME TypeOK, NEW s \in Sessions, NEW m \in Message, NEW h \in BOOLEAN,
         Remember(s, m, h)
  PROVE  /\ parsed' \in Seq(Parsed)
         /\ Len(parsed) \in Nat /\ Len(parsed') = Len(parsed) + 1
         /\ \A i \in 1..Len(parsed) : parsed'[i] = parsed[i] /\ parsed[i] \in Parsed
         /\ parsed'[Len(parsed) + 1].id = m.id /\ parsed'[Len(parsed) + 1].at = now
         /\ parsed'[Len(parsed) + 1].history <=> h
         /\ parsed'[Len(parsed) + 1].flagged <=> m.flagged
<1> DEFINE e == [session |-> s, id |-> m.id, flagged |-> m.flagged, history |-> h, at |-> now]
<1>1. e \in Parsed
  BY DEF TypeOK, Parsed, Message
<1>2. parsed \in Seq(Parsed) /\ parsed' = Append(parsed, e)
  BY DEF TypeOK, Remember
<1> HIDE DEF e
<1>3. parsed' \in Seq(Parsed) /\ Len(parsed) \in Nat /\ Len(parsed') = Len(parsed) + 1
  BY <1>1, <1>2, AppendProperties, LenProperties
<1>4. \A i \in 1..Len(parsed) : parsed'[i] = parsed[i] /\ parsed[i] \in Parsed
  BY <1>1, <1>2, AppendProperties, ElementOfSeq
<1>5. parsed'[Len(parsed) + 1] = e
  BY <1>1, <1>2, AppendProperties
<1> QED
  BY <1>3, <1>4, <1>5 DEF e

\* An entry of the log that is history, of a message the server flagged.
LEMMA FlaggedStep ==
  ASSUME HistoryInv, NEW s \in Sessions, NEW m \in Message, ParseFlagged(s, m)
  PROVE  HistoryInv'
<1> DEFINE n == Len(parsed)
<1>1. /\ parsed' \in Seq(Parsed) /\ n \in Nat /\ Len(parsed') = n + 1
      /\ \A i \in 1..n : parsed'[i] = parsed[i]
      /\ parsed'[n + 1].history /\ parsed'[n + 1].flagged
  <2>1. Remember(s, m, TRUE) /\ m.flagged
    BY DEF ParseFlagged
  <2> QED
    BY <2>1, RememberAppends DEF HistoryInv
<1>2. now' = now /\ deadline' = deadline
  BY DEF ParseFlagged
<1>3. TypeOK'
  BY <1>1, <1>2 DEF HistoryInv, TypeOK
<1>4. FreshOnce'
  BY <1>1, <1>2 DEF HistoryInv, FreshOnce, Fresh, SameId
<1>5. HistoryWasNew'
  BY <1>1, <1>2 DEF HistoryInv, HistoryWasNew, Fresh, SameId
<1>6. EntryIsLastNew'
  BY <1>1, <1>2 DEF HistoryInv, EntryIsLastNew, Fresh
<1> QED
  BY <1>3, <1>4, <1>5, <1>6 DEF HistoryInv

\* A message that is looked up and found.
LEMMA SeenStep ==
  ASSUME HistoryInv, NEW s \in Sessions, NEW m \in Message, ~m.flagged, now' = now,
         CachedHistory(m.id, TRUE), Remember(s, m, TRUE)
  PROVE  HistoryInv'
<1> DEFINE n == Len(parsed)
<1>1. /\ parsed' \in Seq(Parsed) /\ n \in Nat /\ Len(parsed') = n + 1
      /\ \A i \in 1..n : parsed'[i] = parsed[i]
      /\ parsed'[n + 1].history
      /\ parsed'[n + 1].id = m.id /\ parsed'[n + 1].at = now
  BY RememberAppends DEF HistoryInv
<1>2. m.id \in Ids /\ now \in Nat
  BY DEF HistoryInv, TypeOK, Message
<1>3. deadline' = deadline /\ deadline[m.id] # 0 /\ now <= deadline[m.id]
  BY <1>2 DEF HistoryInv, TypeOK, CachedHistory, MayBePresent
<1>4. TypeOK'
  BY <1>1, <1>3 DEF HistoryInv, TypeOK
<1>5. FreshOnce'
  BY <1>1 DEF HistoryInv, FreshOnce, Fresh, SameId
<1>6. HistoryWasNew'
  <2>1. PICK k \in 1..n : /\ Fresh(k) /\ parsed[k].id = m.id
                          /\ deadline[m.id] = parsed[k].at + Timeout
    BY <1>2, <1>3 DEF HistoryInv, EntryIsLastNew
  <2> SUFFICES ASSUME NEW j \in 1..Len(parsed'), parsed'[j].history, ~parsed'[j].flagged
               PROVE  \E i \in 1..(j - 1) : /\ Fresh(i)' /\ SameId(i, j)'
                                            /\ parsed'[j].at <= parsed'[i].at + Timeout
    BY DEF HistoryWasNew
  <2>2. CASE j = n + 1
    BY <2>1, <2>2, <1>1, <1>3 DEF Fresh, SameId
  <2>3. CASE j \in 1..n
    BY <2>3, <1>1 DEF HistoryInv, HistoryWasNew, Fresh, SameId
  <2> QED
    BY <2>2, <2>3, <1>1
<1>7. EntryIsLastNew'
  BY <1>1, <1>3 DEF HistoryInv, EntryIsLastNew, Fresh
<1> QED
  BY <1>4, <1>5, <1>6, <1>7 DEF HistoryInv

\* A message that is looked up and not found.
LEMMA NewStep ==
  ASSUME HistoryInv, NEW s \in Sessions, NEW m \in Message, ~m.flagged, now' = now,
         CachedHistory(m.id, FALSE), Remember(s, m, FALSE)
  PROVE  HistoryInv'
<1> DEFINE n == Len(parsed)
<1>1. /\ parsed' \in Seq(Parsed) /\ n \in Nat /\ Len(parsed') = n + 1
      /\ \A i \in 1..n : parsed'[i] = parsed[i] /\ parsed[i] \in Parsed
      /\ ~parsed'[n + 1].history
      /\ parsed'[n + 1].id = m.id /\ parsed'[n + 1].at = now
  BY RememberAppends DEF HistoryInv
<1>2. m.id \in Ids /\ now \in Nat \ {0} /\ Timeout \in Nat \ {0} /\ deadline \in [Ids -> Nat]
  BY HistoryAssumption DEF HistoryInv, TypeOK, Message
<1>3. /\ deadline' = [deadline EXCEPT ![m.id] = now + Timeout]
      /\ now >= deadline[m.id]
  BY <1>2 DEF CachedHistory, MayBeAbsent
<1>4. \A i \in 1..n : parsed[i].at \in Nat
  BY <1>1 DEF Parsed
<1>5. \A i \in 1..n : Fresh(i) /\ parsed[i].id = m.id => parsed[i].at + Timeout <= now
  BY <1>2, <1>3, <1>4 DEF HistoryInv, EntryIsLastNew
<1>6. TypeOK'
  BY <1>1, <1>2, <1>3 DEF HistoryInv, TypeOK
<1>7. FreshOnce'
  <2> SUFFICES ASSUME NEW i \in 1..Len(parsed'), NEW j \in 1..Len(parsed'),
                      i < j, Fresh(i)', Fresh(j)', SameId(i, j)'
               PROVE  parsed'[i].at + Timeout <= parsed'[j].at
    BY DEF FreshOnce
  <2>1. CASE j = n + 1
    BY <2>1, <1>1, <1>5 DEF Fresh, SameId
  <2>2. CASE j \in 1..n
    BY <2>2, <1>1 DEF HistoryInv, FreshOnce, Fresh, SameId
  <2> QED
    BY <2>1, <2>2, <1>1
<1>8. HistoryWasNew'
  BY <1>1 DEF HistoryInv, HistoryWasNew, Fresh, SameId
<1>9. EntryIsLastNew'
  <2> SUFFICES ASSUME NEW x \in Ids
               PROVE  /\ \A i \in 1..Len(parsed') :
                            Fresh(i)' /\ parsed'[i].id = x => parsed'[i].at + Timeout <= deadline'[x]
                      /\ deadline'[x] # 0 =>
                           \E i \in 1..Len(parsed') :
                              Fresh(i)' /\ parsed'[i].id = x /\ deadline'[x] = parsed'[i].at + Timeout
    BY DEF EntryIsLastNew
  <2>1. CASE x = m.id
    <3>1. deadline'[x] = now + Timeout
      BY <2>1, <1>2, <1>3
    <3>2. \A i \in 1..n : Fresh(i)' /\ parsed'[i].id = x => parsed'[i].at + Timeout <= deadline'[x]
      BY <2>1, <3>1, <1>1, <1>2, <1>4, <1>5 DEF Fresh
    <3>3. ~parsed'[n + 1].history /\ parsed'[n + 1].id = x /\ deadline'[x] = parsed'[n + 1].at + Timeout
      BY <2>1, <3>1, <1>1 DEF Fresh
    <3>4. \A i \in 1..Len(parsed') : Fresh(i)' /\ parsed'[i].id = x => parsed'[i].at + Timeout <= deadline'[x]
      BY <3>1, <3>2, <3>3, <1>1, <1>2
    <3>5. \E i \in 1..Len(parsed') :
             ~parsed'[i].history /\ parsed'[i].id = x /\ deadline'[x] = parsed'[i].at + Timeout
      BY <3>3, <1>1
    <3> QED
      BY <3>4, <3>5 DEF Fresh
  <2>2. CASE x # m.id
    <3>1. deadline'[x] = deadline[x]
      BY <2>2, <1>2, <1>3
    <3> QED
      BY <2>2, <3>1, <1>1 DEF HistoryInv, EntryIsLastNew, Fresh
  <2> QED
    BY <2>1, <2>2
<1> QED
  BY <1>6, <1>7, <1>8, <1>9 DEF HistoryInv

LEMMA HistoryStep == HistoryInv /\ [Next]_vars => HistoryInv'
<1> SUFFICES ASSUME HistoryInv, [Next]_vars PROVE HistoryInv'
  OBVIOUS
<1>1. ASSUME NEW s \in Sessions, NEW m \in Message, ParseFlagged(s, m) PROVE HistoryInv'
  BY <1>1, FlaggedStep
<1>2. ASSUME NEW s \in Sessions, NEW m \in Message, ParseNew(s, m) PROVE HistoryInv'
  <2>1. PICK p \in BOOLEAN : CachedHistory(m.id, p) /\ Remember(s, m, p)
    BY <1>2 DEF ParseNew
  <2>2. now' = now /\ ~m.flagged
    BY <1>2 DEF ParseNew
  <2> QED
    BY <2>1, <2>2, SeenStep, NewStep
<1>3. CASE UNCHANGED vars
  BY <1>3 DEF vars, HistoryInv, TypeOK, FreshOnce, HistoryWasNew, EntryIsLastNew, Fresh, SameId
<1>4. CASE Tick
  <2>1. now' \in Nat \ {0} /\ deadline' = deadline /\ parsed' = parsed
    BY <1>4 DEF Tick, HistoryInv, TypeOK
  <2> QED
    BY <2>1 DEF HistoryInv, TypeOK, FreshOnce, HistoryWasNew, EntryIsLastNew, Fresh, SameId
<1> QED
  BY <1>1, <1>2, <1>3, <1>4 DEF Next, ParseToNothing

LEMMA HistoryStart == Init => HistoryInv
<1> SUFFICES ASSUME Init PROVE HistoryInv
  OBVIOUS
<1>1. parsed \in Seq(Parsed) /\ parsed = <<>>
  BY EmptySeq DEF Init
<1>2. TypeOK
  BY <1>1 DEF Init, TypeOK
<1>3. FreshOnce /\ HistoryWasNew
  BY <1>1 DEF FreshOnce, HistoryWasNew
<1>4. EntryIsLastNew
  BY <1>1 DEF Init, EntryIsLastNew
<1> QED
  BY <1>2, <1>3, <1>4 DEF HistoryInv

-----------------------------------------------------------------------------
(* Theorems *)

\* In every reachable state the log and the cache have their types.
THEOREM HistoryTypeCorrect == Spec => []TypeOK
<1>1. HistoryInv => TypeOK
  BY DEF HistoryInv
<1> QED
  BY <1>1, HistoryStart, HistoryStep, PTL DEF Spec

\* However many sessions parse the same message, and however often, it is new
\* at most once in a timeout (utils.go:306-309).
THEOREM NewOnlyOnce == Spec => []FreshOnce
<1>1. HistoryInv => FreshOnce
  BY DEF HistoryInv
<1> QED
  BY <1>1, HistoryStart, HistoryStep, PTL DEF Spec

\* An event that is called history without a flag of the server was reported
\* as new within the timeout before it.
THEOREM HistoryHasOrigin == Spec => []HistoryWasNew
<1>1. HistoryInv => HistoryWasNew
  BY DEF HistoryInv
<1> QED
  BY <1>1, HistoryStart, HistoryStep, PTL DEF Spec

\* Every entry of the cache expires a timeout after its message was last new.
THEOREM EntriesExact == Spec => []EntryIsLastNew
<1>1. HistoryInv => EntryIsLastNew
  BY DEF HistoryInv
<1> QED
  BY <1>1, HistoryStart, HistoryStep, PTL DEF Spec
=============================================================================
