--------------------------- MODULE SignLimiterProofs ---------------------------
(***************************************************************************)
(* The permissions of SignLimiter are spaced for every number of callers,  *)
(* every limit the signer may advertise and every resolution of the clock, *)
(* so that no stretch of time has too many of them; and no caller sleeps   *)
(* longer than for those ahead of it.                                      *)
(***************************************************************************)
EXTENDS SignLimiter, SequenceTheorems, FiniteSetTheorems, WellFoundedInduction, TLAPS

-----------------------------------------------------------------------------
(* Lemmas *)

LEMMA IntervalNat ==
  ASSUME TypeOK, rate > 0
  PROVE  Interval \in Nat
  BY LimiterAssumption DEF TypeOK, Interval

\* The permission that Take adds is due an interval after the last.
LEMMA DueLater ==
  ASSUME TypeOK, rate > 0
  PROVE  /\ Due \in Nat
         /\ issued # <<>> => issued[Len(issued)] + Interval <= Due
<1>1. Interval \in Nat
  BY IntervalNat
<1>2. issued # <<>> => issued[Len(issued)] \in Nat
  <2> SUFFICES ASSUME issued # <<>> PROVE issued[Len(issued)] \in Nat
    OBVIOUS
  <2>1. issued \in Seq(Nat)
    BY DEF TypeOK
  <2>2. Len(issued) \in 1..Len(issued)
    BY <2>1, EmptySeq, LenProperties
  <2> QED
    BY <2>1, <2>2, ElementOfSeq
<1>3. now \in Nat
  BY DEF TypeOK
<1> QED
  BY <1>1, <1>2, <1>3 DEF Due

\* One interval more to the next permission.
LEMMA OneMore ==
  ASSUME NEW i \in Nat, NEW n \in Nat, NEW k \in Nat
  PROVE  (n + 1 - i) * k = (n - i) * k + k
  OBVIOUS

\* A spaced sequence stays spaced when a later permission is appended.
LEMMA TakeSpaced ==
  ASSUME NEW c \in Callers, LimiterInv, Take(c)
  PROVE  PermitsSpaced'
<1>1. setup = "ready" /\ rate > 0 /\ rate' = rate
  BY DEF LimiterInv, TypeOK, Take
<1>2. Interval \in Nat /\ Interval' = Interval
  BY <1>1, IntervalNat DEF LimiterInv, Interval
<1>3. issued \in Seq(Nat) /\ Due \in Nat /\ issued' = Append(issued, Due)
  BY <1>1, DueLater DEF LimiterInv, TypeOK, Take
<1>4. /\ Len(issued) \in Nat
      /\ Len(issued') = Len(issued) + 1
      /\ issued'[Len(issued) + 1] = Due
      /\ \A i \in 1..Len(issued) : issued'[i] = issued[i] /\ issued[i] \in Nat
  BY <1>3, AppendProperties, LenProperties, ElementOfSeq
<1> SUFFICES ASSUME NEW i \in 1..Len(issued'), NEW j \in 1..Len(issued'), i < j
             PROVE  issued'[i] + (j - i) * Interval <= issued'[j]
  BY <1>2 DEF PermitsSpaced
<1>5. i \in 1..Len(issued)
  BY <1>4
<1>6. CASE j \in 1..Len(issued)
  <2>1. issued[i] + (j - i) * Interval <= issued[j]
    BY <1>5, <1>6 DEF LimiterInv, PermitsSpaced
  <2> QED
    BY <2>1, <1>4, <1>5, <1>6
<1>7. CASE j = Len(issued) + 1
  <2> DEFINE n == Len(issued)
  <2>1. n \in 1..n /\ issued # <<>>
    BY <1>3, <1>4, <1>5, EmptySeq
  <2>2. issued[n] + Interval <= Due
    BY <2>1, <1>1, DueLater DEF LimiterInv
  <2>3. issued[i] + (n - i) * Interval <= issued[n]
    <3>1. CASE i < n
      BY <3>1, <1>5, <2>1 DEF LimiterInv, PermitsSpaced
    <3>2. CASE i = n
      <4>1. (n - i) * Interval = 0
        BY <3>2, <1>2, <1>4
      <4> QED
        BY <3>2, <4>1, <1>4, <2>1
    <3> QED
      BY <3>1, <3>2, <1>4, <1>5
  <2>4. (j - i) * Interval = (n - i) * Interval + Interval
    BY <1>2, <1>4, <1>5, <1>7, OneMore
  <2>5. issued[i] \in Nat /\ issued[n] \in Nat /\ (n - i) * Interval \in Nat
    BY <1>2, <1>4, <1>5, <2>1
  <2> QED
    BY <2>2, <2>3, <2>4, <2>5, <1>2, <1>3, <1>4, <1>5, <1>7
<1> QED
  BY <1>4, <1>6, <1>7

LEMMA TakeTyped ==
  ASSUME NEW c \in Callers, LimiterInv, Take(c)
  PROVE  TypeOK'
<1>1. setup = "ready" /\ rate > 0
  BY DEF LimiterInv, TypeOK, Take
<1>2. Due \in Nat
  BY <1>1, DueLater DEF LimiterInv
<1>3. issued' \in Seq(Nat)
  BY <1>2, AppendProperties DEF LimiterInv, TypeOK, Take
<1>4. slot' \in [Callers -> Nat] /\ caller' \in [Callers -> {"idle", "sleeping"}]
  BY <1>2 DEF LimiterInv, TypeOK, Take
<1> QED
  BY <1>1, <1>3, <1>4 DEF LimiterInv, TypeOK, Take

\* What the last permission is, before and after Take.
LEMMA TakeLast ==
  ASSUME NEW c \in Callers, LimiterInv, Take(c)
  PROVE  /\ Interval \in Nat /\ Interval' = Interval
         /\ Due \in Nat /\ now \in Nat /\ now' = now
         /\ issued' # <<>> /\ issued'[Len(issued')] = Due
         /\ issued # <<>> => issued[Len(issued)] \in Nat
         /\ caller'[c] = "sleeping" /\ slot'[c] = Due
         /\ \A d \in Callers : d # c => caller'[d] = caller[d] /\ slot'[d] = slot[d]
         /\ caller[c] = "idle"
<1>1. rate > 0 /\ rate' = rate /\ now' = now /\ now \in Nat /\ caller[c] = "idle"
  BY DEF LimiterInv, TypeOK, Take
<1>2. Interval \in Nat /\ Interval' = Interval
  BY <1>1, IntervalNat DEF LimiterInv, Interval
<1>3. issued \in Seq(Nat) /\ Due \in Nat /\ issued' = Append(issued, Due)
  BY <1>1, DueLater DEF LimiterInv, TypeOK, Take
<1>4. Len(issued') = Len(issued) + 1 /\ issued'[Len(issued) + 1] = Due /\ issued' # <<>>
  BY <1>3, AppendProperties
<1>5. issued # <<>> => issued[Len(issued)] \in Nat
  BY <1>3, EmptySeq, LenProperties, ElementOfSeq
<1>6. /\ caller'[c] = "sleeping" /\ slot'[c] = Due
      /\ \A d \in Callers : d # c => caller'[d] = caller[d] /\ slot'[d] = slot[d]
  BY DEF LimiterInv, TypeOK, Take
<1> QED
  BY <1>1, <1>2, <1>3, <1>4, <1>5, <1>6

\* The new permission is due now, or an interval behind one that is held.
LEMMA TakeChained ==
  ASSUME NEW c \in Callers, LimiterInv, Take(c)
  PROVE  LastHeld' /\ SleepersChained'
<1> DEFINE last == issued[Len(issued)]
<1> HIDE DEF last
<1>1. /\ Interval \in Nat /\ Interval' = Interval
      /\ Due \in Nat /\ now \in Nat /\ now' = now
      /\ issued' # <<>> /\ issued'[Len(issued')] = Due
      /\ issued # <<>> => last \in Nat
      /\ caller'[c] = "sleeping" /\ slot'[c] = Due
      /\ \A d \in Callers : d # c => caller'[d] = caller[d] /\ slot'[d] = slot[d]
      /\ caller[c] = "idle"
  BY TakeLast DEF last
<1>2. Due = now \/ (issued # <<>> /\ Due = last + Interval /\ now <= last + Interval)
  BY <1>1 DEF Due, last
<1>3. \/ Due <= now
      \/ /\ Interval > 0
         /\ \/ Due <= now + Interval
            \/ \E h \in Callers : h # c /\ caller[h] = "sleeping" /\ slot[h] = Due - Interval
  <2>1. CASE Due = now
    BY <2>1, <1>1
  <2>2. CASE issued # <<>> /\ Due = last + Interval /\ last <= now
    BY <2>2, <1>1
  <2>3. CASE issued # <<>> /\ Due = last + Interval /\ last > now
    <3>1. Interval > 0 /\ \E h \in Callers : caller[h] = "sleeping" /\ slot[h] = last
      BY <2>3, <1>1 DEF LimiterInv, LastHeld, last
    <3>2. Due - Interval = last
      BY <2>3, <1>1
    <3> QED
      BY <3>1, <3>2, <1>1
  <2> QED
    BY <2>1, <2>2, <2>3, <1>1, <1>2
<1>4. LastHeld'
  BY <1>1, <1>3 DEF LastHeld
<1>5. SleepersChained'
  <2> SUFFICES ASSUME NEW d \in Callers, caller'[d] = "sleeping"
               PROVE  /\ slot'[d] <= now \/ Interval > 0
                      /\ \/ slot'[d] <= now + Interval
                         \/ \E h \in Callers : caller'[h] = "sleeping" /\ slot'[h] = slot'[d] - Interval
    BY <1>1 DEF SleepersChained
  <2>1. CASE d = c
    BY <2>1, <1>1, <1>3
  <2>2. CASE d # c
    <3>1. /\ slot[d] <= now \/ Interval > 0
          /\ \/ slot[d] <= now + Interval
             \/ \E h \in Callers : caller[h] = "sleeping" /\ slot[h] = slot[d] - Interval
      BY <2>2, <1>1 DEF LimiterInv, SleepersChained
    <3> QED
      BY <3>1, <2>2, <1>1
  <2> QED
    BY <2>1, <2>2
<1> QED
  BY <1>4, <1>5

\* Who returns has nobody behind it who still has more than an interval to go.
LEMMA ReturnChained ==
  ASSUME NEW c \in Callers, LimiterInv, TakeReturns(c)
  PROVE  LastHeld' /\ SleepersChained'
<1>1. /\ caller[c] = "sleeping" /\ slot[c] <= now /\ caller'[c] = "idle"
      /\ \A d \in Callers : d # c => caller'[d] = caller[d] /\ slot'[d] = slot[d]
      /\ now' = now /\ issued' = issued /\ rate' = rate
  BY DEF TakeReturns, LimiterInv, TypeOK
<1>2. now \in Nat /\ slot \in [Callers -> Nat] /\ Interval' = Interval
  BY <1>1 DEF LimiterInv, TypeOK, Interval
<1>3. issued # <<>>
  BY <1>1 DEF LimiterInv, SleepersChained
<1>4. Interval \in Nat
  BY <1>3, IntervalNat DEF LimiterInv, TypeOK
<1>5. LastHeld'
  <2> DEFINE last == issued[Len(issued)]
  <2> HIDE DEF last
  <2> SUFFICES ASSUME ~(last <= now)
               PROVE  Interval > 0 /\ \E d \in Callers : caller'[d] = "sleeping" /\ slot'[d] = last
    BY <1>1, <1>2 DEF LastHeld, last
  <2>1. Interval > 0 /\ \E d \in Callers : caller[d] = "sleeping" /\ slot[d] = last
    BY <1>3 DEF LimiterInv, LastHeld, last
  <2>2. PICK d \in Callers : caller[d] = "sleeping" /\ slot[d] = last
    BY <2>1
  <2>3. d # c
    BY <2>2, <1>1
  <2> QED
    BY <2>1, <2>2, <2>3, <1>1
<1>6. SleepersChained'
  <2> SUFFICES ASSUME NEW d \in Callers, caller'[d] = "sleeping"
               PROVE  /\ slot'[d] <= now \/ Interval > 0
                      /\ \/ slot'[d] <= now + Interval
                         \/ \E h \in Callers : caller'[h] = "sleeping" /\ slot'[h] = slot'[d] - Interval
    BY <1>1, <1>2, <1>3 DEF SleepersChained
  <2>1. d # c
    BY <1>1
  <2>2. /\ slot[d] <= now \/ Interval > 0
        /\ \/ slot[d] <= now + Interval
           \/ \E h \in Callers : caller[h] = "sleeping" /\ slot[h] = slot[d] - Interval
    BY <2>1, <1>1 DEF LimiterInv, SleepersChained
  <2>3. CASE slot[d] <= now + Interval
    BY <2>1, <2>2, <2>3, <1>1
  <2>4. ASSUME ~(slot[d] <= now + Interval)
        PROVE  \E h \in Callers : caller'[h] = "sleeping" /\ slot'[h] = slot'[d] - Interval
    <3>1. PICK h \in Callers : caller[h] = "sleeping" /\ slot[h] = slot[d] - Interval
      BY <2>2, <2>4
    <3>2. slot[h] > now
      BY <3>1, <2>4, <1>2, <1>4
    <3>3. h # c
      BY <3>2, <1>1, <1>2
    <3> QED
      BY <3>1, <3>3, <2>1, <1>1
  <2> QED
    BY <2>1, <2>2, <2>3, <2>4, <1>1
<1> QED
  BY <1>5, <1>6

LEMMA TickChained ==
  ASSUME LimiterInv, Tick
  PROVE  LastHeld' /\ SleepersChained'
<1>1. /\ now \in Nat /\ now' = now + 1 /\ issued' = issued /\ caller' = caller /\ slot' = slot
      /\ slot \in [Callers -> Nat] /\ Interval' = Interval
  BY DEF Tick, LimiterInv, TypeOK, Interval
<1>2. issued # <<>> => Interval \in Nat /\ issued[Len(issued)] \in Nat
  <2>1. issued # <<>> => Interval \in Nat
    BY IntervalNat DEF LimiterInv, TypeOK
  <2>2. issued \in Seq(Nat)
    BY DEF LimiterInv, TypeOK
  <2>3. issued # <<>> => issued[Len(issued)] \in Nat
    BY <2>2, EmptySeq, LenProperties, ElementOfSeq
  <2> QED
    BY <2>1, <2>3
<1>3. LastHeld'
  BY <1>1, <1>2 DEF LimiterInv, LastHeld
<1>4. SleepersChained'
  <2> SUFFICES ASSUME NEW c \in Callers, caller[c] = "sleeping"
               PROVE  /\ issued # <<>>
                      /\ slot[c] <= now + 1 \/ Interval > 0
                      /\ \/ slot[c] <= now + 1 + Interval
                         \/ \E d \in Callers : caller[d] = "sleeping" /\ slot[d] = slot[c] - Interval
    BY <1>1 DEF SleepersChained
  <2>1. /\ issued # <<>>
        /\ slot[c] <= now \/ Interval > 0
        /\ \/ slot[c] <= now + Interval
           \/ \E d \in Callers : caller[d] = "sleeping" /\ slot[d] = slot[c] - Interval
    BY DEF LimiterInv, SleepersChained
  <2> QED
    BY <2>1, <1>1, <1>2
<1> QED
  BY <1>3, <1>4

LEMMA LimiterStep == LimiterInv /\ [Next]_vars => LimiterInv'
<1> SUFFICES ASSUME LimiterInv, [Next]_vars PROVE LimiterInv'
  OBVIOUS
<1>1. ASSUME LimitsUnknown \/ CreateLimiter
      PROVE  LimiterInv'
  <2>1. /\ issued = <<>> /\ issued' = <<>>
        /\ caller' = caller /\ slot' = slot /\ now' = now /\ limits' = limits /\ asked' = asked
    BY <1>1 DEF LimitsUnknown, CreateLimiter, LimiterInv, TypeOK
  <2>2. PermitsSpaced' /\ LastHeld'
    BY <2>1 DEF PermitsSpaced, LastHeld
  <2>3. SleepersChained'
    BY <2>1 DEF LimiterInv, SleepersChained
  <2>4. limits.minute \in Nat /\ rate \in Nat
    BY LimiterAssumption DEF LimiterInv, TypeOK
  <2>5. rate' \in Nat
    BY <1>1, <2>4 DEF LimitsUnknown, CreateLimiter, DefaultRate
  <2>6. setup' \in {"failed", "panicked", "ready"} /\ (setup' = "ready" => rate' > 0)
    BY <1>1, <2>5 DEF LimitsUnknown, CreateLimiter
  <2>7. TypeOK'
    BY <2>1, <2>5, <2>6 DEF LimiterInv, TypeOK
  <2> QED
    BY <2>2, <2>3, <2>7 DEF LimiterInv
<1>2. CASE Tick
  <2>1. TypeOK'
    BY <1>2 DEF Tick, LimiterInv, TypeOK
  <2>2. PermitsSpaced'
    BY <1>2 DEF Tick, LimiterInv, PermitsSpaced, Interval
  <2> QED
    BY <1>2, <2>1, <2>2, TickChained DEF LimiterInv
<1>3. ASSUME NEW c \in Callers, Take(c) PROVE LimiterInv'
  BY <1>3, TakeSpaced, TakeTyped, TakeChained DEF LimiterInv
<1>4. ASSUME NEW c \in Callers, TakeReturns(c) PROVE LimiterInv'
  <2>1. TypeOK'
    BY <1>4 DEF TakeReturns, LimiterInv, TypeOK
  <2>2. PermitsSpaced'
    BY <1>4 DEF TakeReturns, LimiterInv, PermitsSpaced, Interval
  <2> QED
    BY <1>4, <2>1, <2>2, ReturnChained DEF LimiterInv
<1>5. CASE UNCHANGED vars
  BY <1>5 DEF vars, LimiterInv, TypeOK, PermitsSpaced, LastHeld, SleepersChained, Interval
<1> QED
  BY <1>1, <1>2, <1>3, <1>4, <1>5 DEF Next

-----------------------------------------------------------------------------
(* How long a caller sleeps *)

LEMMA LeastNat ==
  ASSUME NEW T \in SUBSET Nat, T # {}
  PROVE  \E n \in T : \A m \in T : n <= m
<1> DEFINE U == {1..n : n \in T}
<1>1. U \subseteq FiniteSubsetsOf(Nat) /\ U # {}
  <2>1. \A n \in T : IsFiniteSet(1..n) /\ 1..n \in SUBSET Nat
    BY FS_Interval
  <2> QED
    BY <2>1 DEF FiniteSubsetsOf
<1> HIDE DEF U
<1>2. PICK u \in U : \A v \in U : ~(<<v, u>> \in StrictSubsetOrdering(Nat))
  BY <1>1, WFMin, FS_StrictSubsetOrderingWellFounded
<1>3. PICK n \in T : u = 1..n
  BY DEF U
<1>4. ASSUME NEW m \in T, ~(n <= m) PROVE FALSE
  <2>1. 1..m \in SUBSET Nat /\ 1..n \in SUBSET Nat /\ 1..m \subseteq 1..n
    BY <1>4
  <2>2. n \in 1..n /\ n \notin 1..m
    BY <1>4
  <2>3. <<1..m, 1..n>> \in StrictSubsetOrdering(Nat)
    BY <2>1, <2>2, Zenon DEF StrictSubsetOrdering
  <2>4. 1..m \in U
    BY DEF U
  <2> QED
    BY <1>2, <1>3, <2>3, <2>4
<1> QED
  BY <1>4

LEMMA AheadFinite ==
  ASSUME NEW c \in Callers
  PROVE  IsFiniteSet(Ahead(c)) /\ Cardinality(Ahead(c)) \in Nat
<1>1. Ahead(c) \subseteq Callers
  BY DEF Ahead
<1> QED
  BY <1>1, LimiterAssumption, FS_Subset, FS_CardinalityType

\* Who sleeps ahead of a caller has fewer ahead of it.
LEMMA AheadShrinks ==
  ASSUME TypeOK, NEW c \in Callers, NEW d \in Ahead(c)
  PROVE  d \in Callers /\ Cardinality(Ahead(d)) + 1 <= Cardinality(Ahead(c))
<1>1. d \in Callers /\ slot[d] < slot[c] /\ slot \in [Callers -> Nat]
  BY DEF Ahead, TypeOK
<1>2. Ahead(d) \cup {d} \subseteq Ahead(c) /\ d \notin Ahead(d)
  BY <1>1 DEF Ahead
<1>3. Cardinality(Ahead(d) \cup {d}) = Cardinality(Ahead(d)) + 1
  BY <1>1, <1>2, AheadFinite, FS_AddElement
<1>4. Cardinality(Ahead(d) \cup {d}) <= Cardinality(Ahead(c))
  BY <1>2, AheadFinite, FS_Subset
<1> QED
  BY <1>1, <1>3, <1>4

\* Products are not for the provers to find.
LEMMA MoreWaits ==
  ASSUME NEW j \in Nat, NEW n \in Nat, j + 1 <= n, NEW k \in Nat
  PROVE  /\ k <= (n + 1) * k
         /\ (j + 1) * k + k <= (n + 1) * k
<1>1. PICK m \in Nat : n = j + 1 + m
  <2>1. n - (j + 1) \in Nat /\ n = j + 1 + (n - (j + 1))
    OBVIOUS
  <2> QED
    BY <2>1
<1>2. (n + 1) * k = (j + 1) * k + k + m * k
  BY <1>1
<1>3. m * k \in Nat /\ (j + 1) * k \in Nat
  BY <1>1
<1> QED
  BY <1>2, <1>3

\* Of the callers that would wait too long the one with the fewest ahead of it
\* is an interval behind one that does not, and so does not either.
LEMMA ChainServes == LimiterInv => WaitsItsTurn
<1> SUFFICES ASSUME LimiterInv, ~WaitsItsTurn PROVE FALSE
  OBVIOUS
<1> DEFINE N(c) == Cardinality(Ahead(c))
           Late == {c \in Callers : caller[c] = "sleeping"
                                     /\ ~(slot[c] <= now + (N(c) + 1) * Interval)}
           T    == {N(c) : c \in Late}
<1>1. Late # {}
  BY DEF WaitsItsTurn
<1>2. \A c \in Callers : N(c) \in Nat
  BY AheadFinite
<1>3. T \in SUBSET Nat /\ T # {}
  BY <1>1, <1>2
<1> HIDE DEF T
<1>4. PICK n \in T : \A m \in T : n <= m
  BY <1>3, LeastNat
<1>5. PICK c \in Late : n = N(c)
  BY <1>4 DEF T
<1>6. now \in Nat /\ slot \in [Callers -> Nat] /\ TypeOK
  BY DEF LimiterInv, TypeOK
<1>7. /\ c \in Callers /\ caller[c] = "sleeping" /\ issued # <<>>
      /\ ~(slot[c] <= now + (N(c) + 1) * Interval)
  BY <1>5 DEF LimiterInv, SleepersChained
<1> HIDE DEF N
<1>8. Interval \in Nat
  BY <1>6, <1>7, IntervalNat DEF TypeOK
<1>9. ~(slot[c] <= now + Interval)
  <2>1. Interval <= (N(c) + 1) * Interval /\ (N(c) + 1) * Interval \in Nat
    <3>1. (N(c) + 1) * Interval = N(c) * Interval + Interval /\ N(c) * Interval \in Nat
      BY <1>2, <1>7, <1>8
    <3> QED
      BY <3>1, <1>8
  <2> QED
    BY <2>1, <1>6, <1>7, <1>8
<1>10. PICK d \in Callers : caller[d] = "sleeping" /\ slot[d] = slot[c] - Interval
  BY <1>7, <1>9 DEF LimiterInv, SleepersChained
<1>11. Interval > 0
  BY <1>6, <1>7, <1>8, <1>9 DEF LimiterInv, SleepersChained
<1>12. d \in Ahead(c)
  BY <1>6, <1>7, <1>8, <1>10, <1>11 DEF Ahead
<1>13. N(d) + 1 <= N(c)
  BY <1>6, <1>7, <1>12, AheadShrinks DEF N
<1>14. d \notin Late
  <2> SUFFICES ASSUME d \in Late PROVE FALSE
    OBVIOUS
  <2>1. N(c) <= N(d)
    BY <1>4, <1>5 DEF T
  <2> QED
    BY <2>1, <1>2, <1>7, <1>13
<1>15. slot[d] <= now + (N(d) + 1) * Interval
  BY <1>10, <1>14 DEF N
<1>16. (N(d) + 1) * Interval + Interval <= (N(c) + 1) * Interval
  BY <1>2, <1>7, <1>8, <1>13, MoreWaits
<1>17. (N(d) + 1) * Interval \in Nat /\ (N(c) + 1) * Interval \in Nat
  BY <1>2, <1>7, <1>8
<1> QED
  BY <1>6, <1>7, <1>8, <1>10, <1>15, <1>16, <1>17

-----------------------------------------------------------------------------
(* How many permissions a stretch of time has *)

LEMMA Factor ==
  ASSUME NEW m \in Nat, NEW n \in Nat, NEW k \in Nat, n <= m
  PROVE  n * k <= m * k
<1>1. PICK r \in Nat : m = n + r
  <2>1. m - n \in Nat /\ m = n + (m - n)
    OBVIOUS
  <2> QED
    BY <2>1
<1>2. m * k = n * k + r * k /\ r * k \in Nat /\ n * k \in Nat
  BY <1>1
<1> QED
  BY <1>2

\* The permissions of a stretch of n intervals lie between the first of them
\* and the n-th behind it.
LEMMA SpacedWindow ==
  ASSUME LimiterInv, NEW start \in Nat, NEW n \in Nat
  PROVE  Within(start, n * Interval) <= n
<1> DEFINE W == {i \in 1..Len(issued) : start <= issued[i] /\ issued[i] < start + n * Interval}
<1>1. issued \in Seq(Nat) /\ Len(issued) \in Nat
  BY LenProperties DEF LimiterInv, TypeOK
<1>2. CASE W = {}
  <2>1. Cardinality(W) = 0
    BY <1>2, FS_EmptySet
  <2> QED
    BY <2>1 DEF Within
<1>3. CASE W # {}
  <2>1. W \in SUBSET Nat
    BY <1>1
  <2>2. PICK f \in W : \A i \in W : f <= i
    BY <1>3, <2>1, LeastNat
  <2>3. issued # <<>>
    BY <1>1, <1>3, EmptySeq
  <2>4. Interval \in Nat
    BY <2>3, IntervalNat DEF LimiterInv, TypeOK
  <2>5. \A i \in 1..Len(issued) : issued[i] \in Nat
    BY <1>1, ElementOfSeq
  <2>6. W \subseteq f..(f + n - 1)
    <3> SUFFICES ASSUME NEW i \in W, ~(i <= f + n - 1) PROVE FALSE
      BY <2>1, <2>2
    <3>1. f \in 1..Len(issued) /\ i \in 1..Len(issued) /\ i - f \in Nat /\ n <= i - f
      BY <1>1, <2>2
    <3>2. issued[f] + (i - f) * Interval <= issued[i]
      <4>1. CASE f < i
        BY <3>1, <4>1 DEF LimiterInv, PermitsSpaced
      <4>2. CASE f = i
        <5>1. (i - f) * Interval = 0
          BY <4>2, <2>4, <3>1
        <5> QED
          BY <4>2, <5>1, <2>5, <3>1
      <4> QED
        BY <4>1, <4>2, <3>1
    <3>3. n * Interval <= (i - f) * Interval
      BY <2>4, <3>1, Factor
    <3>4. start <= issued[f] /\ issued[i] < start + n * Interval
      BY <2>2
    <3>5. n * Interval \in Nat /\ (i - f) * Interval \in Nat
      BY <2>4, <3>1
    <3> QED
      BY <2>5, <3>1, <3>2, <3>3, <3>4, <3>5
  <2>7. f \in Nat /\ IsFiniteSet(f..(f + n - 1)) /\ Cardinality(f..(f + n - 1)) <= n
    <3>1. f \in Nat
      BY <2>1, <2>2
    <3>2. f \in Int /\ f + n - 1 \in Int
      BY <3>1
    <3> DEFINE l == f + n - 1
    <3> HIDE DEF l
    <3>3. /\ IsFiniteSet(f..l)
          /\ Cardinality(f..l) = IF f > l THEN 0 ELSE l - f + 1
      BY <3>2, FS_Interval DEF l
    <3>4. (IF f > l THEN 0 ELSE l - f + 1) <= n
      BY <3>1 DEF l
    <3>5. IsFiniteSet(f..l) /\ Cardinality(f..l) <= n
      BY <3>3, <3>4
    <3> QED
      BY <3>1, <3>5 DEF l
  <2>8. Cardinality(W) <= Cardinality(f..(f + n - 1)) /\ IsFiniteSet(W)
    BY <2>6, <2>7, FS_Subset
  <2>9. Cardinality(W) \in Nat /\ Cardinality(f..(f + n - 1)) \in Nat
    BY <2>7, <2>8, FS_CardinalityType
  <2>10. Cardinality(W) <= n
    BY <2>7, <2>8, <2>9
  <2> QED
    BY <2>10 DEF Within
<1> QED
  BY <1>2, <1>3

\* A longer stretch has no fewer.
LEMMA WiderWindow ==
  ASSUME LimiterInv, NEW start \in Nat, NEW a \in Nat, NEW b \in Nat, a <= b
  PROVE  Within(start, a) <= Within(start, b)
<1> DEFINE W(k) == {i \in 1..Len(issued) : start <= issued[i] /\ issued[i] < start + k}
<1>1. issued \in Seq(Nat) /\ Len(issued) \in Nat
  BY LenProperties DEF LimiterInv, TypeOK
<1>2. \A i \in 1..Len(issued) : issued[i] \in Nat
  BY <1>1, ElementOfSeq
<1>3. W(a) \subseteq W(b) /\ W(b) \subseteq 1..Len(issued)
  BY <1>2
<1>4. IsFiniteSet(1..Len(issued))
  BY <1>1, FS_Interval
<1>5. IsFiniteSet(W(b))
  BY <1>3, <1>4, FS_Subset
<1>6. Cardinality(W(a)) <= Cardinality(W(b))
  BY <1>3, <1>5, FS_Subset
<1> QED
  BY <1>6 DEF Within

LEMMA SlowHour == LimiterInv => HourKeptIfSlow
<1> SUFFICES ASSUME LimiterInv, setup = "ready", Hour <= limits.hour * Interval,
                    asked, NEW t \in 0..now
             PROVE  Within(t, Hour) <= limits.hour
  BY DEF HourKeptIfSlow, HourKept
<1>1. limits.hour \in Nat /\ Hour \in Nat /\ t \in Nat
  BY LimiterAssumption DEF LimiterInv, TypeOK
<1>2. Interval \in Nat
  BY IntervalNat DEF LimiterInv, TypeOK
<1>3. limits.hour * Interval \in Nat
  BY <1>1, <1>2
<1>4. Within(t, Hour) <= Within(t, limits.hour * Interval)
  BY <1>1, <1>3, WiderWindow
<1>5. Within(t, limits.hour * Interval) <= limits.hour
  BY <1>1, SpacedWindow
<1>6. \A k \in Nat : Within(t, k) \in Nat
  <2> SUFFICES ASSUME NEW k \in Nat PROVE Within(t, k) \in Nat
    OBVIOUS
  <2>1. IsFiniteSet(1..Len(issued))
    BY LenProperties, FS_Interval DEF LimiterInv, TypeOK
  <2>2. IsFiniteSet({i \in 1..Len(issued) : t <= issued[i] /\ issued[i] < t + k})
    BY <2>1, FS_Subset
  <2> QED
    BY <2>2, FS_CardinalityType DEF Within
<1> QED
  BY <1>1, <1>3, <1>4, <1>5, <1>6

-----------------------------------------------------------------------------
(* Theorems *)

LEMMA LimiterStart == Init => LimiterInv
<1> SUFFICES ASSUME Init PROVE LimiterInv
  OBVIOUS
<1>1. issued = <<>> /\ issued \in Seq(Nat)
  BY EmptySeq DEF Init
<1>2. PermitsSpaced /\ LastHeld
  BY <1>1 DEF PermitsSpaced, LastHeld
<1>3. SleepersChained
  BY DEF Init, SleepersChained
<1>4. TypeOK
  BY <1>1 DEF Init, TypeOK
<1> QED
  BY <1>2, <1>3, <1>4 DEF LimiterInv

\* In every reachable state the variables have their types, in particular a
\* client that is ready divides the minute by a positive rate.
THEOREM LimiterTypeCorrect == Spec => []TypeOK
<1>1. LimiterInv => TypeOK
  BY DEF LimiterInv
<1> QED
  BY <1>1, LimiterStart, LimiterStep, PTL DEF Spec

\* In every reachable state any two permissions are as many intervals apart as
\* there are permissions between them, whoever took them (live.go:451).
THEOREM PermissionsSpaced == Spec => []PermitsSpaced
<1>1. LimiterInv => PermitsSpaced
  BY DEF LimiterInv
<1> QED
  BY <1>1, LimiterStart, LimiterStep, PTL DEF Spec

\* In every reachable state no caller of the limiter sleeps longer than it takes
\* to serve those ahead of it, however many come behind it (live.go:451).
THEOREM SleepIsBounded == Spec => []WaitsItsTurn
  BY ChainServes, LimiterStart, LimiterStep, PTL DEF Spec

\* In every reachable state no stretch of n intervals, wherever it begins, has
\* more than n permissions (live.go:451, tiktok.go:122).
THEOREM NoBurst == Spec => []WindowKept
<1>1. LimiterInv => WindowKept
  BY SpacedWindow DEF WindowKept
<1> QED
  BY <1>1, LimiterStart, LimiterStep, PTL DEF Spec

\* What the documentation promises, and what it takes: the signer's limit per
\* hour is kept when it is not below what the limiter, which knows only the
\* limit per minute, lets through in an hour (tiktok.go:373-398).
THEOREM SlowSignerKeepsHour == Spec => []HourKeptIfSlow
  BY SlowHour, LimiterStart, LimiterStep, PTL DEF Spec
=============================================================================
