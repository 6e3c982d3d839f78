--------------------------- MODULE ClientSetupProofs ---------------------------
(***************************************************************************)
(* Proofs about ClientSetup, for any proxies, any options and any order of *)
(* them.  SetupInv adds to the properties what the steps keep in between:  *)
(* the proxy of the client is the last of what has been applied so far.    *)
(***************************************************************************)
EXTENDS ClientSetup, TLAPS

\* What is last among n + 1 things given.
LEMMA LastOfNext ==
  ASSUME TypeOK, NEW n \in 0..(1 + MaxOptions), NEW S, NEW p \in S
  PROVE  LastOf(p, n + 1, S) <=> script[n + 1] = p \/ (LastOf(p, n, S) /\ script[n + 1] \notin S)
<1>1. n \in Int /\ MaxOptions \in Nat
  BY SetupAssumption
<1>2. CASE script[n + 1] = p
  BY <1>1, <1>2 DEF LastOf
<1>3. CASE script[n + 1] # p
  <2>1. ASSUME LastOf(p, n + 1, S) PROVE LastOf(p, n, S) /\ script[n + 1] \notin S
    <3>1. PICK k \in 1..(n + 1) :
            script[k] = p /\ \A j \in (k + 1)..(n + 1) : script[j] \notin S
      BY <2>1 DEF LastOf
    <3>2. k \in 1..n /\ n + 1 \in (k + 1)..(n + 1)
      BY <1>1, <1>3, <3>1
    <3>3. \A j \in (k + 1)..n : script[j] \notin S
      BY <1>1, <3>1
    <3> QED
      BY <3>1, <3>2, <3>3 DEF LastOf
  <2>2. ASSUME LastOf(p, n, S), script[n + 1] \notin S PROVE LastOf(p, n + 1, S)
    <3>1. PICK k \in 1..n : script[k] = p /\ \A j \in (k + 1)..n : script[j] \notin S
      BY <2>2 DEF LastOf
    <3>2. k \in 1..(n + 1) /\ \A j \in (k + 1)..(n + 1) : script[j] \notin S
      BY <1>1, <2>2, <3>1
    <3> QED
      BY <3>1, <3>2 DEF LastOf
  <2> QED
    BY <1>3, <2>1, <2>2
<1> QED
  BY <1>2, <1>3

\* There is at most one last thing.
LEMMA LastOfUnique ==
  ASSUME NEW n \in Int, NEW S, NEW p \in S, NEW q \in S, LastOf(p, n, S), LastOf(q, n, S)
  PROVE  p = q
<1>1. PICK k \in 1..n : script[k] = p /\ \A j \in (k + 1)..n : script[j] \notin S
  BY DEF LastOf
<1>2. PICK l \in 1..n : script[l] = q /\ \A j \in (l + 1)..n : script[j] \notin S
  BY DEF LastOf
<1>3. ~(k < l) /\ ~(l < k)
  BY <1>1, <1>2
<1> QED
  BY <1>1, <1>2, <1>3

-----------------------------------------------------------------------------
LEMMA SetupStart == Init => SetupInv
<1> SUFFICES ASSUME Init PROVE SetupInv
  OBVIOUS
<1> USE DEF Init
<1>1. TypeOK
  <2>1. /\ script \in [Places -> Proxies \cup Words]
        /\ \A k \in {1, 2} : script[k] \in Proxies \cup {"none", "bad"}
        /\ pc \in {"options", "failed", "limits", "crashed", "trace", "finish", "ready"} \cup Dialling
        /\ proxy \in Proxies \cup {"none"} /\ file \in {"none", "open", "nil"}
        /\ conn \in {"none", "open", "closed"} /\ via \in Known \cup {"environment"}
    OBVIOUS
  <2>2. i \in 0..(2 + MaxOptions)
    BY SetupAssumption
  <2>3. /\ refused \in BOOLEAN /\ getLimits \in BOOLEAN /\ trace \in BOOLEAN
        /\ writer \in BOOLEAN /\ handler \in BOOLEAN /\ cancelled \in BOOLEAN
    OBVIOUS
  <2>4. transport \in [via : Proxies \cup {"default"}, logs : BOOLEAN]
    OBVIOUS
  <2> QED
    BY <2>1, <2>2, <2>3, <2>4, Zenon DEF TypeOK
<1>2. SetupPhase /\ AllOrNothing /\ LastProxyWins /\ DialPhase /\ NoConnLeft
  BY DEF SetupPhase, AllOrNothing, LastProxyWins, DialPhase, NoConnLeft, Dialling
<1>3. ProxyIsLast
  BY SetupAssumption DEF ProxyIsLast, Words
<1>4. TransportAsGiven
  BY SetupAssumption DEF TransportAsGiven, LastOf
<1> QED
  BY <1>1, <1>2, <1>3, <1>4 DEF SetupInv

\* One thing given is applied: the proxy of the client stays the last.
LEMMA ProxyKept ==
  ASSUME SetupInv, NEW u, u = script[i + 1], i \in 0..(1 + MaxOptions), i' = i + 1,
         script' = script, proxy' = IF u \in Proxies THEN u ELSE proxy
  PROVE  ProxyIsLast'
<1>1. TypeOK /\ ProxyIsLast
  BY DEF SetupInv
<1>2. i \in Int /\ MaxOptions \in Nat
  BY SetupAssumption
<1>3. CASE u \in Proxies
  <2>1. LastOf(u, i + 1, Proxies)
    BY <1>1, <1>3, LastOfNext
  <2>2. proxy' # "none"
    BY <1>3, SetupAssumption DEF Words
  <2> QED
    BY <1>3, <2>1, <2>2 DEF ProxyIsLast, IsLast, LastOf
<1>4. CASE u \notin Proxies
  <2>1. proxy \in Proxies => LastOf(proxy, i + 1, Proxies)
    BY <1>1, <1>4, LastOfNext DEF ProxyIsLast, IsLast
  <2>2. proxy = "none" => \A k \in 1..(i + 1) : script[k] \notin Proxies
    BY <1>1, <1>2, <1>4 DEF ProxyIsLast
  <2> QED
    BY <1>4, <2>1, <2>2 DEF ProxyIsLast, IsLast, LastOf
<1> QED
  BY <1>3, <1>4

\* And the transport goes through what was given last.
LEMMA TransportKept ==
  ASSUME SetupInv, NEW u, u = script[i + 1], i \in 0..(1 + MaxOptions), i' = i + 1,
         script' = script,
         \/ u = "debug" /\ i >= 2 /\ transport' = [via |-> "default", logs |-> TRUE]
         \/ /\ u # "debug"
            /\ transport' = IF u \in Proxies THEN [transport EXCEPT !.via = u] ELSE transport
  PROVE  TransportAsGiven'
<1> DEFINE S == Proxies \cup {"debug"}
<1>1. TypeOK /\ TransportAsGiven
  BY DEF SetupInv
<1>2. i \in Int /\ MaxOptions \in Nat
  BY SetupAssumption
<1>3. "debug" \notin Proxies /\ "default" \notin Proxies
  BY SetupAssumption DEF Words
<1>4. transport \in [via : Proxies \cup {"default"}, logs : BOOLEAN]
  BY <1>1, Zenon DEF TypeOK
<1>5. transport'.logs = (\E k \in 3..(i + 1) : script[k] = "debug")
  <2>1. transport.logs = (\E k \in 3..i : script[k] = "debug")
    BY <1>1 DEF TransportAsGiven
  <2>2. CASE u = "debug" /\ i >= 2 /\ transport' = [via |-> "default", logs |-> TRUE]
    <3>1. \E k \in 3..(i + 1) : script[k] = "debug"
      <4>1. i + 1 \in 3..(i + 1) /\ script[i + 1] = "debug"
        BY <1>2, <2>2
      <4> QED
        BY <4>1
    <3>2. transport'.logs = TRUE
      BY <2>2
    <3> QED
      BY <3>1, <3>2
  <2>3. CASE u # "debug" /\ transport' = IF u \in Proxies THEN [transport EXCEPT !.via = u]
                                         ELSE transport
    <3>1. transport'.logs = transport.logs
      BY <2>3, <1>4
    <3>2. (\E k \in 3..(i + 1) : script[k] = "debug") <=> (\E k \in 3..i : script[k] = "debug")
      BY <1>2, <2>3
    <3> QED
      BY <2>1, <3>1, <3>2
  <2> QED
    BY <2>2, <2>3
<1>6. ASSUME NEW p \in Proxies
      PROVE  transport'.via = p <=> LastOf(p, i + 1, S)
  <2>1. LastOf(p, i + 1, S) <=> u = p \/ (LastOf(p, i, S) /\ u \notin S)
    BY <1>1, LastOfNext
  <2>2. transport.via = p <=> LastOf(p, i, S)
    BY <1>1 DEF TransportAsGiven
  <2>3. CASE u = "debug" /\ transport' = [via |-> "default", logs |-> TRUE]
    BY <2>1, <2>3, <1>3
  <2>4. CASE u \in Proxies /\ transport' = [transport EXCEPT !.via = u]
    BY <2>1, <2>4, <1>3, <1>4
  <2>5. CASE u \notin S /\ transport' = transport
    BY <2>1, <2>2, <2>5
  <2> QED
    BY <2>3, <2>4, <2>5
<1> QED
  BY <1>5, <1>6 DEF TransportAsGiven, LastOf
-----------------------------------------------------------------------------
(* The steps *)

LEMMA ReadEnvStep == ASSUME SetupInv, ReadEnv PROVE SetupInv'
<1>1. TypeOK /\ i \in 0..1
  BY DEF SetupInv, ReadEnv, TypeOK
<1>2. i + 1 \in {1, 2} /\ i + 1 \in 0..(2 + MaxOptions) /\ i \in 0..(1 + MaxOptions)
  BY <1>1, SetupAssumption
<1>3. script[i + 1] \in Proxies \cup {"none", "bad"}
  BY <1>1, <1>2 DEF TypeOK
<1>4. TypeOK'
  <2>1. proxy' \in Proxies \cup {"none"}
    BY <1>1 DEF ReadEnv, SetProxy, TypeOK
  <2>2. transport' \in [via : Proxies \cup {"default"}, logs : BOOLEAN]
    <3>1. transport \in [via : Proxies \cup {"default"}, logs : BOOLEAN]
      BY <1>1, Zenon DEF TypeOK
    <3> QED
      BY <3>1 DEF ReadEnv, SetProxy
  <2>3. i' \in 0..(2 + MaxOptions)
    BY <1>2 DEF ReadEnv
  <2> QED
    BY <1>1, <2>1, <2>2, <2>3, Zenon DEF TypeOK, ReadEnv, optionVars, runVars, dialVars
<1>5. ProxyIsLast'
  BY <1>2, ProxyKept DEF ReadEnv, SetProxy
<1>6. TransportAsGiven'
  <2>1. script[i + 1] # "debug"
    BY <1>3, SetupAssumption DEF Words
  <2> QED
    BY <1>2, <2>1, TransportKept DEF ReadEnv, SetProxy
<1>7. (SetupPhase /\ AllOrNothing /\ LastProxyWins /\ DialPhase /\ NoConnLeft)'
  BY DEF SetupInv, SetupPhase, AllOrNothing, LastProxyWins, DialPhase, NoConnLeft, Dialling,
         ReadEnv, runVars, dialVars
<1> QED
  BY <1>4, <1>5, <1>6, <1>7 DEF SetupInv

LEMMA ApplyOptionStep == ASSUME SetupInv, ApplyOption PROVE SetupInv'
<1>1. TypeOK /\ i \in 2..(1 + MaxOptions)
  BY SetupAssumption DEF SetupInv, ApplyOption, TypeOK, Places
<1>2. i + 1 \in 0..(2 + MaxOptions) /\ i \in 0..(1 + MaxOptions)
  BY <1>1, SetupAssumption
<1>3. "debug" \notin Proxies
  BY SetupAssumption DEF Words
<1>4. TypeOK'
  <2>1. proxy' \in Proxies \cup {"none"}
    BY <1>1 DEF ApplyOption, SetProxy, TypeOK
  <2>2. transport' \in [via : Proxies \cup {"default"}, logs : BOOLEAN]
    <3>1. transport \in [via : Proxies \cup {"default"}, logs : BOOLEAN]
      BY <1>1, Zenon DEF TypeOK
    <3>2. CASE script[i + 1] = "debug"
      <4>1. transport' = [via |-> "default", logs |-> TRUE]
        BY <3>2 DEF ApplyOption
      <4> QED
        BY <4>1
    <3>3. CASE script[i + 1] # "debug"
      <4>1. transport' = IF script[i + 1] \in Proxies
                         THEN [transport EXCEPT !.via = script[i + 1]] ELSE transport
        BY <3>3 DEF ApplyOption, SetProxy
      <4> QED
        BY <3>1, <4>1
    <3> QED
      BY <3>2, <3>3
  <2>3. i' \in 0..(2 + MaxOptions)
    BY <1>2 DEF ApplyOption
  <2>4. refused' \in BOOLEAN /\ getLimits' \in BOOLEAN /\ trace' \in BOOLEAN
    BY Zenon DEF ApplyOption
  <2> QED
    BY <1>1, <2>1, <2>2, <2>3, <2>4, Zenon DEF TypeOK, ApplyOption, runVars, dialVars
<1>5. ProxyIsLast'
  <2>1. proxy' = IF script[i + 1] \in Proxies THEN script[i + 1] ELSE proxy
    BY <1>3 DEF ApplyOption, SetProxy
  <2> QED
    BY <1>2, <2>1, ProxyKept DEF ApplyOption
<1>6. TransportAsGiven'
  <2>1. \/ /\ script[i + 1] = "debug"
           /\ transport' = [via |-> "default", logs |-> TRUE]
        \/ /\ script[i + 1] # "debug"
           /\ transport' = IF script[i + 1] \in Proxies
                           THEN [transport EXCEPT !.via = script[i + 1]] ELSE transport
    BY DEF ApplyOption, SetProxy
  <2> QED
    BY <1>2, <2>1, TransportKept DEF ApplyOption
<1>7. (SetupPhase /\ AllOrNothing /\ LastProxyWins /\ DialPhase /\ NoConnLeft)'
  BY DEF SetupInv, SetupPhase, AllOrNothing, LastProxyWins, DialPhase, NoConnLeft, Dialling,
         ApplyOption, runVars, dialVars
<1> QED
  BY <1>4, <1>5, <1>6, <1>7 DEF SetupInv

\* The script and what the options have set do not change any more.
LEMMA GivenKept ==
  ASSUME SetupInv, UNCHANGED <<script, i, proxy, transport>>
  PROVE  (ProxyIsLast /\ TransportAsGiven)'
BY DEF SetupInv, ProxyIsLast, TransportAsGiven, IsLast, LastOf

LEMMA MakeStep ==
  ASSUME SetupInv, CheckOptions \/ GetLimits \/ OpenTrace \/ Finish PROVE SetupInv'
<1>1. UNCHANGED <<script, i, proxy, transport, via, conn>>
  BY DEF CheckOptions, GetLimits, OpenTrace, Finish, optionVars, dialVars
<1>2. TypeOK'
  <2>1. /\ pc' \in {"failed", "limits", "crashed", "trace", "finish", "ready"}
        /\ file' \in {"none", "open", "nil"}
    BY DEF CheckOptions, GetLimits, OpenTrace, Finish, SetupInv, TypeOK
  <2>2. /\ refused' \in BOOLEAN /\ getLimits' \in BOOLEAN /\ trace' \in BOOLEAN
        /\ writer' \in BOOLEAN /\ handler' \in BOOLEAN /\ cancelled' \in BOOLEAN
    BY Zenon DEF CheckOptions, GetLimits, OpenTrace, Finish, SetupInv, TypeOK, optionVars
  <2> QED
    BY <1>1, <2>1, <2>2, Zenon DEF SetupInv, TypeOK
<1>3. pc # "options" => i = 2 + MaxOptions
  BY DEF SetupInv, SetupPhase
<1>4. CASE CheckOptions
  <2>1. i = 2 + MaxOptions
    BY <1>4, SetupAssumption DEF CheckOptions, Places, SetupInv, TypeOK
  <2>2. (SetupPhase /\ AllOrNothing /\ LastProxyWins /\ DialPhase /\ NoConnLeft)'
    BY <1>1, <1>4, <2>1, Zenon DEF CheckOptions, SetupInv, SetupPhase, AllOrNothing,
       LastProxyWins, DialPhase, NoConnLeft, Dialling, optionVars, dialVars
  <2> QED
    BY <1>1, <1>2, <2>2, GivenKept DEF SetupInv
<1>5. CASE GetLimits \/ OpenTrace \/ Finish
  <2>1. (SetupPhase /\ AllOrNothing /\ LastProxyWins /\ DialPhase /\ NoConnLeft)'
    <3>1. (LastProxyWins /\ DialPhase /\ NoConnLeft)'
      BY <1>1, <1>5 DEF GetLimits, OpenTrace, Finish, SetupInv, LastProxyWins, DialPhase,
         NoConnLeft, Dialling
    <3>2. CASE GetLimits
      <4>1. pc = "limits" /\ ~writer /\ ~handler /\ ~cancelled /\ UNCHANGED <<writer, handler>>
        BY <3>2 DEF GetLimits, SetupInv, SetupPhase
      <4>2. (pc' \in {"trace", "crashed"} /\ ~cancelled') \/ (pc' = "failed" /\ cancelled')
        BY <3>2, <4>1 DEF GetLimits
      <4>3. ~writer' /\ ~handler'
        BY <4>1
      <4> QED
        BY <1>1, <1>3, <3>1, <4>1, <4>2, <4>3 DEF SetupPhase, AllOrNothing, Dialling
    <3>3. CASE OpenTrace
      <4>1. /\ pc = "trace" /\ pc' = "finish" /\ UNCHANGED <<handler, cancelled>>
            /\ ~writer /\ ~handler /\ ~cancelled
        BY <3>3 DEF OpenTrace, SetupInv, SetupPhase
      <4>2. writer' <=> trace'
        BY <3>3, <4>1 DEF OpenTrace
      <4>3. ~handler' /\ ~cancelled'
        BY <4>1
      <4> QED
        BY <1>1, <1>3, <3>1, <4>1, <4>2, <4>3 DEF SetupPhase, AllOrNothing, Dialling
    <3>4. CASE Finish
      <4>1. /\ pc = "finish" /\ pc' = "ready" /\ handler' /\ ~cancelled /\ (writer <=> trace)
            /\ UNCHANGED <<trace, writer, cancelled>>
        BY <3>4 DEF Finish, SetupInv, SetupPhase, optionVars
      <4>2. (writer' <=> trace') /\ ~cancelled'
        BY <4>1
      <4> QED
        BY <1>1, <1>3, <3>1, <4>1, <4>2 DEF SetupPhase, AllOrNothing, Dialling
    <3> QED
      BY <1>5, <3>2, <3>3, <3>4
  <2> QED
    BY <1>1, <1>2, <2>1, GivenKept DEF SetupInv
<1> QED
  BY <1>4, <1>5

\* A dial changes the place, the choice of the proxy and the connection only.
LEMMA TypesKept ==
  ASSUME TypeOK, pc' \in Dialling, via' \in Known \cup {"environment"},
         conn' \in {"none", "open", "closed"},
         UNCHANGED <<script, i, proxy, transport>>,
         UNCHANGED <<refused, getLimits, trace, file, writer, handler, cancelled>>
  PROVE  TypeOK'
<1>1. /\ script' \in [Places -> Proxies \cup Words]
      /\ \A k \in {1, 2} : script'[k] \in Proxies \cup {"none", "bad"}
      /\ i' \in 0..(2 + MaxOptions)
  BY DEF TypeOK
<1>2. /\ pc' \in {"options", "failed", "limits", "crashed", "trace", "finish", "ready"} \cup Dialling
      /\ file' \in {"none", "open", "nil"}
  BY DEF TypeOK
<1>3. /\ proxy' \in Proxies \cup {"none"}
      /\ transport' \in [via : Proxies \cup {"default"}, logs : BOOLEAN]
  BY Zenon DEF TypeOK
<1>4. /\ refused' \in BOOLEAN /\ getLimits' \in BOOLEAN /\ trace' \in BOOLEAN
      /\ writer' \in BOOLEAN /\ handler' \in BOOLEAN /\ cancelled' \in BOOLEAN
  BY Zenon DEF TypeOK
<1> QED
  BY <1>1, <1>2, <1>3, <1>4, Zenon DEF TypeOK

\* The proxy that the dialer is made of is the last that was given.
LEMMA ChooseDialerStep == ASSUME SetupInv, ChooseDialer PROVE SetupInv'
<1>1. TypeOK /\ ProxyIsLast /\ i = 2 + MaxOptions
  BY DEF SetupInv, ChooseDialer, SetupPhase
<1>2. UNCHANGED <<script, i, proxy, transport>>
  BY DEF ChooseDialer, optionVars
<1>3. TypeOK'
  <2>1. via' \in Known \cup {"environment"} /\ pc' = "dial"
    BY DEF ChooseDialer
  <2>2. pc' \in Dialling
    BY <2>1 DEF Dialling
  <2>3. UNCHANGED <<refused, getLimits, trace, file, writer, handler, cancelled, conn>>
    BY DEF ChooseDialer, optionVars, runVars
  <2>4. conn' \in {"none", "open", "closed"}
    BY <1>1, <2>3 DEF TypeOK
  <2> QED
    BY <1>1, <1>2, <2>1, <2>2, <2>3, <2>4, TypesKept
<1>4. ProxyURI = proxy \/ ProxyURI \notin Proxies
  <2>1. CASE proxy \in Proxies
    BY <2>1 DEF ProxyURI
  <2>2. CASE proxy = "none"
    <3>1. 1 \in 1..i /\ 2 \in 1..i
      BY <1>1, SetupAssumption
    <3>2. script[1] \notin Proxies /\ script[2] \notin Proxies
      BY <1>1, <2>2, <3>1 DEF ProxyIsLast
    <3> QED
      BY <2>2, <3>2 DEF ProxyURI
  <2> QED
    BY <1>1, <2>1, <2>2 DEF TypeOK
<1>5. LastProxyWins'
  <2>1. ASSUME NEW p \in Known, LastOf(p, i, Proxies) PROVE via' = p
    <3>1. p \in Proxies /\ \E k \in 1..i : script[k] = p
      BY <2>1, SetupAssumption DEF LastOf
    <3>2. proxy \in Proxies /\ LastOf(proxy, i, Proxies)
      BY <1>1, <3>1 DEF ProxyIsLast, IsLast, TypeOK
    <3>3. proxy = p
      <4>1. i \in Int
        BY <1>1, SetupAssumption
      <4> QED
        BY <2>1, <3>1, <3>2, <4>1, LastOfUnique
    <3> QED
      BY <3>2, <3>3 DEF ChooseDialer, ProxyURI
  <2>2. ASSUME \A p \in Known : ~LastOf(p, i, Proxies) PROVE via' = "environment"
    <3>1. ProxyURI \notin Known
      <4>1. CASE proxy \in Known
        BY <1>1, <2>2, <4>1, SetupAssumption DEF ProxyIsLast, IsLast
      <4>2. CASE proxy \notin Known
        BY <1>4, <4>2, SetupAssumption
      <4> QED
        BY <4>1, <4>2
    <3> QED
      BY <3>1 DEF ChooseDialer
  <2> QED
    BY <1>1, <1>2, <2>1, <2>2 DEF LastProxyWins, IsLast, LastOf
<1>6. (SetupPhase /\ AllOrNothing /\ DialPhase /\ NoConnLeft)'
  BY <1>1, <1>2, Zenon DEF ChooseDialer, SetupInv, SetupPhase, AllOrNothing, DialPhase,
     NoConnLeft, Dialling, optionVars, runVars
<1> QED
  BY <1>2, <1>3, <1>5, <1>6, GivenKept DEF SetupInv

LEMMA DialStep ==
  ASSUME SetupInv, DialEnvironment \/ DialProxy \/ SendConnect \/ ReadResponse PROVE SetupInv'
<1>1. /\ UNCHANGED <<script, i, optionVars, runVars, via>> /\ pc \in Dialling /\ pc' \in Dialling
      /\ pc' # "dial" /\ conn' \in {"none", "open", "closed"}
  BY DEF DialEnvironment, DialProxy, SendConnect, ReadResponse, Dialling, dialVars, SetupInv, TypeOK
<1>2. UNCHANGED <<script, i, proxy, transport, refused, getLimits, trace, file, writer, handler,
                  cancelled>>
  BY <1>1 DEF optionVars, runVars
<1>3. TypeOK'
  BY <1>1, <1>2, TypesKept DEF SetupInv, TypeOK
<1>4. (SetupPhase /\ AllOrNothing)'
  BY <1>1, <1>2, SetupAssumption DEF SetupInv, SetupPhase, AllOrNothing, Dialling
<1>5. LastProxyWins'
  BY <1>1, <1>2 DEF SetupInv, LastProxyWins, IsLast, LastOf
<1>6. (DialPhase /\ NoConnLeft)'
  <2>1. "environment" \notin Known
    BY SetupAssumption
  <2> QED
    BY <1>1, <2>1 DEF DialEnvironment, DialProxy, SendConnect, ReadResponse, SetupInv, DialPhase,
       NoConnLeft, Dialling, dialVars
<1> QED
  BY <1>2, <1>3, <1>4, <1>5, <1>6, GivenKept DEF SetupInv

LEMMA SetupStep == SetupInv /\ [Next]_vars => SetupInv'
<1> SUFFICES ASSUME SetupInv, [Next]_vars PROVE SetupInv'
  OBVIOUS
<1>1. CASE Next
  BY <1>1, ReadEnvStep, ApplyOptionStep, MakeStep, ChooseDialerStep, DialStep DEF Next
<1>2. CASE UNCHANGED vars
  <2>1. UNCHANGED <<script, i, pc, refused, proxy, transport, getLimits, trace, file, writer,
                    handler, cancelled, via, conn>>
    BY <1>2 DEF vars
  <2>2. TypeOK'
    BY <2>1 DEF SetupInv, TypeOK
  <2>3. (SetupPhase /\ AllOrNothing /\ LastProxyWins /\ DialPhase /\ NoConnLeft)'
    BY <2>1 DEF SetupInv, SetupPhase, AllOrNothing, LastProxyWins, DialPhase, NoConnLeft, IsLast,
       LastOf
  <2> QED
    BY <2>1, <2>2, <2>3, GivenKept DEF SetupInv
<1> QED
  BY <1>1, <1>2

-----------------------------------------------------------------------------
(* Theorems *)

LEMMA SetupInvariant == Spec => []SetupInv
  BY SetupStart, SetupStep, PTL DEF Spec

\* Types, whatever is given.
THEOREM SetupTypeCorrect == Spec => []TypeOK
<1>1. SetupInv => TypeOK
  BY DEF SetupInv
<1> QED
  BY <1>1, SetupInvariant, PTL

\* A client is made with all it needs running, or not at all.
THEOREM MadeOrNot == Spec => []AllOrNothing
<1>1. SetupInv => AllOrNothing
  BY DEF SetupInv
<1> QED
  BY <1>1, SetupInvariant, PTL

\* The websocket goes through the last proxy that was given.
THEOREM SocketProxy == Spec => []LastProxyWins
<1>1. SetupInv => LastProxyWins
  BY DEF SetupInv
<1> QED
  BY <1>1, SetupInvariant, PTL

\* No failed dial leaves a connection to the proxy.
THEOREM ConnectionsClosed == Spec => []NoConnLeft
<1>1. SetupInv => NoConnLeft
  BY DEF SetupInv
<1> QED
  BY <1>1, SetupInvariant, PTL

\* One proxy for the http client and the websocket, unless an option that logs
\* comes behind it.
THEOREM OneProxyForBoth == Spec => []ProxyForBothUnlessDebug
<1>1. SetupInv => ProxyForBothUnlessDebug
  <2> DEFINE n == 2 + MaxOptions
  <2> SUFFICES ASSUME SetupInv, pc \in Dialling, NEW p \in Known,
                      LastOf(p, n, Proxies \cup {"debug"})
               PROVE  via = p /\ transport.via = p
    BY DEF ProxyForBothUnlessDebug
  <2>1. p \in Proxies /\ n \in Int /\ i = n
    BY SetupAssumption DEF SetupInv, SetupPhase, Dialling
  <2>2. transport.via = p
    BY <2>1 DEF SetupInv, TransportAsGiven
  <2>3. IsLast(p, n)
    BY DEF LastOf, IsLast
  <2>4. IsLast(via, n) /\ via \in Proxies
    <3>1. IsLast(via, n)
      BY <2>3 DEF SetupInv, LastProxyWins
    <3>2. via \in Known \cup {"environment"}
      BY DEF SetupInv, TypeOK
    <3>3. via # "environment"
      <4>1. \A k \in 1..n : script[k] # "environment"
        BY SetupAssumption DEF SetupInv, TypeOK, Places, Words
      <4> QED
        BY <3>1, <4>1 DEF IsLast, LastOf
    <3> QED
      BY <3>1, <3>2, <3>3, SetupAssumption
  <2>5. via = p
    BY <2>1, <2>3, <2>4, LastOfUnique DEF IsLast
  <2> QED
    BY <2>2, <2>5
<1> QED
  BY <1>1, SetupInvariant, PTL
=============================================================================
