------------------------------ MODULE ClientSetup ------------------------------
(***************************************************************************)
(* The making of a TikTok client: the proxies of the environment, the      *)
(* options in the caller's order, the signer's limits, the trace writer    *)
(* and the interrupt handler; and the dial of a websocket, which chooses   *)
(* among the proxies that the making has left and, through an HTTP proxy,  *)
(* shakes hands with CONNECT.                                              *)
(*                                                                         *)
(* The script is what the caller gives: HTTP_PROXY and HTTPS_PROXY in the  *)
(* first two places, then the options.  An option that touches nothing of  *)
(* this is "other"; a proxy that is not given, "none"; one that is no URL, *)
(* "bad".  The environment does not change while the process runs.  SOCKS  *)
(* proxies, whose handshake is the library's, are not among the proxies.   *)
(***************************************************************************)
EXTENDS Integers

CONSTANTS
  Proxies,     \* the URLs of proxies
  Known,       \* those of a scheme that the dialer of the websocket knows
  MaxOptions   \* how many options are given

Words == {"none", "bad", "debug", "trace", "nolimits", "other"}

ASSUME SetupAssumption ==
  Known \subseteq Proxies /\ Proxies \cap (Words \cup {"default", "environment"}) = {}
    /\ MaxOptions \in Nat

VARIABLES
  script,     \* what the caller gives, in order
  i,          \* how much of it has been applied
  pc,         \* where the making, and then the dial, has got to
  refused,    \* an option has returned an error
  proxy,      \* TikTok.proxy
  transport,  \* the http client's: the proxy it goes through, and whether it logs
  getLimits,  \* TikTok.getLimits
  trace,      \* TikTok.enableWSTrace
  file,       \* the trace file: "none", "open" or "nil"
  writer,     \* the trace writer runs
  handler,    \* the interrupt handler runs
  cancelled,  \* the client's context is
  via,        \* what the websocket is dialled through
  conn        \* the connection to an HTTP proxy: "none", "open" or "closed"

vars == <<script, i, pc, refused, proxy, transport, getLimits, trace, file, writer, handler,
          cancelled, via, conn>>
optionVars == <<refused, proxy, transport, getLimits, trace>>
runVars    == <<file, writer, handler, cancelled>>
dialVars   == <<via, conn>>

Places == 1..(2 + MaxOptions)

Init ==
  /\ script \in [Places -> Proxies \cup Words]
  /\ \A k \in {1, 2} : script[k] \in Proxies \cup {"none", "bad"}
  /\ i = 0 /\ pc = "options" /\ refused = FALSE
  /\ proxy = "none" /\ transport = [via |-> "default", logs |-> FALSE]
  /\ getLimits = TRUE /\ trace = FALSE
  /\ file = "none" /\ writer = FALSE /\ handler = FALSE /\ cancelled = FALSE
  /\ via = "environment" /\ conn = "none"

-----------------------------------------------------------------------------
(* Deliberate faults *)

\* A transport that has its proxy is left as it is.
SetProxyOnce(u) ==
  /\ proxy' = IF u \in Proxies THEN u ELSE proxy
  /\ transport' = IF u \in Proxies /\ transport.via = "default"
                  THEN [transport EXCEPT !.via = u] ELSE transport

\* The trace stays enabled when its file's name cannot be found out.
OpenTraceNoName ==
  /\ pc = "trace"
  /\ pc' = "finish"
  /\ \/ UNCHANGED <<file, writer>>
     \/ trace /\ writer' = TRUE /\ file' \in {"open", "nil"}
  /\ UNCHANGED <<script, i, optionVars, handler, cancelled, dialVars>>

\* HTTPS_PROXY takes precedence over the option.
EnvironmentFirst ==
  IF script[2] \in Proxies THEN script[2] ELSE IF proxy \in Proxies THEN proxy ELSE script[1]

\* A refused CONNECT leaves the connection to the proxy open.
ReadResponseKeeps ==
  /\ pc = "answer"
  /\ \/ pc' = "panicked" /\ UNCHANGED conn
     \/ pc' = "connected" /\ UNCHANGED conn
     \/ pc' = "error" /\ UNCHANGED conn
  /\ UNCHANGED <<script, i, optionVars, runVars, via>>

-----------------------------------------------------------------------------
(* The environment and the options *)

\* A URL that parses is the proxy of the client from now on; a transport that
\* logs is kept and goes through it.
SetProxy(u) ==
  /\ proxy' = IF u \in Proxies THEN u ELSE proxy
  /\ transport' = IF u \in Proxies THEN [transport EXCEPT !.via = u] ELSE transport

\* What the environment holds and does not parse is passed over.
ReadEnv ==
  /\ pc = "options" /\ i < 2
  /\ i' = i + 1
  /\ SetProxy(script[i + 1])
  /\ UNCHANGED <<script, pc, refused, getLimits, trace, runVars, dialVars>>

ApplyOption ==
  /\ pc = "options" /\ i >= 2 /\ i + 1 \in Places
  /\ i' = i + 1
  /\ LET o == script[i + 1] IN
     /\ IF o = "debug"
        THEN transport' = [via |-> "default", logs |-> TRUE] /\ UNCHANGED proxy
        ELSE SetProxy(o)
     /\ refused' = (refused \/ o = "bad")
     /\ getLimits' = (getLimits /\ o # "nolimits")
     /\ trace' = (trace \/ o = "trace")
  /\ UNCHANGED <<script, pc, runVars, dialVars>>

\* The errors of all options are joined.
CheckOptions ==
  /\ pc = "options" /\ i >= 2 /\ i + 1 \notin Places
  /\ pc' = (IF refused THEN "failed" ELSE "limits")
  /\ cancelled' = refused
  /\ UNCHANGED <<script, i, optionVars, file, writer, handler, dialVars>>

-----------------------------------------------------------------------------
(* The limits, the trace writer and the interrupt handler *)

\* An answer without the limit of a minute is no error, and the limiter divides
\* by it.
GetLimits ==
  /\ pc = "limits"
  /\ \/ pc' = "trace" /\ UNCHANGED cancelled
     \/ getLimits /\ pc' = "failed" /\ cancelled' = TRUE
     \/ getLimits /\ pc' = "crashed" /\ UNCHANGED cancelled
  /\ UNCHANGED <<script, i, optionVars, file, writer, handler, dialVars>>

\* Without an absolute name there is no trace.  The error of the creation is
\* not looked at: the writer runs with no file.
OpenTrace ==
  /\ pc = "trace"
  /\ pc' = "finish"
  /\ \/ trace' = FALSE /\ UNCHANGED <<file, writer>>
     \/ trace /\ writer' = TRUE /\ file' \in {"open", "nil"} /\ UNCHANGED trace
  /\ UNCHANGED <<script, i, refused, proxy, transport, getLimits, handler, cancelled, dialVars>>

\* The first request's result is not looked at.
Finish ==
  /\ pc = "finish"
  /\ pc' = "ready" /\ handler' = TRUE
  /\ UNCHANGED <<script, i, optionVars, file, writer, cancelled, dialVars>>

-----------------------------------------------------------------------------
(* The dial of a websocket *)

\* The environment is read again, HTTPS_PROXY last, and the client's own proxy
\* goes before it.
ProxyURI ==
  IF proxy \in Proxies THEN proxy ELSE IF script[2] \in Proxies THEN script[2] ELSE script[1]

\* A scheme that is not known falls back on what ALL_PROXY says.
ChooseDialer ==
  /\ pc = "ready"
  /\ pc' = "dial"
  /\ via' = IF ProxyURI \in Known THEN ProxyURI ELSE "environment"
  /\ UNCHANGED <<script, i, optionVars, runVars, conn>>

\* Directly or through ALL_PROXY the dial is the library's.
DialEnvironment ==
  /\ pc = "dial" /\ via = "environment"
  /\ pc' \in {"connected", "error"}
  /\ UNCHANGED <<script, i, optionVars, runVars, dialVars>>

DialProxy ==
  /\ pc = "dial" /\ via \in Known
  /\ \/ pc' = "connect" /\ conn' = "open"
     \/ pc' = "error" /\ UNCHANGED conn
  /\ UNCHANGED <<script, i, optionVars, runVars, via>>

\* The address does not parse, or CONNECT cannot be written; or it is.
SendConnect ==
  /\ pc = "connect"
  /\ \/ pc' = "answer" /\ UNCHANGED conn
     \/ pc' = "error" /\ conn' = "closed"
  /\ UNCHANGED <<script, i, optionVars, runVars, via>>

\* There is no response in the error branch, and the code closes its body.
ReadResponse ==
  /\ pc = "answer"
  /\ \/ pc' = "panicked" /\ UNCHANGED conn
     \/ pc' = "connected" /\ UNCHANGED conn
     \/ pc' = "error" /\ conn' = "closed"
  /\ UNCHANGED <<script, i, optionVars, runVars, via>>

-----------------------------------------------------------------------------
Next ==
  \/ ReadEnv \/ ApplyOption \/ CheckOptions \/ GetLimits \/ OpenTrace \/ Finish
  \/ ChooseDialer \/ DialEnvironment \/ DialProxy \/ SendConnect \/ ReadResponse

Spec == Init /\ [][Next]_vars

-----------------------------------------------------------------------------
(* Properties *)

Dialling == {"dial", "connect", "answer", "connected", "error", "panicked"}

\* Every variable keeps its type.
TypeOK ==
  /\ script \in [Places -> Proxies \cup Words]
  /\ \A k \in {1, 2} : script[k] \in Proxies \cup {"none", "bad"}
  /\ i \in 0..(2 + MaxOptions)
  /\ pc \in {"options", "failed", "limits", "crashed", "trace", "finish", "ready"} \cup Dialling
  /\ refused \in BOOLEAN /\ getLimits \in BOOLEAN /\ trace \in BOOLEAN
  /\ proxy \in Proxies \cup {"none"}
  /\ transport \in [via : Proxies \cup {"default"}, logs : BOOLEAN]
  /\ file \in {"none", "open", "nil"} /\ conn \in {"none", "open", "closed"}
  /\ writer \in BOOLEAN /\ handler \in BOOLEAN /\ cancelled \in BOOLEAN
  /\ via \in Known \cup {"environment"}

\* A client that could not be made leaves nothing running and is cancelled, one
\* whose limiter panicked aside, which is only not cancelled; of one that was
\* made the handler runs and, when frames are traced, somebody takes the traces,
\* or every reader would block on a full channel (tiktok.go:111-122, 130-162,
\* wss.go:166).
AllOrNothing ==
  /\ pc = "failed" => cancelled
  /\ pc \in {"failed", "crashed"} => ~writer /\ ~handler
  /\ pc \in Dialling \cup {"ready"} => ~cancelled /\ handler /\ (writer <=> trace)

\* Of the first n things given p is the last that is in S.
LastOf(p, n, S) == \E k \in 1..n : script[k] = p /\ \A j \in (k + 1)..n : script[j] \notin S

\* p is the last proxy among the first n things given.
IsLast(p, n) == LastOf(p, n, Proxies)

\* The websocket is dialled through the last proxy that was given, an option
\* going before the environment and HTTPS_PROXY before HTTP_PROXY; and through
\* what ALL_PROXY says when there is none, or none that it knows (wss.go:57-87).
LastProxyWins ==
  pc \in Dialling =>
    IF \E p \in Known : IsLast(p, 2 + MaxOptions)
    THEN IsLast(via, 2 + MaxOptions)
    ELSE via = "environment"

\* When the last proxy given has no option behind it that makes the http client
\* log, both the http client and the websocket go through it, though the one is
\* set up as the options come and the other at every dial, and whether or not
\* an option that logs came before.  With one behind it what options.go:58 says
\* of Proxy fails: see ProxyForBoth (tiktok.go:290-310, wss.go:57-87).
ProxyForBothUnlessDebug ==
  pc \in Dialling =>
    \A p \in Known :
      LastOf(p, 2 + MaxOptions, Proxies \cup {"debug"}) => via = p /\ transport.via = p

\* A dial that fails leaves no connection to the proxy, and one that succeeds
\* through a proxy has it (http_proxy.go:62-109).
NoConnLeft ==
  /\ pc = "error" => conn # "open"
  /\ pc = "connected" => (conn = "open" <=> via \in Known)

-----------------------------------------------------------------------------
(* The inductive invariant *)

\* How far the making has got; what has been set stays set.
SetupPhase ==
  /\ pc # "options" => i = 2 + MaxOptions
  /\ pc \in {"options", "limits", "crashed", "trace", "failed"} => ~writer
  /\ pc \in {"options", "limits", "crashed", "trace", "failed", "finish"} => ~handler
  /\ pc \notin {"failed"} => ~cancelled
  /\ pc = "finish" => (writer <=> trace)
  /\ pc = "failed" => cancelled

\* The client's proxy is the last that was given.
ProxyIsLast ==
  /\ proxy \in Proxies => IsLast(proxy, i)
  /\ proxy = "none" => \A k \in 1..i : script[k] \notin Proxies

\* What has become of the transport by now: it goes through the last proxy that
\* no option that logs came behind, and logs from the first such option on.
TransportAsGiven ==
  /\ transport.logs = (\E k \in 3..i : script[k] = "debug")
  /\ \A p \in Proxies :
       transport.via = p <=> LastOf(p, i, Proxies \cup {"debug"})

\* Where the dial is, and the connection.
DialPhase ==
  /\ pc \notin Dialling => conn = "none"
  /\ pc = "dial" => conn = "none"
  /\ pc \in {"connect", "answer"} => conn = "open" /\ via \in Known

SetupInv ==
  /\ TypeOK /\ SetupPhase /\ AllOrNothing /\ ProxyIsLast /\ TransportAsGiven
  /\ LastProxyWins /\ DialPhase /\ NoConnLeft

-----------------------------------------------------------------------------
(* What the documentation says and the code does not do *)

\* "Proxy will set a proxy for both the http client and the websocket."  The
\* default transport goes through HTTPS_PROXY.
ProxyForBoth ==
  pc \in Dialling =>
    \A p \in Known :
      (\E k \in 3..(2 + MaxOptions) : script[k] = p /\ IsLast(p, 2 + MaxOptions))
        => /\ via = p
           /\ \/ transport.via = p
              \/ transport.via = "default" /\ script[2] = p

\* "EnableWSTrace will put traces for all websocket messages into the given
\* file": a client that traces has its file.
TraceHasFile == pc \in Dialling /\ trace => file = "open"

\* A dial that fails returns its error ("Failed to connect to ...").
DialReturns == pc # "panicked"
=============================================================================
