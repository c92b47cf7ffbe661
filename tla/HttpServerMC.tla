---------------------------- MODULE HttpServerMC ----------------------------
(* Instances of HttpServer for TLC.                                        *)
EXTENDS HttpServer, TLC

CONSTANTS c1, c2

\* A connection that is used twice and one that is used once, whose request the
\* program leaves unanswered.
MCMaxReq == [c \in Conn |-> IF c = c1 THEN 2 ELSE 1]

MCWays == [r \in Req |-> CASE r = <<c1, 1>> -> {"background", "whole"}
                           [] r = <<c1, 2>> -> {"chunked"}
                           [] OTHER -> {}]

\* A request the program may still reply to.
Repliable(r) ==
  r \in objects \/ r[2] > asked[Thread(r)] \/ \E i \in DOMAIN queue : queue[i].req = r

\* Nobody looks at the event of a request whose server thread no longer waits, nor at
\* what has been noted of a request that the program cannot reply to any more: states
\* that differ only there are the same.
LiveView ==
  <<shutdown, pending, listenerVars, servers, serverVars, trefs, queueVars, refs, sender,
    vpc, vreq, objects, server,
    [r \in Req |-> signaled[r] > 0 /\ Cur(Thread(r)) = r /\ spc[Thread(r)] = "waiting"],
    [r \in Req |-> completed[r] /\ Repliable(r)],
    {r \in doubled : Repliable(r) \/ Background(r) > 0}>>
=============================================================================
