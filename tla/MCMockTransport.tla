-------------------------- MODULE MCMockTransport --------------------------
(***************************************************************************)
(* Three transports that know each other.  Goroutine t1 makes any two      *)
(* calls, t2 any one.                                                      *)
(***************************************************************************)
EXTENDS MockTransport

CONSTANTS a, b, c, t1, t2

MCTransports == {a, b, c}
MCThreads == {t1, t2}
MCMaxCalls == [t \in MCThreads |-> IF t = t1 THEN 2 ELSE 1]

Pairs == {p \in MCTransports \X MCTransports : p[1] # p[2]}

\* Every call, except those that name a transport as its own peer.
FreeCalls ==
  [op : {"broadcast", "close", "setHandler", "clearHandler"},
   m : MCTransports, o : {b}]
    \cup {[op |-> op, m |-> p[1], o |-> p[2]] :
            op \in {"connect", "disconnect", "send"}, p \in Pairs}

\* All transports are alike at the start, so that t2's one call may be taken to
\* be one of a, with b as the other.
MCCallsOf == [t \in MCThreads |-> IF t = t1 THEN FreeCalls
                                 ELSE [op : Operations, m : {a}, o : {b}]]

MCPeersAtStart == [m \in MCTransports |-> MCTransports \ {m}]
=============================================================================
