--------------------------- MODULE MCIngressStats ---------------------------
(* A small instance of IngressStats for TLC: three hosts of which one is   *)
(* in the configuration, two members, and the lines that tell Ingest's     *)
(* paths apart.                                                            *)
EXTENDS IngressStats

CONSTANTS h1, h2, h3, a1, a2

MCLine(host, status, upstream, times) ==
  [json |-> TRUE, host |-> host, status |-> status, bytesSent |-> 1,
   requestLength |-> 1, upstream |-> upstream, upstreamTime |-> times]

OkLine      == MCLine(h1, 200, <<a1>>, <<5>>)
RetryLine   == MCLine(h1, 200, <<a1, a2>>, <<6, 10001>>)
SameMember  == MCLine(h1, 404, <<a1, a1>>, <<-1, 10000>>)
Unavailable == [MCLine(h2, 504, <<a2, Dash, a1>>, <<3>>) EXCEPT !.bytesSent = -1]
OddStatus   == [MCLine(h3, 600, <<>>, <<>>) EXCEPT !.requestLength = -1]
Garbage     == [OkLine EXCEPT !.json = FALSE]
Hostless    == [OkLine EXCEPT !.host = NoHost]

MCLines == {OkLine, RetryLine, SameMember, Unavailable, OddStatus, Garbage,
            Hostless}
MCSeeds == {<<h1, a1>>, <<h1, NoAddr>>}
=============================================================================
