---------------------------- MODULE MCIdleClocks ----------------------------
(* Small instances of IdleClocks: one vhost whose configuration names a    *)
(* literal member, a member behind a DNS name, or a variable target.       *)
EXTENDS IdleClocks

CONSTANTS h1, a1, a2, n1, up1, var1

MCLine(host, upstream) ==
  [json |-> TRUE, host |-> host, status |-> 200, bytesSent |-> 1,
   requestLength |-> 1, upstream |-> upstream, upstreamTime |-> <<>>]
MCLines == {MCLine(h1, <<a1>>)}

Server(pass) == [names |-> {h1}, pass |-> pass]
Serving(pass, members) ==
  [servers |-> {Server(pass)},
   upstreams |-> [u \in {up1} |-> members]]

ByLiteral  == Serving(a1, {})
ByName     == Serving(n1, {})
ByUpstream == Serving(up1, {a1, n1})
ByVariable == Serving(var1, {})
ByBoth     == [ByLiteral EXCEPT !.servers = @ \cup {Server(var1)}]

(* The literal member is in both configurations, the name in one of them. *)
Everything == {ByBoth, ByUpstream}
NameOnly   == {ByName}
Removed    == {ByLiteral, ByVariable}

MCDns   == [n \in {n1} |-> a2]
MCSeeds == {h1} \X {a1, a2, n1, NoAddr}
=============================================================================
