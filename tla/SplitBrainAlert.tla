--------------------------- MODULE SplitBrainAlert ---------------------------
(***************************************************************************)
(* The alert NginxVRRPSplitBrain of rules/hygiene.yml over what the        *)
(* exporters of a pair show: the nodes advertise, each exporter observes   *)
(* them, Prometheus scrapes the exporters at moments of its own and        *)
(* evaluates the rule over its latest samples, at moments of its own too.  *)
(*                                                                         *)
(* The unit of time is the advert interval; a master advertises once in    *)
(* every unit.  keepalived, the network and Prometheus, which forgets a    *)
(* target's series when a scrape of it fails, are the environment.         *)
(***************************************************************************)
EXTENDS Naturals, FiniteSets

CONSTANTS
  Node,         \* the pair; each node runs keepalived and an exporter
  None,         \* no master observed yet
  Splits,       \* how the nodes may come to be deaf to each other: see Reaches
  ScrapeEvery,  \* the time from one scrape of a target to the next
  EvalEvery,    \* the time from one evaluation of the rule to the next
  For,          \* for: 30s
  Settle        \* a node that takes over keeps the address for so long

ASSUME AlertAssumption ==
  /\ IsFiniteSet(Node) /\ None \notin Node /\ Splits \subseteq {"segment", "filter"}
  /\ ScrapeEvery \in Nat \ {0} /\ EvalEvery \in Nat \ {0} /\ For \in Nat \ {0} /\ Settle \in Nat

VARIABLES
  up,           \* hosts that run, with all that is on them
  link,         \* nodes whose VRRP interface works
  split,        \* "none", or one of Splits from some time on
  master,       \* the nodes that are master for the VRID
  due,          \* those that have yet to advertise in this unit
  quiet,        \* time since the last takeover, up to Settle
  view,         \* each exporter's tracker: its State of the VRID, with its age
  sample,       \* the nodes for which each target's last scrape had
                \* nginx_fleet_vrrp_master at 1
  sampleAge,
  evalAge,      \* time since the rule was evaluated
  active,       \* whether its expression held then
  pending,      \* time since the first of the evaluations at which it has
                \* held without a break, up to For
  firing,       \* the alert rings
  both          \* history: for how long there have been two masters

hosts   == <<up, link>>
routers == <<split, master, due, quiet>>
alert   == <<evalAge, active, pending, firing>>
prom    == <<sample, sampleAge, alert>>
vars    == <<hosts, routers, view, prom, both>>

Lesser(x, y) == IF x < y THEN x ELSE y

(* Old enough for every sample to be newer, and the alert to have rung. *)
Settled == ScrapeEvery + 2 * EvalEvery + For + 1

Unheard == [Master |-> None, Stepdown |-> FALSE, age |-> 0]

Init ==
  /\ up = Node /\ link = Node /\ split = "none"
  /\ \E n \in Node : master = {n}
  /\ due = master /\ quiet = Settle
  /\ view = [o \in Node |-> Unheard]
  /\ sample = [o \in Node |-> {}] /\ sampleAge = [o \in Node |-> ScrapeEvery]
  /\ evalAge = EvalEvery /\ active = FALSE /\ pending = 0 /\ firing = FALSE
  /\ both = 0

-----------------------------------------------------------------------------
(* The nodes.                                                              *)

(* Does an advert of n get to o's interface?  A node sees its own adverts. *)
(* "segment": nothing passes between the nodes.  "filter": adverts pass,   *)
(* and so the exporters capture them, but keepalived refuses them (a       *)
(* packet filter, another password).                                       *)
Reaches(n, o) == n \in link /\ (o = n \/ (o \in link /\ split # "segment"))
Deaf          == split # "none"

Leaves(n) == /\ master' = master \ {n} /\ due' = due \ {n}
             /\ both' = IF Cardinality(master') > 1 THEN both ELSE 0

Die(n) ==
  /\ n \in up /\ up' = up \ {n} /\ Leaves(n)
  /\ view' = [view EXCEPT ![n] = Unheard]
  /\ UNCHANGED <<link, split, quiet, prom>>

Boot(n) ==
  /\ n \notin up /\ up' = up \cup {n}
  /\ UNCHANGED <<link, routers, view, prom, both>>

(* keepalived is in its fault state while the interface is down. *)
LinkDown(n) ==
  /\ n \in up \cap link /\ link' = link \ {n} /\ Leaves(n)
  /\ UNCHANGED <<up, split, quiet, view, prom>>

LinkUp(n) ==
  /\ n \notin link /\ link' = link \cup {n}
  /\ UNCHANGED <<up, routers, view, prom, both>>

SplitApart ==
  /\ split = "none" /\ split' \in Splits
  /\ UNCHANGED <<hosts, master, due, quiet, view, prom, both>>

(* By timeout, priority or the other's leave; if they hear each other, the *)
(* former master gives up.                                                 *)
TakeOver(n) ==
  /\ n \in (up \cap link) \ master /\ quiet = Settle
  /\ master' = IF Deaf THEN master \cup {n} ELSE {n}
  /\ due' = (due \cap master') \cup {n} /\ quiet' = 0
  /\ UNCHANGED <<hosts, split, view, prom, both>>

(* Tracker.Observe in every exporter that the advert reaches. *)
Observe(n, stepdown) ==
  view' = [o \in Node |-> IF o \in up /\ Reaches(n, o)
                          THEN [Master |-> n, Stepdown |-> stepdown, age |-> 0]
                          ELSE view[o]]

Advertise(n) ==
  /\ n \in due /\ due' = due \ {n}
  /\ Observe(n, FALSE)
  /\ UNCHANGED <<hosts, split, master, quiet, prom, both>>

(* The last advert of a master that stops in good order has priority 0. *)
Resign(n) ==
  /\ n \in master /\ Leaves(n)
  /\ Observe(n, TRUE)
  /\ UNCHANGED <<hosts, split, quiet, prom>>

-----------------------------------------------------------------------------
(* The exporters and the rule.                                             *)

(* now - LastSeen < MasterDownInterval, which is above 3 units and at most *)
(* 4.                                                                      *)
MasterAlive(s) == s.Master # None /\ s.age <= 3

(* Slip: a master that fell silent stays one. *)
MasterVal_immortal(s) == s.Master # None /\ ~s.Stepdown

MasterVal(s) == MasterAlive(s) /\ ~s.Stepdown

Scrape(o) ==
  /\ sampleAge[o] > 0
  /\ sample' = [sample EXCEPT ![o] = IF o \in up /\ MasterVal(view[o])
                                     THEN {view[o].Master} ELSE {}]
  /\ sampleAge' = [sampleAge EXCEPT ![o] = 0]
  /\ UNCHANGED <<hosts, routers, view, alert, both>>

(* Slip: the targets are counted one by one. *)
Expression_byTarget == \E o \in Node : Cardinality(sample[o]) > 1

(* count by (vrid) (max by (vrid, node) (nginx_fleet_vrrp_master) == 1) > 1 *)
Expression == Cardinality(UNION {sample[o] : o \in Node}) > 1

(* The alert rings once an evaluation finds that the expression has held   *)
(* at every evaluation since For.                                          *)
Evaluate ==
  /\ evalAge > 0 /\ evalAge' = 0
  /\ active' = Expression
  /\ pending' = IF active /\ Expression THEN pending ELSE 0
  /\ firing' = (active /\ Expression /\ pending = For)
  /\ UNCHANGED <<hosts, routers, view, sample, sampleAge, both>>

(* A unit passes. *)
Tick ==
  /\ due = {} /\ evalAge < EvalEvery /\ \A o \in Node : sampleAge[o] < ScrapeEvery
  /\ due' = master
  /\ view' = [o \in Node |-> IF view[o].Master = None THEN Unheard
                             ELSE [view[o] EXCEPT !.age = Lesser(@ + 1, 4)]]
  /\ sampleAge' = [o \in Node |-> sampleAge[o] + 1]
  /\ evalAge' = evalAge + 1
  /\ pending' = IF active THEN Lesser(pending + 1, For) ELSE 0
  /\ quiet' = Lesser(quiet + 1, Settle)
  /\ both' = IF Cardinality(master) > 1 THEN Lesser(both + 1, Settled) ELSE 0
  /\ UNCHANGED <<hosts, split, master, sample, active, firing>>

Next ==
  \/ \E n \in Node : \/ Die(n) \/ Boot(n) \/ LinkDown(n) \/ LinkUp(n)
                     \/ TakeOver(n) \/ Advertise(n) \/ Resign(n)
                     \/ Scrape(n)
  \/ SplitApart
  \/ Evaluate
  \/ Tick

Spec == Init /\ [][Next]_vars

-----------------------------------------------------------------------------
(* Every variable has its type; only nodes that run and have a link are    *)
(* masters, and two at once only when they are deaf to each other.         *)
TypeInv ==
  /\ up \subseteq Node /\ link \subseteq Node /\ split \in Splits \cup {"none"}
  /\ master \subseteq up \cap link /\ due \subseteq master
  /\ view \in [Node -> [Master : Node \cup {None}, Stepdown : BOOLEAN, age : 0 .. 4]]
  /\ sample \in [Node -> SUBSET Node] /\ sampleAge \in [Node -> 0 .. ScrapeEvery]
  /\ evalAge \in 0 .. EvalEvery /\ active \in BOOLEAN /\ firing \in BOOLEAN
  /\ pending \in 0 .. For /\ quiet \in 0 .. Settle /\ both \in 0 .. Settled
  /\ Cardinality(master) > 1 => Deaf

(* A failover does not ring: while the nodes hear each other, takeovers,   *)
(* stepdowns, dead hosts and dead links never make the samples of two      *)
(* exporters, taken at different times, disagree for as long as For.       *)
NoFalseAlarm == split = "none" => ~firing

(* Two nodes that stay masters ring the alert ("more than one node         *)
(* advertising as master").                                                *)
SplitBrainRings == both = Settled => firing
=============================================================================
