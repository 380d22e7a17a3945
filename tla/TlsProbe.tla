------------------------------- MODULE TlsProbe -------------------------------
(***************************************************************************)
(* TLSProbeCollector: each hour probeAll takes the topology, then the      *)
(* local addresses, dials one target after another (up to 5 s each), and   *)
(* swaps in the results under c.mu; Collect shows them.  At any moment     *)
(* the virtual address may move to the other node, a certificate may be    *)
(* renewed, a refresh begin or end, and the kernel fail to list the        *)
(* addresses.                                                              *)
(*                                                                         *)
(* A key stands for a pair of vhost and port; a target is a key with the   *)
(* address of a TLS listener, Loopback for one that loopback reaches.      *)
(* Names without SNI and listeners without TLS are left out of a topology. *)
(***************************************************************************)
EXTENDS Naturals, Sequences, Functions

CONSTANTS
  Key, VIP, Loopback,
  Topologies,     \* sequences of targets, in the order of the configuration
  MaxMoves, MaxRenewals, MaxReloads    \* bounds on what happens meanwhile

Address == {VIP, Loopback}
Target  == [key : Key, addr : Address]
Node    == {"here", "peer"}

ASSUME ProbeAssumption ==
  /\ VIP # Loopback
  /\ Topologies \subseteq Seq(Target)
  /\ MaxMoves \in Nat /\ MaxRenewals \in Nat /\ MaxReloads \in Nat

Absent == [ok |-> FALSE, node |-> "none", cert |-> 0]     \* no entry in the map
Failed == [ok |-> FALSE, node |-> "here", cert |-> 0]     \* probeResult{}
Result == {Absent, Failed} \cup [ok : {TRUE}, node : Node, cert : 0 .. MaxRenewals]

VARIABLES
  holder,    \* the node that holds the virtual address
  listing,   \* can net.InterfaceAddrs list the addresses?
  cert,      \* node -> the certificate it serves
  cfg,       \* the topology of the last refresh
  known,     \* has a refresh succeeded yet?  Config() is nil before
  locked,    \* is the ConfigCollector's c.mu held by a refresh?
  moves, reloads,
  pc,        \* of the prober: "asleep", "addresses", "probing"
  todo,      \* the targets still to probe
  local,     \* did localIPv4s have the virtual address?
  fresh,     \* key -> result, so far
  results,   \* key -> result, published
  probe,     \* history: of the probe under way, its topology, local, and
             \* whether the address left this node after it was read
  probed     \* history: the same of the probe whose results are published

config == <<cfg, known, locked, reloads>>
world  == <<holder, listing, cert, moves, config>>
prober == <<pc, todo, local, fresh, results, probed>>
vars   == <<world, prober, probe>>

None    == [k \in Key |-> Absent]
NoProbe == [cfg |-> <<>>, local |-> FALSE, left |-> FALSE]

Init ==
  /\ holder \in Node /\ listing \in BOOLEAN /\ cert = [n \in Node |-> 0]
  /\ cfg \in Topologies /\ known = FALSE /\ locked = FALSE
  /\ moves = 0 /\ reloads = 0
  /\ pc = "asleep" /\ todo = <<>> /\ local = FALSE
  /\ fresh = None /\ results = None /\ probe = NoProbe /\ probed = NoProbe

-----------------------------------------------------------------------------
(* Failover, at any moment *)
Move ==
  /\ moves < MaxMoves
  /\ moves' = moves + 1
  /\ holder' \in Node \ {holder}
  /\ probe' = [probe EXCEPT !.left = @ \/ (pc = "probing" /\ holder = "here")]
  /\ UNCHANGED <<listing, cert, config, prober>>

(* The kernel's interface table can be read, or cannot. *)
Listing ==
  /\ listing' = ~listing
  /\ UNCHANGED <<holder, cert, moves, config, prober, probe>>

Renew ==
  /\ \E n \in Node : cert[n] < MaxRenewals /\ cert' = [cert EXCEPT ![n] = @ + 1]
  /\ UNCHANGED <<holder, listing, moves, config, prober, probe>>

(* A refresh takes c.mu, and gives it back when nginx -T has ended, if it  *)
(* ever does; it has failed, or replaced the topology.                     *)
Lock ==
  /\ ~locked /\ locked' = TRUE
  /\ UNCHANGED <<holder, listing, cert, moves, cfg, known, reloads, prober, probe>>

Unlock ==
  /\ locked /\ locked' = FALSE
  /\ \/ UNCHANGED <<cfg, known, reloads>>
     \/ known' = TRUE /\ UNCHANGED <<cfg, reloads>>
     \/ /\ known' = TRUE /\ reloads < MaxReloads /\ reloads' = reloads + 1
        /\ cfg' \in Topologies \ {cfg}
  /\ UNCHANGED <<holder, listing, cert, moves, prober, probe>>

-----------------------------------------------------------------------------
(* Config(): it waits for c.mu; on nil probeAll returns at once.           *)
Start ==
  /\ pc = "asleep" /\ ~locked /\ known
  /\ pc' = "addresses" /\ todo' = cfg
  /\ probe' = [NoProbe EXCEPT !.cfg = cfg]
  /\ UNCHANGED <<world, local, fresh, results, probed>>

(* Slip: the addresses are listed once and kept. *)
Addresses_kept ==
  /\ pc = "addresses" /\ pc' = "probing"
  /\ local' = IF results = None THEN holder = "here" /\ listing ELSE probed.local
  /\ probe' = [probe EXCEPT !.local = local']
  /\ UNCHANGED <<world, todo, fresh, results, probed>>

(* localIPv4s(): no address at all on an error. *)
Addresses ==
  /\ pc = "addresses" /\ pc' = "probing"
  /\ local' = (holder = "here" /\ listing)
  /\ probe' = [probe EXCEPT !.local = local']
  /\ UNCHANGED <<world, todo, fresh, results, probed>>

(* Slip: the configured address is dialled, whoever has it. *)
Skipped_never(t) == fresh[t.key] # Absent

(* An address that this node does not hold is not dialled, nor is a key    *)
(* that another listener answered for.                                     *)
Skipped(t) == (t.addr = VIP /\ ~local) \/ fresh[t.key] # Absent

Skip ==
  /\ pc = "probing" /\ todo # <<>> /\ Skipped(Head(todo))
  /\ todo' = Tail(todo)
  /\ UNCHANGED <<world, pc, local, fresh, results, probe, probed>>

(* Whoever holds the address by now answers. *)
Answerer(t) == IF t.addr = VIP THEN holder ELSE "here"
Served(t)   == [ok |-> TRUE, node |-> Answerer(t), cert |-> cert[Answerer(t)]]

(* probeOne: a certificate, or no handshake. *)
Probe ==
  /\ pc = "probing" /\ todo # <<>> /\ ~Skipped(Head(todo))
  /\ \E r \in {Failed, Served(Head(todo))} : fresh' = [fresh EXCEPT ![Head(todo).key] = r]
  /\ todo' = Tail(todo)
  /\ UNCHANGED <<world, pc, local, results, probe, probed>>

(* Slip: the results are added to those of earlier probes. *)
Publish_merges ==
  /\ pc = "probing" /\ todo = <<>>
  /\ results' = [k \in Key |-> IF fresh[k] = Absent THEN results[k] ELSE fresh[k]]
  /\ probed' = probe
  /\ pc' = "asleep" /\ local' = FALSE /\ fresh' = None /\ probe' = NoProbe
  /\ UNCHANGED <<world, todo>>

(* The map is replaced as a whole; what probeAll kept of its own is gone.  *)
Publish ==
  /\ pc = "probing" /\ todo = <<>>
  /\ results' = fresh /\ probed' = probe
  /\ pc' = "asleep" /\ local' = FALSE /\ fresh' = None /\ probe' = NoProbe
  /\ UNCHANGED <<world, todo>>

Prober == Start \/ Addresses \/ Skip \/ Probe \/ Publish

Next == Move \/ Listing \/ Renew \/ Lock \/ Unlock \/ Prober

(* The hour passes, every dial ends within its 5 s, and whoever waits for  *)
(* c.mu has it in the end if it is given back again and again              *)
(* (sync.Mutex does not starve).                                           *)
Spec == Init /\ [][Next]_vars /\ WF_vars(Prober) /\ SF_vars(Start)

-----------------------------------------------------------------------------
(* Every variable has its type; what is still to probe belongs to the      *)
(* topology the probe began with.                                          *)
Probing == [cfg : Seq(Target), local : BOOLEAN, left : BOOLEAN]
TypeInv ==
  /\ holder \in Node /\ listing \in BOOLEAN /\ cert \in [Node -> 0 .. MaxRenewals]
  /\ cfg \in Topologies /\ known \in BOOLEAN /\ locked \in BOOLEAN
  /\ moves \in 0 .. MaxMoves /\ reloads \in 0 .. MaxReloads
  /\ pc \in {"asleep", "addresses", "probing"} /\ local \in BOOLEAN
  /\ fresh \in [Key -> Result] /\ results \in [Key -> Result]
  /\ probe \in Probing /\ probed \in Probing
  /\ Range(todo) \subseteq Range(probe.cfg) /\ (pc = "asleep" => todo = <<>>)

(* The series are those of one probe: each key of its topology that a      *)
(* listener within reach serves has a result, and no other key has one,    *)
(* whatever moves, renewals and refreshes there were during it.            *)
Reachable(p, k) == \E t \in Range(p.cfg) : t.key = k /\ (t.addr = Loopback \/ p.local)
OneProbe == \A k \in Key : results[k] # Absent <=> Reachable(probed, k)

(* A certificate of the other node is shown as this node's only if the     *)
(* address left this node while the probe that shows it was dialling.      *)
OwnCertificate ==
  \A k \in Key : results[k].ok /\ results[k].node = "peer" => probed.left

(* None is shown at all ("would traverse the network to the master and     *)
(* report the master's certificate under this node's identity").           *)
OwnOnly == \A k \in Key : results[k].ok => results[k].node = "here"

(* Once the address and the topology stay and the addresses can be listed, *)
(* the series become those this node should have ("Not held -> skip, no    *)
(* series"), show only its own certificates, those of the last renewal,    *)
(* and stay so, if no refresh keeps c.mu for good.                         *)
Settled(h, c) == holder = h /\ cfg = c /\ known /\ listing
SeriesFollow ==
  \A h \in Node, c \in Topologies :
    <>[]Settled(h, c) /\ []<>~locked =>
      <>[](\A k \in Key :
             /\ results[k] # Absent <=> Reachable([cfg |-> c, local |-> h = "here"], k)
             /\ results[k].ok => results[k].node = "here" /\ results[k].cert = cert["here"])
=============================================================================
