----------------------------- MODULE IdleClocks -----------------------------
(***************************************************************************)
(* The life of the idle clocks across the goroutines main.go starts: the   *)
(* config refresher and the resolver loop of ConfigCollector, the seeder's *)
(* sweep, the tailer, the saver, and restarts of the process.  Each        *)
(* goroutine takes its own lock for one step at a time, so the steps of    *)
(* all of them interleave.  The shared Stats is IngressStats, whose        *)
(* operators are the methods; what this module adds is who calls them,     *)
(* with which arguments and in what order.                                 *)
(***************************************************************************)
EXTENDS IngressStats

CONSTANTS
  Name,        \* backends written as host names: members of Addr
  Dns,         \* the address each name has
  Topologies,  \* the nginx configurations the operator may deploy: see Config
  NoConfig,    \* the collector's cfg before the first successful refresh
  NoPass,      \* a server without a proxy_pass
  Variable,    \* pass targets that are $variables
  MaxDeploys   \* bound on the changes of configuration

(* A parsed configuration: its server blocks, and the members of its       *)
(* upstream blocks by name.  passHost strips scheme and path, so a pass    *)
(* target is an upstream's name, an address, or a variable.                *)
Literal == Addr \ Name

(* The members of a named upstream, the literal address, or nothing when   *)
(* the target is a variable or absent.                                     *)
Backends(c, srv) ==
  IF srv.pass = NoPass \/ srv.pass \in Variable THEN {}
  ELSE IF srv.pass \in DOMAIN c.upstreams THEN c.upstreams[srv.pass]
  ELSE {srv.pass}

(* What one sweep of the seeder visits. *)
Pairs(c) ==
  UNION {IF Backends(c, srv) = {} THEN srv.names \X {NoAddr}
                                  ELSE srv.names \X Backends(c, srv) : srv \in c.servers}

ConfiguredPairs == UNION {Pairs(c) : c \in Topologies}

ASSUME IdleConstants ==
  /\ Name \subseteq Addr /\ Dns \in [Name -> Literal]
  /\ NoConfig \notin Topologies /\ MaxDeploys \in Nat

(* Seeds has every pair the seeder may visit, resolved or not. *)
ASSUME SeedsCoverPairs ==
  \A p \in ConfiguredPairs :
    p \in Seeds /\ (p[2] \in Name => <<p[1], Dns[p[2]]>> \in Seeds)

VARIABLES
  deployed,   \* what nginx -T prints, or the files on disk say
  deploys,    \* how often that changed
  cfg,        \* ConfigCollector.cfg
  byHost,     \* resolverCache.byHost: a missing entry is NoAddr
  lookups,    \* names the resolver's current Refresh has yet to look up
  sweep,      \* the seeder: its place, pairs left, valid set and start time
  loaded,     \* history: the idle clocks this life started with
  served      \* history: members that had traffic in any life

background == <<deployed, deploys, cfg, byHost, lookups>>
history    == <<loaded, served>>
idleVars   == <<vars, background, sweep, history>>

-----------------------------------------------------------------------------
(* Slip: names are never mapped to the address the log shows. *)
Resolve_never(addr) == addr

(* Resolve: the cached address of a name, anything else unchanged. *)
Resolve(addr) ==
  IF addr \in Name /\ byHost[addr] # NoAddr THEN byHost[addr] ELSE addr

(* The identity a configured member has in the access log: nginx logs the  *)
(* address it connected to.                                                *)
LogIdentity(addr) == IF addr \in Name THEN Dns[addr] ELSE addr
Members(c) == {<<p[1], LogIdentity(p[2])>> : p \in {q \in Pairs(c) : q[2] # NoAddr}}

Idle == [at |-> "idle", todo |-> {}, valid |-> {}, start |-> 0]
NoLookup == [n \in Name |-> NoAddr]

-----------------------------------------------------------------------------
IdleInit ==
  /\ Init
  /\ deployed \in Topologies /\ deploys = 0
  /\ cfg \in {deployed, NoConfig}       \* the first refresh is synchronous
  /\ byHost = NoLookup /\ lookups = {}
  /\ sweep = Idle
  /\ loaded = NoState.upstreams /\ served = {}

(* The operator edits the configuration. *)
Deploy ==
  /\ deploys < MaxDeploys
  /\ deploys' = deploys + 1
  /\ \E c \in Topologies \ {deployed} : deployed' = c
  /\ UNCHANGED <<vars, cfg, byHost, lookups, sweep, history>>

(* refreshLocked succeeded; a failure keeps the previous cfg. *)
Refresh ==
  /\ cfg' = deployed
  /\ UNCHANGED <<vars, deployed, deploys, byHost, lookups, sweep, history>>

(* The resolver loop reads cfg and starts a pass over its host names. *)
StartLookups ==
  /\ cfg # NoConfig /\ lookups = {}
  /\ lookups' = Name \cap UNION {Backends(cfg, srv) : srv \in cfg.servers}
  /\ UNCHANGED <<vars, deployed, deploys, cfg, byHost, sweep, history>>

(* One lookup answers, and its result replaces the cached one ... *)
LookupOK(n) ==
  /\ n \in lookups
  /\ lookups' = lookups \ {n}
  /\ byHost' = [byHost EXCEPT ![n] = Dns[n]]
  /\ UNCHANGED <<vars, deployed, deploys, cfg, sweep, history>>

(* ... or it fails or times out, and a previous resolution stays. *)
LookupFails(n) ==
  /\ n \in lookups
  /\ lookups' = lookups \ {n}
  /\ UNCHANGED <<vars, deployed, deploys, cfg, byHost, sweep, history>>

(* The seeder reads cfg once and keeps that snapshot for the sweep. *)
SweepStart ==
  /\ sweep.at = "idle" /\ cfg # NoConfig
  /\ sweep' = [at |-> "seeding", todo |-> Pairs(cfg), valid |-> {}, start |-> now]
  /\ UNCHANGED <<vars, background, history>>

(* A vhost without backends starts its clock. *)
SweepVhost(p) ==
  /\ sweep.at = "seeding" /\ p \in sweep.todo /\ p[2] = NoAddr
  /\ Seed(p[1], NoAddr, sweep.start)
  /\ sweep' = [sweep EXCEPT !.todo = @ \ {p}]
  /\ UNCHANGED <<background, history>>

(* Slips: the valid set holds the configured identity instead of the seeded *)
(* one; a sweep restarts the clock of a member that already has one.       *)
SweepBackend_configIdentity(p) ==
  /\ sweep.at = "seeding" /\ p \in sweep.todo /\ p[2] # NoAddr
  /\ Seed(p[1], Resolve(p[2]), sweep.start)
  /\ sweep' = [sweep EXCEPT !.todo = @ \ {p}, !.valid = @ \cup {p}]
  /\ UNCHANGED <<background, history>>
SweepBackend_restarts(p) ==
  /\ sweep.at = "seeding" /\ p \in sweep.todo /\ p[2] # NoAddr
  /\ SeedVhost(p[1], sweep.start)
  /\ UpstreamLastSeen' = [UpstreamLastSeen EXCEPT ![<<p[1], Resolve(p[2])>>] = sweep.start]
  /\ UNCHANGED <<counters, verdicts, Unattributed, now, stamp, life, saved, ingested>>
  /\ sweep' = [sweep EXCEPT !.todo = @ \ {p}, !.valid = @ \cup {<<p[1], Resolve(p[2])>>}]
  /\ UNCHANGED <<background, history>>

(* A backend is seeded under its resolved identity.  Reading the cache and *)
(* seeding take two locks; a lookup between them commutes with the second. *)
SweepBackend(p) ==
  /\ sweep.at = "seeding" /\ p \in sweep.todo /\ p[2] # NoAddr
  /\ Seed(p[1], Resolve(p[2]), sweep.start)
  /\ sweep' = [sweep EXCEPT !.todo = @ \ {p}, !.valid = @ \cup {<<p[1], Resolve(p[2])>>}]
  /\ UNCHANGED <<background, history>>

(* The last step of the sweep, once every pair was seeded. *)
SweepPrune ==
  /\ sweep.at = "seeding" /\ sweep.todo = {}
  /\ PruneSeeds(sweep.valid)
  /\ sweep' = Idle
  /\ UNCHANGED <<background, history>>

(* The tailer takes the time for a line, and then feeds it. *)
LineRead == ReadTime /\ UNCHANGED <<background, sweep, history>>
Traffic(l) ==
  /\ Ingest(l)
  /\ served' = served \cup {k \in Key : UpstreamRequests'[k] > UpstreamRequests[k]}
  /\ UNCHANGED <<background, sweep, loaded>>

TimePasses == Tick /\ UNCHANGED <<background, sweep, history>>

(* The periodic saver, or the final save of a shutdown.  Only a later      *)
(* start reads the file, so the saves of the last life are left out.       *)
Save == life < MaxLives /\ SaveState /\ UNCHANGED <<background, sweep, history>>

(* The process stops and starts: its goroutines lose their place and the   *)
(* resolver its cache, the state file is loaded before the seeder starts.  *)
Reboot(st) ==
  /\ Restart(st)
  /\ cfg' \in {deployed, NoConfig}
  /\ byHost' = NoLookup /\ lookups' = {}
  /\ sweep' = Idle
  /\ loaded' = UpstreamLastSeen'
  /\ UNCHANGED <<deployed, deploys, served>>

IdleNext ==
  \/ Deploy \/ Refresh
  \/ StartLookups \/ \E n \in Name : LookupOK(n) \/ LookupFails(n)
  \/ SweepStart \/ SweepPrune
  \/ \E p \in sweep.todo : SweepVhost(p) \/ SweepBackend(p)
  \/ LineRead \/ \E l \in Lines : Traffic(l)
  \/ TimePasses \/ Save
  \/ \E st \in {saved, NoState} : Reboot(st)

(* The loops of the refresher, the resolver and the seeder run on tickers, *)
(* so each takes its steps again and again; DNS is not down for ever.      *)
Sweeping == SweepStart \/ SweepPrune \/ \E p \in sweep.todo : SweepVhost(p) \/ SweepBackend(p)
IdleFairness ==
  /\ WF_idleVars(Refresh)
  /\ WF_idleVars(StartLookups)
  /\ \A n \in Name : WF_idleVars(LookupOK(n) \/ LookupFails(n)) /\ SF_idleVars(LookupOK(n))
  /\ WF_idleVars(Sweeping)

IdleSpec     == IdleInit /\ [][IdleNext]_idleVars
FairIdleSpec == IdleSpec /\ IdleFairness

-----------------------------------------------------------------------------
(* Properties *)

(* The added variables keep their types, and a sweep works on a snapshot   *)
(* of a configuration that was deployed.                                   *)
IdleTypeInv ==
  /\ deployed \in Topologies /\ deploys \in Nat
  /\ cfg \in Topologies \cup {NoConfig}
  /\ DOMAIN byHost = Name /\ \A n \in Name : byHost[n] \in {NoAddr, Dns[n]}
  /\ lookups \subseteq Name
  /\ sweep.at \in {"idle", "seeding"}
  /\ sweep.at = "seeding" => sweep.start \in 2 .. now
  /\ sweep.todo \subseteq ConfiguredPairs /\ sweep.valid \subseteq SeedKeys
  /\ loaded \in [Key -> Nat] /\ served \subseteq Key

(* When a sweep comes to prune, every identity it will keep has its clock: *)
(* no member that is configured is left without one, whatever the other    *)
(* goroutines did since the sweep seeded it.                               *)
SweepKeepsSeeded ==
  sweep.at = "seeding" => \A k \in sweep.valid : UpstreamLastSeen[k] # 0

(* The comment at main.go:159: idle clocks survive restarts.  A member     *)
(* that every deployed configuration names and that has had no traffic in  *)
(* this life still shows the clock that was loaded from the state file.    *)
KeptIfLoaded(k) ==
  loaded[k] # 0 /\ UpstreamRequests[k] = 0 => UpstreamLastSeen[k] = loaded[k]
LoadedClockKept ==
  \A k \in Key : (\A c \in Topologies : k \in Members(c)) => KeptIfLoaded(k)

(* The same for the members that every configuration writes as addresses:  *)
(* it does not matter to them what else is configured, and when the        *)
(* resolver and the refresher have run since the restart.                  *)
AlwaysLiteral(k)  == k[2] \in Literal /\ \A c \in Topologies : k \in Pairs(c)
LiteralClockKept == \A k \in Key : AlwaysLiteral(k) => KeptIfLoaded(k)

(* The comment on PruneSeeds: entries with observed traffic are never      *)
(* pruned.  The clock of a member that ever served, once in memory, does   *)
(* not disappear from a running process.                                   *)
ServedNeverPruned ==
  [][\A k \in served : life' = life /\ UpstreamLastSeen[k] # 0 => UpstreamLastSeen'[k] # 0]_idleVars

(* Once deployments and restarts have stopped, the clocks that never saw   *)
(* traffic settle on the members the configuration names, under the        *)
(* identity the log will show: a name seeded while DNS was down, or a      *)
(* member that was removed, does not linger (state.go:39-43), and every    *)
(* configured member ends up with a clock, so that one which never gets    *)
(* traffic reaches the decommission rule (main.go:182).                    *)
ClocksSettle ==
  <>[]/\ \A k \in Key :
          UpstreamLastSeen[k] # 0 /\ UpstreamRequests[k] = 0 => k \in Members(deployed)
      /\ \A k \in Members(deployed) : UpstreamLastSeen[k] # 0
=============================================================================
