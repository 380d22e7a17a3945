# nginx-fleet-exporter in TLA+

A TLA+ model of the exporter's stateful core: what it remembers about
traffic, how that survives restarts, how the access log is followed, how VRRP
mastership is heard, tracked, scraped and alerted on, how the nginx and
keepalived configurations are refreshed and parsed, and how a scrape and a
shutdown go. Paths below are relative to the repository, modules are
in this directory. `PROJECT.json` lists every run, mutant, theorem, hazard and
the source lines each definition stands for.

Contents: [1 Inventory](#1-inventory), [2 Modules](#2-modules-and-their-code),
[3 Runs](#3-runs), [4 Fairness](#4-fairness), [5 Proofs](#5-proofs),
[6 Where code and documentation differ](#6-where-code-and-documentation-differ),
[7 Abstractions](#7-abstractions), [8 Plan](#8-plan).

## 1 Inventory

One Go process. `main.go` starts the collectors, the goroutines below and an
HTTP server; a Prometheus scrape calls every collector's `Collect`.

| Component | State it keeps | Operations | Interacts with |
|---|---|---|---|
| `ingress.Stats` (`logtail.go`, `state.go`) | counters, idle clocks and verdicts per vhost and upstream member, under `Stats.mu` | `Ingest`, `Seed`, `PruneSeeds`, `SaveState`, `LoadState` | tailer, seeder, savers, scrape |
| idle-clock seeding (`main.go`, `resolve.go`, `config.go`) | the configuration, the DNS cache, the sweep's valid set | refresh, resolver pass, sweep, prune | `Stats`, each through its own lock |
| state file (`state.go`, `main.go`) | the JSON file and its temporary name | periodic save every minute, final save, load at start | `Stats`, the file system, a kill at any step |
| log tailer (`ingress.Tail`, retry loop of `main.go`) | open file, offset, last size, partial line, `ingressRunning` | open, read, stat, reopen | nginx and logrotate through the file system |
| `vrrp.Tracker` (`tracker.go`) | a state per VRID, transition counts up to a cap, stepdowns, drops | `Observe`; `Snapshot`, `Stepdowns`, `Dropped` | listener, scrape |
| `VRRPCollector` and listener goroutine (`collectors/vrrp.go`, `main.go`) | `vrrpRunning` | `Collect` (three locked reads), `enabled()` | tracker |
| `ConfigCollector` (`config.go`) | topology, failure count, `c.mu` | synchronous first refresh, background refresher, scrape | `nginx -T`, parser, seeder, TLS probe |
| `TLSProbeCollector` (`tlsprobe.go`) | results of the last probe | `probeAll` hourly, scrape | topology, local addresses, listeners of nginx |
| nginx parser (`parse.go`, `load.go`) | per call: block stack, current server, current upstream | `Parse`, `LoadFromDisk` | `ConfigCollector` |
| VRRP packet parser, capture socket (`packet.go`, `listener_*.go`) | the receive buffer, used again for every frame | receive, trim, decode, checksum | tracker |
| keepalived parser (`keepalived/`) | per call: current instance, depth, a flag | parse one file, segment lookup | `VRRPCollector` |
| `ingress.Collector` | none of its own | one locked read of `Stats` | `Stats` |
| `stub_status` collector (`stub.go`) | none | one HTTP request per scrape | nginx, which may hang |
| workers collector (`workers*.go`) | none | one scan of `/proc` per scrape | nginx, which forks meanwhile |
| HTTP server, signal, shutdown (`main.go`) | the context, the listener | gather, `Shutdown`, final save | every collector |
| alert rules (`rules/hygiene.yml`) | Prometheus' samples and `for:` clocks | evaluate | the series of several exporters |
| dashboard, deployment script | none | | not modelled |

What is hard, and what correctness means for each:

* **Stats**: the cap on vhosts counts loaded, seeded and observed vhosts
  alike; one line may hold failed and successful attempts on the same member;
  clocks decide which members may be decommissioned, so none may restart,
  vanish while it serves, or be ahead of time; no counter may go back. The
  tailer reads the time before it takes the lock, so that a seed with a later
  time may come between.
* **Seeding**: four goroutines replace the configuration, the DNS cache and
  the clocks between any two steps of a sweep. A sweep must not prune what it
  seeded, and the clocks must settle on what is configured.
* **State file**: whole or absent after a kill at any step. The final save
  waits for no periodic one, and both write the same temporary file.
* **Tailer**: rotation, reopening and truncation fall between any two system
  calls. No line twice, none torn, none lost as long as it stands.
* **VRRP**: adverts arrive between the reads of one scrape. Each takeover and
  stepdown is counted once, the cap loses nothing silently, the counters
  explain the states shown with them, the gauge obeys RFC 5798.
* **ConfigCollector**: a refresh that cannot have the deployed topology must
  keep the last one and be counted, and every scrape is answered. A fallback
  that cannot read some include is a success, with a part of the topology.
* **TLS probe**: an address may move to the other node while probing; the
  series must be of one probe, and those of this node once all settles.
* **nginx parser**: two kinds of text for one configuration, and blocks whose
  parents are printed elsewhere. Of what it yields a scrape must make no
  series twice: the registry then refuses the whole scrape.
* **VRRP packets**: v2 and v3 share a header and differ in checksum, interval
  and trailer; frames are padded, cut, damaged or something else, and lie in a
  buffer with older bytes. Exactly the whole adverts may be observed.
* **keepalived parser**: a flag and two numbers stand for the nesting.
* **Scrape and shutdown**: a scrape waits for its slowest collector, `nginx
  -T` may never return, and SIGTERM may come at any of these moments.
* **Split-brain alert**: two exporters with views of their own, sampled at
  different times; a failover must not ring, two masters must.

## 2 Modules and their code

**IngressStats** is the abstract core: one action per method of `Stats`, each
of which holds `Stats.mu` for its whole effect. `Ingest` is split by its early
returns (`IngestParseFail`, `IngestNoHost`, `IngestLine`); the attempts of a
line are folded in order by `CountAttempts` and `StampAttempts`. `Tick` is
time, `Restart` a new process that loads the file or starts empty. The tailer
reads the time of a line (`ReadTime`, into `stamp`) before `Ingest` takes the
lock; a seed, a save or time itself may come between. The history variables
`ingested` and `evidence` say what the properties compare with.

**IdleClocks** EXTENDS IngressStats and adds the goroutines that call it:
`Refresh`, `StartLookups`/`LookupOK`/`LookupFails`, `SweepStart`, one
`SweepVhost` or `SweepBackend` per configured pair, `SweepPrune`, `LineRead`
and `Traffic`, `Save`, `Reboot`. Every one of its steps is a step of `IngressStats!Spec` or
leaves it alone, and this refinement is both a run and a theorem.

**StateFile** is `SaveState` system call by system call (`Snapshot`,
`OpenTmp`, `WriteBlock`, `CloseTmp`, `Rename`) for the periodic and the final saver,
over inodes and names, with errors, a kill and restarts. Nothing keeps the two
savers apart. **AtomicStore** is what `SaveState` promises: the stored snapshot
changes in one step to a newer one; where two saves meet, the promise is
suspended until a save that met no other has gone through, but nothing older
comes back than what was stored before they met. The refinement maps the file
to the snapshot it holds, or to `Torn`.

**LogTail** has each `Open`, `Seek`, `Read`, `Stat` of `Tail` and the retry
loop of `main.go` as steps; `Write`, `Rotate`, `Create`, `Reopen`, `Truncate`,
`Grant` are nginx, logrotate and the operator. Lines are two halves, so that a
read can end inside one.

**VrrpTracker** is `Observe` and `count` with the cap; **VrrpCollector**
EXTENDS it with the listener's life and with `Collect`, whose reads of the
clock, `Snapshot`, `Stepdowns` and `Dropped` are four steps between which
adverts arrive.

**VrrpPacket** is one round of `Listen`'s loop per action: a frame overwrites
the start of the buffer (`Recvfrom`), the IP header is read from it (`TotLen`,
`IHL`, `Heard`) and `Parse` decodes the message, with `inetChecksum` over
real bytes. `Message` builds what keepalived sends from the RFCs, apart from
Parse; `ReceiveCut`, `ReceiveDamaged` and `ReceiveOther` are the other frames.

**ConfigRefresh** is `Start`, the refresher holding `c.mu` from `Begin` to
`CommandOK` (`nginx -T`), or after `CommandFails` to `DiskOK` (the fallback,
which succeeds without the includes it cannot read) or `RefreshFails`, and a
scrape that needs the same mutex. `Flip` makes files unreadable or readable.

**WorkerScan** is `listWorkers`: `List` reads the entries of `/proc`, `Visit`
one of them, while `Nginx` forks and ends workers.

**Scrapes** EXTENDS ConfigRefresh and takes WorkerScan in as `W`: `Gather`
starts the three collectors that can wait, `Respond` needs all of them;
`Hang` is an `nginx -T` that never returns, `Signal` and `Exit` are the way
from SIGTERM to the end of `main`. Each of its steps is one of ConfigRefresh,
one of WorkerScan, both at once, or neither (theorem `ScrapesImplementRefresh`).

**TlsProbe** is `probeAll`, target by target, with the local addresses taken
once at its start (`Addresses`, in a step of its own after `Start` had the
configuration, and empty when the kernel's table cannot be read); `Move`,
`Listing`, `Renew`, `Lock` and `Unlock` change the world meanwhile, at any
moment.

**NginxConf** lets an operator write any configuration up to a bound, item by
item, in three parts: the main file up to its include, the file included, and
the rest of the main file. Beside the items (`text`) each action keeps what
nginx makes of them (`servers`, `members`, `workers`), part by part, by the
blocks that are open (`path`), and independently of Parse; `ServersMeant`,
`UpstreamsMeant` and `WorkersMeant` put the parts together. `NginxT`,
`LoadFromDisk` and `LoadMainFile` are the texts `refreshLocked` may get: the
parts in two orders and under two markings, and the main file alone, when the
included file cannot be read or a comment behind the include hides it; what is
meant is then what the main file alone means. One action per case of `Parse`
consumes them.
`MemberInfo` and `VhostInfo` are the series that `Collect` makes of the result.

**KeepalivedConf** does the same for `keepalived.conf`, line by line: the
operator's actions build the text and what it means side by side, one action
per case of the switch in `parse` consumes it, and `Count` is the accounting of
braces after the switch. `WriteElsewhere` puts a word that is a setting of an
instance into a block that is none.

**SplitBrainAlert** puts a pair together: `TakeOver`, `Advertise`, `Resign`,
`Die`, `LinkDown` and so on are hosts, keepalived and network, `Observe` and
`MasterVal` the tracker and the gauge of each exporter, `Scrape` Prometheus,
`Expression` and `Evaluate` the rule and its `for:`, evaluated at moments of
its own, as `hygiene.yml` sets no interval.

The `MC` modules define the finite inputs of the runs. Operators named
`X_variant` next to a definition `X`, marked "Slip", are the plausible bugs
the properties are tried against (the mutants of `PROJECT.json`): each is `X`
with one guard, reset or order wrong, and no specification uses them.

## 3 Runs

Each passing run asks one question; every action of every next-state relation
is taken in one of them.

| Run | States | Bounds | Shows |
|---|---|---|---|
| `ingress_stats` | 173 615 | 3 hosts, cap 1, 2 members, 7 kinds of line, 4 moments, 1 restart | Clocks, counters, verdicts and the cap under every order of calls, also with a time read before a seed and used after it. The lines are one per path of `Ingest`: retried, repeated and missing attempts, negative sizes, a status without a class, garbage. One vhost more than the cap admits exists, and one more than that, so that folding and staying below it both happen. |
| `idle_clocks` | 234 966 | 1 vhost, 2 addresses, 1 name, 2 configurations, 1 change, 1 restart, 3 moments | The interleaving of the sweep with everything else, refinement of `IngressStats`, literal clocks over a restart, settling. The second configuration turns an address and a variable into an upstream with a name in it, so each kind of target comes and goes. |
| `state_file` | 1 048 100 | 3 changes, 1 restart, snapshots of 1 and 2 blocks | With both savers at any place, `SaveState` implements `AtomicStore`. A shorter snapshot after a longer one shows leftovers; three changes give each saver a snapshot of its own and the next process another. |
| `tail` | 39 153 | 3 lines, 1 rotation, 1 truncation | Fed once, whole, and eventually. Three lines are one before, one across and one after a rotation. |
| `vrrp` | 842 562 | 2 nodes, 1 router, 4 adverts, cap 2, time up to 17 | Counts equal the history of the adverts, also beyond the cap (three transitions of four are possible with four adverts); a scrape explains itself; the gauge changes between 3 and 4 intervals of 4. |
| `vrrp_packet` | 69 938 | 3 adverts, IP options or none, damage by 1, 16, 128 or 255, 2 frames | Exactly the whole adverts are observed, of the frame at hand. The adverts are a v2 with a password and an address, a v3 with two addresses and an interval above one byte, a v3 with none; every length is cut, every byte of the message damaged; a second frame is what old bytes take. |
| `scrapes` | 244 140 | 1 deployment, failures counted to 1, 2 processes | No older topology comes back, one that no longer follows is counted, standing workers shown, scrapes answered, the process stopped, convergence. One worker that stays and one that comes, or one that goes, are what a scan can confuse. |
| `tls_probe` | 611 160 | 3 keys, 2 moves, 1 renewal, 1 reload | One probe's results, another node's certificate only when the address left during that probe, and the right series in the end. Two moves take the address away during a probe and bring it back. |
| `nginx_conf` | 314 394 | 8 items, 2 words, 1 upstream, 1 file included up to twice | All three texts parse to the topology meant; with `nginx -T` also to the right file; each series once. Eight items hold two blocks side by side or nested with their directives, inside and outside of the included file, and a server with a listener, a name and a target twice over. A listener in front of a member of an upstream block takes nine: that was run once with one word and holds. |
| `keepalived` | 1 408 525 | 8 lines, 2 instances, 2 addresses, 2 numbers, 1 interface | Membership as written. Eight lines hold an instance with addresses and a setting after them, another block inside, and a second instance, or after an instance another block with an interface of its own. |
| `split_brain` | 1 604 656 | 2 nodes, scrapes and evaluations every 2 advert intervals, `for:` 6, takeovers 8 apart | No failover rings, a parted segment rings. 6 and 8 are the least that are enough for these intervals, as the theorem says for all. |
| `split_brain_filter` | | the same, adverts refused by keepalived only | Expects a violation, see section 6. |

Some runs are deliberately restricted, and say so in their specification or constants:
`tail` runs `CalmSpec`, whose
truncation finds the tailer at rest and stays visible until it looked, and in
which no new log appears between an `os.Stat` that gave a size and the
`os.Open` after it. What happens otherwise is in section 6. `nginx_conf`
includes whole blocks
or, inside a server, directives that Parse ignores (`Snippets = FALSE`).
`keepalived` writes a block's brace at the end of its first line and no address
twice (`Braces`, `Repeats`); `split_brain` parts the segment, so that no advert
passes (`Splits`).

Deadlock is checked everywhere but in `StateFile`, where the process may end
for good after its last allowed restart, and `VrrpPacket`, whose frames are
bounded.

## 4 Fairness

* `FairIdleSpec`: refresher, resolver and seeder run on `time.Ticker`s, so
  each of their enabled steps is taken in the end (weak fairness). A lookup
  always returns (it has a timeout), and strong fairness of `LookupOK` says
  that DNS is not down for ever; without it a name could stay unresolved and
  its clock keep the wrong identity. A refresh is one step here, so fairness
  of it also says that `nginx -T` returns: the seeder asks for the
  configuration (`main.go:188`), which waits for the mutex that a refresh
  holds. While the command hangs, `ClocksSettle` promises nothing; `Scrapes`
  and `TlsProbe` have the hang.
* `LogTail!FairSpec`, `CalmSpec`: the tailer is one goroutine that always has
  a next step; nginx, logrotate and the operator owe nothing.
* `ScrapesFairSpec`: ticks come and an `nginx -T` that does not hang returns
  (weak fairness of `Refresh`; the code sets no timeout, so that hanging is an
  action of its own, `Hang`, and what holds only without it says so); a
  goroutine that waits for a `sync.Mutex` gets it in the end, which Go's
  starvation mode gives (strong fairness of `CollectConfig`); reads of `/proc`
  return, the stub's client has a timeout of 3 s, and `main` goes on once
  `ListenAndServe` returned. `Converges` assumes that the configuration can be
  had for good.
* `TlsProbe!Spec`: the hour passes and every dial has a timeout of 5 s (weak
  fairness of `Prober`). A probe begins with `Config()`, which waits for the
  mutex a refresh holds, and gets it in the end if it is given back again and
  again (strong fairness of `Start`, as above). Nothing obliges a refresh to
  give it back: `SeriesFollow` is stated for runs in which it does.

## 5 Proofs

TLAPS checks the following for every value of the constants, that is for any
number of hosts, members, nodes, lines, adverts, configurations and bounds.
Assumptions are the named `ASSUME`s of the modules: disjoint model values,
natural bounds, finite sets of hosts, members and routers (for cardinalities),
adverts and lines of the right type, and that `Seeds` covers what the
configurations may name (it is only the bound of TLC's enumeration).

* **StatsProofs**. `IInv` joins the type invariant, `ClockBounds`, `TimeRead`,
  `ObservedHaveClock`, both halves of `CapExact` and
  `VerdictIsLatestEvidence`. The parts need one another: a verdict compares
  two times, so that it is right only if no time recorded before is ahead of
  now (`ClockBounds`); and a missing entry is a time of 0, so that the cap is
  right only if no entry is stamped, or truncated to a saved second, of 0.
  `TimeRead` says that the time read for the next line is later than all that
  was *observed* before; a seed may well be later than it.
  From it: `TypeCorrect`, `ObservedClockCorrect`, `CapExactCorrect`,
  `VerdictCorrect`, `ClocksPastCorrect` and, as an action property,
  `MonotoneCorrect`: a clock does go back when a sweep seeds it between the
  tailer's `time.Now()` (`logtail.go:260`) and its lock (`logtail.go:90`), and
  the theorem says that this is the only way besides pruning, to the time the
  tailer had read, and never for what traffic was observed on. `BooksCorrect` is about sums over sets of counters. The
  library's sum is a recursive function over subsets; its solution exists, and
  where each event adds one to the counter it belongs to, the sum grows by the
  number of events that belong to one (`SumCounts`): both by an induction over
  sets, for which `NatSetInduction` takes the least counterexample.
  Of the goroutines, `IdleImplementsStats` maps each step of the goroutines
  to a step of Stats or a stutter, which carries the invariants above over.
  `SweepCorrect` needs that a key in the valid set has a clock and that only
  the sweep itself prunes. `LiteralClocksSurvive` strengthens this: a member
  that every configuration writes as an address is in the valid set or still
  to visit in every sweep under way, whatever names are configured beside it.
* **VrrpProofs**. `TInv` joins types, `KeyCap` and `StateIsCounted` (every
  master got there by a counted or a dropped transition, every stepdown shown
  is counted). `ScrapeCorrect` is the argument that three reads are one
  coherent scrape: the tracker's counts only grow, so at each place between
  the reads what was read is explained by what is still to be read (`CInv`).
  It fails for any other order of the reads. `GaugeCorrect` bounds the
  integer skew by one interval for every priority.
  `TransitionsCorrect` and `RoutersCorrect` say that the tracker is what the
  adverts heard so far make of it. The invariant (`HInv`) describes the state
  of `Observe` by the history alone: a change of master belongs to the pair of
  its two masters, a pair is admitted when fewer than the cap came before it,
  and of an admitted pair every change is counted, of the others none; that a
  new advert leaves what came before as it was is most of the proof.
  `HistoryBesideScrapes` carries both over to the specification with scrapes.
  `ActiveCorrect` remembers how many adverts there were when the scrape read
  the clock (`AInv`); `StaysEnabledCorrect` is an action property.
* **StateFileProofs**. All of it holds wherever the two savers are. `SInv`
  follows a save that has met no other (`Alone`): the temporary file is a part
  of its snapshot, all of it when it is closed. Of any other it knows only how
  old the blocks may be that lie in the state file, in the files being written
  and in what a rename may find (`Recent`), and that the file is whole unless
  two met since (`Sound`). From it: `SinceCorrect`, what the file holds at any
  time, and `StoreCorrect`, the refinement of AtomicStore step by step, which
  also needs that a file holds one snapshot only (`OneSnapshot`).
* **LogTailProofs**. `LogTailTypeCorrect` holds of the whole specification.
  The other two need conditions on who writes the log, and state them:
  `OnlyWholeLinesCorrect` that a truncation finds the tailer at rest,
  `FedOnceCorrect` also that the log it opens again is not shorter than the
  size it looked at. Then (`Once`) what was fed is an increasing sequence of
  lines, and all that is still to be read comes after it: lines are numbered
  in the order of writing, and a file of its own has either been read from
  its start or is newer than all that was read. `OnlyWholeLinesCalm` and
  `FedOnceCalm` show that `CalmSpec` meets the conditions;
  `OnlyWholeLinesUntruncated` has none, with `MaxTruncations = 0`.
* **ParserProofs**. Of keepalived.conf: what the parser does is stated of the
  text that is left (`Leads`): parsing it from here gives what the operator
  meant. While the operator writes, each line is added to what it leads to;
  while the parser reads, each action takes one line off. So
  `MembershipAsMeantCorrect` holds for texts of any length, without an
  induction over them. It assumes `Braces = {"trailing"}`; `MembershipOnceCorrect`
  also `~Repeats`. Of the packets: in `OnlyThisFrameCorrect` every slice that
  `Heard` takes ends within the frame, because `TotLen` is cut to its length,
  so the rest of the buffer cannot matter, for all adverts, damage and buffer
  lengths. `EachFrameHeardRight` is of what a frame is made of: for every
  advert of either version, with any number of addresses, each whole one is
  observed as sent, each cut or foreign one is not, nor is one with damage
  that shows. The sum that `inetChecksum` takes is that of a function, in any
  order of its set, so it is first shown to be what a word-by-word sum from the
  left is (`WordsUpTo`); folding keeps a positive sum's remainder
  by 65535 and ends below 65536, which fixes it (`FoldIsFolded`); so a checksum
  is right exactly when the sum is a multiple of 65535 (`ChecksumZero`), as the
  sender makes it (`MessageBytes`), and one wrong byte moves the sum by less
  than that (`DamageRefused`). The rest is the layout: the bytes of each field
  give it back, and padding changes none of them (`PaddedHeard`).
  `ExactlyWholeHeardCorrect` is the invariant, under the condition that damage
  is of the kind that shows (`ReceiveShown`): a wrong byte anywhere in the
  message, except for the version, and the number of addresses in version 2.
* **ScrapesProofs**. `ScrapesImplementRefresh` maps a whole scrape to the
  refresher's specification, which carries `RefreshInv` (types, who holds the
  mutex, and that a refresh under way began at a deployment no older than the
  topology) over and gives `StaleCorrect`. `StandingWorkersCorrect` rests on `ScanInv`: a worker that
  has stood since the scan began is still to visit or in `out`.
* **TopologyProofs**, of the probe: `PInv` ties the results gathered so far to
  the probe under way; `OneProbeCorrect` follows. `OwnCertificateCorrect`
  assumes nothing of failovers: until the address left, a probe that found it
  dials only what this node answers (`OwnUntilLeft`), and of a probe during
  which it left the history says so.

  Of nginxconf.Parse: the cases of its switch are one function of a state and
  an item (`Step`, `ParseSteps`), and `Leads(s, items, t)` says that the items
  lead Parse from `s` to `t`, through legal items and good states. A part may
  come at different places of the text, and even at the top level though it is
  written inside a server; so the invariant of the writer (`Written`) says what
  each part does to *every* state that Parse may be in when it comes to that
  part (`Reads`): whatever was read before stays, a server that is still open
  gets the directives in front, and the server blocks of the part follow
  (`Ext`). Each action of the operator adds one item and is shown to extend
  that run by the same item (`OpenReads`, `DirectiveReads`, `MemberReads`,
  `WorkersReads`, `CloseReads`, and the three steps of an include), which needs
  what nginx accepts (`Writer`: how blocks nest, which upstreams are open,
  where the file is included). At a refresh the three runs are put one after
  the other in either order (`DiskLeads`, `PrintedLeads`); what comes out is
  the configuration meant, or, from `nginx -T`, at least its files (`DiskMeant`,
  `PrintedMeant`); of the main file alone, what that means (`MainFileLeads`,
  `MainFileMeant`). While Parse runs it stays on that run (`TakersKeep`), so
  that at its end it has the known result. `ConfInvariant` is all of this; from
  it follow `ConfTypeCorrect`, `AttributedWhenPrintedCorrect` and
  `TopologyAsMeantCorrect`, for configurations of any length. The last one
  says more than the run: it assumes no constant, but says for which texts it
  holds, and these include a snippet with anything in it that is included once
  and read from disk, or not read at all. The two other cases are counterexamples in section 6.
* **SplitBrainProofs**. `NoFalseAlarmCorrect` assumes `Patient`: `For` is at
  least `ScrapeEvery + 4`, and `Settle` an `EvalEvery` more. After a takeover
  every view names
  the new master or is dead 4 intervals later, and each sample is newer than
  that `ScrapeEvery` later (`Calm`), so the expression cannot hold for `For`;
  but an evaluation that found it before is followed by one that does not only
  `EvalEvery` later (`Doubt`), and no takeover may fall between. With
  adverts every second, 30 s are enough for any scrape interval up to 26 s.
  TLC finds a false alarm with `For` or `Settle` one smaller.
  `SplitBrainRingsCorrect` is
  of a pair that loses nothing but its segment (`Segmented`): each tap then
  hears its own node only, so that the samples differ one scrape after the
  second takeover; the next evaluation finds it (`Found`), the rule's clock
  runs on (`Waiting`) and an evaluation after `For` rings (`Rung`).

Only model-checked:

* `ExactlyWholeHeard` when the damaged byte is the version, or the number of
  addresses of a v2 advert: that byte decides what is summed up, and some
  addresses and passwords make the other sum right too. So it cannot hold for
  all adverts; the run checks it for its own. Damage elsewhere is proved.
* `IntentOnce` of NginxConf: its series are folds over flattened sequences
  (`FoldLeft`, `FlattenSeq`), recursive functions about which the prover would
  need an induction; what the series are made of is `TopologyAsMeantCorrect`.
* All liveness (`ClocksSettle`, `StandingLineFed`, `ScrapeAnswered`,
  `StopsOnSignal`, `Converges`, `SeriesFollow`).

## 6 Where code and documentation differ

Each is a counterexample TLC finds. The first is a listed run; the rest are
configurations kept beside them, to be run by hand with the module in their
name. Where one names several properties, leave only one in to see its trace.

| Configuration | Violated | What happens |
|---|---|---|
| `MCSplitBrainAlert_filter.cfg` | `SplitBrainRings` | Two masters whose adverts both taps capture, though keepalived refuses them, may never ring the alert: a tracker keeps the last master only, and the samples may name the same one (`hygiene.yml:116`: "more than one node advertising as master"). |
| `MCIdleClocks_name_restart.cfg` | `LoadedClockKept` | After a restart the first sweep may run before the first DNS answer. It then has the host name in its valid set and prunes the loaded clock of the address (`main.go:159-160`: "Idle clocks survive restarts"). |
| `MCStateFile_overlap.cfg` | `FileWhole` | The final save truncates the temporary file that a periodic save is about to rename (`state.go:61`: "atomically writes"). |
| `MCLogTail_rotations.cfg` | `EnabledMeansTailing` | After a rotation to an unreadable file `Tail` goes on without a file and `ingress_enabled` stays 1 (`main.go:154-155`: "tailer failure -> ingress_enabled 0"). |
| `ConfigRefresh_blocks.cfg` | `ScrapeNeverBlocks` | `nginx -T` runs under the mutex a scrape takes (`config.go:55-57`: "a scrape must never block on it"). |
| `MCIdleClocks_removed_restart.cfg` | `ServedNeverPruned` | "observed" is not persisted, so a removed member that served before a restart is pruned after it (`state.go:43-44`: "never pruned"). |
| `MCStateFile_overlap.cfg` | `NeverOlder` | A periodic save under way renames its older snapshot over the final one (`main.go:259`: "the periodic saver races process exit"); `StoreCorrect` bounds how far back this goes. |
| `ConfigRefresh_blocks.cfg` | `LackShown` | An include that cannot be read is passed over, the refresh succeeds without its blocks, and no failure is counted (`load.go:44-49`; `README.md:74-76`: a failing collector "reports itself as a metric"). |
| `MCLogTail_rotations.cfg` | `EachLineFed` | Lines nginx writes to the moved file after the tailer's last read of it are never fed (`logtail.go:210-211`). |
| `MCLogTail_rotations.cfg` | `FedOnce` | Two rotations, or a truncation and a rotation, between a Stat and an Open leave a size of another file, and the file is read again from its start; `FedOnceCorrect` shows that nothing else does this (`README.md:326`: "no double-count"). |
| `MCLogTail_truncated_unseen.cfg` | `StandingLineFed` | A truncated log that grew to its old size within a tick is not seen as shrunk (`logtail.go:267`). |
| `MCTlsProbe_failover.cfg` | `OwnOnly` | The address moves away after the local addresses were read; the other node's certificate is shown as this node's (`tlsprobe.go:86-89`). |
| `NginxConf_snippet.cfg` | `TopologyAsMeant` | `nginx -T` prints a snippet included in a server at top level, where Parse drops its directives (`parse.go:1-2`: "the intended routing topology"). |
| `NginxConf_shared.cfg` | `TopologyAsMeant` | `LoadFromDisk` reads a snippet that two servers include for the first one only (`load.go:29`). |
| `NginxConf_servers.cfg` | `AttributedToOwnFile` | In the disk text a server after an include is attributed to the included file (`load.go:10-11`: "the same file-marker format as nginx -T"). |
| `NginxConf_servers.cfg` | `NamesShown` | A server block without `listen`, for which nginx listens on port 80, has no `vhost_info` series (`README.md:361`: "intended routing graph from the running config"). |
| `MCKeepalivedConf_braces.cfg` | `MembershipAsMeant` | The brace that opens `virtual_ipaddress` on a line of its own is taken for an address; addresses on the block's own line are lost. |
| `MCKeepalivedConf_repeat.cfg` | `MembershipOnce` | An address listed twice, say with two prefixes, repeats a series (nothing else does, `MembershipOnceCorrect`), and the registry fails every scrape (`main.go:114-115`: a failure here "never takes down the other collectors"). |
| `WorkerScan_reload.cfg` | `NeverBlank` | During a reload the new workers are forked after `/proc` was listed, the old ones end before they are visited, and the scan shows no worker, which makes the member look unhealthy for a sample (`hygiene.yml:141-142`). |
| `Scrapes_startup.cfg` | `AlwaysStops` | SIGTERM while `Start` waits for an `nginx -T` that hangs: the signal is caught, and nothing acts on it. |

Read in the rules and not modelled, since a sample of one exporter shows them:
`NginxUpstreamMemberReceivingNoTraffic` joins on the name of the configuration
where its comment (`hygiene.yml:39-40`) says it joins on the resolved address,
so a member configured by name is always flagged; the decommission rules are per
instance, so that a standby flags members that serve through the active node;
`NginxClusterNoHealthyStandby` compares a count with 2, and at zero healthy
members there is no series to count; `NginxVRRPSplitBrain` groups by `vrid`
only, although a VRID is unique within a segment only; `NginxUpstreamFailing`
takes the maximum over instances, so that an old success on one masks a failure
on the other.

## 7 Abstractions

* Go maps are total functions with 0 (or a named absent value) for a missing
  entry, which is what reading one yields. Where "missing" and "zero" differ,
  the modules keep them apart.
* Time counts half seconds in IngressStats, so that `Unix()` visibly drops a
  fraction; it never goes back. In VRRP a unit is any fixed duration.
* JSON decoding and `splitAttempts` are given: a line is what they return.
  `UpstreamTimeSum`, a float sum that nothing reads back, is left out, and so
  are an advert's version and addresses, copied into series only.
* Resolving a pair and seeding it take two locks in the code and are one step
  here: the only step that could come between and matter, a lookup, commutes
  with the seeding.
* In StateFile the process dies, not the machine: what was written is there.
* In LogTail a seek to the end and the Stat after it are one step with the
  open; a read returns what is there, in half lines.
* Scrapes do not change what the collectors keep, so one at a time is
  modelled.
* IngressStats gives each line a time of its own, later than that of the line
  before, as `time.Now()` has nanoseconds. No client sends `_other` as its host,
  which would share the label of the folded vhosts (`logtail.go:159-166`).
  `BooksBalance` adds up the histograms; that a bucket's bound is inclusive
  (`logtail.go:177-184`) is in the model and no property tells it apart.
* ConfigRefresh numbers topologies by deployment and keeps of a partial one
  only that it is partial; which blocks it has is in NginxConf, with one
  included file, read or not. It stops counting failures at `MaxFailures`.
* NginxConf leaves out words, quotes and comments, the parameters of `listen`
  and the directives that Parse treats like one it has. KeepalivedConf keeps
  of a line its first two words and whether it has braces, which is all that
  `parse` looks at; its comment sign inside a password is left out.
* Scrapes has the collectors that can wait. The others answer from memory
  under locks held for a moment, and are their own modules' subject.
* WorkerScan leaves out the numbers of a worker, and a process id does not
  come back during a scan.
* VrrpPacket damages one byte at a time: a sum of 16-bit words finds each of
  these, unless the byte decides what is summed up (section 5), and two errors
  can cancel out in any checksum of this kind. A
  foreign frame is an advert's bytes as TCP and as another version of IP.
* In SplitBrainAlert time counts advert intervals, a master advertises once in
  each, and the master-down interval is between 3 and 4 of them, as proved in
  `GaugeCorrect`. A node that takes over keeps the address for `Settle`, so
  that flapping faster than the rule waits is left out.

Not modelled: globs, quoting and listen parameters of nginx, `segment.go`
(asks the kernel), the page of `stub_status`, a worker's numbers, opening the
capture socket, the Prometheus library and net/http, the other alert rules
(expressions over samples, without state of their own), the dashboard and the
deployment script.

## 8 Plan

Done: IngressStats, IdleClocks, StateFile over AtomicStore, LogTail,
VrrpTracker and VrrpCollector, VrrpPacket, KeepalivedConf, NginxConf,
ConfigRefresh with WorkerScan and Scrapes, TlsProbe and SplitBrainAlert, each
checked and proved about.

Next, in order of importance:

1. The decommission rules over the clocks of both instances of a pair, with
   the active node changing between them.
2. Several upstream blocks and variables in NginxConf, and the join of its
   series with the idle clocks of `ingress.Collector`.
