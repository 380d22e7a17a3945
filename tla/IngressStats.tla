---------------------------- MODULE IngressStats ----------------------------
(***************************************************************************)
(* internal/ingress: the Stats aggregation that the log tailer feeds, that *)
(* the seeder of main.go seeds and prunes, and whose idle clocks survive a *)
(* restart through the state file.  Every method of Stats holds Stats.mu   *)
(* for all of its effect, so each one is a single action here.  The steps  *)
(* that the lock does not cover (a seeder's sweep, the writes of a save,   *)
(* the reads of the tailer) are in IdleClocks, StateFile and LogTail.      *)
(*                                                                         *)
(* The maps are total functions in which 0 stands for "no entry", which is *)
(* what reading a missing key of a Go map yields.  Time counts half        *)
(* seconds from an origin that precedes the first start, so that Unix(),   *)
(* which drops the fraction of a second, is visible.                       *)
(***************************************************************************)
EXTENDS Integers, FiniteSets, FiniteSetsExt, Sequences

CONSTANTS
  Host,       \* host names: values of $host and of server_name
  NoHost,     \* the empty $host
  Other,      \* the overflow label "_other"
  Addr,       \* upstream member addresses
  NoAddr,     \* the empty address: Seed of a vhost without backends
  Dash,       \* "-" inside $upstream_addr: an attempt without an address
  MaxVhosts,  \* -ingress.max-vhosts
  Lines,      \* the access-log lines, decoded: see Line
  Seeds,      \* the <<vhost, addr>> pairs the configuration may name
  MaxTime,    \* bound on the clock, hence on the counters
  MaxLives    \* bound on the restarts

Vhost   == Host \cup {Other}
Key     == Vhost \X Addr
Class   == 0 .. 5                    \* 0 is "other", c is "cxx"
Success == 1                         \* outcomes of an attempt that is not a failure
NextUpstream == 0
Reason  == {NextUpstream} \cup 502 .. 504

(* $upstream_response_time in milliseconds; slot n stands for h[n-1]. *)
TimeBuckets == <<5, 10, 25, 50, 100, 250, 500, 1000, 2500, 5000, 10000>>
Bucket      == 1 .. Len(TimeBuckets) + 1

(* A log line after json.Unmarshal and splitAttempts.  An unparseable      *)
(* response time is -1: the code ignores it like a negative one.           *)
Line == [json         : BOOLEAN,
         host         : Host \cup {NoHost},
         status       : Int,
         bytesSent    : Int,
         requestLength: Int,
         upstream     : Seq(Addr \cup {Dash}),
         upstreamTime : Seq(Int)]

ASSUME ConstantsAssumption ==
  /\ MaxVhosts \in Nat /\ MaxTime \in Nat /\ MaxLives \in Nat
  /\ IsFiniteSet(Host) /\ IsFiniteSet(Addr)
  /\ Other \notin Host /\ NoHost \notin Vhost
  /\ NoAddr \notin Addr /\ Dash \notin Addr
  /\ Seeds \subseteq Host \X (Addr \cup {NoAddr})

ASSUME LinesAssumption == Lines \subseteq Line

VARIABLES
  Requests, BytesSent, BytesReceived, VhostLastSeen,
  UpstreamRequests, UpstreamFailures,
  UpstreamLastSeen, UpstreamLastOK, UpstreamLastFail,
  UpstreamTimeHist, UpstreamTimeCount,
  Unattributed,
  now,        \* the wall clock
  stamp,      \* the tailer's time.Now() for its next line; 0: not read yet
  life,       \* the number of restarts so far
  saved,      \* what the state file holds
  ingested,   \* history: lines fed to Ingest in this life
  evidence    \* history: outcome of the last attempt on a member in this life

counters == <<Requests, BytesSent, BytesReceived, UpstreamRequests,
              UpstreamFailures, UpstreamTimeHist, UpstreamTimeCount>>
verdicts == <<UpstreamLastOK, UpstreamLastFail, evidence>>
clocks   == <<VhostLastSeen, UpstreamLastSeen>>
vars     == <<counters, verdicts, clocks, Unattributed, now, stamp, life, saved, ingested>>

Attributable == {"parse_fail", "no_host"}
IdleState    == [vhosts : [Vhost -> Nat], upstreams : [Key -> Nat]]
NoState      == [vhosts |-> [v \in Vhost |-> 0], upstreams |-> [k \in Key |-> 0]]

(* time.Time.Unix(): the fraction of the second is lost. *)
Unix(t) == t - (t % 2)

-----------------------------------------------------------------------------
(* Helpers of Ingest *)

TrackedIn(clock) == {v \in Vhost : clock[v] # 0}
Tracked          == TrackedIn(VhostLastSeen)

(* Slip: the cap admits one vhost too many. *)
capVhost_oneMore(host) ==
  IF VhostLastSeen[host] # 0 \/ Cardinality(Tracked) <= MaxVhosts THEN host ELSE Other

capVhost(host) ==
  IF VhostLastSeen[host] # 0 \/ Cardinality(Tracked) < MaxVhosts THEN host ELSE Other

(* Slip: no check that the code has a class. *)
statusClass_unchecked(code) == code \div 100

statusClass(code) == IF code < 100 \/ code > 599 THEN 0 ELSE code \div 100

(* The slot of a time: bounds are inclusive, the last slot is +Inf. *)
bucketIndex(t) ==
  CHOOSE b \in Bucket : /\ b = Len(TimeBuckets) + 1 \/ t <= TimeBuckets[b]
                        /\ \A c \in 1 .. b - 1 : t > TimeBuckets[c]

(* uint64 of a negative field would make a counter fall: it counts as 0. *)
Positive(n) == IF n > 0 THEN n ELSE 0

(* The positions of line l's attempt list that are attempts on member k,   *)
(* when the line is attributed to vhost vh.                                *)
AttemptsOn(l, vh, k) ==
  {i \in DOMAIN l.upstream : l.upstream[i] # Dash /\ k = <<vh, l.upstream[i]>>}

Timed(l, i) == i \in DOMAIN l.upstreamTime /\ l.upstreamTime[i] >= 0

(* Those attempts with a usable response time, and those in one bucket. *)
Observed(l, vh, k) == {i \in AttemptsOn(l, vh, k) : Timed(l, i)}
InBucket(l, vh, k, b) == {i \in Observed(l, vh, k) : bucketIndex(l.upstreamTime[i]) = b}

(* Every attempt but the last was retried on the next upstream, so failed; *)
(* the last one failed when the response is a 502, 503 or 504.             *)
Outcome(l, i) ==
  IF i # Len(l.upstream) THEN NextUpstream
  ELSE IF l.status >= 502 /\ l.status <= 504 THEN l.status
  ELSE Success

Failed(l, i) == Outcome(l, i) # Success

WithOutcome(l, vh, k, r) == {i \in AttemptsOn(l, vh, k) : Outcome(l, i) = r}

Up(k) == ~(UpstreamLastOK[k] < UpstreamLastFail[k])

-----------------------------------------------------------------------------
Zero(S) == [x \in S |-> 0]

(* NewStats: a process starts with empty maps. *)
NewStats ==
  /\ Requests = [v \in Vhost |-> Zero(Class)]
  /\ BytesSent = Zero(Vhost) /\ BytesReceived = Zero(Vhost)
  /\ VhostLastSeen = Zero(Vhost)
  /\ UpstreamRequests = Zero(Key)
  /\ UpstreamFailures = [k \in Key |-> Zero(Reason)]
  /\ UpstreamLastSeen = Zero(Key)
  /\ UpstreamLastOK = Zero(Key) /\ UpstreamLastFail = Zero(Key)
  /\ UpstreamTimeHist = [k \in Key |-> Zero(Bucket)]
  /\ UpstreamTimeCount = Zero(Key)
  /\ Unattributed = Zero(Attributable)

Init ==
  /\ NewStats
  /\ now = 2 /\ stamp = 0 /\ life = 0 /\ saved = NoState
  /\ ingested = 0 /\ evidence = [k \in Key |-> "none"]

(* The tailer has a line and evaluates time.Now(), before Ingest takes the *)
(* lock.  It never sees the same time twice: the clock has nanoseconds and *)
(* decoding a line takes longer than one.                                  *)
ReadTime ==
  /\ stamp = 0 /\ now < MaxTime
  /\ now' = now + 1 /\ stamp' = now'
  /\ UNCHANGED <<counters, verdicts, clocks, Unattributed, life, saved, ingested>>

(* Every call of Ingest, at the time that was read for it. *)
IngestAt ==
  /\ stamp # 0 /\ stamp' = 0
  /\ ingested' = ingested + 1
  /\ UNCHANGED <<now, life, saved>>

IngestParseFail(l) ==
  /\ ~l.json
  /\ IngestAt
  /\ Unattributed' = [Unattributed EXCEPT !["parse_fail"] = @ + 1]
  /\ UNCHANGED <<counters, verdicts, clocks>>

IngestNoHost(l) ==
  /\ l.json /\ l.host = NoHost
  /\ IngestAt
  /\ Unattributed' = [Unattributed EXCEPT !["no_host"] = @ + 1]
  /\ UNCHANGED <<counters, verdicts, clocks>>

CountVhost(l, vh) ==
  /\ Requests' = [Requests EXCEPT ![vh][statusClass(l.status)] = @ + 1]
  /\ BytesSent' = [BytesSent EXCEPT ![vh] = @ + Positive(l.bytesSent)]
  /\ BytesReceived' = [BytesReceived EXCEPT ![vh] = @ + Positive(l.requestLength)]
  /\ VhostLastSeen' = [VhostLastSeen EXCEPT ![vh] = stamp]

CountAttempts(l, vh) ==
  /\ UpstreamRequests' = [k \in Key |->
       UpstreamRequests[k] + Cardinality(AttemptsOn(l, vh, k))]
  /\ UpstreamTimeHist' = [k \in Key |-> [b \in Bucket |->
       UpstreamTimeHist[k][b] + Cardinality(InBucket(l, vh, k, b))]]
  /\ UpstreamTimeCount' = [k \in Key |->
       UpstreamTimeCount[k] + Cardinality(Observed(l, vh, k))]
  /\ UpstreamFailures' = [k \in Key |-> [r \in Reason |->
       UpstreamFailures[k][r] + Cardinality(WithOutcome(l, vh, k, r))]]

(* Slip: a failed attempt counts as contact, so as success. *)
StampAttempts_contactIsOK(l, vh) ==
  LET On(k) == AttemptsOn(l, vh, k) IN
  /\ UpstreamLastSeen' = [k \in Key |-> IF On(k) # {} THEN stamp ELSE UpstreamLastSeen[k]]
  /\ UpstreamLastOK' = [k \in Key |-> IF On(k) # {} THEN stamp ELSE UpstreamLastOK[k]]
  /\ UpstreamLastFail' = [k \in Key |->
       IF \E i \in On(k) : Failed(l, i) THEN stamp ELSE UpstreamLastFail[k]]

StampAttempts(l, vh) ==
  LET On(k) == AttemptsOn(l, vh, k) IN
  /\ UpstreamLastSeen' = [k \in Key |-> IF On(k) # {} THEN stamp ELSE UpstreamLastSeen[k]]
  /\ UpstreamLastOK' = [k \in Key |->
       IF \E i \in On(k) : ~Failed(l, i) THEN stamp ELSE UpstreamLastOK[k]]
  /\ UpstreamLastFail' = [k \in Key |->
       IF \E i \in On(k) : Failed(l, i) THEN stamp ELSE UpstreamLastFail[k]]

(* The outcome of the chronologically last attempt on each member: nginx   *)
(* lists the attempts in the order it made them.                           *)
RecordEvidence(l, vh) ==
  LET On(k) == AttemptsOn(l, vh, k) IN
  evidence' = [k \in Key |->
    IF On(k) = {} THEN evidence[k]
    ELSE IF \E i \in On(k) : (\A j \in On(k) : j <= i) /\ ~Failed(l, i)
         THEN "ok" ELSE "fail"]

IngestLine(l) ==
  LET vh == capVhost(l.host) IN
  /\ l.json /\ l.host # NoHost
  /\ IngestAt
  /\ CountVhost(l, vh)
  /\ CountAttempts(l, vh)
  /\ StampAttempts(l, vh)
  /\ RecordEvidence(l, vh)
  /\ UNCHANGED Unattributed

Ingest(l) == IngestParseFail(l) \/ IngestNoHost(l) \/ IngestLine(l)

(* Time passes between two events. *)
Tick ==
  /\ now < MaxTime
  /\ now' = now + 1
  /\ UNCHANGED <<counters, verdicts, clocks, Unattributed, stamp, life, saved, ingested>>

SeedVhost(vhost, t) ==
  VhostLastSeen' = IF VhostLastSeen[vhost] = 0
                   THEN [VhostLastSeen EXCEPT ![vhost] = t] ELSE VhostLastSeen

(* Slip: seeding restarts a clock that runs. *)
SeedUpstream_restarts(vhost, addr, t) ==
  UpstreamLastSeen' = IF addr # NoAddr
                      THEN [UpstreamLastSeen EXCEPT ![<<vhost, addr>>] = t]
                      ELSE UpstreamLastSeen

SeedUpstream(vhost, addr, t) ==
  UpstreamLastSeen' = IF addr # NoAddr /\ UpstreamLastSeen[<<vhost, addr>>] = 0
                      THEN [UpstreamLastSeen EXCEPT ![<<vhost, addr>>] = t]
                      ELSE UpstreamLastSeen

(* The time t is the one at which the seeder's sweep began. *)
Seed(vhost, addr, t) ==
  /\ SeedVhost(vhost, t)
  /\ SeedUpstream(vhost, addr, t)
  /\ UNCHANGED <<counters, verdicts, Unattributed, now, stamp, life, saved, ingested>>

(* Slip: pruning everything the seeds lack, observed or not. *)
Prunable_observedToo(k, valid) == k \notin valid

(* A clock goes when it never recorded traffic and the seeds lack it. *)
Prunable(k, valid) == UpstreamRequests[k] = 0 /\ k \notin valid

PruneSeeds(valid) ==
  /\ UpstreamLastSeen' = [k \in Key |-> IF Prunable(k, valid) THEN 0 ELSE UpstreamLastSeen[k]]
  /\ UNCHANGED <<counters, verdicts, VhostLastSeen, Unattributed, now, stamp, life, saved, ingested>>

(* A save that completed.  One that fails or is cut short leaves the file  *)
(* as it was: StateFile says when that holds.                              *)
SaveState ==
  /\ saved' = [vhosts    |-> [v \in Vhost |-> Unix(VhostLastSeen[v])],
               upstreams |-> [k \in Key |-> Unix(UpstreamLastSeen[k])]]
  /\ UNCHANGED <<counters, verdicts, clocks, Unattributed, now, stamp, life, ingested>>

(* A loaded time replaces an older one in memory, and a missing one. *)
Fresher(inMemory, loaded) == IF inMemory < loaded THEN loaded ELSE inMemory

LoadState(old, st) ==
  /\ VhostLastSeen' = [v \in Vhost |-> Fresher(old.vhosts[v], st.vhosts[v])]
  /\ UpstreamLastSeen' = [k \in Key |-> Fresher(old.upstreams[k], st.upstreams[k])]

(* The process ends, by a crash or a shutdown, and a new one starts: main  *)
(* calls NewStats and LoadState before any other user of Stats runs.  A    *)
(* load that fails leaves the new Stats empty.                             *)
Restart(st) ==
  /\ life < MaxLives
  /\ life' = life + 1
  /\ Requests' = [v \in Vhost |-> Zero(Class)]
  /\ BytesSent' = Zero(Vhost) /\ BytesReceived' = Zero(Vhost)
  /\ UpstreamRequests' = Zero(Key)
  /\ UpstreamFailures' = [k \in Key |-> Zero(Reason)]
  /\ UpstreamLastOK' = Zero(Key) /\ UpstreamLastFail' = Zero(Key)
  /\ UpstreamTimeHist' = [k \in Key |-> Zero(Bucket)]
  /\ UpstreamTimeCount' = Zero(Key)
  /\ Unattributed' = Zero(Attributable)
  /\ stamp' = 0 /\ ingested' = 0 /\ evidence' = [k \in Key |-> "none"]
  /\ LoadState(NoState, st)
  /\ UNCHANGED <<now, saved>>

(* The keys main.go may put in PruneSeeds' valid set. *)
SeedKeys == {k \in Seeds : k[2] # NoAddr}

Next ==
  \/ ReadTime \/ \E l \in Lines : Ingest(l)
  \/ Tick
  \/ \E s \in Seeds, t \in 2 .. now : Seed(s[1], s[2], t)
  \/ \E valid \in SUBSET SeedKeys : PruneSeeds(valid)
  \/ SaveState
  \/ \E st \in {saved, NoState} : Restart(st)

Spec == Init /\ [][Next]_vars

-----------------------------------------------------------------------------
(* Properties *)

(* Every map keeps its type; in particular no counter is negative, which   *)
(* for the code's uint64 would be a jump of 2^64.                          *)
TypeInv ==
  /\ Requests \in [Vhost -> [Class -> Nat]]
  /\ BytesSent \in [Vhost -> Nat] /\ BytesReceived \in [Vhost -> Nat]
  /\ VhostLastSeen \in [Vhost -> Nat]
  /\ UpstreamRequests \in [Key -> Nat]
  /\ UpstreamFailures \in [Key -> [Reason -> Nat]]
  /\ UpstreamLastSeen \in [Key -> Nat]
  /\ UpstreamLastOK \in [Key -> Nat] /\ UpstreamLastFail \in [Key -> Nat]
  /\ UpstreamTimeHist \in [Key -> [Bucket -> Nat]]
  /\ UpstreamTimeCount \in [Key -> Nat]
  /\ Unattributed \in [Attributable -> Nat]
  /\ now \in Nat /\ stamp \in Nat /\ life \in Nat /\ ingested \in Nat
  /\ saved \in IdleState
  /\ evidence \in [Key -> {"none", "ok", "fail"}]

(* A member that served traffic in this life has an idle clock, whatever   *)
(* seeding and pruning went on around it, and the clock is the time of its *)
(* last attempt: the later of its last success and its last failure.  The  *)
(* decommission rule reads that clock (state.go, logtail.go:125).          *)
ObservedHaveClock ==
  \A k \in Key : UpstreamRequests[k] > 0 =>
    /\ UpstreamLastSeen[k] # 0
    /\ UpstreamLastSeen[k] = Fresher(UpstreamLastOK[k], UpstreamLastFail[k])
    /\ VhostLastSeen[k[1]] # 0

SeedHosts == {s[1] : s \in Seeds}

(* Requests can make at most MaxVhosts labels appear, apart from "_other"  *)
(* and the labels the configuration names, over all restarts and loads of  *)
(* the state file (capVhost's bound on label cardinality).                 *)
CapHolds(clock) ==
  Cardinality(TrackedIn(clock) \ (SeedHosts \cup {Other})) <= MaxVhosts
CardinalityCap == CapHolds(VhostLastSeen) /\ CapHolds(saved.vhosts)

(* Traffic is folded into "_other" only once MaxVhosts labels are tracked: *)
(* the label never appears in memory or on disk before the cap is reached. *)
FoldHolds(clock) ==
  Other \in TrackedIn(clock) => Cardinality(TrackedIn(clock) \ {Other}) >= MaxVhosts
FoldOnlyWhenFull == FoldHolds(VhostLastSeen) /\ FoldHolds(saved.vhosts)

(* The cap binds exactly: it never lets too many labels appear, and never  *)
(* folds a vhost that would have fitted.                                   *)
CapExact == CardinalityCap /\ FoldOnlyWhenFull

(* The up verdict of a member is the outcome of the chronologically last   *)
(* attempt on it in this life (Up, and the help text of upstream_up).      *)
VerdictIsLatestEvidence ==
  \A k \in Key : evidence[k] # "none" => (Up(k) <=> evidence[k] = "ok")

SumOver(S, f) == MapThenSumSet(LAMBDA x : f[x], S)

LinesCounted ==
  ingested = SumOver(Vhost, [v \in Vhost |-> SumOver(Class, Requests[v])])
             + SumOver(Attributable, Unattributed)

FailuresAccountedFor(k) == LET failures == SumOver(Reason, UpstreamFailures[k]) IN
  /\ failures <= UpstreamRequests[k]
  /\ failures = UpstreamRequests[k] <=> UpstreamLastOK[k] = 0

(* What Collect shows of a histogram: for each bound, the observations that *)
(* do not exceed it; the slot beyond the last bound is left to the count.   *)
Cumulative(k) == [i \in DOMAIN TimeBuckets |-> SumOver(1 .. i, UpstreamTimeHist[k])]

HistogramAddsUp(k) ==
  /\ Cumulative(k)[Len(TimeBuckets)] + UpstreamTimeHist[k][Len(TimeBuckets) + 1]
       = UpstreamTimeCount[k]
  /\ UpstreamTimeCount[k] <= UpstreamRequests[k]

(* The counters agree with one another.  Every line fed to Ingest is       *)
(* counted exactly once, under one vhost and one status class or as        *)
(* unattributed under one reason.  The failures of a member account for    *)
(* all of its attempts exactly when it has no success on record.  The      *)
(* buckets of the histogram the collector exposes, with the observations   *)
(* beyond the last bound, add up to its count, and it has no more          *)
(* observations than there were attempts.                                  *)
BooksBalance == LinesCounted /\ \A k \in Key : FailuresAccountedFor(k) /\ HistogramAddsUp(k)

(* Within one life of the process no counter falls, and a clock that once  *)
(* recorded traffic never goes back.  One that was merely seeded may: it   *)
(* is pruned, or its first line arrives, whose time the tailer read before *)
(* the sweep that seeded it (logtail.go:260, main.go:189), so that it then *)
(* shows the time of that line.                                            *)
Seen(v) == \E c \in Class : Requests[v][c] > 0
NothingGoesBack ==
  life' = life =>
    /\ \A v \in Vhost :
         /\ BytesSent[v] <= BytesSent'[v] /\ BytesReceived[v] <= BytesReceived'[v]
         /\ \A c \in Class : Requests[v][c] <= Requests'[v][c]
         /\ VhostLastSeen'[v] < VhostLastSeen[v] => ~Seen(v) /\ VhostLastSeen'[v] = stamp
    /\ \A k \in Key :
         /\ UpstreamRequests[k] <= UpstreamRequests'[k]
         /\ UpstreamTimeCount[k] <= UpstreamTimeCount'[k]
         /\ UpstreamLastOK[k] <= UpstreamLastOK'[k]
         /\ UpstreamLastFail[k] <= UpstreamLastFail'[k]
         /\ UpstreamLastSeen'[k] < UpstreamLastSeen[k] =>
              UpstreamRequests[k] = 0 /\ UpstreamLastSeen'[k] \in {0, stamp}
ObservedMonotone == [][NothingGoesBack]_vars

(* No clock is ahead of time, in memory or on disk, and the state file     *)
(* never claims fresher traffic than the memory it was written from:       *)
(* a reload cannot postpone a decommission.                                *)
ClocksArePast ==
  /\ \A v \in Vhost : VhostLastSeen[v] <= now /\ saved.vhosts[v] <= now
  /\ \A k \in Key : UpstreamLastSeen[k] <= now /\ saved.upstreams[k] <= now
=============================================================================
