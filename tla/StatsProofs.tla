----------------------------- MODULE StatsProofs -----------------------------
(***************************************************************************)
(* Proofs about IngressStats and IdleClocks, for every value of their      *)
(* constants.  TypeInv comes first; the safety properties of Stats then    *)
(* follow from one inductive invariant, IInv, whose extra part ClockBounds *)
(* says that no clock is ahead of now and that an entry is never stamped   *)
(* with the zero time, and TimeRead that the tailer's time for its next    *)
(* line is later than what it observed before.  The counters' sums come    *)
(* next, by an induction over what they add up.  The goroutines of main.go *)
(* use Stats as IngressStats specifies it, so that what is proved there    *)
(* holds of IdleClocks too; and idle clocks survive restarts when every    *)
(* configured member is a literal address.                                 *)
(***************************************************************************)
EXTENDS IdleClocks, FiniteSetTheorems, WellFoundedInduction, TLAPS

(* The clocks lie between the first start and now. *)
ClockBounds ==
  /\ now >= 2 /\ stamp <= now /\ (stamp = 0 \/ 2 <= stamp)
  /\ \A v \in Vhost : /\ VhostLastSeen[v] = 0 \/ 2 <= VhostLastSeen[v]
                      /\ saved.vhosts[v] = 0 \/ 2 <= saved.vhosts[v]
                      /\ VhostLastSeen[v] <= now /\ saved.vhosts[v] <= now
  /\ \A k \in Key : /\ UpstreamLastSeen[k] <= now /\ saved.upstreams[k] <= now
                    /\ UpstreamLastOK[k] <= now /\ UpstreamLastFail[k] <= now

(* The time read for the next line is later than all that was observed:    *)
(* only seeds may be later than it.                                        *)
TimeRead ==
  /\ \A k \in Key : stamp # 0 => UpstreamLastOK[k] < stamp /\ UpstreamLastFail[k] < stamp
  /\ \A v \in Vhost : Seen(v) => VhostLastSeen[v] # 0 /\ (stamp # 0 => VhostLastSeen[v] < stamp)

IInv == /\ TypeInv /\ ClockBounds /\ TimeRead /\ ObservedHaveClock /\ CardinalityCap
        /\ FoldOnlyWhenFull /\ VerdictIsLatestEvidence

-----------------------------------------------------------------------------
(* Facts about the helpers *)

(* Unix never adds to a time, keeps the zero time, and keeps every time of *)
(* at least one second at one second or more.                              *)
LEMMA UnixFacts ==
  ASSUME NEW t \in Nat
  PROVE  /\ Unix(t) \in Nat /\ Unix(t) <= t
         /\ t = 0 => Unix(t) = 0
         /\ t >= 2 => Unix(t) >= 2
  BY DEF Unix

LEMMA StatusClassType ==
  ASSUME NEW code \in Int
  PROVE  statusClass(code) \in Class
  BY DEF statusClass, Class

(* The vhost a line is attributed to is the line's host or "_other". *)
LEMMA CapVhostType ==
  ASSUME NEW host \in Host
  PROVE  capVhost(host) \in Vhost
  BY DEF capVhost, Vhost

(* The attempts of a line on one member are finitely many. *)
LEMMA AttemptsFinite ==
  ASSUME NEW l \in Line, NEW vh, NEW k
  PROVE  /\ AttemptsOn(l, vh, k) \subseteq 1 .. Len(l.upstream)
         /\ Len(l.upstream) \in Nat
         /\ \A S \in SUBSET AttemptsOn(l, vh, k) :
              IsFiniteSet(S) /\ Cardinality(S) \in Nat
<1>1. l.upstream \in Seq(Addr \cup {Dash})
  BY DEF Line
<1>2. DOMAIN l.upstream = 1 .. Len(l.upstream) /\ Len(l.upstream) \in Nat
  BY <1>1
<1>3. AttemptsOn(l, vh, k) \subseteq 1 .. Len(l.upstream)
  BY <1>2 DEF AttemptsOn
<1>4. IsFiniteSet(1 .. Len(l.upstream))
  BY <1>2, FS_Interval
<1>5. \A S \in SUBSET AttemptsOn(l, vh, k) : IsFiniteSet(S)
  BY <1>3, <1>4, FS_Subset
<1> QED
  BY <1>2, <1>3, <1>5, FS_CardinalityType

(* A member with an attempt on a line is a pair of the line's vhost and an *)
(* address of the line.                                                    *)
LEMMA AttemptsVhost ==
  ASSUME NEW l, NEW vh, NEW k, AttemptsOn(l, vh, k) # {}
  PROVE  k[1] = vh
  BY DEF AttemptsOn

LEMMA VhostFinite == IsFiniteSet(Vhost)
  BY ConstantsAssumption, FS_AddElement DEF Vhost

LEMMA TrackedFinite ==
  ASSUME NEW clock, NEW S \in SUBSET TrackedIn(clock)
  PROVE  IsFiniteSet(S) /\ Cardinality(S) \in Nat
<1>1. S \subseteq Vhost
  BY DEF TrackedIn
<1> QED
  BY <1>1, VhostFinite, FS_Subset, FS_CardinalityType

-----------------------------------------------------------------------------
(* Type correctness *)

LEMMA TypeInit == Init => TypeInv
<1>1. Zero(Vhost) \in [Vhost -> Nat] /\ Zero(Key) \in [Key -> Nat]
  BY DEF Zero
<1>2. [v \in Vhost |-> Zero(Class)] \in [Vhost -> [Class -> Nat]]
  BY DEF Zero
<1>3. /\ [k \in Key |-> Zero(Reason)] \in [Key -> [Reason -> Nat]]
      /\ [k \in Key |-> Zero(Bucket)] \in [Key -> [Bucket -> Nat]]
  BY DEF Zero
<1>4. NoState \in IdleState
  BY DEF NoState, IdleState
<1>5. Zero(Attributable) \in [Attributable -> Nat]
  BY DEF Zero
<1>6. [k \in Key |-> "none"] \in [Key -> {"none", "ok", "fail"}]
  OBVIOUS
<1> QED
  BY <1>1, <1>2, <1>3, <1>4, <1>5, <1>6 DEF Init, NewStats, TypeInv

LEMMA CountAttemptsType ==
  ASSUME TypeInv, NEW l \in Line, NEW vh \in Vhost, CountAttempts(l, vh)
  PROVE  /\ UpstreamRequests' \in [Key -> Nat]
         /\ UpstreamTimeHist' \in [Key -> [Bucket -> Nat]]
         /\ UpstreamTimeCount' \in [Key -> Nat]
         /\ UpstreamFailures' \in [Key -> [Reason -> Nat]]
<1>1. \A k \in Key : Cardinality(AttemptsOn(l, vh, k)) \in Nat
  BY AttemptsFinite
<1>2. \A k \in Key, b \in Bucket : Cardinality(InBucket(l, vh, k, b)) \in Nat
  BY AttemptsFinite DEF InBucket, Observed
<1>3. \A k \in Key : Cardinality(Observed(l, vh, k)) \in Nat
  BY AttemptsFinite DEF Observed
<1>4. \A k \in Key, r \in Reason : Cardinality(WithOutcome(l, vh, k, r)) \in Nat
  BY AttemptsFinite DEF WithOutcome
<1>5. UpstreamRequests' \in [Key -> Nat]
  BY <1>1 DEF CountAttempts, TypeInv
<1>6. UpstreamTimeHist' \in [Key -> [Bucket -> Nat]]
  BY <1>2 DEF CountAttempts, TypeInv
<1>7. UpstreamTimeCount' \in [Key -> Nat]
  BY <1>3 DEF CountAttempts, TypeInv
<1>8. UpstreamFailures' \in [Key -> [Reason -> Nat]]
  BY <1>4 DEF CountAttempts, TypeInv
<1> QED
  BY <1>5, <1>6, <1>7, <1>8

LEMMA CountVhostType ==
  ASSUME TypeInv, NEW l \in Line, NEW vh \in Vhost, CountVhost(l, vh)
  PROVE  /\ Requests' \in [Vhost -> [Class -> Nat]]
         /\ BytesSent' \in [Vhost -> Nat] /\ BytesReceived' \in [Vhost -> Nat]
         /\ VhostLastSeen' \in [Vhost -> Nat]
<1>1. l.status \in Int /\ l.bytesSent \in Int /\ l.requestLength \in Int
  BY DEF Line
<1>2. statusClass(l.status) \in Class
  BY <1>1, StatusClassType
<1>3. Positive(l.bytesSent) \in Nat /\ Positive(l.requestLength) \in Nat
  BY <1>1 DEF Positive
<1>4. Requests' \in [Vhost -> [Class -> Nat]]
  BY <1>2 DEF CountVhost, TypeInv
<1>5. BytesSent' \in [Vhost -> Nat]
  BY <1>3 DEF CountVhost, TypeInv
<1>6. BytesReceived' \in [Vhost -> Nat]
  BY <1>3 DEF CountVhost, TypeInv
<1>7. VhostLastSeen' \in [Vhost -> Nat]
  BY DEF CountVhost, TypeInv
<1> QED
  BY <1>4, <1>5, <1>6, <1>7

LEMMA StampAttemptsType ==
  ASSUME TypeInv, NEW l \in Line, NEW vh \in Vhost,
         StampAttempts(l, vh), RecordEvidence(l, vh)
  PROVE  /\ UpstreamLastSeen' \in [Key -> Nat]
         /\ UpstreamLastOK' \in [Key -> Nat] /\ UpstreamLastFail' \in [Key -> Nat]
         /\ evidence' \in [Key -> {"none", "ok", "fail"}]
<1>1. UpstreamLastSeen' \in [Key -> Nat]
  BY DEF StampAttempts, TypeInv
<1>2. UpstreamLastOK' \in [Key -> Nat]
  BY DEF StampAttempts, TypeInv
<1>3. UpstreamLastFail' \in [Key -> Nat]
  BY DEF StampAttempts, TypeInv
<1>4. evidence' \in [Key -> {"none", "ok", "fail"}]
  BY DEF RecordEvidence, TypeInv
<1> QED
  BY <1>1, <1>2, <1>3, <1>4

LEMMA SeedsInKey ==
  ASSUME NEW s \in Seeds
  PROVE  /\ s[1] \in Host /\ s[1] \in Vhost
         /\ s[2] # NoAddr => s[2] \in Addr /\ <<s[1], s[2]>> \in Key
  BY ConstantsAssumption DEF Vhost, Key

(* Seeding only fills in entries that are missing. *)
LEMMA SeedFills ==
  ASSUME TypeInv, NEW s \in Seeds, NEW t \in 2 .. now, Seed(s[1], s[2], t)
  PROVE  /\ \A v \in Vhost : VhostLastSeen[v] <= VhostLastSeen'[v]
         /\ \A k \in Key : UpstreamLastSeen[k] <= UpstreamLastSeen'[k]
<1>1. \A v \in Vhost : VhostLastSeen'[v] # VhostLastSeen[v] =>
                        VhostLastSeen[v] = 0 /\ VhostLastSeen'[v] = t
  BY DEF Seed, SeedVhost, TypeInv
<1>2. \A k \in Key : UpstreamLastSeen'[k] # UpstreamLastSeen[k] =>
                      UpstreamLastSeen[k] = 0 /\ UpstreamLastSeen'[k] = t
  BY DEF Seed, SeedUpstream, TypeInv
<1>3. /\ now \in Nat /\ t \in Nat
      /\ \A v \in Vhost : VhostLastSeen[v] \in Nat
      /\ \A k \in Key : UpstreamLastSeen[k] \in Nat
  BY DEF TypeInv
<1> QED
  BY <1>1, <1>2, <1>3

LEMMA TypeStep == TypeInv /\ [Next]_vars => TypeInv'
<1> SUFFICES ASSUME TypeInv, [Next]_vars PROVE TypeInv'
  OBVIOUS
<1>1. ASSUME NEW l \in Lines, IngestParseFail(l) PROVE TypeInv'
  BY <1>1 DEF IngestParseFail, IngestAt, TypeInv, counters, verdicts, clocks, Attributable
<1>2. ASSUME NEW l \in Lines, IngestNoHost(l) PROVE TypeInv'
  BY <1>2 DEF IngestNoHost, IngestAt, TypeInv, counters, verdicts, clocks, Attributable
<1>3. ASSUME NEW l \in Lines, IngestLine(l) PROVE TypeInv'
  <2> DEFINE vh == capVhost(l.host)
  <2>1. l \in Line /\ l.host \in Host
    BY <1>3, LinesAssumption DEF IngestLine, Line
  <2>2. vh \in Vhost
    BY <2>1, CapVhostType
  <2>3. /\ CountVhost(l, vh) /\ CountAttempts(l, vh)
        /\ StampAttempts(l, vh) /\ RecordEvidence(l, vh)
    BY <1>3 DEF IngestLine
  <2>4. /\ now' \in Nat /\ stamp' \in Nat /\ ingested' \in Nat /\ life' \in Nat /\ saved' \in IdleState
        /\ Unattributed' \in [Attributable -> Nat]
    BY <1>3 DEF IngestLine, IngestAt, TypeInv
  <2> HIDE DEF vh
  <2> QED
    BY <2>1, <2>2, <2>3, <2>4, CountVhostType, CountAttemptsType, StampAttemptsType
    DEF TypeInv
<1>4. CASE Tick \/ ReadTime
  BY <1>4 DEF Tick, ReadTime, TypeInv, counters, verdicts, clocks
<1>5. ASSUME NEW s \in Seeds, NEW t \in 2 .. now, Seed(s[1], s[2], t) PROVE TypeInv'
  <2>0. t \in Nat
    BY DEF TypeInv
  <2>1. VhostLastSeen' \in [Vhost -> Nat]
    BY <1>5, <2>0, SeedsInKey DEF Seed, SeedVhost, TypeInv
  <2>2. UpstreamLastSeen' \in [Key -> Nat]
    BY <1>5, <2>0, SeedsInKey DEF Seed, SeedUpstream, TypeInv
  <2> QED
    BY <1>5, <2>1, <2>2 DEF Seed, TypeInv, counters, verdicts
<1>6. ASSUME NEW valid \in SUBSET SeedKeys, PruneSeeds(valid) PROVE TypeInv'
  <2>1. UpstreamLastSeen' \in [Key -> Nat]
    BY <1>6 DEF PruneSeeds, TypeInv
  <2> QED
    BY <1>6, <2>1 DEF PruneSeeds, TypeInv, counters, verdicts
<1>7. CASE SaveState
  <2>1. saved' \in IdleState
    BY <1>7, UnixFacts DEF SaveState, TypeInv, IdleState
  <2> QED
    BY <1>7, <2>1 DEF SaveState, TypeInv, counters, verdicts, clocks
<1>8. ASSUME NEW st \in {saved, NoState}, Restart(st) PROVE TypeInv'
  <2>1. st \in IdleState /\ NoState \in IdleState
    BY DEF TypeInv, NoState, IdleState
  <2>2. VhostLastSeen' \in [Vhost -> Nat] /\ UpstreamLastSeen' \in [Key -> Nat]
    BY <1>8, <2>1 DEF Restart, LoadState, Fresher, IdleState
  <2>3. life' \in Nat /\ now' \in Nat /\ stamp' \in Nat /\ saved' \in IdleState /\ ingested' \in Nat
    BY <1>8 DEF Restart, TypeInv
  <2>4. /\ Requests' \in [Vhost -> [Class -> Nat]]
        /\ BytesSent' \in [Vhost -> Nat] /\ BytesReceived' \in [Vhost -> Nat]
        /\ UpstreamRequests' \in [Key -> Nat]
        /\ UpstreamFailures' \in [Key -> [Reason -> Nat]]
    BY <1>8 DEF Restart, Zero
  <2>5. /\ UpstreamLastOK' \in [Key -> Nat] /\ UpstreamLastFail' \in [Key -> Nat]
        /\ UpstreamTimeHist' \in [Key -> [Bucket -> Nat]]
        /\ UpstreamTimeCount' \in [Key -> Nat]
        /\ Unattributed' \in [Attributable -> Nat]
        /\ evidence' \in [Key -> {"none", "ok", "fail"}]
    BY <1>8 DEF Restart, Zero
  <2> QED
    BY <2>2, <2>3, <2>4, <2>5 DEF TypeInv
<1>9. CASE UNCHANGED vars
  BY <1>9 DEF vars, TypeInv, counters, verdicts, clocks
<1> QED
  BY <1>1, <1>2, <1>3, <1>4, <1>5, <1>6, <1>7, <1>8, <1>9 DEF Next, Ingest

(* Every map of Stats keeps its type, and every counter stays non-negative. *)
THEOREM TypeCorrect == Spec => []TypeInv
  BY TypeInit, TypeStep, PTL DEF Spec

-----------------------------------------------------------------------------
(* The label cap and the overflow label depend on the tracked set only *)

LEMMA CapSmaller ==
  ASSUME NEW c, NEW d, CapHolds(c),
         TrackedIn(d) \ (SeedHosts \cup {Other}) \subseteq TrackedIn(c)
  PROVE  CapHolds(d)
<1> DEFINE New(clock) == TrackedIn(clock) \ (SeedHosts \cup {Other})
<1>1. New(d) \subseteq New(c)
  OBVIOUS
<1>2. IsFiniteSet(New(c)) /\ Cardinality(New(c)) \in Nat
  BY TrackedFinite
<1>3. Cardinality(New(d)) \in Nat /\ Cardinality(New(d)) <= Cardinality(New(c))
  BY <1>1, <1>2, FS_Subset, FS_CardinalityType
<1> QED
  BY <1>2, <1>3, ConstantsAssumption DEF CapHolds

LEMMA FoldGrows ==
  ASSUME NEW c, NEW d, FoldHolds(c), TrackedIn(c) \subseteq TrackedIn(d),
         Other \in TrackedIn(d) => Other \in TrackedIn(c)
  PROVE  FoldHolds(d)
<1>1. TrackedIn(c) \ {Other} \subseteq TrackedIn(d) \ {Other}
  OBVIOUS
<1>2. /\ IsFiniteSet(TrackedIn(d) \ {Other})
      /\ Cardinality(TrackedIn(d) \ {Other}) \in Nat
      /\ Cardinality(TrackedIn(c) \ {Other}) \in Nat
  BY TrackedFinite
<1>3. Cardinality(TrackedIn(c) \ {Other}) <= Cardinality(TrackedIn(d) \ {Other})
  BY <1>1, <1>2, FS_Subset
<1> QED
  BY <1>2, <1>3, ConstantsAssumption DEF FoldHolds

(* Stamping the vhost that capVhost chose keeps both. *)
LEMMA CapVhostKeepsCap ==
  ASSUME TypeInv, CapHolds(VhostLastSeen), NEW host \in Host, NEW t \in Nat, t # 0
  PROVE  CapHolds([VhostLastSeen EXCEPT ![capVhost(host)] = t])
<1> DEFINE vh == capVhost(host)
           d  == [VhostLastSeen EXCEPT ![vh] = t]
<1>1. vh \in Vhost /\ DOMAIN VhostLastSeen = Vhost
  BY CapVhostType DEF TypeInv
<1>2. TrackedIn(d) \subseteq Tracked \cup {vh}
  BY <1>1 DEF TrackedIn, Tracked
<1>3. CASE vh = Other \/ vh \in Tracked
  <2>1. TrackedIn(d) \ (SeedHosts \cup {Other}) \subseteq TrackedIn(VhostLastSeen)
    BY <1>2, <1>3 DEF Tracked
  <2> QED
    BY <2>1, CapSmaller
<1>4. CASE vh # Other /\ vh \notin Tracked
  <2>1. Cardinality(Tracked) < MaxVhosts
    BY <1>1, <1>4 DEF capVhost, Tracked, TrackedIn
  <2>2. IsFiniteSet(Tracked) /\ Cardinality(Tracked) \in Nat
    BY TrackedFinite DEF Tracked
  <2>1a. /\ IsFiniteSet(Tracked \cup {vh})
        /\ Cardinality(Tracked \cup {vh}) = Cardinality(Tracked) + 1
    <3> HIDE DEF vh
    <3> QED BY <1>4, <2>2, FS_AddElement
  <2>1b. MaxVhosts \in Nat
    BY ConstantsAssumption
  <2>3. IsFiniteSet(Tracked \cup {vh}) /\ Cardinality(Tracked \cup {vh}) <= MaxVhosts
    BY <2>1, <2>2, <2>1a, <2>1b
  <2>4. TrackedIn(d) \ (SeedHosts \cup {Other}) \subseteq Tracked \cup {vh}
    BY <1>2
  <2>5. Cardinality(TrackedIn(d) \ (SeedHosts \cup {Other})) <= Cardinality(Tracked \cup {vh})
    BY <2>3, <2>4, FS_Subset
  <2>6. /\ Cardinality(Tracked \cup {vh}) \in Nat
        /\ Cardinality(TrackedIn(d) \ (SeedHosts \cup {Other})) \in Nat
    BY <2>3, TrackedFinite, FS_CardinalityType
  <2> QED
    BY <2>3, <2>5, <2>6, ConstantsAssumption DEF CapHolds
<1> QED
  BY <1>3, <1>4

LEMMA CapVhostKeepsFold ==
  ASSUME TypeInv, FoldHolds(VhostLastSeen), NEW host \in Host, NEW t \in Nat, t # 0
  PROVE  FoldHolds([VhostLastSeen EXCEPT ![capVhost(host)] = t])
<1> DEFINE vh == capVhost(host)
           d  == [VhostLastSeen EXCEPT ![vh] = t]
<1>1. vh \in Vhost /\ DOMAIN VhostLastSeen = Vhost
  BY CapVhostType DEF TypeInv
<1>2. TrackedIn(d) = Tracked \cup {vh}
  BY <1>1 DEF TrackedIn, Tracked
<1>3. CASE vh # Other \/ vh \in Tracked
  BY <1>2, <1>3, FoldGrows DEF Tracked
<1>4. CASE vh = Other /\ vh \notin Tracked
  <2>1. ~(Cardinality(Tracked) < MaxVhosts)
    BY <1>4, ConstantsAssumption DEF capVhost, Tracked, TrackedIn
  <2>2. Cardinality(Tracked) \in Nat
    BY TrackedFinite DEF Tracked
  <2>3. TrackedIn(d) \ {Other} = Tracked
    BY <1>2, <1>4
  <2>4. Cardinality(TrackedIn(d) \ {Other}) >= MaxVhosts
    <3> HIDE DEF d
    <3>1. MaxVhosts \in Nat
      BY ConstantsAssumption
    <3> QED BY <2>1, <2>2, <2>3, <3>1
  <2> QED
    BY <2>4 DEF FoldHolds
<1> QED
  BY <1>3, <1>4

-----------------------------------------------------------------------------
(* The inductive invariant, part by part *)

(* What an attributed line does to the maps that the invariants read. *)
LEMMA IngestLineFacts ==
  ASSUME TypeInv, NEW l \in Lines, IngestLine(l)
  PROVE  /\ l \in Line /\ l.host \in Host /\ capVhost(l.host) \in Vhost
         /\ stamp # 0 /\ stamp' = 0 /\ now' = now /\ saved' = saved
         /\ VhostLastSeen' = [VhostLastSeen EXCEPT ![capVhost(l.host)] = stamp]
         /\ CountAttempts(l, capVhost(l.host))
         /\ StampAttempts(l, capVhost(l.host))
         /\ RecordEvidence(l, capVhost(l.host))
<1>1. l \in Line /\ l.host \in Host
  BY LinesAssumption DEF IngestLine, Line
<1>2. capVhost(l.host) \in Vhost
  BY <1>1, CapVhostType
<1> QED
  BY <1>1, <1>2 DEF IngestLine, IngestAt, CountVhost

LEMMA ClockBoundsStep ==
  ASSUME TypeInv, ClockBounds, [Next]_vars
  PROVE  ClockBounds'
<1>1. ASSUME NEW l \in Lines, IngestParseFail(l) \/ IngestNoHost(l) PROVE ClockBounds'
  BY <1>1 DEF IngestParseFail, IngestNoHost, IngestAt, verdicts, clocks, ClockBounds, TypeInv, IdleState
<1>2. ASSUME NEW l \in Lines, IngestLine(l) PROVE ClockBounds'
  <2> DEFINE vh == capVhost(l.host)
  <2>1. /\ vh \in Vhost /\ now' = now /\ saved' = saved /\ StampAttempts(l, vh)
        /\ VhostLastSeen' = [VhostLastSeen EXCEPT ![vh] = stamp]
        /\ stamp # 0 /\ stamp' = 0
    BY <1>2, IngestLineFacts
  <2> HIDE DEF vh
  <2>2. now' >= 2 /\ now' \in Nat /\ 2 <= stamp /\ stamp <= now' /\ stamp \in Nat
    BY <2>1 DEF ClockBounds, TypeInv
  <2>3. \A v \in Vhost : /\ VhostLastSeen'[v] = 0 \/ 2 <= VhostLastSeen'[v]
                         /\ VhostLastSeen'[v] <= now'
    BY <2>1, <2>2 DEF ClockBounds, TypeInv
  <2>4. \A v \in Vhost : /\ saved'.vhosts[v] = 0 \/ 2 <= saved'.vhosts[v]
                         /\ saved'.vhosts[v] <= now'
    BY <2>1, <2>2 DEF ClockBounds, TypeInv, IdleState
  <2>5. \A k \in Key : /\ UpstreamLastSeen'[k] <= now' /\ saved'.upstreams[k] <= now'
                       /\ UpstreamLastOK'[k] <= now' /\ UpstreamLastFail'[k] <= now'
    BY <2>1, <2>2 DEF ClockBounds, TypeInv, IdleState, StampAttempts
  <2> QED
    BY <2>1, <2>2, <2>3, <2>4, <2>5 DEF ClockBounds
<1>3. CASE Tick \/ ReadTime
  BY <1>3 DEF Tick, ReadTime, verdicts, clocks, ClockBounds, TypeInv, IdleState
<1>4. ASSUME NEW s \in Seeds, NEW t \in 2 .. now, Seed(s[1], s[2], t) PROVE ClockBounds'
  <2>1. \A v \in Vhost : /\ VhostLastSeen'[v] = 0 \/ 2 <= VhostLastSeen'[v]
                         /\ VhostLastSeen'[v] <= now
    BY <1>4, SeedsInKey DEF Seed, SeedVhost, ClockBounds, TypeInv
  <2>2. \A k \in Key : UpstreamLastSeen'[k] <= now
    BY <1>4, SeedsInKey DEF Seed, SeedUpstream, ClockBounds, TypeInv
  <2> QED
    BY <1>4, <2>1, <2>2 DEF Seed, verdicts, ClockBounds
<1>5. ASSUME NEW valid \in SUBSET SeedKeys, PruneSeeds(valid) PROVE ClockBounds'
  BY <1>5 DEF PruneSeeds, verdicts, ClockBounds, TypeInv
<1>6. CASE SaveState
  <2>1. \A v \in Vhost : /\ saved'.vhosts[v] = 0 \/ 2 <= saved'.vhosts[v]
                         /\ saved'.vhosts[v] <= now
    <3> SUFFICES ASSUME NEW v \in Vhost
                 PROVE  /\ saved'.vhosts[v] = 0 \/ 2 <= saved'.vhosts[v]
                        /\ saved'.vhosts[v] <= now
      OBVIOUS
    <3>1. saved'.vhosts[v] = Unix(VhostLastSeen[v])
      BY <1>6 DEF SaveState
    <3>2. /\ VhostLastSeen[v] \in Nat /\ now \in Nat /\ VhostLastSeen[v] <= now
          /\ VhostLastSeen[v] = 0 \/ 2 <= VhostLastSeen[v]
      BY DEF ClockBounds, TypeInv
    <3> QED
      BY <3>1, <3>2, UnixFacts
  <2>2. \A k \in Key : saved'.upstreams[k] <= now
    BY <1>6, UnixFacts DEF SaveState, ClockBounds, TypeInv
  <2> QED
    BY <1>6, <2>1, <2>2 DEF SaveState, verdicts, clocks, ClockBounds
<1>7. ASSUME NEW st \in {saved, NoState}, Restart(st) PROVE ClockBounds'
  <2>1. /\ \A v \in Vhost : VhostLastSeen'[v] \in {0, st.vhosts[v]}
        /\ \A k \in Key : UpstreamLastSeen'[k] \in {0, st.upstreams[k]}
    <3>1. /\ VhostLastSeen' = [v \in Vhost |-> Fresher(0, st.vhosts[v])]
          /\ UpstreamLastSeen' = [k \in Key |-> Fresher(0, st.upstreams[k])]
      BY <1>7 DEF Restart, LoadState, NoState
    <3> QED
      BY <3>1 DEF Fresher
  <2>2. /\ \A v \in Vhost : (st.vhosts[v] = 0 \/ 2 <= st.vhosts[v]) /\ st.vhosts[v] <= now
        /\ \A k \in Key : st.upstreams[k] <= now
    BY DEF ClockBounds, NoState, TypeInv
  <2>3. now' = now /\ stamp' = 0 /\ saved' = saved /\ now >= 2 /\ now \in Nat
    BY <1>7 DEF Restart, ClockBounds, TypeInv
  <2>4. \A k \in Key : UpstreamLastOK'[k] = 0 /\ UpstreamLastFail'[k] = 0
    BY <1>7 DEF Restart, Zero
  <2> QED
    BY <2>1, <2>2, <2>3, <2>4 DEF ClockBounds
<1>8. CASE UNCHANGED vars
  BY <1>8 DEF vars, verdicts, clocks, ClockBounds
<1> QED
  BY <1>1, <1>2, <1>3, <1>4, <1>5, <1>6, <1>7, <1>8 DEF Next, Ingest

(* A line uses the time up, a seed sets only what is not set, and the next *)
(* time is read after all that is past.                                    *)
LEMMA TimeReadStep ==
  ASSUME TypeInv, ClockBounds, TimeRead, [Next]_vars
  PROVE  TimeRead'
<1> USE DEF TimeRead, Seen
<1>1. ASSUME NEW l \in Lines, IngestParseFail(l) \/ IngestNoHost(l) PROVE TimeRead'
  BY <1>1 DEF IngestParseFail, IngestNoHost, IngestAt, counters, verdicts, clocks
<1>2. ASSUME NEW l \in Lines, IngestLine(l) PROVE TimeRead'
  <2> DEFINE vh == capVhost(l.host)
  <2>1. /\ l \in Line /\ vh \in Vhost /\ CountVhost(l, vh) /\ stamp # 0 /\ stamp' = 0
    BY <1>2, IngestLineFacts DEF IngestLine
  <2> HIDE DEF vh
  <2>2. ASSUME NEW v \in Vhost, Seen(v)' PROVE VhostLastSeen'[v] # 0
    <3>1. CASE v = vh
      BY <2>1, <3>1 DEF CountVhost, TypeInv
    <3>2. CASE v # vh
      <4>1. Requests'[v] = Requests[v] /\ VhostLastSeen'[v] = VhostLastSeen[v]
        BY <2>1, <3>2 DEF CountVhost, TypeInv
      <4> QED
        BY <2>2, <4>1
    <3> QED
      BY <3>1, <3>2
  <2> QED
    BY <2>1, <2>2
<1>3. CASE Tick
  BY <1>3 DEF Tick, counters, verdicts, clocks
<1>4. CASE ReadTime
  <2>1. /\ stamp' = now + 1 /\ UNCHANGED <<counters, verdicts, clocks>>
    BY <1>4 DEF ReadTime
  <2>2. /\ \A k \in Key : UpstreamLastOK[k] < stamp' /\ UpstreamLastFail[k] < stamp'
        /\ \A v \in Vhost : VhostLastSeen[v] < stamp'
    BY <2>1 DEF ClockBounds, TypeInv
  <2> QED
    BY <2>1, <2>2 DEF counters, verdicts, clocks
<1>5. ASSUME NEW s \in Seeds, NEW t \in 2 .. now, Seed(s[1], s[2], t) PROVE TimeRead'
  <2>1. \A v \in Vhost : VhostLastSeen[v] # 0 => VhostLastSeen'[v] = VhostLastSeen[v]
    BY <1>5 DEF Seed, SeedVhost, TypeInv
  <2>2. Requests' = Requests /\ stamp' = stamp
        /\ UpstreamLastOK' = UpstreamLastOK /\ UpstreamLastFail' = UpstreamLastFail
    BY <1>5 DEF Seed, counters, verdicts
  <2> QED
    BY <2>1, <2>2
<1>6. ASSUME NEW valid \in SUBSET SeedKeys, PruneSeeds(valid) PROVE TimeRead'
  BY <1>6 DEF PruneSeeds, counters, verdicts
<1>7. CASE SaveState
  BY <1>7 DEF SaveState, counters, verdicts, clocks
<1>8. ASSUME NEW st \in {saved, NoState}, Restart(st) PROVE TimeRead'
  <2>1. stamp' = 0 /\ \A v \in Vhost : ~Seen(v)'
    BY <1>8 DEF Restart, Zero
  <2> QED
    BY <2>1
<1>9. CASE UNCHANGED vars
  BY <1>9 DEF vars, counters, verdicts, clocks
<1> QED
  BY <1>1, <1>2, <1>3, <1>4, <1>5, <1>6, <1>7, <1>8, <1>9 DEF Next, Ingest

LEMMA ObservedStep ==
  ASSUME TypeInv, TimeRead, ObservedHaveClock, [Next]_vars
  PROVE  ObservedHaveClock'
<1>1. ASSUME NEW l \in Lines, IngestParseFail(l) \/ IngestNoHost(l)
      PROVE  ObservedHaveClock'
  BY <1>1 DEF IngestParseFail, IngestNoHost, counters, verdicts, clocks, ObservedHaveClock
<1>2. ASSUME NEW l \in Lines, IngestLine(l) PROVE ObservedHaveClock'
  <2> DEFINE vh == capVhost(l.host)
  <2>1. /\ l \in Line /\ vh \in Vhost /\ stamp # 0 /\ stamp \in Nat
        /\ CountAttempts(l, vh) /\ StampAttempts(l, vh)
        /\ VhostLastSeen' = [VhostLastSeen EXCEPT ![vh] = stamp]
    BY <1>2, IngestLineFacts DEF TypeInv
  <2> HIDE DEF vh
  <2> SUFFICES ASSUME NEW k \in Key, UpstreamRequests'[k] > 0
               PROVE  /\ UpstreamLastSeen'[k] # 0
                      /\ UpstreamLastSeen'[k] = Fresher(UpstreamLastOK'[k], UpstreamLastFail'[k])
                      /\ VhostLastSeen'[k[1]] # 0
    BY DEF ObservedHaveClock, Fresher
  <2>2. k[1] \in Vhost
    BY DEF Key
  <2>3. UpstreamLastOK[k] < stamp /\ UpstreamLastFail[k] < stamp
        /\ UpstreamLastOK[k] \in Nat /\ UpstreamLastFail[k] \in Nat
    BY <2>1 DEF TimeRead, TypeInv
  <2>4. CASE AttemptsOn(l, vh, k) = {}
    <3>1. UpstreamRequests'[k] = UpstreamRequests[k] + Cardinality({})
      BY <2>1, <2>4 DEF CountAttempts
    <3>2. UpstreamRequests[k] > 0
      BY <3>1, FS_EmptySet DEF TypeInv
    <3>3. /\ UpstreamLastSeen'[k] = UpstreamLastSeen[k]
          /\ UpstreamLastOK'[k] = UpstreamLastOK[k]
          /\ UpstreamLastFail'[k] = UpstreamLastFail[k]
      BY <2>1, <2>4 DEF StampAttempts
    <3>4. VhostLastSeen'[k[1]] # 0
      BY <2>1, <2>2, <3>2 DEF ObservedHaveClock, TypeInv
    <3> QED
      BY <3>2, <3>3, <3>4 DEF ObservedHaveClock
  <2>5. CASE AttemptsOn(l, vh, k) # {}
    <3>1. UpstreamLastSeen'[k] = stamp
      BY <2>1, <2>5 DEF StampAttempts
    <3>2. \/ UpstreamLastOK'[k] = stamp
             /\ UpstreamLastFail'[k] \in {stamp, UpstreamLastFail[k]}
          \/ UpstreamLastFail'[k] = stamp
             /\ UpstreamLastOK'[k] \in {stamp, UpstreamLastOK[k]}
      BY <2>1, <2>5 DEF StampAttempts
    <3>3. Fresher(UpstreamLastOK'[k], UpstreamLastFail'[k]) = stamp
      BY <2>1, <2>3, <3>2 DEF Fresher
    <3>4. k[1] = vh
      BY <2>5, AttemptsVhost
    <3>5. VhostLastSeen'[k[1]] = stamp
      BY <2>1, <3>4 DEF TypeInv
    <3> QED
      BY <2>1, <3>1, <3>3, <3>5
  <2> QED
    BY <2>4, <2>5
<1>3. CASE Tick \/ ReadTime
  BY <1>3 DEF Tick, ReadTime, counters, verdicts, clocks, ObservedHaveClock
<1>4. ASSUME NEW s \in Seeds, NEW t \in 2 .. now, Seed(s[1], s[2], t) PROVE ObservedHaveClock'
  <2>1. \A v \in Vhost : VhostLastSeen[v] # 0 => VhostLastSeen'[v] # 0
    BY <1>4 DEF Seed, SeedVhost, TypeInv
  <2>2. \A k \in Key : UpstreamLastSeen[k] # 0 => UpstreamLastSeen'[k] = UpstreamLastSeen[k]
    BY <1>4 DEF Seed, SeedUpstream, TypeInv
  <2> QED
    BY <1>4, <2>1, <2>2 DEF Seed, counters, verdicts, ObservedHaveClock, Key
<1>5. ASSUME NEW valid \in SUBSET SeedKeys, PruneSeeds(valid) PROVE ObservedHaveClock'
  <2>1. \A k \in Key : UpstreamRequests[k] > 0 => UpstreamLastSeen'[k] = UpstreamLastSeen[k]
    BY <1>5 DEF PruneSeeds, Prunable, TypeInv
  <2> QED
    BY <1>5, <2>1 DEF PruneSeeds, counters, verdicts, ObservedHaveClock
<1>6. CASE SaveState
  BY <1>6 DEF SaveState, counters, verdicts, clocks, ObservedHaveClock
<1>7. ASSUME NEW st \in {saved, NoState}, Restart(st) PROVE ObservedHaveClock'
  BY <1>7 DEF Restart, Zero, ObservedHaveClock
<1>8. CASE UNCHANGED vars
  BY <1>8 DEF vars, counters, verdicts, clocks, ObservedHaveClock
<1> QED
  BY <1>1, <1>2, <1>3, <1>4, <1>5, <1>6, <1>7, <1>8 DEF Next, Ingest

(* A save keeps the set of tracked vhosts, and a restart restores either   *)
(* that set or nothing.                                                    *)
LEMMA SavedTracksTheSame ==
  ASSUME TypeInv, ClockBounds, SaveState
  PROVE  TrackedIn(saved'.vhosts) = TrackedIn(VhostLastSeen)
<1> SUFFICES ASSUME NEW v \in Vhost
             PROVE  saved'.vhosts[v] # 0 <=> VhostLastSeen[v] # 0
  BY DEF TrackedIn
<1>1. saved'.vhosts[v] = Unix(VhostLastSeen[v])
  BY DEF SaveState
<1>2. VhostLastSeen[v] \in Nat /\ (VhostLastSeen[v] = 0 \/ 2 <= VhostLastSeen[v])
  BY DEF ClockBounds, TypeInv
<1> QED
  BY <1>1, <1>2, UnixFacts

LEMMA RestartTracks ==
  ASSUME TypeInv, NEW st \in {saved, NoState}, Restart(st)
  PROVE  /\ TrackedIn(VhostLastSeen') \in {{}, TrackedIn(saved.vhosts)}
         /\ TrackedIn(VhostLastSeen') \subseteq TrackedIn(saved.vhosts)
<1>1. VhostLastSeen' = [v \in Vhost |-> Fresher(0, st.vhosts[v])]
  BY DEF Restart, LoadState, NoState
<1>2. \A v \in Vhost : st.vhosts[v] \in Nat
  BY DEF TypeInv, IdleState, NoState
<1>3. \A v \in Vhost : VhostLastSeen'[v] = st.vhosts[v]
  BY <1>1, <1>2 DEF Fresher
<1>4. TrackedIn(VhostLastSeen') = TrackedIn(st.vhosts)
  BY <1>3 DEF TrackedIn
<1>5. TrackedIn(NoState.vhosts) = {}
  BY DEF TrackedIn, NoState
<1> QED
  BY <1>4, <1>5

LEMMA CapStep ==
  ASSUME TypeInv, ClockBounds, CardinalityCap, [Next]_vars
  PROVE  CardinalityCap'
<1>1. ASSUME NEW l \in Lines, IngestParseFail(l) \/ IngestNoHost(l) PROVE CardinalityCap'
  BY <1>1 DEF IngestParseFail, IngestNoHost, IngestAt, clocks, CardinalityCap, CapHolds, TrackedIn
<1>2. ASSUME NEW l \in Lines, IngestLine(l) PROVE CardinalityCap'
  <2>1. /\ l.host \in Host /\ saved' = saved /\ stamp \in Nat /\ stamp # 0
        /\ VhostLastSeen' = [VhostLastSeen EXCEPT ![capVhost(l.host)] = stamp]
    BY <1>2, IngestLineFacts DEF TypeInv, ClockBounds
  <2>2. CapHolds(VhostLastSeen')
    BY <2>1, CapVhostKeepsCap DEF CardinalityCap
  <2> QED
    BY <2>1, <2>2 DEF CardinalityCap, CapHolds, TrackedIn
<1>3. CASE Tick \/ ReadTime
  BY <1>3 DEF Tick, ReadTime, clocks, CardinalityCap, CapHolds, TrackedIn
<1>4. ASSUME NEW s \in Seeds, NEW t \in 2 .. now, Seed(s[1], s[2], t) PROVE CardinalityCap'
  <2>1. TrackedIn(VhostLastSeen') \ (SeedHosts \cup {Other}) \subseteq TrackedIn(VhostLastSeen)
    BY <1>4, SeedsInKey DEF Seed, SeedVhost, SeedHosts, TrackedIn, TypeInv
  <2>2. CapHolds(VhostLastSeen')
    BY <2>1, CapSmaller DEF CardinalityCap
  <2> QED
    BY <1>4, <2>2 DEF Seed, CardinalityCap, CapHolds, TrackedIn
<1>5. ASSUME NEW valid \in SUBSET SeedKeys, PruneSeeds(valid) PROVE CardinalityCap'
  BY <1>5 DEF PruneSeeds, CardinalityCap, CapHolds, TrackedIn
<1>6. CASE SaveState
  <2>1. TrackedIn(saved'.vhosts) = TrackedIn(VhostLastSeen)
    BY <1>6, SavedTracksTheSame
  <2>2. CapHolds(saved'.vhosts)
    BY <2>1 DEF CardinalityCap, CapHolds
  <2> QED
    BY <1>6, <2>2 DEF SaveState, clocks, CardinalityCap, CapHolds, TrackedIn
<1>7. ASSUME NEW st \in {saved, NoState}, Restart(st) PROVE CardinalityCap'
  <2>1. TrackedIn(VhostLastSeen') \subseteq TrackedIn(saved.vhosts)
    BY <1>7, RestartTracks
  <2>2. CapHolds(VhostLastSeen')
    BY <2>1, CapSmaller DEF CardinalityCap
  <2> QED
    BY <1>7, <2>2 DEF Restart, CardinalityCap, CapHolds, TrackedIn
<1>8. CASE UNCHANGED vars
  BY <1>8 DEF vars, clocks, CardinalityCap, CapHolds, TrackedIn
<1> QED
  BY <1>1, <1>2, <1>3, <1>4, <1>5, <1>6, <1>7, <1>8 DEF Next, Ingest

LEMMA FoldStep ==
  ASSUME TypeInv, ClockBounds, FoldOnlyWhenFull, [Next]_vars
  PROVE  FoldOnlyWhenFull'
<1>1. ASSUME NEW l \in Lines, IngestParseFail(l) \/ IngestNoHost(l) PROVE FoldOnlyWhenFull'
  BY <1>1 DEF IngestParseFail, IngestNoHost, IngestAt, clocks, FoldOnlyWhenFull, FoldHolds, TrackedIn
<1>2. ASSUME NEW l \in Lines, IngestLine(l) PROVE FoldOnlyWhenFull'
  <2>1. /\ l.host \in Host /\ saved' = saved /\ stamp \in Nat /\ stamp # 0
        /\ VhostLastSeen' = [VhostLastSeen EXCEPT ![capVhost(l.host)] = stamp]
    BY <1>2, IngestLineFacts DEF TypeInv, ClockBounds
  <2>2. FoldHolds(VhostLastSeen')
    BY <2>1, CapVhostKeepsFold DEF FoldOnlyWhenFull
  <2> QED
    BY <2>1, <2>2 DEF FoldOnlyWhenFull, FoldHolds, TrackedIn
<1>3. CASE Tick \/ ReadTime
  BY <1>3 DEF Tick, ReadTime, clocks, FoldOnlyWhenFull, FoldHolds, TrackedIn
<1>4. ASSUME NEW s \in Seeds, NEW t \in 2 .. now, Seed(s[1], s[2], t) PROVE FoldOnlyWhenFull'
  <2>1. s[1] # Other
    BY SeedsInKey, ConstantsAssumption
  <2>2. /\ TrackedIn(VhostLastSeen) \subseteq TrackedIn(VhostLastSeen')
        /\ Other \in TrackedIn(VhostLastSeen') => Other \in TrackedIn(VhostLastSeen)
    BY <1>4, <2>1 DEF Seed, SeedVhost, TrackedIn, TypeInv
  <2>3. FoldHolds(VhostLastSeen')
    BY <2>2, FoldGrows DEF FoldOnlyWhenFull
  <2> QED
    BY <1>4, <2>3 DEF Seed, FoldOnlyWhenFull, FoldHolds, TrackedIn
<1>5. ASSUME NEW valid \in SUBSET SeedKeys, PruneSeeds(valid) PROVE FoldOnlyWhenFull'
  BY <1>5 DEF PruneSeeds, FoldOnlyWhenFull, FoldHolds, TrackedIn
<1>6. CASE SaveState
  <2>1. TrackedIn(saved'.vhosts) = TrackedIn(VhostLastSeen)
    BY <1>6, SavedTracksTheSame
  <2>2. FoldHolds(saved'.vhosts)
    BY <2>1 DEF FoldOnlyWhenFull, FoldHolds
  <2> QED
    BY <1>6, <2>2 DEF SaveState, clocks, FoldOnlyWhenFull, FoldHolds, TrackedIn
<1>7. ASSUME NEW st \in {saved, NoState}, Restart(st) PROVE FoldOnlyWhenFull'
  <2>1. TrackedIn(VhostLastSeen') \in {{}, TrackedIn(saved.vhosts)}
    BY <1>7, RestartTracks
  <2>2. FoldHolds(VhostLastSeen')
    BY <2>1 DEF FoldOnlyWhenFull, FoldHolds
  <2> QED
    BY <1>7, <2>2 DEF Restart, FoldOnlyWhenFull, FoldHolds, TrackedIn
<1>8. CASE UNCHANGED vars
  BY <1>8 DEF vars, clocks, FoldOnlyWhenFull, FoldHolds, TrackedIn
<1> QED
  BY <1>1, <1>2, <1>3, <1>4, <1>5, <1>6, <1>7, <1>8 DEF Next, Ingest

LEMMA VerdictStep ==
  ASSUME TypeInv, TimeRead, VerdictIsLatestEvidence, [Next]_vars
  PROVE  VerdictIsLatestEvidence'
<1> USE DEF VerdictIsLatestEvidence, Up, verdicts
<1>1. ASSUME NEW l \in Lines, IngestParseFail(l) \/ IngestNoHost(l)
      PROVE  VerdictIsLatestEvidence'
  BY <1>1 DEF IngestParseFail, IngestNoHost
<1>2. ASSUME NEW l \in Lines, IngestLine(l) PROVE VerdictIsLatestEvidence'
  <2> DEFINE vh == capVhost(l.host)
  <2>1. /\ l \in Line /\ stamp # 0 /\ stamp \in Nat
        /\ StampAttempts(l, vh) /\ RecordEvidence(l, vh)
    BY <1>2, IngestLineFacts DEF TypeInv
  <2> HIDE DEF vh
  <2> SUFFICES ASSUME NEW k \in Key
               PROVE  evidence'[k] # "none" =>
                        (~(UpstreamLastOK'[k] < UpstreamLastFail'[k]) <=> evidence'[k] = "ok")
    OBVIOUS
  <2> DEFINE On == AttemptsOn(l, vh, k)
  <2>2. /\ UpstreamLastOK[k] \in Nat /\ UpstreamLastOK[k] < stamp
        /\ UpstreamLastFail[k] \in Nat /\ UpstreamLastFail[k] < stamp
    BY <2>1 DEF TimeRead, TypeInv
  <2>3. CASE On = {}
    <3>1. /\ UpstreamLastOK'[k] = UpstreamLastOK[k]
          /\ UpstreamLastFail'[k] = UpstreamLastFail[k] /\ evidence'[k] = evidence[k]
      BY <2>1, <2>3 DEF StampAttempts, RecordEvidence
    <3> QED
      BY <3>1
  <2>4. CASE \E i \in On : ~Failed(l, i)
    <3>1. PICK i \in On : ~Failed(l, i)
      BY <2>4
    <3>2. i = Len(l.upstream)
      BY <3>1 DEF Failed, Outcome, NextUpstream, Success
    <3>3. \A j \in On : j <= i
      BY <2>1, <3>2, AttemptsFinite
    <3>4. evidence'[k] = "ok"
      BY <2>1, <3>1, <3>3 DEF RecordEvidence
    <3>5. /\ UpstreamLastOK'[k] = stamp
          /\ UpstreamLastFail'[k] \in {stamp, UpstreamLastFail[k]}
      BY <2>1, <3>1 DEF StampAttempts
    <3> QED
      BY <2>1, <2>2, <3>4, <3>5
  <2>5. CASE On # {} /\ \A i \in On : Failed(l, i)
    <3>1. evidence'[k] = "fail"
      BY <2>1, <2>5 DEF RecordEvidence
    <3>2. UpstreamLastOK'[k] = UpstreamLastOK[k] /\ UpstreamLastFail'[k] = stamp
      BY <2>1, <2>5 DEF StampAttempts
    <3> QED
      BY <2>1, <2>2, <3>1, <3>2
  <2> QED
    BY <2>3, <2>4, <2>5
<1>3. CASE Tick \/ ReadTime
  BY <1>3 DEF Tick, ReadTime
<1>4. ASSUME NEW s \in Seeds, NEW t \in 2 .. now, Seed(s[1], s[2], t) PROVE VerdictIsLatestEvidence'
  BY <1>4 DEF Seed
<1>5. ASSUME NEW valid \in SUBSET SeedKeys, PruneSeeds(valid) PROVE VerdictIsLatestEvidence'
  BY <1>5 DEF PruneSeeds
<1>6. CASE SaveState
  BY <1>6 DEF SaveState
<1>7. ASSUME NEW st \in {saved, NoState}, Restart(st) PROVE VerdictIsLatestEvidence'
  BY <1>7 DEF Restart
<1>8. CASE UNCHANGED vars
  BY <1>8 DEF vars
<1> QED
  BY <1>1, <1>2, <1>3, <1>4, <1>5, <1>6, <1>7, <1>8 DEF Next, Ingest

-----------------------------------------------------------------------------
(* The invariants of the specification *)

LEMMA IInvInit == Init => IInv
<1> SUFFICES ASSUME Init PROVE IInv
  OBVIOUS
<1>1. TypeInv
  BY TypeInit
<1>2. /\ now = 2 /\ stamp = 0
      /\ \A v \in Vhost : VhostLastSeen[v] = 0 /\ saved.vhosts[v] = 0
      /\ \A k \in Key : /\ UpstreamLastSeen[k] = 0 /\ saved.upstreams[k] = 0
                        /\ UpstreamLastOK[k] = 0 /\ UpstreamLastFail[k] = 0
                        /\ UpstreamRequests[k] = 0 /\ evidence[k] = "none"
  BY DEF Init, NewStats, NoState, Zero
<1>3. ClockBounds
  BY <1>2 DEF ClockBounds
<1>3a. TimeRead
  <2>1. \A v \in Vhost : ~Seen(v)
    BY DEF Init, NewStats, Zero, Seen
  <2> QED
    BY <1>2, <2>1 DEF TimeRead
<1>4. ObservedHaveClock /\ VerdictIsLatestEvidence
  BY <1>2 DEF ObservedHaveClock, VerdictIsLatestEvidence
<1>5. TrackedIn(VhostLastSeen) = {} /\ TrackedIn(saved.vhosts) = {}
  BY <1>2 DEF TrackedIn
<1>6. FoldOnlyWhenFull
  BY <1>5 DEF FoldOnlyWhenFull, FoldHolds
<1>7. Cardinality({} \ (SeedHosts \cup {Other})) = 0
  BY FS_EmptySet
<1>8. CardinalityCap
  BY <1>5, <1>7, ConstantsAssumption DEF CardinalityCap, CapHolds
<1> QED
  BY <1>1, <1>3, <1>3a, <1>4, <1>6, <1>8 DEF IInv

LEMMA IInvStep == IInv /\ [Next]_vars => IInv'
  BY TypeStep, ClockBoundsStep, TimeReadStep, ObservedStep, CapStep, FoldStep, VerdictStep DEF IInv

LEMMA IInvAlways == Spec => []IInv
  BY IInvInit, IInvStep, PTL DEF Spec

(* A member that served traffic in this life always has its idle clock,    *)
(* and it shows the last attempt.                                          *)
THEOREM ObservedClockCorrect == Spec => []ObservedHaveClock
<1>1. IInv => ObservedHaveClock
  BY DEF IInv
<1> QED
  BY <1>1, IInvAlways, PTL

(* The cap binds exactly, in memory and on disk. *)
THEOREM CapExactCorrect == Spec => []CapExact
<1>1. IInv => CapExact
  BY DEF IInv, CapExact
<1> QED
  BY <1>1, IInvAlways, PTL

(* The up verdict is the outcome of the last attempt. *)
THEOREM VerdictCorrect == Spec => []VerdictIsLatestEvidence
<1>1. IInv => VerdictIsLatestEvidence
  BY DEF IInv
<1> QED
  BY <1>1, IInvAlways, PTL

(* No clock, in memory or on disk, is ahead of time. *)
THEOREM ClocksPastCorrect == Spec => []ClocksArePast
<1>1. IInv => ClocksArePast
  BY DEF IInv, ClockBounds, ClocksArePast
<1> QED
  BY <1>1, IInvAlways, PTL

(* Within one life no count falls, and no observed clock goes back.        *)
LEMMA MonotoneStep == IInv /\ [Next]_vars => [NothingGoesBack]_vars
<1> SUFFICES ASSUME IInv, Next, life' = life PROVE NothingGoesBack
  BY DEF NothingGoesBack
<1> USE DEF IInv, TypeInv, NothingGoesBack
<1>1. ASSUME NEW l \in Lines, IngestParseFail(l) \/ IngestNoHost(l) PROVE NothingGoesBack
  BY <1>1 DEF IngestParseFail, IngestNoHost, counters, verdicts, clocks
<1>2. ASSUME NEW l \in Lines, IngestLine(l) PROVE NothingGoesBack
  <2> DEFINE vh == capVhost(l.host)
  <2>1. /\ l \in Line /\ vh \in Vhost /\ stamp # 0 /\ stamp \in Nat
        /\ CountVhost(l, vh) /\ CountAttempts(l, vh) /\ StampAttempts(l, vh)
    BY <1>2, IngestLineFacts DEF IngestLine
  <2> HIDE DEF vh
  <2>2. Positive(l.bytesSent) \in Nat /\ Positive(l.requestLength) \in Nat
    BY <2>1 DEF Line, Positive
  <2>3. ASSUME NEW v \in Vhost
        PROVE  /\ BytesSent[v] <= BytesSent'[v] /\ BytesReceived[v] <= BytesReceived'[v]
               /\ \A c \in Class : Requests[v][c] <= Requests'[v][c]
               /\ VhostLastSeen'[v] < VhostLastSeen[v] => ~Seen(v) /\ VhostLastSeen'[v] = stamp
    <3>1. VhostLastSeen'[v] = IF v = vh THEN stamp ELSE VhostLastSeen[v]
      BY <2>1 DEF CountVhost
    <3>2. VhostLastSeen'[v] < VhostLastSeen[v] => VhostLastSeen'[v] = stamp
      BY <3>1
    <3>3. ASSUME Seen(v), VhostLastSeen'[v] < VhostLastSeen[v] PROVE FALSE
      BY <2>1, <3>1, <3>3 DEF TimeRead
    <3>4. BytesSent[v] <= BytesSent'[v]
      BY <2>1, <2>2 DEF CountVhost
    <3>5. BytesReceived[v] <= BytesReceived'[v]
      BY <2>1, <2>2 DEF CountVhost
    <3>6. \A c \in Class : Requests[v][c] <= Requests'[v][c]
      BY <2>1 DEF CountVhost
    <3> QED
      BY <3>2, <3>3, <3>4, <3>5, <3>6
  <2>4. ASSUME NEW k \in Key
        PROVE  /\ UpstreamRequests[k] <= UpstreamRequests'[k]
               /\ UpstreamTimeCount[k] <= UpstreamTimeCount'[k]
               /\ UpstreamLastOK[k] <= UpstreamLastOK'[k]
               /\ UpstreamLastFail[k] <= UpstreamLastFail'[k]
               /\ UpstreamLastSeen'[k] < UpstreamLastSeen[k] =>
                    UpstreamRequests[k] = 0 /\ UpstreamLastSeen'[k] \in {0, stamp}
    <3>1. /\ Cardinality(AttemptsOn(l, vh, k)) \in Nat
          /\ Cardinality(Observed(l, vh, k)) \in Nat
      BY <2>1, AttemptsFinite DEF Observed
    <3>2. UpstreamLastOK[k] < stamp /\ UpstreamLastFail[k] < stamp
      BY <2>1 DEF TimeRead
    <3>3. UpstreamRequests[k] <= UpstreamRequests'[k]
      BY <2>1, <3>1 DEF CountAttempts
    <3>4. UpstreamTimeCount[k] <= UpstreamTimeCount'[k]
      BY <2>1, <3>1 DEF CountAttempts
    <3>5. UpstreamLastOK[k] <= UpstreamLastOK'[k] /\ UpstreamLastFail[k] <= UpstreamLastFail'[k]
      BY <2>1, <3>2 DEF StampAttempts
    <3>6. UpstreamLastSeen'[k] \in {stamp, UpstreamLastSeen[k]}
      BY <2>1 DEF StampAttempts
    <3>7. UpstreamRequests[k] > 0 => UpstreamLastSeen[k] < stamp
      BY <3>2 DEF ObservedHaveClock, Fresher
    <3> QED
      BY <2>1, <3>3, <3>4, <3>5, <3>6, <3>7
  <2> QED
    BY <2>3, <2>4
<1>3. CASE Tick \/ ReadTime
  BY <1>3 DEF Tick, ReadTime, counters, verdicts, clocks
<1>4. ASSUME NEW s \in Seeds, NEW t \in 2 .. now, Seed(s[1], s[2], t) PROVE NothingGoesBack
  <2>1. /\ \A v \in Vhost : ~(VhostLastSeen'[v] < VhostLastSeen[v])
        /\ \A k \in Key : ~(UpstreamLastSeen'[k] < UpstreamLastSeen[k])
    <3>1. /\ \A v \in Vhost : VhostLastSeen'[v] \in Nat
          /\ \A k \in Key : UpstreamLastSeen'[k] \in Nat
      BY <1>4, SeedsInKey DEF Seed, SeedVhost, SeedUpstream
    <3> QED
      BY <1>4, <3>1, SeedFills
  <2>2. UNCHANGED <<counters, verdicts>>
    BY <1>4 DEF Seed
  <2> QED
    BY <2>1, <2>2 DEF counters, verdicts
<1>5. ASSUME NEW valid \in SUBSET SeedKeys, PruneSeeds(valid) PROVE NothingGoesBack
  <2>1. \A k \in Key : \/ UpstreamLastSeen'[k] = UpstreamLastSeen[k]
                       \/ UpstreamLastSeen'[k] = 0 /\ UpstreamRequests[k] = 0
    BY <1>5 DEF PruneSeeds, Prunable
  <2>2. UNCHANGED <<counters, verdicts, VhostLastSeen>>
    BY <1>5 DEF PruneSeeds
  <2> QED
    BY <2>1, <2>2 DEF counters, verdicts
<1>6. CASE SaveState
  BY <1>6 DEF SaveState, counters, verdicts, clocks
<1>7. ASSUME NEW st \in {saved, NoState}, Restart(st) PROVE NothingGoesBack
  BY <1>7 DEF Restart
<1> QED
  BY <1>1, <1>2, <1>3, <1>4, <1>5, <1>6, <1>7 DEF Next, Ingest

(* Within a life no count falls, and a clock goes back only while nothing  *)
(* was observed on it: when it is pruned, or when its first line arrives   *)
(* with a time that was read before the sweep that seeded it (Ingest,      *)
(* Seed, PruneSeeds, LoadState).                                           *)
THEOREM MonotoneCorrect == Spec => ObservedMonotone
  BY IInvAlways, MonotoneStep, PTL DEF Spec, ObservedMonotone

-----------------------------------------------------------------------------
(* Sums of counters *)

(* A set of numbers that has 0 and the successor of each has them all: the *)
(* least number outside would be the successor of one inside.             *)
LEMMA NatSetInduction ==
  ASSUME NEW T, 0 \in T, \A n \in Nat : n \in T => n + 1 \in T
  PROVE  Nat \subseteq T
<1> DEFINE R == {ss \in Nat \X Nat : ss[1] < ss[2]}
<1>1. IsWellFoundedOn(R, Nat)
  BY NatLessThanWellFounded DEF OpToRel
<1>2. SUFFICES ASSUME Nat \ T # {} PROVE FALSE
  OBVIOUS
<1>3. PICK x \in Nat \ T : \A y \in Nat \ T : ~(<<y, x>> \in R)
  <2> HIDE DEF R
  <2> QED
    BY <1>1, <1>2, WFMin
<1>4. x # 0 /\ x - 1 \in Nat /\ <<x - 1, x>> \in R /\ (x - 1) + 1 = x
  OBVIOUS
<1> QED
  BY <1>3, <1>4

(* The order in which SumOver takes the elements of a set. *)
Pick(s) == CHOOSE x \in s : TRUE

Adds(g, f, S) ==
  g = [s \in SUBSET S |-> IF s = {} THEN 0 ELSE f[Pick(s)] + g[s \ {Pick(s)}]]

LEMMA SumOverAdds ==
  ASSUME NEW S, NEW f
  PROVE  SumOver(S, f) = (CHOOSE g : Adds(g, f, S))[S]
  BY DEF SumOver, MapThenSumSet, MapThenFoldSet, Adds, Pick

(* What holds of no element, and of a set if without one picked, holds of  *)
(* every subset of a finite set.                                           *)
LEMMA SubsetInduction ==
  ASSUME NEW S, IsFiniteSet(S), NEW T, {} \in T,
         \A s \in SUBSET S : s # {} /\ s \ {Pick(s)} \in T => s \in T
  PROVE  SUBSET S \subseteq T
<1> DEFINE N == {n \in Nat : \A s \in SUBSET S : Cardinality(s) = n => s \in T}
<1>1. \A s \in SUBSET S : IsFiniteSet(s) /\ Cardinality(s) \in Nat
  BY FS_Subset, FS_CardinalityType
<1>2. 0 \in N
  BY <1>1, FS_EmptySet
<1>3. ASSUME NEW n \in Nat, n \in N
      PROVE  n + 1 \in N
  <2> SUFFICES ASSUME NEW s \in SUBSET S, Cardinality(s) = n + 1
               PROVE  s \in T
    OBVIOUS
  <2>1. s # {}
    BY FS_EmptySet
  <2>2. Pick(s) \in s
    BY <2>1 DEF Pick
  <2>3. Cardinality(s \ {Pick(s)}) = n
    BY <1>1, <2>2, FS_RemoveElement
  <2> QED
    BY <1>3, <2>1, <2>3
<1>4. Nat \subseteq N
  <2> HIDE DEF N
  <2> QED
    BY <1>2, <1>3, NatSetInduction
<1> QED
  BY <1>1, <1>4

(* The recursion of a sum over a finite set has a solution. *)
LEMMA SumExists ==
  ASSUME NEW S, IsFiniteSet(S), NEW f
  PROVE  \E g : Adds(g, f, S)
<1> DEFINE Val(g, s) == IF s = {} THEN 0 ELSE f[Pick(s)] + g[s \ {Pick(s)}]
           N == {n \in Nat : \E g : \A s \in SUBSET S : Cardinality(s) <= n => g[s] = Val(g, s)}
<1>1. \A s \in SUBSET S : IsFiniteSet(s) /\ Cardinality(s) \in Nat
  BY FS_Subset, FS_CardinalityType
<1>2. 0 \in N
  <2> DEFINE g == [s \in SUBSET S |-> 0]
  <2>1. \A s \in SUBSET S : Cardinality(s) <= 0 => g[s] = Val(g, s)
    BY <1>1, FS_EmptySet
  <2> QED
    BY <2>1
<1>3. ASSUME NEW n \in Nat, n \in N
      PROVE  n + 1 \in N
  <2>1. PICK g : \A s \in SUBSET S : Cardinality(s) <= n => g[s] = Val(g, s)
    BY <1>3
  <2> DEFINE h == [s \in SUBSET S |-> IF Cardinality(s) <= n THEN g[s] ELSE Val(g, s)]
  <2>2. ASSUME NEW s \in SUBSET S, Cardinality(s) <= n + 1
        PROVE  h[s] = Val(h, s)
    <3>1. CASE s = {}
      BY <2>1, <3>1, FS_EmptySet
    <3>2. CASE s # {}
      <4>1. Pick(s) \in s
        BY <3>2 DEF Pick
      <4>2. Cardinality(s \ {Pick(s)}) = Cardinality(s) - 1 /\ s \ {Pick(s)} \in SUBSET S
        BY <1>1, <4>1, FS_RemoveElement
      <4>3. Cardinality(s \ {Pick(s)}) <= n
        BY <1>1, <2>2, <4>2
      <4>4. h[s \ {Pick(s)}] = g[s \ {Pick(s)}]
        BY <4>2, <4>3
      <4>5. h[s] = Val(g, s)
        BY <2>1
      <4> QED
        BY <3>2, <4>4, <4>5
    <3> QED
      BY <3>1, <3>2
  <2> HIDE DEF h
  <2> QED
    BY <2>2
<1>4. Cardinality(S) \in N
  <2> HIDE DEF N
  <2> QED
    BY <1>1, <1>2, <1>3, NatSetInduction
<1>5. PICK g : \A s \in SUBSET S : Cardinality(s) <= Cardinality(S) => g[s] = Val(g, s)
  BY <1>4
<1> DEFINE h == [s \in SUBSET S |-> g[s]]
<1>6. \A s \in SUBSET S : h[s] = Val(h, s)
  <2>1. \A s \in SUBSET S : g[s] = Val(g, s)
    BY <1>5, FS_Subset
  <2>2. \A s \in SUBSET S : s \ {Pick(s)} \in SUBSET S
    OBVIOUS
  <2> QED
    BY <2>1, <2>2
<1>7. Adds(h, f, S)
  <2>1. h = [s \in SUBSET S |-> h[s]]
    OBVIOUS
  <2> HIDE DEF h
  <2> QED
    BY <1>6, <2>1 DEF Adds
<1> QED
  BY <1>7

(* A sum, with its partial sums. *)
Solution(g, f, S) ==
  /\ SumOver(S, f) = g[S] /\ g[{}] = 0
  /\ \A s \in SUBSET S : s # {} => g[s] = f[Pick(s)] + g[s \ {Pick(s)}]

LEMMA SumIsSolved ==
  ASSUME NEW S, IsFiniteSet(S), NEW f
  PROVE  \E g : Solution(g, f, S)
<1> DEFINE g == CHOOSE g : Adds(g, f, S)
<1>1. SumOver(S, f) = g[S] /\ Adds(g, f, S)
  BY SumOverAdds, SumExists
<1> HIDE DEF g
<1>2. g[{}] = 0 /\ \A s \in SUBSET S : s # {} => g[s] = f[Pick(s)] + g[s \ {Pick(s)}]
  BY <1>1 DEF Adds
<1> QED
  BY <1>1, <1>2 DEF Solution

LEMMA SumNat ==
  ASSUME NEW S, IsFiniteSet(S), NEW f, \A x \in S : f[x] \in Nat
  PROVE  SumOver(S, f) \in Nat
<1>1. PICK g : Solution(g, f, S)
  BY SumIsSolved
<1> DEFINE T == {s \in SUBSET S : g[s] \in Nat}
<1>2. {} \in T
  BY <1>1 DEF Solution
<1>3. ASSUME NEW s \in SUBSET S, s # {}, s \ {Pick(s)} \in T
      PROVE  s \in T
  <2>1. Pick(s) \in s
    BY <1>3 DEF Pick
  <2>2. g[s] = f[Pick(s)] + g[s \ {Pick(s)}] /\ s \ {Pick(s)} \in SUBSET S
    BY <1>1, <1>3 DEF Solution
  <2> QED
    BY <1>3, <2>1, <2>2
<1>4. SUBSET S \subseteq T
  <2> HIDE DEF T
  <2> QED
    BY <1>2, <1>3, SubsetInduction
<1> QED
  BY <1>1, <1>4 DEF Solution

LEMMA SumZero ==
  ASSUME NEW S, IsFiniteSet(S), NEW f, \A x \in S : f[x] = 0
  PROVE  SumOver(S, f) = 0
<1>1. PICK g : Solution(g, f, S)
  BY SumIsSolved
<1> DEFINE T == {s \in SUBSET S : g[s] = 0}
<1>2. {} \in T
  BY <1>1 DEF Solution
<1>3. ASSUME NEW s \in SUBSET S, s # {}, s \ {Pick(s)} \in T
      PROVE  s \in T
  <2>1. Pick(s) \in s
    BY <1>3 DEF Pick
  <2>2. g[s] = f[Pick(s)] + g[s \ {Pick(s)}] /\ s \ {Pick(s)} \in SUBSET S
    BY <1>1, <1>3 DEF Solution
  <2> QED
    BY <1>3, <2>1, <2>2
<1>4. SUBSET S \subseteq T
  <2> HIDE DEF T
  <2> QED
    BY <1>2, <1>3, SubsetInduction
<1> QED
  BY <1>1, <1>4 DEF Solution

(* The events of D that c puts into s. *)
Hits(D, c, s) == {i \in D : c[i] \in s}

(* Where each of the events D adds one to the counter it belongs to, the   *)
(* sum grows by those that belong to one.                                  *)
LEMMA SumCounts ==
  ASSUME NEW S, IsFiniteSet(S), NEW D, IsFiniteSet(D), NEW c, NEW f, NEW h,
         \A x \in S : f[x] \in Nat /\ h[x] = f[x] + Cardinality(Hits(D, c, {x}))
  PROVE  SumOver(S, h) = SumOver(S, f) + Cardinality(Hits(D, c, S))
<1> DEFINE In(s) == Hits(D, c, s)
<1>1. PICK g : Solution(g, f, S)
  BY SumIsSolved
<1>2. PICK e : Solution(e, h, S)
  BY SumIsSolved
<1>3. \A s : IsFiniteSet(In(s)) /\ Cardinality(In(s)) \in Nat
  <2>1. \A s : In(s) \in SUBSET D
    BY DEF Hits
  <2> QED
    BY <2>1, FS_Subset, FS_CardinalityType
<1> DEFINE T == {s \in SUBSET S : g[s] \in Nat /\ e[s] = g[s] + Cardinality(In(s))}
<1>4. {} \in T
  <2>1. In({}) = {}
    BY DEF Hits
  <2>2. Cardinality(In({})) = 0
    BY <2>1, FS_EmptySet, Zenon
  <2>3. g[{}] = 0 /\ e[{}] = 0
    BY <1>1, <1>2 DEF Solution
  <2> HIDE DEF In
  <2> QED
    BY <2>2, <2>3
<1>5. ASSUME NEW s \in SUBSET S, s # {}, s \ {Pick(s)} \in T
      PROVE  s \in T
  <2> DEFINE x == Pick(s)
             r == s \ {Pick(s)}
  <2>1. x \in s /\ x \in S /\ f[x] \in Nat
    BY <1>5 DEF Pick
  <2>2. In(s) = In(r) \cup In({x}) /\ In(r) \cap In({x}) = {}
    BY <2>1 DEF Hits
  <2>3. Cardinality(In(s)) = Cardinality(In(r)) + Cardinality(In({x}))
    <3>1. Cardinality(In(r) \cup In({x})) =
            Cardinality(In(r)) + Cardinality(In({x})) - Cardinality(In(r) \cap In({x}))
      BY <1>3, FS_Union, Zenon
    <3>2. Cardinality(In(r) \cap In({x})) = 0
      BY <2>2, FS_EmptySet, Zenon
    <3> HIDE DEF In, x, r
    <3> QED
      BY <1>3, <2>2, <3>1, <3>2
  <2>4. h[x] = f[x] + Cardinality(In({x}))
    BY <2>1
  <2>5. g[s] = f[x] + g[r] /\ e[s] = h[x] + e[r] /\ g[r] \in Nat /\ e[r] = g[r] + Cardinality(In(r))
    BY <1>1, <1>2, <1>5 DEF Solution
  <2>6. g[s] \in Nat /\ e[s] = g[s] + Cardinality(In(s))
    <3> HIDE DEF In, x, r
    <3> QED
      BY <1>3, <2>1, <2>3, <2>4, <2>5
  <2> QED
    BY <2>6
<1>6. SUBSET S \subseteq T
  <2> HIDE DEF T
  <2> QED
    BY <1>4, <1>5, SubsetInduction
<1> QED
  BY <1>1, <1>2, <1>6 DEF Solution

LEMMA SumAddsOne ==
  ASSUME NEW S, IsFiniteSet(S), NEW x \in S, NEW f, NEW h,
         \A y \in S : f[y] \in Nat /\ h[y] = IF y = x THEN f[y] + 1 ELSE f[y]
  PROVE  SumOver(S, h) = SumOver(S, f) + 1
<1> DEFINE c == [i \in {x} |-> x]
<1>1. ASSUME NEW y \in S
      PROVE  f[y] \in Nat /\ h[y] = f[y] + Cardinality(Hits({x}, c, {y}))
  <2>1. CASE y = x
    <3>1. Hits({x}, c, {y}) = {x}
      BY <2>1 DEF Hits
    <3> QED
      BY <2>1, <3>1, FS_Singleton
  <2>2. CASE y # x
    <3>1. Hits({x}, c, {y}) = {}
      BY <2>2 DEF Hits
    <3>2. Cardinality(Hits({x}, c, {y})) = 0
      BY <3>1, FS_EmptySet, Zenon
    <3> QED
      BY <2>2, <3>2
  <2> QED
    BY <2>1, <2>2
<1>2. Hits({x}, c, S) = {x}
  BY DEF Hits
<1>3. SumOver(S, h) = SumOver(S, f) + Cardinality(Hits({x}, c, S))
  <2> HIDE DEF c
  <2>1. IsFiniteSet({x})
    BY FS_Singleton
  <2> QED
    BY <1>1, <2>1, SumCounts
<1> QED
  BY <1>2, <1>3, FS_Singleton

-----------------------------------------------------------------------------
(* The books *)

LEMMA Finite ==
  /\ IsFiniteSet(Class) /\ IsFiniteSet(Reason) /\ IsFiniteSet(Attributable)
  /\ IsFiniteSet(1 .. Len(TimeBuckets))
<1>0. ASSUME NEW a \in Int, NEW b \in Int PROVE IsFiniteSet(a .. b)
  BY FS_Interval
<1>1. IsFiniteSet(0 .. 5) /\ IsFiniteSet(502 .. 504) /\ IsFiniteSet(1 .. 11)
  <2>1. 0 \in Int /\ 5 \in Int /\ 502 \in Int /\ 504 \in Int /\ 1 \in Int /\ 11 \in Int
    OBVIOUS
  <2> QED
    BY <1>0, <2>1, Zenon
<1>2. IsFiniteSet(502 .. 504 \cup {0})
  BY <1>1, FS_AddElement
<1>3. IsFiniteSet({"no_host"} \cup {"parse_fail"})
  BY FS_Singleton, FS_AddElement
<1>4. Reason = 502 .. 504 \cup {0} /\ Attributable = {"no_host"} \cup {"parse_fail"}
  BY DEF Reason, NextUpstream, Attributable
<1>5. Len(TimeBuckets) = 11
  BY DEF TimeBuckets
<1> QED
  BY <1>1, <1>2, <1>3, <1>4, <1>5 DEF Class

(* Every time has its bucket. *)
LEMMA BucketOfTime ==
  ASSUME NEW t \in Nat
  PROVE  bucketIndex(t) \in Bucket
<1>1. Len(TimeBuckets) = 11 /\ \A i \in 1 .. 11 : TimeBuckets[i] \in Nat
  BY DEF TimeBuckets
<1> DEFINE Holds(b) == /\ b = Len(TimeBuckets) + 1 \/ t <= TimeBuckets[b]
                       /\ \A c \in 1 .. b - 1 : t > TimeBuckets[c]
           T == {m \in Nat : m <= 11 => \/ \A c \in 1 .. m : t > TimeBuckets[c]
                                         \/ \E b \in Bucket : Holds(b)}
<1>2. 0 \in T
  OBVIOUS
<1>3. ASSUME NEW m \in Nat, m \in T PROVE m + 1 \in T
  <2> SUFFICES ASSUME m + 1 <= 11, \A c \in 1 .. m : t > TimeBuckets[c]
               PROVE  \/ \A c \in 1 .. m + 1 : t > TimeBuckets[c]
                      \/ \E b \in Bucket : Holds(b)
    BY <1>3
  <2>1. CASE t <= TimeBuckets[m + 1]
    <3>1. m + 1 \in Bucket /\ Holds(m + 1)
      BY <1>1, <2>1 DEF Bucket
    <3> QED
      BY <3>1, Zenon
  <2>2. CASE t > TimeBuckets[m + 1]
    BY <2>2
  <2>3. TimeBuckets[m + 1] \in Nat
    BY <1>1
  <2> QED
    BY <2>1, <2>2, <2>3
<1>4. 11 \in T
  <2> HIDE DEF T
  <2> QED
    BY <1>2, <1>3, NatSetInduction
<1>5. \E b \in Bucket : Holds(b)
  <2>1. CASE \A c \in 1 .. 11 : t > TimeBuckets[c]
    <3>1. 12 \in Bucket /\ Holds(12)
      BY <1>1, <2>1 DEF Bucket
    <3> QED
      BY <3>1, Zenon
  <2> QED
    BY <1>4, <2>1
<1> QED
  BY <1>5 DEF bucketIndex

(* An attempt adds to the failures or makes a success the last word. *)
LEMMA FailuresStep ==
  ASSUME TypeInv, ClockBounds, NEW k \in Key, FailuresAccountedFor(k),
         NEW l \in Lines, IngestLine(l)
  PROVE  FailuresAccountedFor(k)'
<1> DEFINE vh == capVhost(l.host)
           On == AttemptsOn(l, vh, k)
           c  == [i \in On |-> Outcome(l, i)]
           Bad == Hits(On, c, Reason)
           F == SumOver(Reason, UpstreamFailures[k])
           F2 == SumOver(Reason, UpstreamFailures'[k])
<1>1. /\ l \in Line /\ CountAttempts(l, vh) /\ StampAttempts(l, vh) /\ stamp # 0
  BY IngestLineFacts
<1>2. IsFiniteSet(On) /\ IsFiniteSet(Bad) /\ Cardinality(On) \in Nat /\ Cardinality(Bad) \in Nat
  <2>1. On \in SUBSET On /\ Bad \in SUBSET On
    BY DEF Hits
  <2> QED
    BY <1>1, <2>1, AttemptsFinite
<1>3. F2 = F + Cardinality(Bad) /\ F \in Nat
  <2>1. ASSUME NEW r \in Reason
        PROVE  /\ UpstreamFailures[k][r] \in Nat
               /\ UpstreamFailures'[k][r] = UpstreamFailures[k][r] + Cardinality(Hits(On, c, {r}))
    <3>1. Hits(On, c, {r}) = WithOutcome(l, vh, k, r)
      BY DEF Hits, WithOutcome
    <3> QED
      BY <1>1, <3>1 DEF CountAttempts, TypeInv
  <2>2. F \in Nat
    BY <2>1, SumNat, Finite
  <2> HIDE DEF On, c
  <2>3. F2 = F + Cardinality(Bad)
    BY <1>2, <2>1, SumCounts, Finite
  <2> QED
    BY <2>2, <2>3
<1>4. /\ UpstreamRequests'[k] = UpstreamRequests[k] + Cardinality(On)
      /\ UpstreamRequests[k] \in Nat
  BY <1>1 DEF CountAttempts, TypeInv
<1>5. UpstreamLastOK'[k] = 0 <=> UpstreamLastOK[k] = 0 /\ Bad = On
  <2>1. UpstreamLastOK'[k] = IF \E i \in On : ~Failed(l, i) THEN stamp ELSE UpstreamLastOK[k]
    BY <1>1 DEF StampAttempts
  <2>2. \A i \in On : c[i] \in Reason <=> Failed(l, i)
    <3>1. l.status \in Int
      BY <1>1 DEF Line
    <3>2. ASSUME NEW i PROVE Outcome(l, i) \in Reason <=> Outcome(l, i) # Success
      BY <3>1 DEF Outcome, Reason, NextUpstream, Success
    <3> QED
      BY <3>2 DEF Failed
  <2> QED
    BY <1>1, <2>1, <2>2 DEF Hits
<1>6. Cardinality(Bad) <= Cardinality(On) /\ (Cardinality(Bad) = Cardinality(On) <=> Bad = On)
  BY <1>2, FS_Subset DEF Hits
<1>7. F <= UpstreamRequests[k] /\ (F = UpstreamRequests[k] <=> UpstreamLastOK[k] = 0)
  BY DEF FailuresAccountedFor
<1>8. /\ F2 <= UpstreamRequests'[k]
      /\ F2 = UpstreamRequests'[k] <=> UpstreamLastOK'[k] = 0
  <2> HIDE DEF F, F2, On, Bad, vh, c
  <2> QED
    BY <1>2, <1>3, <1>4, <1>5, <1>6, <1>7
<1> QED
  BY <1>8 DEF FailuresAccountedFor

(* An observation adds to one bucket and to the count. *)
LEMMA HistogramStep ==
  ASSUME TypeInv, NEW k \in Key, HistogramAddsUp(k), NEW l \in Lines, IngestLine(l)
  PROVE  HistogramAddsUp(k)'
<1> DEFINE vh == capVhost(l.host)
           On == AttemptsOn(l, vh, k)
           Ob == Observed(l, vh, k)
           c  == [i \in Ob |-> bucketIndex(l.upstreamTime[i])]
           n  == Len(TimeBuckets)
           Below == Hits(Ob, c, 1 .. n)
           Above == Hits(Ob, c, {n + 1})
           H  == SumOver(1 .. n, UpstreamTimeHist[k])
           H2 == SumOver(1 .. n, UpstreamTimeHist'[k])
<1>1. /\ l \in Line /\ CountAttempts(l, vh)
  BY IngestLineFacts
<1>2. /\ IsFiniteSet(On) /\ IsFiniteSet(Ob) /\ IsFiniteSet(Below) /\ IsFiniteSet(Above)
      /\ Cardinality(On) \in Nat /\ Cardinality(Ob) \in Nat
      /\ Cardinality(Below) \in Nat /\ Cardinality(Above) \in Nat
  <2>1. On \in SUBSET On /\ Ob \in SUBSET On /\ Below \in SUBSET On /\ Above \in SUBSET On
    BY DEF Hits, Observed
  <2> QED
    BY <1>1, <2>1, AttemptsFinite
<1>3. n \in Nat /\ Bucket = 1 .. n + 1
  BY DEF TimeBuckets, Bucket
<1>4. ASSUME NEW b \in Bucket
      PROVE  UpstreamTimeHist'[k][b] = UpstreamTimeHist[k][b] + Cardinality(Hits(Ob, c, {b}))
  <2>1. Hits(Ob, c, {b}) = InBucket(l, vh, k, b)
    BY DEF Hits, InBucket
  <2> QED
    BY <1>1, <2>1 DEF CountAttempts
<1>5. H2 = H + Cardinality(Below) /\ H \in Nat
  <2> HIDE DEF Ob, c, n
  <2>1. \A b \in 1 .. n : /\ UpstreamTimeHist[k][b] \in Nat
                          /\ UpstreamTimeHist'[k][b] = UpstreamTimeHist[k][b]
                               + Cardinality(Hits(Ob, c, {b}))
    <3>1. \A b \in 1 .. n : b \in Bucket
      BY <1>3
    <3>2. \A b \in Bucket : UpstreamTimeHist[k][b] \in Nat
      BY DEF TypeInv
    <3> QED
      BY <1>4, <3>1, <3>2, Zenon
  <2>2. IsFiniteSet(1 .. n)
    BY Finite DEF n
  <2>3. H \in Nat
    BY <2>1, <2>2, SumNat
  <2>4. H2 = H + Cardinality(Below)
    BY <1>2, <2>1, <2>2, SumCounts
  <2> QED
    BY <2>3, <2>4
<1>6. /\ UpstreamTimeHist'[k][n + 1] = UpstreamTimeHist[k][n + 1] + Cardinality(Above)
      /\ UpstreamTimeHist[k][n + 1] \in Nat
  <2>1. n + 1 \in Bucket
    BY <1>3
  <2> HIDE DEF Ob, c, n
  <2> QED
    BY <2>1, <1>4 DEF TypeInv
<1>7. /\ UpstreamTimeCount'[k] = UpstreamTimeCount[k] + Cardinality(Ob)
      /\ UpstreamRequests'[k] = UpstreamRequests[k] + Cardinality(On)
      /\ UpstreamTimeCount[k] \in Nat /\ UpstreamRequests[k] \in Nat
  BY <1>1 DEF CountAttempts, TypeInv
<1>8. /\ Cardinality(Ob) = Cardinality(Below) + Cardinality(Above)
      /\ Cardinality(Ob) <= Cardinality(On)
  <2>1. \A i \in Ob : c[i] \in Bucket
    <3>1. l.upstreamTime \in Seq(Int)
      BY <1>1 DEF Line
    <3>2. \A i \in Ob : l.upstreamTime[i] \in Nat
      BY <3>1 DEF Observed, Timed
    <3> QED
      BY <3>2, BucketOfTime
  <2>2. Ob = Below \cup Above /\ Below \cap Above = {} /\ Ob \subseteq On
    BY <1>3, <2>1 DEF Hits, Observed
  <2> HIDE DEF Ob, On, Below, Above
  <2>3. Cardinality(Below \cup Above) =
          Cardinality(Below) + Cardinality(Above) - Cardinality(Below \cap Above)
    BY <1>2, FS_Union
  <2>4. Cardinality(Below \cap Above) = 0
    BY <2>2, FS_EmptySet
  <2> QED
    BY <1>2, <2>2, <2>3, <2>4, FS_Subset
<1>9. Cumulative(k)[n] = H /\ Cumulative(k)'[n] = H2
  <2>1. n \in DOMAIN TimeBuckets
    BY DEF TimeBuckets
  <2> QED
    BY <2>1 DEF Cumulative
<1>10. /\ H + UpstreamTimeHist[k][n + 1] = UpstreamTimeCount[k]
       /\ UpstreamTimeCount[k] <= UpstreamRequests[k]
  BY <1>9 DEF HistogramAddsUp
<1>11. /\ H2 + UpstreamTimeHist'[k][n + 1] = UpstreamTimeCount'[k]
       /\ UpstreamTimeCount'[k] <= UpstreamRequests'[k]
  <2> HIDE DEF H, H2, n, On, Ob, Below, Above, c, vh
  <2> QED
    BY <1>2, <1>5, <1>6, <1>7, <1>8, <1>10
<1> QED
  BY <1>9, <1>11 DEF HistogramAddsUp

LEMMA ClassAddsOne ==
  \A cl \in Class : \A f, h :
    (\A c \in Class : f[c] \in Nat /\ h[c] = IF c = cl THEN f[c] + 1 ELSE f[c])
      => SumOver(Class, h) = SumOver(Class, f) + 1
  BY SumAddsOne, Finite

LEMMA ClassesAddOne ==
  ASSUME TypeInv, NEW vh \in Vhost, NEW cl \in Class,
         Requests' = [Requests EXCEPT ![vh][cl] = @ + 1]
  PROVE  SumOver(Class, Requests'[vh]) = SumOver(Class, Requests[vh]) + 1
<1>1. \A c \in Class : /\ Requests[vh][c] \in Nat
                       /\ Requests'[vh][c] = IF c = cl THEN Requests[vh][c] + 1
                                             ELSE Requests[vh][c]
  BY DEF TypeInv
<1> QED
  BY <1>1, ClassAddsOne

(* A line is counted once: under one vhost and class, or as unattributed.  *)
LEMMA LinesStep ==
  ASSUME TypeInv, LinesCounted, NEW l \in Lines, Ingest(l)
  PROVE  LinesCounted'
<1> DEFINE R  == [v \in Vhost |-> SumOver(Class, Requests[v])]
           R2 == [v \in Vhost |-> SumOver(Class, Requests'[v])]
           U  == SumOver(Attributable, Unattributed)
           U2 == SumOver(Attributable, Unattributed')
<1>1. ingested = SumOver(Vhost, R) + U /\ ingested' = ingested + 1
  BY DEF LinesCounted, Ingest, IngestParseFail, IngestNoHost, IngestLine, IngestAt
<1>2. \A v \in Vhost : R[v] \in Nat
  <2>1. \A v \in Vhost : \A c \in Class : Requests[v][c] \in Nat
    BY DEF TypeInv
  <2> QED
    BY <2>1, SumNat, Finite
<1>3. SumOver(Vhost, R) \in Nat /\ U \in Nat
  <2>1. \A a \in Attributable : Unattributed[a] \in Nat
    BY DEF TypeInv
  <2> HIDE DEF R
  <2> QED
    BY <1>2, <2>1, SumNat, VhostFinite, Finite
<1>4. ASSUME IngestParseFail(l) \/ IngestNoHost(l)
      PROVE  U2 = U + 1 /\ R2 = R
  <2>1. PICK a \in Attributable : Unattributed' = [Unattributed EXCEPT ![a] = @ + 1]
    BY <1>4 DEF IngestParseFail, IngestNoHost, Attributable
  <2>2. \A b \in Attributable : /\ Unattributed[b] \in Nat
                                /\ Unattributed'[b] = IF b = a THEN Unattributed[b] + 1
                                                      ELSE Unattributed[b]
    BY <2>1 DEF TypeInv
  <2>3. U2 = U + 1
    BY <2>2, SumAddsOne, Finite
  <2> QED
    BY <1>4, <2>3 DEF IngestParseFail, IngestNoHost, counters
<1>5. ASSUME IngestLine(l)
      PROVE  SumOver(Vhost, R2) = SumOver(Vhost, R) + 1 /\ U2 = U
  <2> DEFINE vh == capVhost(l.host)
             cl == statusClass(l.status)
  <2>1. vh \in Vhost /\ cl \in Class /\ Requests' = [Requests EXCEPT ![vh][cl] = @ + 1]
    <3>1. l \in Line /\ vh \in Vhost
      BY <1>5, IngestLineFacts
    <3> QED
      BY <1>5, <3>1, StatusClassType DEF IngestLine, CountVhost, Line
  <2> HIDE DEF vh, cl
  <2>2. ASSUME NEW v \in Vhost, v # vh PROVE R2[v] = R[v]
    BY <2>1, <2>2 DEF TypeInv
  <2>3. R2[vh] = R[vh] + 1
    BY <2>1, ClassesAddOne
  <2>4. \A v \in Vhost : R[v] \in Nat /\ R2[v] = IF v = vh THEN R[v] + 1 ELSE R[v]
    BY <1>2, <2>2, <2>3
  <2>5. SumOver(Vhost, R2) = SumOver(Vhost, R) + 1
    <3> HIDE DEF R, R2
    <3> QED
      BY <2>1, <2>4, SumAddsOne, VhostFinite
  <2>6. U2 = U
    BY <1>5 DEF IngestLine
  <2> QED
    BY <2>5, <2>6
<1>6. ingested' = SumOver(Vhost, R2) + U2
  <2> HIDE DEF R, R2, U, U2
  <2> QED
    BY <1>1, <1>3, <1>4, <1>5 DEF Ingest
<1> QED
  BY <1>6 DEF LinesCounted

(* The books of a process that has just started. *)
NewBooks ==
  /\ Requests = [v \in Vhost |-> Zero(Class)] /\ Unattributed = Zero(Attributable)
  /\ ingested = 0 /\ UpstreamRequests = Zero(Key) /\ UpstreamTimeCount = Zero(Key)
  /\ UpstreamFailures = [k \in Key |-> Zero(Reason)]
  /\ UpstreamTimeHist = [k \in Key |-> Zero(Bucket)] /\ UpstreamLastOK = Zero(Key)

LEMMA NewBooksBalance == NewBooks => BooksBalance
<1> SUFFICES ASSUME NewBooks PROVE BooksBalance
  OBVIOUS
<1> USE DEF NewBooks
<1>1. LinesCounted
  <2>1. \A v \in Vhost : SumOver(Class, Requests[v]) = 0
    BY SumZero, Finite DEF Zero
  <2>2. SumOver(Vhost, [v \in Vhost |-> SumOver(Class, Requests[v])]) = 0
    BY <2>1, SumZero, VhostFinite
  <2>3. SumOver(Attributable, Unattributed) = 0
    BY SumZero, Finite DEF Zero
  <2> QED
    BY <2>2, <2>3 DEF LinesCounted
<1>2. ASSUME NEW k \in Key PROVE FailuresAccountedFor(k)
  <2>1. SumOver(Reason, UpstreamFailures[k]) = 0
    BY SumZero, Finite DEF Zero
  <2> QED
    BY <2>1 DEF FailuresAccountedFor, Zero
<1>3. ASSUME NEW k \in Key PROVE HistogramAddsUp(k)
  <2>1. \A b \in Bucket : UpstreamTimeHist[k][b] = 0
    BY DEF Zero
  <2>2. Len(TimeBuckets) \in DOMAIN TimeBuckets /\ Len(TimeBuckets) = 11 /\ Bucket = 1 .. 12
    BY DEF TimeBuckets, Bucket
  <2>3. \A b \in 1 .. Len(TimeBuckets) : UpstreamTimeHist[k][b] = 0
    BY <2>1, <2>2
  <2>4. SumOver(1 .. Len(TimeBuckets), UpstreamTimeHist[k]) = 0
    BY <2>3, SumZero, Finite
  <2>5. Cumulative(k)[Len(TimeBuckets)] = 0
    BY <2>2, <2>4 DEF Cumulative
  <2> QED
    BY <2>1, <2>2, <2>5 DEF HistogramAddsUp, Zero
<1> QED
  BY <1>1, <1>2, <1>3 DEF BooksBalance

LEMMA BooksKept ==
  ASSUME BooksBalance, UNCHANGED <<counters, Unattributed, ingested, UpstreamLastOK>>
  PROVE  BooksBalance'
  BY DEF BooksBalance, LinesCounted, FailuresAccountedFor, HistogramAddsUp, Cumulative, counters

LEMMA BooksStep ==
  ASSUME TypeInv, ClockBounds, BooksBalance, [Next]_vars
  PROVE  BooksBalance'
<1>1. ASSUME NEW l \in Lines, IngestParseFail(l) \/ IngestNoHost(l) PROVE BooksBalance'
  <2>1. LinesCounted'
    BY <1>1, LinesStep DEF BooksBalance, Ingest
  <2>2. UNCHANGED <<counters, verdicts>>
    BY <1>1 DEF IngestParseFail, IngestNoHost
  <2>3. \A k \in Key : FailuresAccountedFor(k)' /\ HistogramAddsUp(k)'
    BY <2>2 DEF BooksBalance, FailuresAccountedFor, HistogramAddsUp, Cumulative, counters, verdicts
  <2> QED
    BY <2>1, <2>3 DEF BooksBalance
<1>2. ASSUME NEW l \in Lines, IngestLine(l) PROVE BooksBalance'
  <2>1. LinesCounted'
    BY <1>2, LinesStep DEF BooksBalance, Ingest
  <2>2. \A k \in Key : FailuresAccountedFor(k)' /\ HistogramAddsUp(k)'
    BY <1>2, FailuresStep, HistogramStep DEF BooksBalance
  <2> QED
    BY <2>1, <2>2 DEF BooksBalance
<1>3. CASE Tick \/ ReadTime \/ SaveState
  BY <1>3, BooksKept DEF Tick, ReadTime, SaveState, verdicts
<1>4. ASSUME NEW s \in Seeds, NEW t \in 2 .. now, Seed(s[1], s[2], t) PROVE BooksBalance'
  BY <1>4, BooksKept DEF Seed, verdicts
<1>5. ASSUME NEW valid \in SUBSET SeedKeys, PruneSeeds(valid) PROVE BooksBalance'
  BY <1>5, BooksKept DEF PruneSeeds, verdicts
<1>6. ASSUME NEW st \in {saved, NoState}, Restart(st) PROVE BooksBalance'
  <2>1. NewBooks'
    BY <1>6 DEF Restart, NewBooks
  <2>2. NewBooks' => BooksBalance'
    BY NewBooksBalance, PTL
  <2> QED
    BY <2>1, <2>2
<1>7. CASE UNCHANGED vars
  BY <1>7, BooksKept DEF vars, verdicts
<1> QED
  BY <1>1, <1>2, <1>3, <1>4, <1>5, <1>6, <1>7 DEF Next, Ingest

(* The counters agree with one another, for any lines, hosts and members   *)
(* (Ingest; Collect's histogram).                                          *)
THEOREM BooksCorrect == Spec => []BooksBalance
<1>1. Init => BooksBalance
  BY NewBooksBalance DEF Init, NewStats, NewBooks
<1>2. IInv /\ BooksBalance /\ [Next]_vars => BooksBalance'
  BY BooksStep DEF IInv
<1> QED
  BY <1>1, <1>2, IInvAlways, PTL DEF Spec

-----------------------------------------------------------------------------
(* The goroutines of main.go *)

IdleInv == TypeInv /\ ClockBounds /\ IdleTypeInv /\ SweepKeepsSeeded

-----------------------------------------------------------------------------
(* Facts about the helpers *)

LEMMA ResolveCases ==
  ASSUME IdleTypeInv, NEW addr
  PROVE  Resolve(addr) = addr \/ (addr \in Name /\ Resolve(addr) = Dns[addr])
  BY DEF Resolve, IdleTypeInv

LEMMA SeedKeysInKey == SeedKeys \subseteq Key
<1> SUFFICES ASSUME NEW k \in SeedKeys PROVE k \in Key
  OBVIOUS
<1>1. k \in Seeds /\ k[2] # NoAddr
  BY DEF SeedKeys
<1>2. k = <<k[1], k[2]>>
  BY <1>1, ConstantsAssumption
<1> QED
  BY <1>1, <1>2, SeedsInKey

(* A pair the seeder visits, resolved by the current cache, is one of the  *)
(* seeds, and so is in the set that PruneSeeds may be given.               *)
LEMMA ResolvedInSeeds ==
  ASSUME IdleTypeInv, NEW p \in ConfiguredPairs
  PROVE  /\ p \in Seeds
         /\ <<p[1], Resolve(p[2])>> \in Seeds
         /\ p[2] # NoAddr => /\ Resolve(p[2]) # NoAddr
                             /\ <<p[1], Resolve(p[2])>> \in SeedKeys
<1>1. p \in Seeds
  BY SeedsCoverPairs
<1>2. p = <<p[1], p[2]>>
  BY <1>1, ConstantsAssumption
<1>3. p[2] \in Name => Dns[p[2]] \in Addr /\ <<p[1], Dns[p[2]]>> \in Seeds
  BY SeedsCoverPairs, IdleConstants DEF Literal
<1>4. Resolve(p[2]) = p[2] \/ (p[2] \in Name /\ Resolve(p[2]) = Dns[p[2]])
  BY ResolveCases
<1>5. <<p[1], Resolve(p[2])>> \in Seeds
  BY <1>1, <1>2, <1>3, <1>4
<1>6. p[2] # NoAddr => Resolve(p[2]) # NoAddr
  BY <1>3, <1>4, ConstantsAssumption
<1> QED
  BY <1>1, <1>5, <1>6 DEF SeedKeys

LEMMA PairsConfigured ==
  ASSUME NEW c \in Topologies
  PROVE  Pairs(c) \subseteq ConfiguredPairs
  BY DEF ConfiguredPairs

-----------------------------------------------------------------------------
(* Every step is a step of IngressStats or leaves Stats alone *)

LEMMA StepSimulation ==
  ASSUME IdleTypeInv, [IdleNext]_idleVars
  PROVE  [Next]_vars
<1>1. CASE Deploy \/ Refresh \/ StartLookups \/ SweepStart
           \/ \E n \in Name : LookupOK(n) \/ LookupFails(n)
  BY <1>1 DEF Deploy, Refresh, StartLookups, SweepStart, LookupOK, LookupFails
<1>2. CASE SweepPrune
  <2>1. sweep.valid \in SUBSET SeedKeys /\ PruneSeeds(sweep.valid)
    BY <1>2 DEF SweepPrune, IdleTypeInv
  <2> QED
    BY <2>1 DEF Next
<1>3. ASSUME NEW p \in sweep.todo, SweepVhost(p) PROVE Next
  <2>1. p \in ConfiguredPairs /\ sweep.start \in 2 .. now
    BY <1>3 DEF SweepVhost, IdleTypeInv
  <2>2. p \in Seeds /\ Seed(p[1], p[2], sweep.start)
    BY <1>3, <2>1, ResolvedInSeeds DEF SweepVhost
  <2> QED
    BY <2>1, <2>2 DEF Next
<1>4. ASSUME NEW p \in sweep.todo, SweepBackend(p) PROVE Next
  <2> DEFINE s == <<p[1], Resolve(p[2])>>
  <2>1. p \in ConfiguredPairs /\ sweep.start \in 2 .. now
    BY <1>4 DEF SweepBackend, IdleTypeInv
  <2>2. s \in Seeds /\ Seed(s[1], s[2], sweep.start)
    BY <1>4, <2>1, ResolvedInSeeds DEF SweepBackend
  <2> HIDE DEF s
  <2> QED
    BY <2>1, <2>2 DEF Next
<1>5. CASE \E l \in Lines : Traffic(l)
  BY <1>5 DEF Traffic, Next
<1>6. CASE TimePasses \/ LineRead \/ Save
  BY <1>6 DEF TimePasses, LineRead, Save, Next
<1>7. CASE \E st \in {saved, NoState} : Reboot(st)
  BY <1>7 DEF Reboot, Next
<1>8. CASE UNCHANGED idleVars
  BY <1>8 DEF idleVars
<1> QED
  BY <1>1, <1>2, <1>3, <1>4, <1>5, <1>6, <1>7, <1>8 DEF IdleNext

-----------------------------------------------------------------------------
(* The invariant of the composition *)

LEMMA IdleInvInit == IdleInit => IdleInv
<1> SUFFICES ASSUME IdleInit PROVE IdleInv
  OBVIOUS
<1>1. TypeInv /\ ClockBounds
  BY IInvInit DEF IdleInit, IInv
<1>2. sweep = Idle /\ byHost = NoLookup /\ lookups = {} /\ served = {}
  BY DEF IdleInit
<1>3. loaded \in [Key -> Nat]
  BY DEF IdleInit, NoState
<1>4. IdleTypeInv
  BY <1>2, <1>3 DEF IdleInit, IdleTypeInv, Idle, NoLookup
<1>5. SweepKeepsSeeded
  BY <1>2 DEF SweepKeepsSeeded, Idle
<1> QED
  BY <1>1, <1>4, <1>5 DEF IdleInv

(* The added variables in the steps that leave Stats alone. *)
LEMMA IdleTypeStep ==
  ASSUME IdleInv, [IdleNext]_idleVars, TypeInv'
  PROVE  IdleTypeInv'
<1> USE DEF IdleInv, IdleTypeInv, background, history
<1>1. CASE Deploy
  BY <1>1 DEF Deploy, vars
<1>2. CASE Refresh
  BY <1>2 DEF Refresh, vars
<1>3. CASE StartLookups
  BY <1>3 DEF StartLookups, vars
<1>4. ASSUME NEW n \in Name, LookupOK(n) \/ LookupFails(n) PROVE IdleTypeInv'
  BY <1>4 DEF LookupOK, LookupFails, vars
<1>5. CASE SweepStart
  <2>1. cfg \in Topologies /\ now' = now /\ now \in Nat /\ now >= 2
    BY <1>5 DEF SweepStart, vars, TypeInv, ClockBounds
  <2>2. Pairs(cfg) \subseteq ConfiguredPairs
    BY <2>1, PairsConfigured
  <2> QED
    BY <1>5, <2>1, <2>2 DEF SweepStart
<1>6. CASE SweepPrune
  BY <1>6 DEF SweepPrune, Idle
<1>7. ASSUME NEW p \in sweep.todo, SweepVhost(p) PROVE IdleTypeInv'
  BY <1>7 DEF SweepVhost, Seed
<1>8. ASSUME NEW p \in sweep.todo, SweepBackend(p) PROVE IdleTypeInv'
  <2>1. <<p[1], Resolve(p[2])>> \in SeedKeys
    BY <1>8, ResolvedInSeeds DEF SweepBackend
  <2> QED
    BY <1>8, <2>1 DEF SweepBackend, Seed
<1>9. ASSUME NEW l \in Lines, Traffic(l) PROVE IdleTypeInv'
  <2>1. now' = now
    BY <1>9 DEF Traffic, Ingest, IngestParseFail, IngestNoHost, IngestLine, IngestAt
  <2>2. served' \subseteq Key
    BY <1>9 DEF Traffic
  <2> QED
    BY <1>9, <2>1, <2>2 DEF Traffic
<1>10. CASE TimePasses \/ LineRead
  BY <1>10 DEF TimePasses, LineRead, Tick, ReadTime, TypeInv
<1>11. CASE Save
  BY <1>11 DEF Save, SaveState
<1>12. ASSUME NEW st \in {saved, NoState}, Reboot(st) PROVE IdleTypeInv'
  <2>1. loaded' \in [Key -> Nat]
    BY <1>12 DEF Reboot, TypeInv
  <2> QED
    BY <1>12, <2>1 DEF Reboot, Idle, NoLookup
<1>13. CASE UNCHANGED idleVars
  BY <1>13 DEF idleVars, vars
<1> QED
  BY <1>1, <1>2, <1>3, <1>4, <1>5, <1>6, <1>7, <1>8, <1>9, <1>10, <1>11, <1>12, <1>13
  DEF IdleNext

(* A clock other than 0 goes only by a prune or a restart. *)
LEMMA ClocksStay ==
  ASSUME TypeInv, ClockBounds, [Next]_vars, life' = life,
         \A valid : ~PruneSeeds(valid), NEW k \in Key, UpstreamLastSeen[k] # 0
  PROVE  UpstreamLastSeen'[k] # 0
<1>1. ASSUME NEW l \in Lines, Ingest(l) PROVE UpstreamLastSeen'[k] # 0
  <2>1. CASE IngestParseFail(l) \/ IngestNoHost(l)
    BY <2>1 DEF IngestParseFail, IngestNoHost, clocks
  <2>2. CASE IngestLine(l)
    <3>1. stamp # 0 /\ StampAttempts(l, capVhost(l.host))
      BY <2>2, IngestLineFacts
    <3>2. UpstreamLastSeen'[k] \in {stamp, UpstreamLastSeen[k]}
      BY <3>1 DEF StampAttempts
    <3> QED
      BY <3>1, <3>2
  <2> QED
    BY <1>1, <2>1, <2>2 DEF Ingest
<1>2. ASSUME NEW s \in Seeds, NEW t \in 2 .. now, Seed(s[1], s[2], t)
      PROVE  UpstreamLastSeen'[k] # 0
  BY <1>2 DEF Seed, SeedUpstream, TypeInv
<1>3. CASE Tick \/ ReadTime \/ SaveState \/ UNCHANGED vars
  BY <1>3 DEF Tick, ReadTime, SaveState, clocks, vars
<1>4. ASSUME NEW st \in {saved, NoState}, Restart(st) PROVE FALSE
  BY <1>4 DEF Restart, TypeInv
<1> QED
  BY <1>1, <1>2, <1>3, <1>4 DEF Next

LEMMA SweepKeepsStep ==
  ASSUME IdleInv, [IdleNext]_idleVars, TypeInv'
  PROVE  SweepKeepsSeeded'
<1> USE DEF IdleInv, IdleTypeInv, background, history
<1>1. CASE Deploy \/ Refresh \/ StartLookups \/ \E n \in Name : LookupOK(n) \/ LookupFails(n)
  BY <1>1 DEF Deploy, Refresh, StartLookups, LookupOK, LookupFails, vars, clocks, SweepKeepsSeeded
<1>2. CASE SweepStart
  BY <1>2 DEF SweepStart, SweepKeepsSeeded
<1>3. CASE SweepPrune \/ \E st \in {saved, NoState} : Reboot(st)
  BY <1>3 DEF SweepPrune, Reboot, Idle, SweepKeepsSeeded
<1>4. ASSUME NEW p \in sweep.todo, SweepVhost(p) PROVE SweepKeepsSeeded'
  BY <1>4 DEF SweepVhost, Seed, SeedUpstream, SweepKeepsSeeded
<1>5. ASSUME NEW p \in sweep.todo, SweepBackend(p) PROVE SweepKeepsSeeded'
  <2> DEFINE s == <<p[1], Resolve(p[2])>>
  <2>1. s \in Key /\ s[2] # NoAddr /\ sweep.start \in 2 .. now
    BY <1>5, ResolvedInSeeds, SeedKeysInKey DEF SweepBackend
  <2>2. SeedUpstream(s[1], s[2], sweep.start) /\ sweep'.valid = sweep.valid \cup {s}
    BY <1>5 DEF SweepBackend, Seed
  <2> HIDE DEF s
  <2>3. s = <<s[1], s[2]>>
    BY <2>1 DEF Key
  <2>3a. /\ UpstreamLastSeen' = IF UpstreamLastSeen[s] = 0
                                THEN [UpstreamLastSeen EXCEPT ![s] = sweep.start]
                                ELSE UpstreamLastSeen
         /\ sweep.start # 0 /\ DOMAIN UpstreamLastSeen = Key
    <3>1. UpstreamLastSeen' = IF s[2] # NoAddr /\ UpstreamLastSeen[s] = 0
                              THEN [UpstreamLastSeen EXCEPT ![s] = sweep.start]
                              ELSE UpstreamLastSeen
      BY <2>2, <2>3 DEF SeedUpstream
    <3>2. sweep.start # 0 /\ DOMAIN UpstreamLastSeen = Key
      BY <2>1 DEF TypeInv
    <3> QED
      BY <2>1, <3>1, <3>2
  <2>4. UpstreamLastSeen'[s] # 0
    BY <2>1, <2>3a
  <2>5. \A k \in Key : UpstreamLastSeen[k] # 0 => UpstreamLastSeen'[k] # 0
    BY <2>1, <2>3a
  <2>6. sweep.at = "seeding" /\ sweep.valid \subseteq Key
    BY <1>5, SeedKeysInKey DEF SweepBackend
  <2> QED
    BY <2>2, <2>4, <2>5, <2>6 DEF SweepKeepsSeeded
<1>6. CASE (\E l \in Lines : Traffic(l)) \/ TimePasses \/ LineRead \/ Save
  <2>1. sweep' = sweep /\ life' = life /\ [Next]_vars
    BY <1>6, StepSimulation DEF Traffic, TimePasses, LineRead, Save, Ingest, IngestParseFail,
       IngestNoHost, IngestLine, IngestAt, Tick, ReadTime, SaveState
  <2>2. \A valid : ~PruneSeeds(valid) \/ UpstreamLastSeen' = UpstreamLastSeen
    BY <1>6 DEF Traffic, TimePasses, LineRead, Save, Ingest, IngestParseFail, IngestNoHost,
       IngestLine, IngestAt, Tick, ReadTime, SaveState, PruneSeeds, TypeInv, clocks
  <2>3. \A k \in Key : UpstreamLastSeen[k] # 0 => UpstreamLastSeen'[k] # 0
    BY <2>1, <2>2, ClocksStay
  <2>4. sweep.valid \subseteq Key
    BY SeedKeysInKey
  <2> QED
    BY <2>1, <2>3, <2>4 DEF SweepKeepsSeeded
<1>7. CASE UNCHANGED idleVars
  BY <1>7 DEF idleVars, vars, clocks, SweepKeepsSeeded
<1> QED
  BY <1>1, <1>2, <1>3, <1>4, <1>5, <1>6, <1>7 DEF IdleNext

LEMMA IdleInvStep == IdleInv /\ [IdleNext]_idleVars => IdleInv'
<1> SUFFICES ASSUME IdleInv, [IdleNext]_idleVars PROVE IdleInv'
  OBVIOUS
<1>1. [Next]_vars
  BY StepSimulation DEF IdleInv
<1>2. TypeInv' /\ ClockBounds'
  BY <1>1, TypeStep, ClockBoundsStep DEF IdleInv
<1> QED
  BY <1>2, IdleTypeStep, SweepKeepsStep DEF IdleInv

LEMMA IdleInvAlways == IdleSpec => []IdleInv
  BY IdleInvInit, IdleInvStep, PTL DEF IdleSpec

(* The goroutines of main.go, together, use Stats only as IngressStats     *)
(* allows: whatever is proved there holds of the running exporter.         *)
THEOREM IdleImplementsStats == IdleSpec => Spec
<1>1. IdleInit => Init
  BY DEF IdleInit
<1>2. IdleInv /\ [IdleNext]_idleVars => [Next]_vars
  BY StepSimulation DEF IdleInv
<1> QED
  BY <1>1, <1>2, IdleInvAlways, PTL DEF IdleSpec, Spec

(* The added variables keep their types in every interleaving. *)
THEOREM IdleTypeCorrect == IdleSpec => []IdleTypeInv
<1>1. IdleInv => IdleTypeInv
  BY DEF IdleInv
<1> QED
  BY <1>1, IdleInvAlways, PTL

(* When a sweep prunes, no identity it keeps is without its clock. *)
THEOREM SweepCorrect == IdleSpec => []SweepKeepsSeeded
<1>1. IdleInv => SweepKeepsSeeded
  BY DEF IdleInv
<1> QED
  BY <1>1, IdleInvAlways, PTL

-----------------------------------------------------------------------------
(* Idle clocks survive restarts when the members are literal addresses     *)

(* A loaded clock that saw no traffic stands, and a sweep under way has    *)
(* every always-literal member ahead of it or in its valid set.            *)
LiteralInv ==
  \A k \in Key : AlwaysLiteral(k) =>
    /\ KeptIfLoaded(k)
    /\ sweep.at = "seeding" => k \in sweep.valid \cup sweep.todo

(* A line that leaves a member's attempt counter at zero has no attempt on *)
(* it, so does not touch its clock.                                        *)
LEMMA QuietClockStays ==
  ASSUME TypeInv, NEW l \in Lines, Ingest(l), NEW k \in Key, UpstreamRequests'[k] = 0
  PROVE  UpstreamRequests[k] = 0 /\ UpstreamLastSeen'[k] = UpstreamLastSeen[k]
<1>1. CASE IngestParseFail(l) \/ IngestNoHost(l)
  BY <1>1 DEF IngestParseFail, IngestNoHost, counters, clocks
<1>2. CASE IngestLine(l)
  <2> DEFINE vh == capVhost(l.host)
             On == AttemptsOn(l, vh, k)
  <2>1. l \in Line /\ CountAttempts(l, vh) /\ StampAttempts(l, vh)
    BY <1>2, IngestLineFacts
  <2>2. IsFiniteSet(On) /\ Cardinality(On) \in Nat
    BY <2>1, AttemptsFinite
  <2>3. UpstreamRequests'[k] = UpstreamRequests[k] + Cardinality(On)
    BY <2>1 DEF CountAttempts
  <2>4. UpstreamRequests[k] = 0 /\ Cardinality(On) = 0
    BY <2>2, <2>3 DEF TypeInv
  <2>5. On = {}
    BY <2>2, <2>4, FS_EmptySet
  <2>6. UpstreamLastSeen'[k] = UpstreamLastSeen[k]
    BY <2>1, <2>5 DEF StampAttempts
  <2> QED
    BY <2>4, <2>6
<1> QED
  BY <1>1, <1>2 DEF Ingest

LEMMA LiteralStep ==
  ASSUME IdleInv, LiteralInv, [IdleNext]_idleVars
  PROVE  LiteralInv'
<1> USE DEF IdleInv, background, history
<1> SUFFICES ASSUME NEW k \in Key, AlwaysLiteral(k)
             PROVE  /\ loaded'[k] # 0 /\ UpstreamRequests'[k] = 0
                         => UpstreamLastSeen'[k] = loaded'[k]
                    /\ sweep'.at = "seeding" => k \in sweep'.valid \cup sweep'.todo
  BY DEF LiteralInv, KeptIfLoaded, AlwaysLiteral, Pairs, Backends
<1>1. /\ loaded[k] # 0 /\ UpstreamRequests[k] = 0 => UpstreamLastSeen[k] = loaded[k]
      /\ sweep.at = "seeding" => k \in sweep.valid \cup sweep.todo
  BY DEF LiteralInv, KeptIfLoaded
<1>2. CASE \/ Deploy \/ Refresh \/ StartLookups \/ TimePasses \/ LineRead \/ Save
           \/ \E n \in Name : LookupOK(n) \/ LookupFails(n)
  BY <1>1, <1>2 DEF Deploy, Refresh, StartLookups, LookupOK, LookupFails, TimePasses,
     LineRead, Tick, ReadTime, Save, SaveState, vars, counters, clocks
<1>3. CASE SweepStart
  <2>1. k \in Pairs(cfg)
    BY <1>3 DEF SweepStart, IdleTypeInv, AlwaysLiteral
  <2> QED
    BY <1>1, <1>3, <2>1 DEF SweepStart, vars, counters, clocks
<1>4. ASSUME NEW p \in sweep.todo, SweepVhost(p)
      PROVE  /\ UpstreamRequests' = UpstreamRequests /\ loaded' = loaded
             /\ UpstreamLastSeen'[k] = UpstreamLastSeen[k]
             /\ sweep'.at = "seeding" => k \in sweep'.valid \cup sweep'.todo
  <2>1. k # p
    BY <1>4, ConstantsAssumption DEF SweepVhost, AlwaysLiteral, Literal
  <2>2. UpstreamLastSeen' = UpstreamLastSeen
    BY <1>4 DEF SweepVhost, Seed, SeedUpstream
  <2> QED
    BY <1>1, <1>4, <2>1, <2>2 DEF SweepVhost, Seed, counters
<1>5. ASSUME NEW p \in sweep.todo, SweepBackend(p)
      PROVE  /\ UpstreamRequests' = UpstreamRequests /\ loaded' = loaded
             /\ UpstreamLastSeen[k] # 0 => UpstreamLastSeen'[k] = UpstreamLastSeen[k]
             /\ sweep'.at = "seeding" => k \in sweep'.valid \cup sweep'.todo
  <2> DEFINE r == <<p[1], Resolve(p[2])>>
  <2>1. p = <<p[1], p[2]>>
    <3>1. p \in Seeds
      BY SeedsCoverPairs DEF IdleTypeInv
    <3> QED
      BY <3>1, ConstantsAssumption
  <2>2. p = k => r = k
    BY <2>1 DEF AlwaysLiteral, Literal, Resolve
  <2>3. sweep'.valid = sweep.valid \cup {r} /\ sweep'.todo = sweep.todo \ {p}
    BY <1>5 DEF SweepBackend, IdleTypeInv
  <2>4. UpstreamLastSeen[k] # 0 => UpstreamLastSeen'[k] = UpstreamLastSeen[k]
    BY <1>5 DEF SweepBackend, Seed, SeedUpstream, TypeInv
  <2>5. UpstreamRequests' = UpstreamRequests /\ loaded' = loaded /\ sweep.at = "seeding"
    BY <1>5 DEF SweepBackend, Seed, counters
  <2> QED
    BY <1>1, <2>2, <2>3, <2>4, <2>5
<1>6. CASE SweepPrune
  <2>1. k \in sweep.valid
    BY <1>1, <1>6 DEF SweepPrune
  <2>2. UpstreamLastSeen'[k] = UpstreamLastSeen[k]
    BY <1>6, <2>1 DEF SweepPrune, PruneSeeds, Prunable
  <2> QED
    BY <1>1, <1>6, <2>2 DEF SweepPrune, PruneSeeds, Idle, counters
<1>7. ASSUME NEW l \in Lines, Traffic(l)
      PROVE  /\ loaded' = loaded /\ sweep' = sweep
             /\ UpstreamRequests'[k] = 0 =>
                  UpstreamRequests[k] = 0 /\ UpstreamLastSeen'[k] = UpstreamLastSeen[k]
  BY <1>7, QuietClockStays DEF Traffic
<1>8. ASSUME NEW st \in {saved, NoState}, Reboot(st)
      PROVE  loaded' = UpstreamLastSeen' /\ sweep'.at = "idle"
  BY <1>8 DEF Reboot, Idle
<1>9. CASE UNCHANGED idleVars
  BY <1>1, <1>9 DEF idleVars, vars, counters, clocks
<1> QED
  BY <1>1, <1>2, <1>3, <1>4, <1>5, <1>6, <1>7, <1>8, <1>9 DEF IdleNext

(* The clock of a member that every deployed configuration writes as an    *)
(* address, without traffic since the restart, is the one loaded from the  *)
(* state file, whatever names and variables the configurations also have.  *)
THEOREM LiteralClocksSurvive == IdleSpec => []LiteralClockKept
<1>1. IdleInit => LiteralInv
  BY DEF IdleInit, LiteralInv, KeptIfLoaded, NoState, Idle
<1>2. IdleInv /\ LiteralInv /\ [IdleNext]_idleVars => LiteralInv'
  BY LiteralStep
<1>3. LiteralInv => LiteralClockKept
  BY DEF LiteralInv, LiteralClockKept
<1> QED
  BY <1>1, <1>2, <1>3, IdleInvAlways, PTL DEF IdleSpec
=============================================================================
