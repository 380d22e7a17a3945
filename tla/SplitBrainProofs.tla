--------------------------- MODULE SplitBrainProofs ---------------------------
(***************************************************************************)
(* Proofs about SplitBrainAlert, for every set of nodes and every period.  *)
(***************************************************************************)
EXTENDS SplitBrainAlert, FiniteSetTheorems, TLAPS

(* TypeInv with its last conjunct, on the number of masters, put without   *)
(* Cardinality: while the nodes hear each other there is at most one.      *)
Types ==
  /\ up \subseteq Node /\ link \subseteq Node /\ split \in Splits \cup {"none"}
  /\ master \subseteq up \cap link /\ due \subseteq master
  /\ view \in [Node -> [Master : Node \cup {None}, Stepdown : BOOLEAN, age : 0 .. 4]]
  /\ sample \in [Node -> SUBSET Node] /\ sampleAge \in [Node -> 0 .. ScrapeEvery]
  /\ evalAge \in 0 .. EvalEvery /\ active \in BOOLEAN /\ firing \in BOOLEAN
  /\ pending \in 0 .. For /\ quiet \in 0 .. Settle /\ both \in 0 .. Settled
OneUnlessDeaf == ~Deaf => \A m, n \in master : m = n
AInv == Types /\ OneUnlessDeaf

LEMMA AInvInit == Init => AInv
<1> SUFFICES ASSUME Init PROVE AInv
  OBVIOUS
<1>1. active \in BOOLEAN /\ firing \in BOOLEAN
  BY DEF Init
<1>2. evalAge \in 0 .. EvalEvery /\ pending \in 0 .. For /\ quiet \in 0 .. Settle
  BY AlertAssumption DEF Init
<1>3. both \in 0 .. Settled
  BY AlertAssumption DEF Init, Settled
<1> QED
  BY <1>1, <1>2, <1>3, AlertAssumption DEF Init, AInv, Types, OneUnlessDeaf, Deaf, Unheard

LEMMA ExpressionIsBoolean == Expression \in BOOLEAN
BY DEF Expression

(* What an advert leaves in the trackers has the type of a view.           *)
LEMMA ObserveType ==
  ASSUME Types, NEW n \in Node, NEW s \in BOOLEAN, Observe(n, s)
  PROVE  view' \in [Node -> [Master : Node \cup {None}, Stepdown : BOOLEAN, age : 0 .. 4]]
BY DEF Observe, Types

LEMMA LeavesType ==
  ASSUME Types, NEW n \in Node, Leaves(n)
  PROVE  master' \subseteq master /\ n \notin master' /\ due' \subseteq master' /\ both' \in 0 .. Settled
BY AlertAssumption DEF Leaves, Types, Settled

LEMMA AInvStep == AInv /\ [Next]_vars => AInv'
<1> SUFFICES ASSUME AInv, [Next]_vars PROVE AInv'
  OBVIOUS
<1> USE AlertAssumption DEF AInv, OneUnlessDeaf, Deaf
<1>1. ASSUME NEW n \in Node, Die(n) PROVE AInv'
  <2>1. master' \subseteq master /\ n \notin master' /\ due' \subseteq master' /\ both' \in 0 .. Settled
    BY <1>1, LeavesType DEF Die
  <2>2. view' \in [Node -> [Master : Node \cup {None}, Stepdown : BOOLEAN, age : 0 .. 4]]
    BY <1>1 DEF Die, Unheard, Types
  <2> QED
    BY <1>1, <2>1, <2>2 DEF Die, Types, prom, alert
<1>2. ASSUME NEW n \in Node, Boot(n) \/ LinkUp(n) PROVE AInv'
  BY <1>2 DEF Boot, LinkUp, Types, routers, prom, alert
<1>3. ASSUME NEW n \in Node, LinkDown(n) PROVE AInv'
  <2>1. master' \subseteq master /\ n \notin master' /\ due' \subseteq master' /\ both' \in 0 .. Settled
    BY <1>3, LeavesType DEF LinkDown
  <2> QED
    BY <1>3, <2>1 DEF LinkDown, Types, prom, alert
<1>4. ASSUME NEW n \in Node, TakeOver(n) PROVE AInv'
  BY <1>4 DEF TakeOver, Types, hosts, prom, alert
<1>5. ASSUME NEW n \in Node, Advertise(n) PROVE AInv'
  <2>1. view' \in [Node -> [Master : Node \cup {None}, Stepdown : BOOLEAN, age : 0 .. 4]]
    BY <1>5, ObserveType DEF Advertise
  <2> QED
    BY <1>5, <2>1 DEF Advertise, Types, hosts, prom, alert
<1>6. ASSUME NEW n \in Node, Resign(n) PROVE AInv'
  <2>1. view' \in [Node -> [Master : Node \cup {None}, Stepdown : BOOLEAN, age : 0 .. 4]]
    BY <1>6, ObserveType DEF Resign
  <2>2. master' \subseteq master /\ n \notin master' /\ due' \subseteq master' /\ both' \in 0 .. Settled
    BY <1>6, LeavesType DEF Resign
  <2> QED
    BY <1>6, <2>1, <2>2 DEF Resign, Types, hosts, prom, alert
<1>7. ASSUME NEW n \in Node, Scrape(n) PROVE AInv'
  <2>1. sample' \in [Node -> SUBSET Node]
    <3>1. MasterVal(view[n]) => view[n].Master \in Node
      BY DEF MasterVal, MasterAlive, Types
    <3> QED
      BY <1>7, <3>1 DEF Scrape, Types
  <2>2. sampleAge' \in [Node -> 0 .. ScrapeEvery]
    BY <1>7 DEF Scrape, Types
  <2> QED
    BY <1>7, <2>1, <2>2 DEF Scrape, Types, hosts, routers, alert
<1>8. CASE SplitApart
  BY <1>8 DEF SplitApart, Types, hosts, prom, alert
<1>9. CASE Tick
  <2>1. view' \in [Node -> [Master : Node \cup {None}, Stepdown : BOOLEAN, age : 0 .. 4]]
    BY <1>9 DEF Tick, Types, Unheard, Lesser
  <2>2. sampleAge' \in [Node -> 0 .. ScrapeEvery]
    BY <1>9 DEF Tick, Types
  <2>3. pending' \in 0 .. For /\ quiet' \in 0 .. Settle /\ both' \in 0 .. Settled
        /\ evalAge' \in 0 .. EvalEvery
    BY <1>9 DEF Tick, Types, Lesser, Settled
  <2> QED
    BY <1>9, <2>1, <2>2, <2>3 DEF Tick, Types, hosts
<1>11. CASE Evaluate
  <2>1. evalAge' \in 0 .. EvalEvery /\ pending' \in 0 .. For
    BY <1>11 DEF Evaluate, Types
  <2>2. active' \in BOOLEAN /\ firing' \in BOOLEAN
    <3>1. active' = Expression /\ firing' = (active /\ Expression /\ pending = For)
      BY <1>11, Zenon DEF Evaluate
    <3> QED
      BY <3>1, ExpressionIsBoolean
  <2> QED
    BY <1>11, <2>1, <2>2 DEF Evaluate, Types, hosts, routers
<1>10. CASE UNCHANGED vars
  BY <1>10 DEF vars, hosts, routers, prom, alert, Types
<1> QED
  BY <1>1, <1>2, <1>3, <1>4, <1>5, <1>6, <1>7, <1>8, <1>9, <1>10, <1>11 DEF Next

(* However many nodes there are: only nodes that run and have a link are   *)
(* masters, and there is one at most unless the nodes are deaf.            *)
THEOREM AlertTypeCorrect == Spec => []TypeInv
<1>1. AInv => TypeInv
  <2> SUFFICES ASSUME AInv, Cardinality(master) > 1, ~Deaf PROVE FALSE
    BY DEF AInv, Types, TypeInv
  <2>1. CASE master = {}
    BY <2>1, FS_EmptySet
  <2>2. ASSUME NEW m \in master PROVE FALSE
    <3>1. master = {m}
      BY <2>2 DEF AInv, OneUnlessDeaf
    <3>2. Cardinality({m}) = 1
      BY FS_Singleton
    <3>3. ~(1 > 1)
      OBVIOUS
    <3> QED
      BY <3>1, <3>2, <3>3, Zenon
  <2> QED
    BY <2>1, <2>2
<1> QED
  BY <1>1, AInvInit, AInvStep, PTL DEF Spec

-----------------------------------------------------------------------------
(* The alert is patient enough: the rule waits for longer than a stale     *)
(* sample can live, and takeovers until it was evaluated after that.       *)
Patient == For >= ScrapeEvery + 4 /\ Settle >= ScrapeEvery + EvalEvery + 4

(* While the nodes hear each other, one node z, the last that took over,   *)
(* is the only one who advertises.  What the trackers and the samples      *)
(* still have of others is older than the takeover; so a doubt is never    *)
(* older than the takeover either, and ends with the last of the samples.  *)
StaleViews(z)   == \A o \in Node : \/ view[o].Master \in {None, z}
                                    \/ view[o].age >= Lesser(quiet, 4)
StaleSamples(z) == \A o \in Node : \A x \in sample[o] : x = z \/ quiet <= sampleAge[o] + 3
Doubt           == /\ active = TRUE => /\ pending <= quiet
                                        /\ quiet <= ScrapeEvery + 3 + evalAge
                   /\ firing = FALSE
OneSpeaks(z)    == master \subseteq {z} /\ StaleViews(z) /\ StaleSamples(z)
Calm == split = "none" => Doubt /\ \E z \in Node : OneSpeaks(z)

LEMMA CalmInit == ASSUME Patient PROVE Init => Calm
BY AlertAssumption
DEF Init, Calm, OneSpeaks, Doubt, StaleViews, StaleSamples, Unheard, Patient

(* Samples of two nodes: one is not of z, and as fresh as its target.      *)
LEMMA ExpressionTells ==
  ASSUME NEW z \in Node, Expression
  PROVE  \E o \in Node : \E x \in sample[o] : x # z
<1> SUFFICES ASSUME \A o \in Node : \A x \in sample[o] : x = z PROVE FALSE
  OBVIOUS
<1> DEFINE shown == UNION {sample[o] : o \in Node}
<1>1. shown \subseteq {z}
  OBVIOUS
<1>2. IsFiniteSet({z}) /\ Cardinality({z}) = 1
  BY FS_Singleton
<1>3. Cardinality(shown) <= 1 /\ Cardinality(shown) \in Nat
  BY <1>1, <1>2, FS_Subset, FS_CardinalityType
<1> QED
  BY <1>3 DEF Expression

LEMMA CalmTick ==
  ASSUME Patient, AInv, Calm, Tick PROVE Calm'
<1> SUFFICES ASSUME split = "none" PROVE Doubt' /\ \E z \in Node : OneSpeaks(z)'
  BY DEF Tick, Calm
<1> PICK z \in Node : OneSpeaks(z)
  BY DEF Calm
<1>1. pending \in Nat /\ quiet \in 0 .. Settle /\ \A o \in Node : sampleAge[o] \in Nat
  BY AlertAssumption DEF AInv, Types
<1>2. \A o \in Node : sampleAge[o] < ScrapeEvery
  BY DEF Tick
<1>4. /\ pending' = (IF active THEN Lesser(pending + 1, For) ELSE 0)
      /\ quiet' = Lesser(quiet + 1, Settle) /\ evalAge' = evalAge + 1 /\ evalAge \in Nat
      /\ active' = active /\ firing' = firing
  BY DEF Tick, AInv, Types
<1>5. Doubt'
  <2>1. firing = FALSE /\ (active = TRUE => pending <= quiet /\ quiet <= ScrapeEvery + 3 + evalAge)
    BY DEF Calm, Doubt
  <2>2. ASSUME active = TRUE PROVE pending' <= quiet' /\ quiet' <= ScrapeEvery + 3 + evalAge'
    <3>1. pending' = Lesser(pending + 1, For)
      BY <1>4, <2>2
    <3>2. /\ For \in Nat /\ Settle \in Nat /\ ScrapeEvery \in Nat /\ EvalEvery \in Nat
          /\ For <= Settle \/ Settle >= ScrapeEvery + EvalEvery + 4
      BY AlertAssumption DEF Patient
    <3>3. evalAge < EvalEvery
      BY DEF Tick
    <3>4. quiet + 1 <= Settle /\ quiet' = quiet + 1
      BY <1>1, <1>4, <2>1, <2>2, <3>2, <3>3, AlertAssumption DEF Patient, Lesser
    <3> QED
      BY <1>1, <1>4, <2>1, <2>2, <3>1, <3>2, <3>4 DEF Lesser
  <2> QED
    BY <1>4, <2>1, <2>2 DEF Doubt
<1>6. StaleViews(z)'
  <2> SUFFICES ASSUME NEW o \in Node, view[o].Master \notin {None, z}
               PROVE  view'[o].age >= Lesser(quiet', 4)
    BY DEF Tick, StaleViews, Unheard
  <2>1. view[o].age >= Lesser(quiet, 4) /\ view[o].age \in 0 .. 4
    BY DEF OneSpeaks, StaleViews, AInv, Types
  <2>2. view'[o].age = Lesser(view[o].age + 1, 4)
    BY DEF Tick, AInv, Types
  <2> QED
    BY <2>1, <2>2, <1>1, <1>4, AlertAssumption DEF Lesser
<1>7. StaleSamples(z)'
  <2>1. sample' = sample /\ \A o \in Node : sampleAge'[o] = sampleAge[o] + 1
    BY DEF Tick
  <2> QED
    BY <2>1, <1>1, <1>4, AlertAssumption DEF OneSpeaks, StaleSamples, Lesser
<1> QED
  BY <1>5, <1>6, <1>7 DEF OneSpeaks, Tick

LEMMA CalmEvaluate ==
  ASSUME Patient, AInv, split = "none", Calm, Evaluate PROVE Doubt'
<1> PICK z \in Node : OneSpeaks(z)
  BY DEF Calm
<1>1. /\ pending \in Nat /\ quiet \in Nat /\ For \in Nat /\ ScrapeEvery \in Nat
      /\ \A o \in Node : sampleAge[o] \in 0 .. ScrapeEvery
  BY AlertAssumption DEF AInv, Types
<1>2. ASSUME Expression PROVE quiet <= ScrapeEvery + 3
  <2>1. PICK o \in Node : \E x \in sample[o] : x # z
    BY <1>2, ExpressionTells
  <2> QED
    BY <1>1, <2>1 DEF OneSpeaks, StaleSamples
<1>3. active = TRUE => pending <= quiet
  BY DEF Calm, Doubt
<1>4. /\ evalAge' = 0 /\ quiet' = quiet
      /\ pending' = (IF active /\ Expression THEN pending ELSE 0)
  BY DEF Evaluate, routers
<1>5. active' = Expression /\ firing' = (active /\ Expression /\ pending = For)
  BY Zenon DEF Evaluate
<1>6. active \in BOOLEAN /\ Expression \in BOOLEAN
  BY ExpressionIsBoolean DEF AInv, Types
<1>7. ~(active = TRUE /\ Expression /\ pending = For)
  BY <1>1, <1>2, <1>3 DEF Patient
<1>8. firing' = FALSE
  BY <1>5, <1>6, <1>7, Zenon
<1>9. ASSUME active' = TRUE PROVE pending' <= quiet' /\ quiet' <= ScrapeEvery + 3 + evalAge'
  <2>1. Expression
    BY <1>5, <1>9
  <2>2. quiet <= ScrapeEvery + 3
    BY <1>2, <2>1
  <2>3. pending' <= quiet
    <3>1. CASE active = TRUE
      BY <1>3, <1>4, <2>1, <3>1
    <3>2. CASE active # TRUE
      <4>1. ~active
        BY <1>6, <3>2
      <4> QED
        BY <1>1, <1>4, <4>1
    <3> QED
      BY <3>1, <3>2
  <2> QED
    BY <1>1, <1>4, <2>2, <2>3
<1> QED
  BY <1>8, <1>9 DEF Doubt

LEMMA CalmStep == ASSUME Patient PROVE AInv /\ Calm /\ [Next]_vars => Calm'
<1> SUFFICES ASSUME AInv, Calm, [Next]_vars, split' = "none"
             PROVE  Doubt' /\ \E z \in Node : OneSpeaks(z)'
  BY DEF Calm
<1>0. split = "none"
  BY AlertAssumption DEF Next, Die, Boot, LinkDown, LinkUp, TakeOver, Advertise, Resign,
     Scrape, SplitApart, Evaluate, Tick, vars, hosts, routers
<1> PICK z \in Node : OneSpeaks(z)
  BY <1>0 DEF Calm
<1> USE <1>0 DEF Calm, OneSpeaks
<1>a. ASSUME UNCHANGED <<alert, quiet>> PROVE Doubt'
  BY <1>a DEF Doubt, alert
<1>1. ASSUME NEW n \in Node, Die(n) \/ LinkDown(n) PROVE Doubt' /\ OneSpeaks(z)'
  BY <1>1 DEF Die, LinkDown, Leaves, Unheard, Doubt, StaleViews, StaleSamples, prom, alert, AInv, Types
<1>2. ASSUME NEW n \in Node, Boot(n) \/ LinkUp(n) PROVE Doubt' /\ OneSpeaks(z)'
  BY <1>2 DEF Boot, LinkUp, Doubt, StaleViews, StaleSamples, prom, alert, routers
<1>3. ASSUME NEW n \in Node, TakeOver(n) PROVE Doubt' /\ OneSpeaks(n)'
  <2>1. active = FALSE /\ quiet' = 0
    <3>1. quiet = Settle /\ quiet' = 0 /\ evalAge \in 0 .. EvalEvery /\ active \in BOOLEAN
      BY <1>3 DEF TakeOver, AInv, Types
    <3>2. ~(quiet <= ScrapeEvery + 3 + evalAge)
      BY <3>1, AlertAssumption DEF Patient
    <3> QED
      BY <3>1, <3>2 DEF Doubt
  <2>2. Doubt'
    <3>1. active' = FALSE /\ firing' = FALSE
      BY <1>3, <2>1 DEF TakeOver, prom, alert, Doubt
    <3> QED
      BY <3>1 DEF Doubt
  <2>3. StaleViews(n)' /\ StaleSamples(n)'
    BY <1>3, <2>1, AlertAssumption DEF TakeOver, StaleViews, StaleSamples, Lesser, prom, alert, AInv, Types
  <2> QED
    BY <1>3, <2>2, <2>3 DEF TakeOver, Deaf
<1>4. ASSUME NEW n \in Node, Advertise(n) \/ Resign(n) PROVE Doubt' /\ OneSpeaks(z)'
  <2>1. n = z
    BY <1>4 DEF Advertise, Resign, AInv, Types
  <2>2. StaleViews(z)'
    BY <1>4, <2>1 DEF Advertise, Resign, Observe, StaleViews
  <2> QED
    BY <1>4, <2>2 DEF Advertise, Resign, Leaves, Doubt, StaleSamples, prom, alert
<1>5. ASSUME NEW n \in Node, Scrape(n) PROVE Doubt' /\ OneSpeaks(z)'
  <2>1. MasterVal(view[n]) => view[n].Master = z \/ quiet <= 3
    <3>1. view[n].age \in 0 .. 4 /\ quiet \in Nat
      BY AlertAssumption DEF AInv, Types
    <3> QED
      BY <3>1 DEF MasterVal, MasterAlive, StaleViews, Lesser
  <2>2. StaleSamples(z)'
    BY <1>5, <2>1 DEF Scrape, StaleSamples, routers, AInv, Types
  <2> QED
    BY <1>5, <2>2, <1>a DEF Scrape, StaleViews, routers
<1>6. CASE SplitApart
  BY <1>6, AlertAssumption DEF SplitApart
<1>7. CASE Tick
  BY <1>7, CalmTick DEF Tick
<1>8. CASE UNCHANGED vars
  BY <1>8 DEF vars, hosts, routers, prom, alert, Doubt, StaleViews, StaleSamples
<1>9. CASE Evaluate
  <2>1. Doubt'
    BY <1>9, CalmEvaluate
  <2>2. OneSpeaks(z)'
    BY <1>9 DEF Evaluate, hosts, routers, StaleViews, StaleSamples
  <2> QED
    BY <2>1, <2>2
<1> QED
  BY <1>1, <1>2, <1>3, <1>4, <1>5, <1>6, <1>7, <1>8, <1>9 DEF Next

(* Whatever the number of nodes, the times between scrapes and between     *)
(* evaluations and the windows, as long as the rule waits for four adverts *)
(* longer than a scrape takes to come round, and takeovers are an          *)
(* evaluation further apart: no failover rings the split-brain alert.      *)
THEOREM NoFalseAlarmCorrect == ASSUME Patient PROVE Spec => []NoFalseAlarm
<1>1. Calm => NoFalseAlarm
  BY AlertAssumption DEF Calm, Doubt, NoFalseAlarm
<1>2. Init => AInv /\ Calm
  BY AInvInit, CalmInit
<1>3. AInv /\ Calm /\ [Next]_vars => (AInv /\ Calm)'
  BY AInvStep, CalmStep
<1> QED
  BY <1>1, <1>2, <1>3, PTL DEF Spec

-----------------------------------------------------------------------------
(* A pair of nodes that may lose the segment between them, and nothing     *)
(* else: with "filter" the alert does stay silent.                         *)
Segmented == Cardinality(Node) = 2 /\ Splits \subseteq {"segment"}

Own(o, age) == [Master |-> o, Stepdown |-> FALSE, age |-> age]

(* A master that has advertised in this unit has just heard itself.        *)
HeardItself == \A o \in master \ due : view[o] = Own(o, 0)

(* A unit after both became masters each exporter shows its own node, in   *)
(* every scrape since; once the scrapes from before are gone, the          *)
(* expression holds at every evaluation: the first of them finds it, and   *)
(* one that is For later rings.                                            *)
Apart == both > 0 =>
  /\ master = Node /\ split = "segment"
  /\ \A o \in Node : view[o] \in {Own(o, 0), Own(o, 1)}
OwnSamples == \A o \in Node : sampleAge[o] < both => sample[o] = {o}
Shown   == ScrapeEvery + 1
Found   == both >= Shown + evalAge => active = TRUE
Waiting == \A k \in 0 .. For : both >= Shown + EvalEvery + k => active = TRUE /\ pending >= k
Rung    == both >= Shown + EvalEvery + For + evalAge => firing = TRUE
Ringing == Found /\ Waiting /\ Rung

RInv == HeardItself /\ Apart /\ OwnSamples /\ Ringing

LEMMA BothIsAll ==
  ASSUME Segmented, NEW S \in SUBSET Node, Cardinality(S) > 1
  PROVE  S = Node
<1>1. IsFiniteSet(Node) /\ Cardinality(Node) = 2
  BY AlertAssumption DEF Segmented
<1>2. Cardinality(S) \in Nat /\ Cardinality(S) <= 2
  BY <1>1, FS_Subset, FS_CardinalityType
<1>3. Cardinality(S) = Cardinality(Node)
  BY <1>1, <1>2
<1> QED
  BY <1>1, <1>3, FS_Subset

LEMMA RInvInit == Init => RInv
<1> SUFFICES ASSUME Init PROVE RInv
  OBVIOUS
<1>1. both = 0 /\ evalAge \in Nat /\ \A o \in Node : sampleAge[o] \in Nat
  BY AlertAssumption DEF Init
<1>2. HeardItself
  BY DEF Init, HeardItself
<1> QED
  BY <1>1, <1>2, AlertAssumption DEF RInv, Apart, OwnSamples, Ringing, Found, Waiting, Rung, Shown

LEMMA OneHeard ==
  ASSUME Segmented, AInv, RInv, NEW n \in master, NEW s \in BOOLEAN, Observe(n, s)
  PROVE  /\ view'[n] = [Master |-> n, Stepdown |-> s, age |-> 0]
         /\ \A o \in Node \ {n} : Deaf => view'[o] = view[o]
<1>1. n \in up \cap link /\ n \in Node /\ (Deaf => split = "segment")
  BY DEF AInv, Types, Segmented, Deaf
<1> QED
  BY <1>1 DEF Observe, Reaches

(* While there are not two masters, nothing is claimed of the alert.       *)
LEMMA NoRinging ==
  ASSUME NEW b, b = 0, NEW e \in Nat
  PROVE  /\ ~(b >= Shown + e) /\ ~(b >= Shown + EvalEvery + For + e)
         /\ \A k \in 0 .. For : ~(b >= Shown + EvalEvery + k)
BY AlertAssumption DEF Shown

(* The samples that two masters have left, once those from before are gone. *)
LEMMA BothShown ==
  ASSUME Segmented, AInv, RInv, both >= Shown PROVE Expression
<1>1. \A o \in Node : sampleAge[o] \in Nat /\ sampleAge[o] <= ScrapeEvery
  BY AlertAssumption DEF AInv, Types
<1>2. both \in Nat
  BY AlertAssumption DEF AInv, Types, Settled
<1>3. \A o \in Node : sample[o] = {o}
  BY <1>1, <1>2, AlertAssumption DEF RInv, OwnSamples, Shown
<1> DEFINE shown == UNION {sample[o] : o \in Node}
<1>4. \A x : x \in shown <=> x \in Node
  BY <1>3
<1>5. shown = Node
  <2> HIDE DEF shown
  <2> QED
    BY <1>4
<1>6. 2 > 1
  OBVIOUS
<1> QED
  BY <1>5, <1>6, Zenon DEF Expression, Segmented

(* An evaluation finds the expression, or has it wait, or rings.           *)
LEMMA RingingEvaluate ==
  ASSUME Segmented, AInv, RInv, Evaluate PROVE Ringing'
<1>1. /\ both \in Nat /\ evalAge \in 0 .. EvalEvery /\ pending \in 0 .. For
      /\ ScrapeEvery \in Nat /\ For \in Nat /\ EvalEvery \in Nat
  BY AlertAssumption DEF AInv, Types, Settled
<1>2. /\ evalAge' = 0 /\ both' = both
      /\ pending' = (IF active /\ Expression THEN pending ELSE 0)
  BY DEF Evaluate
<1>3. active' = Expression /\ firing' = (active /\ Expression /\ pending = For)
  BY Zenon DEF Evaluate
<1>4. both >= Shown => Expression
  BY BothShown
<1>5. Found'
  <2>1. both >= Shown => active' = TRUE
    BY <1>3, <1>4, Zenon DEF Expression
  <2> QED
    BY <1>1, <1>2, <2>1 DEF Found, Shown
<1>6. ASSUME NEW k \in 0 .. For, both >= Shown + EvalEvery + k
      PROVE  Expression /\ active = TRUE /\ pending >= k
  BY <1>1, <1>4, <1>6 DEF RInv, Ringing, Waiting, Shown
<1>7. Waiting'
  <2> SUFFICES ASSUME NEW k \in 0 .. For, both >= Shown + EvalEvery + k
               PROVE  active' = TRUE /\ pending' >= k
    BY <1>2 DEF Waiting, Shown
  <2>1. Expression /\ active = TRUE /\ pending >= k
    BY <1>6
  <2>2. active' = TRUE
    BY <1>3, <2>1, Zenon DEF Expression
  <2>3. pending' = pending
    BY <1>2, <2>1
  <2> QED
    BY <2>1, <2>2, <2>3
<1>8. Rung'
  <2> SUFFICES ASSUME both >= Shown + EvalEvery + For PROVE firing' = TRUE
    BY <1>1, <1>2 DEF Rung, Shown
  <2>1. For \in 0 .. For
    BY <1>1
  <2>2. Expression /\ active = TRUE /\ pending >= For
    BY <1>6, <2>1
  <2>3. pending = For
    BY <1>1, <2>2
  <2> QED
    BY <1>3, <2>2, <2>3, Zenon
<1> QED
  BY <1>5, <1>7, <1>8 DEF Ringing

LEMMA RInvTick ==
  ASSUME Segmented, AInv, RInv, Tick
  PROVE  RInv'
<1>1. /\ due = {} /\ due' = master /\ master' = master /\ split' = split /\ sample' = sample
      /\ \A o \in Node : sampleAge[o] \in Nat /\ sampleAge[o] < ScrapeEvery
      /\ \A o \in Node : sampleAge'[o] = sampleAge[o] + 1
      /\ both \in Nat /\ pending \in Nat /\ pending <= For
      /\ evalAge \in Nat /\ evalAge < EvalEvery /\ evalAge' = evalAge + 1
      /\ ScrapeEvery \in Nat /\ For \in Nat /\ Settled \in Nat /\ ScrapeEvery > 0
      /\ EvalEvery \in Nat /\ Settled = ScrapeEvery + 2 * EvalEvery + For + 1
  BY AlertAssumption DEF Tick, AInv, Types, Settled
<1>2. HeardItself'
  BY <1>1 DEF HeardItself
<1>3. CASE ~(Cardinality(master) > 1)
  <2>1. both' = 0
    BY <1>3 DEF Tick
  <2>3. Apart' /\ OwnSamples'
    BY <1>1, <2>1 DEF Apart, OwnSamples
  <2>4. Ringing'
    BY <1>1, <2>1, NoRinging DEF Ringing, Found, Waiting, Rung, Shown
  <2> QED
    BY <1>2, <2>3, <2>4 DEF RInv
<1>4. CASE Cardinality(master) > 1
  <2>1. master = Node /\ split = "segment" /\ both' = Lesser(both + 1, Settled)
    <3>1. master = Node
      BY <1>4, BothIsAll DEF AInv, Types
    <3>2. Deaf
      <4>0. 2 # 0 /\ 2 # 1
        OBVIOUS
      <4>1. Node # {} /\ \A m \in Node : Node # {m}
        BY <4>0, FS_Singleton, FS_EmptySet, Zenon DEF Segmented
      <4>2. PICK m \in Node : TRUE
        BY <4>1
      <4>3. PICK o \in Node : o # m
        BY <4>1
      <4> QED
        BY <3>1, <4>3 DEF AInv, OneUnlessDeaf
    <3> QED
      BY <1>4, <3>1, <3>2 DEF Tick, AInv, Types, Deaf, Segmented
  <2>2. Apart'
    <3> SUFFICES ASSUME NEW o \in Node PROVE view'[o] = Own(o, 1)
      BY <1>1, <2>1 DEF Apart
    <3>1. view[o] = Own(o, 0)
      BY <1>1, <2>1 DEF RInv, HeardItself
    <3>2. o # None
      BY AlertAssumption
    <3>3. view[o].Master = o /\ view[o].Stepdown = FALSE /\ view[o].age = 0
      BY <3>1 DEF Own
    <3>4. Lesser(view[o].age + 1, 4) = 1
      BY <3>3 DEF Lesser
    <3>5. view'[o] = [view[o] EXCEPT !.age = 1]
      BY <3>2, <3>3, <3>4 DEF Tick
    <3> DEFINE s == view[o]
    <3> HIDE DEF s
    <3>6. s = Own(o, 0) /\ view'[o] = [s EXCEPT !.age = 1]
      BY <3>1, <3>5 DEF s
    <3> QED
      BY <3>6 DEF Own
  <2>3. OwnSamples'
    <3> SUFFICES ASSUME NEW o \in Node, sampleAge'[o] < both' PROVE sample'[o] = {o}
      BY DEF OwnSamples
    <3>1. sampleAge[o] < both
      BY <1>1, <2>1 DEF Lesser
    <3> QED
      BY <1>1, <3>1 DEF RInv, OwnSamples
  <2>4. /\ both' <= both + 1 /\ both' \in Nat /\ active' = active /\ firing' = firing
        /\ pending' = (IF active THEN Lesser(pending + 1, For) ELSE 0)
    <3>1. active' = active /\ firing' = firing
          /\ pending' = (IF active THEN Lesser(pending + 1, For) ELSE 0)
      BY DEF Tick
    <3> QED
      BY <1>1, <2>1, <3>1 DEF Lesser
  <2>5. Ringing'
    <3>1. Found'
      <4> SUFFICES ASSUME both' >= Shown + evalAge' PROVE active = TRUE
        BY <2>4 DEF Found, Shown
      <4>1. both >= Shown + evalAge
        BY <1>1, <2>4 DEF Shown
      <4> QED
        BY <4>1 DEF RInv, Ringing, Found
    <3>2. Rung'
      <4> SUFFICES ASSUME both' >= Shown + EvalEvery + For + evalAge' PROVE firing = TRUE
        BY <2>4 DEF Rung, Shown
      <4>1. both >= Shown + EvalEvery + For + evalAge
        BY <1>1, <2>4 DEF Shown
      <4> QED
        BY <4>1 DEF RInv, Ringing, Rung
    <3>3. Waiting'
      <4> SUFFICES ASSUME NEW k \in 0 .. For, both' >= Shown + EvalEvery + k
                   PROVE  active = TRUE /\ pending' >= k
        BY <2>4 DEF Waiting, Shown
      <4>1. active = TRUE
        <5>1. both >= Shown + evalAge
          BY <1>1, <2>4 DEF Shown
        <5> QED
          BY <5>1 DEF RInv, Ringing, Found
      <4>2. pending' = Lesser(pending + 1, For)
        BY <2>4, <4>1
      <4>3. CASE k = 0
        BY <1>1, <4>1, <4>2, <4>3 DEF Lesser
      <4>4. CASE k # 0
        <5>1. k - 1 \in 0 .. For /\ both >= Shown + EvalEvery + (k - 1)
          BY <1>1, <2>4, <4>4 DEF Shown
        <5>2. pending >= k - 1
          BY <5>1 DEF RInv, Ringing, Waiting
        <5> QED
          BY <1>1, <4>1, <4>2, <5>2 DEF Lesser
      <4> QED
        BY <4>1, <4>3, <4>4
    <3> QED
      BY <3>1, <3>2, <3>3 DEF Ringing
  <2> QED
    BY <1>2, <2>2, <2>3, <2>5 DEF RInv
<1> QED
  BY <1>3, <1>4

LEMMA RInvStep == ASSUME Segmented PROVE AInv /\ RInv /\ [Next]_vars => RInv'
<1> SUFFICES ASSUME AInv, RInv, [Next]_vars PROVE RInv'
  OBVIOUS
<1>0. pending \in Nat /\ evalAge \in Nat /\ both \in Nat /\ \A o \in Node : sampleAge[o] \in Nat
  BY AlertAssumption DEF AInv, Types, Settled
(* A master that leaves ends the split. *)
<1>1. ASSUME NEW n \in master, Leaves(n)
      PROVE  both' = 0 /\ n \notin master' /\ master' \ due' \subseteq (master \ due) \ {n}
  <2>1. master' # Node
    BY <1>1 DEF Leaves, AInv, Types
  <2>2. ~(Cardinality(master') > 1)
    BY <1>1, <2>1, BothIsAll DEF Leaves, AInv, Types
  <2> QED
    BY <1>1, <2>2 DEF Leaves
<1>2. ASSUME NEW n \in Node \ master, Leaves(n)
      PROVE  master' = master /\ due' = due /\ both' \in {0, both}
  BY <1>2 DEF Leaves, AInv, Types
<1>3. ASSUME both' = 0, HeardItself', UNCHANGED prom PROVE RInv'
  <2>1. Ringing'
    BY <1>0, <1>3, NoRinging DEF prom, alert, Ringing, Found, Waiting, Rung, Shown
  <2> QED
    BY <1>0, <1>3, <2>1 DEF prom, RInv, Apart, OwnSamples
<1>a. ASSUME UNCHANGED <<alert, both>> PROVE Ringing'
  BY <1>a DEF alert, RInv, Ringing, Found, Waiting, Rung, Shown
<1>4. ASSUME NEW n \in Node, Die(n) \/ LinkDown(n) PROVE RInv'
  <2>1. Leaves(n) /\ UNCHANGED prom /\ \A o \in Node \ {n} : view'[o] = view[o]
    BY <1>4 DEF Die, LinkDown, AInv, Types
  <2>2. CASE n \in master
    <3>1. HeardItself'
      BY <2>1, <2>2, <1>1 DEF RInv, HeardItself, AInv, Types
    <3> QED
      BY <2>1, <2>2, <3>1, <1>1, <1>3
  <2>3. CASE n \notin master
    <3>1. master' = master /\ due' = due /\ both' \in {0, both}
      BY <2>1, <2>3, <1>2
    <3>2. both = 0
      BY <1>0, <2>3 DEF RInv, Apart
    <3>3. HeardItself'
      BY <2>1, <2>3, <3>1 DEF RInv, HeardItself, AInv, Types
    <3> QED
      BY <2>1, <3>1, <3>2, <3>3, <1>3
  <2> QED
    BY <2>2, <2>3
<1>5. ASSUME NEW n \in Node, Boot(n) \/ LinkUp(n) PROVE RInv'
  <2>1. Ringing'
    BY <1>5, <1>a DEF Boot, LinkUp, prom
  <2> QED
    BY <1>5, <2>1 DEF Boot, LinkUp, routers, prom, RInv, HeardItself, Apart, OwnSamples
<1>6. ASSUME NEW n \in Node, TakeOver(n) PROVE RInv'
  <2>1. both = 0 /\ both' = 0 /\ UNCHANGED prom
    BY <1>0, <1>6 DEF TakeOver, RInv, Apart
  <2>2. HeardItself'
    BY <1>6 DEF TakeOver, RInv, HeardItself
  <2> QED
    BY <2>1, <2>2, <1>3
<1>7. ASSUME NEW n \in Node, Advertise(n) PROVE RInv'
  <2>1. n \in master /\ Observe(n, FALSE)
    BY <1>7 DEF Advertise, AInv, Types
  <2>2. view'[n] = Own(n, 0) /\ \A o \in Node \ {n} : Deaf => view'[o] = view[o]
    BY <2>1, OneHeard DEF Own
  <2>3. ~Deaf => master = {n}
    BY <2>1 DEF AInv, OneUnlessDeaf
  <2>4. HeardItself'
    BY <1>7, <2>2, <2>3 DEF Advertise, RInv, HeardItself, AInv, Types
  <2>5. Apart'
    BY <1>7, <2>2 DEF Advertise, hosts, RInv, Apart, Deaf
  <2>6. Ringing'
    BY <1>7, <1>a DEF Advertise, prom
  <2> QED
    BY <1>7, <2>4, <2>5, <2>6 DEF Advertise, prom, RInv, OwnSamples
<1>8. ASSUME NEW n \in Node, Resign(n) PROVE RInv'
  <2>1. n \in master /\ Leaves(n) /\ Observe(n, TRUE) /\ UNCHANGED prom
    BY <1>8 DEF Resign, AInv, Types
  <2>2. \A o \in Node \ {n} : Deaf => view'[o] = view[o]
    BY <2>1, OneHeard
  <2>3. ~Deaf => master = {n}
    BY <2>1 DEF AInv, OneUnlessDeaf
  <2>4. HeardItself'
    BY <2>1, <2>2, <2>3, <1>1 DEF RInv, HeardItself, AInv, Types
  <2> QED
    BY <2>1, <2>4, <1>1, <1>3
<1>9. ASSUME NEW n \in Node, Scrape(n) PROVE RInv'
  <2>1. UNCHANGED <<split, master, due, view, alert, both>>
    BY <1>9 DEF Scrape, routers
  <2>2. \A o \in Node \ {n} : sample'[o] = sample[o] /\ sampleAge'[o] = sampleAge[o]
    BY <1>9 DEF Scrape, AInv, Types
  <2>3. both > 0 => sample'[n] = {n}
    <3> SUFFICES ASSUME both > 0 PROVE sample'[n] = {n}
      OBVIOUS
    <3>1. n \in up /\ view[n] \in {Own(n, 0), Own(n, 1)}
      BY DEF RInv, Apart, AInv, Types
    <3>2. MasterVal(view[n]) /\ view[n].Master = n
      BY <3>1, AlertAssumption DEF Own, MasterVal, MasterAlive
    <3> QED
      BY <1>9, <3>1, <3>2 DEF Scrape, AInv, Types
  <2>4. sampleAge'[n] = 0
    BY <1>9 DEF Scrape, AInv, Types
  <2>5. OwnSamples'
    BY <1>0, <2>1, <2>2, <2>3, <2>4 DEF RInv, OwnSamples
  <2>6. Ringing'
    BY <2>1, <1>a
  <2> QED
    BY <2>1, <2>5, <2>6 DEF RInv, HeardItself, Apart
<1>10. CASE SplitApart
  <2>1. both = 0
    BY <1>0, <1>10 DEF SplitApart, RInv, Apart
  <2>2. HeardItself'
    BY <1>10 DEF SplitApart, RInv, HeardItself
  <2> QED
    BY <1>3, <1>10, <2>1, <2>2 DEF SplitApart
<1>11. CASE Tick
  BY <1>11, RInvTick
<1>12. CASE UNCHANGED vars
  <2>1. Ringing'
    BY <1>12, <1>a DEF vars, prom
  <2> QED
    BY <1>12, <2>1 DEF vars, hosts, routers, prom, RInv, HeardItself, Apart, OwnSamples
<1>13. CASE Evaluate
  <2>1. Ringing'
    BY <1>13, RingingEvaluate
  <2> QED
    BY <1>13, <2>1 DEF Evaluate, hosts, routers, RInv, HeardItself, Apart, OwnSamples
<1> QED
  BY <1>4, <1>5, <1>6, <1>7, <1>8, <1>9, <1>10, <1>11, <1>12, <1>13 DEF Next

(* Whatever the times between scrapes and between evaluations and the      *)
(* windows: when the segment between the nodes of a pair is gone and both  *)
(* stay masters for a scrape, two evaluations and the rule's wait, the     *)
(* split-brain alert rings.                                                *)
THEOREM SplitBrainRingsCorrect == ASSUME Segmented PROVE Spec => []SplitBrainRings
<1>1. AInv /\ RInv => SplitBrainRings
  <2> SUFFICES ASSUME AInv, RInv, both = Settled PROVE firing
    BY DEF SplitBrainRings
  <2>1. both >= Shown + EvalEvery + For + evalAge
    BY AlertAssumption DEF AInv, Types, Shown, Settled
  <2> QED
    BY <2>1 DEF RInv, Ringing, Rung
<1>2. Init => AInv /\ RInv
  BY AInvInit, RInvInit
<1>3. AInv /\ RInv /\ [Next]_vars => (AInv /\ RInv)'
  BY AInvStep, RInvStep
<1> QED
  BY <1>1, <1>2, <1>3, PTL DEF Spec
=============================================================================
