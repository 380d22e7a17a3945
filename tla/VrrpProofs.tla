----------------------------- MODULE VrrpProofs -----------------------------
(***************************************************************************)
(* Proofs about VrrpTracker and VrrpCollector, for every value of their    *)
(* constants.  The tracker's invariant TInv is inductive; every step of a  *)
(* scrape is a step of the tracker or leaves it alone, so that TInv holds  *)
(* beside a scrape too.  What a scrape shows follows from CInv, which says *)
(* of the copies taken so far what TInv says of the tracker: the counters  *)
(* only grow, so those read later still explain the state read before.     *)
(* HInv relates the tracker to the adverts heard, which are only added to, *)
(* and AInv the scrape to the adverts behind the state it copied.          *)
(***************************************************************************)
EXTENDS VrrpCollector, FiniteSetTheorems, TLAPS

TInv == TypeInv /\ KeyCap /\ StateIsCounted

-----------------------------------------------------------------------------
(* The set of counted transitions *)

LEMMA TransitionFinite == IsFiniteSet(Transition)
<1>1. IsFiniteSet(Addr \cup {NoAddr})
  BY VrrpAssumption, FS_AddElement
<1>2. IsFiniteSet((Addr \cup {NoAddr}) \X Addr) /\ IsFiniteSet(VRID \X (Addr \cup {NoAddr}))
  BY <1>1, VrrpAssumption, FS_Product
<1>3. IsFiniteSet((VRID \X (Addr \cup {NoAddr})) \X Addr)
  BY <1>2, VrrpAssumption, FS_Product
<1> DEFINE Pairs == (VRID \X (Addr \cup {NoAddr})) \X Addr
           flat  == [p \in Pairs |-> <<p[1][1], p[1][2], p[2]>>]
<1>4. flat \in [Pairs -> Transition]
  BY DEF Transition
<1>5. ASSUME NEW tr \in Transition
      PROVE  \E p \in Pairs : flat[p] = tr
  <2>1. <<<<tr[1], tr[2]>>, tr[3]>> \in Pairs
    BY DEF Transition
  <2>2. flat[<<<<tr[1], tr[2]>>, tr[3]>>] = tr
    BY <2>1 DEF Transition
  <2> QED
    BY <2>1, <2>2
<1> HIDE DEF Pairs, flat
<1>6. flat \in Surjection(Pairs, Transition)
  BY <1>4, <1>5 DEF Surjection
<1>7. IsFiniteSet(Pairs)
  BY <1>3 DEF Pairs
<1> QED
  BY <1>6, <1>7, FS_Surjection

LEMMA KeysFinite == IsFiniteSet(Keys) /\ Cardinality(Keys) \in Nat
  BY TransitionFinite, FS_Subset, FS_CardinalityType DEF Keys

(* The transition that an advert makes is one the map may hold. *)
LEMMA TransitionOfAdvert ==
  ASSUME TypeInv, NEW a \in Advert
  PROVE  /\ a.vrid \in VRID /\ a.src \in Addr /\ a.src # NoAddr
         /\ a.priority \in 0 .. 255 /\ a.interval \in Nat
         /\ vrids[a.vrid] \in VRIDState
         /\ <<a.vrid, vrids[a.vrid].master, a.src>> \in Transition
<1>1. a.vrid \in VRID /\ a.src \in Addr /\ a.priority \in 0 .. 255 /\ a.interval \in Nat
  BY DEF Advert
<1>2. vrids[a.vrid] \in VRIDState
  BY <1>1 DEF TypeInv
<1>3. vrids[a.vrid].master \in Addr \cup {NoAddr}
  BY <1>2 DEF VRIDState
<1> QED
  BY <1>1, <1>2, <1>3, VrrpAssumption DEF Transition

(* Counting a transition that fits adds its key and nothing else. *)
LEMMA CountKeys ==
  ASSUME TypeInv, NEW tr \in Transition, count(tr), Fits(tr)
  PROVE  /\ transitions' \in [Transition -> Nat] /\ dropped' = dropped
         /\ transitions'[tr] > 0
         /\ \A u \in Transition : transitions'[u] >= transitions[u]
         /\ Keys' = Keys \cup {tr}
<1>1. transitions' = [transitions EXCEPT ![tr] = @ + 1] /\ dropped' = dropped
  BY DEF count
<1>2. transitions \in [Transition -> Nat]
  BY DEF TypeInv
<1>3. \A u \in Transition : transitions'[u] = IF u = tr THEN transitions[u] + 1
                                                        ELSE transitions[u]
  BY <1>1, <1>2
<1>4. Keys' = Keys \cup {tr}
  BY <1>2, <1>3 DEF Keys
<1> QED
  BY <1>1, <1>2, <1>3, <1>4

LEMMA CountDrops ==
  ASSUME TypeInv, NEW tr \in Transition, count(tr), ~Fits(tr)
  PROVE  /\ transitions' = transitions /\ dropped' = dropped + 1 /\ dropped' \in Nat
         /\ dropped' > 0 /\ Keys' = Keys
  BY DEF count, TypeInv, Keys

-----------------------------------------------------------------------------
(* One advert *)

LEMMA InitTInv == Init => TInv
<1> SUFFICES ASSUME Init PROVE TInv
  OBVIOUS
<1>1. Unheard \in VRIDState
  BY DEF Unheard, VRIDState
<1>2. \A v \in VRID : vrids[v] = Unheard
  BY DEF Init
<1>3. TypeInv
  <2>1. vrids \in [VRID -> VRIDState]
    BY <1>1 DEF Init
  <2>2. \A v \in VRID : ~Known(v) /\ vrids[v].lastSeen <= now
    BY <1>2 DEF Init, Known, Unheard
  <2>3. heard \in Seq(Advert)
    BY DEF Init
  <2> QED
    BY <1>2, <2>1, <2>2, <2>3 DEF Init, TypeInv
<1>4. KeyCap
  <2>1. Keys = {}
    BY DEF Init, Keys
  <2> QED
    BY <2>1, FS_EmptySet, VrrpAssumption DEF KeyCap, Init
<1>5. StateIsCounted
  BY <1>2 DEF StateIsCounted, MasterCounted, StepdownCounted, Unheard
<1> QED
  BY <1>3, <1>4, <1>5 DEF TInv

LEMMA ObserveType ==
  ASSUME TypeInv, NEW a \in Advert, Observe(a)
  PROVE  TypeInv'
<1> DEFINE s  == vrids[a.vrid]
           tr == <<a.vrid, s.master, a.src>>
<1>1. /\ a.vrid \in VRID /\ a.src \in Addr /\ a.src # NoAddr /\ s \in VRIDState
      /\ a.priority \in 0 .. 255 /\ a.interval \in Nat /\ tr \in Transition
  BY TransitionOfAdvert
<1>2. now' = now /\ now \in Nat
  BY DEF Observe, TypeInv
<1>3. transitions' \in [Transition -> Nat] /\ dropped' \in Nat
  <2>1. CASE s.master = a.src
    BY <2>1 DEF Observe, TypeInv
  <2>2. CASE s.master # a.src
    <3>1. count(tr)
      BY <2>2 DEF Observe
    <3> QED
      BY <3>1, <1>1, CountKeys, CountDrops DEF TypeInv
  <2> QED
    BY <2>1, <2>2
<1>4. stepdowns' \in [VRID -> Nat]
  BY <1>1 DEF Observe, TypeInv
<1>5. Heard(s, a) \in VRIDState
  BY <1>1, <1>2 DEF Heard, VRIDState
<1>6. vrids' = [vrids EXCEPT ![a.vrid] = Heard(s, a)] /\ vrids \in [VRID -> VRIDState]
  BY DEF Observe, TypeInv
<1>7. vrids' \in [VRID -> VRIDState]
  BY <1>1, <1>5, <1>6
<1>8. heard' \in Seq(Advert)
  <2>1. heard' = Append(heard, a) /\ heard \in Seq(Advert)
    BY DEF Observe, TypeInv
  <2> QED
    BY <2>1
<1>9. \A v \in VRID : /\ ~Known(v)' => vrids'[v] = Unheard
                      /\ Known(v)' => vrids'[v].stepdown = (vrids'[v].priority = 0)
                      /\ vrids'[v].lastSeen <= now'
  <2> SUFFICES ASSUME NEW v \in VRID
               PROVE  /\ vrids'[v].master = NoAddr => vrids'[v] = Unheard
                      /\ vrids'[v].master # NoAddr =>
                           vrids'[v].stepdown = (vrids'[v].priority = 0)
                      /\ vrids'[v].lastSeen <= now'
    BY DEF Known
  <2>1. CASE v = a.vrid
    <3>1. vrids'[v] = Heard(s, a)
      BY <2>1, <1>1, <1>6
    <3>2. /\ Heard(s, a).master = a.src /\ Heard(s, a).priority = a.priority
          /\ Heard(s, a).stepdown = (a.priority = 0) /\ Heard(s, a).lastSeen = now
      BY DEF Heard
    <3> QED
      BY <3>1, <3>2, <1>1, <1>2
  <2>2. CASE v # a.vrid
    <3>1. vrids'[v] = vrids[v]
      BY <2>2, <1>6
    <3> QED
      BY <3>1, <1>2 DEF TypeInv, Known
  <2> QED
    BY <2>1, <2>2
<1> QED
  BY <1>2, <1>3, <1>4, <1>7, <1>8, <1>9 DEF TypeInv

LEMMA ObserveKeyCap ==
  ASSUME TypeInv, KeyCap, NEW a \in Advert, Observe(a)
  PROVE  KeyCap'
<1> DEFINE tr == <<a.vrid, vrids[a.vrid].master, a.src>>
<1>1. tr \in Transition
  BY TransitionOfAdvert
<1>2. IsFiniteSet(Keys) /\ Cardinality(Keys) \in Nat
  BY KeysFinite
<1>3. MaxTransitionKeys \in Nat /\ dropped \in Nat
  BY VrrpAssumption DEF TypeInv
<1>4. CASE vrids[a.vrid].master = a.src
  <2>1. Keys' = Keys /\ dropped' = dropped
    BY <1>4 DEF Observe, Keys
  <2> QED
    BY <2>1 DEF KeyCap
<1>5. CASE vrids[a.vrid].master # a.src
  <2>1. count(tr)
    BY <1>5 DEF Observe
  <2>2. CASE tr \in Keys
    <3>1. Keys' = Keys \cup {tr} /\ dropped' = dropped
      BY <1>1, <2>1, <2>2, CountKeys DEF Fits
    <3>2. Keys' = Keys
      BY <2>2, <3>1
    <3> QED
      BY <3>1, <3>2 DEF KeyCap
  <2>3. CASE tr \notin Keys /\ Cardinality(Keys) < MaxTransitionKeys
    <3>1. Keys' = Keys \cup {tr} /\ dropped' = dropped
      BY <1>1, <2>1, <2>3, CountKeys DEF Fits
    <3>2. Cardinality(Keys') = Cardinality(Keys) + 1
      BY <1>2, <2>3, <3>1, FS_AddElement
    <3>3. ~(dropped > 0)
      BY <2>3, <1>2, <1>3 DEF KeyCap
    <3> QED
      BY <1>2, <1>3, <2>3, <3>1, <3>2, <3>3 DEF KeyCap
  <2>4. CASE tr \notin Keys /\ ~(Cardinality(Keys) < MaxTransitionKeys)
    <3>1. Keys' = Keys
      BY <1>1, <2>1, <2>4, CountDrops DEF Fits
    <3>2. Cardinality(Keys) = MaxTransitionKeys
      BY <1>2, <1>3, <2>4 DEF KeyCap
    <3> QED
      BY <3>1, <3>2, <1>3 DEF KeyCap
  <2> QED
    BY <2>2, <2>3, <2>4
<1> QED
  BY <1>4, <1>5

(* Nothing that is counted is ever taken back. *)
Grows ==
  /\ \A tr \in Transition : transitions'[tr] >= transitions[tr]
  /\ \A v \in VRID : stepdowns'[v] >= stepdowns[v]
  /\ dropped' >= dropped

LEMMA ObserveGrows ==
  ASSUME TypeInv, NEW a \in Advert, Observe(a)
  PROVE  Grows
<1> DEFINE tr == <<a.vrid, vrids[a.vrid].master, a.src>>
<1>1. tr \in Transition /\ a.vrid \in VRID
  BY TransitionOfAdvert
<1>2. (\A u \in Transition : transitions'[u] >= transitions[u]) /\ dropped' >= dropped
  <2>1. CASE vrids[a.vrid].master = a.src
    BY <2>1 DEF Observe, TypeInv
  <2>2. CASE vrids[a.vrid].master # a.src
    <3>1. count(tr)
      BY <2>2 DEF Observe
    <3>2. CASE Fits(tr)
      BY <1>1, <3>1, <3>2, CountKeys DEF TypeInv
    <3>3. CASE ~Fits(tr)
      BY <1>1, <3>1, <3>3, CountDrops DEF TypeInv
    <3> QED
      BY <3>2, <3>3
  <2> QED
    BY <2>1, <2>2
<1>3. \A v \in VRID : stepdowns'[v] >= stepdowns[v]
  BY <1>1 DEF Observe, TypeInv
<1> QED
  BY <1>2, <1>3 DEF Grows

(* Counts that grow go on explaining a state. *)
LEMMA StillCounted ==
  ASSUME NEW states \in [VRID -> VRIDState],
         NEW trans \in [Transition -> Nat], NEW more \in [Transition -> Nat],
         NEW drop \in Nat, NEW drop2 \in Nat,
         \A tr \in Transition : more[tr] >= trans[tr], drop2 >= drop,
         MasterCounted(states, trans, drop)
  PROVE  MasterCounted(states, more, drop2)
<1> SUFFICES ASSUME NEW v \in VRID, states[v].master # NoAddr, ~(drop2 > 0)
             PROVE  \E from \in Addr \cup {NoAddr} : more[<<v, from, states[v].master>>] > 0
  BY DEF MasterCounted
<1>1. PICK from \in Addr \cup {NoAddr} : trans[<<v, from, states[v].master>>] > 0
  BY DEF MasterCounted
<1>2. states[v].master \in Addr
  BY DEF VRIDState
<1>3. <<v, from, states[v].master>> \in Transition
  BY <1>2 DEF Transition
<1> DEFINE tr == <<v, from, states[v].master>>
<1>4. trans[tr] \in Nat /\ more[tr] \in Nat /\ more[tr] >= trans[tr] /\ trans[tr] > 0
  BY <1>1, <1>3
<1>5. more[tr] > 0
  BY <1>4
<1> QED
  BY <1>5

LEMMA StillStepdownCounted ==
  ASSUME NEW states, NEW steps \in [VRID -> Nat], NEW more \in [VRID -> Nat],
         \A v \in VRID : more[v] >= steps[v],
         StepdownCounted(states, steps)
  PROVE  StepdownCounted(states, more)
  BY DEF StepdownCounted

LEMMA ObserveCounted ==
  ASSUME TypeInv, StateIsCounted, NEW a \in Advert, Observe(a)
  PROVE  StateIsCounted'
<1> DEFINE s  == vrids[a.vrid]
           tr == <<a.vrid, s.master, a.src>>
<1>1. /\ a.vrid \in VRID /\ a.src \in Addr /\ s \in VRIDState /\ tr \in Transition
  BY TransitionOfAdvert
<1>2. TypeInv' /\ Grows
  BY ObserveType, ObserveGrows
<1>3. vrids' = [vrids EXCEPT ![a.vrid] = Heard(s, a)] /\ vrids \in [VRID -> VRIDState]
  BY DEF Observe, TypeInv
<1>4. MasterCounted(vrids, transitions', dropped')
  BY <1>2, StillCounted DEF TypeInv, StateIsCounted, Grows
<1>5. StepdownCounted(vrids, stepdowns')
  BY <1>2, StillStepdownCounted DEF TypeInv, StateIsCounted, Grows
<1>6. vrids'[a.vrid].master = a.src /\ vrids'[a.vrid].stepdown = (a.priority = 0)
  BY <1>1, <1>3 DEF Heard
<1>7. \A v \in VRID : v # a.vrid => vrids'[v] = vrids[v]
  BY <1>3
<1>8. dropped' > 0 \/ \E from \in Addr \cup {NoAddr} :
        transitions'[<<a.vrid, from, a.src>>] > 0
  <2>1. CASE s.master = a.src
    <3>1. a.src # NoAddr
      BY <1>1, VrrpAssumption
    <3> QED
      BY <2>1, <3>1, <1>1, <1>4 DEF MasterCounted
  <2>2. CASE s.master # a.src
    <3>1. count(tr)
      BY <2>2 DEF Observe
    <3>2. CASE Fits(tr)
      <4>1. transitions'[tr] > 0 /\ s.master \in Addr \cup {NoAddr}
        BY <1>1, <3>1, <3>2, CountKeys DEF VRIDState
      <4> QED
        BY <4>1
    <3>3. CASE ~Fits(tr)
      BY <1>1, <3>1, <3>3, CountDrops
    <3> QED
      BY <3>2, <3>3
  <2> QED
    BY <2>1, <2>2
<1>9. a.priority = 0 => stepdowns'[a.vrid] > 0
  <2>1. CASE s.stepdown
    BY <2>1, <1>1, <1>5 DEF StepdownCounted
  <2>2. CASE ~s.stepdown
    <3>1. a.priority = 0 => stepdowns' = [stepdowns EXCEPT ![a.vrid] = @ + 1]
      BY <2>2 DEF Observe, StepsDown
    <3> QED
      BY <3>1, <1>1 DEF TypeInv
  <2> QED
    BY <2>1, <2>2
<1>10. MasterCounted(vrids', transitions', dropped')
  BY <1>4, <1>6, <1>7, <1>8 DEF MasterCounted
<1>11. StepdownCounted(vrids', stepdowns')
  BY <1>5, <1>6, <1>7, <1>9 DEF StepdownCounted
<1> QED
  BY <1>10, <1>11 DEF StateIsCounted

-----------------------------------------------------------------------------
(* The tracker *)

LEMMA NextTInv == TInv /\ [Next]_vars => TInv'
<1> SUFFICES ASSUME TInv, [Next]_vars PROVE TInv'
  OBVIOUS
<1>1. ASSUME NEW a \in Advert, Observe(a)
      PROVE  TInv'
  BY <1>1, ObserveType, ObserveKeyCap, ObserveCounted DEF TInv
<1>2. CASE Advance
  <2>1. now' \in Nat /\ now' >= now
    <3>1. PICK d \in Delays : now' = now + d
      BY <1>2 DEF Advance
    <3>2. d \in Nat /\ now \in Nat
      BY VrrpAssumption DEF TInv, TypeInv
    <3> QED
      BY <3>1, <3>2
  <2>2. UNCHANGED trackerVars
    BY <1>2 DEF Advance
  <2>3. \A v \in VRID : vrids[v].lastSeen <= now'
    <3> SUFFICES ASSUME NEW v \in VRID PROVE vrids[v].lastSeen <= now'
      OBVIOUS
    <3>1. vrids[v].lastSeen \in Nat /\ vrids[v].lastSeen <= now /\ now \in Nat
      BY DEF TInv, TypeInv, VRIDState
    <3> QED
      BY <2>1, <3>1
  <2>4. TypeInv'
    BY <2>1, <2>2, <2>3 DEF trackerVars, TInv, TypeInv, Known
  <2>5. KeyCap' /\ StateIsCounted'
    BY <2>2 DEF trackerVars, TInv, KeyCap, Keys, StateIsCounted
  <2> QED
    BY <2>4, <2>5 DEF TInv
<1>3. CASE UNCHANGED vars
  BY <1>3 DEF vars, trackerVars, TInv, TypeInv, Known, KeyCap, Keys, StateIsCounted
<1> QED
  BY <1>1, <1>2, <1>3, VrrpAssumption DEF Next

LEMMA TInvCorrect == Spec => []TInv
  BY InitTInv, NextTInv, PTL DEF Spec

(* The types of Tracker's fields, what an unheard router looks like, and   *)
(* what the stepdown flag means.                                           *)
THEOREM TrackerTypeCorrect == Spec => []TypeInv
<1>1. TInv => TypeInv
  BY DEF TInv
<1> QED
  BY <1>1, TInvCorrect, PTL

(* For every cap, every set of sources and every sequence of adverts: the  *)
(* transitions map never outgrows maxTransitionKeys, and nothing is        *)
(* dropped before it is full.                                              *)
THEOREM KeyCapCorrect == Spec => []KeyCap
<1>1. TInv => KeyCap
  BY DEF TInv
<1> QED
  BY <1>1, TInvCorrect, PTL

(* The current master of every router is the target of a counted           *)
(* transition, or some were dropped; a shown stepdown is counted.          *)
THEOREM StateCountedCorrect == Spec => []StateIsCounted
<1>1. TInv => StateIsCounted
  BY DEF TInv
<1> QED
  BY <1>1, TInvCorrect, PTL

-----------------------------------------------------------------------------
(* The scrape *)

(* What has been read so far is explained by the counters as they are now, *)
(* or, once they were read, as they were then.                             *)
CInv ==
  /\ CollectorTypeInv
  /\ pc = "stepdowns" => StepdownCounted(scrape.states, stepdowns)
  /\ pc \in {"stepdowns", "dropped"} => MasterCounted(scrape.states, scrape.trans, dropped)
  /\ pc = "dropped" => StepdownCounted(scrape.states, scrape.steps)
  /\ ScrapeExplained

ScrapeType ==
  [enabled : BOOLEAN, at : Nat, since : Nat, states : [VRID -> VRIDState],
   trans : [Transition -> Nat], steps : [VRID -> Nat], drop : Nat]

LEMMA NothingType ==
  /\ Nothing \in ScrapeType
  /\ [Nothing EXCEPT !.enabled = TRUE] \in ScrapeType
  /\ ~Nothing.enabled
<1>1. Unheard \in VRIDState
  BY DEF Unheard, VRIDState
<1>2. /\ [v \in VRID |-> Unheard] \in [VRID -> VRIDState]
      /\ [tr \in Transition |-> 0] \in [Transition -> Nat]
      /\ [v \in VRID |-> 0] \in [VRID -> Nat]
  BY <1>1
<1> QED
  BY <1>2 DEF Nothing, ScrapeType

(* A scrape's steps are stuttering steps of the tracker. *)
LEMMA CollectorStep == [CollectorNext]_all => [Next]_vars
<1> SUFFICES ASSUME [CollectorNext]_all PROVE [Next]_vars
  OBVIOUS
<1>1. CASE Hear
  BY <1>1 DEF Hear, Next
<1>2. CASE Clock
  BY <1>2 DEF Clock, Next
<1>3. CASE ListenStarts \/ ListenStops \/ Begin \/ Finish \/ UNCHANGED all
  BY <1>3 DEF ListenStarts, ListenStops, Begin, Finish, all
<1>4. CASE ReadClock \/ Snapshot \/ Stepdowns \/ Dropped
  BY <1>4 DEF ReadClock, Snapshot, Stepdowns, Dropped, Read
<1> QED
  BY <1>1, <1>2, <1>3, <1>4 DEF CollectorNext

LEMMA InitCInv == CollectorInit => CInv
<1> SUFFICES ASSUME CollectorInit PROVE CInv
  OBVIOUS
<1>1. TypeInv
  BY InitTInv DEF CollectorInit, TInv
<1> QED
  BY <1>1, NothingType DEF CollectorInit, CInv, CollectorTypeInv, ScrapeType,
                           ScrapeExplained, Shown

(* The tracker moves, the scrape does not. *)
LEMMA TrackerMovesCInv ==
  ASSUME CInv, TypeInv', Grows, UNCHANGED <<mode, listener, pc, scrape>>
  PROVE  CInv'
<1>1. /\ scrape.states \in [VRID -> VRIDState] /\ scrape.trans \in [Transition -> Nat]
      /\ stepdowns \in [VRID -> Nat] /\ stepdowns' \in [VRID -> Nat]
      /\ dropped \in Nat /\ dropped' \in Nat
  BY DEF CInv, CollectorTypeInv, TypeInv
<1>2. StepdownCounted(scrape.states, stepdowns) => StepdownCounted(scrape.states, stepdowns')
  BY <1>1, StillStepdownCounted DEF Grows
<1>3. MasterCounted(scrape.states, scrape.trans, dropped) =>
        MasterCounted(scrape.states, scrape.trans, dropped')
  <2>1. \A tr \in Transition : scrape.trans[tr] >= scrape.trans[tr]
    BY <1>1
  <2> QED
    BY <1>1, <2>1, StillCounted DEF Grows
<1>4. CollectorTypeInv'
  BY DEF CInv, CollectorTypeInv
<1>5. ScrapeExplained'
  BY DEF CInv, ScrapeExplained, Shown
<1> QED
  BY <1>2, <1>3, <1>4, <1>5 DEF CInv

LEMMA NextCInv == TInv /\ CInv /\ [CollectorNext]_all => CInv'
<1> SUFFICES ASSUME TInv, CInv, [CollectorNext]_all PROVE CInv'
  OBVIOUS
<1>1. TypeInv'
  BY CollectorStep, NextTInv DEF TInv
<1>2. CASE Hear
  <2>1. PICK a \in Advert : Observe(a)
    BY <1>2, VrrpAssumption DEF Hear
  <2>2. Grows
    BY <2>1, ObserveGrows DEF TInv
  <2> QED
    BY <1>1, <1>2, <2>2, TrackerMovesCInv DEF Hear, scrapeVars
<1>3. CASE Clock
  <2>1. Grows
    BY <1>3 DEF Clock, Advance, trackerVars, Grows, TInv, TypeInv
  <2> QED
    BY <1>1, <1>3, <2>1, TrackerMovesCInv DEF Clock, scrapeVars
<1>4. CASE UNCHANGED all
  <2>1. Grows
    BY <1>4 DEF all, vars, trackerVars, Grows, TInv, TypeInv
  <2> QED
    BY <1>1, <1>4, <2>1, TrackerMovesCInv DEF all, scrapeVars
<1>5. CASE ListenStarts
  BY <1>1, <1>5 DEF ListenStarts, vars, trackerVars, scrapeVars, CInv, CollectorTypeInv,
                    ScrapeExplained, Shown
<1>6. CASE ListenStops
  BY <1>1, <1>6 DEF ListenStops, vars, trackerVars, scrapeVars, CInv, CollectorTypeInv,
                    ScrapeExplained, Shown
<1>7. CASE Begin
  BY <1>1, <1>7, NothingType
  DEF Begin, enabled, vars, trackerVars, CInv, CollectorTypeInv, ScrapeType,
      ScrapeExplained, Shown
<1>8. CASE ReadClock
  <2>1. pc' = "snapshot" /\ scrape' = [scrape EXCEPT !.at = now, !.since = Len(heard)]
    BY <1>8 DEF ReadClock, Read, After
  <2>2. now \in Nat /\ Len(heard) \in Nat
    BY DEF TInv, TypeInv
  <2> QED
    BY <1>1, <1>8, <2>1, <2>2
    DEF ReadClock, Read, vars, trackerVars, CInv, CollectorTypeInv, ScrapeExplained, Shown
<1>9. CASE Snapshot
  <2>1. pc' = "stepdowns" /\ scrape' = [scrape EXCEPT !.states = vrids, !.trans = transitions]
    BY <1>9 DEF Snapshot, Read, After
  <2>2. UNCHANGED <<mode, listener, vrids, transitions, stepdowns, dropped>>
    BY <1>9 DEF Snapshot, Read, vars, trackerVars
  <2>3. vrids \in [VRID -> VRIDState] /\ transitions \in [Transition -> Nat]
    BY DEF TInv, TypeInv
  <2>4. scrape'.states = vrids /\ scrape'.trans = transitions
    BY <2>1 DEF CInv, CollectorTypeInv
  <2>5. /\ StepdownCounted(scrape'.states, stepdowns')
        /\ MasterCounted(scrape'.states, scrape'.trans, dropped')
    BY <2>2, <2>4 DEF TInv, StateIsCounted
  <2>6. CollectorTypeInv'
    BY <1>1, <2>1, <2>2, <2>3 DEF CInv, CollectorTypeInv
  <2> QED
    BY <2>1, <2>5, <2>6 DEF CInv, ScrapeExplained, Shown
<1>10. CASE Stepdowns
  <2>1. pc = "stepdowns" /\ pc' = "dropped" /\ scrape' = [scrape EXCEPT !.steps = stepdowns]
    BY <1>10 DEF Stepdowns, Read, After
  <2>2. UNCHANGED <<mode, listener, stepdowns, dropped>>
    BY <1>10 DEF Stepdowns, Read, vars, trackerVars
  <2>3. /\ scrape'.states = scrape.states /\ scrape'.trans = scrape.trans
        /\ scrape'.steps = stepdowns
    BY <2>1 DEF CInv, CollectorTypeInv
  <2>4. CollectorTypeInv'
    BY <1>1, <2>1, <2>2 DEF CInv, CollectorTypeInv, TInv, TypeInv
  <2> QED
    BY <2>1, <2>2, <2>3, <2>4 DEF CInv, ScrapeExplained, Shown
<1>11. CASE Dropped
  <2>1. pc = "dropped" /\ pc' = "done" /\ scrape' = [scrape EXCEPT !.drop = dropped]
    BY <1>11 DEF Dropped, Read, After
  <2>2. UNCHANGED <<mode, listener>>
    BY <1>11 DEF Dropped, Read
  <2>3. /\ scrape'.states = scrape.states /\ scrape'.trans = scrape.trans
        /\ scrape'.steps = scrape.steps /\ scrape'.drop = dropped
    BY <2>1 DEF CInv, CollectorTypeInv
  <2>4. CollectorTypeInv'
    BY <1>1, <2>1, <2>2 DEF CInv, CollectorTypeInv, TInv, TypeInv
  <2> QED
    BY <2>1, <2>3, <2>4 DEF CInv, ScrapeExplained, Shown
<1>12. CASE Finish
  BY <1>1, <1>12, NothingType
  DEF Finish, vars, trackerVars, CInv, CollectorTypeInv, ScrapeType, ScrapeExplained, Shown
<1> QED
  BY <1>2, <1>3, <1>4, <1>5, <1>6, <1>7, <1>8, <1>9, <1>10, <1>11, <1>12 DEF CollectorNext

LEMMA CInvCorrect == CollectorSpec => [](TInv /\ CInv)
<1>1. CollectorInit => TInv /\ CInv
  BY InitTInv, InitCInv DEF CollectorInit
<1>2. TInv /\ CInv /\ [CollectorNext]_all => (TInv /\ CInv)'
  BY NextTInv, NextCInv, CollectorStep
<1> QED
  BY <1>1, <1>2, PTL DEF CollectorSpec

(* The collector's state and what a scrape has collected keep their types. *)
THEOREM CollectorTypeCorrect == CollectorSpec => []CollectorTypeInv
<1>1. CInv => CollectorTypeInv
  BY DEF CInv
<1> QED
  BY <1>1, CInvCorrect, PTL

(* Three separate reads of the tracker make one coherent scrape, however   *)
(* many adverts arrive between them.                                       *)
THEOREM ScrapeCorrect == CollectorSpec => []ScrapeExplained
<1>1. CInv => ScrapeExplained
  BY DEF CInv
<1> QED
  BY <1>1, CInvCorrect, PTL

-----------------------------------------------------------------------------
(* The master-down interval *)

(* The skew is at most one interval. *)
LEMMA SkewBound ==
  ASSUME NEW p \in 0 .. 255, NEW i \in Nat
  PROVE  /\ ((256 - p) * i) \div 256 \in Nat
         /\ ((256 - p) * i) \div 256 <= i
<1> DEFINE q == (256 - p) * i
<1>1. q \in Nat
  OBVIOUS
<1>2. q <= 256 * i
  OBVIOUS
<1> HIDE DEF q
<1>3. q \div 256 \in Nat /\ q \div 256 <= i
  BY <1>1, <1>2
<1> QED
  BY <1>3 DEF q

(* For every priority and every interval, the master gauge keeps within 3  *)
(* and 4 intervals.                                                        *)
THEOREM GaugeCorrect == CollectorSpec => []MasterGaugeTimely
<1>1. CInv => MasterGaugeTimely
  <2> SUFFICES ASSUME CInv, NEW v \in VRID, scrape.states[v].master # NoAddr
               PROVE  LET s == scrape.states[v]  age == scrape.at - s.lastSeen IN
                      /\ ~s.stepdown /\ age <= 3 * s.interval => MasterVal(v)
                      /\ age > 4 * s.interval \/ s.stepdown => ~MasterVal(v)
    BY DEF MasterGaugeTimely
  <2> DEFINE s    == scrape.states[v]
             skew == ((256 - s.priority) * s.interval) \div 256
  <2>1. /\ s.priority \in 0 .. 255 /\ s.interval \in Nat /\ s.lastSeen \in Nat
        /\ scrape.at \in Nat /\ s.stepdown \in BOOLEAN
    BY DEF CInv, CollectorTypeInv, VRIDState
  <2>2. skew \in Nat /\ skew <= s.interval
    <3>1. ASSUME NEW p \in 0 .. 255, NEW i \in Nat
          PROVE  ((256 - p) * i) \div 256 \in Nat /\ ((256 - p) * i) \div 256 <= i
      BY SkewBound
    <3> HIDE DEF s
    <3> QED
      BY <2>1, <3>1
  <2>3. MasterVal(v) <=> scrape.at - s.lastSeen <= 3 * s.interval + skew /\ ~s.stepdown
    BY DEF MasterVal, MasterAlive, MasterDownInterval
  <2> HIDE DEF skew, s
  <2>4. /\ ~s.stepdown /\ scrape.at - s.lastSeen <= 3 * s.interval => MasterVal(v)
        /\ scrape.at - s.lastSeen > 4 * s.interval \/ s.stepdown => ~MasterVal(v)
    BY <2>1, <2>2, <2>3
  <2> QED
    BY <2>4 DEF s
<1> QED
  BY <1>1, CInvCorrect, PTL

-----------------------------------------------------------------------------
(* What the tracker says of a router, and the adverts it came from *)

(* The advert i is the last one of its router. *)
Last(i) == \A j \in DOMAIN heard : heard[j].vrid = heard[i].vrid => j <= i

(* A known router is in the state of its last advert; of an unknown router *)
(* there was none.                                                         *)
FromHeard ==
  \A v \in VRID :
    IF Known(v)
    THEN \E i \in DOMAIN heard : /\ heard[i].vrid = v /\ Last(i)
                                 /\ heard[i].src = vrids[v].master
                                 /\ heard[i].priority = vrids[v].priority
    ELSE \A j \in DOMAIN heard : heard[j].vrid # v

LEMMA LatestIs ==
  ASSUME NEW S \in SUBSET Int, NEW i \in S, \A k \in S : k <= i
  PROVE  Latest(S) = i
<1>1. Latest(S) \in S /\ \A k \in S : k <= Latest(S)
  BY DEF Latest
<1>2. Latest(S) \in Int /\ i \in Int /\ i <= Latest(S) /\ Latest(S) <= i
  BY <1>1
<1> QED
  BY <1>2

(* An advert is added at the end. *)
LEMMA HeardGrows ==
  ASSUME TypeInv, NEW a \in Advert, Observe(a)
  PROVE  /\ Len(heard) \in Nat /\ DOMAIN heard = 1 .. Len(heard)
         /\ DOMAIN heard' = 1 .. Len(heard) + 1
         /\ \A j \in DOMAIN heard : heard'[j] = heard[j] /\ heard[j] \in Advert
         /\ heard'[Len(heard) + 1] = a
<1>1. heard \in Seq(Advert) /\ heard' = Append(heard, a)
  BY DEF TypeInv, Observe
<1> QED
  BY <1>1

(* The state of the routers after it. *)
LEMMA HeardState ==
  ASSUME TypeInv, NEW a \in Advert, Observe(a)
  PROVE  /\ vrids'[a.vrid] = Heard(vrids[a.vrid], a)
         /\ vrids'[a.vrid].master = a.src /\ vrids'[a.vrid].priority = a.priority
         /\ Known(a.vrid)'
         /\ \A v \in VRID \ {a.vrid} : vrids'[v] = vrids[v]
<1>1. a.vrid \in VRID /\ a.src # NoAddr
  BY TransitionOfAdvert
<1>2. vrids' = [vrids EXCEPT ![a.vrid] = Heard(vrids[a.vrid], a)] /\ vrids \in [VRID -> VRIDState]
  BY DEF Observe, TypeInv
<1>3. vrids'[a.vrid] = Heard(vrids[a.vrid], a)
  BY <1>1, <1>2
<1> QED
  BY <1>1, <1>2, <1>3 DEF Heard, Known

LEMMA ObserveFromHeard ==
  ASSUME TypeInv, FromHeard, NEW a \in Advert, Observe(a)
  PROVE  FromHeard'
<1> PICK n \in Nat : n = Len(heard)
  BY HeardGrows
<1>1. /\ DOMAIN heard = 1 .. n /\ DOMAIN heard' = 1 .. n + 1
      /\ \A j \in 1 .. n : heard'[j] = heard[j]
      /\ heard'[n + 1] = a
  BY HeardGrows
<1>2. /\ vrids'[a.vrid].master = a.src /\ vrids'[a.vrid].priority = a.priority
      /\ Known(a.vrid)' /\ \A v \in VRID \ {a.vrid} : vrids'[v] = vrids[v]
  BY HeardState
<1> SUFFICES ASSUME NEW v \in VRID
             PROVE  IF Known(v)'
                    THEN \E i \in DOMAIN heard' : /\ heard'[i].vrid = v /\ Last(i)'
                                                  /\ heard'[i].src = vrids'[v].master
                                                  /\ heard'[i].priority = vrids'[v].priority
                    ELSE \A j \in DOMAIN heard' : heard'[j].vrid # v
  BY DEF FromHeard
<1>3. CASE v = a.vrid
  <2>1. n + 1 \in DOMAIN heard' /\ \A j \in DOMAIN heard' : j <= n + 1
    BY <1>1
  <2>2. Last(n + 1)'
    BY <2>1 DEF Last
  <2> QED
    BY <1>1, <1>2, <1>3, <2>1, <2>2
<1>4. CASE v # a.vrid /\ Known(v)
  <2>1. PICK i \in DOMAIN heard : /\ heard[i].vrid = v /\ Last(i)
                                  /\ heard[i].src = vrids[v].master
                                  /\ heard[i].priority = vrids[v].priority
    BY <1>4 DEF FromHeard
  <2>2. i \in DOMAIN heard' /\ heard'[i] = heard[i]
    BY <1>1
  <2>3. Last(i)'
    BY <1>1, <1>4, <2>1, <2>2 DEF Last
  <2> QED
    BY <1>2, <1>4, <2>1, <2>2, <2>3 DEF Known
<1>5. CASE v # a.vrid /\ ~Known(v)
  <2>1. \A j \in DOMAIN heard : heard[j].vrid # v
    BY <1>5 DEF FromHeard
  <2> QED
    BY <1>1, <1>2, <1>5, <2>1 DEF Known
<1> QED
  BY <1>3, <1>4, <1>5

-----------------------------------------------------------------------------
(* Adverts are not taken back: what was said of an advert stays true *)

(* There is a last advert before each that is not the first of its router. *)
BeforeEnds == \A i \in DOMAIN heard :
  Before(i) # {} => Latest(Before(i)) \in Before(i)

LEMMA BeforeStays ==
  ASSUME TypeInv, BeforeEnds, NEW a \in Advert, Observe(a), NEW i \in DOMAIN heard
  PROVE  /\ Before(i)' = Before(i) /\ Latest(Before(i))' = Latest(Before(i))
         /\ Before(i) # {} => heard'[Latest(Before(i))] = heard[Latest(Before(i))]
         /\ MasterAt(i)' = MasterAt(i) /\ Change(i)' = Change(i)
<1> DEFINE n == Len(heard)
<1>1. /\ n \in Nat /\ DOMAIN heard = 1 .. n
      /\ \A j \in 1 .. n : heard'[j] = heard[j]
  BY HeardGrows
<1> HIDE DEF n
<1>2. i \in 1 .. n /\ heard'[i] = heard[i]
  BY <1>1
<1>3. \A j \in 1 .. i - 1 : heard'[j] = heard[j]
  BY <1>1, <1>2
<1>4. Before(i)' = Before(i)
  BY <1>2, <1>3 DEF Before
<1>5. Latest(Before(i))' = Latest(Before(i))
  BY <1>4 DEF Latest
<1>6. Before(i) # {} => heard'[Latest(Before(i))] = heard[Latest(Before(i))]
  <2>1. Before(i) # {} => Latest(Before(i)) \in 1 .. i - 1
    BY DEF BeforeEnds, Before
  <2> QED
    BY <2>1, <1>3
<1>7. MasterAt(i)' = MasterAt(i)
  BY <1>4, <1>5, <1>6 DEF MasterAt
<1> QED
  BY <1>2, <1>4, <1>5, <1>6, <1>7 DEF Change

(* The adverts before the new one, and the state they left. *)
LEMMA BeforeNew ==
  ASSUME TypeInv, FromHeard, NEW a \in Advert, Observe(a),
         NEW n \in Nat, Len(heard) = n
  PROVE  /\ Before(n + 1)' = {} <=> vrids[a.vrid].master = NoAddr
         /\ Before(n + 1)' # {} =>
              /\ Latest(Before(n + 1))' \in Before(n + 1)'
              /\ heard'[Latest(Before(n + 1))'].priority = vrids[a.vrid].priority
         /\ MasterAt(n + 1)' = vrids[a.vrid].master
         /\ Change(n + 1)' = <<a.vrid, vrids[a.vrid].master, a.src>>
<1> DEFINE s == vrids[a.vrid]
           B == {j \in DOMAIN heard : heard[j].vrid = a.vrid}
<1>1. /\ DOMAIN heard = 1 .. n
      /\ \A j \in 1 .. n : heard'[j] = heard[j]
      /\ heard'[n + 1] = a
  BY HeardGrows
<1>2. a.vrid \in VRID
  BY TransitionOfAdvert
<1>3. Before(n + 1)' = B
  BY <1>1 DEF Before
<1>4. Latest(Before(n + 1))' = Latest(B)
  BY <1>3 DEF Latest
<1>5. CASE s.master = NoAddr
  <2>1. B = {}
    BY <1>2, <1>5 DEF FromHeard, Known
  <2>2. MasterAt(n + 1)' = s.master
    BY <1>3, <1>5, <2>1 DEF MasterAt
  <2> QED
    BY <1>1, <1>3, <1>5, <2>1, <2>2 DEF Change
<1>6. CASE s.master # NoAddr
  <2>1. PICK i \in DOMAIN heard : /\ heard[i].vrid = a.vrid /\ Last(i)
                                  /\ heard[i].src = s.master /\ heard[i].priority = s.priority
    BY <1>2, <1>6 DEF FromHeard, Known
  <2>2. i \in B /\ B \in SUBSET Int /\ \A k \in B : k <= i
    BY <1>1, <2>1 DEF Last
  <2> HIDE DEF B
  <2>3. Latest(B) = i
    BY <2>2, LatestIs
  <2>4. heard'[Latest(B)] = heard[i]
    BY <1>1, <2>1, <2>3
  <2>5. MasterAt(n + 1)' = s.master
    BY <1>3, <1>4, <2>1, <2>2, <2>4 DEF MasterAt
  <2> QED
    BY <1>1, <1>3, <1>4, <1>6, <2>1, <2>2, <2>3, <2>4, <2>5 DEF Change
<1> QED
  BY <1>5, <1>6

LEMMA ObserveBeforeEnds ==
  ASSUME TypeInv, FromHeard, BeforeEnds, NEW a \in Advert, Observe(a)
  PROVE  BeforeEnds'
<1> PICK n \in Nat : n = Len(heard)
  BY HeardGrows
<1>1. DOMAIN heard = 1 .. n /\ DOMAIN heard' = 1 .. n + 1
  BY HeardGrows
<1> SUFFICES ASSUME NEW i \in DOMAIN heard', Before(i)' # {}
             PROVE  Latest(Before(i))' \in Before(i)'
  BY DEF BeforeEnds
<1>2. CASE i \in DOMAIN heard
  BY <1>2, BeforeStays DEF BeforeEnds
<1>3. CASE i = n + 1
  BY <1>3, BeforeNew
<1> QED
  BY <1>1, <1>2, <1>3

-----------------------------------------------------------------------------
(* The changes of a master that the adverts make *)

Changes    == {i \in DOMAIN heard : MasterAt(i) # heard[i].src}
Times(c)   == {i \in Changes : Change(i) = c}
Pairs      == {Change(i) : i \in Changes}
Earlier(c) == {d \in Pairs : \E i \in Times(d) : \A j \in Times(c) : i < j}
Admitted   == {c \in Pairs : Cardinality(Earlier(c)) < MaxTransitionKeys}
Missed     == {i \in Changes : Change(i) \notin Admitted}

(* While the map has room, every pair was admitted. *)
TransitionsInv ==
  /\ Keys = Admitted
  /\ \A c \in Admitted : transitions[c] = Cardinality(Times(c))
  /\ dropped = Cardinality(Missed)
  /\ Cardinality(Keys) < MaxTransitionKeys => Admitted = Pairs

HistoryInv == FromHeard /\ BeforeEnds

LEMMA ChangesFinite ==
  ASSUME TypeInv
  PROVE  /\ IsFiniteSet(Changes) /\ \A i \in Changes : i \in Nat
         /\ \A T \in SUBSET Changes : IsFiniteSet(T) /\ Cardinality(T) \in Nat
         /\ IsFiniteSet(Pairs) /\ \A T \in SUBSET Pairs : IsFiniteSet(T) /\ Cardinality(T) \in Nat
<1>1. Len(heard) \in Nat /\ DOMAIN heard = 1 .. Len(heard)
  BY DEF TypeInv
<1>2. IsFiniteSet(1 .. Len(heard))
  BY <1>1, FS_Interval
<1>3. Changes \in SUBSET (1 .. Len(heard))
  BY <1>1 DEF Changes
<1>4. IsFiniteSet(Changes)
  BY <1>2, <1>3, FS_Subset
<1> DEFINE change == [i \in Changes |-> Change(i)]
<1>5. change \in Surjection(Changes, Pairs)
  BY DEF Surjection, Pairs
<1>6. IsFiniteSet(Pairs)
  <2> HIDE DEF change
  <2> QED
    BY <1>4, <1>5, FS_Surjection
<1>7. \A T \in SUBSET Changes : IsFiniteSet(T) /\ Cardinality(T) \in Nat
  BY <1>4, FS_Subset, FS_CardinalityType
<1>8. \A T \in SUBSET Pairs : IsFiniteSet(T) /\ Cardinality(T) \in Nat
  BY <1>6, FS_Subset, FS_CardinalityType
<1> QED
  BY <1>1, <1>3, <1>4, <1>6, <1>7, <1>8

LEMMA SameMaster ==
  ASSUME TypeInv, HistoryInv, NEW a \in Advert, Observe(a), vrids[a.vrid].master = a.src
  PROVE  /\ Changes' = Changes /\ Pairs' = Pairs /\ Admitted' = Admitted /\ Missed' = Missed
         /\ \A c : Times(c)' = Times(c)
<1> PICK n \in Nat : n = Len(heard)
  BY HeardGrows
<1>1. /\ DOMAIN heard = 1 .. n /\ DOMAIN heard' = 1 .. n + 1
      /\ \A j \in 1 .. n : heard'[j] = heard[j]
      /\ heard'[n + 1] = a
  BY HeardGrows
<1>2. MasterAt(n + 1)' = vrids[a.vrid].master
  BY BeforeNew DEF HistoryInv
<1>3. \A i \in DOMAIN heard : MasterAt(i)' = MasterAt(i) /\ Change(i)' = Change(i)
  BY BeforeStays DEF HistoryInv
<1>4. Changes' = Changes
  BY <1>1, <1>2, <1>3 DEF Changes
<1>5. \A i \in Changes : Change(i)' = Change(i)
  BY <1>3 DEF Changes
<1>6. Pairs' = Pairs
  BY <1>4, <1>5 DEF Pairs
<1>7. \A c : Times(c)' = Times(c)
  BY <1>4, <1>5 DEF Times
<1>8. \A c : Earlier(c)' = Earlier(c)
  BY <1>6, <1>7 DEF Earlier
<1>9. Admitted' = Admitted
  BY <1>6, <1>8 DEF Admitted
<1> QED
  BY <1>4, <1>5, <1>6, <1>7, <1>9 DEF Missed

LEMMA NewMaster ==
  ASSUME TypeInv, HistoryInv, NEW a \in Advert, Observe(a), vrids[a.vrid].master # a.src,
         NEW c, c = <<a.vrid, vrids[a.vrid].master, a.src>>, NEW n \in Nat, n = Len(heard)
  PROVE  /\ Changes' = Changes \cup {n + 1} /\ n + 1 \notin Changes
         /\ Change(n + 1)' = c /\ \A i \in Changes : Change(i)' = Change(i)
         /\ Pairs' = Pairs \cup {c}
         /\ Times(c)' = Times(c) \cup {n + 1}
         /\ \A d : d # c => Times(d)' = Times(d)
         /\ \A d \in Pairs : Earlier(d)' = Earlier(d)
         /\ c \notin Pairs => Earlier(c)' = Pairs
<1>1. /\ DOMAIN heard = 1 .. n /\ DOMAIN heard' = 1 .. n + 1
      /\ \A j \in 1 .. n : heard'[j] = heard[j]
      /\ heard'[n + 1] = a
  BY HeardGrows
<1>2. MasterAt(n + 1)' = vrids[a.vrid].master /\ Change(n + 1)' = c
  BY BeforeNew DEF HistoryInv
<1>3. \A i \in DOMAIN heard : MasterAt(i)' = MasterAt(i) /\ Change(i)' = Change(i)
  BY BeforeStays DEF HistoryInv
<1>4. Changes' = Changes \cup {n + 1}
  BY <1>1, <1>2, <1>3 DEF Changes
<1>5. \A i \in Changes : Change(i)' = Change(i) /\ i \in Nat /\ i < n + 1
  BY <1>1, <1>3 DEF Changes
<1>6. Pairs' = Pairs \cup {c}
  BY <1>2, <1>4, <1>5 DEF Pairs
<1>7. Times(c)' = Times(c) \cup {n + 1} /\ \A d : d # c => Times(d)' = Times(d)
  BY <1>2, <1>4, <1>5 DEF Times
<1>8. \A d : \A i \in Times(d) : i \in Nat /\ i < n + 1
  BY <1>5 DEF Times
<1>9. \A d \in Pairs : Times(d) # {}
  BY DEF Pairs, Times
<1>10. ASSUME NEW d \in Pairs PROVE Earlier(d)' = Earlier(d)
  <2>1. ASSUME NEW e, NEW i \in Times(e)
        PROVE  (\A j \in Times(d)' : i < j) <=> (\A j \in Times(d) : i < j)
    BY <1>7, <1>8
  <2>2. ~\A j \in Times(d)' : n + 1 < j
    <3>1. PICK j \in Times(d) : TRUE
      BY <1>9
    <3>2. j \in Times(d)' /\ ~(n + 1 < j)
      BY <1>7, <1>8
    <3> QED
      BY <3>2
  <2>3. ASSUME NEW e
        PROVE  (\E i \in Times(e)' : \A j \in Times(d)' : i < j)
                 <=> (\E i \in Times(e) : \A j \in Times(d) : i < j)
    BY <1>7, <2>1, <2>2
  <2>4. c \notin Pairs => Times(c) = {}
    BY DEF Pairs, Times
  <2> QED
    BY <1>6, <2>3, <2>4 DEF Earlier
<1>11. ASSUME c \notin Pairs PROVE Earlier(c)' = Pairs
  <2>1. Times(c) = {}
    BY <1>11 DEF Pairs, Times
  <2>2. Times(c)' = {n + 1}
    BY <1>7, <2>1
  <2>3. \A d \in Pairs : \E i \in Times(d)' : i < n + 1
    BY <1>7, <1>8, <1>9
  <2> QED
    BY <1>6, <1>7, <1>11, <2>2, <2>3 DEF Earlier
<1> QED
  BY <1>1, <1>2, <1>4, <1>5, <1>6, <1>7, <1>10, <1>11 DEF Changes

LEMMA ObserveTransitions ==
  ASSUME TypeInv, KeyCap, HistoryInv, TransitionsInv, NEW a \in Advert, Observe(a)
  PROVE  TransitionsInv'
<1> PICK n \in Nat : n = Len(heard)
  BY HeardGrows
<1> PICK c \in Transition : c = <<a.vrid, vrids[a.vrid].master, a.src>>
  BY TransitionOfAdvert
<1>1. CASE vrids[a.vrid].master = a.src
  <2>1. /\ Changes' = Changes /\ Pairs' = Pairs /\ Admitted' = Admitted /\ Missed' = Missed
        /\ \A d : Times(d)' = Times(d)
    BY <1>1, SameMaster
  <2>2. Keys' = Keys /\ transitions' = transitions /\ dropped' = dropped
    BY <1>1 DEF Observe, Keys
  <2> QED
    BY <2>1, <2>2 DEF TransitionsInv
<1>2. CASE vrids[a.vrid].master # a.src
  <2>1. /\ Changes' = Changes \cup {n + 1} /\ n + 1 \notin Changes
        /\ Change(n + 1)' = c /\ \A i \in Changes : Change(i)' = Change(i)
        /\ Pairs' = Pairs \cup {c}
        /\ Times(c)' = Times(c) \cup {n + 1}
        /\ \A d : d # c => Times(d)' = Times(d)
        /\ \A d \in Pairs : Earlier(d)' = Earlier(d)
        /\ c \notin Pairs => Earlier(c)' = Pairs
    BY <1>2, NewMaster
  <2>2. count(c)
    BY <1>2 DEF Observe
  <2>3. /\ IsFiniteSet(Pairs) /\ Cardinality(Pairs) \in Nat
        /\ Admitted \subseteq Pairs /\ Cardinality(Admitted) \in Nat
        /\ IsFiniteSet(Missed) /\ Cardinality(Missed) \in Nat
        /\ \A d : IsFiniteSet(Times(d)) /\ Cardinality(Times(d)) \in Nat
        /\ MaxTransitionKeys \in Nat /\ Cardinality(Admitted) <= Cardinality(Pairs)
    <3>1. /\ Missed \in SUBSET Changes /\ \A d : Times(d) \in SUBSET Changes
          /\ Admitted \in SUBSET Pairs
      BY DEF Missed, Times, Admitted
    <3> QED
      BY <3>1, ChangesFinite, FS_Subset, VrrpAssumption
  <2>4. Fits(c) <=> c \in Admitted \/ Cardinality(Admitted) < MaxTransitionKeys
    BY DEF Fits, TransitionsInv
  <2>5. Cardinality(Admitted) < MaxTransitionKeys => Admitted = Pairs
    BY DEF TransitionsInv
  <2>6. Admitted' = IF Fits(c) THEN Admitted \cup {c} ELSE Admitted
    <3>1. \A d \in Pairs : d \in Admitted' <=> d \in Admitted
      BY <2>1 DEF Admitted
    <3>2. c \notin Pairs => (c \in Admitted' <=> Cardinality(Pairs) < MaxTransitionKeys)
      BY <2>1 DEF Admitted
    <3>3. Admitted' \subseteq Pairs \cup {c}
      BY <2>1 DEF Admitted
    <3>4. CASE c \in Pairs
      BY <3>1, <3>3, <3>4, <2>3, <2>4, <2>5
    <3>5. CASE c \notin Pairs
      <4>1. Fits(c) <=> Cardinality(Pairs) < MaxTransitionKeys
        BY <3>5, <2>3, <2>4, <2>5
      <4>2. c \notin Admitted
        BY <3>5, <2>3
      <4>3. CASE Fits(c)
        <5>1. c \in Admitted'
          BY <3>2, <3>5, <4>1, <4>3
        <5> QED
          BY <3>1, <3>3, <4>3, <5>1, <2>3
      <4>4. CASE ~Fits(c)
        <5>1. c \notin Admitted'
          BY <3>2, <3>5, <4>1, <4>4
        <5> QED
          BY <3>1, <3>3, <4>4, <5>1, <2>3
      <4> QED
        BY <4>3, <4>4
    <3> QED
      BY <3>4, <3>5
  <2>7. \A i \in Changes : Change(i) # c <=> i \notin Times(c)
    BY DEF Times
  <2>8. CASE Fits(c)
    <3>1. /\ dropped' = dropped /\ Keys' = Keys \cup {c}
          /\ transitions' = [transitions EXCEPT ![c] = @ + 1]
      BY <2>2, <2>8, CountKeys DEF count
    <3>2. Keys' = Admitted'
      BY <2>6, <2>8, <3>1 DEF TransitionsInv
    <3>3. c \in Admitted \/ (c \notin Pairs /\ Times(c) = {} /\ transitions[c] = 0)
      <4>1. c \in Admitted \/ c \notin Pairs
        BY <2>4, <2>5, <2>8
      <4>2. c \notin Pairs => Times(c) = {}
        BY DEF Pairs, Times
      <4>3. c \notin Pairs => transitions[c] = 0
        BY DEF TransitionsInv, Admitted, Keys
      <4> QED
        BY <4>1, <4>2, <4>3
    <3>4. \A d \in Admitted' : transitions'[d] = Cardinality(Times(d)')
      <4> SUFFICES ASSUME NEW d \in Admitted' PROVE transitions'[d] = Cardinality(Times(d)')
        OBVIOUS
      <4>1. transitions \in [Transition -> Nat]
        BY DEF TypeInv
      <4>2. CASE d = c
        <5>1. transitions[c] = Cardinality(Times(c))
          BY <3>3, FS_EmptySet DEF TransitionsInv
        <5>2. transitions'[c] = transitions[c] + 1
          BY <3>1, <4>1
        <5>3. n + 1 \notin Times(c)
          BY <2>1 DEF Times
        <5>4. Cardinality(Times(c) \cup {n + 1}) = Cardinality(Times(c)) + 1
          BY <2>3, <5>3, FS_AddElement
        <5> QED
          BY <2>1, <4>2, <5>1, <5>2, <5>4
      <4>3. CASE d # c
        <5>1. d \in Admitted /\ transitions[d] = Cardinality(Times(d))
          BY <2>6, <2>8, <4>3 DEF TransitionsInv
        <5>2. d \in Transition
          BY <5>1 DEF TransitionsInv, Keys
        <5>3. transitions'[d] = transitions[d]
          BY <3>1, <4>1, <4>3, <5>2
        <5> QED
          BY <2>1, <4>3, <5>1, <5>3
      <4> QED
        BY <4>2, <4>3
    <3>5. Missed' = Missed
      <4>1. \A i \in Changes : (Change(i) \in Admitted \cup {c}) <=> (Change(i) \in Admitted)
        BY <3>3 DEF Pairs
      <4>2. Missed' = {i \in Changes \cup {n + 1} : Change(i)' \notin Admitted \cup {c}}
        BY <2>1, <2>6, <2>8 DEF Missed
      <4> QED
        BY <2>1, <4>1, <4>2 DEF Missed
    <3>6. Cardinality(Keys') < MaxTransitionKeys => Admitted' = Pairs'
      <4>1. /\ Cardinality(Admitted) <= Cardinality(Admitted \cup {c})
            /\ Cardinality(Admitted \cup {c}) \in Nat
        <5>1. IsFiniteSet(Admitted)
          BY <2>3, FS_Subset
        <5>2. Cardinality(Admitted \cup {c}) = IF c \in Admitted THEN Cardinality(Admitted)
                                               ELSE Cardinality(Admitted) + 1
          BY <5>1, FS_AddElement
        <5> QED
          BY <2>3, <5>2
      <4> QED
        BY <2>1, <2>3, <2>5, <2>6, <2>8, <3>2, <4>1
    <3> QED
      BY <3>1, <3>2, <3>4, <3>5, <3>6 DEF TransitionsInv
  <2>9. CASE ~Fits(c)
    <3>1. /\ dropped' = dropped + 1 /\ Keys' = Keys /\ transitions' = transitions
      BY <2>2, <2>9, CountDrops
    <3>2. Admitted' = Admitted /\ c \notin Admitted
      BY <2>4, <2>6, <2>9
    <3>3. Missed' = Missed \cup {n + 1} /\ n + 1 \notin Missed
      <4>1. Missed' = {i \in Changes \cup {n + 1} : Change(i)' \notin Admitted}
        BY <2>1, <3>2 DEF Missed
      <4> QED
        BY <2>1, <3>2, <4>1 DEF Missed
    <3>4. Cardinality(Missed') = Cardinality(Missed) + 1
      BY <2>3, <3>3, FS_AddElement
    <3>5. \A d \in Admitted : Times(d)' = Times(d)
      BY <2>1, <3>2
    <3> QED
      BY <2>3, <2>4, <2>9, <3>1, <3>2, <3>4, <3>5 DEF TransitionsInv
  <2> QED
    BY <2>8, <2>9
<1> QED
  BY <1>1, <1>2

-----------------------------------------------------------------------------
(* What is kept of each router *)

RoutersInv ==
  /\ RoutersMatchHistory
  /\ \A v \in VRID : Told(v) # {} => Latest(Told(v)) \in Told(v)

LEMMA DownsFinite ==
  ASSUME TypeInv, NEW v
  PROVE  IsFiniteSet(Downs(v)) /\ Cardinality(Downs(v)) \in Nat
<1>1. Len(heard) \in Nat /\ DOMAIN heard = 1 .. Len(heard)
  BY DEF TypeInv
<1>2. Downs(v) \in SUBSET (1 .. Len(heard))
  BY <1>1 DEF Downs
<1>3. IsFiniteSet(1 .. Len(heard))
  BY <1>1, FS_Interval
<1>4. IsFiniteSet(Downs(v))
  BY <1>2, <1>3, FS_Subset
<1> QED
  BY <1>4, FS_CardinalityType

LEMMA ObserveDowns ==
  ASSUME TypeInv, HistoryInv, NEW a \in Advert, Observe(a), NEW v \in VRID,
         stepdowns[v] = Cardinality(Downs(v))
  PROVE  stepdowns'[v] = Cardinality(Downs(v)')
<1> PICK n \in Nat : n = Len(heard)
  BY HeardGrows
<1> DEFINE s == vrids[a.vrid]
<1>1. /\ DOMAIN heard = 1 .. n /\ DOMAIN heard' = 1 .. n + 1
      /\ \A j \in 1 .. n : heard'[j] = heard[j]
      /\ heard'[n + 1] = a
  BY HeardGrows
<1>2. a.vrid \in VRID /\ stepdowns \in [VRID -> Nat]
  BY TransitionOfAdvert DEF TypeInv
<1>3. stepdowns' = IF StepsDown(s, a) THEN [stepdowns EXCEPT ![a.vrid] = @ + 1] ELSE stepdowns
  BY DEF Observe
<1>4. \A i \in 1 .. n :
        /\ Before(i)' = Before(i) /\ Latest(Before(i))' = Latest(Before(i))
        /\ Before(i) # {} => heard'[Latest(Before(i))] = heard[Latest(Before(i))]
  BY <1>1, BeforeStays DEF HistoryInv
<1> DEFINE Begins(i) == Before(i) = {} \/ heard[Latest(Before(i))].priority # 0
<1>5. \A i \in 1 .. n : Begins(i)' <=> Begins(i)
  BY <1>4
<1>6. Begins(n + 1)' <=> ~s.stepdown
  <2>1. /\ Before(n + 1)' = {} <=> s.master = NoAddr
        /\ Before(n + 1)' # {} => heard'[Latest(Before(n + 1))'].priority = s.priority
    BY BeforeNew DEF HistoryInv
  <2>2. /\ s.master = NoAddr => s.stepdown = FALSE
        /\ s.master # NoAddr => s.stepdown = (s.priority = 0)
    BY <1>2 DEF TypeInv, Known, Unheard
  <2> HIDE DEF s
  <2> QED
    BY <2>1, <2>2
<1>7. Downs(v) = {i \in 1 .. n : heard[i].vrid = v /\ heard[i].priority = 0 /\ Begins(i)}
  BY <1>1 DEF Downs
<1>8. Downs(v)' = {i \in 1 .. n + 1 : heard'[i].vrid = v /\ heard'[i].priority = 0 /\ Begins(i)'}
  BY <1>1 DEF Downs
<1> HIDE DEF Begins, s
<1>9. CASE a.vrid = v /\ StepsDown(s, a)
  <2>1. a.priority = 0 /\ Begins(n + 1)'
    BY <1>6, <1>9 DEF StepsDown
  <2>2. Downs(v)' = Downs(v) \cup {n + 1} /\ n + 1 \notin Downs(v)
    BY <1>1, <1>5, <1>7, <1>8, <1>9, <2>1
  <2>3. Cardinality(Downs(v)') = Cardinality(Downs(v)) + 1
    BY <2>2, DownsFinite, FS_AddElement
  <2> QED
    BY <1>2, <1>3, <1>9, <2>3
<1>10. CASE ~(a.vrid = v /\ StepsDown(s, a))
  <2>1. ~(heard'[n + 1].vrid = v /\ heard'[n + 1].priority = 0 /\ Begins(n + 1)')
    BY <1>1, <1>6, <1>10 DEF StepsDown
  <2>2. Downs(v)' = Downs(v)
    BY <1>1, <1>5, <1>7, <1>8, <2>1
  <2> QED
    BY <1>2, <1>3, <1>10, <2>2
<1> QED
  BY <1>9, <1>10

LEMMA ObserveRouters ==
  ASSUME TypeInv, HistoryInv, RoutersInv, NEW a \in Advert, Observe(a)
  PROVE  RoutersInv'
<1> PICK n \in Nat : n = Len(heard)
  BY HeardGrows
<1>1. /\ DOMAIN heard = 1 .. n /\ DOMAIN heard' = 1 .. n + 1
      /\ \A j \in 1 .. n : heard'[j] = heard[j]
      /\ heard'[n + 1] = a
  BY HeardGrows
<1>2. a.vrid \in VRID /\ a.interval \in Nat
  BY TransitionOfAdvert
<1>3. /\ vrids'[a.vrid].interval = IF a.interval > 0 THEN a.interval ELSE vrids[a.vrid].interval
      /\ \A v \in VRID \ {a.vrid} : vrids'[v] = vrids[v]
  <2>1. vrids'[a.vrid] = Heard(vrids[a.vrid], a)
    BY HeardState
  <2> QED
    BY <2>1, HeardState DEF Heard
<1>4. \A v \in VRID : stepdowns'[v] = Cardinality(Downs(v)')
  BY ObserveDowns DEF RoutersInv, RoutersMatchHistory
<1>5. ASSUME NEW v \in VRID
      PROVE  /\ Told(v)' # {} => Latest(Told(v))' \in Told(v)'
             /\ vrids'[v].interval = IF Told(v)' = {} THEN 0 ELSE heard'[Latest(Told(v))'].interval
  <2>1. Told(v) = {i \in 1 .. n : heard[i].vrid = v /\ heard[i].interval > 0}
    BY <1>1 DEF Told
  <2>2. Told(v)' = {i \in 1 .. n + 1 : heard'[i].vrid = v /\ heard'[i].interval > 0}
    BY <1>1 DEF Told
  <2>3. /\ Told(v) # {} => Latest(Told(v)) \in Told(v)
        /\ vrids[v].interval = IF Told(v) = {} THEN 0 ELSE heard[Latest(Told(v))].interval
    BY DEF RoutersInv, RoutersMatchHistory
  <2>4. CASE a.vrid = v /\ a.interval > 0
    <3>1. n + 1 \in Told(v)' /\ Told(v)' \in SUBSET Int /\ \A k \in Told(v)' : k <= n + 1
      BY <1>1, <2>2, <2>4
    <3> DEFINE T == Told(v)'
    <3>2. Latest(T) = n + 1
      <4> HIDE DEF T
      <4> QED
        BY <3>1, LatestIs DEF T
    <3>3. Latest(Told(v))' = n + 1
      BY <3>2 DEF Latest
    <3> QED
      BY <1>1, <1>3, <2>4, <3>1, <3>3
  <2>5. CASE ~(a.vrid = v /\ a.interval > 0)
    <3>1. Told(v)' = Told(v)
      BY <1>1, <2>1, <2>2, <2>5
    <3>2. Latest(Told(v))' = Latest(Told(v))
      BY <3>1 DEF Latest
    <3>3. vrids'[v].interval = vrids[v].interval
      BY <1>3, <2>5
    <3>4. Told(v) # {} => heard'[Latest(Told(v))] = heard[Latest(Told(v))]
      BY <1>1, <2>1, <2>3
    <3> QED
      BY <2>3, <3>1, <3>2, <3>3, <3>4
  <2> QED
    BY <2>4, <2>5
<1> QED
  BY <1>4, <1>5 DEF RoutersInv, RoutersMatchHistory

-----------------------------------------------------------------------------
(* The history of the tracker *)

HInv == HistoryInv /\ TransitionsInv /\ RoutersInv

LEMMA InitHInv == Init => HInv
<1> SUFFICES ASSUME Init PROVE HInv
  OBVIOUS
<1>1. DOMAIN heard = {}
  BY DEF Init
<1>2. \A v \in VRID : ~Known(v) /\ vrids[v].interval = 0 /\ stepdowns[v] = 0
  BY DEF Init, Known, Unheard
<1>3. HistoryInv
  BY <1>1, <1>2 DEF HistoryInv, FromHeard, BeforeEnds
<1>4. Changes = {} /\ Pairs = {} /\ Admitted = {} /\ Missed = {} /\ Keys = {}
  BY <1>1 DEF Changes, Pairs, Admitted, Missed, Keys, Init
<1>5. TransitionsInv
  BY <1>4, FS_EmptySet DEF TransitionsInv, Init
<1>6. \A v \in VRID : Told(v) = {} /\ Downs(v) = {}
  BY <1>1 DEF Told, Downs
<1>7. RoutersInv
  BY <1>2, <1>6, FS_EmptySet DEF RoutersInv, RoutersMatchHistory
<1> QED
  BY <1>3, <1>5, <1>7 DEF HInv

LEMMA UnchangedHInv ==
  ASSUME HInv, UNCHANGED trackerVars
  PROVE  HInv'
<1>1. UNCHANGED <<vrids, transitions, stepdowns, dropped, heard>>
  BY DEF trackerVars
<1>2. \A i : Before(i)' = Before(i) /\ Latest(Before(i))' = Latest(Before(i))
  BY <1>1 DEF Before, Latest
<1>3. \A i : MasterAt(i)' = MasterAt(i) /\ Change(i)' = Change(i) /\ Last(i)' = Last(i)
  BY <1>1, <1>2 DEF MasterAt, Change, Last
<1>4. Changes' = Changes /\ Keys' = Keys
  BY <1>1, <1>3 DEF Changes, Keys
<1>5. Pairs' = Pairs /\ \A c : Times(c)' = Times(c)
  BY <1>3, <1>4 DEF Pairs, Times
<1>6. Admitted' = Admitted
  BY <1>5 DEF Admitted, Earlier
<1>7. Missed' = Missed
  BY <1>3, <1>4, <1>6 DEF Missed
<1>8. TransitionsInv'
  BY <1>1, <1>4, <1>5, <1>6, <1>7 DEF HInv, TransitionsInv
<1>9. HistoryInv'
  BY <1>1, <1>2, <1>3 DEF HInv, HistoryInv, FromHeard, BeforeEnds, Known
<1>10. \A v : /\ Downs(v)' = Downs(v) /\ Told(v)' = Told(v)
              /\ Latest(Told(v))' = Latest(Told(v))
  BY <1>1, <1>2 DEF Downs, Told, Latest
<1>11. RoutersInv'
  BY <1>1, <1>10 DEF HInv, RoutersInv, RoutersMatchHistory
<1> QED
  BY <1>8, <1>9, <1>11 DEF HInv

LEMMA NextHInv == TInv /\ HInv /\ [Next]_vars => HInv'
<1> SUFFICES ASSUME TInv, HInv, [Next]_vars PROVE HInv'
  OBVIOUS
<1>1. ASSUME NEW a \in Advert, Observe(a)
      PROVE  HInv'
  <2>1. HistoryInv'
    BY <1>1, ObserveFromHeard, ObserveBeforeEnds DEF TInv, HInv, HistoryInv
  <2> QED
    BY <1>1, <2>1, ObserveTransitions, ObserveRouters DEF TInv, HInv
<1>2. CASE Advance \/ UNCHANGED vars
  BY <1>2, UnchangedHInv DEF Advance, vars
<1> QED
  BY <1>1, <1>2, VrrpAssumption DEF Next

LEMMA HInvCorrect == Spec => [](TInv /\ HInv)
  BY InitTInv, InitHInv, NextTInv, NextHInv, PTL DEF Spec

LEMMA HInvHistory == HInv => TransitionsMatchHistory /\ RoutersMatchHistory
  BY DEF HInv, TransitionsInv, RoutersInv, TransitionsMatchHistory,
         Changes, Times, Pairs, Earlier, Admitted, Missed

(* For every cap and every sequence of adverts: each pair of masters is    *)
(* counted as often as the adverts make that change, the pairs past the    *)
(* cap, and only they, are in the dropped counter.                         *)
THEOREM TransitionsCorrect == Spec => []TransitionsMatchHistory
  BY HInvHistory, HInvCorrect, PTL

(* For every sequence of adverts: a stepdown is counted once for each time *)
(* the priority falls to 0, and the last interval told is kept.            *)
THEOREM RoutersCorrect == Spec => []RoutersMatchHistory
  BY HInvHistory, HInvCorrect, PTL

-----------------------------------------------------------------------------
(* The adverts behind a scrape *)

(* A scrape that has read the clock knows how many adverts there were; the *)
(* state it copied later is that of an advert with none after it by then.  *)
AInv ==
  /\ scrape.since <= Len(heard)
  /\ pc \in {"clock", "snapshot"} => \A v \in VRID : scrape.states[v].master = NoAddr
  /\ scrape.enabled => mode = "on" \/ \E v \in VRID : Known(v)
  /\ \A v \in VRID : scrape.states[v].master # NoAddr =>
       /\ scrape.states[v].stepdown = (scrape.states[v].priority = 0)
       /\ \E i \in DOMAIN heard :
            /\ heard[i].vrid = v /\ heard[i].src = scrape.states[v].master
            /\ heard[i].priority = scrape.states[v].priority
            /\ \A j \in i + 1 .. scrape.since : heard[j].vrid # v

(* Nothing that was heard is forgotten. *)
Kept ==
  /\ Len(heard) \in Nat /\ Len(heard') \in Nat /\ Len(heard') >= Len(heard)
  /\ DOMAIN heard = 1 .. Len(heard) /\ DOMAIN heard' = 1 .. Len(heard')
  /\ \A j \in DOMAIN heard : heard'[j] = heard[j]
  /\ \A v \in VRID : Known(v) => Known(v)'

LEMMA NextKept == TInv /\ TInv' /\ [Next]_vars => Kept
<1> SUFFICES ASSUME TInv, TInv', [Next]_vars PROVE Kept
  OBVIOUS
<1>0. heard \in Seq(Advert) /\ heard' \in Seq(Advert)
  BY DEF TInv, TypeInv
<1>1. ASSUME NEW a \in Advert, Observe(a) PROVE Kept
  <2>1. heard' = Append(heard, a)
    BY <1>1 DEF Observe
  <2>2. \A v \in VRID : Known(v) => Known(v)'
    BY <1>1, HeardState DEF TInv, Known
  <2> QED
    BY <1>0, <2>1, <2>2 DEF Kept
<1>2. CASE Advance \/ UNCHANGED vars
  BY <1>0, <1>2 DEF Advance, vars, trackerVars, Kept, Known
<1> QED
  BY <1>1, <1>2, VrrpAssumption DEF Next

LEMMA KeptAInv ==
  ASSUME CInv, AInv, Kept, UNCHANGED <<mode, pc, scrape>>
  PROVE  AInv'
<1>1. scrape.since \in Nat
  BY DEF CInv, CollectorTypeInv
<1>2. scrape'.since <= Len(heard') /\ (scrape'.enabled => mode' = "on" \/ \E v \in VRID : Known(v)')
  BY <1>1 DEF AInv, Kept
<1>3. ASSUME NEW v \in VRID, scrape.states[v].master # NoAddr
      PROVE  /\ scrape.states[v].stepdown = (scrape.states[v].priority = 0)
             /\ \E i \in DOMAIN heard' :
                  /\ heard'[i].vrid = v /\ heard'[i].src = scrape.states[v].master
                  /\ heard'[i].priority = scrape.states[v].priority
                  /\ \A j \in i + 1 .. scrape.since : heard'[j].vrid # v
  <2>1. PICK i \in DOMAIN heard :
                  /\ heard[i].vrid = v /\ heard[i].src = scrape.states[v].master
                  /\ heard[i].priority = scrape.states[v].priority
                  /\ \A j \in i + 1 .. scrape.since : heard[j].vrid # v
    BY <1>3 DEF AInv
  <2>2. i \in DOMAIN heard' /\ heard'[i] = heard[i]
    BY DEF Kept
  <2>3. \A j \in i + 1 .. scrape.since : j \in DOMAIN heard
    BY <1>1, <2>1 DEF AInv, Kept
  <2>4. \A j \in i + 1 .. scrape.since : heard'[j].vrid # v
    BY <2>1, <2>3 DEF Kept
  <2> QED
    BY <1>3, <2>1, <2>2, <2>4 DEF AInv
<1> QED
  BY <1>2, <1>3 DEF AInv

LEMMA InitAInv == CollectorInit => AInv
  BY DEF CollectorInit, Init, AInv, Nothing, Unheard

LEMMA NextAInv == TInv /\ HInv /\ CInv /\ AInv /\ [CollectorNext]_all => AInv'
<1> SUFFICES ASSUME TInv, HInv, CInv, AInv, [CollectorNext]_all PROVE AInv'
  OBVIOUS
<1>1. Kept
  BY CollectorStep, NextTInv, NextKept
<1>2. CASE Hear \/ Clock \/ ListenStarts \/ ListenStops \/ UNCHANGED all
  BY <1>1, <1>2, KeptAInv DEF Hear, Clock, ListenStarts, ListenStops, all, scrapeVars
<1>3. /\ heard \in Seq(Advert) /\ Len(heard) \in Nat /\ DOMAIN heard = 1 .. Len(heard)
      /\ scrape.since \in Nat
  BY DEF TInv, TypeInv, CInv, CollectorTypeInv
<1>4. CASE Begin
  <2>1. UNCHANGED <<vrids, heard, mode>>
    BY <1>4 DEF Begin, vars, trackerVars
  <2>2. scrape'.since = 0 /\ scrape'.states = [v \in VRID |-> Unheard]
    BY <1>4 DEF Begin, Nothing
  <2>3. scrape'.enabled => mode' = "on" \/ \E v \in VRID : Known(v)'
    BY <1>4, <2>1 DEF Begin, enabled, Nothing, Known
  <2> QED
    BY <1>3, <2>1, <2>2, <2>3 DEF AInv, Unheard
<1>5. CASE Finish
  <2>1. UNCHANGED <<vrids, heard, mode>>
    BY <1>5 DEF Finish, vars, trackerVars
  <2>2. scrape' = Nothing
    BY <1>5 DEF Finish
  <2> QED
    BY <1>3, <2>1, <2>2 DEF AInv, Nothing, Unheard
<1>6. CASE ReadClock \/ Snapshot \/ Stepdowns \/ Dropped
  <2>1. UNCHANGED <<mode, vrids, transitions, stepdowns, dropped, heard>>
    BY <1>6 DEF ReadClock, Snapshot, Stepdowns, Dropped, Read, vars, trackerVars
  <2>2. scrape \in ScrapeType
    BY DEF CInv, CollectorTypeInv, ScrapeType
  <2>3. scrape'.enabled = scrape.enabled
    BY <1>6, <2>2 DEF ReadClock, Snapshot, Stepdowns, Dropped, Read, ScrapeType
  <2>4. CASE ReadClock
    <3>1. /\ pc = "clock" /\ pc' = "snapshot"
          /\ scrape'.since = Len(heard) /\ scrape'.states = scrape.states
      BY <2>2, <2>4 DEF ReadClock, Read, After, ScrapeType
    <3> QED
      BY <1>3, <2>1, <2>3, <3>1 DEF AInv, Known
  <2>5. CASE Snapshot
    <3>1. pc' = "stepdowns" /\ scrape'.since = scrape.since /\ scrape'.states = vrids
      BY <2>2, <2>5 DEF Snapshot, Read, After, ScrapeType
    <3>2. ASSUME NEW v \in VRID, vrids[v].master # NoAddr
          PROVE  /\ vrids[v].stepdown = (vrids[v].priority = 0)
                 /\ \E i \in DOMAIN heard :
                      /\ heard[i].vrid = v /\ heard[i].src = vrids[v].master
                      /\ heard[i].priority = vrids[v].priority
                      /\ \A j \in i + 1 .. scrape.since : heard[j].vrid # v
      <4>1. vrids[v].stepdown = (vrids[v].priority = 0)
        BY <3>2 DEF TInv, TypeInv, Known
      <4>2. PICK i \in DOMAIN heard : /\ heard[i].vrid = v /\ Last(i)
                                      /\ heard[i].src = vrids[v].master
                                      /\ heard[i].priority = vrids[v].priority
        BY <3>2 DEF HInv, HistoryInv, FromHeard, Known
      <4>3. \A j \in i + 1 .. scrape.since : j \in DOMAIN heard /\ ~(j <= i)
        BY <1>3, <4>2 DEF AInv
      <4>4. \A j \in i + 1 .. scrape.since : heard[j].vrid # v
        BY <4>2, <4>3 DEF Last
      <4> QED
        BY <4>1, <4>2, <4>4
    <3> QED
      BY <2>1, <2>3, <3>1, <3>2 DEF AInv, Known
  <2>6. CASE Stepdowns \/ Dropped
    <3>1. /\ pc' \in {"dropped", "done"} /\ scrape'.since = scrape.since
          /\ scrape'.states = scrape.states
      BY <2>2, <2>6 DEF Stepdowns, Dropped, Read, After, ScrapeType
    <3> QED
      BY <2>1, <2>3, <3>1 DEF AInv, Known
  <2> QED
    BY <1>6, <2>4, <2>5, <2>6
<1> QED
  BY <1>2, <1>4, <1>5, <1>6 DEF CollectorNext

LEMMA AInvCorrect == CollectorSpec => [](TInv /\ HInv /\ CInv /\ AInv)
<1>1. CollectorInit => TInv /\ HInv /\ CInv /\ AInv
  BY InitTInv, InitHInv, InitCInv, InitAInv DEF CollectorInit
<1>2. TInv /\ HInv /\ CInv /\ AInv /\ [CollectorNext]_all => (TInv /\ HInv /\ CInv /\ AInv)'
  BY NextTInv, NextHInv, NextCInv, NextAInv, CollectorStep
<1> QED
  BY <1>1, <1>2, PTL DEF CollectorSpec

(* Both hold while scrapes read the tracker, as a scrape changes nothing   *)
(* of it.                                                                  *)
THEOREM HistoryBesideScrapes ==
  CollectorSpec => [](TransitionsMatchHistory /\ RoutersMatchHistory)
  BY HInvHistory, AInvCorrect, PTL

(* This node shows itself active only because of an advert of its own, and *)
(* only if no other node had taken over when the scrape began, for every   *)
(* sequence of adverts and every interleaving with the scrape.             *)
THEOREM ActiveCorrect == CollectorSpec => []ActiveWasMaster
<1>1. CInv /\ AInv => ActiveWasMaster
  <2> SUFFICES ASSUME CInv, AInv, Shown, Active
               PROVE  \E i \in DOMAIN heard :
                        /\ heard[i].src \in LocalIPs /\ heard[i].priority # 0
                        /\ \A j \in i + 1 .. scrape.since :
                             heard[j].vrid = heard[i].vrid => heard[j].src = heard[i].src
    BY DEF ActiveWasMaster
  <2>1. PICK v \in VRID : MasterVal(v) /\ scrape.states[v].master \in LocalIPs
    BY DEF Active, Shown
  <2>2. scrape.states[v].master # NoAddr /\ ~scrape.states[v].stepdown
    BY <2>1 DEF MasterVal
  <2>3. PICK i \in DOMAIN heard :
            /\ heard[i].vrid = v /\ heard[i].src = scrape.states[v].master
            /\ heard[i].priority = scrape.states[v].priority
            /\ \A j \in i + 1 .. scrape.since : heard[j].vrid # v
    BY <2>2 DEF AInv
  <2>4. heard[i].priority # 0
    BY <2>2, <2>3 DEF AInv
  <2> QED
    BY <2>1, <2>3, <2>4
<1> QED
  BY <1>1, AInvCorrect, PTL

(* A router once heard of is never forgotten, so mode auto never returns   *)
(* to "static" under a running listener.                                   *)
THEOREM StaysEnabledCorrect == CollectorSpec => StaysEnabled
<1>1. TInv /\ AInv /\ (TInv /\ AInv)' /\ [CollectorNext]_all
        => [Shown /\ listener' = "running" => enabled']_all
  <2> SUFFICES ASSUME TInv, AInv, TInv', [CollectorNext]_all, Shown, listener' = "running"
               PROVE  enabled'
    OBVIOUS
  <2>1. Kept
    BY CollectorStep, NextKept
  <2>2. mode' = mode
    BY DEF CollectorNext, ListenStarts, ListenStops, Hear, Clock, Begin, ReadClock, Snapshot,
           Stepdowns, Dropped, Finish, Read, all
  <2>3. mode = "on" \/ \E v \in VRID : Known(v)
    BY DEF Shown, AInv
  <2> QED
    BY <2>1, <2>2, <2>3 DEF enabled, Kept
<1> QED
  BY <1>1, AInvCorrect, PTL DEF CollectorSpec, StaysEnabled
=============================================================================
