----------------------------- MODULE VrrpTracker -----------------------------
(***************************************************************************)
(* vrrp.Tracker: adverts heard on the segment are folded, one at a time    *)
(* under Tracker.mu, into a state per virtual router, the counts of master *)
(* transitions (at most MaxTransitionKeys different ones) and the counts   *)
(* of graceful stepdowns.                                                  *)
(*                                                                         *)
(* Addresses are model values; an advert's version and addresses are only  *)
(* copied and left out.  An entry of a Go map that is absent is NoAddr as  *)
(* the master, or the count 0.  Counters do not reach 2^64.                *)
(***************************************************************************)
EXTENDS Integers, Sequences, FiniteSets

CONSTANTS
  VRID, Addr,
  NoAddr,              \* the zero netip.Addr: no master was known
  Adverts,             \* the adverts that the nodes send
  MaxTransitionKeys,
  MaxAdverts,          \* bound on the adverts heard
  Delays, MaxTime      \* steps of the clock, and its bound

Transition == VRID \X (Addr \cup {NoAddr}) \X Addr
Advert     == [vrid : VRID, src : Addr, priority : 0 .. 255, interval : Nat]

ASSUME VrrpAssumption ==
  /\ NoAddr \notin Addr
  /\ Adverts \subseteq Advert
  /\ MaxTransitionKeys \in Nat /\ MaxAdverts \in Nat
  /\ Delays \subseteq Nat /\ MaxTime \in Nat
  /\ IsFiniteSet(VRID) /\ IsFiniteSet(Addr)

VARIABLES
  now,
  vrids,        \* VRID -> the state of the virtual router
  transitions,  \* Transition -> how often it was counted
  stepdowns,    \* VRID -> stepdowns counted
  dropped,      \* transitions the cap discarded
  heard         \* history: the adverts, in order

trackerVars == <<vrids, transitions, stepdowns, dropped, heard>>
vars == <<now, trackerVars>>

VRIDState == [master : Addr \cup {NoAddr}, priority : 0 .. 255, interval : Nat,
              lastSeen : Nat, stepdown : BOOLEAN]
Unheard   == [master |-> NoAddr, priority |-> 0, interval |-> 0,
              lastSeen |-> 0, stepdown |-> FALSE]

Init ==
  /\ now = 0
  /\ vrids = [v \in VRID |-> Unheard]
  /\ transitions = [tr \in Transition |-> 0]
  /\ stepdowns = [v \in VRID |-> 0]
  /\ dropped = 0
  /\ heard = <<>>

-----------------------------------------------------------------------------
Keys     == {tr \in Transition : transitions[tr] # 0}
Known(v) == vrids[v].master # NoAddr

(* Slip: a full map counts nothing any more. *)
Fits_fullDropsAll(tr) == Cardinality(Keys) < MaxTransitionKeys

(* The map has the transition already, or room for it. *)
Fits(tr) == tr \in Keys \/ Cardinality(Keys) < MaxTransitionKeys

(* One more of this transition, or one more that was discarded. *)
count(tr) ==
  IF Fits(tr)
  THEN transitions' = [transitions EXCEPT ![tr] = @ + 1] /\ UNCHANGED dropped
  ELSE dropped' = dropped + 1 /\ UNCHANGED transitions

(* Slip: every advert with priority 0 is counted. *)
StepsDown_level(s, a) == a.priority = 0

(* The edge: the first advert with priority 0 of several. *)
StepsDown(s, a) == a.priority = 0 /\ ~s.stepdown

(* The state of a virtual router after an advert. *)
Heard(s, a) ==
  [master |-> a.src, priority |-> a.priority, lastSeen |-> now,
   stepdown |-> a.priority = 0,
   interval |-> IF a.interval > 0 THEN a.interval ELSE s.interval]

Observe(a) ==
  /\ Len(heard) < MaxAdverts
  /\ LET s == vrids[a.vrid] IN
     /\ IF s.master = a.src
        THEN UNCHANGED <<transitions, dropped>>
        ELSE count(<<a.vrid, s.master, a.src>>)
     /\ stepdowns' = IF StepsDown(s, a)
                     THEN [stepdowns EXCEPT ![a.vrid] = @ + 1] ELSE stepdowns
     /\ vrids' = [vrids EXCEPT ![a.vrid] = Heard(s, a)]
  /\ heard' = Append(heard, a)
  /\ UNCHANGED now

Advance ==
  /\ \E d \in Delays : now + d <= MaxTime /\ now' = now + d
  /\ UNCHANGED trackerVars

Next == Advance \/ \E a \in Adverts : Observe(a)

Spec == Init /\ [][Next]_vars

-----------------------------------------------------------------------------
(* Slip: the skew grows with the priority. *)
MasterDownInterval_reversed(s) ==
  3 * s.interval + ((256 + s.priority) * s.interval) \div 256

(* 3 intervals and a skew that shrinks as the priority grows (RFC 5798). *)
MasterDownInterval(s) == 3 * s.interval + ((256 - s.priority) * s.interval) \div 256

MasterAlive(s, t) == t - s.lastSeen <= MasterDownInterval(s)

-----------------------------------------------------------------------------
(* Every variable has its type, an unheard router is in its zero state,    *)
(* and the stepdown flag says that the last advert had priority 0.         *)
TypeInv ==
  /\ now \in Nat /\ dropped \in Nat
  /\ vrids \in [VRID -> VRIDState]
  /\ transitions \in [Transition -> Nat]
  /\ stepdowns \in [VRID -> Nat]
  /\ heard \in Seq(Advert)
  /\ \A v \in VRID : /\ ~Known(v) => vrids[v] = Unheard
                     /\ Known(v) => vrids[v].stepdown = (vrids[v].priority = 0)
                     /\ vrids[v].lastSeen <= now

(* However many sources advertise, the map of transitions never has more   *)
(* than MaxTransitionKeys entries, and no transition is discarded before   *)
(* it is full (maxTransitionKeys, count).                                  *)
KeyCap ==
  /\ Cardinality(Keys) <= MaxTransitionKeys
  /\ dropped > 0 => Cardinality(Keys) = MaxTransitionKeys

(* The master of every router heard of got there by a transition that is   *)
(* counted, or some were discarded; and a stepdown that the flag shows is  *)
(* counted.                                                                *)
MasterCounted(states, trans, drop) ==
  \A v \in VRID : states[v].master # NoAddr =>
    drop > 0 \/ \E from \in Addr \cup {NoAddr} : trans[<<v, from, states[v].master>>] > 0
StepdownCounted(states, steps) == \A v \in VRID : states[v].stepdown => steps[v] > 0
StateIsCounted == MasterCounted(vrids, transitions, dropped) /\ StepdownCounted(vrids, stepdowns)

-----------------------------------------------------------------------------
(* What the counts should be, from all the adverts.                        *)
Latest(S)   == CHOOSE j \in S : \A k \in S : k <= j
Before(i)   == {j \in 1 .. i - 1 : heard[j].vrid = heard[i].vrid}
MasterAt(i) == IF Before(i) = {} THEN NoAddr ELSE heard[Latest(Before(i))].src
Change(i)   == <<heard[i].vrid, MasterAt(i), heard[i].src>>

(* Each change of a master is counted once, under the masters before and   *)
(* after it, when its pair is among the first MaxTransitionKeys pairs, and *)
(* as dropped otherwise ("A different node advertising is a takeover:      *)
(* count it once").                                                        *)
TransitionsMatchHistory ==
  LET changes  == {i \in DOMAIN heard : MasterAt(i) # heard[i].src}
      times(c) == {i \in changes : Change(i) = c}
      pairs    == {Change(i) : i \in changes}
      earlier(c) == {d \in pairs : \E i \in times(d) : \A j \in times(c) : i < j}
      admitted == {c \in pairs : Cardinality(earlier(c)) < MaxTransitionKeys}
      missed   == {i \in changes : Change(i) \notin admitted}
  IN /\ Keys = admitted
     /\ \A c \in admitted : transitions[c] = Cardinality(times(c))
     /\ dropped = Cardinality(missed)

(* The adverts of a router that begin a stepdown, and those with an interval. *)
Downs(v) == {i \in DOMAIN heard : /\ heard[i].vrid = v /\ heard[i].priority = 0
                                 /\ \/ Before(i) = {}
                                    \/ heard[Latest(Before(i))].priority # 0}
Told(v)  == {i \in DOMAIN heard : heard[i].vrid = v /\ heard[i].interval > 0}

(* What is kept of a router is what its adverts say: a stepdown is counted *)
(* once however often its advert is repeated ("Count the edge, not the     *)
(* level"), and the interval is the last one that was not 0.               *)
RoutersMatchHistory ==
  \A v \in VRID :
    /\ stepdowns[v] = Cardinality(Downs(v))
    /\ vrids[v].interval = IF Told(v) = {} THEN 0 ELSE heard[Latest(Told(v))].interval
=============================================================================
