---------------------------- MODULE VrrpCollector ----------------------------
(***************************************************************************)
(* A scrape of VRRPCollector while the listener goes on observing: Collect *)
(* asks enabled() (main.go), reads the clock, and takes the tracker's lock *)
(* three times, for Snapshot, Stepdowns and Dropped, so that one scrape    *)
(* shows three moments.  The listener starts, and stops for good when the  *)
(* socket fails.                                                           *)
(***************************************************************************)
EXTENDS VrrpTracker

CONSTANTS
  Modes,     \* the values of --vrrp.mode tried: "on", "auto"
  LocalIPs   \* the addresses of this host

ASSUME CollectorAssumption == LocalIPs \subseteq Addr /\ Modes \subseteq {"on", "auto"}

VARIABLES
  mode,
  listener,  \* "starting", "running" (vrrpRunning), "stopped"
  pc,        \* of the scrape: "idle", "clock", "snapshot", "stepdowns", "dropped", "done"
  scrape     \* what it has collected; since: history, the adverts heard by then

scrapeVars == <<pc, scrape>>
all == <<vars, mode, listener, scrapeVars>>

Nothing == [enabled |-> FALSE, at |-> 0, since |-> 0, states |-> [v \in VRID |-> Unheard],
            trans |-> [tr \in Transition |-> 0], steps |-> [v \in VRID |-> 0], drop |-> 0]

CollectorInit ==
  /\ Init
  /\ mode \in Modes /\ listener = "starting"
  /\ pc = "idle" /\ scrape = Nothing

-----------------------------------------------------------------------------
(* The goroutine of main: Listen receives, and returns when it fails. *)
ListenStarts ==
  /\ listener = "starting"
  /\ listener' = "running"
  /\ UNCHANGED <<vars, mode, scrapeVars>>

ListenStops ==
  /\ listener = "running"
  /\ listener' = "stopped"
  /\ UNCHANGED <<vars, mode, scrapeVars>>

Hear ==
  /\ listener = "running"
  /\ \E a \in Adverts : Observe(a)
  /\ UNCHANGED <<mode, listener, scrapeVars>>

Clock == Advance /\ UNCHANGED <<mode, listener, scrapeVars>>

-----------------------------------------------------------------------------
(* Slip: mode auto wants a master that is alive. *)
enabled_whileAlive ==
  /\ listener = "running"
  /\ mode = "on" \/ \E v \in VRID : Known(v) /\ MasterAlive(vrids[v], now)

(* In mode auto a running listener counts only once it heard an advert. *)
enabled == /\ listener = "running"
           /\ mode = "on" \/ \E v \in VRID : Known(v)

(* Slip: the counters are read before the state they explain. *)
After_countersFirst(step) ==
  CASE step = "clock"     -> "stepdowns"
    [] step = "stepdowns" -> "dropped"
    [] step = "dropped"   -> "snapshot"
    [] step = "snapshot"  -> "done"

(* The order in which Collect reads. *)
After(step) ==
  CASE step = "clock"     -> "snapshot"
    [] step = "snapshot"  -> "stepdowns"
    [] step = "stepdowns" -> "dropped"
    [] step = "dropped"   -> "done"

Read(step, collected) ==
  /\ pc = step
  /\ pc' = After(step)
  /\ scrape' = collected
  /\ UNCHANGED <<vars, mode, listener>>

Begin ==
  /\ pc = "idle"
  /\ IF enabled
     THEN pc' = "clock" /\ scrape' = [Nothing EXCEPT !.enabled = TRUE]
     ELSE pc' = "done" /\ scrape' = Nothing
  /\ UNCHANGED <<vars, mode, listener>>

ReadClock == Read("clock", [scrape EXCEPT !.at = now, !.since = Len(heard)])
Snapshot  == Read("snapshot", [scrape EXCEPT !.states = vrids, !.trans = transitions])
Stepdowns == Read("stepdowns", [scrape EXCEPT !.steps = stepdowns])
Dropped   == Read("dropped", [scrape EXCEPT !.drop = dropped])

(* The next scrape; what the last one showed is of no further use. *)
Finish ==
  /\ pc = "done"
  /\ pc' = "idle" /\ scrape' = Nothing
  /\ UNCHANGED <<vars, mode, listener>>

CollectorNext == \/ ListenStarts \/ ListenStops \/ Hear \/ Clock
                 \/ Begin \/ ReadClock \/ Snapshot \/ Stepdowns \/ Dropped \/ Finish

CollectorSpec == CollectorInit /\ [][CollectorNext]_all

-----------------------------------------------------------------------------
(* What a finished scrape shows. *)
Shown == pc = "done" /\ scrape.enabled

(* Slip: a master that steps down is shown until it is silent. *)
MasterVal_ignoresStepdown(v) ==
  LET s == scrape.states[v] IN s.master # NoAddr /\ MasterAlive(s, scrape.at)

(* The master gauge of a router. *)
MasterVal(v) ==
  LET s == scrape.states[v] IN
  s.master # NoAddr /\ MasterAlive(s, scrape.at) /\ ~s.stepdown

(* Without VRRP the node is always the active one. *)
Active == IF scrape.enabled
          THEN \E v \in VRID : MasterVal(v) /\ scrape.states[v].master \in LocalIPs
          ELSE TRUE

-----------------------------------------------------------------------------
(* The scrape has its type, too. *)
CollectorTypeInv ==
  /\ TypeInv
  /\ mode \in Modes /\ listener \in {"starting", "running", "stopped"}
  /\ pc \in {"idle", "clock", "snapshot", "stepdowns", "dropped", "done"}
  /\ scrape \in [enabled : BOOLEAN, at : Nat, since : Nat, states : [VRID -> VRIDState],
                 trans : [Transition -> Nat], steps : [VRID -> Nat], drop : Nat]
  /\ listener = "starting" => ~scrape.enabled

(* In one scrape, a stepdown that the gauge shows is in the counter ("the  *)
(* counter is the durable record"), and each master shown came by a        *)
(* transition that is shown, or that the dropped counter accounts for,     *)
(* however many adverts arrive between Collect's three reads.              *)
ScrapeExplained ==
  Shown => /\ StepdownCounted(scrape.states, scrape.steps)
           /\ MasterCounted(scrape.states, scrape.trans, scrape.drop)

(* The master gauge follows RFC 5798: 1 as long as a master that does not  *)
(* step down was heard within 3 of its intervals, 0 once it was not within *)
(* 4, whatever its priority.                                               *)
MasterGaugeTimely ==
  Shown => \A v \in VRID :
    LET s == scrape.states[v]  age == scrape.at - s.lastSeen IN
    s.master # NoAddr =>
      /\ ~s.stepdown /\ age <= 3 * s.interval => MasterVal(v)
      /\ age > 4 * s.interval \/ s.stepdown => ~MasterVal(v)

(* A scrape says that this node is active only if an advert of this node   *)
(* with a priority had made it the master of some router, and no other     *)
(* node had taken over by the time the scrape began.                       *)
ActiveWasMaster ==
  Shown /\ Active =>
    \E i \in DOMAIN heard :
      /\ heard[i].src \in LocalIPs /\ heard[i].priority # 0
      /\ \A j \in i + 1 .. scrape.since :
           heard[j].vrid = heard[i].vrid => heard[j].src = heard[i].src

(* Once mode auto found VRRP it does not fall back to "static" while the   *)
(* listener runs: from then on every scrape is enabled.                    *)
StaysEnabled ==
  [][Shown /\ listener' = "running" => enabled']_all
=============================================================================
