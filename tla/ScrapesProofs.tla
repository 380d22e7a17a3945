---------------------------- MODULE ScrapesProofs ----------------------------
(***************************************************************************)
(* Proofs about ConfigRefresh and Scrapes, for every bound, every set of   *)
(* processes and every choice of workers.                                  *)
(***************************************************************************)
EXTENDS Scrapes, TLAPS

(* A refresh under way began at a deployment no older than the topology.   *)
RefreshInv ==
  /\ TypeInv
  /\ cfg <= deployed
  /\ mu = "refresher" => from \in Topology /\ cfg <= from /\ from <= deployed
  /\ mu = "free" => from = NoConfig

LEMMA RefreshInit == Init => RefreshInv
<1> SUFFICES ASSUME Init PROVE RefreshInv
  OBVIOUS
<1>1. partial \in BOOLEAN /\ disk \in {"whole", "partial", "none"}
  BY DEF Init
<1> QED
  BY <1>1, ConfigAssumption
  DEF Init, RefreshInv, TypeInv, Topology, NoConfig

LEMMA RefreshStep == RefreshInv /\ [Next]_vars => RefreshInv'
<1> SUFFICES ASSUME RefreshInv, [Next]_vars PROVE RefreshInv'
  OBVIOUS
<1> USE ConfigAssumption DEF RefreshInv, TypeInv, Topology, NoConfig, source, memory
<1>1. CASE Deploy
  BY <1>1 DEF Deploy, refresh
<1>2. CASE Flip
  BY <1>2 DEF Flip, refresh
<1>3. CASE Begin
  BY <1>3 DEF Begin
<1>4. CASE CommandOK \/ DiskOK
  <2> PICK lacking \in BOOLEAN : Parsed(lacking) /\ mu = "refresher"
    BY <1>4 DEF CommandOK, DiskOK
  <2> QED
    BY DEF Parsed, End
<1>5. CASE CommandFails
  BY <1>5 DEF CommandFails
<1>6. CASE RefreshFails
  BY <1>6 DEF RefreshFails, End, Failed
<1>7. CASE Scrape \/ Collect \/ Answer
  BY <1>7 DEF Scrape, Collect, Answer, refresh
<1>8. CASE UNCHANGED vars
  BY <1>8 DEF vars, refresh
<1> QED
  BY <1>1, <1>2, <1>3, <1>4, <1>5, <1>6, <1>7, <1>8 DEF Next

(* The mutex is held exactly while a refresh runs, and all else has its    *)
(* type, however refreshes, deployments and scrapes interleave.            *)
THEOREM RefreshTypeCorrect == Spec => []TypeInv
<1>1. RefreshInv => TypeInv
  BY DEF RefreshInv
<1> QED
  BY <1>1, RefreshInit, RefreshStep, PTL DEF Spec

-----------------------------------------------------------------------------
(* To ConfigRefresh, a scrape of all the collectors is a scrape.           *)
LEMMA ScrapesStep == [ScrapesNext]_all => [Next]_vars
<1> SUFFICES ASSUME [ScrapesNext]_all PROVE [Next]_vars
  OBVIOUS
<1>1. CASE Environment \/ Hang
  BY <1>1 DEF Environment, Hang, Next
<1>2. CASE Refresh
  BY <1>2 DEF Refresh, Next
<1>3. CASE Gather \/ CollectConfig \/ CollectWorkers \/ CollectStub \/ Respond
  BY <1>3 DEF Gather, CollectConfig, CollectWorkers, CollectStub, Respond, Next
<1>4. CASE Signal \/ Exit
  BY <1>4 DEF Signal, Exit
<1>5. CASE UNCHANGED all
  BY <1>5 DEF all
<1> QED
  BY <1>1, <1>2, <1>3, <1>4, <1>5 DEF ScrapesNext

(* The exporter, hung commands, signals and all, implements ConfigRefresh. *)
THEOREM ScrapesImplementRefresh == ScrapesSpec => Spec
<1>1. ScrapesInit => Init
  BY DEF ScrapesInit
<1> QED
  BY <1>1, ScrapesStep, PTL DEF ScrapesSpec, Spec

Counted ==
  /\ cfg' >= cfg
  /\ refresher' = "idle" /\ cfg' < from
       => failures' > since' \/ failures' = MaxFailures

LEMMA CountedStep == RefreshInv /\ Next => Counted
<1> SUFFICES ASSUME RefreshInv, Next PROVE Counted
  OBVIOUS
<1> USE ConfigAssumption DEF RefreshInv, TypeInv, Topology, NoConfig, Counted
<1>1. CASE CommandOK \/ DiskOK
  <2> PICK lacking \in BOOLEAN : Parsed(lacking) /\ mu = "refresher"
    BY <1>1 DEF CommandOK, DiskOK
  <2> QED
    BY DEF Parsed, End
<1>2. CASE RefreshFails
  BY <1>2 DEF RefreshFails, End, Failed
<1>3. CASE Begin \/ CommandFails
  BY <1>3 DEF Begin, CommandFails, memory
<1>4. CASE Deploy \/ Flip \/ Scrape \/ Collect \/ Answer
  <2>1. UNCHANGED <<refresh, cfg>>
    BY <1>4 DEF Deploy, Flip, Scrape, Collect, Answer, refresh, memory
  <2>2. refresher = "idle" => from = NoConfig
    OBVIOUS
  <2> QED
    BY <2>1, <2>2 DEF refresh, memory
<1> QED
  BY <1>1, <1>2, <1>3, <1>4 DEF Next

(* No failure and no interleaving makes the exporter fall back behind the  *)
(* topology it had, and one that no longer follows the deployments has     *)
(* counted that it failed.                                                 *)
THEOREM StaleCorrect == ScrapesSpec => StaleIsCounted
<1>1. RefreshInv /\ [Next]_vars => [Counted]_vars
  BY CountedStep
<1> QED
  BY <1>1, RefreshInit, RefreshStep, ScrapesImplementRefresh, PTL
  DEF Spec, StaleIsCounted, Counted

-----------------------------------------------------------------------------
(* The workers that have lived since before /proc was listed are found, or *)
(* still to be visited.                                                    *)
ScanInv ==
  /\ procs \in [Pid -> {"unborn", "forked", "worker", "gone"}]
  /\ scan \in {"idle", "list", "visit"}
  /\ standing \subseteq Pid
  /\ scan # "idle" => \A p \in standing : procs[p] = "worker"
  /\ scan = "visit" => standing \subseteq out \cup todo

LEMMA ScanInit == W!Init => ScanInv
BY ScanAssumption DEF W!Init, ScanInv

LEMMA ScanStep == ScanInv /\ [W!Next]_workers => ScanInv'
<1> SUFFICES ASSUME ScanInv, [W!Next]_workers PROVE ScanInv'
  OBVIOUS
<1> USE DEF ScanInv, W!With
<1>1. ASSUME NEW p \in Pid, NEW old \in {"unborn", "forked", "worker"},
             NEW new \in {"forked", "worker", "gone"}, W!Becomes(p, old, new)
      PROVE  ScanInv'
  BY <1>1 DEF W!Becomes, W!scanning
<1>2. CASE W!Nginx
  BY <1>1, <1>2 DEF W!Nginx
<1>3. CASE W!Begin
  BY <1>3 DEF W!Begin
<1>4. CASE W!List
  BY <1>4 DEF W!List
<1>5. CASE W!Visit
  <2> PICK p \in todo : /\ todo' = todo \ {p}
                        /\ out' = out \cup ({p} \cap W!With("worker"))
    BY <1>5 DEF W!Visit
  <2>1. p \in standing => p \in W!With("worker")
    BY <1>5 DEF W!Visit
  <2> QED
    BY <1>5, <2>1 DEF W!Visit
<1>6. CASE W!End
  BY <1>6 DEF W!End, W!Scanned
<1>7. CASE UNCHANGED workers
  BY <1>7 DEF workers
<1> QED
  BY <1>2, <1>3, <1>4, <1>5, <1>6, <1>7 DEF W!Next, W!Scan

LEMMA ScrapesScan == [ScrapesNext]_all => [W!Next]_workers
<1> SUFFICES ASSUME [ScrapesNext]_all PROVE [W!Next]_workers
  OBVIOUS
<1>1. CASE Environment \/ Hang
  BY <1>1 DEF Environment, Hang, W!Next
<1>2. CASE Refresh
  BY <1>2 DEF Refresh
<1>3. CASE Gather \/ CollectConfig \/ CollectWorkers \/ CollectStub \/ Respond
  BY <1>3 DEF Gather, CollectConfig, CollectWorkers, CollectStub, Respond, W!Next
<1>4. CASE Signal \/ Exit
  BY <1>4 DEF Signal, Exit
<1>5. CASE UNCHANGED all
  BY <1>5 DEF all
<1> QED
  BY <1>1, <1>2, <1>3, <1>4, <1>5 DEF ScrapesNext

(* However many workers start and end during a scan, those that outlive it *)
(* are shown.                                                              *)
THEOREM StandingWorkersCorrect == ScrapesSpec => []StandingWorkersShown
<1>1. ScanInv => StandingWorkersShown
  BY DEF ScanInv, StandingWorkersShown, W!StandingWorkersShown, W!Scanned
<1>2. ScrapesInit => ScanInv
  BY ScanInit DEF ScrapesInit
<1>3. ScanInv /\ [ScrapesNext]_all => ScanInv'
  BY ScanStep, ScrapesScan
<1> QED
  BY <1>1, <1>2, <1>3, PTL DEF ScrapesSpec
=============================================================================
