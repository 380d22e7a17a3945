---------------------------- MODULE ConfigRefresh ----------------------------
(***************************************************************************)
(* ConfigCollector: the synchronous first refresh of Start, the background *)
(* refresher, which runs nginx -T and, when that fails, reads the files,   *)
(* with c.mu held, and scrapes, which take c.mu to copy the topology and   *)
(* the failure count.  A topology is the number of the deployment that the *)
(* oldest part of its text is from.                                        *)
(***************************************************************************)
EXTENDS Naturals

CONSTANTS
  MaxDeploys,    \* bound on the deployments
  MaxFailures    \* failed refreshes are counted up to here

ASSUME ConfigAssumption == MaxDeploys \in Nat /\ MaxFailures \in Nat

VARIABLES
  deployed,   \* the deployment on this host
  disk,       \* "whole", "partial" when some include cannot be read, "none"
              \* when nginx.conf cannot, or there is no fallback
  mu,         \* who holds c.mu: "free" or "refresher"
  refresher,  \* "starting" (before Start returned), "idle", "running" the
              \* command, "reading" the files
  from,       \* the deployment when the refresh under way began
  cfg,        \* the topology, NoConfig before the first success
  partial,    \* does it lack the files that could not be read?
  failures,
  scraper,    \* "idle", "waiting" for c.mu, "shown" when it has copied what
              \* it shows
  since       \* history: failures when the topology was read

source  == <<deployed, disk>>
memory  == <<cfg, partial, failures, since>>
refresh == <<mu, refresher, from, memory>>
vars    == <<source, refresh, scraper>>

NoConfig == 0
Topology == 1 .. MaxDeploys + 1

Init ==
  /\ deployed = 1 /\ disk \in {"whole", "partial", "none"}
  /\ mu = "free" /\ refresher = "starting" /\ from = NoConfig
  /\ cfg = NoConfig /\ partial = FALSE /\ failures = 0
  /\ since = 0 /\ scraper = "idle"

-----------------------------------------------------------------------------
(* nginx's side *)
Deploy ==
  /\ deployed <= MaxDeploys
  /\ deployed' = deployed + 1
  /\ UNCHANGED <<disk, refresh, scraper>>

(* Files lose the mode that lets the exporter read them, or get it back.   *)
Flip ==
  /\ disk' \in {"whole", "partial", "none"} \ {disk}
  /\ UNCHANGED <<deployed, refresh, scraper>>

-----------------------------------------------------------------------------
(* Start's own refresh, and one at each tick: lock, then run nginx -T. *)
Begin ==
  /\ refresher \in {"starting", "idle"} /\ mu = "free"
  /\ mu' = "refresher" /\ refresher' = "running" /\ from' = deployed
  /\ UNCHANGED <<memory, source, scraper>>

End == mu' = "free" /\ refresher' = "idle" /\ from' = NoConfig

(* Parse; the text is that of deployments that were there meanwhile. *)
Parsed(lacking) ==
  /\ cfg' \in from .. deployed /\ partial' = lacking
  /\ since' = failures
  /\ End
  /\ UNCHANGED <<failures, source, scraper>>

(* nginx -T succeeds, or fails (on a key it cannot read, on a broken       *)
(* configuration), and then the fallback is next.                          *)
CommandOK == refresher = "running" /\ Parsed(FALSE)

CommandFails ==
  /\ refresher = "running" /\ refresher' = "reading"
  /\ UNCHANGED <<mu, from, memory, source, scraper>>

(* An include that cannot be read is passed over, and that is a success. *)
DiskOK == refresher = "reading" /\ disk # "none" /\ Parsed(disk = "partial")

Failed == IF failures < MaxFailures THEN failures + 1 ELSE failures

(* Slip: the error of the fallback is not looked at: the text it did not   *)
(* read is parsed.                                                         *)
RefreshFails_parsesNothing ==
  /\ refresher = "reading" /\ disk = "none"
  /\ cfg' = NoConfig /\ partial' = FALSE /\ since' = failures
  /\ End
  /\ UNCHANGED <<failures, source, scraper>>

(* Slip: a refresher that returns instead of waiting for the next tick. *)
RefreshFails_givesUp ==
  /\ refresher = "reading" /\ disk = "none"
  /\ failures' = Failed
  /\ mu' = "free" /\ refresher' = "gone"
  /\ UNCHANGED <<from, cfg, partial, since, source, scraper>>

(* Slip: the early return leaves the mutex locked. *)
RefreshFails_keepsLock ==
  /\ refresher = "reading" /\ disk = "none"
  /\ failures' = Failed
  /\ refresher' = "idle" /\ UNCHANGED mu
  /\ UNCHANGED <<from, cfg, partial, since, source, scraper>>

(* Neither the command nor the disk: the topology stays. *)
RefreshFails ==
  /\ refresher = "reading" /\ disk = "none"
  /\ failures' = Failed
  /\ End
  /\ UNCHANGED <<cfg, partial, since, source, scraper>>

-----------------------------------------------------------------------------
(* main serves once Start has returned, after its own refresh. *)
Serving == cfg # NoConfig \/ failures > 0

Scrape ==
  /\ scraper = "idle" /\ Serving
  /\ scraper' = "waiting"
  /\ UNCHANGED <<source, refresh>>

(* Lock, copy both, unlock. *)
Collect ==
  /\ scraper = "waiting" /\ mu = "free"
  /\ scraper' = "shown"
  /\ UNCHANGED <<source, refresh>>

Answer ==
  /\ scraper = "shown"
  /\ scraper' = "idle"
  /\ UNCHANGED <<source, refresh>>

Next == \/ Deploy \/ Flip
        \/ Begin \/ CommandOK \/ CommandFails \/ DiskOK \/ RefreshFails
        \/ Scrape \/ Collect \/ Answer

Spec == Init /\ [][Next]_vars

-----------------------------------------------------------------------------
(* Every variable has its type; the mutex is held exactly during a refresh *)
TypeInv ==
  /\ deployed \in Topology /\ disk \in {"whole", "partial", "none"}
  /\ refresher \in {"starting", "idle", "running", "reading"}
  /\ mu = (IF refresher \in {"running", "reading"} THEN "refresher" ELSE "free")
  /\ cfg \in Topology \cup {NoConfig} /\ from \in Topology \cup {NoConfig}
  /\ partial \in BOOLEAN /\ failures \in 0 .. MaxFailures
  /\ since \in 0 .. failures
  /\ scraper \in {"idle", "waiting", "shown"}

(* No refresh puts back an older topology, and one that has stopped        *)
(* following the deployments shows it: where a refresh ends without what   *)
(* was there when it began, nginx_fleet_config_parse_errors_total has      *)
(* risen since the topology was read.  (That a topology lacks files shows  *)
(* nowhere: see LackShown.)                                                *)
StaleIsCounted ==
  [][ /\ cfg' >= cfg
      /\ refresher' = "idle" /\ cfg' < from
           => failures' > since' \/ failures' = MaxFailures ]_vars

(* A topology that lacks files shows it (README.md:74-76: a collector that *)
(* fails, "permission denied" included, "reports itself as a metric"): the *)
(* code passes over an include that cannot be read without counting it.    *)
LackShown == partial => failures > since

(* A scrape does not wait while nginx -T runs ("-T can stall for seconds   *)
(* while nginx validates certificates, and a scrape must never block on    *)
(* it").                                                                   *)
ScrapeNeverBlocks == ~(scraper = "waiting" /\ refresher = "running")
=============================================================================
