----------------------------- MODULE WorkerScan -----------------------------
(***************************************************************************)
(* WorkersCollector: listWorkers lists /proc and then visits one entry     *)
(* after the other, while nginx forks and ends workers.  The numbers it    *)
(* reads of a worker (0 where a read fails) are left out.  A process id    *)
(* does not come back while a scan lasts.                                  *)
(***************************************************************************)
CONSTANTS
  Pid,       \* process ids
  Workers    \* those that are workers at the start

VARIABLES
  procs,     \* "unborn", "forked" (with the master's title), "worker", "gone"
  scan,      \* "idle", "list", "visit"
  todo,      \* entries of /proc still to visit
  out,       \* the workers found
  standing   \* history: workers since before /proc was listed

scanning == <<scan, todo, out>>
vars     == <<procs, scanning, standing>>

With(title) == {p \in Pid : procs[p] = title}

Init ==
  /\ procs = [p \in Pid |-> IF p \in Workers THEN "worker" ELSE "unborn"]
  /\ scan = "idle" /\ todo = {} /\ out = {}
  /\ standing = {}

-----------------------------------------------------------------------------
(* nginx: the master forks, the child takes its title, a worker ends.      *)
Becomes(p, from, to) ==
  /\ procs[p] = from /\ procs' = [procs EXCEPT ![p] = to]
  /\ standing' = standing \ {p}
  /\ UNCHANGED scanning

Nginx == \E p \in Pid : \/ Becomes(p, "unborn", "forked")
                        \/ Becomes(p, "forked", "worker")
                        \/ Becomes(p, "worker", "gone")

-----------------------------------------------------------------------------
Begin ==
  /\ scan = "idle" /\ scan' = "list"
  /\ standing' = With("worker")
  /\ UNCHANGED <<procs, todo, out>>

(* os.ReadDir("/proc") *)
List ==
  /\ scan = "list" /\ scan' = "visit"
  /\ todo' = With("forked") \cup With("worker")
  /\ UNCHANGED <<procs, out, standing>>

(* Slip: an entry that is gone, or is no worker, ends the scan. *)
Visit_stops ==
  /\ scan = "visit"
  /\ \E p \in todo : IF p \in With("worker")
                     THEN todo' = todo \ {p} /\ out' = out \cup {p}
                     ELSE todo' = {} /\ UNCHANGED out
  /\ UNCHANGED <<procs, scan, standing>>

(* An entry that is gone, or is no worker, is passed over. *)
Visit ==
  /\ scan = "visit"
  /\ \E p \in todo : /\ todo' = todo \ {p}
                     /\ out' = out \cup ({p} \cap With("worker"))
  /\ UNCHANGED <<procs, scan, standing>>

Scanned == scan = "visit" /\ todo = {}

End ==
  /\ Scanned /\ scan' = "idle"
  /\ out' = {} /\ standing' = {}
  /\ UNCHANGED <<procs, todo>>

Scan == List \/ Visit
Next == Nginx \/ Begin \/ Scan \/ End
Spec == Init /\ [][Next]_vars

(* nginx has a worker at every moment, as it does across a reload. *)
ServingSpec == Init /\ [][Next /\ With("worker")' # {}]_vars

-----------------------------------------------------------------------------
(* A worker that lives from before the scan to its end is shown, whatever  *)
(* else starts or ends meanwhile.                                          *)
StandingWorkersShown == Scanned => standing \subseteq out

(* An nginx that always has a worker (ServingSpec) is never shown without  *)
(* ("a cluster member counts as healthy only if its exporter reports live  *)
(* nginx workers").                                                        *)
NeverBlank == Scanned => out # {}
=============================================================================
