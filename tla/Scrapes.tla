------------------------------- MODULE Scrapes -------------------------------
(***************************************************************************)
(* One scrape of /metrics: the registry runs the collectors side by side   *)
(* and answers when the last is done.  ConfigCollector waits for c.mu,     *)
(* StubCollector for nginx or its timeout, WorkersCollector reads /proc;   *)
(* the others answer from memory and are left out.  A signal ends the      *)
(* process whatever they wait for.                                         *)
(***************************************************************************)
EXTENDS ConfigRefresh

CONSTANTS Pid, Workers

ASSUME ScanAssumption == Workers \subseteq Pid

VARIABLES
  procs, scan, todo, out, standing,   \* of WorkerScan
  stub,     \* "idle", "asking", "done"
  hung,     \* does the running nginx -T never return?
  process   \* "runs", "stopping" (signalled), "exited"

W == INSTANCE WorkerScan

workers == <<procs, scan, todo, out, standing>>
server  == <<hung, process>>
all     == <<vars, workers, stub, server>>

ScrapesInit ==
  /\ Init /\ W!Init
  /\ stub = "idle" /\ hung = FALSE /\ process = "runs"

-----------------------------------------------------------------------------
Environment ==
  \/ /\ Deploy \/ Flip
     /\ UNCHANGED <<workers, stub, server>>
  \/ /\ W!Nginx
     /\ UNCHANGED <<vars, stub, server>>

(* nginx -T runs without a timeout. *)
Hang ==
  /\ process # "exited" /\ refresher = "running" /\ ~hung
  /\ hung' = TRUE
  /\ UNCHANGED <<vars, workers, stub, process>>

(* The select of the refresher may take a tick though the context is       *)
(* cancelled.                                                              *)
Refresh ==
  /\ process # "exited"
  /\ \/ Begin \/ DiskOK \/ RefreshFails
     \/ ~hung /\ (CommandOK \/ CommandFails)
  /\ UNCHANGED <<workers, stub, server>>

(* A request while the server accepts: Gather starts every collector. *)
Gather ==
  /\ process = "runs"
  /\ Scrape /\ W!Begin /\ stub' = "asking"
  /\ UNCHANGED server

CollectConfig ==
  /\ process # "exited" /\ Collect
  /\ UNCHANGED <<workers, stub, server>>

CollectWorkers ==
  /\ process # "exited" /\ W!Scan
  /\ UNCHANGED <<vars, stub, server>>

(* fetch: a page, or an error, the timeout of 3 s included. *)
CollectStub ==
  /\ process # "exited" /\ stub = "asking"
  /\ stub' = "done"
  /\ UNCHANGED <<vars, workers, server>>

(* All are done: the answer is written. *)
Respond ==
  /\ process # "exited" /\ stub = "done"
  /\ Answer /\ W!End /\ stub' = "idle"
  /\ UNCHANGED server

(* SIGTERM: the context is cancelled, Shutdown stops accepting. *)
Signal ==
  /\ process = "runs" /\ process' = "stopping"
  /\ UNCHANGED <<vars, workers, stub, hung>>

(* Slip: main waits until the last scrape is answered. *)
Exit_drained ==
  /\ process = "stopping" /\ Serving /\ scraper = "idle" /\ process' = "exited"
  /\ UNCHANGED <<vars, workers, stub, hung>>

(* main gets to ListenAndServe when Start has returned.  It returns as     *)
(* soon as Shutdown is called, and main after the final save: what is      *)
(* still under way is cut off.                                             *)
Exit ==
  /\ process = "stopping" /\ Serving /\ process' = "exited"
  /\ UNCHANGED <<vars, workers, stub, hung>>

ScrapesNext == \/ Environment \/ Hang \/ Refresh
               \/ Gather \/ CollectConfig \/ CollectWorkers \/ CollectStub \/ Respond
               \/ Signal \/ Exit

ScrapesSpec == ScrapesInit /\ [][ScrapesNext]_all

(* Ticks come, nginx -T returns unless it hangs, c.mu is not withheld from *)
(* a goroutine that waits for it, reads of /proc return, the stub's client *)
(* has a timeout, and main goes on after the signal.                       *)
ScrapesFairness ==
  /\ WF_all(Refresh) /\ SF_all(CollectConfig)
  /\ WF_all(CollectWorkers) /\ WF_all(CollectStub) /\ WF_all(Respond)
  /\ WF_all(Exit)
ScrapesFairSpec == ScrapesSpec /\ ScrapesFairness

-----------------------------------------------------------------------------
StandingWorkersShown == W!StandingWorkersShown

(* As long as nginx -T returns, each scrape gets its answer, however nginx *)
(* behaves towards the other collectors, unless the process is stopped.    *)
ScrapeAnswered == scraper = "waiting" ~> scraper = "idle" \/ hung \/ process = "exited"

(* A signal ends the process, though nginx -T may hold c.mu for good and a *)
(* scrape wait for it; only in Start main itself waits for nginx -T, which *)
(* does not see the signal.                                                *)
StopsOnSignal == process = "stopping" ~> process = "exited" \/ (hung /\ ~Serving)

(* The same without the exception, which the code does not meet.           *)
AlwaysStops == process = "stopping" ~> process = "exited"

(* Once every file can be read for good, the last deployment is the        *)
(* topology and it lacks no file, whichever refreshes nginx -T serves and  *)
(* whatever failed before.                                                 *)
Converges ==
  <>[](disk = "whole")
    => <>[]((cfg = deployed /\ ~partial) \/ hung \/ process # "runs")
=============================================================================
