------------------------- MODULE TopologyProofs -------------------------
(***************************************************************************)
(* Proofs about what the routing topology is made of: the configuration    *)
(* that nginxconf.Parse reads (NginxConf), and the TLS probe of its        *)
(* listeners (TlsProbe).                                                   *)
(***************************************************************************)
EXTENDS NginxConf, TlsProbe, SequenceTheorems, TLAPS


-----------------------------------------------------------------------------
(* TlsProbe: for every topology, any number of keys and every bound on     *)
(* failovers, renewals and reloads.                                        *)

(* Can a probe that has (or has not) the virtual address reach t? *)
Within(t, has) == t.addr = Loopback \/ has

(* Halfway through a probe: a key is either answered for, or a target that *)
(* can be reached is still to be probed, if it is within reach at all.     *)
Halfway ==
  pc = "probing" => \A k \in Key :
    /\ fresh[k] # Absent => Reachable(probe, k)
    /\ Reachable(probe, k) =>
         \/ fresh[k] # Absent
         \/ \E t \in Range(todo) : t.key = k /\ Within(t, local)

(* Before the first target, nothing is answered for and all is to do. *)
Began ==
  /\ pc = "probing" => local = probe.local
  /\ pc # "probing" => fresh = None
  /\ pc = "addresses" => todo = probe.cfg

PInv == TypeInv /\ todo \in Seq(Target) /\ Began /\ Halfway /\ OneProbe

(* A sequence that is not empty is its head and its tail. *)
LEMMA HeadOrTail ==
  ASSUME NEW s \in Seq(Target), s # <<>>
  PROVE  /\ Head(s) \in Target /\ Tail(s) \in Seq(Target)
         /\ Range(s) = {Head(s)} \cup Range(Tail(s))
<1>1. Head(s) = s[1] /\ Len(s) \in Nat \ {0} /\ s \in [1 .. Len(s) -> Target]
  OBVIOUS
<1>2. /\ Tail(s) \in Seq(Target) /\ Len(Tail(s)) = Len(s) - 1
      /\ \A i \in 1 .. Len(s) - 1 : Tail(s)[i] = s[i + 1]
  OBVIOUS
<1>3. \A i \in DOMAIN s : i = 1 \/ (i - 1 \in DOMAIN Tail(s) /\ s[i] = Tail(s)[i - 1])
  BY <1>1, <1>2
<1>4. \A i \in DOMAIN Tail(s) : i + 1 \in DOMAIN s /\ s[i + 1] = Tail(s)[i]
  BY <1>1, <1>2
<1>5. Head(s) \in Target
  BY <1>1
<1>6. Range(s) \subseteq {Head(s)} \cup Range(Tail(s))
  <2> SUFFICES ASSUME NEW i \in DOMAIN s PROVE s[i] = Head(s) \/ s[i] \in Range(Tail(s))
    BY DEF Range
  <2> QED
    BY <1>1, <1>3 DEF Range
<1>7. Range(Tail(s)) \subseteq Range(s)
  BY <1>4 DEF Range
<1>8. Head(s) \in Range(s)
  BY <1>1 DEF Range
<1> QED
  BY <1>2, <1>5, <1>6, <1>7, <1>8

(* What has no entry, and what was not answered, are results. *)
LEMMA ResultTypes == Absent \in Result /\ Failed \in Result /\ Failed # Absent
<1>1. Failed.node = "here" /\ Absent.node = "none"
  BY DEF Failed, Absent
<1> QED
  BY <1>1 DEF Result

(* The invariant holds at first. *)
LEMMA PInvInit == Init => PInv
<1> SUFFICES ASSUME Init PROVE PInv
  OBVIOUS
<1>1. TypeInv
  <2>1. None \in [Key -> Result]
    BY ResultTypes DEF None
  <2>2. Range(todo) = {}
    BY DEF Init, Range
  <2>3. cert \in [Node -> 0 .. MaxRenewals] /\ moves \in 0 .. MaxMoves /\ reloads \in 0 .. MaxReloads
    BY ProbeAssumption DEF Init
  <2>4. NoProbe \in Probing
    BY DEF NoProbe, Probing
  <2> QED
    BY <2>1, <2>2, <2>3, <2>4 DEF Init, TypeInv
<1>2. OneProbe
  BY DEF Init, OneProbe, None, NoProbe, Reachable, Range
<1> QED
  BY <1>1, <1>2 DEF Init, PInv, Began, Halfway

(* What answers is a result. *)
LEMMA ServedType ==
  ASSUME TypeInv, NEW t \in Target
  PROVE  Served(t) \in Result /\ Served(t) # Absent
<1>1. Answerer(t) \in Node
  BY DEF Answerer, TypeInv, Node
<1>2. cert[Answerer(t)] \in 0 .. MaxRenewals
  BY <1>1 DEF TypeInv
<1>3. Served(t) \in [ok : {TRUE}, node : Node, cert : 0 .. MaxRenewals]
  BY <1>1, <1>2 DEF Served
<1>4. Served(t).ok = TRUE /\ Absent.ok = FALSE
  BY DEF Served, Absent
<1> QED
  BY <1>3, <1>4 DEF Result

(* What happens to the node and its configuration keeps the invariant.     *)
LEMMA WorldStep ==
  ASSUME PInv, Move \/ Listing \/ Renew \/ Lock \/ Unlock
  PROVE  PInv'
<1> USE DEF PInv
<1>1. UNCHANGED prober /\ probe' \in Probing /\ probe'.cfg = probe.cfg /\ probe'.local = probe.local
  <2>1. CASE Move
    BY <2>1, Zenon DEF Move, TypeInv, Probing
  <2>2. CASE Listing \/ Renew \/ Lock \/ Unlock
    BY <2>2 DEF Listing, Renew, Lock, Unlock, TypeInv
  <2> QED
    BY <2>1, <2>2
<1>2. TypeInv'
  <2>1. CASE Move
    BY <2>1, <1>1, ProbeAssumption DEF TypeInv, Move, prober, config
  <2>2. CASE Listing
    BY <2>2, <1>1 DEF TypeInv, Listing, prober, config
  <2>3. CASE Renew
    BY <2>3, <1>1, ProbeAssumption DEF TypeInv, Renew, prober, config
  <2>4. CASE Lock
    BY <2>4, <1>1 DEF TypeInv, Lock, prober
  <2>5. CASE Unlock
    <3>1. locked' \in BOOLEAN /\ known' \in BOOLEAN
      BY <2>5, Zenon DEF Unlock, TypeInv
    <3>2. reloads' \in 0 .. MaxReloads /\ cfg' \in Topologies
      <4>1. reloads' = reloads \/ (reloads < MaxReloads /\ reloads' = reloads + 1)
        BY <2>5 DEF Unlock
      <4>2. cfg' \in Topologies
        BY <2>5 DEF Unlock, TypeInv
      <4> QED
        BY <4>1, <4>2, ProbeAssumption DEF TypeInv
    <3>3. UNCHANGED <<holder, listing, cert, moves>>
      BY <2>5 DEF Unlock
    <3> QED
      BY <3>1, <3>2, <3>3, <1>1 DEF TypeInv, prober
  <2> QED
    BY <2>1, <2>2, <2>3, <2>4, <2>5
<1>3. \A k \in Key : Reachable(probe', k) <=> Reachable(probe, k)
  BY <1>1 DEF Reachable
<1> QED
  BY <1>1, <1>2, <1>3 DEF Began, Halfway, OneProbe, prober

(* A target that is skipped or dialled keeps it. *)
LEMMA TargetStep ==
  ASSUME PInv, Skip \/ Probe
  PROVE  PInv'
<1> USE DEF PInv
<1> DEFINE t == Head(todo)
<1>1. /\ todo # <<>> /\ pc = "probing" /\ todo' = Tail(todo)
      /\ UNCHANGED <<world, pc, local, results, probe, probed>>
  BY DEF Skip, Probe
<1>3. /\ t \in Target /\ Tail(todo) \in Seq(Target)
      /\ Range(todo) = {t} \cup Range(Tail(todo))
  BY <1>1, HeadOrTail
<1>4. t \in Range(probe.cfg)
  BY <1>3 DEF TypeInv
<1>5. /\ fresh' \in [Key -> Result]
      /\ \A k \in Key \ {t.key} : fresh'[k] = fresh[k]
      /\ fresh[t.key] # Absent => fresh'[t.key] # Absent
      /\ fresh'[t.key] # Absent \/ ~Within(t, local)
      /\ fresh'[t.key] # Absent => fresh[t.key] # Absent \/ Within(t, local)
  <2>1. t.key \in Key /\ fresh \in [Key -> Result]
    BY <1>3 DEF Target, TypeInv
  <2>2. CASE Skip
    BY <2>1, <2>2, ProbeAssumption DEF Skip, Skipped, Within
  <2>3. CASE Probe
    BY <2>1, <2>3, <1>3, ResultTypes, ServedType DEF Probe, Skipped, Within, Target, Address
  <2> QED
    BY <2>2, <2>3
<1>6. TypeInv'
  BY <1>1, <1>3, <1>5 DEF TypeInv, world, config
<1>7. Halfway'
  <2> SUFFICES ASSUME NEW k \in Key
               PROVE  /\ fresh'[k] # Absent => Reachable(probe, k)
                      /\ Reachable(probe, k) =>
                           \/ fresh'[k] # Absent
                           \/ \E u \in Range(Tail(todo)) : u.key = k /\ Within(u, local)
    BY <1>1 DEF Halfway
  <2>1. fresh'[k] # Absent => Reachable(probe, k)
    BY <1>1, <1>4, <1>5 DEF Halfway, Began, Reachable, Within
  <2>2. Reachable(probe, k) => \/ fresh[k] # Absent
                               \/ \E u \in Range(todo) : u.key = k /\ Within(u, local)
    BY <1>1 DEF Halfway
  <2> QED
    BY <2>1, <2>2, <1>3, <1>5
<1> QED
  BY <1>1, <1>3, <1>6, <1>7 DEF Began, OneProbe

(* Every step keeps the invariant. *)
LEMMA PInvStep == PInv /\ [Next]_vars => PInv'
<1> SUFFICES ASSUME PInv, [Next]_vars PROVE PInv'
  OBVIOUS
<1> USE DEF PInv
<1>1. CASE Start
  <2>1. cfg \in Seq(Target)
    BY ProbeAssumption DEF TypeInv
  <2>2. probe' = [cfg |-> cfg, local |-> FALSE, left |-> FALSE] /\ probe' \in Probing
    BY <1>1, <2>1 DEF Start, NoProbe, Probing
  <2>3. TypeInv'
    BY <1>1, <2>2 DEF Start, TypeInv, world, config
  <2> QED
    BY <1>1, <2>1, <2>2, <2>3 DEF Start, Began, Halfway, OneProbe
<1>2. CASE Addresses
  <2>1. /\ local' \in BOOLEAN /\ probe' \in Probing
        /\ probe'.cfg = probe.cfg /\ probe'.local = local'
    BY <1>2, Zenon DEF Addresses, TypeInv, Probing
  <2>2. TypeInv'
    BY <1>2, <2>1 DEF Addresses, TypeInv, world, config
  <2>3. Halfway'
    <3>1. fresh' = None /\ todo' = probe'.cfg
      BY <1>2, <2>1 DEF Addresses, Began
    <3> QED
      BY <3>1, <2>1 DEF Halfway, Reachable, Within, None
  <2> QED
    BY <1>2, <2>1, <2>2, <2>3 DEF Addresses, Began, OneProbe
<1>3. CASE Skip \/ Probe
  BY <1>3, TargetStep
<1>4. CASE Publish
  <2>1. None \in [Key -> Result] /\ NoProbe \in Probing
    BY ResultTypes DEF None, NoProbe, Probing
  <2>2. TypeInv'
    <3>1. Range(todo') \subseteq Range(probe'.cfg)
      BY <1>4 DEF Publish, Range
    <3> QED
      BY <1>4, <2>1, <3>1 DEF Publish, TypeInv, world, config
  <2>3. OneProbe'
    BY <1>4 DEF Publish, OneProbe, Halfway, Reachable, Range
  <2> QED
    BY <1>4, <2>2, <2>3 DEF Publish, Began, Halfway
<1>5. CASE Move \/ Listing \/ Renew \/ Lock \/ Unlock
  BY <1>5, WorldStep
<1>6. CASE UNCHANGED vars
  BY <1>6 DEF vars, world, config, prober, TypeInv, Began, Halfway, OneProbe, Reachable
<1> QED
  BY <1>1, <1>2, <1>3, <1>4, <1>5, <1>6 DEF Next, Prober

(* The prober's state keeps its type, and it probes nothing but what the   *)
(* probe began with.                                                       *)
THEOREM ProbeTypeCorrect == Spec => []TypeInv
<1>1. PInv => TypeInv
  BY DEF PInv
<1> QED
  BY <1>1, PInvInit, PInvStep, PTL DEF Spec

(* The series are those of one probe, whatever moves and reloads there are *)
(* during it.                                                              *)
THEOREM OneProbeCorrect == Spec => []OneProbe
<1>1. PInv => OneProbe
  BY DEF PInv
<1> QED
  BY <1>1, PInvInit, PInvStep, PTL DEF Spec

-----------------------------------------------------------------------------
(* Who is dialled is this node as long as the address stays after it was   *)
(* read; what was shown before, and what is answered for so far, is this   *)
(* node's, or the address left during its probe.                           *)
OwnUntilLeft ==
  /\ pc = "probing" /\ local /\ holder = "peer" => probe.left
  /\ \A k \in Key : fresh[k].ok /\ fresh[k].node = "peer" => probe.left
  /\ OwnCertificate

(* Nothing is answered for, by anyone, at first. *)
LEMMA NoneOwn == \A k \in Key : None[k].ok = FALSE
  BY DEF None, Absent

(* Every step keeps what is said of the nodes. *)
LEMMA OwnStep == PInv /\ OwnUntilLeft /\ [Next]_vars => OwnUntilLeft'
<1> SUFFICES ASSUME PInv, OwnUntilLeft, [Next]_vars PROVE OwnUntilLeft'
  OBVIOUS
<1> USE DEF OwnUntilLeft
<1>1. CASE Move
  <2>1. /\ probe'.left = (probe.left \/ (pc = "probing" /\ holder = "here"))
        /\ UNCHANGED prober /\ holder \in Node /\ holder' \in Node \ {holder}
    BY <1>1, Zenon DEF Move, PInv, TypeInv, Probing
  <2>2. holder' = "peer" => holder = "here"
    BY <2>1 DEF Node
  <2> QED
    BY <2>1, <2>2 DEF prober, OwnCertificate
<1>2. CASE Listing \/ Renew \/ Lock \/ Unlock
  BY <1>2 DEF Listing, Renew, Lock, Unlock, prober, OwnCertificate
<1>3. CASE Start
  <2>1. fresh' = None /\ pc' = "addresses" /\ UNCHANGED <<results, probed>>
    BY <1>3 DEF Start, PInv, Began
  <2> QED
    BY <2>1, NoneOwn DEF OwnCertificate
<1>4. CASE Addresses
  <2>1. /\ fresh' = None /\ UNCHANGED <<world, results, probed>>
        /\ local' => holder = "here"
    BY <1>4 DEF Addresses, PInv, Began
  <2> QED
    BY <2>1, NoneOwn DEF OwnCertificate, world
<1>5. CASE Skip
  BY <1>5 DEF Skip, world, OwnCertificate
<1>6. CASE Probe
  <2> DEFINE t == Head(todo)
  <2>1. t \in Target /\ pc = "probing" /\ fresh \in [Key -> Result]
    BY <1>6, HeadOrTail DEF Probe, PInv, TypeInv
  <2>2. Answerer(t) = "peer" => probe.left
    BY <1>6, <2>1 DEF Probe, Skipped, Answerer
  <2>3. \A r \in {Failed, Served(t)} : r.ok /\ r.node = "peer" => probe.left
    BY <2>2 DEF Failed, Served
  <2>4. \A k \in Key : fresh'[k].ok /\ fresh'[k].node = "peer" => probe.left
    BY <1>6, <2>1, <2>3 DEF Probe
  <2> QED
    BY <1>6, <2>4 DEF Probe, world, OwnCertificate
<1>7. CASE Publish
  <2>1. fresh' = None /\ pc' = "asleep" /\ results' = fresh /\ probed' = probe
    BY <1>7 DEF Publish
  <2> QED
    BY <2>1, NoneOwn DEF OwnCertificate
<1>8. CASE UNCHANGED vars
  BY <1>8 DEF vars, world, prober, OwnCertificate
<1> QED
  BY <1>1, <1>2, <1>3, <1>4, <1>5, <1>6, <1>7, <1>8 DEF Next, Prober

(* A certificate of the other node is shown as this node's only if the     *)
(* virtual address left this node while the probe that shows it was        *)
(* dialling, whenever the address moves.                                   *)
THEOREM OwnCertificateCorrect == Spec => []OwnCertificate
<1>1. OwnUntilLeft => OwnCertificate
  BY DEF OwnUntilLeft
<1>2. Init => OwnUntilLeft
  BY NoneOwn DEF Init, OwnUntilLeft, OwnCertificate
<1> QED
  BY <1>1, <1>2, PInvInit, PInvStep, OwnStep, PTL DEF Spec

-----------------------------------------------------------------------------
(* NginxConf: for every configuration that nginx accepts.                  *)
(*                                                                         *)
(* Parse is a function of its state and the next item (Step), and some     *)
(* items lead it from one state to another (Leads).  For a configuration   *)
(* that is written the invariant says what each of its parts would lead    *)
(* Parse to, wherever it comes in the text and whatever was read before it *)
(* (Reads), with what the writer has said so far (Writer); so the two      *)
(* orders in which refresh may get the parts each lead to a known result,  *)
(* and while Parse is on its way it stays on it.                           *)
-----------------------------------------------------------------------------
(* nginxconf.Parse: one item.                                              *)

(* What Parse keeps between two items; cur is the last server if one is    *)
(* open.                                                                   *)
State(b, u, ups, all, w) == [stack |-> b, up |-> u, ups |-> ups, all |-> all, w |-> w]
Now    == State(stack, curUpstream, Upstreams, Servers, WorkerProcesses)
Cur(s) == IF InBlock(s.stack, "server") THEN Len(s.all) ELSE 0

(* What it makes of an item. *)
StepStack(s, t) ==
  IF t.op = "open" THEN Append(s.stack, t.name)
  ELSE IF t.op = "close" THEN Front(s.stack) ELSE s.stack

StepUp(s, t) ==
  IF t.op = "open" /\ t.name = "upstream" THEN t.arg
  ELSE IF t.op = "close" /\ Last(s.stack) = "upstream" THEN Nothing ELSE s.up

StepUps(s, t) ==
  IF t.op = "open" /\ t.name = "upstream" THEN [s.ups EXCEPT ![t.arg] = <<>>]
  ELSE IF t.op = "set" /\ t.name = "server" /\ s.up # Nothing
  THEN [s.ups EXCEPT ![s.up] = Append(@, t.arg)] ELSE s.ups

StepAll(s, t) ==
  IF t.op = "open" /\ t.name = "server" THEN Append(s.all, InFile(NewServer, t.file))
  ELSE IF t.op = "set" /\ InBlock(s.stack, "server")
  THEN [s.all EXCEPT ![Len(s.all)] = Says(@, t.name, t.arg)] ELSE s.all

StepW(s, t) == IF t.op = "set" /\ t.name = "worker_processes" THEN t.arg ELSE s.w

Step(s, t) == State(StepStack(s, t), StepUp(s, t), StepUps(s, t), StepAll(s, t), StepW(s, t))

(* The fields of a state of Parse. *)
LEMMA Fields ==
  ASSUME NEW b, NEW u, NEW ups, NEW all, NEW w
  PROVE  LET s == State(b, u, ups, all, w) IN
         s.stack = b /\ s.up = u /\ s.ups = ups /\ s.all = all /\ s.w = w
  BY DEF State

(* The state of Parse is in its variables. *)
LEMMA NowFields ==
  /\ Now.stack = stack /\ Now.up = curUpstream /\ Now.ups = Upstreams
  /\ Now.all = Servers /\ Now.w = WorkerProcesses
  BY Fields DEF Now

(* A server or an upstream is at the top level of its file or of http.     *)
AllHttp(b) == \A i \in DOMAIN b : b[i] = "http"
Rooted(b)  == \A i \in DOMAIN b : b[i] \in {"server", "upstream"} =>
                \A j \in DOMAIN b : j < i => b[j] = "http"

Lists == [Up -> Seq(Value) \cup {Nothing}]
Good(s) ==
  /\ s.stack \in Seq(Blocks) /\ Rooted(s.stack)
  /\ s.up \in Up \cup {Nothing} /\ (s.up # Nothing <=> InBlock(s.stack, "upstream"))
  /\ s.ups \in Lists /\ (s.up # Nothing => s.ups[s.up] # Nothing)
  /\ s.all \in Seq(ServerBlock) /\ (InBlock(s.stack, "server") => s.all # <<>>)
  /\ s.w \in Value \cup {Nothing}

(* The items that may come next. *)
Legal(s, t) ==
  /\ t.file \in File
  /\ \/ /\ t.op = "open" /\ t.name \in Blocks
        /\ t.name \in {"server", "upstream"} => AllHttp(s.stack)
        /\ t.name = "upstream" => t.arg \in Up
     \/ t.op = "close" /\ s.stack # <<>>
     \/ t.op = "set" /\ t.name \in Directives /\ t.arg \in Value

(* A new server block is one. *)
LEMMA NewServerType == \A f \in File : InFile(NewServer, f) \in ServerBlock
  BY DEF InFile, NewServer, ServerBlock, File

(* A server block with a directive more is one, of the same file. *)
LEMMA SaysType ==
  ASSUME NEW s \in ServerBlock, NEW d \in Directives, NEW v \in Value
  PROVE  Says(s, d, v) \in ServerBlock /\ Says(s, d, v).File = s.File
<1> USE DEF ServerBlock
<1>1. Append(s.Names, v) \in Seq(Value \cup {CatchAll}) /\ Append(s.Listens, v) \in Seq(Value)
  OBVIOUS
<1>2. CASE d = "server_name" BY <1>1, <1>2 DEF Says
<1>3. CASE d = "listen" BY <1>1, <1>3 DEF Says
<1>4. CASE d = "proxy_pass" BY <1>4 DEF Says
<1>5. CASE d \notin {"server_name", "listen", "proxy_pass"} BY <1>5 DEF Says
<1> QED BY <1>2, <1>3, <1>4, <1>5

(* The last server block may be told a directive. *)
LEMMA LastSaid ==
  ASSUME NEW all \in Seq(ServerBlock), all # <<>>, NEW d \in Directives, NEW v \in Value
  PROVE  [all EXCEPT ![Len(all)] = Says(@, d, v)] \in Seq(ServerBlock)
<1>1. all[Len(all)] \in ServerBlock /\ Len(all) \in 1 .. Len(all)
  OBVIOUS
<1>2. Says(all[Len(all)], d, v) \in ServerBlock
  BY <1>1, SaysType
<1> QED
  BY <1>1, <1>2, ExceptSeq

(* All items but the last. *)
LEMMA FrontOf ==
  ASSUME NEW T, NEW q \in Seq(T), q # <<>>
  PROVE  /\ Front(q) \in Seq(T) /\ Len(Front(q)) = Len(q) - 1
         /\ \A i \in 1 .. Len(q) - 1 : Front(q)[i] = q[i]
<1>1. Len(q) \in Nat \ {0}
  OBVIOUS
<1>2. Front(q) = [i \in 1 .. Len(q) - 1 |-> q[i]]
  BY <1>1 DEF Front
<1> QED
  BY <1>1, <1>2

(* The stack after a block opens or closes. *)
LEMMA OpenStack ==
  ASSUME NEW b \in Seq(Blocks), NEW x \in Blocks, Rooted(b),
         x \in {"server", "upstream"} => AllHttp(b)
  PROVE  /\ Append(b, x) \in Seq(Blocks) /\ Rooted(Append(b, x))
         /\ \A y : InBlock(Append(b, x), y) <=> InBlock(b, y) \/ x = y
<1>1. PICK c, n : c = Append(b, x) /\ n = Len(b)
  OBVIOUS
<1>2. /\ c \in Seq(Blocks) /\ n \in Nat /\ DOMAIN c = 1 .. n + 1 /\ DOMAIN b = 1 .. n
      /\ c[n + 1] = x /\ \A i \in 1 .. n : c[i] = b[i]
  BY <1>1
<1>3. \A i \in 1 .. n + 1 : i \in 1 .. n \/ i = n + 1
  BY <1>2
<1>4. \A i \in 1 .. n : i \in 1 .. n + 1 /\ i < n + 1 /\ ~(n + 1 < i)
  BY <1>2
<1>5. n + 1 \in 1 .. n + 1
  BY <1>2
<1>6. \A y : InBlock(c, y) <=> InBlock(b, y) \/ x = y
  BY <1>2, <1>3, <1>4, <1>5 DEF InBlock
<1>7. Rooted(c)
  <2> SUFFICES ASSUME NEW i \in 1 .. n + 1, NEW j \in 1 .. n + 1, j < i,
                      c[i] \in {"server", "upstream"}
               PROVE  c[j] = "http"
    BY <1>2 DEF Rooted
  <2>1. j \in 1 .. n
    BY <1>2
  <2>2. CASE i \in 1 .. n
    BY <1>2, <2>1, <2>2 DEF Rooted
  <2>3. CASE i = n + 1
    BY <1>2, <2>1, <2>3 DEF AllHttp
  <2> QED BY <1>3, <2>2, <2>3
<1> QED BY <1>1, <1>2, <1>6, <1>7

(* Closing a block: the others stay open, and nginx takes no server or     *)
(* upstream inside another, so its name is no longer on the stack.         *)
LEMMA CloseStack ==
  ASSUME NEW b \in Seq(Blocks), b # <<>>, Rooted(b)
  PROVE  /\ Front(b) \in Seq(Blocks) /\ Rooted(Front(b))
         /\ \A y : InBlock(Front(b), y) => InBlock(b, y)
         /\ \A y \in {"server", "upstream"} :
              InBlock(Front(b), y) <=> InBlock(b, y) /\ Last(b) # y
<1>1. /\ Front(b) \in Seq(Blocks) /\ Len(Front(b)) = Len(b) - 1
      /\ \A i \in 1 .. Len(b) - 1 : Front(b)[i] = b[i]
  BY FrontOf
<1>2. Len(b) \in Nat \ {0} /\ Last(b) = b[Len(b)]
  BY DEF Last
<1>3. Rooted(Front(b))
  BY <1>1, <1>2 DEF Rooted
<1>4. \A y : InBlock(Front(b), y) => InBlock(b, y)
  BY <1>1, <1>2 DEF InBlock
<1>5. ASSUME NEW y \in {"server", "upstream"}
      PROVE  InBlock(Front(b), y) <=> InBlock(b, y) /\ Last(b) # y
  <2>1. ASSUME InBlock(Front(b), y) PROVE InBlock(b, y) /\ Last(b) # y
    <3>1. PICK i \in 1 .. Len(b) - 1 : b[i] = y
      BY <1>1, <2>1 DEF InBlock
    <3>2. b[Len(b)] = y => b[i] = "http"
      BY <1>2, <3>1, <1>5 DEF Rooted
    <3> QED BY <1>2, <1>4, <2>1, <3>1, <3>2
  <2>2. ASSUME InBlock(b, y), Last(b) # y PROVE InBlock(Front(b), y)
    <3>1. PICK i \in 1 .. Len(b) : b[i] = y
      BY <1>1, <2>2 DEF InBlock
    <3>2. i \in 1 .. Len(b) - 1
      BY <1>2, <2>2, <3>1
    <3> QED BY <1>1, <3>1, <3>2 DEF InBlock
  <2> QED BY <2>1, <2>2
<1> QED
  BY <1>1, <1>3, <1>4, <1>5

(* The empty string is none of the words. *)
LEMMA NothingApart ==
  Nothing \notin Up /\ Nothing \notin Value /\ Nothing \notin Seq(Value) /\ <<>> # Nothing
<1>1. Nothing \notin Value \cup Up \cup Seq(Value)
  BY ConfAssumption
<1>2. <<>> \in Seq(Value)
  OBVIOUS
<1> QED
  BY <1>1, <1>2, Zenon

(* A legal item leads from a good state to a good one. *)
LEMMA StepGood ==
  ASSUME NEW s, NEW t, Good(s), Legal(s, t)
  PROVE  Good(Step(s, t))
<1> DEFINE n == Step(s, t)
<1> SUFFICES Good(n)
  OBVIOUS
<1>1. /\ n.stack = StepStack(s, t) /\ n.up = StepUp(s, t) /\ n.ups = StepUps(s, t)
      /\ n.all = StepAll(s, t) /\ n.w = StepW(s, t)
  BY Fields DEF Step
<1> HIDE DEF n
<1>a. /\ Nothing \notin Up /\ Nothing \notin Seq(Value) /\ <<>> \in Seq(Value)
  BY NothingApart
<1>2. CASE t.op = "open"
  <2>1. t.name \in Blocks /\ (t.name \in {"server", "upstream"} => AllHttp(s.stack))
        /\ (t.name = "upstream" => t.arg \in Up)
    BY <1>2 DEF Legal
  <2>2. /\ n.stack \in Seq(Blocks) /\ Rooted(n.stack)
        /\ \A y : InBlock(n.stack, y) <=> InBlock(s.stack, y) \/ t.name = y
    BY <1>1, <1>2, <2>1, OpenStack DEF StepStack, Good
  <2>3. /\ n.up \in Up \cup {Nothing} /\ (n.up # Nothing <=> InBlock(n.stack, "upstream"))
        /\ n.ups \in Lists /\ (n.up # Nothing => n.ups[n.up] # Nothing)
    <3>1. CASE t.name = "upstream"
      BY <1>a, <1>1, <1>2, <2>1, <2>2, <3>1 DEF StepUp, StepUps, Good, Lists
    <3>2. CASE t.name # "upstream"
      BY <1>1, <1>2, <2>2, <3>2 DEF StepUp, StepUps, Good
    <3> QED BY <3>1, <3>2
  <2>4. n.all \in Seq(ServerBlock) /\ (InBlock(n.stack, "server") => n.all # <<>>)
    <3>1. CASE t.name = "server"
      <4>1. InFile(NewServer, t.file) \in ServerBlock
        BY NewServerType DEF Legal
      <4> QED BY <1>1, <1>2, <3>1, <4>1 DEF StepAll, Good
    <3>2. CASE t.name # "server"
      BY <1>1, <1>2, <2>2, <3>2 DEF StepAll, Good
    <3> QED BY <3>1, <3>2
  <2>5. n.w \in Value \cup {Nothing}
    BY <1>1, <1>2 DEF StepW, Good
  <2> QED BY <2>2, <2>3, <2>4, <2>5 DEF Good
<1>3. CASE t.op = "close"
  <2>1. s.stack # <<>>
    BY <1>3 DEF Legal
  <2>2. /\ n.stack \in Seq(Blocks) /\ Rooted(n.stack)
        /\ \A y \in {"server", "upstream"} :
             InBlock(n.stack, y) <=> InBlock(s.stack, y) /\ Last(s.stack) # y
    BY <1>1, <1>3, <2>1, CloseStack DEF StepStack, Good
  <2>3. n.ups = s.ups /\ n.all = s.all /\ n.w = s.w
        /\ n.up = (IF Last(s.stack) = "upstream" THEN Nothing ELSE s.up)
    BY <1>1, <1>3 DEF StepUp, StepUps, StepAll, StepW
  <2> QED BY <2>2, <2>3 DEF Good
<1>4. CASE t.op = "set"
  <2>1. t.name \in Directives /\ t.arg \in Value
    BY <1>4 DEF Legal
  <2>2. n.stack = s.stack /\ n.up = s.up
    BY <1>1, <1>4 DEF StepStack, StepUp
  <2>3. n.ups \in Lists /\ (n.up # Nothing => n.ups[n.up] # Nothing)
    <3>1. CASE t.name = "server" /\ s.up # Nothing
      <4>1. s.up \in Up /\ s.ups[s.up] \in Seq(Value)
        BY <3>1 DEF Good, Lists
      <4>2. Append(s.ups[s.up], t.arg) \in Seq(Value)
        BY <2>1, <4>1
      <4> QED BY <1>a, <1>1, <1>4, <2>2, <3>1, <4>1, <4>2 DEF StepUps, Good, Lists
    <3>2. CASE ~(t.name = "server" /\ s.up # Nothing)
      BY <1>1, <1>4, <2>2, <3>2 DEF StepUps, Good
    <3> QED BY <3>1, <3>2
  <2>4. n.all \in Seq(ServerBlock) /\ (InBlock(n.stack, "server") => n.all # <<>>)
    <3>1. CASE InBlock(s.stack, "server")
      <4>1. s.all \in Seq(ServerBlock) /\ s.all # <<>>
        BY <3>1 DEF Good
      <4>2. n.all = [s.all EXCEPT ![Len(s.all)] = Says(@, t.name, t.arg)]
        BY <1>1, <1>4, <3>1 DEF StepAll
      <4>3. n.all \in Seq(ServerBlock)
        BY <2>1, <4>1, <4>2, LastSaid
      <4>4. DOMAIN n.all = DOMAIN s.all
        BY <4>2
      <4> QED BY <4>1, <4>3, <4>4
    <3>2. CASE ~InBlock(s.stack, "server")
      BY <1>1, <1>4, <2>2, <3>2 DEF StepAll, Good
    <3> QED BY <3>1, <3>2
  <2>5. n.w \in Value \cup {Nothing}
    BY <1>1, <1>4, <2>1 DEF StepW, Good
  <2> QED BY <2>2, <2>3, <2>4, <2>5 DEF Good
<1> QED BY <1>2, <1>3, <1>4 DEF Legal

-----------------------------------------------------------------------------
Takers == \/ OpenServer \/ OpenUpstream \/ OpenOther \/ Close
          \/ SetWorkers \/ SetMember \/ SetName \/ SetListen \/ SetPass \/ Ignore

(* The cases of Parse are one function of the item. *)
LEMMA ParseSteps ==
  ASSUME Good(Now), cur = Cur(Now), Legal(Now, tok), Takers
  PROVE  /\ Now' = Step(Now, tok) /\ cur' = Cur(Now)'
         /\ phase = "parse" /\ toks # <<>> /\ toks' = Tail(toks)
         /\ UNCHANGED <<phase, writing, dump>>
<1>1. /\ phase = "parse" /\ toks # <<>> /\ toks' = Tail(toks)
      /\ UNCHANGED <<phase, writing, dump>>
  BY DEF Takers, Takes, Keeps, OpenServer, OpenUpstream, OpenOther, Close,
         SetWorkers, SetMember, SetName, SetListen, SetPass, Ignore
<1>2. PICK s : s = Now
  OBVIOUS
<1>3. /\ s.stack = stack /\ s.up = curUpstream /\ s.ups = Upstreams
      /\ s.all = Servers /\ s.w = WorkerProcesses
  BY <1>2, NowFields
<1>4. /\ Now'.stack = stack' /\ Now'.all = Servers'
  BY Fields DEF Now
<1>5. SUFFICES /\ stack' = StepStack(s, tok) /\ curUpstream' = StepUp(s, tok)
               /\ Upstreams' = StepUps(s, tok) /\ Servers' = StepAll(s, tok)
               /\ WorkerProcesses' = StepW(s, tok)
               /\ cur' = IF InBlock(stack', "server") THEN Len(Servers') ELSE 0
  BY <1>1, <1>2, <1>4 DEF Now, Step, Cur, State
<1>6. /\ stack \in Seq(Blocks) /\ Rooted(stack) /\ Servers \in Seq(ServerBlock)
      /\ (curUpstream # Nothing <=> InBlock(stack, "upstream"))
      /\ cur = (IF InBlock(stack, "server") THEN Len(Servers) ELSE 0)
      /\ (InBlock(stack, "server") => Servers # <<>>)
      /\ \A f \in Up : f \in DOMAIN Upstreams
  BY <1>2, <1>3 DEF Good, Cur, Lists
<1>7. Legal(s, tok)
  BY <1>2
<1>8. ASSUME tok.op = "open"
      PROVE  /\ tok.name \in Blocks /\ Rooted(stack)
             /\ \A y : InBlock(Append(stack, tok.name), y) <=> InBlock(stack, y) \/ tok.name = y
             /\ tok.name \in {"server", "upstream"} => \A y : InBlock(stack, y) => y = "http"
  <2>1. tok.name \in Blocks /\ (tok.name \in {"server", "upstream"} => AllHttp(stack))
    BY <1>3, <1>7, <1>8 DEF Legal
  <2>2. AllHttp(stack) => \A y : InBlock(stack, y) => y = "http"
    BY DEF AllHttp, InBlock
  <2> QED BY <1>6, <2>1, <2>2, OpenStack
<1>9. ASSUME tok.op = "close"
      PROVE  /\ stack # <<>> /\ Rooted(Front(stack))
             /\ InBlock(Front(stack), "server") <=> InBlock(stack, "server") /\ Last(stack) # "server"
  <2>1. stack # <<>>
    BY <1>3, <1>7, <1>9 DEF Legal
  <2> QED BY <1>6, <2>1, CloseStack
<1> DEFINE Same == stack' = stack /\ curUpstream' = curUpstream /\ cur' = cur
<1>10. ASSUME tok.op = "set", InBlock(stack, "server")
       PROVE  /\ StepAll(s, tok) = [Servers EXCEPT ![cur] = Says(@, tok.name, tok.arg)]
              /\ cur = Len(Servers) /\ cur # 0 /\ Len(StepAll(s, tok)) = Len(Servers)
  BY <1>3, <1>6, <1>10 DEF StepAll
<1>11. ASSUME tok.op = "set", ~InBlock(stack, "server")
       PROVE  StepAll(s, tok) = Servers /\ cur = 0
  BY <1>3, <1>6, <1>11 DEF StepAll
<1>12. CASE OpenServer
  <2>1. tok.op = "open" /\ tok.name = "server" /\ stack' = Append(stack, "server")
        /\ ~InBlock(stack, "upstream")
    BY <1>8, <1>12 DEF OpenServer, Takes
  <2>2. Servers' = Append(Servers, InFile(NewServer, tok.file)) /\ cur' = Len(Servers) + 1
        /\ curUpstream' = curUpstream /\ Upstreams' = Upstreams /\ WorkerProcesses' = WorkerProcesses
    BY <1>12, <2>1 DEF OpenServer
  <2>3. Len(Servers') = Len(Servers) + 1
    BY <1>6, <2>2
  <2> QED BY <1>3, <1>8, <2>1, <2>2, <2>3 DEF StepStack, StepUp, StepUps, StepAll, StepW
<1>13. CASE OpenUpstream
  <2>1. tok.op = "open" /\ tok.name = "upstream" /\ stack' = Append(stack, "upstream")
    BY <1>13 DEF OpenUpstream, Takes
  <2>2. ~InBlock(stack, "server")
    BY <1>8, <2>1
  <2> QED BY <1>3, <1>6, <1>8, <1>13, <2>1, <2>2 DEF OpenUpstream, StepStack, StepUp, StepUps, StepAll, StepW
<1>14. CASE OpenOther
  <2>1. tok.op = "open" /\ tok.name \notin {"server", "upstream"} /\ stack' = Append(stack, tok.name)
    BY <1>14 DEF OpenOther, Takes
  <2> QED BY <1>3, <1>6, <1>8, <1>14, <2>1
      DEF OpenOther, Config, StepStack, StepUp, StepUps, StepAll, StepW
<1>15. CASE Close
  <2>1. tok.op = "close"
    BY <1>15 DEF Close, Takes
  <2> QED BY <1>3, <1>6, <1>9, <1>15, <2>1
      DEF Close, Config, StepStack, StepUp, StepUps, StepAll, StepW
<1>16. ASSUME tok.op = "set", tok.name \notin {"server_name", "listen", "proxy_pass"}
       PROVE  StepAll(s, tok) = Servers
  <2>1. \A x : Says(x, tok.name, tok.arg) = x
    BY <1>16 DEF Says
  <2> QED BY <1>6, <1>10, <1>11, <1>16, <2>1
<1>17. CASE SetWorkers
  <2>1. tok.op = "set" /\ tok.name = "worker_processes"
    BY <1>17 DEF SetWorkers, Takes
  <2> QED BY <1>3, <1>6, <1>16, <1>17, <2>1
      DEF SetWorkers, blocks, StepStack, StepUp, StepUps, StepW
<1>18. CASE SetMember
  <2>1. tok.op = "set" /\ tok.name = "server" /\ curUpstream # Nothing
    BY <1>18 DEF SetMember, Takes
  <2> QED BY <1>3, <1>6, <1>16, <1>18, <2>1
      DEF SetMember, blocks, StepStack, StepUp, StepUps, StepW
<1>19. ASSUME SetName \/ SetListen \/ SetPass
       PROVE  /\ tok.op = "set" /\ tok.name \in {"server_name", "listen", "proxy_pass"}
              /\ cur # 0 /\ InBlock(stack, "server")
              /\ UNCHANGED <<blocks, Upstreams, WorkerProcesses>>
  BY <1>6, <1>19 DEF SetName, SetListen, SetPass, Takes
<1>20. CASE SetName \/ SetListen \/ SetPass
  <2>1. Servers' = [Servers EXCEPT ![cur] = Says(@, tok.name, tok.arg)]
    <3>1. CASE SetName
      BY <3>1 DEF SetName, Takes, Says
    <3>2. CASE SetListen
      BY <3>2 DEF SetListen, Takes, Says
    <3>3. CASE SetPass
      BY <3>3 DEF SetPass, Takes, Says
    <3> QED BY <1>20, <3>1, <3>2, <3>3
  <2>2. Servers' = StepAll(s, tok) /\ Len(Servers') = Len(Servers)
    BY <1>10, <1>19, <1>20, <2>1
  <2> QED BY <1>3, <1>6, <1>19, <1>20, <2>2
      DEF blocks, StepStack, StepUp, StepUps, StepW
<1>21. CASE Ignore
  <2>1. tok.op = "set" /\ UNCHANGED <<blocks, Config>>
    BY <1>21 DEF Ignore, Takes
  <2>2. /\ tok.name # "worker_processes" /\ (tok.name = "server" => curUpstream = Nothing)
        /\ tok.name \in {"server_name", "listen", "proxy_pass"} => cur = 0
    BY <1>21 DEF Ignore
  <2>3. StepAll(s, tok) = Servers
    BY <1>10, <1>11, <1>16, <2>1, <2>2
  <2> QED BY <1>3, <1>6, <2>1, <2>2, <2>3 DEF blocks, Config, StepStack, StepUp, StepUps, StepW
<1> QED
  BY <1>12, <1>13, <1>14, <1>15, <1>17, <1>18, <1>20, <1>21 DEF Takers

-----------------------------------------------------------------------------
(* Runs of Parse over some items.                                          *)

(* Parsing the items ts leads from s to t, through good states. *)
Run(r, s, ts, t) ==
  /\ r[0] = s /\ r[Len(ts)] = t
  /\ \A k \in 0 .. Len(ts) : Good(r[k])
  /\ \A k \in 1 .. Len(ts) : Legal(r[k - 1], ts[k]) /\ r[k] = Step(r[k - 1], ts[k])
Leads(s, ts, t) == \E r : Run(r, s, ts, t)

(* No items lead nowhere. *)
LEMMA NoItems == ASSUME NEW s, Good(s) PROVE Leads(s, <<>>, s)
<1> DEFINE r == [k \in {0} |-> s]
<1>1. r[0] = s
  OBVIOUS
<1>2. Run(r, s, <<>>, s)
  BY <1>1 DEF Run
<1> QED
  BY <1>2 DEF Leads

(* Parse takes the first item, and the rest leads on. *)
LEMMA OneItem ==
  ASSUME NEW s, NEW T, NEW ts \in Seq(T), ts # <<>>, NEW t, Leads(s, ts, t)
  PROVE  Legal(s, Head(ts)) /\ Leads(Step(s, Head(ts)), Tail(ts), t)
<1>1. PICK r : Run(r, s, ts, t)
  BY DEF Leads
<1> DEFINE n == Len(ts) - 1
           q == [k \in 0 .. n |-> r[k + 1]]
<1>2. /\ n \in Nat /\ Len(ts) = n + 1 /\ Len(Tail(ts)) = n /\ Head(ts) = ts[1]
      /\ \A k \in 1 .. n : Tail(ts)[k] = ts[k + 1]
  OBVIOUS
<1>3. \A k \in 0 .. n : q[k] = r[k + 1]
  OBVIOUS
<1> HIDE DEF n, q
<1>4. /\ r[0] = s /\ r[n + 1] = t /\ \A k \in 0 .. n + 1 : Good(r[k])
      /\ \A k \in 1 .. n + 1 : Legal(r[k - 1], ts[k]) /\ r[k] = Step(r[k - 1], ts[k])
  BY <1>1, <1>2 DEF Run
<1>5. \A k \in 0 .. n : Good(q[k])
  BY <1>2, <1>3, <1>4
<1>6. ASSUME NEW k \in 1 .. n
      PROVE  Legal(q[k - 1], Tail(ts)[k]) /\ q[k] = Step(q[k - 1], Tail(ts)[k])
  <2>1. k - 1 \in 0 .. n /\ k \in 0 .. n /\ (k - 1) + 1 = k
    BY <1>2
  <2>2. q[k - 1] = r[k] /\ q[k] = r[k + 1]
    BY <1>3, <2>1
  <2>3. PICK m \in 1 .. n + 1 : m = k + 1 /\ m - 1 = k
    BY <1>2
  <2>4. Legal(r[m - 1], ts[m]) /\ r[m] = Step(r[m - 1], ts[m])
    BY <1>4
  <2> QED
    BY <1>2, <2>2, <2>3, <2>4
<1>7. Legal(s, Head(ts)) /\ q[0] = Step(s, Head(ts)) /\ q[n] = t
  <2>1. 0 \in 0 .. n /\ n \in 0 .. n /\ 1 \in 1 .. n + 1
    BY <1>2
  <2>2. q[0] = r[1] /\ r[1] = Step(r[0], ts[1]) /\ Legal(r[0], ts[1])
    BY <1>3, <1>4, <2>1
  <2> QED
    BY <1>2, <1>3, <1>4, <2>1, <2>2
<1>8. Run(q, Step(s, Head(ts)), Tail(ts), t)
  BY <1>2, <1>5, <1>6, <1>7 DEF Run
<1> QED
  BY <1>7, <1>8 DEF Leads

(* Items lead from a good state to a good one. *)
LEMMA LeadsGood ==
  ASSUME NEW s, NEW T, NEW ts \in Seq(T), NEW t, Leads(s, ts, t)
  PROVE  Good(s) /\ Good(t) /\ (ts = <<>> => s = t)
<1>1. PICK r : Run(r, s, ts, t)
  BY DEF Leads
<1>2. 0 \in 0 .. Len(ts) /\ Len(ts) \in 0 .. Len(ts) /\ (ts = <<>> => Len(ts) = 0)
  OBVIOUS
<1> QED
  BY <1>1, <1>2 DEF Run

(* One run after another. *)
LEMMA LeadsOn ==
  ASSUME NEW s, NEW T, NEW xs \in Seq(T), NEW m, NEW ys \in Seq(T), NEW t,
         Leads(s, xs, m), Leads(m, ys, t)
  PROVE  Leads(s, xs \o ys, t)
<1>1. PICK p : Run(p, s, xs, m)
  BY DEF Leads
<1>2. PICK q : Run(q, m, ys, t)
  BY DEF Leads
<1> DEFINE a == Len(xs)
           b == Len(ys)
           r == [k \in 0 .. a + b |-> IF k <= a THEN p[k] ELSE q[k - a]]
<1>3. /\ a \in Nat /\ b \in Nat /\ Len(xs \o ys) = a + b
      /\ \A k \in 1 .. a : (xs \o ys)[k] = xs[k]
      /\ \A k \in 1 .. b : (xs \o ys)[a + k] = ys[k]
  OBVIOUS
<1>4. /\ p[0] = s /\ p[a] = m /\ \A k \in 0 .. a : Good(p[k])
      /\ \A k \in 1 .. a : Legal(p[k - 1], xs[k]) /\ p[k] = Step(p[k - 1], xs[k])
  BY <1>1 DEF Run
<1>5. /\ q[0] = m /\ q[b] = t /\ \A k \in 0 .. b : Good(q[k])
      /\ \A k \in 1 .. b : Legal(q[k - 1], ys[k]) /\ q[k] = Step(q[k - 1], ys[k])
  BY <1>2 DEF Run
<1> HIDE DEF a, b
<1>6. \A k \in 0 .. a : r[k] = p[k]
  BY <1>3
<1>7. \A k \in 0 .. b : r[a + k] = q[k]
  <2> SUFFICES ASSUME NEW k \in 0 .. b PROVE r[a + k] = q[k]
    OBVIOUS
  <2>1. CASE k = 0
    BY <1>3, <1>4, <1>5, <2>1
  <2>2. CASE k # 0
    <3>1. a + k \in 0 .. a + b /\ ~(a + k <= a) /\ (a + k) - a = k
      BY <1>3, <2>2
    <3> QED BY <3>1
  <2> QED BY <2>1, <2>2
<1> HIDE DEF r
<1>8. ASSUME NEW k \in 0 .. a + b
      PROVE  Good(r[k])
  <2>1. CASE k <= a
    BY <1>3, <1>4, <1>6, <2>1
  <2>2. CASE ~(k <= a)
    <3>1. PICK j \in 0 .. b : k = a + j
      BY <1>3, <2>2
    <3> QED BY <1>5, <1>7, <3>1
  <2> QED BY <2>1, <2>2
<1>9. ASSUME NEW k \in 1 .. a + b
      PROVE  Legal(r[k - 1], (xs \o ys)[k]) /\ r[k] = Step(r[k - 1], (xs \o ys)[k])
  <2>1. CASE k <= a
    <3>1. k \in 1 .. a /\ k \in 0 .. a /\ k - 1 \in 0 .. a
      BY <1>3, <2>1
    <3> QED BY <1>3, <1>4, <1>6, <3>1
  <2>2. CASE ~(k <= a)
    <3>1. PICK j \in 1 .. b : k = a + j
      BY <1>3, <2>2
    <3>2. j \in 0 .. b /\ j - 1 \in 0 .. b /\ a + (j - 1) = k - 1
      BY <1>3, <3>1
    <3>3. r[k - 1] = q[j - 1] /\ r[k] = q[j] /\ (xs \o ys)[k] = ys[j]
      BY <1>3, <1>7, <3>1, <3>2
    <3> QED BY <1>5, <3>3
  <2> QED BY <2>1, <2>2
<1>10. r[0] = s /\ r[a + b] = t
  <2>1. 0 \in 0 .. a /\ b \in 0 .. b
    BY <1>3
  <2> QED BY <1>4, <1>5, <1>6, <1>7, <2>1
<1>11. Run(r, s, xs \o ys, t)
  BY <1>3, <1>8, <1>9, <1>10 DEF Run
<1> QED
  BY <1>11 DEF Leads

(* One item more. *)
LEMMA OneMore ==
  ASSUME NEW s, NEW T, NEW ts \in Seq(T), NEW m, NEW t \in T,
         Leads(s, ts, m), Legal(m, t)
  PROVE  Leads(s, Append(ts, t), Step(m, t))
<1>1. Good(m) /\ Good(Step(m, t))
  BY LeadsGood, StepGood
<1> DEFINE r == [k \in 0 .. 1 |-> IF k = 0 THEN m ELSE Step(m, t)]
<1>2. r[0] = m /\ r[1] = Step(m, t) /\ Len(<<t>>) = 1 /\ <<t>>[1] = t
  OBVIOUS
<1> HIDE DEF r
<1>3. Run(r, m, <<t>>, Step(m, t))
  <2>1. \A k \in 0 .. 1 : Good(r[k])
    <3>1. \A k \in 0 .. 1 : k = 0 \/ k = 1
      OBVIOUS
    <3> QED BY <1>1, <1>2, <3>1
  <2>2. \A k \in 1 .. 1 : Legal(r[k - 1], <<t>>[k]) /\ r[k] = Step(r[k - 1], <<t>>[k])
    <3>1. \A k \in 1 .. 1 : k = 1 /\ k - 1 = 0
      OBVIOUS
    <3> QED BY <1>2, <3>1
  <2> QED BY <1>2, <2>1, <2>2 DEF Run
<1>4. Leads(m, <<t>>, Step(m, t)) /\ <<t>> \in Seq(T) /\ ts \o <<t>> = Append(ts, t)
  BY <1>3 DEF Leads
<1> QED
  BY <1>4, LeadsOn

-----------------------------------------------------------------------------
(* What a part of the text adds to the servers read before it.             *)

Items  == [op : {"open", "close", "set"}, name : Blocks \cup Directives,
           arg : Value \cup Up \cup {Nothing}]
Tokens == [op : {"open", "close", "set"}, name : Blocks \cup Directives,
           arg : Value \cup Up \cup {Nothing}, file : File]
Said   == [Names : Seq(Value), Listens : Seq(Value), Pass : Value \cup {Nothing}]
Word(i, f) == [op |-> i.op, name |-> i.name, arg |-> i.arg, file |-> f]

(* The words of a part are tokens, and an item more is a word more. *)
LEMMA MarkedAppend ==
  ASSUME NEW x \in Seq(Items), NEW i \in Items, NEW f \in File
  PROVE  /\ Marked(x, f) \in Seq(Tokens) /\ Len(Marked(x, f)) = Len(x) /\ Word(i, f) \in Tokens
         /\ Marked(Append(x, i), f) = Append(Marked(x, f), Word(i, f))
<1>1. Marked(x, f) = [k \in 1 .. Len(x) |-> Word(x[k], f)]
  BY DEF Marked, Word
<1>2. \A j \in Items : Word(j, f) \in Tokens
  BY DEF Word, Items, Tokens
<1>3. \A k \in 1 .. Len(x) : x[k] \in Items
  OBVIOUS
<1>4. Append(x, i) \in Seq(Items) /\ Len(Append(x, i)) = Len(x) + 1 /\ Len(x) \in Nat
  OBVIOUS
<1>5. Marked(Append(x, i), f) = [k \in 1 .. Len(x) + 1 |-> Word(Append(x, i)[k], f)]
  BY <1>4 DEF Marked, Word
<1> HIDE DEF Tokens, Items
<1>6. Marked(x, f) \in Seq(Tokens) /\ Len(Marked(x, f)) = Len(x)
  BY <1>1, <1>2, <1>3, <1>4
<1>7. /\ Append(Marked(x, f), Word(i, f)) \in Seq(Tokens)
      /\ Len(Append(Marked(x, f), Word(i, f))) = Len(x) + 1
      /\ \A k \in 1 .. Len(x) : Append(Marked(x, f), Word(i, f))[k] = Word(x[k], f)
      /\ Append(Marked(x, f), Word(i, f))[Len(x) + 1] = Word(i, f)
  BY <1>1, <1>2, <1>4, <1>6
<1>8. /\ \A k \in 1 .. Len(x) : Append(x, i)[k] = x[k]
      /\ Append(x, i)[Len(x) + 1] = i
  OBVIOUS
<1>9. /\ Marked(Append(x, i), f) \in Seq(Tokens) /\ Len(Marked(Append(x, i), f)) = Len(x) + 1
      /\ \A k \in 1 .. Len(x) : Marked(Append(x, i), f)[k] = Word(x[k], f)
      /\ Marked(Append(x, i), f)[Len(x) + 1] = Word(i, f)
  <2>1. \A k \in 1 .. Len(x) + 1 : Append(x, i)[k] \in Items
    BY <1>4
  <2> QED BY <1>2, <1>4, <1>5, <1>8, <2>1
<1>10. \A k \in 1 .. Len(x) + 1 : Marked(Append(x, i), f)[k] = Append(Marked(x, f), Word(i, f))[k]
  BY <1>4, <1>7, <1>9
<1> QED
  BY <1>2, <1>6, <1>7, <1>9, <1>10, SeqEqual

(* The server block open where the part starts, with what the part says of *)
(* it, and the blocks that the part opens.                                 *)
More(S, in, x) == IF in THEN [S EXCEPT ![Len(S)] = InFile(Joined(@, x), @.File)] ELSE S
Rest(q, f)     == [k \in 1 .. Len(q) - 1 |-> InFile(q[k + 1], f)]
Ext(S, in, q, f) == More(S, in, q[1]) \o Rest(q, f)

(* A server block with what else is said of it is one. *)
LEMMA JoinedType ==
  ASSUME NEW s \in ServerBlock, NEW x \in Said
  PROVE  /\ InFile(Joined(s, x), s.File) \in ServerBlock
         /\ \A f \in File : InFile(x, f) \in ServerBlock
<1>1. /\ s.Names \in Seq(Value \cup {CatchAll}) /\ x.Names \in Seq(Value)
      /\ s.Listens \in Seq(Value) /\ x.Listens \in Seq(Value)
      /\ s.Pass \in Value \cup {Nothing} /\ x.Pass \in Value \cup {Nothing} /\ s.File \in File
  BY DEF ServerBlock, Said
<1>2. x.Names \in Seq(Value \cup {CatchAll})
  BY <1>1
<1>3. s.Names \o x.Names \in Seq(Value \cup {CatchAll}) /\ s.Listens \o x.Listens \in Seq(Value)
  BY <1>1, <1>2, ConcatProperties
<1> QED
  BY <1>1, <1>2, <1>3 DEF ServerBlock, InFile, Joined

(* The items of two sequences, one after the other. *)
LEMMA Concatenated ==
  ASSUME NEW T, NEW x \in Seq(T), NEW y \in Seq(T)
  PROVE  /\ x \o y \in Seq(T) /\ Len(x \o y) = Len(x) + Len(y)
         /\ \A k \in 1 .. Len(x) : (x \o y)[k] = x[k]
         /\ \A k \in 1 .. Len(y) : (x \o y)[Len(x) + k] = y[k]
  OBVIOUS

(* The server blocks after a part: those before it, the last of which may  *)
(* be told more, and its own.                                              *)
LEMMA ExtType ==
  ASSUME NEW S \in Seq(ServerBlock), NEW in \in BOOLEAN, in => S # <<>>,
         NEW q \in Seq(Said), q # <<>>, NEW f \in File
  PROVE  /\ More(S, in, q[1]) \in Seq(ServerBlock) /\ Len(More(S, in, q[1])) = Len(S)
         /\ Rest(q, f) \in Seq(ServerBlock) /\ Len(Rest(q, f)) = Len(q) - 1
         /\ Ext(S, in, q, f) \in Seq(ServerBlock) /\ Len(Ext(S, in, q, f)) = Len(S) + Len(q) - 1
         /\ \A k \in 1 .. Len(S) : Ext(S, in, q, f)[k] = More(S, in, q[1])[k]
         /\ \A k \in 1 .. Len(q) - 1 : Ext(S, in, q, f)[Len(S) + k] = InFile(q[k + 1], f)
<1>1. Len(q) \in Nat /\ Len(q) > 0 /\ \A k \in 1 .. Len(q) : q[k] \in Said
  OBVIOUS
<1>2. More(S, in, q[1]) \in Seq(ServerBlock) /\ Len(More(S, in, q[1])) = Len(S)
  <2>1. CASE in
    <3>1. Len(S) \in 1 .. Len(S) /\ S[Len(S)] \in ServerBlock
      BY <2>1
    <3>2. InFile(Joined(S[Len(S)], q[1]), S[Len(S)].File) \in ServerBlock
      BY <1>1, <3>1, JoinedType
    <3>3. More(S, in, q[1]) = [S EXCEPT ![Len(S)] = InFile(Joined(S[Len(S)], q[1]), S[Len(S)].File)]
      BY <2>1 DEF More
    <3> QED BY <3>1, <3>2, <3>3, ExceptSeq
  <2>2. CASE ~in
    BY <2>2 DEF More
  <2> QED BY <2>1, <2>2
<1>3. \A k \in 1 .. Len(q) - 1 : InFile(q[k + 1], f) \in ServerBlock
  <2> SUFFICES ASSUME NEW k \in 1 .. Len(q) - 1 PROVE InFile(q[k + 1], f) \in ServerBlock
    OBVIOUS
  <2>1. q[k + 1] \in Said
    BY <1>1
  <2> QED BY <2>1, JoinedType, NewServerType
<1>4. Rest(q, f) \in Seq(ServerBlock) /\ Len(Rest(q, f)) = Len(q) - 1
      /\ \A k \in 1 .. Len(q) - 1 : Rest(q, f)[k] = InFile(q[k + 1], f)
  BY <1>1, <1>3 DEF Rest
<1>0. PICK M, R : M = More(S, in, q[1]) /\ R = Rest(q, f)
  OBVIOUS
<1>5. Ext(S, in, q, f) = M \o R
  BY <1>0 DEF Ext
<1>6. M \in Seq(ServerBlock) /\ R \in Seq(ServerBlock) /\ Len(M) = Len(S) /\ Len(R) = Len(q) - 1
  BY <1>0, <1>2, <1>4
<1>7. /\ M \o R \in Seq(ServerBlock) /\ Len(M \o R) = Len(M) + Len(R)
      /\ \A k \in 1 .. Len(M) : (M \o R)[k] = M[k]
      /\ \A k \in 1 .. Len(R) : (M \o R)[Len(M) + k] = R[k]
  <2>1. M \in Seq(ServerBlock) /\ R \in Seq(ServerBlock)
    BY <1>6
  <2> QED BY <2>1, Concatenated
<1>8. ASSUME NEW k \in 1 .. Len(q) - 1
      PROVE  (M \o R)[Len(S) + k] = InFile(q[k + 1], f)
  BY <1>0, <1>4, <1>6, <1>7
<1>9. \A k \in 1 .. Len(S) : (M \o R)[k] = M[k]
  BY <1>1, <1>6, <1>7
<1>10. Len(M \o R) = Len(S) + Len(q) - 1
  BY <1>1, <1>6, <1>7
<1> QED
  BY <1>0, <1>2, <1>4, <1>5, <1>7, <1>8, <1>9, <1>10

(* One block more, and one directive more in the last block. *)
LEMMA ExtOpens ==
  ASSUME NEW S \in Seq(ServerBlock), NEW in \in BOOLEAN, in => S # <<>>,
         NEW q \in Seq(Said), q # <<>>, NEW f \in File
  PROVE  /\ NewServer \in Said /\ Append(q, NewServer) \in Seq(Said)
         /\ Ext(S, in, Append(q, NewServer), f) = Append(Ext(S, in, q, f), InFile(NewServer, f))
<1>1. NewServer \in Said /\ InFile(NewServer, f) \in ServerBlock /\ Append(q, NewServer) \in Seq(Said)
  BY NewServerType DEF NewServer, Said
<1>2. PICK n, e : n = Append(q, NewServer) /\ e = InFile(NewServer, f)
  OBVIOUS
<1>3. /\ Len(n) = Len(q) + 1 /\ n[1] = q[1] /\ n[Len(q) + 1] = NewServer
      /\ \A k \in 1 .. Len(q) : n[k] = q[k]
      /\ Len(q) \in Nat /\ Len(q) > 0
  BY <1>1, <1>2
<1>4. PICK M, R : M = More(S, in, q[1]) /\ R = Rest(q, f)
  OBVIOUS
<1>5. M \in Seq(ServerBlock) /\ R \in Seq(ServerBlock)
  BY <1>4, ExtType
<1>6. R = [k \in 1 .. Len(q) - 1 |-> InFile(q[k + 1], f)]
  BY <1>4 DEF Rest
<1>7. Rest(n, f) = Append(R, e)
  <2>1. Rest(n, f) = [k \in 1 .. Len(q) |-> InFile(n[k + 1], f)]
    BY <1>3 DEF Rest
  <2>2. /\ Len(R) = Len(q) - 1
        /\ Append(R, e) = [k \in 1 .. Len(q) |-> IF k = Len(q) THEN e ELSE R[k]]
    BY <1>3, <1>6
  <2>3. ASSUME NEW k \in 1 .. Len(q)
        PROVE  InFile(n[k + 1], f) = IF k = Len(q) THEN e ELSE R[k]
    <3>1. CASE k = Len(q)
      BY <1>2, <1>3, <3>1
    <3>2. CASE k # Len(q)
      <4>1. k \in 1 .. Len(q) - 1 /\ k + 1 \in 1 .. Len(q)
        BY <1>3, <3>2
      <4> QED BY <1>3, <1>6, <3>2, <4>1
    <3> QED BY <3>1, <3>2
  <2> QED BY <2>1, <2>2, <2>3
<1>8. e \in ServerBlock /\ M \o Append(R, e) = Append(M \o R, e)
  <2>1. e \in ServerBlock
    BY <1>1, <1>2
  <2> QED BY <1>5, <2>1
<1>9. Ext(S, in, n, f) = More(S, in, n[1]) \o Rest(n, f) /\ Ext(S, in, q, f) = M \o R
  BY <1>4 DEF Ext
<1> QED
  BY <1>1, <1>2, <1>3, <1>4, <1>7, <1>8, <1>9

(* What is said may be said in two pieces. *)
LEMMA SaidType ==
  ASSUME NEW x \in Said, NEW d \in Directives, NEW v \in Value
  PROVE  /\ Says(x, d, v) \in Said
         /\ \A f : InFile(Says(x, d, v), f) = Says(InFile(x, f), d, v)
         /\ \A s \in ServerBlock : InFile(Joined(s, Says(x, d, v)), s.File)
                                    = Says(InFile(Joined(s, x), s.File), d, v)
<1>1. x.Names \in Seq(Value) /\ x.Listens \in Seq(Value) /\ x.Pass \in Value \cup {Nothing}
  BY DEF Said
<1>2. Append(x.Names, v) \in Seq(Value) /\ Append(x.Listens, v) \in Seq(Value)
  BY <1>1
<1>3. \A s \in ServerBlock : /\ s.Names \o Append(x.Names, v) = Append(s.Names \o x.Names, v)
                             /\ s.Listens \o Append(x.Listens, v) = Append(s.Listens \o x.Listens, v)
  <2> SUFFICES ASSUME NEW s \in ServerBlock
               PROVE  /\ s.Names \o Append(x.Names, v) = Append(s.Names \o x.Names, v)
                      /\ s.Listens \o Append(x.Listens, v) = Append(s.Listens \o x.Listens, v)
    OBVIOUS
  <2>1. PICK a, b, y, z : a = s.Names /\ b = x.Names /\ y = s.Listens /\ z = x.Listens
    OBVIOUS
  <2>2. /\ a \in Seq(Value \cup {CatchAll}) /\ b \in Seq(Value \cup {CatchAll})
        /\ y \in Seq(Value) /\ z \in Seq(Value)
    BY <1>1, <2>1 DEF ServerBlock
  <2>3. a \o Append(b, v) = Append(a \o b, v)
    BY <2>2
  <2>4. y \o Append(z, v) = Append(y \o z, v)
    BY <2>2
  <2> QED BY <2>1, <2>3, <2>4
<1>4. Nothing \notin Value
  BY NothingApart
<1> DEFINE S3(n, l, p) == [Names |-> n, Listens |-> l, Pass |-> p]
           S4(n, l, p, f) == [Names |-> n, Listens |-> l, Pass |-> p, File |-> f]
<1>a. /\ x = S3(x.Names, x.Listens, x.Pass)
      /\ \A f : InFile(x, f) = S4(x.Names, x.Listens, x.Pass, f)
      /\ \A n, l, p, f : InFile(S3(n, l, p), f) = S4(n, l, p, f)
      /\ \A s, n, l, p : Joined(s, S3(n, l, p))
                          = S3(s.Names \o n, s.Listens \o l, IF s.Pass = Nothing THEN p ELSE s.Pass)
  BY DEF Said, InFile, Joined
<1>b. \A n, l, p : n \in Seq(Value) /\ l \in Seq(Value) /\ p \in Value \cup {Nothing} => S3(n, l, p) \in Said
  BY DEF Said
<1>5. CASE d = "server_name"
  <2>1. /\ \A n, l, p : Says(S3(n, l, p), d, v) = S3(Append(n, v), l, p)
        /\ \A n, l, p, f : Says(S4(n, l, p, f), d, v) = S4(Append(n, v), l, p, f)
    BY <1>5 DEF Says
  <2> HIDE DEF S3, S4
  <2>2. Says(x, d, v) = S3(Append(x.Names, v), x.Listens, x.Pass)
    BY <1>a, <2>1
  <2>3. Says(x, d, v) \in Said
    BY <1>1, <1>2, <1>b, <2>2
  <2>4. \A f : InFile(Says(x, d, v), f) = Says(InFile(x, f), d, v)
    BY <1>a, <2>1, <2>2
  <2>5. ASSUME NEW s \in ServerBlock
        PROVE  InFile(Joined(s, Says(x, d, v)), s.File) = Says(InFile(Joined(s, x), s.File), d, v)
    <3>1. InFile(Joined(s, x), s.File)
            = S4(s.Names \o x.Names, s.Listens \o x.Listens, IF s.Pass = Nothing THEN x.Pass ELSE s.Pass, s.File)
      BY <1>a
    <3>2. InFile(Joined(s, Says(x, d, v)), s.File)
            = S4(s.Names \o Append(x.Names, v), s.Listens \o x.Listens,
                 IF s.Pass = Nothing THEN x.Pass ELSE s.Pass, s.File)
      BY <1>a, <2>2
    <3>3. Says(InFile(Joined(s, x), s.File), d, v)
            = S4(Append(s.Names \o x.Names, v), s.Listens \o x.Listens,
                 IF s.Pass = Nothing THEN x.Pass ELSE s.Pass, s.File)
      BY <2>1, <3>1
    <3>4. s.Names \o Append(x.Names, v) = Append(s.Names \o x.Names, v)
      BY <1>3, <2>5
    <3> QED BY <3>2, <3>3, <3>4
  <2> QED BY <2>3, <2>4, <2>5
<1>6. CASE d = "listen"
  <2>1. /\ \A n, l, p : Says(S3(n, l, p), d, v) = S3(n, Append(l, v), p)
        /\ \A n, l, p, f : Says(S4(n, l, p, f), d, v) = S4(n, Append(l, v), p, f)
    <3>1. \A y : Says(y, d, v) = [y EXCEPT !.Listens = Append(y.Listens, v)]
      BY <1>6 DEF Says
    <3>4. ASSUME NEW n, NEW l, NEW p
          PROVE  Says(S3(n, l, p), d, v) = S3(n, Append(l, v), p)
      <4>1. PICK y : y = S3(n, l, p)
        OBVIOUS
      <4>2. [y EXCEPT !.Listens = Append(y.Listens, v)] = S3(n, Append(l, v), p)
        BY <4>1
      <4>3. Says(y, d, v) = [y EXCEPT !.Listens = Append(y.Listens, v)]
        BY <3>1
      <4> QED BY <4>1, <4>2, <4>3
    <3>5. ASSUME NEW n, NEW l, NEW p, NEW f
          PROVE  Says(S4(n, l, p, f), d, v) = S4(n, Append(l, v), p, f)
      <4>1. PICK y : y = S4(n, l, p, f)
        OBVIOUS
      <4>2. [y EXCEPT !.Listens = Append(y.Listens, v)] = S4(n, Append(l, v), p, f)
        BY <4>1
      <4>3. Says(y, d, v) = [y EXCEPT !.Listens = Append(y.Listens, v)]
        BY <3>1
      <4> QED BY <4>1, <4>2, <4>3
    <3> QED BY <3>4, <3>5
  <2> HIDE DEF S3, S4
  <2>2. Says(x, d, v) = S3(x.Names, Append(x.Listens, v), x.Pass)
    BY <1>a, <2>1
  <2>3. Says(x, d, v) \in Said
    BY <1>1, <1>2, <1>b, <2>2
  <2>4. \A f : InFile(Says(x, d, v), f) = Says(InFile(x, f), d, v)
    BY <1>a, <2>1, <2>2
  <2>5. ASSUME NEW s \in ServerBlock
        PROVE  InFile(Joined(s, Says(x, d, v)), s.File) = Says(InFile(Joined(s, x), s.File), d, v)
    <3>1. InFile(Joined(s, x), s.File)
            = S4(s.Names \o x.Names, s.Listens \o x.Listens, IF s.Pass = Nothing THEN x.Pass ELSE s.Pass, s.File)
      BY <1>a
    <3>2. InFile(Joined(s, Says(x, d, v)), s.File)
            = S4(s.Names \o x.Names, s.Listens \o Append(x.Listens, v),
                 IF s.Pass = Nothing THEN x.Pass ELSE s.Pass, s.File)
      BY <1>a, <2>2
    <3>3. Says(InFile(Joined(s, x), s.File), d, v)
            = S4(s.Names \o x.Names, Append(s.Listens \o x.Listens, v),
                 IF s.Pass = Nothing THEN x.Pass ELSE s.Pass, s.File)
      BY <2>1, <3>1
    <3>4. s.Listens \o Append(x.Listens, v) = Append(s.Listens \o x.Listens, v)
      BY <1>3, <2>5
    <3> QED BY <3>2, <3>3, <3>4
  <2> QED BY <2>3, <2>4, <2>5
<1>7. CASE d = "proxy_pass"
  <2>1. /\ \A n, l, p : Says(S3(n, l, p), d, v) = S3(n, l, IF p = Nothing THEN v ELSE p)
        /\ \A n, l, p, f : Says(S4(n, l, p, f), d, v) = S4(n, l, IF p = Nothing THEN v ELSE p, f)
    BY <1>7 DEF Says
  <2> HIDE DEF S3, S4
  <2>2. Says(x, d, v) = S3(x.Names, x.Listens, IF x.Pass = Nothing THEN v ELSE x.Pass)
    BY <1>a, <2>1
  <2>3. Says(x, d, v) \in Said
    BY <1>1, <1>b, <2>2
  <2>4. \A f : InFile(Says(x, d, v), f) = Says(InFile(x, f), d, v)
    BY <1>a, <2>1, <2>2
  <2>5. ASSUME NEW s
        PROVE  InFile(Joined(s, Says(x, d, v)), s.File) = Says(InFile(Joined(s, x), s.File), d, v)
    <3>1. InFile(Joined(s, x), s.File)
            = S4(s.Names \o x.Names, s.Listens \o x.Listens, IF s.Pass = Nothing THEN x.Pass ELSE s.Pass, s.File)
      BY <1>a
    <3>2. InFile(Joined(s, Says(x, d, v)), s.File)
            = S4(s.Names \o x.Names, s.Listens \o x.Listens,
                 IF s.Pass = Nothing THEN IF x.Pass = Nothing THEN v ELSE x.Pass ELSE s.Pass, s.File)
      BY <1>a, <2>2
    <3> QED BY <2>1, <3>1, <3>2
  <2> QED BY <2>3, <2>4, <2>5
<1>8. CASE d \notin {"server_name", "listen", "proxy_pass"}
  BY <1>8 DEF Says
<1> QED
  BY <1>5, <1>6, <1>7, <1>8

(* The last item of two sequences is that of the second. *)
LEMMA LastOfConcat ==
  ASSUME NEW T, NEW x \in Seq(T), NEW y \in Seq(T), y # <<>>, NEW e \in T
  PROVE  /\ x \o [y EXCEPT ![Len(y)] = e] = [x \o y EXCEPT ![Len(x \o y)] = e]
         /\ (x \o y)[Len(x \o y)] = y[Len(y)]
<1>1. PICK z : z = [y EXCEPT ![Len(y)] = e]
  OBVIOUS
<1>2. Len(y) \in 1 .. Len(y) /\ Len(y) > 0 /\ Len(x) \in Nat
  OBVIOUS
<1>3. /\ z \in Seq(T) /\ Len(z) = Len(y) /\ z[Len(y)] = e
      /\ \A k \in 1 .. Len(y) : k # Len(y) => z[k] = y[k]
  BY <1>1, <1>2, ExceptSeq
<1>4. PICK a, b : a = x \o z /\ b = x \o y
  OBVIOUS
<1>5. /\ b \in Seq(T) /\ Len(b) = Len(x) + Len(y)
      /\ \A k \in 1 .. Len(x) : b[k] = x[k]
      /\ \A k \in 1 .. Len(y) : b[Len(x) + k] = y[k]
  BY <1>4
<1>6. /\ a \in Seq(T) /\ Len(a) = Len(x) + Len(z)
      /\ \A k \in 1 .. Len(x) : a[k] = x[k]
      /\ \A k \in 1 .. Len(z) : a[Len(x) + k] = z[k]
  <2>1. z \in Seq(T)
    BY <1>3
  <2> QED BY <1>4, <2>1
<1>7. PICK c : c = [b EXCEPT ![Len(b)] = e]
  OBVIOUS
<1>8. /\ c \in Seq(T) /\ Len(c) = Len(b) /\ c[Len(b)] = e
      /\ \A k \in 1 .. Len(b) : k # Len(b) => c[k] = b[k]
  <2>1. b \in Seq(T) /\ Len(b) \in 1 .. Len(b)
    BY <1>2, <1>5
  <2> QED BY <1>7, <2>1, ExceptSeq
<1>9. ASSUME NEW k \in 1 .. Len(a)
      PROVE  a[k] = c[k]
  <2>0. Len(a) = Len(x) + Len(y)
    BY <1>3, <1>6
  <2>1. k <= Len(x) \/ (k > Len(x) /\ k < Len(x) + Len(y)) \/ k = Len(x) + Len(y)
    BY <1>2, <2>0
  <2>2. CASE k <= Len(x)
    <3>1. k \in 1 .. Len(x) /\ k \in 1 .. Len(b) /\ k # Len(b)
      BY <1>2, <1>5, <2>2
    <3> QED BY <1>5, <1>6, <1>8, <3>1
  <2>3. CASE k > Len(x) /\ k < Len(x) + Len(y)
    <3>1. k - Len(x) \in 1 .. Len(y) /\ k - Len(x) # Len(y) /\ k = Len(x) + (k - Len(x))
          /\ k \in 1 .. Len(b) /\ k # Len(b)
      BY <1>2, <1>5, <2>3
    <3>2. PICK j \in 1 .. Len(y) : j # Len(y) /\ k = Len(x) + j
      BY <3>1
    <3> QED BY <1>3, <1>5, <1>6, <1>8, <3>1, <3>2
  <2>4. CASE k = Len(x) + Len(y)
    <3>1. a[Len(x) + Len(y)] = z[Len(y)]
      BY <1>2, <1>3, <1>6
    <3> QED BY <1>3, <1>5, <1>8, <2>4, <3>1
  <2> QED BY <2>1, <2>2, <2>3, <2>4
<1>10. a = c
  <2>1. Len(a) = Len(c)
    BY <1>3, <1>5, <1>6, <1>8
  <2> QED BY <1>6, <1>8, <1>9, <2>1, SeqEqual
<1>11. b[Len(b)] = y[Len(y)]
  BY <1>2, <1>5
<1> QED
  BY <1>1, <1>4, <1>7, <1>10, <1>11

(* A directive more at the end of a part is one more for the last server   *)
(* block.                                                                  *)
LEMMA ExtSays ==
  ASSUME NEW S \in Seq(ServerBlock), NEW in \in BOOLEAN, in => S # <<>>,
         NEW q \in Seq(Said), q # <<>>, NEW f \in File, in \/ Len(q) > 1,
         NEW d \in Directives, NEW v \in Value
  PROVE  LET E == Ext(S, in, q, f) IN
           /\ E # <<>>
           /\ [E EXCEPT ![Len(E)] = Says(@, d, v)]
                = Ext(S, in, [q EXCEPT ![Len(q)] = Says(@, d, v)], f)
<1>1. PICK M, R : M = More(S, in, q[1]) /\ R = Rest(q, f)
  OBVIOUS
<1>2. M \in Seq(ServerBlock) /\ R \in Seq(ServerBlock) /\ Len(M) = Len(S) /\ Len(R) = Len(q) - 1
  BY <1>1, ExtType
<1>3. PICK n, e : n = [q EXCEPT ![Len(q)] = e] /\ e = Says(q[Len(q)], d, v)
  OBVIOUS
<1>4. Len(q) \in 1 .. Len(q) /\ q[Len(q)] \in Said /\ Len(q) > 0 /\ Len(q) \in Nat
  OBVIOUS
<1>5. /\ e \in Said
      /\ \A g : InFile(e, g) = Says(InFile(q[Len(q)], g), d, v)
      /\ \A s \in ServerBlock : InFile(Joined(s, e), s.File) = Says(InFile(Joined(s, q[Len(q)]), s.File), d, v)
  BY <1>3, <1>4, SaidType
<1>6. /\ n \in Seq(Said) /\ Len(n) = Len(q) /\ n[Len(q)] = e
      /\ \A k \in 1 .. Len(q) : k # Len(q) => n[k] = q[k]
  BY <1>3, <1>4, <1>5, ExceptSeq
<1>7. /\ R = [k \in 1 .. Len(q) - 1 |-> InFile(q[k + 1], f)]
      /\ Rest(n, f) = [k \in 1 .. Len(q) - 1 |-> InFile(n[k + 1], f)]
  BY <1>1, <1>6 DEF Rest
<1>8. Ext(S, in, n, f) = More(S, in, n[1]) \o Rest(n, f) /\ Ext(S, in, q, f) = M \o R
  BY <1>1 DEF Ext
<1>9. CASE Len(q) > 1
  <2>1. More(S, in, n[1]) = M
    <3>1. n[1] = q[1]
      BY <1>4, <1>6, <1>9
    <3> QED BY <1>1, <3>1
  <2>2. R # <<>> /\ Len(R) \in 1 .. Len(R) /\ R[Len(R)] \in ServerBlock /\ R[Len(R)] = InFile(q[Len(q)], f)
    <3>1. Len(R) \in 1 .. Len(R) /\ Len(R) = Len(q) - 1
      BY <1>2, <1>4, <1>9
    <3>2. R # <<>>
      BY <3>1
    <3>3. R[Len(q) - 1] = InFile(q[Len(q)], f)
      BY <1>4, <1>7, <1>9
    <3> QED BY <1>2, <3>1, <3>2, <3>3
  <2>3. PICK g : g = Says(R[Len(R)], d, v)
    OBVIOUS
  <2>4. g \in ServerBlock /\ g = InFile(e, f)
    BY <1>5, <2>2, <2>3, SaysType
  <2>5. Rest(n, f) = [R EXCEPT ![Len(R)] = g]
    <3>1. \A k \in 1 .. Len(q) - 1 : InFile(n[k + 1], f) = IF k = Len(q) - 1 THEN g ELSE R[k]
      <4> TAKE k \in 1 .. Len(q) - 1
      <4>1. CASE k = Len(q) - 1
        BY <1>4, <1>6, <2>4, <4>1
      <4>2. CASE k # Len(q) - 1
        <5>1. k + 1 \in 1 .. Len(q) /\ k + 1 # Len(q)
          BY <1>4, <4>2
        <5> QED BY <1>6, <1>7, <4>2, <5>1
      <4> QED BY <4>1, <4>2
    <3> QED BY <1>2, <1>7, <3>1
  <2>6. /\ M \o [R EXCEPT ![Len(R)] = g] = [M \o R EXCEPT ![Len(M \o R)] = g]
        /\ (M \o R)[Len(M \o R)] = R[Len(R)]
    <3>1. M \in Seq(ServerBlock) /\ R \in Seq(ServerBlock) /\ R # <<>> /\ g \in ServerBlock
      BY <1>2, <2>2, <2>4
    <3> QED BY <3>1, LastOfConcat
  <2>7. M \o R # <<>>
    <3>1. M \in Seq(ServerBlock) /\ R \in Seq(ServerBlock)
      BY <1>2
    <3>2. Len(M \o R) = Len(M) + Len(R) /\ Len(M) \in Nat /\ Len(R) \in Nat
      BY <3>1
    <3> QED BY <2>2, <3>2
  <2> QED BY <1>3, <1>8, <2>1, <2>3, <2>5, <2>6, <2>7
<1>10. CASE ~(Len(q) > 1)
  <2>0. Len(q) = 1
    <3>1. \A l \in Nat : l > 0 /\ ~(l > 1) => l = 1
      OBVIOUS
    <3> QED BY <1>4, <1>10, <3>1, Zenon
  <2>1. in /\ Len(q) = 1
    BY <1>10, <2>0, Zenon
  <2>2. R = <<>> /\ Rest(n, f) = <<>>
    BY <1>7, <2>1
  <2>3. PICK a : a = S[Len(S)]
    OBVIOUS
  <2>4. Len(S) \in 1 .. Len(S) /\ a \in ServerBlock
    BY <2>1, <2>3
  <2>5. n[1] = e /\ q[1] = q[Len(q)]
    BY <1>6, <2>1
  <2>6. /\ M = [S EXCEPT ![Len(S)] = InFile(Joined(a, q[1]), a.File)]
        /\ More(S, in, n[1]) = [S EXCEPT ![Len(S)] = InFile(Joined(a, e), a.File)]
    BY <1>1, <2>1, <2>3, <2>5 DEF More
  <2>7. M # <<>> /\ More(S, in, n[1]) = [M EXCEPT ![Len(M)] = Says(@, d, v)]
    <3>1. InFile(Joined(a, e), a.File) = Says(InFile(Joined(a, q[1]), a.File), d, v)
      BY <1>5, <2>4, <2>5
    <3>2. Len(M) = Len(S) /\ M[Len(S)] = InFile(Joined(a, q[1]), a.File)
      BY <1>2, <2>4, <2>6
    <3>3. M # <<>>
      BY <1>2, <2>4
    <3> QED BY <2>6, <3>1, <3>2, <3>3
  <2>8. M \o <<>> = M /\ More(S, in, n[1]) \in Seq(ServerBlock)
    <3>1. n # <<>> /\ n \in Seq(Said)
      BY <1>4, <1>6
    <3> QED BY <1>2, <3>1, ExtType
  <2>9. More(S, in, n[1]) \o <<>> = More(S, in, n[1])
    BY <2>8
  <2> QED BY <1>3, <1>8, <2>2, <2>7, <2>8, <2>9
<1> QED
  BY <1>9, <1>10

(* A part that opens no block, and says nothing of the one that is open. *)
LEMMA ExtSame ==
  ASSUME NEW S \in Seq(ServerBlock), NEW in \in BOOLEAN, in => S # <<>>,
         NEW q \in Seq(Said), Len(q) = 1, in => q[1] = NewServer, NEW f
  PROVE  Ext(S, in, q, f) = S
<1>1. Rest(q, f) = <<>>
  BY DEF Rest
<1>2. More(S, in, q[1]) = S
  <2>1. CASE in
    <3>1. Len(S) \in 1 .. Len(S) /\ S[Len(S)] \in ServerBlock
      BY <2>1
    <3>2. ASSUME NEW a \in ServerBlock PROVE InFile(Joined(a, NewServer), a.File) = a
      <4>1. PICK x, y : x = a.Names /\ y = a.Listens
        OBVIOUS
      <4>2. x \in Seq(Value \cup {CatchAll}) /\ y \in Seq(Value)
        BY <4>1 DEF ServerBlock
      <4>3. x \o <<>> = x /\ y \o <<>> = y
        BY <4>2
      <4>4. Joined(a, NewServer) = [Names |-> a.Names, Listens |-> a.Listens, Pass |-> a.Pass]
        BY <4>1, <4>3 DEF Joined, NewServer
      <4> QED BY <4>4 DEF InFile, ServerBlock
    <3>3. More(S, in, q[1]) = [S EXCEPT ![Len(S)] = S[Len(S)]]
      BY <2>1, <3>1, <3>2 DEF More
    <3> QED BY <3>3
  <2>2. CASE ~in
    BY <2>2 DEF More
  <2> QED BY <2>1, <2>2
<1> QED
  BY <1>1, <1>2 DEF Ext

-----------------------------------------------------------------------------
(* The writer.                                                             *)

NamesOf(b)  == [i \in 1 .. Len(b) |-> b[i].name]
InServer(b) == Len(b) > 1 /\ b[2].name = "server"
UpOf(b)     == IF Len(b) > 1 /\ b[2].name = "upstream" THEN b[2].arg ELSE Nothing

(* Blocks that nginx takes inside each other. *)
PathOK(b) ==
  /\ b \in Seq(Items) /\ Len(b) <= 3
  /\ Len(b) > 0 => b[1].name = "http"
  /\ Len(b) > 1 => b[2].name \in {"server", "upstream"}
  /\ Len(b) > 1 /\ b[2].name = "upstream" => b[2].arg \in Up
  /\ Len(b) > 2 => b[2].name = "server" /\ b[3].name = "location"

(* How deep nginx nests blocks, and in what order. *)
LEMMA PathParts ==
  ASSUME NEW b, PathOK(b)
  PROVE  /\ Len(b) \in 0 .. 3 /\ b \in Seq(Items) /\ (b # <<>> => Len(b) > 0)
         /\ Len(b) > 0 => b[1].name = "http"
         /\ Len(b) > 1 => b[2].name \in {"server", "upstream"}
         /\ Len(b) > 1 /\ b[2].name = "upstream" => b[2].arg \in Up
         /\ Len(b) > 2 => b[2].name = "server" /\ b[3].name = "location"
<1>1. b \in Seq(Items) /\ Len(b) <= 3
  BY DEF PathOK
<1>2. Len(b) \in 0 .. 3 /\ (b # <<>> => Len(b) > 0)
  <2>1. \A l \in Nat : l <= 3 => l \in 0 .. 3
    OBVIOUS
  <2>2. Len(b) \in Nat /\ (b # <<>> => Len(b) > 0)
    BY <1>1
  <2> QED BY <1>1, <2>1, <2>2, Zenon
<1> QED
  BY <1>1, <1>2, Zenon DEF PathOK

(* What the operator writes are items, and their fields. *)
LEMMA ItemType ==
  /\ \A b \in Blocks, u \in Up \cup {Nothing} : Item("open", b, u) \in Items
  /\ \A b \in Blocks : Item("close", b, Nothing) \in Items
  /\ \A d \in Directives, v \in Value : Item("set", d, v) \in Items
  /\ \A o, n, a, f : /\ Item(o, n, a).op = o /\ Item(o, n, a).name = n /\ Item(o, n, a).arg = a
                     /\ Word(Item(o, n, a), f).op = o /\ Word(Item(o, n, a), f).name = n
                     /\ Word(Item(o, n, a), f).arg = a /\ Word(Item(o, n, a), f).file = f
  BY DEF Item, Items, Word

(* The stack of Parse where these blocks are open, and which ones it has. *)
LEMMA NamesType ==
  ASSUME NEW b, PathOK(b)
  PROVE  NamesOf(b) \in Seq(Blocks) /\ Len(NamesOf(b)) = Len(b) /\ Rooted(NamesOf(b))
         /\ (InBlock(NamesOf(b), "server") <=> InServer(b))
         /\ (InBlock(NamesOf(b), "upstream") <=> Len(b) > 1 /\ b[2].name = "upstream")
         /\ (InBlock(NamesOf(b), "upstream") <=> UpOf(b) # Nothing)
         /\ UpOf(b) \in Up \cup {Nothing}
<1>1. /\ Len(b) \in 0 .. 3 /\ b \in Seq(Items)
      /\ Len(b) > 0 => b[1].name = "http"
      /\ Len(b) > 1 => b[2].name \in {"server", "upstream"}
      /\ Len(b) > 1 /\ b[2].name = "upstream" => b[2].arg \in Up
      /\ Len(b) > 2 => b[2].name = "server" /\ b[3].name = "location"
  BY PathParts
<1>2. \A i \in 1 .. Len(b) : (i = 1 \/ i = 2 \/ i = 3) /\ b[i].name \in Blocks
  <2> TAKE i \in 1 .. Len(b)
  <2>0. Len(b) \in 0 .. 3
    BY <1>1
  <2>1. i = 1 \/ i = 2 \/ i = 3
    <3>1. \A l \in 0 .. 3 : \A j \in 1 .. l : j = 1 \/ j = 2 \/ j = 3
      OBVIOUS
    <3> QED BY <2>0, <3>1, Zenon
  <2>2. CASE i = 1
    BY <1>1, <2>0, <2>2 DEF Blocks
  <2>3. CASE i = 2
    BY <1>1, <2>0, <2>3 DEF Blocks
  <2>4. CASE i = 3
    BY <1>1, <2>0, <2>4 DEF Blocks
  <2> QED BY <2>1, <2>2, <2>3, <2>4
<1>3. /\ NamesOf(b) \in Seq(Blocks) /\ Len(NamesOf(b)) = Len(b)
      /\ \A i \in 1 .. Len(b) : NamesOf(b)[i] = b[i].name
  BY <1>1, <1>2 DEF NamesOf
<1>4. Rooted(NamesOf(b))
  <2> SUFFICES ASSUME NEW i \in 1 .. Len(b), NEW j \in 1 .. Len(b), j < i,
                      b[i].name \in {"server", "upstream"}
               PROVE  b[j].name = "http"
    BY <1>3 DEF Rooted
  <2>1. i = 2 /\ j = 1
    BY <1>1, <1>2
  <2> QED BY <1>1, <2>1
<1>5. ASSUME NEW y \in {"server", "upstream"}
      PROVE  InBlock(NamesOf(b), y) <=> Len(b) > 1 /\ b[2].name = y
  <2>1. ASSUME InBlock(NamesOf(b), y) PROVE Len(b) > 1 /\ b[2].name = y
    <3>1. PICK i \in 1 .. Len(b) : b[i].name = y
      BY <1>3, <2>1 DEF InBlock
    <3>2. i = 2
      BY <1>1, <1>2, <1>5, <3>1
    <3> QED BY <1>1, <3>1, <3>2
  <2>2. ASSUME Len(b) > 1, b[2].name = y PROVE InBlock(NamesOf(b), y)
    <3>1. 2 \in 1 .. Len(b)
      BY <1>1, <2>2
    <3>2. 2 \in DOMAIN NamesOf(b) /\ NamesOf(b)[2] = y
      BY <1>3, <2>2, <3>1
    <3> QED BY <3>2 DEF InBlock
  <2> QED BY <2>1, <2>2
<1>6. Nothing \notin Up
  BY NothingApart
<1> QED
  BY <1>1, <1>3, <1>4, <1>5, <1>6 DEF InServer, UpOf

(* The blocks that are open after a block is opened. *)
LEMMA PathOpens ==
  ASSUME PathOK(path), NEW b \in Blocks, NEW u \in Up \cup {Nothing}, MayOpen(b, u)
  PROVE  LET n == Append(path, Item("open", b, u)) IN
         /\ PathOK(n) /\ Len(n) = Len(path) + 1 /\ \A i \in 1 .. Len(path) : n[i] = path[i]
         /\ NamesOf(n) = Append(NamesOf(path), b)
         /\ n[Len(path) + 1].name = b
         /\ UpOf(n) = (IF b = "upstream" THEN u ELSE UpOf(path))
         /\ (InServer(n) <=> InServer(path) \/ b = "server")
         /\ (b \in {"server", "upstream"} => Len(path) = 1 /\ path[1].name = "http")
         /\ (b = "http" => path = <<>>)
         /\ (b = "location" => InServer(path) /\ Len(path) = 2)
         /\ (b = "upstream" => u \in Up /\ \A p \in Part : members[p][u] = Nothing)
<1>0. PICK n : n = Append(path, Item("open", b, u))
  OBVIOUS
<1> SUFFICES
         /\ PathOK(n) /\ Len(n) = Len(path) + 1 /\ \A i \in 1 .. Len(path) : n[i] = path[i]
         /\ NamesOf(n) = Append(NamesOf(path), b)
         /\ n[Len(path) + 1].name = b
         /\ UpOf(n) = (IF b = "upstream" THEN u ELSE UpOf(path))
         /\ (InServer(n) <=> InServer(path) \/ b = "server")
         /\ (b \in {"server", "upstream"} => Len(path) = 1 /\ path[1].name = "http")
         /\ (b = "http" => path = <<>>)
         /\ (b = "location" => InServer(path) /\ Len(path) = 2)
         /\ (b = "upstream" => u \in Up /\ \A p \in Part : members[p][u] = Nothing)
  BY <1>0
<1>1. PICK x : x = Item("open", b, u)
  OBVIOUS
<1>2. x \in Items /\ x.name = b /\ x.arg = u
  BY <1>1, ItemType
<1>3. /\ Len(path) \in 0 .. 3 /\ path \in Seq(Items)
      /\ Len(path) > 0 => path[1].name = "http"
      /\ Len(path) > 1 => path[2].name \in {"server", "upstream"}
      /\ Len(path) > 1 /\ path[2].name = "upstream" => path[2].arg \in Up
      /\ Len(path) > 2 => path[2].name = "server" /\ path[3].name = "location"
  BY PathParts
<1>4. /\ n \in Seq(Items) /\ Len(n) = Len(path) + 1 /\ n[Len(path) + 1] = x
      /\ \A i \in 1 .. Len(path) : n[i] = path[i]
  BY <1>0, <1>1, <1>2, <1>3
<1>5. /\ Last(path) = path[Len(path)]
      /\ path # <<>> => Len(path) > 0
  BY <1>3 DEF Last
<1>6. /\ (b \in {"server", "upstream"} => Len(path) = 1)
      /\ (b = "http" => Len(path) = 0)
      /\ (b = "location" => Len(path) = 2 /\ path[2].name = "server")
      /\ (b = "upstream" => u \in Up /\ \A p \in Part : members[p][u] = Nothing)
  <2>1. CASE b = "http"
    BY <2>1 DEF MayOpen
  <2>2. CASE b \in {"server", "upstream"}
    <3>1. path # <<>> /\ Last(path).name = "http"
      BY <2>2 DEF MayOpen, In
    <3>2. Len(path) = 1
      BY <1>3, <1>5, <3>1
    <3> QED BY <2>2, <3>2 DEF MayOpen
  <2>3. CASE b = "location"
    <3>1. path # <<>> /\ Last(path).name = "server"
      BY <2>3 DEF MayOpen, In
    <3>2. Len(path) = 2
      BY <1>3, <1>5, <3>1
    <3> QED BY <1>5, <2>3, <3>1, <3>2
  <2> QED BY <2>1, <2>2, <2>3 DEF Blocks
<1>7. NamesOf(n) = Append(NamesOf(path), b)
  <2>1. PICK y, z : y = NamesOf(path) /\ z = NamesOf(n)
    OBVIOUS
  <2>2. /\ y \in Seq(Blocks) /\ Len(y) = Len(path)
        /\ \A i \in 1 .. Len(path) : y[i] = path[i].name
    BY <2>1, NamesType DEF NamesOf
  <2>3. Append(y, b) \in Seq(Blocks) /\ Len(Append(y, b)) = Len(y) + 1 /\ Append(y, b)[Len(y) + 1] = b
        /\ \A i \in 1 .. Len(y) : Append(y, b)[i] = y[i]
    <3>1. y \in Seq(Blocks)
      BY <2>2
    <3> QED BY <3>1
  <2>4. /\ z = [i \in 1 .. Len(path) + 1 |-> n[i].name]
    BY <1>4, <2>1 DEF NamesOf
  <2>5. \A i \in 1 .. Len(path) + 1 : i = Len(path) + 1 \/ i \in 1 .. Len(path)
    BY <1>3
  <2>6. \A i \in 1 .. Len(path) + 1 : n[i].name = Append(y, b)[i]
    BY <1>2, <1>4, <2>2, <2>3, <2>5
  <2>7. Append(y, b) = [i \in 1 .. Len(path) + 1 |-> Append(y, b)[i]]
    <3>1. \A a \in Seq(Blocks) : a = [i \in 1 .. Len(a) |-> a[i]]
      OBVIOUS
    <3>2. Append(y, b) \in Seq(Blocks) /\ Len(Append(y, b)) = Len(path) + 1
      BY <2>2, <2>3, Zenon
    <3>3. PICK a : a = Append(y, b)
      OBVIOUS
    <3>4. a = [i \in 1 .. Len(a) |-> a[i]]
      BY <3>1, <3>2, <3>3, Zenon
    <3>5. Len(a) = Len(path) + 1
      BY <3>2, <3>3, Zenon
    <3> QED BY <3>3, <3>4, <3>5
  <2> QED BY <2>1, <2>4, <2>6, <2>7
<1>8. CASE b = "http"
  <2>1. Len(path) = 0 /\ Len(n) = 1 /\ n[1] = x
    BY <1>4, <1>6, <1>8
  <2> QED BY <1>2, <1>3, <1>4, <1>6, <1>7, <1>8, <2>1 DEF PathOK, UpOf, InServer
<1>9. CASE b \in {"server", "upstream"}
  <2>1. Len(path) = 1 /\ Len(n) = 2 /\ n[2] = x /\ n[1] = path[1]
    BY <1>4, <1>6, <1>9
  <2> QED BY <1>2, <1>3, <1>4, <1>6, <1>7, <1>9, <2>1 DEF PathOK, UpOf, InServer
<1>10. CASE b = "location"
  <2>1. Len(path) = 2 /\ Len(n) = 3 /\ n[3] = x /\ n[1] = path[1] /\ n[2] = path[2]
    <3>1. Len(path) = 2
      BY <1>6, <1>10
    <3>2. 2 + 1 = 3 /\ 1 \in 1 .. 2 /\ 2 \in 1 .. 2
      OBVIOUS
    <3> QED BY <1>4, <3>1, <3>2
  <2>2. path[2].name = "server" /\ path[1].name = "http" /\ n[3].name = "location"
    BY <1>2, <1>3, <1>6, <1>10, <2>1
  <2>3. PathOK(n)
    BY <1>4, <2>1, <2>2 DEF PathOK
  <2>4. UpOf(n) = Nothing /\ UpOf(path) = Nothing /\ InServer(n) /\ InServer(path)
    BY <2>1, <2>2 DEF UpOf, InServer
  <2> QED BY <1>2, <1>4, <1>6, <1>7, <1>10, <2>1, <2>3, <2>4
<1> QED BY <1>8, <1>9, <1>10 DEF Blocks

(* The blocks that are open after a block is closed. *)
LEMMA PathCloses ==
  ASSUME NEW b, PathOK(b), b # <<>>
  PROVE  /\ PathOK(Front(b)) /\ Len(Front(b)) = Len(b) - 1 /\ Len(b) > 0
         /\ \A i \in 1 .. Len(b) - 1 : Front(b)[i] = b[i]
         /\ NamesOf(Front(b)) = Front(NamesOf(b)) /\ Last(NamesOf(b)) = Last(b).name
         /\ NamesOf(b) # <<>> /\ Last(b).name \in Blocks
         /\ Last(b) = b[Len(b)]
         /\ UpOf(Front(b)) = (IF Last(b).name = "upstream" THEN Nothing ELSE UpOf(b))
         /\ (InServer(Front(b)) => InServer(b))
<1>0. /\ Len(b) \in 0 .. 3 /\ Len(b) > 0 /\ b \in Seq(Items)
      /\ b[1].name = "http"
      /\ Len(b) > 1 => b[2].name \in {"server", "upstream"}
      /\ Len(b) > 1 /\ b[2].name = "upstream" => b[2].arg \in Up
      /\ Len(b) > 2 => b[2].name = "server" /\ b[3].name = "location"
  BY PathParts
<1>1. Len(b) \in 1 .. 3
  BY <1>0
<1>2. /\ Front(b) \in Seq(Items) /\ Len(Front(b)) = Len(b) - 1
      /\ \A i \in 1 .. Len(b) - 1 : Front(b)[i] = b[i]
  BY <1>0, <1>1, FrontOf
<1>3. /\ NamesOf(b) \in Seq(Blocks) /\ Len(NamesOf(b)) = Len(b)
      /\ \A i \in 1 .. Len(b) : NamesOf(b)[i] = b[i].name
  BY NamesType DEF NamesOf
<1>4. /\ NamesOf(b) # <<>> /\ Last(b) = b[Len(b)] /\ Last(NamesOf(b)) = b[Len(b)].name
      /\ b[Len(b)].name \in Blocks
  <2>1. Len(b) \in 1 .. Len(b) /\ NamesOf(b)[Len(b)] \in Blocks
    BY <1>0, <1>1, <1>3
  <2> QED BY <1>0, <1>1, <1>3, <2>1 DEF Last
<1>5. NamesOf(Front(b)) = Front(NamesOf(b))
  <2>1. /\ Front(NamesOf(b)) \in Seq(Blocks) /\ Len(Front(NamesOf(b))) = Len(b) - 1
        /\ \A i \in 1 .. Len(b) - 1 : Front(NamesOf(b))[i] = NamesOf(b)[i]
    BY <1>3, <1>4, FrontOf
  <2>2. PICK x, y : x = NamesOf(Front(b)) /\ y = Front(NamesOf(b))
    OBVIOUS
  <2>3. x = [i \in 1 .. Len(b) - 1 |-> Front(b)[i].name]
    BY <1>2, <2>2 DEF NamesOf
  <2>4. y = [i \in 1 .. Len(b) - 1 |-> NamesOf(b)[i]]
    BY <1>0, <1>1, <2>1, <2>2
  <2>5. \A i \in 1 .. Len(b) - 1 : Front(b)[i].name = NamesOf(b)[i]
    BY <1>0, <1>1, <1>2, <1>3
  <2> QED BY <2>2, <2>3, <2>4, <2>5
<1>6. CASE Len(b) = 1
  BY <1>0, <1>1, <1>2, <1>4, <1>5, <1>6 DEF PathOK, UpOf, InServer
<1>7. CASE Len(b) = 2
  BY <1>0, <1>1, <1>2, <1>4, <1>5, <1>7 DEF PathOK, UpOf, InServer
<1>8. CASE Len(b) = 3
  BY <1>0, <1>1, <1>2, <1>4, <1>5, <1>8 DEF PathOK, UpOf, InServer
<1> QED BY <1>0, <1>1, <1>6, <1>7, <1>8

(* Does the text of part p open the upstream u? *)
Opens(p, u) == \E i \in 1 .. Len(text[p]) :
                 text[p][i].op = "open" /\ text[p][i].name = "upstream" /\ text[p][i].arg = u

Typed(q) ==
  /\ text \in [Part -> Seq(Items)] /\ part \in Part /\ includes \in 0 .. 2
  /\ servers \in [Part -> Seq(Said)] /\ q \in [Part -> Seq(Said)]
  /\ \A p \in Part : Len(q[p]) > 0 /\ Len(servers[p]) = Len(q[p])
  /\ members \in [Part -> Lists] /\ workers \in [Part -> Value \cup {Nothing}]
  /\ PathOK(path) /\ PathOK(base)

(* Where the writer is. *)
Placed(q) ==
  /\ part = "main" => /\ base = <<>> /\ text["inc"] = <<>> /\ text["rest"] = <<>>
                      /\ q["inc"] = <<NewServer>> /\ q["rest"] = <<NewServer>>
                      /\ \A u \in Up : members["inc"][u] = Nothing /\ members["rest"][u] = Nothing
                      /\ workers["inc"] = Nothing /\ workers["rest"] = Nothing /\ includes = 0
  /\ part = "inc" => Len(base) <= Len(path) /\ \A i \in 1 .. Len(base) : path[i] = base[i]

(* Which server blocks the parts open, and which they go on with. *)
ServersSaid(q) ==
  /\ InServer(path) => Len(q[part]) > 1 \/ (part # "main" /\ InServer(base))
  /\ ~Whole(base) => Len(q["inc"]) = 1
  /\ ~InServer(base) => q["inc"][1] = NewServer /\ q["rest"][1] = NewServer
  /\ InServer(base) => Len(q["main"]) > 1
  /\ ~Snippets /\ ~Whole(base) => q["inc"][1] = NewServer
  /\ q = servers \/ (Snippets /\ includes = 2)

(* Which upstream blocks. *)
MembersSaid ==
  /\ UpOf(path) # Nothing => Opens(part, UpOf(path)) \/ (part # "main" /\ UpOf(base) = UpOf(path))
  /\ UpOf(base) # Nothing => Opens("main", UpOf(base))
  /\ ~Whole(base) => \A u \in Up : ~Opens("inc", u)
  /\ \A p \in Part, u \in Up :
       /\ Opens(p, u) => members[p][u] # Nothing
       /\ Opens(p, u) /\ p # "main" => \A r \in Part : r # p => members[r][u] = Nothing
       /\ members[p][u] # Nothing => Opens(p, u) \/ (p # "main" /\ UpOf(base) = u)
  /\ ~Snippets /\ ~Whole(base) => \A u \in Up : members["inc"][u] = Nothing

WorkersSaid == \A p, r \in Part : workers[p] # Nothing /\ workers[r] # Nothing => p = r

Writer(q) == Typed(q) /\ Placed(q) /\ ServersSaid(q) /\ MembersSaid /\ WorkersSaid

(* What an item added changes. *)
LEMMA AddOpens ==
  ASSUME text \in [Part -> Seq(Items)], part \in Part, NEW x \in Items, Add(x)
  PROVE  /\ text' \in [Part -> Seq(Items)] /\ text'[part] = Append(text[part], x)
         /\ \A p \in Part : p # part => text'[p] = text[p]
         /\ \A p \in Part, u \in Up :
              Opens(p, u)' <=> \/ Opens(p, u)
                               \/ p = part /\ x.op = "open" /\ x.name = "upstream" /\ x.arg = u
         /\ UNCHANGED <<phase, part, base, includes, dump, toks, blocks, Config>>
<1>1. text' = [text EXCEPT ![part] = Append(@, x)]
      /\ UNCHANGED <<phase, part, base, includes, dump, toks, blocks, Config>>
  BY DEF Add
<1>2. text[part] \in Seq(Items) /\ Append(text[part], x) \in Seq(Items)
  OBVIOUS
<1>3. /\ text' \in [Part -> Seq(Items)] /\ text'[part] = Append(text[part], x)
      /\ \A p \in Part : p # part => text'[p] = text[p]
  BY <1>1, <1>2
<1>4. ASSUME NEW p \in Part, NEW u \in Up
      PROVE  Opens(p, u)' <=> \/ Opens(p, u)
                              \/ p = part /\ x.op = "open" /\ x.name = "upstream" /\ x.arg = u
  <2>1. CASE p # part
    BY <1>3, <2>1 DEF Opens
  <2>2. CASE p = part
    <3>1. PICK y, z : y = text[p] /\ z = Append(y, x)
      OBVIOUS
    <3>2. y \in Seq(Items) /\ text'[p] = z
      BY <1>2, <1>3, <2>2, <3>1
    <3>3. /\ Len(z) = Len(y) + 1 /\ z[Len(y) + 1] = x /\ Len(y) \in Nat
          /\ \A i \in 1 .. Len(y) : z[i] = y[i]
      BY <3>1, <3>2
    <3>4. Opens(p, u)' <=> \E i \in 1 .. Len(y) + 1 : z[i].op = "open" /\ z[i].name = "upstream" /\ z[i].arg = u
      BY <3>2, <3>3 DEF Opens
    <3>5. Opens(p, u) <=> \E i \in 1 .. Len(y) : y[i].op = "open" /\ y[i].name = "upstream" /\ y[i].arg = u
      BY <3>1 DEF Opens
    <3> QED BY <2>2, <3>3, <3>4, <3>5
  <2> QED BY <2>1, <2>2
<1> QED
  BY <1>1, <1>3, <1>4

(* At the top level and in http no server and no upstream is open. *)
LEMMA WholeServer ==
  ASSUME NEW b, PathOK(b)
  PROVE  /\ InServer(b) => ~Whole(b)
         /\ UpOf(b) # Nothing => ~Whole(b)
         /\ Len(b) < 2 => Whole(b) /\ ~InServer(b) /\ UpOf(b) = Nothing
         /\ Whole(b) => Len(b) < 2
<1>1. /\ Len(b) \in 0 .. 3 /\ b \in Seq(Items) /\ (b # <<>> => Len(b) > 0)
      /\ Len(b) > 0 => b[1].name = "http"
      /\ Len(b) > 1 => b[2].name \in {"server", "upstream"}
      /\ Len(b) > 2 => b[2].name = "server" /\ b[3].name = "location"
  BY PathParts
<1>2. Last(b) = b[Len(b)]
  BY DEF Last
<1>3. Len(b) < 2 => Whole(b)
  BY <1>1, <1>2 DEF Whole
<1>4. Len(b) = 2 \/ Len(b) = 3 => ~Whole(b)
  <2>1. Len(b) = 2 \/ Len(b) = 3 => b # <<>>
    BY <1>1
  <2> QED BY <1>1, <1>2, <2>1 DEF Whole
<1>5. \A l \in 0 .. 3 : (l < 2 \/ l = 2 \/ l = 3) /\ (l < 2 => ~(l > 1)) /\ (l > 1 => l = 2 \/ l = 3)
  OBVIOUS
<1>6. (Len(b) < 2 \/ Len(b) = 2 \/ Len(b) = 3) /\ (Len(b) < 2 => ~(Len(b) > 1))
      /\ (Len(b) > 1 => Len(b) = 2 \/ Len(b) = 3)
  BY <1>1, <1>5, Zenon
<1> QED
  BY <1>3, <1>4, <1>6, Zenon DEF InServer, UpOf

-----------------------------------------------------------------------------
(* Each action of the writer keeps what is said of the parts.              *)

(* Opening a block keeps what is known of the writer. *)
LEMMA OpenKeeps ==
  ASSUME NEW q, Writer(q), NEW b \in Blocks, NEW u \in Up \cup {Nothing}, MayKnow, MayOpen(b, u),
         path' = Append(path, Item("open", b, u)), Add(Item("open", b, u)),
         servers' = IF b = "server" THEN [servers EXCEPT ![part] = Append(@, NewServer)] ELSE servers,
         members' = IF b = "upstream" THEN [members EXCEPT ![part][u] = <<>>] ELSE members,
         workers' = workers,
         NEW n, n = IF b = "server" THEN [q EXCEPT ![part] = Append(@, NewServer)] ELSE q
  PROVE  Writer(n)'
<1>1. /\ Typed(q) /\ Placed(q) /\ ServersSaid(q) /\ MembersSaid /\ WorkersSaid
  BY DEF Writer
<1>2. /\ part \in Part /\ PathOK(path) /\ PathOK(base) /\ text \in [Part -> Seq(Items)]
      /\ q \in [Part -> Seq(Said)] /\ servers \in [Part -> Seq(Said)] /\ members \in [Part -> Lists]
      /\ \A p \in Part : Len(q[p]) > 0 /\ Len(servers[p]) = Len(q[p])
  BY <1>1 DEF Typed
<1>3. PICK x : x = Item("open", b, u)
  OBVIOUS
<1>4. x \in Items /\ x.op = "open" /\ x.name = b /\ x.arg = u
  BY <1>3, ItemType
<1>5. /\ text' \in [Part -> Seq(Items)] /\ text'[part] = Append(text[part], x)
      /\ \A p \in Part : p # part => text'[p] = text[p]
      /\ \A p \in Part, v \in Up : Opens(p, v)' <=> Opens(p, v) \/ (p = part /\ b = "upstream" /\ u = v)
      /\ phase' = phase /\ part' = part /\ base' = base /\ includes' = includes
  BY <1>2, <1>3, <1>4, AddOpens
<1>6. PICK m : m = path'
  OBVIOUS
<1>7. /\ PathOK(m) /\ Len(m) = Len(path) + 1 /\ \A i \in 1 .. Len(path) : m[i] = path[i]
      /\ UpOf(m) = (IF b = "upstream" THEN u ELSE UpOf(path))
      /\ (InServer(m) <=> InServer(path) \/ b = "server")
      /\ (b \in {"server", "upstream"} => Len(path) = 1 /\ path[1].name = "http")
      /\ (b = "location" => InServer(path) /\ Len(path) = 2)
      /\ (b = "upstream" => u \in Up /\ \A p \in Part : members[p][u] = Nothing)
  <2>1. m = Append(path, Item("open", b, u)) /\ PathOK(path)
    BY <1>2, <1>6
  <2> QED BY <2>1, PathOpens
<1>8. PathOK(path)' /\ UpOf(path)' = UpOf(m) /\ (InServer(path)' <=> InServer(m))
      /\ PathOK(base)' /\ UpOf(base)' = UpOf(base) /\ (InServer(base)' <=> InServer(base))
      /\ (Whole(base)' <=> Whole(base)) /\ Len(path)' = Len(path) + 1
      /\ \A i \in 1 .. Len(path) : path'[i] = path[i]
  BY <1>2, <1>5, <1>6, <1>7 DEF PathOK, UpOf, InServer, Whole
<1>9. Len(path) \in Nat /\ Len(base) \in Nat
  BY <1>2, PathParts
(* A block of http in an included file that starts there, or before. *)
<1>10. b \in {"server", "upstream"} /\ part = "inc" => Whole(base)
  <2> SUFFICES ASSUME b \in {"server", "upstream"}, part = "inc" PROVE Whole(base)
    OBVIOUS
  <2>1. Len(base) <= Len(path) /\ Len(path) = 1
    BY <1>1, <1>7 DEF Placed
  <2>2. Len(base) < 2
    BY <1>9, <2>1
  <2> QED BY <1>2, <2>2, WholeServer
<1>11. /\ n \in [Part -> Seq(Said)] /\ servers' \in [Part -> Seq(Said)]
       /\ \A p \in Part : Len(n[p]) = (IF b = "server" /\ p = part THEN Len(q[p]) + 1 ELSE Len(q[p]))
                        /\ Len(servers'[p]) = Len(n[p]) /\ n[p][1] = q[p][1]
       /\ \A p \in Part : p # part => n[p] = q[p]
  <2>1. NewServer \in Said
    BY DEF NewServer, Said
  <2>2. \A y \in Seq(Said) : Len(y) > 0 =>
          /\ Append(y, NewServer) \in Seq(Said) /\ Len(Append(y, NewServer)) = Len(y) + 1
          /\ Append(y, NewServer)[1] = y[1]
    BY <2>1
  <2>3. CASE b = "server"
    <3>1. n = [q EXCEPT ![part] = Append(q[part], NewServer)]
          /\ servers' = [servers EXCEPT ![part] = Append(servers[part], NewServer)]
      BY <2>3
    <3>2. \A p \in Part : /\ q[p] \in Seq(Said) /\ servers[p] \in Seq(Said) /\ Len(servers[p]) = Len(q[p])
                         /\ Len(q[p]) > 0 /\ Len(servers[p]) > 0
      BY <1>2
    <3> HIDE DEF Said, Part
    <3> QED BY <1>2, <2>2, <2>3, <3>1, <3>2
  <2>4. CASE b # "server"
    BY <1>2, <2>4
  <2> QED BY <2>3, <2>4
<1>12. /\ members' \in [Part -> Lists]
       /\ \A p \in Part, v \in Up :
            members'[p][v] = IF b = "upstream" /\ p = part /\ v = u THEN <<>> ELSE members[p][v]
  <2>1. <<>> \in Seq(Value) \cup {Nothing}
    OBVIOUS
  <2>2. CASE b = "upstream"
    <3>1. u \in Up /\ members[part] \in Lists
      BY <1>2, <1>7, <2>2
    <3>2. members' = [members EXCEPT ![part] = [members[part] EXCEPT ![u] = <<>>]]
      BY <2>2
    <3>3. [members[part] EXCEPT ![u] = <<>>] \in Lists
      BY <2>1, <3>1 DEF Lists
    <3>4. \A p \in Part : members[p] \in Lists
      BY <1>2
    <3> QED BY <1>2, <2>2, <3>1, <3>2, <3>3, <3>4 DEF Lists
  <2>3. CASE b # "upstream"
    BY <1>2, <2>3
  <2> QED BY <2>2, <2>3
<1>13. Typed(n)'
  <2>1. \A p \in Part : Len(n[p]) > 0
    BY <1>2, <1>11
  <2> QED BY <1>1, <1>5, <1>8, <1>11, <1>12, <2>1 DEF Typed
<1>14. Placed(n)'
  <2>1. part = "main" => \A v \in Up : members'["inc"][v] = Nothing /\ members'["rest"][v] = Nothing
    BY <1>1, <1>12 DEF Placed, Part
  <2>2. part = "main" => /\ n["inc"] = <<NewServer>> /\ n["rest"] = <<NewServer>>
                         /\ text'["inc"] = <<>> /\ text'["rest"] = <<>>
    BY <1>1, <1>5, <1>11 DEF Placed, Part
  <2>3. part = "inc" => Len(base) <= Len(path)' /\ \A i \in 1 .. Len(base) : path'[i] = base[i]
    <3> SUFFICES ASSUME part = "inc" PROVE Len(base) <= Len(path)' /\ \A i \in 1 .. Len(base) : path'[i] = base[i]
      OBVIOUS
    <3>1. Len(base) <= Len(path) /\ \A i \in 1 .. Len(base) : path[i] = base[i]
      BY <1>1 DEF Placed
    <3> QED BY <1>8, <1>9, <3>1
  <2> QED BY <1>1, <1>5, <2>1, <2>2, <2>3 DEF Placed
<1>15. ServersSaid(n)'
  <2>1. InServer(m) => Len(n[part]) > 1 \/ (part # "main" /\ InServer(base))
    <3>1. CASE b = "server"
      <4>1. Len(n[part]) = Len(q[part]) + 1 /\ Len(q[part]) > 0 /\ q[part] \in Seq(Said)
        BY <1>2, <1>11, <3>1
      <4> QED BY <4>1
    <3>2. CASE b # "server"
      BY <1>1, <1>2, <1>7, <1>11, <3>2 DEF ServersSaid
    <3> QED BY <3>1, <3>2
  <2>2. ~Whole(base) => Len(n["inc"]) = 1
    <3>1. b = "server" /\ part = "inc" => Whole(base)
      BY <1>10
    <3> QED BY <1>1, <1>11, <3>1 DEF ServersSaid, Part
  <2>3. InServer(base) => Len(n["main"]) > 1
    <3>1. Len(n["main"]) >= Len(q["main"]) /\ Len(q["main"]) \in Nat
      <4>1. q["main"] \in Seq(Said) /\ "main" \in Part
        BY <1>2 DEF Part
      <4> QED BY <1>11, <4>1
    <3>2. Len(n["main"]) \in Nat
      <4>1. n["main"] \in Seq(Said)
        BY <1>11 DEF Part
      <4> QED BY <4>1
    <3> QED BY <1>1, <3>1, <3>2 DEF ServersSaid
  <2>4. n["inc"][1] = q["inc"][1] /\ n["rest"][1] = q["rest"][1]
    BY <1>11 DEF Part
  <2>5. q = servers => n = servers'
    OBVIOUS
  <2> QED BY <1>1, <1>5, <1>8, <2>1, <2>2, <2>3, <2>4, <2>5 DEF ServersSaid
<1>16. MembersSaid'
  <2>1. UpOf(m) # Nothing => Opens(part, UpOf(m))' \/ (part # "main" /\ UpOf(base) = UpOf(m))
    <3>1. UpOf(path) \in Up \cup {Nothing}
      BY <1>2, NamesType
    <3>2. CASE b = "upstream"
      BY <1>2, <1>5, <1>7, <3>2
    <3>3. CASE b # "upstream"
      BY <1>1, <1>2, <1>5, <1>7, <3>1, <3>3 DEF MembersSaid
    <3> QED BY <3>2, <3>3
  <2>2. UpOf(base) # Nothing => Opens("main", UpOf(base))'
    <3>1. UpOf(base) \in Up \cup {Nothing}
      BY <1>2, NamesType
    <3> QED BY <1>1, <1>5, <3>1 DEF MembersSaid, Part
  <2>3. ~Whole(base) => \A v \in Up : ~Opens("inc", v)'
    BY <1>1, <1>5, <1>10 DEF MembersSaid, Part
  <2>4. ASSUME NEW p \in Part, NEW v \in Up
        PROVE  /\ Opens(p, v)' => members'[p][v] # Nothing
               /\ Opens(p, v)' /\ p # "main" => \A r \in Part : r # p => members'[r][v] = Nothing
               /\ members'[p][v] # Nothing => Opens(p, v)' \/ (p # "main" /\ UpOf(base) = v)
    <3>1. /\ Opens(p, v) => members[p][v] # Nothing
          /\ Opens(p, v) /\ p # "main" => \A r \in Part : r # p => members[r][v] = Nothing
          /\ members[p][v] # Nothing => Opens(p, v) \/ (p # "main" /\ UpOf(base) = v)
      BY <1>1 DEF MembersSaid
    <3>2. <<>> # Nothing
      BY NothingApart
    <3>3. CASE b = "upstream" /\ v = u
      <4>1. \A r \in Part : members[r][v] = Nothing
        BY <1>7, <3>3
      <4>2. Opens(p, v)' <=> p = part
        BY <1>5, <3>1, <3>3, <4>1
      <4> QED BY <1>12, <3>1, <3>2, <3>3, <4>1, <4>2
    <3>4. CASE ~(b = "upstream" /\ v = u)
      BY <1>5, <1>12, <3>1, <3>4
    <3> QED BY <3>3, <3>4
  <2>5. ~Snippets /\ ~Whole(base) => \A v \in Up : members'["inc"][v] = Nothing
    BY <1>1, <1>10, <1>12 DEF MembersSaid, Part
  <2> QED BY <1>5, <1>8, <2>1, <2>2, <2>3, <2>4, <2>5 DEF MembersSaid
<1>17. WorkersSaid'
  BY <1>1 DEF WorkersSaid
<1> QED
  BY <1>13, <1>14, <1>15, <1>16, <1>17 DEF Writer

(* So does a directive of a server, *)
LEMMA DirectiveKeeps ==
  ASSUME NEW q, Writer(q), NEW d \in ServerDirectives, NEW v \in Value,
         d = "proxy_set_header" \/ MayKnow, InServer(path), path' = path,
         Add(Item("set", d, v)), members' = members, workers' = workers,
         servers' = [servers EXCEPT ![part][Len(servers[part])] = Says(@, d, v)],
         NEW n, n = [q EXCEPT ![part][Len(q[part])] = Says(@, d, v)]
  PROVE  Writer(n)'
<1>1. /\ Typed(q) /\ Placed(q) /\ ServersSaid(q) /\ MembersSaid /\ WorkersSaid
  BY DEF Writer
<1>2. /\ part \in Part /\ PathOK(path) /\ PathOK(base) /\ text \in [Part -> Seq(Items)]
      /\ q \in [Part -> Seq(Said)] /\ servers \in [Part -> Seq(Said)]
      /\ \A p \in Part : Len(q[p]) > 0 /\ Len(servers[p]) = Len(q[p])
  BY <1>1 DEF Typed
<1>3. PICK x : x = Item("set", d, v)
  OBVIOUS
<1>4. x \in Items /\ x.op = "set" /\ d \in Directives
  <2>1. d \in Directives
    BY DEF Directives
  <2> QED BY <1>3, <2>1, ItemType
<1>5. /\ text' \in [Part -> Seq(Items)] /\ \A p \in Part : p # part => text'[p] = text[p]
      /\ \A p \in Part, u \in Up : Opens(p, u)' <=> Opens(p, u)
      /\ phase' = phase /\ part' = part /\ base' = base /\ includes' = includes
  BY <1>2, <1>3, <1>4, AddOpens
<1>6. PathOK(path)' /\ UpOf(path)' = UpOf(path) /\ (InServer(path)' <=> InServer(path))
      /\ PathOK(base)' /\ UpOf(base)' = UpOf(base) /\ (InServer(base)' <=> InServer(base))
      /\ (Whole(base)' <=> Whole(base))
  BY <1>2, <1>5 DEF PathOK, UpOf, InServer, Whole
<1>7. ASSUME NEW y \in Seq(Said), Len(y) > 0, NEW e, e = Says(y[Len(y)], d, v)
      PROVE  LET z == [y EXCEPT ![Len(y)] = e] IN
               /\ z \in Seq(Said) /\ Len(z) = Len(y) /\ (Len(y) > 1 => z[1] = y[1])
               /\ d = "proxy_set_header" => z = y
  <2>1. Len(y) \in 1 .. Len(y) /\ y[Len(y)] \in Said
    BY <1>7
  <2>2. e \in Said
    BY <1>4, <1>7, <2>1, SaidType
  <2>3. PICK z : z = [y EXCEPT ![Len(y)] = e]
    OBVIOUS
  <2>4. z \in Seq(Said) /\ Len(z) = Len(y) /\ \A k \in 1 .. Len(y) : k # Len(y) => z[k] = y[k]
    BY <2>1, <2>2, <2>3, ExceptSeq
  <2>5. Len(y) > 1 => z[1] = y[1]
    BY <2>1, <2>4
  <2>6. d = "proxy_set_header" => z = y
    BY <1>7, <2>1, <2>3 DEF Says
  <2> QED BY <2>3, <2>4, <2>5, <2>6
<1>8. /\ n \in [Part -> Seq(Said)] /\ servers' \in [Part -> Seq(Said)]
      /\ \A p \in Part : Len(n[p]) = Len(q[p]) /\ Len(servers'[p]) = Len(servers[p])
      /\ \A p \in Part : p # part => n[p] = q[p]
      /\ Len(q[part]) > 1 => n[part][1] = q[part][1]
      /\ d = "proxy_set_header" => n = q
  <2>1. PICK y, e, z : /\ y = q[part] /\ e = Says(y[Len(y)], d, v)
                       /\ z = [y EXCEPT ![Len(y)] = e]
    OBVIOUS
  <2>2. PICK a, b, c : /\ a = servers[part] /\ b = Says(a[Len(a)], d, v)
                       /\ c = [a EXCEPT ![Len(a)] = b]
    OBVIOUS
  <2>3. y \in Seq(Said) /\ Len(y) > 0 /\ a \in Seq(Said) /\ Len(a) > 0
    BY <1>2, <2>1, <2>2
  <2>4. /\ z \in Seq(Said) /\ Len(z) = Len(y) /\ (Len(y) > 1 => z[1] = y[1])
        /\ d = "proxy_set_header" => z = y
    BY <1>7, <2>1, <2>3
  <2>5. c \in Seq(Said) /\ Len(c) = Len(a)
    BY <1>7, <2>2, <2>3
  <2>6. n = [q EXCEPT ![part] = z]
    BY <2>1
  <2>7. servers' = [servers EXCEPT ![part] = c]
    BY <2>2
  <2> HIDE DEF Said, Part
  <2> QED BY <1>2, <2>1, <2>2, <2>4, <2>5, <2>6, <2>7
<1>9. Typed(n)'
  BY <1>1, <1>2, <1>5, <1>6, <1>8 DEF Typed
<1>10. Placed(n)'
  <2>1. part = "main" => /\ n["inc"] = <<NewServer>> /\ n["rest"] = <<NewServer>>
                         /\ text'["inc"] = <<>> /\ text'["rest"] = <<>>
    BY <1>1, <1>5, <1>8 DEF Placed, Part
  <2> QED BY <1>1, <1>5, <2>1 DEF Placed
<1>11. ServersSaid(n)'
  <2>1. Len(q[part]) > 1 \/ (part # "main" /\ InServer(base))
    BY <1>1 DEF ServersSaid
  <2>2. ~InServer(base) => n["inc"][1] = NewServer /\ n["rest"][1] = NewServer
    BY <1>1, <1>8, <2>1 DEF ServersSaid, Part
  <2>3. ~Snippets /\ ~Whole(base) => n["inc"][1] = NewServer
    <3> SUFFICES ASSUME ~Snippets, ~Whole(base) PROVE n["inc"][1] = NewServer
      OBVIOUS
    <3>1. q["inc"][1] = NewServer
      BY <1>1 DEF ServersSaid
    <3>2. part # "inc" => n["inc"] = q["inc"]
      BY <1>8 DEF Part
    <3>3. part = "inc" => n = q
      BY <1>8 DEF MayKnow
    <3> QED BY <3>1, <3>2, <3>3
  <2>4. q = servers => n = servers'
    OBVIOUS
  <2> QED BY <1>1, <1>5, <1>6, <1>8, <2>1, <2>2, <2>3, <2>4 DEF ServersSaid, Part
<1>12. MembersSaid'
  <2>1. UpOf(path) \in Up \cup {Nothing} /\ UpOf(base) \in Up \cup {Nothing}
    BY <1>2, NamesType
  <2>2. /\ UpOf(path) # Nothing => Opens(part, UpOf(path))' \/ (part # "main" /\ UpOf(base) = UpOf(path))
        /\ UpOf(base) # Nothing => Opens("main", UpOf(base))'
        /\ ~Whole(base) => \A u \in Up : ~Opens("inc", u)'
    BY <1>1, <1>2, <1>5, <2>1 DEF MembersSaid, Part
  <2> QED BY <1>1, <1>5, <1>6, <2>2 DEF MembersSaid
<1>13. WorkersSaid'
  BY <1>1 DEF WorkersSaid
<1> QED
  BY <1>9, <1>10, <1>11, <1>12, <1>13 DEF Writer

(* and a member of an upstream, *)
LEMMA MemberKeeps ==
  ASSUME NEW q, Writer(q), NEW v \in Value, NEW u \in Up, MayKnow, UpOf(path) = u, path' = path,
         Add(Item("set", "server", v)), servers' = servers, workers' = workers,
         members' = [members EXCEPT ![part][u] = Cat(@, <<v>>)]
  PROVE  Writer(q)'
<1>1. /\ Typed(q) /\ Placed(q) /\ ServersSaid(q) /\ MembersSaid /\ WorkersSaid
  BY DEF Writer
<1>2. /\ part \in Part /\ PathOK(path) /\ PathOK(base) /\ text \in [Part -> Seq(Items)]
      /\ members \in [Part -> Lists]
  BY <1>1 DEF Typed
<1>3. PICK x : x = Item("set", "server", v)
  OBVIOUS
<1>4. x \in Items /\ x.op = "set"
  BY <1>3, ItemType DEF Directives
<1>5. /\ text' \in [Part -> Seq(Items)] /\ \A p \in Part : p # part => text'[p] = text[p]
      /\ \A p \in Part, w \in Up : Opens(p, w)' <=> Opens(p, w)
      /\ phase' = phase /\ part' = part /\ base' = base /\ includes' = includes
  BY <1>2, <1>3, <1>4, AddOpens
<1>6. PathOK(path)' /\ UpOf(path)' = UpOf(path) /\ (InServer(path)' <=> InServer(path))
      /\ PathOK(base)' /\ UpOf(base)' = UpOf(base) /\ (InServer(base)' <=> InServer(base))
      /\ (Whole(base)' <=> Whole(base))
  BY <1>2, <1>5 DEF PathOK, UpOf, InServer, Whole
<1>7. members' \in [Part -> Lists] /\ members'[part][u] # Nothing
      /\ \A p \in Part, w \in Up : ~(p = part /\ w = u) => members'[p][w] = members[p][w]
  <2>1. PICK a, c : a = members[part][u] /\ c = Cat(a, <<v>>)
    OBVIOUS
  <2>2. a \in Seq(Value) \cup {Nothing} /\ members[part] \in Lists
    BY <1>2, <2>1 DEF Lists
  <2>3. c \in Seq(Value) /\ c # Nothing
    <3>1. <<v>> \in Seq(Value) /\ Nothing \notin Seq(Value)
      BY NothingApart
    <3>2. a # Nothing => a \o <<v>> \in Seq(Value)
      BY <2>2, <3>1
    <3> QED BY <2>1, <2>2, <3>1, <3>2, Zenon DEF Cat
  <2>4. members' = [members EXCEPT ![part] = [members[part] EXCEPT ![u] = c]]
    BY <2>1
  <2>5. [members[part] EXCEPT ![u] = c] \in Lists
    BY <2>2, <2>3 DEF Lists
  <2>6. \A p \in Part : members[p] \in Lists
    BY <1>2
  <2> QED BY <1>2, <2>2, <2>3, <2>4, <2>5, <2>6 DEF Lists
<1>8. Typed(q)'
  BY <1>1, <1>5, <1>6, <1>7 DEF Typed
<1>9. Placed(q)'
  <2>1. part = "main" => /\ text'["inc"] = <<>> /\ text'["rest"] = <<>>
                         /\ \A w \in Up : members'["inc"][w] = Nothing /\ members'["rest"][w] = Nothing
    BY <1>1, <1>5, <1>7 DEF Placed, Part
  <2> QED BY <1>1, <1>5, <2>1 DEF Placed
<1>10. ServersSaid(q)'
  BY <1>1, <1>5, <1>6 DEF ServersSaid
<1>11. MembersSaid'
  <2>0. UpOf(base) \in Up \cup {Nothing} /\ u # Nothing
    BY <1>2, NamesType, NothingApart
  <2>1. Opens(part, u) \/ (part # "main" /\ UpOf(base) = u)
    BY <1>1, <2>0 DEF MembersSaid
  <2>2. ASSUME NEW p \in Part, NEW w \in Up
        PROVE  /\ Opens(p, w)' => members'[p][w] # Nothing
               /\ Opens(p, w)' /\ p # "main" => \A r \in Part : r # p => members'[r][w] = Nothing
               /\ members'[p][w] # Nothing => Opens(p, w)' \/ (p # "main" /\ UpOf(base) = w)
    <3>1. /\ \A r \in Part : Opens(r, w) => members[r][w] # Nothing
          /\ Opens(p, w) /\ p # "main" => \A r \in Part : r # p => members[r][w] = Nothing
          /\ members[p][w] # Nothing => Opens(p, w) \/ (p # "main" /\ UpOf(base) = w)
      BY <1>1 DEF MembersSaid
    <3>2. CASE w = u
      (* No other part has opened it, unless the file is included in it. *)
      <4>1. ASSUME Opens(p, u), p # "main" PROVE p = part
        <5>1. ~Opens("main", u)
          BY <3>1, <3>2, <4>1 DEF Part
        <5>2. UpOf(base) # u
          BY <1>1, <2>0, <5>1 DEF MembersSaid
        <5>3. Opens(part, u)
          BY <2>1, <5>2
        <5> QED BY <1>2, <3>1, <3>2, <4>1, <5>3
      <4> QED BY <1>5, <1>7, <2>1, <3>1, <3>2, <4>1
    <3>3. CASE w # u
      BY <1>5, <1>7, <3>1, <3>3
    <3> QED BY <3>2, <3>3
  <2>3. ~Snippets /\ ~Whole(base) => \A w \in Up : members'["inc"][w] = Nothing
    BY <1>1, <1>7 DEF MembersSaid, MayKnow, Part
  <2>4. /\ u # Nothing => Opens(part, u)' \/ (part # "main" /\ UpOf(base) = u)
        /\ UpOf(base) # Nothing => Opens("main", UpOf(base))'
        /\ ~Whole(base) => \A w \in Up : ~Opens("inc", w)'
    BY <1>1, <1>2, <1>5, <2>0, <2>1 DEF MembersSaid, Part
  <2> QED BY <1>5, <1>6, <2>2, <2>3, <2>4 DEF MembersSaid
<1>12. WorkersSaid'
  BY <1>1 DEF WorkersSaid
<1> QED
  BY <1>8, <1>9, <1>10, <1>11, <1>12 DEF Writer

(* and worker_processes, *)
LEMMA WorkersKeep ==
  ASSUME NEW q, Writer(q), NEW v \in Value, \A p \in Part : workers[p] = Nothing, path' = path,
         Add(Item("set", "worker_processes", v)), servers' = servers, members' = members,
         workers' = [workers EXCEPT ![part] = v]
  PROVE  Writer(q)'
<1>1. /\ Typed(q) /\ Placed(q) /\ ServersSaid(q) /\ MembersSaid /\ WorkersSaid
  BY DEF Writer
<1>2. /\ part \in Part /\ PathOK(path) /\ PathOK(base) /\ text \in [Part -> Seq(Items)]
      /\ workers \in [Part -> Value \cup {Nothing}]
  BY <1>1 DEF Typed
<1>3. PICK x : x = Item("set", "worker_processes", v)
  OBVIOUS
<1>4. x \in Items /\ x.op = "set"
  BY <1>3, ItemType DEF Directives
<1>5. /\ text' \in [Part -> Seq(Items)] /\ \A p \in Part : p # part => text'[p] = text[p]
      /\ \A p \in Part, w \in Up : Opens(p, w)' <=> Opens(p, w)
      /\ phase' = phase /\ part' = part /\ base' = base /\ includes' = includes
  BY <1>2, <1>3, <1>4, AddOpens
<1>6. PathOK(path)' /\ UpOf(path)' = UpOf(path) /\ (InServer(path)' <=> InServer(path))
      /\ PathOK(base)' /\ UpOf(base)' = UpOf(base) /\ (InServer(base)' <=> InServer(base))
      /\ (Whole(base)' <=> Whole(base))
  BY <1>2, <1>5 DEF PathOK, UpOf, InServer, Whole
<1>7. workers' \in [Part -> Value \cup {Nothing}] /\ \A p \in Part : p # part => workers'[p] = Nothing
  BY <1>2
<1>8. Typed(q)'
  BY <1>1, <1>5, <1>6, <1>7 DEF Typed
<1>9. Placed(q)'
  <2>1. part = "main" => /\ text'["inc"] = <<>> /\ text'["rest"] = <<>>
                         /\ workers'["inc"] = Nothing /\ workers'["rest"] = Nothing
    BY <1>1, <1>5, <1>7 DEF Placed, Part
  <2> QED BY <1>1, <1>5, <2>1 DEF Placed
<1>10. ServersSaid(q)'
  BY <1>1, <1>5, <1>6 DEF ServersSaid
<1>11. MembersSaid'
  <2>1. UpOf(path) \in Up \cup {Nothing} /\ UpOf(base) \in Up \cup {Nothing}
    BY <1>2, NamesType
  <2> QED BY <1>1, <1>2, <1>5, <1>6, <2>1 DEF MembersSaid, Part
<1>12. WorkersSaid'
  BY <1>7 DEF WorkersSaid
<1> QED
  BY <1>8, <1>9, <1>10, <1>11, <1>12 DEF Writer

(* and the end of a block, *)
LEMMA CloseKeeps ==
  ASSUME NEW q, Writer(q), path # <<>>, part = "inc" => Len(path) > Len(base), path' = Front(path),
         Add(Item("close", Last(path).name, Nothing)),
         servers' = servers, members' = members, workers' = workers
  PROVE  Writer(q)'
<1>1. /\ Typed(q) /\ Placed(q) /\ ServersSaid(q) /\ MembersSaid /\ WorkersSaid
  BY DEF Writer
<1>2. /\ part \in Part /\ PathOK(path) /\ PathOK(base) /\ text \in [Part -> Seq(Items)]
  BY <1>1 DEF Typed
<1>3. PICK x : x = Item("close", Last(path).name, Nothing)
  OBVIOUS
<1>4. x \in Items /\ x.op = "close"
  BY <1>2, <1>3, ItemType, PathCloses
<1>5. /\ text' \in [Part -> Seq(Items)] /\ \A p \in Part : p # part => text'[p] = text[p]
      /\ \A p \in Part, w \in Up : Opens(p, w)' <=> Opens(p, w)
      /\ phase' = phase /\ part' = part /\ base' = base /\ includes' = includes
  BY <1>2, <1>3, <1>4, AddOpens
<1>6. PICK m : m = path'
  OBVIOUS
<1>7. /\ PathOK(m) /\ Len(m) = Len(path) - 1 /\ \A i \in 1 .. Len(path) - 1 : m[i] = path[i]
      /\ UpOf(m) = (IF Last(path).name = "upstream" THEN Nothing ELSE UpOf(path))
      /\ (InServer(m) => InServer(path))
  BY <1>2, <1>6, PathCloses
<1>8. PathOK(path)' /\ UpOf(path)' = UpOf(m) /\ (InServer(path)' <=> InServer(m))
      /\ PathOK(base)' /\ UpOf(base)' = UpOf(base) /\ (InServer(base)' <=> InServer(base))
      /\ (Whole(base)' <=> Whole(base))
  BY <1>2, <1>5, <1>6, <1>7 DEF PathOK, UpOf, InServer, Whole
<1>9. Typed(q)'
  BY <1>1, <1>5, <1>8 DEF Typed
<1>10. Placed(q)'
  <2>1. part = "main" => text'["inc"] = <<>> /\ text'["rest"] = <<>>
    BY <1>1, <1>5 DEF Placed, Part
  <2>2. part = "inc" => Len(base) <= Len(m) /\ \A i \in 1 .. Len(base) : m[i] = base[i]
    <3> SUFFICES ASSUME part = "inc" PROVE Len(base) <= Len(m) /\ \A i \in 1 .. Len(base) : m[i] = base[i]
      OBVIOUS
    <3>1. Len(path) \in Nat /\ Len(base) \in Nat
      BY <1>2, PathParts
    <3>2. \A i \in 1 .. Len(base) : path[i] = base[i]
      BY <1>1 DEF Placed
    <3> QED BY <1>7, <3>1, <3>2
  <2> QED BY <1>1, <1>5, <1>6, <2>1, <2>2 DEF Placed
<1>11. ServersSaid(q)'
  BY <1>1, <1>5, <1>7, <1>8 DEF ServersSaid
<1>12. MembersSaid'
  <2>1. UpOf(path) \in Up \cup {Nothing} /\ UpOf(base) \in Up \cup {Nothing}
    BY <1>2, NamesType
  <2> QED BY <1>1, <1>2, <1>5, <1>7, <1>8, <2>1 DEF MembersSaid, Part
<1>13. WorkersSaid'
  BY <1>1 DEF WorkersSaid
<1> QED
  BY <1>9, <1>10, <1>11, <1>12, <1>13 DEF Writer

(* and an include, *)
LEMMA IncludeKeeps ==
  ASSUME NEW q, Writer(q), Include
  PROVE  Writer(q)'
<1>1. /\ Typed(q) /\ Placed(q) /\ ServersSaid(q) /\ MembersSaid /\ WorkersSaid
  BY DEF Writer
<1>2. /\ part \in Part /\ PathOK(path) /\ PathOK(base) /\ text \in [Part -> Seq(Items)]
  BY <1>1 DEF Typed
<1>3. /\ part = "main" /\ part' = "inc" /\ base' = path /\ includes' = 1
      /\ text' = text /\ path' = path /\ servers' = servers /\ members' = members /\ workers' = workers
  BY DEF Include, meaning
<1>4. /\ base = <<>> /\ text["inc"] = <<>> /\ text["rest"] = <<>>
      /\ q["inc"] = <<NewServer>> /\ q["rest"] = <<NewServer>> /\ includes = 0
      /\ \A u \in Up : members["inc"][u] = Nothing /\ members["rest"][u] = Nothing
  BY <1>1, <1>3 DEF Placed
<1>5. /\ PathOK(path)' /\ UpOf(path)' = UpOf(path) /\ (InServer(path)' <=> InServer(path))
      /\ PathOK(base)' /\ UpOf(base)' = UpOf(path) /\ (InServer(base)' <=> InServer(path))
  BY <1>2, <1>3 DEF PathOK, UpOf, InServer
<1>6. /\ \A p \in Part, u \in Up : Opens(p, u)' <=> Opens(p, u)
      /\ \A u \in Up : ~Opens("inc", u) /\ ~Opens("rest", u)
      /\ UpOf(base) = Nothing
  BY <1>3, <1>4 DEF Opens, UpOf
<1>7. Typed(q)'
  BY <1>1, <1>3, <1>5 DEF Typed, Part
<1>8. Placed(q)'
  <2>1. Len(path) \in Nat
    BY <1>2, PathParts
  <2> QED BY <1>3, <2>1 DEF Placed
<1>9. ServersSaid(q)'
  <2>1. Len(q["inc"]) = 1 /\ q["inc"][1] = NewServer /\ q["rest"][1] = NewServer
    BY <1>4
  <2>2. InServer(path) => Len(q["main"]) > 1
    BY <1>1, <1>3 DEF ServersSaid
  <2>3. q = servers
    BY <1>1, <1>4 DEF ServersSaid
  <2> QED BY <1>3, <1>5, <2>1, <2>2, <2>3 DEF ServersSaid
<1>10. MembersSaid'
  <2>0. UpOf(path) \in Up \cup {Nothing} /\ Nothing \notin Up
    BY <1>2, NamesType, NothingApart
  <2>1. UpOf(path) # Nothing => Opens("main", UpOf(path))
    BY <1>1, <1>3 DEF MembersSaid
  <2>2. ASSUME NEW p \in Part, NEW u \in Up
        PROVE  /\ Opens(p, u)' => members'[p][u] # Nothing
               /\ Opens(p, u)' /\ p # "main" => \A r \in Part : r # p => members'[r][u] = Nothing
               /\ members'[p][u] # Nothing => Opens(p, u)'
    BY <1>1, <1>3, <1>6, <2>0 DEF MembersSaid
  <2>3. UpOf(path) # Nothing => Opens("main", UpOf(path))'
    <3>1. UpOf(path)' = UpOf(path)
      BY <1>5
    <3>2. UpOf(path) # Nothing => Opens("main", UpOf(path)') /\ UpOf(path) \in Up
      BY <2>0, <2>1, <3>1
    <3> QED BY <1>5, <1>6, <3>2 DEF Part
  <2>4. \A u \in Up : ~Opens("inc", u)' /\ members'["inc"][u] = Nothing
    BY <1>3, <1>4, <1>6 DEF Part
  <2> QED BY <1>3, <1>5, <2>2, <2>3, <2>4 DEF MembersSaid
<1>11. WorkersSaid'
  BY <1>1, <1>3 DEF WorkersSaid
<1> QED
  BY <1>7, <1>8, <1>9, <1>10, <1>11 DEF Writer

(* and the end of the included file. *)
LEMMA IncludeEndsKeeps ==
  ASSUME NEW q, Writer(q), IncludeEnds
  PROVE  Writer(q)'
<1>1. /\ Typed(q) /\ Placed(q) /\ ServersSaid(q) /\ MembersSaid /\ WorkersSaid
  BY DEF Writer
<1>2. /\ part \in Part /\ PathOK(path) /\ PathOK(base)
  BY <1>1 DEF Typed
<1>3. /\ part = "inc" /\ part' = "rest" /\ path = base /\ base' = base /\ includes' = includes
      /\ text' = text /\ path' = path /\ servers' = servers /\ members' = members /\ workers' = workers
  BY DEF IncludeEnds, meaning
<1>4. /\ PathOK(path)' /\ UpOf(path)' = UpOf(path) /\ (InServer(path)' <=> InServer(path))
      /\ PathOK(base)' /\ UpOf(base)' = UpOf(base) /\ (InServer(base)' <=> InServer(base))
      /\ (Whole(base)' <=> Whole(base))
  BY <1>2, <1>3 DEF PathOK, UpOf, InServer, Whole
<1>5. UpOf(path) = UpOf(base) /\ (InServer(path) <=> InServer(base))
  BY <1>3
<1>6. \A p, u : Opens(p, u)' <=> Opens(p, u)
  BY <1>3 DEF Opens
<1>7. Typed(q)'
  BY <1>1, <1>3, <1>4 DEF Typed, Part
<1>8. Placed(q)'
  BY <1>3 DEF Placed
<1>9. ServersSaid(q)'
  BY <1>1, <1>3, <1>4, <1>5 DEF ServersSaid
<1>10. MembersSaid'
  <2>1. /\ UpOf(base) # Nothing => Opens("main", UpOf(base))
        /\ ~Whole(base) => \A u \in Up : ~Opens("inc", u)
        /\ \A p \in Part, u \in Up :
             /\ Opens(p, u) => members[p][u] # Nothing
             /\ Opens(p, u) /\ p # "main" => \A r \in Part : r # p => members[r][u] = Nothing
             /\ members[p][u] # Nothing => Opens(p, u) \/ (p # "main" /\ UpOf(base) = u)
        /\ ~Snippets /\ ~Whole(base) => \A u \in Up : members["inc"][u] = Nothing
    BY <1>1 DEF MembersSaid
  <2> QED BY <1>3, <1>4, <1>5, <1>6, <2>1 DEF MembersSaid
<1>11. WorkersSaid'
  BY <1>1, <1>3 DEF WorkersSaid
<1> QED
  BY <1>7, <1>8, <1>9, <1>10, <1>11 DEF Writer

(* Nothing new said of a server changes nothing. *)
LEMMA JoinedSaid ==
  ASSUME NEW x \in Said, NEW y \in Said
  PROVE  Joined(x, y) \in Said /\ Joined(x, NewServer) = x
<1>1. PICK a, b, c, d : a = x.Names /\ b = x.Listens /\ c = y.Names /\ d = y.Listens
  OBVIOUS
<1>2. a \in Seq(Value) /\ b \in Seq(Value) /\ c \in Seq(Value) /\ d \in Seq(Value)
  BY <1>1 DEF Said
<1>3. a \o c \in Seq(Value) /\ b \o d \in Seq(Value) /\ a \o <<>> = a /\ b \o <<>> = b
  BY <1>2
<1>4. /\ Joined(x, y) = [Names |-> a \o c, Listens |-> b \o d,
                          Pass |-> IF x.Pass = Nothing THEN y.Pass ELSE x.Pass]
      /\ Joined(x, NewServer) = [Names |-> a \o <<>>, Listens |-> b \o <<>>,
                          Pass |-> IF x.Pass = Nothing THEN Nothing ELSE x.Pass]
  BY <1>1 DEF Joined, NewServer
<1>5. x.Pass \in Value \cup {Nothing} /\ y.Pass \in Value \cup {Nothing}
  BY DEF Said
<1>6. x = [Names |-> a, Listens |-> b, Pass |-> x.Pass]
  BY <1>1 DEF Said
<1> QED
  BY <1>3, <1>4, <1>5, <1>6 DEF Said

(* Including the file again keeps it: what it adds to the server is not    *)
(* written, so the servers read differ from the servers meant.             *)
LEMMA IncludeAgainKeeps ==
  ASSUME NEW q, Writer(q), IncludeAgain
  PROVE  Writer(q)'
<1>1. /\ Typed(q) /\ Placed(q) /\ ServersSaid(q) /\ MembersSaid /\ WorkersSaid
  BY DEF Writer
<1>2. /\ part \in Part /\ PathOK(path) /\ PathOK(base)
      /\ q \in [Part -> Seq(Said)] /\ servers \in [Part -> Seq(Said)]
      /\ \A p \in Part : Len(q[p]) > 0 /\ Len(servers[p]) = Len(q[p])
  BY <1>1 DEF Typed
<1>3. /\ part = "rest" /\ part' = "rest" /\ includes' = 2 /\ base' = base
      /\ text' = text /\ path' = path /\ members' = members /\ workers' = workers
      /\ servers' = [servers EXCEPT !["rest"][Len(servers["rest"])] = Joined(@, servers["inc"][1])]
  BY DEF IncludeAgain
<1>4. /\ PathOK(path)' /\ UpOf(path)' = UpOf(path) /\ (InServer(path)' <=> InServer(path))
      /\ PathOK(base)' /\ UpOf(base)' = UpOf(base) /\ (InServer(base)' <=> InServer(base))
      /\ (Whole(base)' <=> Whole(base))
  BY <1>2, <1>3 DEF PathOK, UpOf, InServer, Whole
<1>5. \A p, u : Opens(p, u)' <=> Opens(p, u)
  BY <1>3 DEF Opens
<1>6. PICK y, e, z, i : /\ y = servers["rest"] /\ i = servers["inc"][1] /\ e = Joined(y[Len(y)], i)
                        /\ z = [y EXCEPT ![Len(y)] = e]
  OBVIOUS
<1>7. y \in Seq(Said) /\ Len(y) \in 1 .. Len(y) /\ y[Len(y)] \in Said /\ i \in Said
  <2>1. y \in Seq(Said) /\ Len(y) > 0 /\ servers["inc"] \in Seq(Said) /\ Len(servers["inc"]) > 0
    BY <1>2, <1>6 DEF Part
  <2>2. Len(y) \in 1 .. Len(y) /\ y[Len(y)] \in Said
    BY <2>1
  <2>3. servers["inc"][1] \in Said
    BY <2>1
  <2> QED BY <1>6, <2>1, <2>2, <2>3
<1>8. z \in Seq(Said) /\ Len(z) = Len(y) /\ (i = NewServer => z = y)
  <2>1. e \in Said /\ (i = NewServer => e = y[Len(y)])
    BY <1>6, <1>7, JoinedSaid
  <2>2. z \in Seq(Said) /\ Len(z) = Len(y)
    BY <1>6, <1>7, <2>1, ExceptSeq
  <2>3. i = NewServer => z = y
    BY <1>6, <1>7, <2>1
  <2> QED BY <2>2, <2>3
<1>9. servers' = [servers EXCEPT !["rest"] = z]
  BY <1>3, <1>6
<1>10. /\ servers' \in [Part -> Seq(Said)] /\ \A p \in Part : Len(servers'[p]) = Len(servers[p])
       /\ i = NewServer => servers' = servers
  <2>1. "rest" \in Part
    BY DEF Part
  <2> HIDE DEF Said, Part
  <2> QED BY <1>2, <1>6, <1>8, <1>9, <2>1
<1>11. Typed(q)'
  <2>1. \A p \in Part : Len(servers'[p]) = Len(q[p])
    BY <1>2, <1>10
  <2> QED BY <1>1, <1>3, <1>4, <1>10, <2>1 DEF Typed
<1>12. Placed(q)'
  BY <1>3 DEF Placed
<1>13. ServersSaid(q)'
  <2>1. ~Snippets => q = servers /\ q["inc"][1] = NewServer
    <3>1. InServer(base) => ~Whole(base)
      BY <1>2, WholeServer
    <3> QED BY <1>1, <3>1 DEF ServersSaid
  <2>2. q = servers' \/ (Snippets /\ includes' = 2)
    BY <1>3, <1>6, <1>10, <2>1
  <2> QED BY <1>1, <1>3, <1>4, <2>2 DEF ServersSaid
<1>14. MembersSaid'
  <2>1. /\ UpOf(path) # Nothing => Opens("rest", UpOf(path)) \/ UpOf(base) = UpOf(path)
        /\ UpOf(base) # Nothing => Opens("main", UpOf(base))
        /\ ~Whole(base) => \A u \in Up : ~Opens("inc", u)
        /\ \A p \in Part, u \in Up :
             /\ Opens(p, u) => members[p][u] # Nothing
             /\ Opens(p, u) /\ p # "main" => \A r \in Part : r # p => members[r][u] = Nothing
             /\ members[p][u] # Nothing => Opens(p, u) \/ (p # "main" /\ UpOf(base) = u)
        /\ ~Snippets /\ ~Whole(base) => \A u \in Up : members["inc"][u] = Nothing
    BY <1>1, <1>3 DEF MembersSaid
  <2> QED BY <1>3, <1>4, <1>5, <2>1 DEF MembersSaid
<1>15. WorkersSaid'
  BY <1>1, <1>3 DEF WorkersSaid
<1> QED
  BY <1>11, <1>12, <1>13, <1>14, <1>15 DEF Writer

-----------------------------------------------------------------------------
(* What Parse makes of a part, wherever it comes in the text.              *)

(* The blocks open in the part that is written, beyond those where it is   *)
(* included.                                                               *)
Above == [i \in 1 .. Len(path) - Len(base) |-> path[Len(base) + i].name]

(* Where Parse may be when it comes to part p. *)
From(p, s) ==
  /\ Good(s) /\ s = State(s.stack, s.up, s.ups, s.all, s.w)
  /\ p = "main" => s.stack = <<>>
  /\ p = "rest" => s.stack = NamesOf(base) /\ s.up = UpOf(base)
  /\ p = "inc"  => s.stack = <<>> \/ (s.stack = NamesOf(base) /\ s.up = UpOf(base))

EndStack(p, s) ==
  IF p = part THEN IF p = "inc" THEN s.stack \o Above ELSE NamesOf(path)
  ELSE IF p = "main" THEN NamesOf(base) ELSE s.stack
EndUp(p, s) ==
  IF p = part THEN IF p = "inc" /\ ~Whole(base) THEN s.up ELSE UpOf(path)
  ELSE IF p = "main" THEN UpOf(base) ELSE s.up
EndUps(p, s) ==
  [u \in Up |-> IF Opens(p, u) THEN members[p][u]
                ELSE IF s.up = u THEN Cat(s.ups[u], members[p][u]) ELSE s.ups[u]]
EndAll(q, p, f, s) == Ext(s.all, InBlock(s.stack, "server"), q[p], f)
EndW(p, s) == IF workers[p] = Nothing THEN s.w ELSE workers[p]

Read(q, p, f, s) == State(EndStack(p, s), EndUp(p, s), EndUps(p, s), EndAll(q, p, f, s), EndW(p, s))
Reads(q) ==
  \A p \in Part, f \in File : \A s : From(p, s) => Leads(s, Marked(text[p], f), Read(q, p, f, s))

(* Where Parse may be when it comes to a part. *)
LEMMA FromUp ==
  ASSUME NEW p \in Part, NEW s, From(p, s)
  PROVE  /\ Good(s) /\ s.stack \in Seq(Blocks) /\ s.all \in Seq(ServerBlock)
         /\ s.stack = <<>> => s.up = Nothing /\ ~InBlock(s.stack, "server")
         /\ p # "main" => s.stack = <<>> \/ (s.stack = NamesOf(base) /\ s.up = UpOf(base))
<1>1. s.stack = <<>> => \A y : ~InBlock(s.stack, y)
  BY DEF InBlock
<1> QED
  BY <1>1 DEF From, Good, Part

(* The stack at the end of the part that is written. *)
LEMMA AboveType ==
  ASSUME PathOK(path), PathOK(base), Len(base) <= Len(path), \A i \in 1 .. Len(base) : path[i] = base[i]
  PROVE  /\ Above \in Seq(Blocks) /\ Len(Above) = Len(path) - Len(base)
         /\ NamesOf(path) = NamesOf(base) \o Above
         /\ \A i \in 1 .. Len(Above) : Above[i] = path[Len(base) + i].name
         /\ Len(Above) > 0 => Above # <<>> /\ Last(Above) = Last(path).name
<1>1. PICK a, b, x : a = Len(path) /\ b = Len(base) /\ x = Above
  OBVIOUS
<1>2. a \in Nat /\ b \in Nat /\ b <= a
  BY <1>1, PathParts
<1>3. PICK y, z : y = NamesOf(path) /\ z = NamesOf(base)
  OBVIOUS
<1>4. /\ y \in Seq(Blocks) /\ Len(y) = a /\ \A i \in 1 .. a : y[i] = path[i].name
      /\ z \in Seq(Blocks) /\ Len(z) = b /\ \A i \in 1 .. b : z[i] = base[i].name
  <2>1. y \in Seq(Blocks) /\ Len(y) = a /\ z \in Seq(Blocks) /\ Len(z) = b
    BY <1>1, <1>3, NamesType
  <2> QED BY <1>1, <1>3, <2>1 DEF NamesOf
<1>5. /\ x \in Seq(Blocks) /\ Len(x) = a - b /\ \A i \in 1 .. a - b : x[i] = path[b + i].name
  <2>1. x = [i \in 1 .. a - b |-> path[b + i].name]
    BY <1>1 DEF Above
  <2>2. ASSUME NEW i \in 1 .. a - b PROVE path[b + i].name \in Blocks
    <3>1. b + i \in 1 .. a
      BY <1>2
    <3>2. y[b + i] \in Blocks
      BY <1>4, <3>1
    <3> QED BY <1>4, <3>1, <3>2
  <2>3. a - b \in Nat
    BY <1>2
  <2> HIDE DEF Blocks
  <2> QED BY <2>1, <2>2, <2>3
<1>6. y = z \o x
  <2>1. PICK w : w = z \o x
    OBVIOUS
  <2>2. /\ w \in Seq(Blocks) /\ Len(w) = Len(z) + Len(x)
        /\ \A k \in 1 .. Len(z) : w[k] = z[k]
        /\ \A k \in 1 .. Len(x) : w[Len(z) + k] = x[k]
    <3>1. z \in Seq(Blocks) /\ x \in Seq(Blocks)
      BY <1>4, <1>5
    <3> QED BY <2>1, <3>1, Concatenated
  <2>3. Len(w) = Len(y)
    BY <1>2, <1>4, <1>5, <2>2
  <2>4. ASSUME NEW k \in 1 .. Len(y) PROVE y[k] = w[k]
    <3>1. CASE k <= b
      <4>1. k \in 1 .. b /\ k \in 1 .. a
        BY <1>2, <1>4, <3>1
      <4> QED BY <1>1, <1>4, <2>2, <4>1
    <3>2. CASE ~(k <= b)
      <4>1. k - b \in 1 .. a - b /\ k = b + (k - b) /\ k \in 1 .. a
        BY <1>2, <1>4, <3>2
      <4>2. PICK j \in 1 .. a - b : k = b + j
        BY <4>1
      <4> QED BY <1>4, <1>5, <2>2, <4>1, <4>2
    <3> QED BY <3>1, <3>2
  <2> QED BY <1>4, <2>1, <2>2, <2>3, <2>4, SeqEqual
<1>7. Len(x) > 0 => x # <<>> /\ Last(x) = Last(path).name
  <2> SUFFICES ASSUME Len(x) > 0 PROVE x # <<>> /\ Last(x) = Last(path).name
    OBVIOUS
  <2>1. a - b \in 1 .. a - b /\ b + (a - b) = a
    BY <1>2, <1>5
  <2>2. x[a - b] = path[a].name
    BY <1>5, <2>1
  <2>3. x # <<>>
    BY <1>5
  <2> QED BY <1>1, <1>5, <2>2, <2>3 DEF Last
<1> QED
  BY <1>1, <1>3, <1>5, <1>6, <1>7

(* Opening a block puts it on the stack, wherever the part is read. *)
LEMMA StackOpens ==
  ASSUME NEW q, Writer(q), NEW s, From(part, s), NEW b \in Blocks, NEW u \in Up \cup {Nothing}, MayOpen(b, u),
         path' = Append(path, Item("open", b, u)), part' = part, base' = base
  PROVE  EndStack(part, s)' = Append(EndStack(part, s), b)
<1>1. PathOK(path) /\ PathOK(base) /\ part \in Part
      /\ (part = "inc" => Len(base) <= Len(path) /\ \A i \in 1 .. Len(base) : path[i] = base[i])
  BY DEF Writer, Typed, Placed
<1>2. PICK m : m = path'
  OBVIOUS
<1>3. m = Append(path, Item("open", b, u))
  BY <1>2
<1>4. /\ PathOK(m) /\ Len(m) = Len(path) + 1 /\ \A i \in 1 .. Len(path) : m[i] = path[i]
      /\ m[Len(path) + 1].name = b /\ NamesOf(m) = Append(NamesOf(path), b)
  BY <1>1, <1>3, PathOpens
<1>5. CASE part # "inc"
  <2>1. NamesOf(path)' = NamesOf(m)
    BY <1>2 DEF NamesOf
  <2> QED BY <1>4, <1>5, <2>1 DEF EndStack
<1>6. CASE part = "inc"
  <2>1. PICK x, y, z : x = Above /\ y = Above' /\ z = s.stack
    OBVIOUS
  <2>2. PICK k, l : k = Len(path) /\ l = Len(base)
    OBVIOUS
  <2>3. k \in Nat /\ l \in Nat /\ l <= k
    BY <1>1, <1>6, <2>2, PathParts
  <2>4. /\ x \in Seq(Blocks) /\ Len(x) = k - l /\ \A i \in 1 .. k - l : x[i] = path[l + i].name
    BY <1>1, <1>6, <2>1, <2>2, AboveType
  <2>5. y = [i \in 1 .. (k + 1) - l |-> m[l + i].name]
    BY <1>2, <1>4, <2>1, <2>2 DEF Above
  <2>6. y = Append(x, b)
    <3>1. PICK w : w = Append(x, b)
      OBVIOUS
    <3>2. x \in Seq(Blocks)
      BY <2>4
    <3>3. /\ w \in Seq(Blocks) /\ Len(w) = Len(x) + 1 /\ w[Len(x) + 1] = b
          /\ \A i \in 1 .. Len(x) : w[i] = x[i]
      BY <3>1, <3>2
    <3>4. Len(w) = (k + 1) - l
      BY <2>3, <2>4, <3>3
    <3>5. ASSUME NEW i \in 1 .. (k + 1) - l PROVE m[l + i].name = w[i]
      <4>1. CASE i <= k - l
        <5>1. i \in 1 .. k - l /\ l + i \in 1 .. k
          BY <2>3, <4>1
        <5> QED BY <1>4, <2>2, <2>4, <3>3, <5>1
      <4>2. CASE ~(i <= k - l)
        <5>1. i = (k - l) + 1 /\ l + i = k + 1
          BY <2>3, <4>2
        <5> QED BY <1>4, <2>2, <2>4, <3>3, <5>1
      <4> QED BY <4>1, <4>2
    <3>6. w = [i \in 1 .. Len(w) |-> w[i]]
      <4>1. \A v \in Seq(Blocks) : v = [i \in 1 .. Len(v) |-> v[i]]
        OBVIOUS
      <4> QED BY <3>3, <4>1
    <3>7. w = [i \in 1 .. (k + 1) - l |-> w[i]]
      BY <3>4, <3>6
    <3> QED BY <2>5, <3>1, <3>5, <3>7
  <2>7. z \in Seq(Blocks)
    BY <1>1, <2>1, FromUp
  <2>8. z \o Append(x, b) = Append(z \o x, b)
    <3>1. x \in Seq(Blocks)
      BY <2>4
    <3> QED BY <2>7, <3>1
  <2>9. EndStack(part, s)' = z \o y /\ EndStack(part, s) = z \o x
    BY <1>6, <2>1 DEF EndStack
  <2> QED BY <2>6, <2>8, <2>9
<1> QED BY <1>5, <1>6

(* The front and the last item of two sequences are those of the second. *)
LEMMA FrontOfConcat ==
  ASSUME NEW T, NEW x \in Seq(T), NEW y \in Seq(T), y # <<>>
  PROVE  Front(x \o y) = x \o Front(y) /\ x \o y # <<>> /\ Last(x \o y) = Last(y)
<1>1. PICK a, b, z, w : a = Len(x) /\ b = Len(y) /\ z = Front(y) /\ w = x \o y
  OBVIOUS
<1>2. a \in Nat /\ b \in Nat /\ b > 0
  BY <1>1
<1>3. z \in Seq(T) /\ Len(z) = b - 1 /\ \A i \in 1 .. b - 1 : z[i] = y[i]
  BY <1>1, FrontOf
<1>4. /\ w \in Seq(T) /\ Len(w) = a + b
      /\ \A k \in 1 .. a : w[k] = x[k]
      /\ \A k \in 1 .. b : w[a + k] = y[k]
  BY <1>1, Concatenated
<1>5. w # <<>>
  BY <1>2, <1>4
<1>6. Front(w) \in Seq(T) /\ Len(Front(w)) = a + b - 1 /\ \A i \in 1 .. a + b - 1 : Front(w)[i] = w[i]
  <2>1. w \in Seq(T)
    BY <1>4
  <2>2. Front(w) \in Seq(T) /\ Len(Front(w)) = Len(w) - 1 /\ \A i \in 1 .. Len(w) - 1 : Front(w)[i] = w[i]
    BY <1>5, <2>1, FrontOf
  <2>3. Len(w) - 1 = a + b - 1
    BY <1>2, <1>4
  <2> QED BY <2>2, <2>3, Zenon
<1>7. /\ x \o z \in Seq(T) /\ Len(x \o z) = a + (b - 1)
      /\ \A k \in 1 .. a : (x \o z)[k] = x[k]
      /\ \A k \in 1 .. b - 1 : (x \o z)[a + k] = z[k]
  <2>1. x \in Seq(T) /\ z \in Seq(T)
    BY <1>3
  <2>2. /\ x \o z \in Seq(T) /\ Len(x \o z) = Len(x) + Len(z)
        /\ \A k \in 1 .. Len(x) : (x \o z)[k] = x[k]
        /\ \A k \in 1 .. Len(z) : (x \o z)[Len(x) + k] = z[k]
    BY <2>1, Concatenated
  <2> QED BY <1>1, <1>3, <2>2
<1>8. Front(w) = x \o z
  <2>1. PICK c, d : c = Front(w) /\ d = x \o z
    OBVIOUS
  <2>2. c \in Seq(T) /\ d \in Seq(T) /\ Len(c) = Len(d) /\ Len(c) = a + b - 1
    BY <1>2, <1>6, <1>7, <2>1
  <2>3. ASSUME NEW k \in 1 .. Len(c) PROVE c[k] = d[k]
    <3>1. CASE k <= a
      <4>1. k \in 1 .. a /\ k \in 1 .. a + b - 1
        BY <1>2, <2>2, <3>1
      <4> QED BY <1>4, <1>6, <1>7, <2>1, <4>1
    <3>2. CASE ~(k <= a)
      <4>1. k - a \in 1 .. b - 1 /\ k = a + (k - a) /\ k \in 1 .. a + b - 1
        BY <1>2, <2>2, <3>2
      <4>2. PICK j \in 1 .. b - 1 : k = a + j
        BY <4>1
      <4>3. j \in 1 .. b
        BY <1>2
      <4> QED BY <1>3, <1>4, <1>6, <1>7, <2>1, <4>1, <4>2, <4>3
    <3> QED BY <3>1, <3>2
  <2>4. c = d
    BY <2>2, <2>3, SeqEqual
  <2> QED BY <2>1, <2>4
<1>9. Last(w) = Last(y)
  <2>1. b \in 1 .. b
    BY <1>2
  <2>2. w[a + b] = y[b]
    BY <1>4, <2>1
  <2> QED BY <1>1, <1>4, <2>2 DEF Last
<1> QED
  BY <1>1, <1>5, <1>8, <1>9

(* Closing a block takes it from the stack, wherever the part is read. *)
LEMMA StackCloses ==
  ASSUME NEW q, Writer(q), NEW s, From(part, s), path # <<>>, part = "inc" => Len(path) > Len(base),
         path' = Front(path), part' = part, base' = base
  PROVE  /\ EndStack(part, s)' = Front(EndStack(part, s)) /\ EndStack(part, s) # <<>>
         /\ Last(EndStack(part, s)) = Last(path).name
<1>1. PathOK(path) /\ PathOK(base) /\ part \in Part
      /\ (part = "inc" => Len(base) <= Len(path) /\ \A i \in 1 .. Len(base) : path[i] = base[i])
  BY DEF Writer, Typed, Placed
<1>2. PICK m : m = path'
  OBVIOUS
<1>3. m = Front(path)
  BY <1>2
<1>4. /\ Len(m) = Len(path) - 1 /\ \A i \in 1 .. Len(path) - 1 : m[i] = path[i]
      /\ NamesOf(m) = Front(NamesOf(path)) /\ Last(NamesOf(path)) = Last(path).name
      /\ NamesOf(path) # <<>>
  BY <1>1, <1>3, PathCloses
<1>5. CASE part # "inc"
  <2>1. NamesOf(path)' = NamesOf(m)
    BY <1>2 DEF NamesOf
  <2> QED BY <1>4, <1>5, <2>1 DEF EndStack
<1>6. CASE part = "inc"
  <2>1. PICK x, y, z : x = Above /\ y = Above' /\ z = s.stack
    OBVIOUS
  <2>2. PICK k, l : k = Len(path) /\ l = Len(base)
    OBVIOUS
  <2>3. k \in Nat /\ l \in Nat /\ l < k
    BY <1>1, <1>6, <2>2, PathParts
  <2>4. /\ x \in Seq(Blocks) /\ Len(x) = k - l /\ \A i \in 1 .. k - l : x[i] = path[l + i].name
        /\ (Len(x) > 0 => x # <<>> /\ Last(x) = Last(path).name)
    BY <1>1, <1>6, <2>1, <2>2, AboveType
  <2>5. x # <<>> /\ Last(x) = Last(path).name
    BY <2>3, <2>4
  <2>6. y = [i \in 1 .. (k - 1) - l |-> m[l + i].name]
    BY <1>2, <1>4, <2>1, <2>2 DEF Above
  <2>7. y = Front(x)
    <3>1. Front(x) = [i \in 1 .. Len(x) - 1 |-> x[i]]
      BY DEF Front
    <3>2. ASSUME NEW i \in 1 .. (k - 1) - l PROVE m[l + i].name = x[i]
      <4>1. i \in 1 .. k - l /\ l + i \in 1 .. k - 1
        BY <2>3
      <4> QED BY <1>4, <2>2, <2>4, <4>1
    <3>3. Len(x) - 1 = (k - 1) - l
      BY <2>3, <2>4
    <3> QED BY <2>6, <3>1, <3>2, <3>3
  <2>8. z \in Seq(Blocks)
    BY <1>1, <2>1, FromUp
  <2>9. Front(z \o x) = z \o Front(x) /\ z \o x # <<>> /\ Last(z \o x) = Last(x)
    BY <2>4, <2>5, <2>8, FrontOfConcat
  <2>10. EndStack(part, s)' = z \o y /\ EndStack(part, s) = z \o x
    BY <1>6, <2>1 DEF EndStack
  <2> QED BY <2>5, <2>7, <2>9, <2>10
<1> QED BY <1>5, <1>6

(* Which blocks are open at the end of the part that is written. *)
LEMMA StackHas ==
  ASSUME NEW q, Writer(q), NEW s, From(part, s)
  PROVE  /\ Len(path) < 2 => AllHttp(EndStack(part, s))
         /\ InServer(path) => (InBlock(EndStack(part, s), "server")
                                 <=> InBlock(s.stack, "server") \/ Len(q[part]) > 1)
         /\ InBlock(EndStack(part, s), "upstream") => UpOf(path) # Nothing
         /\ InBlock(EndStack(part, s), "server") => InServer(path)
<1>1. PathOK(path) /\ PathOK(base) /\ part \in Part /\ q[part] \in Seq(Said) /\ Len(q[part]) > 0
      /\ (part = "inc" => Len(base) <= Len(path) /\ \A i \in 1 .. Len(base) : path[i] = base[i])
  BY DEF Writer, Typed, Placed
<1>2. /\ InServer(path) => Len(q[part]) > 1 \/ (part # "main" /\ InServer(base))
      /\ ~Whole(base) => Len(q["inc"]) = 1
  BY DEF Writer, ServersSaid
<1>3. PICK y : y = NamesOf(path)
  OBVIOUS
<1>4. /\ y \in Seq(Blocks) /\ Len(y) = Len(path) /\ (InBlock(y, "server") <=> InServer(path))
      /\ (InBlock(y, "upstream") <=> UpOf(path) # Nothing) /\ Rooted(y)
      /\ \A i \in 1 .. Len(path) : y[i] = path[i].name
  <2>1. /\ NamesOf(path) \in Seq(Blocks) /\ Len(NamesOf(path)) = Len(path) /\ Rooted(NamesOf(path))
        /\ (InBlock(NamesOf(path), "server") <=> InServer(path))
        /\ (InBlock(NamesOf(path), "upstream") <=> UpOf(path) # Nothing)
    BY <1>1, NamesType
  <2> QED BY <1>3, <2>1 DEF NamesOf
<1>5. Len(path) < 2 => AllHttp(y)
  <2>1. Len(path) > 0 => path[1].name = "http"
    BY <1>1, PathParts
  <2>2. Len(path) \in Nat
    BY <1>1, PathParts
  <2>3. DOMAIN y = 1 .. Len(path)
    BY <1>4
  <2>4. \A i \in 1 .. Len(path) : Len(path) < 2 => i = 1 /\ Len(path) > 0
    BY <2>2
  <2> QED BY <1>4, <2>1, <2>3, <2>4 DEF AllHttp
<1>6. PICK e : e = EndStack(part, s)
  OBVIOUS
<1>7. CASE part # "inc"
  <2>1. e = y
    BY <1>3, <1>6, <1>7 DEF EndStack
  <2>2. part # "main" => s.stack = NamesOf(base)
    BY <1>1, <1>7 DEF From, Part
  <2>3. InBlock(NamesOf(base), "server") <=> InServer(base)
    BY <1>1, NamesType
  <2> QED BY <1>2, <1>4, <1>5, <1>6, <2>1, <2>2, <2>3
<1>8. CASE part = "inc"
  <2>1. PICK x, z : x = Above /\ z = s.stack
    OBVIOUS
  <2>2. PICK k, l : k = Len(path) /\ l = Len(base)
    OBVIOUS
  <2>3. k \in 0 .. 3 /\ l \in 0 .. 3 /\ l <= k
    BY <1>1, <1>8, <2>2, PathParts
  <2>4. /\ x \in Seq(Blocks) /\ Len(x) = k - l /\ \A i \in 1 .. Len(x) : x[i] = path[l + i].name
        /\ y = NamesOf(base) \o x
    BY <1>1, <1>3, <1>8, <2>1, <2>2, AboveType
  <2>5. e = z \o x /\ z \in Seq(Blocks)
    BY <1>1, <1>6, <1>8, <2>1, FromUp DEF EndStack
  <2>6. z = NamesOf(base) \/ z = <<>>
    BY <1>1, <1>8, <2>1, FromUp
  <2>7. CASE z = NamesOf(base)
    <3>1. e = y
      BY <2>4, <2>5, <2>7
    <3>2. InBlock(NamesOf(base), "server") <=> InServer(base)
      BY <1>1, NamesType
    <3> QED BY <1>2, <1>4, <1>5, <1>6, <1>8, <2>1, <2>7, <3>1, <3>2
  <2>8. CASE z = <<>>
    <3>1. e = x
      <4>1. x \in Seq(Blocks)
        BY <2>4
      <4> QED BY <2>5, <2>8, <4>1
    <3>2. \A i \in DOMAIN x : l + i \in 1 .. k /\ x[i] = y[l + i]
      <4>1. DOMAIN x = 1 .. (k - l) /\ Len(x) = k - l
        BY <2>4
      <4>2. \A i \in 1 .. k - l : l + i \in 1 .. k
        BY <2>3
      <4> QED BY <1>4, <2>2, <2>4, <4>1, <4>2
    <3>3. \A b : InBlock(x, b) => InBlock(y, b)
      <4>1. DOMAIN y = 1 .. k
        BY <1>4, <2>2
      <4> QED BY <3>2, <4>1 DEF InBlock
    <3>4. AllHttp(y) => AllHttp(x)
      <4>1. DOMAIN y = 1 .. k
        BY <1>4, <2>2
      <4> QED BY <3>2, <4>1 DEF AllHttp
    <3>5. ~InBlock(s.stack, "server")
      BY <2>1, <2>8 DEF InBlock
    <3>6. ASSUME InServer(path) PROVE InBlock(x, "server") <=> Len(q[part]) > 1
      <4>1. k > 1 /\ path[2].name = "server"
        BY <2>2, <3>6 DEF InServer
      <4>2. CASE l < 2
        <5>1. ~InServer(base)
          BY <1>1, <2>2, <4>2, WholeServer
        <5>2. Len(q[part]) > 1
          BY <1>2, <3>6, <5>1
        <5>3. 2 - l \in 1 .. k - l /\ l + (2 - l) = 2
          BY <2>3, <4>1, <4>2
        <5>4. PICK j \in 1 .. k - l : l + j = 2
          BY <5>3
        <5>5. x[j] = "server" /\ j \in DOMAIN x
          BY <2>4, <4>1, <5>4
        <5> QED BY <5>2, <5>5 DEF InBlock
      <4>3. CASE ~(l < 2)
        <5>1. ~Whole(base)
          BY <1>1, <2>2, <4>3, WholeServer
        <5>2. Len(q[part]) = 1
          BY <1>2, <1>8, <5>1
        <5>3. ~InBlock(x, "server")
          <6>1. ASSUME NEW i \in DOMAIN x PROVE x[i] # "server"
            <7>1. l + i = 3 /\ i \in 1 .. Len(x)
              <8>1. i \in 1 .. (k - l)
                BY <2>4
              <8> QED BY <2>3, <2>4, <4>3, <8>1
            <7>2. x[i] = path[3].name /\ k > 2
              <8>1. x[i] = path[l + i].name
                BY <2>4, <7>1
              <8>2. l + i \in 1 .. k
                BY <3>2
              <8> QED BY <2>3, <7>1, <8>1, <8>2
            <7>3. path[3].name = "location"
              BY <1>1, <2>2, <7>2, PathParts
            <7> QED BY <7>2, <7>3
          <6> QED BY <6>1 DEF InBlock
        <5> QED BY <5>2, <5>3
      <4> QED BY <4>2, <4>3
    <3>7. e = EndStack(part, s)
      BY <1>6
    <3> QED BY <1>4, <1>5, <3>1, <3>3, <3>4, <3>5, <3>6, <3>7
  <2> QED BY <2>6, <2>7, <2>8
<1> QED BY <1>7, <1>8

(* Another item of the part that is written: what the other parts say      *)
(* stays, and Parse makes of the item what this part says then.            *)
OthersStay(q, n) ==
  \A p \in Part : p # part =>
    n[p] = q[p] /\ members'[p] = members[p] /\ workers'[p] = workers[p]
TakenAs(q, n, x) ==
  \A f \in File : \A s : From(part, s) /\ Good(Read(q, part, f, s)) =>
    /\ Legal(Read(q, part, f, s), Word(x, f))
    /\ Step(Read(q, part, f, s), Word(x, f)) = Read(n, part, f, s)'

(* An item more: the other parts are read as before, and this one is read  *)
(* with it.                                                                *)
LEMMA AddReads ==
  ASSUME NEW q, Writer(q), Reads(q), NEW x \in Items, Add(x), NEW n,
         OthersStay(q, n), TakenAs(q, n, x)
  PROVE  Reads(n)'
<1>1. /\ part \in Part /\ text \in [Part -> Seq(Items)]
  BY DEF Writer, Typed
<1>2. /\ text'[part] = Append(text[part], x) /\ part' = part /\ base' = base
      /\ \A p \in Part : p # part => text'[p] = text[p]
      /\ \A p \in Part, u \in Up : p # part => (Opens(p, u)' <=> Opens(p, u))
  BY <1>1, AddOpens
<1>3. /\ NamesOf(base)' = NamesOf(base) /\ UpOf(base)' = UpOf(base)
  BY <1>2 DEF NamesOf, UpOf
<1> SUFFICES ASSUME NEW p \in Part, NEW f \in File, NEW s, From(p, s)'
             PROVE  Leads(s, Marked(text'[p], f), Read(n, p, f, s)')
  BY DEF Reads
<1>4. From(p, s)
  BY <1>3 DEF From
<1>5. Leads(s, Marked(text[p], f), Read(q, p, f, s))
  BY <1>4 DEF Reads
<1>6. CASE p # part
  <2>1. Read(n, p, f, s)' = Read(q, p, f, s)
    <3>1. EndStack(p, s)' = EndStack(p, s) /\ EndUp(p, s)' = EndUp(p, s)
      BY <1>2, <1>3, <1>6 DEF EndStack, EndUp
    <3>2. EndUps(p, s)' = EndUps(p, s)
      BY <1>2, <1>6 DEF EndUps, OthersStay
    <3>3. EndAll(n, p, f, s)' = EndAll(q, p, f, s) /\ EndW(p, s)' = EndW(p, s)
      BY <1>6 DEF EndAll, EndW, OthersStay
    <3> QED BY <3>1, <3>2, <3>3 DEF Read
  <2> QED BY <1>2, <1>5, <1>6, <2>1
<1>7. CASE p = part
  <2>1. PICK m, y, z : m = Read(q, part, f, s) /\ y = Marked(text[part], f) /\ z = Word(x, f)
    OBVIOUS
  <2>2. /\ y \in Seq(Tokens) /\ z \in Tokens
        /\ Marked(text'[part], f) = Append(y, z)
    <3>1. text[part] \in Seq(Items)
      BY <1>1
    <3> QED BY <1>2, <2>1, <3>1, MarkedAppend
  <2>3. Leads(s, y, m)
    BY <1>5, <1>7, <2>1
  <2>4. Good(m)
    BY <2>2, <2>3, LeadsGood
  <2>5. Legal(m, z) /\ Step(m, z) = Read(n, part, f, s)'
    BY <1>4, <1>7, <2>1, <2>4 DEF TakenAs
  <2>6. Leads(s, Append(y, z), Step(m, z))
    BY <2>2, <2>3, <2>5, OneMore
  <2> QED BY <1>2, <1>7, <2>2, <2>5, <2>6
<1> QED BY <1>6, <1>7

-----------------------------------------------------------------------------
(* Each item that nginx accepts is one that Parse can take, and it makes of *)
(* it what was meant.                                                       *)

(* The fields of a state after a part. *)
LEMMA ReadFields ==
  ASSUME NEW q, NEW p, NEW f, NEW s
  PROVE  LET m == Read(q, p, f, s) IN
         /\ m.stack = EndStack(p, s) /\ m.up = EndUp(p, s) /\ m.ups = EndUps(p, s)
         /\ m.all = EndAll(q, p, f, s) /\ m.w = EndW(p, s)
BY DEF Read, State

(* Parse opens the block that was opened. *)
LEMMA OpenReads ==
  ASSUME NEW q, Writer(q), Reads(q), NEW b \in Blocks, NEW u \in Up \cup {Nothing}, MayOpen(b, u),
         path' = Append(path, Item("open", b, u)), Add(Item("open", b, u)),
         members' = IF b = "upstream" THEN [members EXCEPT ![part][u] = <<>>] ELSE members,
         workers' = workers, MayKnow,
         NEW n, n = IF b = "server" THEN [q EXCEPT ![part] = Append(@, NewServer)] ELSE q
  PROVE  Reads(n)'
<1>1. PICK x : x = Item("open", b, u)
  OBVIOUS
<1>2. /\ x \in Items
      /\ \A f : Word(x, f).op = "open" /\ Word(x, f).name = b /\ Word(x, f).arg = u /\ Word(x, f).file = f
  BY <1>1, ItemType
<1>3. /\ part \in Part /\ PathOK(path) /\ PathOK(base) /\ text \in [Part -> Seq(Items)]
      /\ q \in [Part -> Seq(Said)] /\ members \in [Part -> Lists] /\ \A p \in Part : Len(q[p]) > 0
      /\ (part = "inc" => Len(base) <= Len(path))
  BY DEF Writer, Typed, Placed
<1>4. /\ \A p \in Part, v \in Up : Opens(p, v)' <=> Opens(p, v) \/ (p = part /\ b = "upstream" /\ u = v)
      /\ part' = part /\ base' = base
  <2>1. Add(x)
    BY <1>1
  <2>2. x.op = "open" /\ x.name = b /\ x.arg = u
    BY <1>1, ItemType
  <2> QED BY <1>2, <1>3, <2>1, <2>2, AddOpens
<1>5. PICK m : m = path'
  OBVIOUS
<1>6. /\ UpOf(m) = (IF b = "upstream" THEN u ELSE UpOf(path))
      /\ (b \in {"server", "upstream"} => Len(path) = 1)
      /\ (b = "upstream" => u \in Up /\ \A p \in Part : members[p][u] = Nothing)
  <2>1. m = Append(path, Item("open", b, u)) /\ PathOK(path)
    BY <1>3, <1>5
  <2> QED BY <2>1, PathOpens
<1>7. b = "upstream" /\ part = "inc" => Whole(base)
  <2> SUFFICES ASSUME b = "upstream", part = "inc" PROVE Whole(base)
    OBVIOUS
  <2>1. Len(base) < 2
    <3>1. Len(base) \in 0 .. 3 /\ Len(base) <= 1
      BY <1>3, <1>6, PathParts
    <3> QED BY <3>1
  <2> QED BY <1>3, <2>1, WholeServer
<1>8. UpOf(path)' = UpOf(m) /\ UpOf(base)' = UpOf(base) /\ (Whole(base)' <=> Whole(base))
  BY <1>4, <1>5 DEF UpOf, Whole
<1>9. ASSUME NEW p \in Part, p # part
      PROVE  n[p] = q[p] /\ members'[p] = members[p] /\ workers'[p] = workers[p]
  BY <1>3, <1>9
<1>10. ASSUME NEW f \in File, NEW s, From(part, s), Good(Read(q, part, f, s))
       PROVE  /\ Legal(Read(q, part, f, s), Word(x, f))
              /\ Step(Read(q, part, f, s), Word(x, f)) = Read(n, part, f, s)'
  <2>1. PICK r, w : r = Read(q, part, f, s) /\ w = Word(x, f)
    OBVIOUS
  <2>2. /\ r.stack = EndStack(part, s) /\ r.up = EndUp(part, s) /\ r.ups = EndUps(part, s)
        /\ r.all = EndAll(q, part, f, s) /\ r.w = EndW(part, s)
    BY <2>1, ReadFields
  <2>3. w.op = "open" /\ w.name = b /\ w.arg = u /\ w.file = f
    BY <1>2, <2>1
  <2>4. Legal(r, w)
    <3>1. b \in {"server", "upstream"} => AllHttp(r.stack)
      <4>1. Len(path) < 2 => AllHttp(EndStack(part, s))
        BY <1>10, StackHas
      <4>0. \A l : l = 1 => l < 2
        OBVIOUS
      <4>2. b \in {"server", "upstream"} => Len(path) < 2
        BY <1>6, <4>0, Zenon
      <4> QED BY <2>2, <4>1, <4>2
    <3> QED BY <1>6, <2>3, <3>1 DEF Legal
  <2>5. StepStack(r, w) = EndStack(part, s)'
    <3>1. EndStack(part, s)' = Append(EndStack(part, s), b)
      BY <1>4, <1>10, StackOpens
    <3> QED BY <2>2, <2>3, <3>1 DEF StepStack
  <2>6. StepUp(r, w) = EndUp(part, s)'
    BY <1>4, <1>6, <1>7, <1>8, <2>2, <2>3 DEF StepUp, EndUp
  <2>7. StepUps(r, w) = EndUps(part, s)'
    <3>1. CASE b = "upstream"
      <4>1. u \in Up /\ members[part] \in Lists /\ members[part][u] = Nothing
        BY <1>3, <1>6, <3>1
      <4>2. \A v \in Up : members'[part][v] = IF v = u THEN <<>> ELSE members[part][v]
        <5>1. members' = [members EXCEPT ![part] = [members[part] EXCEPT ![u] = <<>>]]
          BY <3>1
        <5>2. members'[part] = [members[part] EXCEPT ![u] = <<>>]
          BY <1>3, <5>1
        <5> QED BY <4>1, <5>2 DEF Lists
      <4>3. EndUps(part, s)' = [v \in Up |-> IF v = u THEN <<>> ELSE EndUps(part, s)[v]]
        BY <1>3, <1>4, <3>1, <4>2 DEF EndUps
      <4>4. StepUps(r, w) = [EndUps(part, s) EXCEPT ![u] = <<>>]
        BY <2>2, <2>3, <3>1 DEF StepUps
      <4>5. EndUps(part, s) = [v \in Up |-> EndUps(part, s)[v]]
        BY DEF EndUps
      <4> HIDE DEF EndUps
      <4> QED BY <4>1, <4>3, <4>4, <4>5
    <3>2. CASE b # "upstream"
      <4>1. EndUps(part, s)' = EndUps(part, s)
        BY <1>3, <1>4, <3>2 DEF EndUps
      <4> QED BY <2>2, <2>3, <3>2, <4>1 DEF StepUps
    <3> QED BY <3>1, <3>2
  <2>8. StepAll(r, w) = EndAll(n, part, f, s)'
    <3>1. PICK in : in = InBlock(s.stack, "server")
      OBVIOUS
    <3>2. in \in BOOLEAN /\ s.all \in Seq(ServerBlock) /\ (in => s.all # <<>>)
      BY <1>10, <3>1 DEF From, Good, InBlock
    <3>3. EndAll(n, part, f, s)' = Ext(s.all, in, n[part], f)
      BY <1>4, <3>1 DEF EndAll
    <3>4. r.all = Ext(s.all, in, q[part], f)
      BY <2>2, <3>1 DEF EndAll
    <3>5. CASE b = "server"
      <4>1. n[part] = Append(q[part], NewServer) /\ q[part] \in Seq(Said) /\ Len(q[part]) > 0
        BY <1>3, <3>5
      <4>2. q[part] # <<>>
        BY <4>1
      <4>3. Ext(s.all, in, Append(q[part], NewServer), f) = Append(Ext(s.all, in, q[part], f), InFile(NewServer, f))
        BY <3>2, <4>1, <4>2, ExtOpens
      <4> QED BY <2>3, <3>3, <3>4, <3>5, <4>1, <4>3 DEF StepAll
    <3>6. CASE b # "server"
      BY <2>3, <3>3, <3>4, <3>6 DEF StepAll
    <3> QED BY <3>5, <3>6
  <2>9. StepW(r, w) = EndW(part, s)'
    BY <1>4, <2>2, <2>3 DEF StepW, EndW
  <2>10. Step(r, w) = State(EndStack(part, s)', EndUp(part, s)', EndUps(part, s)', EndAll(n, part, f, s)', EndW(part, s)')
    BY <2>5, <2>6, <2>7, <2>8, <2>9 DEF Step
  <2> QED BY <2>1, <2>4, <2>10 DEF Read, State
<1>11. Add(x)
  BY <1>1
<1>12. OthersStay(q, n)
  BY <1>9 DEF OthersStay
<1>13. TakenAs(q, n, x)
  BY <1>10 DEF TakenAs
<1> QED BY <1>2, <1>11, <1>12, <1>13, AddReads

(* Parse gives a directive to the server it is written in, if it is read   *)
(* in that server.                                                         *)
LEMMA DirectiveReads ==
  ASSUME NEW q, Writer(q), Reads(q), NEW d \in ServerDirectives, NEW v \in Value,
         InServer(path), path' = path, Add(Item("set", d, v)), members' = members, workers' = workers,
         NEW n, n = [q EXCEPT ![part][Len(q[part])] = Says(@, d, v)]
  PROVE  Reads(n)'
<1>1. PICK x : x = Item("set", d, v)
  OBVIOUS
<1>2. /\ x \in Items /\ d \in Directives /\ d # "server" /\ d # "worker_processes"
      /\ x.op = "set"
      /\ \A f : Word(x, f).op = "set" /\ Word(x, f).name = d /\ Word(x, f).arg = v /\ Word(x, f).file = f
  BY <1>1, ItemType DEF ServerDirectives, Directives
<1>3. /\ part \in Part /\ text \in [Part -> Seq(Items)] /\ q \in [Part -> Seq(Said)]
      /\ \A p \in Part : Len(q[p]) > 0
  BY DEF Writer, Typed
<1>4. Add(x)
  BY <1>1
<1>5. /\ \A p \in Part, y \in Up : Opens(p, y)' <=> Opens(p, y)
      /\ part' = part /\ base' = base
  BY <1>2, <1>3, <1>4, AddOpens
<1>6. PICK l, y, z : l = q[part] /\ y = Says(l[Len(l)], d, v) /\ z = [l EXCEPT ![Len(l)] = y]
  OBVIOUS
<1>7. /\ l \in Seq(Said) /\ l # <<>> /\ Len(l) \in Nat /\ l[Len(l)] \in Said /\ Len(l) > 0
  <2>1. l \in Seq(Said) /\ Len(l) > 0
    BY <1>3, <1>6
  <2> QED BY <2>1
<1>8. y \in Said
  BY <1>2, <1>6, <1>7, SaidType
<1>9. n = [q EXCEPT ![part] = z] /\ n[part] = z
  BY <1>3, <1>6
<1>10. z \in Seq(Said) /\ Len(z) = Len(l)
  BY <1>6, <1>7, <1>8, ExceptSeq
<1>11. OthersStay(q, n)
  BY <1>3, <1>9 DEF OthersStay
<1>12. ASSUME NEW f \in File, NEW s, From(part, s), Good(Read(q, part, f, s))
       PROVE  /\ Legal(Read(q, part, f, s), Word(x, f))
              /\ Step(Read(q, part, f, s), Word(x, f)) = Read(n, part, f, s)'
  <2>1. PICK r, w : r = Read(q, part, f, s) /\ w = Word(x, f)
    OBVIOUS
  <2>2. /\ r.stack = EndStack(part, s) /\ r.up = EndUp(part, s) /\ r.ups = EndUps(part, s)
        /\ r.all = EndAll(q, part, f, s) /\ r.w = EndW(part, s)
    BY <2>1, ReadFields
  <2>3. w.op = "set" /\ w.name = d /\ w.arg = v /\ w.file = f
    BY <1>2, <2>1
  <2>4. Legal(r, w)
    BY <1>2, <2>3 DEF Legal
  <2>5. EndStack(part, s)' = EndStack(part, s) /\ EndUp(part, s)' = EndUp(part, s)
    BY <1>5 DEF EndStack, EndUp, Above, NamesOf, UpOf, Whole
  <2>6. EndUps(part, s)' = EndUps(part, s) /\ EndW(part, s)' = EndW(part, s)
    BY <1>3, <1>5 DEF EndUps, EndW
  <2>7. StepAll(r, w) = EndAll(n, part, f, s)'
    <3>1. PICK in : in = InBlock(s.stack, "server")
      OBVIOUS
    <3>2. in \in BOOLEAN /\ s.all \in Seq(ServerBlock) /\ (in => s.all # <<>>)
      BY <1>12, <3>1 DEF From, Good, InBlock
    <3>3. EndAll(n, part, f, s)' = Ext(s.all, in, z, f)
      BY <1>5, <1>9, <3>1 DEF EndAll
    <3>4. r.all = Ext(s.all, in, l, f)
      BY <1>6, <2>2, <3>1 DEF EndAll
    <3>5. InBlock(r.stack, "server") <=> in \/ Len(l) > 1
      <4>1. InBlock(EndStack(part, s), "server") <=> InBlock(s.stack, "server") \/ Len(q[part]) > 1
        BY <1>12, StackHas
      <4> QED BY <1>6, <2>2, <3>1, <4>1
    <3>6. CASE in \/ Len(l) > 1
      <4>1. PICK e : e = Ext(s.all, in, l, f)
        OBVIOUS
      <4>2. [e EXCEPT ![Len(e)] = Says(@, d, v)] = Ext(s.all, in, [l EXCEPT ![Len(l)] = Says(@, d, v)], f)
        BY <1>2, <1>7, <3>2, <3>6, <4>1, ExtSays
      <4>3. [l EXCEPT ![Len(l)] = Says(@, d, v)] = z
        BY <1>6
      <4> QED BY <2>3, <3>3, <3>4, <3>5, <3>6, <4>1, <4>2, <4>3 DEF StepAll
    <3>7. CASE ~(in \/ Len(l) > 1)
      <4>0. \A k \in Nat : k > 0 /\ ~(k > 1) => k = 1
        OBVIOUS
      <4>1. ~in /\ Len(l) = 1
        BY <1>7, <3>7, <4>0, Zenon
      <4>2. Len(z) = 1
        BY <1>10, <4>1
      <4>3. Ext(s.all, in, l, f) = s.all /\ Ext(s.all, in, z, f) = s.all
        BY <1>7, <1>10, <3>2, <4>1, <4>2, ExtSame
      <4> QED BY <2>3, <3>3, <3>4, <3>5, <3>7, <4>3 DEF StepAll
    <3> QED BY <3>6, <3>7
  <2>8. /\ StepStack(r, w) = EndStack(part, s) /\ StepUp(r, w) = EndUp(part, s)
        /\ StepUps(r, w) = EndUps(part, s) /\ StepW(r, w) = EndW(part, s)
    BY <1>2, <2>2, <2>3 DEF StepStack, StepUp, StepUps, StepW
  <2>9. Step(r, w) = State(EndStack(part, s)', EndUp(part, s)', EndUps(part, s)', EndAll(n, part, f, s)', EndW(part, s)')
    BY <2>5, <2>6, <2>7, <2>8 DEF Step
  <2> QED BY <2>1, <2>4, <2>9 DEF Read, State
<1>13. TakenAs(q, n, x)
  BY <1>12 DEF TakenAs
<1> QED BY <1>2, <1>4, <1>11, <1>13, AddReads

(* A directive that says nothing of a server. *)
LEMMA SaysNothing ==
  ASSUME NEW all \in Seq(ServerBlock), NEW d, d \in {"server", "worker_processes"}, NEW v
  PROVE  [all EXCEPT ![Len(all)] = Says(@, d, v)] = all
<1>1. \A y : Says(y, d, v) = y
  BY DEF Says
<1>2. [all EXCEPT ![Len(all)] = Says(@, d, v)] = [all EXCEPT ![Len(all)] = all[Len(all)]]
  BY <1>1
<1>3. [all EXCEPT ![Len(all)] = all[Len(all)]] = all
  OBVIOUS
<1> QED BY <1>2, <1>3

(* Parse takes worker_processes. *)
LEMMA WorkersReads ==
  ASSUME NEW q, Writer(q), Reads(q), NEW v \in Value, \A p \in Part : workers[p] = Nothing, path' = path,
         Add(Item("set", "worker_processes", v)), members' = members,
         workers' = [workers EXCEPT ![part] = v]
  PROVE  Reads(q)'
<1>1. PICK x : x = Item("set", "worker_processes", v)
  OBVIOUS
<1>2. /\ x \in Items /\ x.op = "set"
      /\ \A f : /\ Word(x, f).op = "set" /\ Word(x, f).name = "worker_processes"
                /\ Word(x, f).arg = v /\ Word(x, f).file = f
  BY <1>1, ItemType DEF Directives
<1>3. /\ part \in Part /\ text \in [Part -> Seq(Items)]
      /\ workers \in [Part -> Value \cup {Nothing}]
  BY DEF Writer, Typed
<1>4. Add(x)
  BY <1>1
<1>5. /\ \A p \in Part, y \in Up : Opens(p, y)' <=> Opens(p, y)
      /\ part' = part /\ base' = base
  BY <1>2, <1>3, <1>4, AddOpens
<1>6. OthersStay(q, q)
  BY <1>3 DEF OthersStay
<1>7. ASSUME NEW f \in File, NEW s, From(part, s), Good(Read(q, part, f, s))
      PROVE  /\ Legal(Read(q, part, f, s), Word(x, f))
             /\ Step(Read(q, part, f, s), Word(x, f)) = Read(q, part, f, s)'
  <2>1. PICK r, w : r = Read(q, part, f, s) /\ w = Word(x, f)
    OBVIOUS
  <2>2. /\ r.stack = EndStack(part, s) /\ r.up = EndUp(part, s) /\ r.ups = EndUps(part, s)
        /\ r.all = EndAll(q, part, f, s) /\ r.w = EndW(part, s)
    BY <2>1, ReadFields
  <2>3. w.op = "set" /\ w.name = "worker_processes" /\ w.arg = v /\ w.file = f
    BY <1>2, <2>1
  <2>4. Legal(r, w)
    BY <2>3 DEF Legal, Directives
  <2>5. EndStack(part, s)' = EndStack(part, s) /\ EndUp(part, s)' = EndUp(part, s)
    BY <1>5 DEF EndStack, EndUp, Above, NamesOf, UpOf, Whole
  <2>6. EndUps(part, s)' = EndUps(part, s) /\ EndAll(q, part, f, s)' = EndAll(q, part, f, s)
    BY <1>3, <1>5 DEF EndUps, EndAll
  <2>7. EndW(part, s)' = v
    BY <1>3, <1>5, NothingApart DEF EndW
  <2>8. StepAll(r, w) = r.all
    <3>1. r.all \in Seq(ServerBlock)
      BY <1>7, <2>1 DEF Good
    <3>2. [r.all EXCEPT ![Len(r.all)] = Says(@, "worker_processes", v)] = r.all
      BY <3>1, SaysNothing
    <3> QED BY <2>3, <3>2 DEF StepAll
  <2>9. /\ StepStack(r, w) = r.stack /\ StepUp(r, w) = r.up /\ StepUps(r, w) = r.ups /\ StepW(r, w) = v
    BY <2>3 DEF StepStack, StepUp, StepUps, StepW
  <2>10. Step(r, w) = State(EndStack(part, s)', EndUp(part, s)', EndUps(part, s)', EndAll(q, part, f, s)', EndW(part, s)')
    BY <2>2, <2>5, <2>6, <2>7, <2>8, <2>9 DEF Step
  <2> QED BY <2>1, <2>4, <2>10 DEF Read, State
<1>8. TakenAs(q, q, x)
  BY <1>7 DEF TakenAs
<1> QED BY <1>2, <1>4, <1>6, <1>8, AddReads

(* Parse closes the block that was closed. *)
LEMMA CloseReads ==
  ASSUME NEW q, Writer(q), Reads(q), path # <<>>, part = "inc" => Len(path) > Len(base),
         path' = Front(path), Add(Item("close", Last(path).name, Nothing)),
         members' = members, workers' = workers
  PROVE  Reads(q)'
<1>1. PICK x, b : x = Item("close", b, Nothing) /\ b = Last(path).name
  OBVIOUS
<1>2. /\ part \in Part /\ text \in [Part -> Seq(Items)] /\ PathOK(path) /\ PathOK(base)
      /\ (part = "inc" => Len(base) <= Len(path))
  BY DEF Writer, Typed, Placed
<1>3. /\ x \in Items /\ x.op = "close"
      /\ \A f : Word(x, f).op = "close" /\ Word(x, f).name = b /\ Word(x, f).file = f
  <2>1. b \in Blocks
    BY <1>1, <1>2, PathCloses
  <2> QED BY <1>1, <2>1, ItemType
<1>4. Add(x)
  BY <1>1
<1>5. /\ \A p \in Part, y \in Up : Opens(p, y)' <=> Opens(p, y)
      /\ part' = part /\ base' = base
  BY <1>2, <1>3, <1>4, AddOpens
<1>6. OthersStay(q, q)
  BY <1>2 DEF OthersStay
<1>7. PICK m : m = path'
  OBVIOUS
<1>8. UpOf(m) = (IF b = "upstream" THEN Nothing ELSE UpOf(path))
  <2>1. m = Front(path)
    BY <1>7
  <2> QED BY <1>1, <1>2, <2>1, PathCloses
<1>9. UpOf(path)' = UpOf(m) /\ (Whole(base)' <=> Whole(base))
  BY <1>5, <1>7 DEF UpOf, Whole
<1>10. part = "inc" /\ ~Whole(base) => b # "upstream"
  <2> SUFFICES ASSUME part = "inc", ~Whole(base) PROVE b # "upstream"
    OBVIOUS
  <2>1. ~(Len(base) < 2) /\ Len(path) > Len(base)
    BY <1>2, WholeServer
  <2>2. Len(path) \in 0 .. 3 /\ Len(base) \in 0 .. 3
    BY <1>2, PathParts
  <2>3. Len(path) = 3
    <3>1. \A k, l \in 0 .. 3 : ~(l < 2) /\ k > l => k = 3
      OBVIOUS
    <3> QED BY <2>1, <2>2, <3>1, Zenon
  <2>4. path[3].name = "location"
    <3>1. Len(path) > 2
      BY <2>3
    <3> QED BY <1>2, <3>1, PathParts
  <2> QED BY <1>1, <2>3, <2>4 DEF Last
<1>11. ASSUME NEW f \in File, NEW s, From(part, s), Good(Read(q, part, f, s))
       PROVE  /\ Legal(Read(q, part, f, s), Word(x, f))
              /\ Step(Read(q, part, f, s), Word(x, f)) = Read(q, part, f, s)'
  <2>1. PICK r, w : r = Read(q, part, f, s) /\ w = Word(x, f)
    OBVIOUS
  <2>2. /\ r.stack = EndStack(part, s) /\ r.up = EndUp(part, s) /\ r.ups = EndUps(part, s)
        /\ r.all = EndAll(q, part, f, s) /\ r.w = EndW(part, s)
    BY <2>1, ReadFields
  <2>3. w.op = "close" /\ w.name = b /\ w.file = f
    BY <1>3, <2>1
  <2>4. /\ EndStack(part, s)' = Front(EndStack(part, s)) /\ EndStack(part, s) # <<>>
        /\ Last(EndStack(part, s)) = b
    BY <1>1, <1>5, <1>11, StackCloses
  <2>5. Legal(r, w)
    BY <2>2, <2>3, <2>4 DEF Legal
  <2>6. /\ EndUps(part, s)' = EndUps(part, s) /\ EndAll(q, part, f, s)' = EndAll(q, part, f, s)
        /\ EndW(part, s)' = EndW(part, s)
    BY <1>2, <1>5 DEF EndUps, EndAll, EndW
  <2>7. StepUp(r, w) = EndUp(part, s)'
    BY <1>5, <1>8, <1>9, <1>10, <2>2, <2>3, <2>4 DEF StepUp, EndUp
  <2>8. /\ StepStack(r, w) = Front(r.stack) /\ StepUps(r, w) = r.ups /\ StepAll(r, w) = r.all
        /\ StepW(r, w) = r.w
    BY <2>3 DEF StepStack, StepUps, StepAll, StepW
  <2>9. Step(r, w) = State(EndStack(part, s)', EndUp(part, s)', EndUps(part, s)', EndAll(q, part, f, s)', EndW(part, s)')
    BY <2>2, <2>4, <2>6, <2>7, <2>8 DEF Step
  <2> QED BY <2>1, <2>5, <2>9 DEF Read, State
<1>12. TakenAs(q, q, x)
  BY <1>11 DEF TakenAs
<1> QED BY <1>3, <1>4, <1>6, <1>12, AddReads

(* A member more, of the upstream u that is open. *)
LEMMA MemberReads ==
  ASSUME NEW q, Writer(q), Reads(q), NEW v \in Value, NEW u \in Up, UpOf(path) = u, path' = path,
         Add(Item("set", "server", v)), workers' = workers,
         members' = [members EXCEPT ![part][u] = Cat(@, <<v>>)]
  PROVE  Reads(q)'
<1>1. PICK x : x = Item("set", "server", v)
  OBVIOUS
<1>2. /\ x \in Items /\ x.op = "set"
      /\ \A f : /\ Word(x, f).op = "set" /\ Word(x, f).name = "server"
                /\ Word(x, f).arg = v /\ Word(x, f).file = f
  BY <1>1, ItemType DEF Directives
<1>3. /\ part \in Part /\ text \in [Part -> Seq(Items)] /\ PathOK(path) /\ PathOK(base)
      /\ members \in [Part -> Lists]
  BY DEF Writer, Typed
<1>4. Add(x)
  BY <1>1
<1>5. /\ \A p \in Part, y \in Up : Opens(p, y)' <=> Opens(p, y)
      /\ part' = part /\ base' = base
  BY <1>2, <1>3, <1>4, AddOpens
<1>0. Nothing \notin Up /\ Nothing \notin Value /\ Nothing \notin Seq(Value) /\ <<>> # Nothing
  BY NothingApart
<1>6. OthersStay(q, q)
  BY <1>3 DEF OthersStay
<1>7. /\ Opens(part, u) \/ (part # "main" /\ UpOf(base) = u)
      /\ ~Whole(base) => ~Opens("inc", u)
      /\ Opens(part, u) => members[part][u] # Nothing
      /\ UpOf(base) # Nothing => ~Whole(base)
  <2>1. MembersSaid
    BY DEF Writer
  <2>2. UpOf(base) # Nothing => ~Whole(base)
    BY <1>3, WholeServer
  <2> QED BY <1>0, <1>3, <2>1, <2>2 DEF MembersSaid
<1>9. PICK a, c : a = members[part][u] /\ c = Cat(a, <<v>>)
  OBVIOUS
<1>10. /\ a \in Seq(Value) \cup {Nothing} /\ c \in Seq(Value)
       /\ a # Nothing => c = Append(a, v)
       /\ \A y \in Seq(Value) : Cat(y, a) \in Seq(Value) /\ Cat(y, c) = Append(Cat(y, a), v)
  <2>1. a \in Seq(Value) \cup {Nothing}
    BY <1>3, <1>9 DEF Lists
  <2>2. <<v>> \in Seq(Value)
    OBVIOUS
  <2>3. \A y \in Seq(Value) : y \o <<v>> = Append(y, v) /\ Append(y, v) \in Seq(Value)
    OBVIOUS
  <2>4. \A y, z \in Seq(Value) : y \o Append(z, v) = Append(y \o z, v) /\ y \o z \in Seq(Value)
    OBVIOUS
  <2>5. c = (IF a = Nothing THEN <<v>> ELSE a \o <<v>>)
    BY <1>0, <1>9, <2>2 DEF Cat
  <2>6. CASE a = Nothing
    BY <1>0, <2>1, <2>2, <2>3, <2>5, <2>6 DEF Cat
  <2>7. CASE a # Nothing
    <3>1. a \in Seq(Value) /\ c = Append(a, v) /\ c \in Seq(Value)
      BY <2>1, <2>3, <2>5, <2>7
    <3> QED BY <1>0, <2>1, <2>4, <2>7, <3>1 DEF Cat
  <2> QED BY <2>6, <2>7
<1>11. \A y \in Up : members'[part][y] = IF y = u THEN c ELSE members[part][y]
  <2>1. members' = [members EXCEPT ![part] = [members[part] EXCEPT ![u] = c]]
    BY <1>9
  <2>2. members'[part] = [members[part] EXCEPT ![u] = c] /\ members[part] \in Lists
    BY <1>3, <2>1
  <2> QED BY <2>2 DEF Lists
<1>12. ASSUME NEW f \in File, NEW s, From(part, s), Good(Read(q, part, f, s))
       PROVE  /\ Legal(Read(q, part, f, s), Word(x, f))
              /\ Step(Read(q, part, f, s), Word(x, f)) = Read(q, part, f, s)'
  <2>1. PICK r, w : r = Read(q, part, f, s) /\ w = Word(x, f)
    OBVIOUS
  <2>2. /\ r.stack = EndStack(part, s) /\ r.up = EndUp(part, s) /\ r.ups = EndUps(part, s)
        /\ r.all = EndAll(q, part, f, s) /\ r.w = EndW(part, s)
    BY <2>1, ReadFields
  <2>3. w.op = "set" /\ w.name = "server" /\ w.arg = v /\ w.file = f
    BY <1>2, <2>1
  <2>4. Legal(r, w)
    BY <2>3 DEF Legal, Directives
  <2>5. EndStack(part, s)' = EndStack(part, s) /\ EndUp(part, s)' = EndUp(part, s)
    BY <1>5 DEF EndStack, EndUp, Above, NamesOf, UpOf, Whole
  <2>6. EndW(part, s)' = EndW(part, s) /\ EndAll(q, part, f, s)' = EndAll(q, part, f, s)
    BY <1>3, <1>5 DEF EndW, EndAll
  <2>7. StepAll(r, w) = r.all
    <3>1. r.all \in Seq(ServerBlock)
      BY <1>12, <2>1 DEF Good
    <3>2. [r.all EXCEPT ![Len(r.all)] = Says(@, "server", v)] = r.all
      BY <3>1, SaysNothing
    <3> QED BY <2>3, <3>2 DEF StepAll
  <2>8. StepUps(r, w) = EndUps(part, s)'
    <3>1. PICK e, g : e = EndUps(part, s) /\ g = EndUps(part, s)'
      OBVIOUS
    <3>2. /\ e = [y \in Up |-> e[y]] /\ g = [y \in Up |-> g[y]]
          /\ \A y \in Up : e[y] = IF Opens(part, y) THEN members[part][y]
                                  ELSE IF s.up = y THEN Cat(s.ups[y], members[part][y]) ELSE s.ups[y]
      BY <3>1 DEF EndUps
    <3>3. \A y \in Up : g[y] = IF Opens(part, y) THEN members'[part][y]
                                ELSE IF s.up = y THEN Cat(s.ups[y], members'[part][y]) ELSE s.ups[y]
      BY <1>3, <1>5, <3>1 DEF EndUps
    <3>4. \A y \in Up : y # u => g[y] = e[y]
      BY <1>11, <3>2, <3>3
    <3>5. /\ s.up # Nothing => s.ups[s.up] # Nothing
          /\ s.ups \in Lists
          /\ part = "rest" => s.up = UpOf(base)
          /\ part = "inc" => s.up = Nothing \/ s.up = UpOf(base)
          /\ part = "main" => s.up = Nothing
      <4>1. Good(s) /\ (s.stack = <<>> => s.up = Nothing)
        BY <1>3, <1>12, FromUp
      <4> QED BY <1>12, <4>1 DEF From, Good
    <3>6. EndUp(part, s) = IF Opens(part, u) \/ s.up = u THEN u ELSE Nothing
      <4>1. CASE part = "inc" /\ ~Whole(base)
        BY <1>7, <3>5, <4>1 DEF EndUp
      <4>2. CASE ~(part = "inc" /\ ~Whole(base))
        <5>1. Opens(part, u) \/ s.up = u
          BY <1>0, <1>3, <1>7, <3>5, <4>2 DEF Part
        <5> QED BY <4>2, <5>1 DEF EndUp
      <4> QED BY <4>1, <4>2
    <3>7. CASE Opens(part, u) \/ s.up = u
      <4>1. r.up = u /\ StepUps(r, w) = [e EXCEPT ![u] = Append(e[u], v)]
        BY <1>0, <2>2, <2>3, <3>1, <3>6, <3>7 DEF StepUps
      <4>2. g[u] = Append(e[u], v)
        <5>1. CASE Opens(part, u)
          BY <1>7, <1>9, <1>10, <1>11, <3>2, <3>3, <5>1
        <5>2. CASE ~Opens(part, u)
          <6>1. s.up = u /\ s.ups[u] \in Seq(Value)
            BY <1>0, <3>5, <3>7, <5>2 DEF Lists
          <6> QED BY <1>9, <1>10, <1>11, <3>2, <3>3, <5>2, <6>1
        <5> QED BY <5>1, <5>2
      <4>3. g = [e EXCEPT ![u] = Append(e[u], v)]
        BY <3>2, <3>4, <4>2
      <4> QED BY <3>1, <4>1, <4>3
    <3>8. CASE ~(Opens(part, u) \/ s.up = u)
      <4>1. StepUps(r, w) = e
        BY <2>2, <2>3, <3>1, <3>6, <3>8 DEF StepUps
      <4>2. g[u] = e[u]
        BY <3>2, <3>3, <3>8
      <4>3. g = e
        BY <3>2, <3>4, <4>2
      <4> QED BY <3>1, <4>1, <4>3
    <3> QED BY <3>7, <3>8
  <2>9. /\ StepStack(r, w) = r.stack /\ StepUp(r, w) = r.up /\ StepW(r, w) = r.w
    BY <2>3 DEF StepStack, StepUp, StepW
  <2>10. Step(r, w) = State(EndStack(part, s)', EndUp(part, s)', EndUps(part, s)', EndAll(q, part, f, s)', EndW(part, s)')
    BY <2>2, <2>5, <2>6, <2>7, <2>8, <2>9 DEF Step
  <2> QED BY <2>1, <2>4, <2>10 DEF Read, State
<1>13. TakenAs(q, q, x)
  BY <1>12 DEF TakenAs
<1> QED BY <1>2, <1>4, <1>6, <1>13, AddReads

(* A part that is empty. *)
LEMMA EmptyPart ==
  /\ \A f : Marked(<<>>, f) = <<>>
  /\ \A a : Cat(a, Nothing) = a
  /\ \A z \in Seq(Blocks) : z \o <<>> = z
  /\ NewServer \in Said /\ <<NewServer>> \in Seq(Said) /\ Len(<<NewServer>>) = 1 /\ <<NewServer>>[1] = NewServer
<1>1. ASSUME NEW f PROVE Marked(<<>>, f) = <<>>
  BY DEF Marked
<1>2. NewServer \in Said
  BY DEF NewServer, Said
<1> QED BY <1>1, <1>2 DEF Cat

(* A part that says nothing of servers leaves them as they are. *)
LEMMA NoServers ==
  ASSUME NEW S \in Seq(ServerBlock), NEW in \in BOOLEAN, in => S # <<>>, NEW f
  PROVE  Ext(S, in, <<NewServer>>, f) = S
<1>1. PICK q : q = <<NewServer>>
  OBVIOUS
<1>2. q \in Seq(Said) /\ Len(q) = 1 /\ q[1] = NewServer
  BY <1>1, EmptyPart
<1>3. Ext(S, in, q, f) = S
  BY <1>2, ExtSame
<1> QED BY <1>1, <1>3

(* An empty included file is read as one. *)
LEMMA IncludeReads ==
  ASSUME NEW q, Writer(q), Reads(q), Include
  PROVE  Reads(q)'
<1>1. /\ part = "main" /\ part' = "inc" /\ base' = path
      /\ text' = text /\ path' = path /\ members' = members /\ workers' = workers
  BY DEF Include, meaning
<1>2. /\ base = <<>> /\ text["inc"] = <<>> /\ text["rest"] = <<>>
      /\ q["inc"] = <<NewServer>> /\ q["rest"] = <<NewServer>>
      /\ \A u \in Up : members["inc"][u] = Nothing /\ members["rest"][u] = Nothing
      /\ workers["inc"] = Nothing /\ workers["rest"] = Nothing
  BY <1>1 DEF Writer, Placed
<1>3. PathOK(path)
  BY DEF Writer, Typed
<1>4. /\ NamesOf(base)' = NamesOf(path) /\ UpOf(base)' = UpOf(path) /\ NamesOf(path)' = NamesOf(path)
      /\ UpOf(path)' = UpOf(path) /\ (Whole(base)' <=> Whole(path))
      /\ \A p \in Part, u \in Up : Opens(p, u)' <=> Opens(p, u)
  BY <1>1 DEF NamesOf, UpOf, Whole, Opens
<1> SUFFICES ASSUME NEW p \in Part, NEW f \in File, NEW s, From(p, s)'
             PROVE  Leads(s, Marked(text'[p], f), Read(q, p, f, s)')
  BY DEF Reads
<1>5. CASE p = "main"
  <2>1. From(p, s)
    BY <1>5 DEF From
  <2>2. EndStack(p, s)' = EndStack(p, s) /\ EndUp(p, s)' = EndUp(p, s)
    BY <1>1, <1>4, <1>5 DEF EndStack, EndUp
  <2>3. EndUps(p, s)' = EndUps(p, s) /\ EndW(p, s)' = EndW(p, s) /\ EndAll(q, p, f, s)' = EndAll(q, p, f, s)
    BY <1>1, <1>4 DEF EndUps, EndW, EndAll
  <2>4. Read(q, p, f, s)' = Read(q, p, f, s)
    BY <2>2, <2>3 DEF Read
  <2> QED BY <1>1, <2>1, <2>4 DEF Reads
<1>6. CASE p # "main"
  <2>1. /\ text[p] = <<>> /\ q[p] = <<NewServer>> /\ \A u \in Up : members[p][u] = Nothing
        /\ workers[p] = Nothing /\ \A u \in Up : ~Opens(p, u)
    <3>1. text[p] = <<>> /\ q[p] = <<NewServer>> /\ (\A u \in Up : members[p][u] = Nothing)
          /\ workers[p] = Nothing
      BY <1>2, <1>6 DEF Part
    <3>2. Len(text[p]) = 0
      BY <3>1
    <3>3. \A i \in 1 .. Len(text[p]) : FALSE
      BY <3>2
    <3> QED BY <3>1, <3>3 DEF Opens
  <2>2. Good(s) /\ s = State(s.stack, s.up, s.ups, s.all, s.w)
    BY DEF From
  <2>3. /\ s.stack \in Seq(Blocks) /\ s.ups \in Lists /\ s.all \in Seq(ServerBlock)
        /\ (InBlock(s.stack, "server") => s.all # <<>>)
    BY <2>2 DEF Good
  <2>4. s.up = UpOf(path) \/ (s.stack = <<>> /\ s.up = Nothing)
    <3>1. s.stack = <<>> => s.up = Nothing
      BY <2>2 DEF Good, InBlock
    <3>2. s.up = UpOf(path) \/ s.stack = <<>>
      BY <1>4, <1>6 DEF From, Part
    <3> QED BY <3>1, <3>2
  <2>5. EndStack(p, s)' = s.stack
    <3>1. CASE p = "inc"
      <4>1. Above' = <<>>
        <5>1. PICK l : l = Len(path)
          OBVIOUS
        <5>2. l \in Nat
          BY <1>3, <5>1, PathParts
        <5>3. Above' = [i \in 1 .. l - l |-> path[l + i].name]
          BY <1>1, <5>1 DEF Above
        <5>4. 1 .. l - l = {}
          BY <5>2
        <5> QED BY <5>3, <5>4
      <4> QED BY <1>1, <2>3, <3>1, <4>1, EmptyPart DEF EndStack
    <3>2. CASE p # "inc"
      BY <1>1, <1>6, <3>2 DEF EndStack
    <3> QED BY <3>1, <3>2
  <2>6. EndUp(p, s)' = s.up
    <3>1. UpOf(path) # Nothing => ~Whole(path)
      BY <1>3, WholeServer
    <3>2. CASE p = "inc"
      <4>1. EndUp(p, s)' = IF ~Whole(path) THEN s.up ELSE UpOf(path)
        BY <1>1, <1>4, <3>2 DEF EndUp
      <4> QED BY <2>4, <3>1, <4>1
    <3>3. CASE p # "inc"
      BY <1>1, <1>6, <3>3 DEF EndUp
    <3> QED BY <3>2, <3>3
  <2>7. EndUps(p, s)' = s.ups
    <3>1. EndUps(p, s)' = [u \in Up |-> s.ups[u]]
      BY <1>1, <1>4, <2>1, EmptyPart DEF EndUps
    <3> QED BY <2>3, <3>1 DEF Lists
  <2>8. EndAll(q, p, f, s)' = s.all
    <3>1. PICK in : in = InBlock(s.stack, "server")
      OBVIOUS
    <3>2. in \in BOOLEAN
      BY <3>1 DEF InBlock
    <3>3. EndAll(q, p, f, s)' = Ext(s.all, in, q[p], f)
      BY <3>1 DEF EndAll
    <3>4. Ext(s.all, in, <<NewServer>>, f) = s.all
      BY <2>3, <3>1, <3>2, NoServers
    <3> QED BY <2>1, <3>3, <3>4
  <2>9. EndW(p, s)' = s.w
    BY <1>1, <2>1 DEF EndW
  <2>10. Read(q, p, f, s)' = s
    <3>1. Read(q, p, f, s)' = State(EndStack(p, s)', EndUp(p, s)', EndUps(p, s)', EndAll(q, p, f, s)', EndW(p, s)')
      BY DEF Read, State
    <3> QED BY <2>2, <2>5, <2>6, <2>7, <2>8, <2>9, <3>1
  <2>11. Marked(text'[p], f) = <<>>
    BY <1>1, <2>1, EmptyPart
  <2> QED BY <2>2, <2>10, <2>11, NoItems
<1> QED BY <1>5, <1>6

(* An empty rest is read as one. *)
LEMMA IncludeEndsReads ==
  ASSUME NEW q, Writer(q), Reads(q), IncludeEnds
  PROVE  Reads(q)'
<1>1. /\ part = "inc" /\ part' = "rest" /\ path = base /\ base' = base
      /\ text' = text /\ path' = path /\ members' = members /\ workers' = workers
  BY DEF IncludeEnds, meaning
<1>2. PathOK(path) /\ PathOK(base)
  BY DEF Writer, Typed
<1>3. /\ NamesOf(base)' = NamesOf(base) /\ UpOf(base)' = UpOf(base) /\ NamesOf(path)' = NamesOf(base)
      /\ UpOf(path)' = UpOf(base) /\ (Whole(base)' <=> Whole(base))
      /\ NamesOf(path) = NamesOf(base) /\ UpOf(path) = UpOf(base)
      /\ \A p \in Part, u \in Up : Opens(p, u)' <=> Opens(p, u)
  BY <1>1 DEF NamesOf, UpOf, Whole, Opens
<1>4. Above = <<>>
  <2>1. PICK l : l = Len(path)
    OBVIOUS
  <2>2. l \in Nat
    BY <1>2, <2>1, PathParts
  <2>3. Above = [i \in 1 .. l - l |-> path[l + i].name]
    BY <1>1, <2>1 DEF Above
  <2>4. 1 .. l - l = {}
    BY <2>2
  <2> QED BY <2>3, <2>4
<1> SUFFICES ASSUME NEW p \in Part, NEW f \in File, NEW s, From(p, s)'
             PROVE  Leads(s, Marked(text'[p], f), Read(q, p, f, s)')
  BY DEF Reads
<1>5. From(p, s)
  BY <1>1, <1>3 DEF From
<1>6. /\ s.stack \in Seq(Blocks) /\ (s.stack = <<>> => s.up = Nothing)
      /\ (p = "inc" => s.stack = <<>> \/ s.up = UpOf(base))
      /\ (p = "rest" => s.stack = NamesOf(base) /\ s.up = UpOf(base))
  <2>1. s.stack \in Seq(Blocks) /\ (s.stack = <<>> => s.up = Nothing)
    BY <1>5, FromUp
  <2> QED BY <1>5, <2>1 DEF From
<1>7. EndStack(p, s)' = EndStack(p, s)
  BY <1>1, <1>3, <1>4, <1>6, EmptyPart DEF EndStack, Part
<1>8. EndUp(p, s)' = EndUp(p, s)
  <2>1. UpOf(base) # Nothing => ~Whole(base)
    BY <1>2, WholeServer
  <2> QED BY <1>1, <1>3, <1>6, <2>1 DEF EndUp, Part
<1>9. EndUps(p, s)' = EndUps(p, s) /\ EndW(p, s)' = EndW(p, s) /\ EndAll(q, p, f, s)' = EndAll(q, p, f, s)
  BY <1>1, <1>3 DEF EndUps, EndW, EndAll
<1>10. Read(q, p, f, s)' = Read(q, p, f, s)
  BY <1>7, <1>8, <1>9 DEF Read
<1> QED BY <1>1, <1>5, <1>10 DEF Reads

(* Including the file again writes nothing. *)
LEMMA IncludeAgainReads ==
  ASSUME NEW q, Reads(q), IncludeAgain
  PROVE  Reads(q)'
BY DEF IncludeAgain, Reads, From, Read, EndStack, EndUp, EndUps, EndAll, EndW, Opens, Above, NamesOf,
       UpOf, Whole

-----------------------------------------------------------------------------
(* The configuration that is written.                                      *)
Written == \E q : Writer(q) /\ Reads(q)

(* The empty configuration is read as one. *)
LEMMA InitWritten == ConfInit => Written
<1> SUFFICES ASSUME ConfInit PROVE Written
  OBVIOUS
<1>1. /\ text = [p \in Part |-> <<>>] /\ part = "main" /\ path = <<>> /\ base = <<>> /\ includes = 0
      /\ servers = [p \in Part |-> <<NewServer>>] /\ workers = [p \in Part |-> Nothing]
      /\ members = [p \in Part |-> [u \in Up |-> Nothing]]
  BY DEF ConfInit
<1>2. PathOK(<<>>) /\ Len(<<>>) = 0
  BY DEF PathOK
<1>3. /\ UpOf(<<>>) = Nothing /\ ~InServer(<<>>) /\ Whole(<<>>) /\ NamesOf(<<>>) = <<>>
  <2>1. NamesOf(<<>>) = <<>>
    BY DEF NamesOf
  <2> QED BY <2>1 DEF UpOf, InServer, Whole
<1>4. \A p \in Part, u \in Up : ~Opens(p, u)
  <2> SUFFICES ASSUME NEW p \in Part, NEW u \in Up PROVE ~Opens(p, u)
    OBVIOUS
  <2>1. Len(text[p]) = 0
    BY <1>1
  <2>2. \A i \in 1 .. Len(text[p]) : FALSE
    BY <2>1
  <2> QED BY <2>2 DEF Opens
<1>5. Writer(servers)
  <2>1. Typed(servers)
    <3>1. text \in [Part -> Seq(Items)]
      BY <1>1
    <3>2. servers \in [Part -> Seq(Said)] /\ \A p \in Part : Len(servers[p]) > 0
      <4>1. \A p \in Part : servers[p] = <<NewServer>> /\ Len(servers[p]) = 1
        BY <1>1
      <4> QED BY <1>1, <4>1, EmptyPart
    <3>3. members \in [Part -> Lists] /\ workers \in [Part -> Value \cup {Nothing}]
      BY <1>1 DEF Lists
    <3> QED BY <1>1, <1>2, <3>1, <3>2, <3>3 DEF Typed, Part
  <2>2. Placed(servers)
    BY <1>1 DEF Placed, Part
  <2>3. ServersSaid(servers)
    BY <1>1, <1>3, EmptyPart DEF ServersSaid, Part
  <2>4. MembersSaid
    BY <1>1, <1>3, <1>4 DEF MembersSaid
  <2>5. WorkersSaid
    BY <1>1 DEF WorkersSaid
  <2> QED BY <2>1, <2>2, <2>3, <2>4, <2>5 DEF Writer
<1>6. Reads(servers)
  <2> SUFFICES ASSUME NEW p \in Part, NEW f \in File, NEW s, From(p, s)
               PROVE  Leads(s, Marked(text[p], f), Read(servers, p, f, s))
    BY DEF Reads
  <2>1. Good(s) /\ s = State(s.stack, s.up, s.ups, s.all, s.w) /\ s.stack = <<>> /\ s.up = Nothing
    <3>1. Good(s) /\ s = State(s.stack, s.up, s.ups, s.all, s.w) /\ s.stack = <<>>
      BY <1>1, <1>3 DEF From, Part
    <3> QED BY <3>1 DEF Good, InBlock
  <2>2. EndStack(p, s) = <<>> /\ EndUp(p, s) = Nothing
    BY <1>1, <1>3, <2>1 DEF EndStack, EndUp, Part
  <2>3. EndUps(p, s) = s.ups
    <3>1. EndUps(p, s) = [u \in Up |-> s.ups[u]]
      BY <1>1, <1>4, EmptyPart DEF EndUps
    <3> QED BY <2>1, <3>1 DEF Good, Lists
  <2>4. EndAll(servers, p, f, s) = s.all
    <3>1. PICK in : in = InBlock(s.stack, "server")
      OBVIOUS
    <3>2. in \in BOOLEAN /\ ~in /\ s.all \in Seq(ServerBlock)
      BY <2>1, <3>1 DEF Good, InBlock
    <3>3. EndAll(servers, p, f, s) = Ext(s.all, in, <<NewServer>>, f)
      BY <1>1, <3>1 DEF EndAll
    <3>4. Ext(s.all, in, <<NewServer>>, f) = s.all
      BY <3>2, NoServers
    <3> QED BY <3>3, <3>4
  <2>5. EndW(p, s) = s.w
    BY <1>1 DEF EndW
  <2>6. Read(servers, p, f, s) = s /\ Marked(text[p], f) = <<>>
    <3>1. Read(servers, p, f, s) = s
      BY <2>1, <2>2, <2>3, <2>4, <2>5 DEF Read
    <3> QED BY <1>1, <3>1, EmptyPart
  <2> QED BY <2>1, <2>6, NoItems
<1> QED BY <1>5, <1>6 DEF Written

-----------------------------------------------------------------------------
(* What is read of the parts, one after the other, is what was meant.      *)

(* The servers of the main file; the last one goes on with x and with y.   *)
Total(A, x, y) ==
  [k \in 1 .. Len(A) - 1 |->
     InFile(IF k = Len(A) - 1 THEN Joined(Joined(Last(A), x), y) ELSE A[k + 1], "main")]

(* The server blocks of the main file. *)
LEMMA TotalType ==
  ASSUME NEW A \in Seq(Said), A # <<>>, NEW x \in Said, NEW y \in Said
  PROVE  /\ Total(A, x, y) \in Seq(ServerBlock) /\ Len(Total(A, x, y)) = Len(A) - 1
         /\ \A k \in 1 .. Len(A) - 1 :
              Total(A, x, y)[k] = InFile(IF k = Len(A) - 1 THEN Joined(Joined(Last(A), x), y) ELSE A[k + 1], "main")
         /\ Last(A) \in Said /\ A[Len(A)] = Last(A)
<1>1. Len(A) \in Nat /\ Len(A) > 0 /\ \A k \in 1 .. Len(A) : A[k] \in Said
  OBVIOUS
<1>2. Last(A) \in Said /\ A[Len(A)] = Last(A)
  BY <1>1 DEF Last
<1>3. Joined(Joined(Last(A), x), y) \in Said
  BY <1>2, JoinedSaid
<1>4. \A z \in Said : InFile(z, "main") \in ServerBlock
  <2>1. InFile(NewServer, "main") \in ServerBlock
    BY NewServerType DEF File
  <2> QED BY <2>1, JoinedType DEF File
<1>5. PICK n, j : n = Len(A) - 1 /\ j = Joined(Joined(Last(A), x), y)
  OBVIOUS
<1>6. n \in Nat /\ \A k \in 1 .. n : k + 1 \in 1 .. Len(A)
  BY <1>1, <1>5
<1>7. \A k \in 1 .. n : InFile(IF k = n THEN j ELSE A[k + 1], "main") \in ServerBlock
  BY <1>1, <1>3, <1>4, <1>5, <1>6
<1>8. PICK t : t = Total(A, x, y)
  OBVIOUS
<1>9. t = [k \in 1 .. n |-> InFile(IF k = n THEN j ELSE A[k + 1], "main")]
  BY <1>5, <1>8 DEF Total
<1> HIDE DEF ServerBlock, InFile
<1>10. t \in Seq(ServerBlock) /\ Len(t) = n
  BY <1>6, <1>7, <1>9
<1> QED BY <1>2, <1>5, <1>8, <1>9, <1>10

(* What is said of the last one may be said in any part. *)
LEMMA TotalMore ==
  ASSUME NEW A \in Seq(Said), A # <<>>, NEW x \in Said, NEW y \in Said
  PROVE  /\ Total(A, NewServer, NewServer) = Rest(A, "main")
         /\ Total(A, NewServer, x) = Total(A, x, NewServer)
         /\ Len(A) > 1 => More(Total(A, x, NewServer), TRUE, y) = Total(A, x, y)
<1>0. NewServer \in Said
  BY EmptyPart
<1>1. PICK n, a : n = Len(A) - 1 /\ a = Last(A)
  OBVIOUS
<1>2. n \in Nat /\ n + 1 = Len(A) /\ a \in Said /\ A[n + 1] = a
  <2>1. Len(A) \in Nat /\ Len(A) > 0
    OBVIOUS
  <2>2. a \in Said /\ A[Len(A)] = a
    BY <1>0, <1>1, TotalType
  <2>3. n \in Nat /\ n + 1 = Len(A)
    BY <1>1, <2>1
  <2> QED BY <2>2, <2>3
<1>3. /\ Joined(a, NewServer) = a /\ Joined(a, x) \in Said
      /\ Joined(Joined(a, x), NewServer) = Joined(a, x)
  <2>1. Joined(a, x) \in Said /\ Joined(a, NewServer) = a
    BY <1>2, JoinedSaid
  <2> QED BY <1>0, <2>1, JoinedSaid
<1>4. Total(A, NewServer, NewServer) = Rest(A, "main")
  <2>1. Total(A, NewServer, NewServer) = [k \in 1 .. n |-> InFile(IF k = n THEN a ELSE A[k + 1], "main")]
    BY <1>1, <1>3 DEF Total
  <2>2. Rest(A, "main") = [k \in 1 .. n |-> InFile(A[k + 1], "main")]
    BY <1>1 DEF Rest
  <2>3. \A k \in 1 .. n : InFile(IF k = n THEN a ELSE A[k + 1], "main") = InFile(A[k + 1], "main")
    BY <1>2
  <2> QED BY <2>1, <2>2, <2>3
<1>5. Total(A, NewServer, x) = Total(A, x, NewServer)
  BY <1>1, <1>3 DEF Total
<1>6. ASSUME Len(A) > 1 PROVE More(Total(A, x, NewServer), TRUE, y) = Total(A, x, y)
  <2>1. PICK t, u : t = Total(A, x, NewServer) /\ u = Total(A, x, y)
    OBVIOUS
  <2>2. /\ t \in Seq(ServerBlock) /\ Len(t) = n
        /\ t = [k \in 1 .. n |-> t[k]]
        /\ \A k \in 1 .. n : t[k] = InFile(IF k = n THEN Joined(a, x) ELSE A[k + 1], "main")
    <3>1. t \in Seq(ServerBlock) /\ Len(t) = n
      BY <1>0, <1>1, <2>1, TotalType
    <3>2. t = [k \in 1 .. n |-> InFile(IF k = n THEN Joined(a, x) ELSE A[k + 1], "main")]
      BY <1>1, <1>3, <2>1 DEF Total
    <3> QED BY <3>1, <3>2
  <2>3. n \in 1 .. n
    BY <1>2, <1>6
  <2>4. More(t, TRUE, y) = [t EXCEPT ![n] = InFile(Joined(t[n], y), t[n].File)]
    BY <2>2 DEF More
  <2>5. Joined(t[n], y) = Joined(Joined(a, x), y) /\ t[n].File = "main"
    <3>1. t[n] = InFile(Joined(a, x), "main")
      BY <2>2, <2>3
    <3>2. \A b : /\ Joined(InFile(b, "main"), y) = Joined(b, y)
                 /\ InFile(b, "main").File = "main"
      BY DEF InFile, Joined
    <3> QED BY <3>1, <3>2
  <2>6. u = [k \in 1 .. n |-> InFile(IF k = n THEN Joined(Joined(a, x), y) ELSE A[k + 1], "main")]
    BY <1>1, <2>1 DEF Total
  <2>7. More(t, TRUE, y) = [k \in 1 .. n |-> IF k = n THEN InFile(Joined(Joined(a, x), y), "main") ELSE t[k]]
    BY <2>2, <2>3, <2>4, <2>5
  <2>8. \A k \in 1 .. n : (IF k = n THEN InFile(Joined(Joined(a, x), y), "main") ELSE t[k])
                           = InFile(IF k = n THEN Joined(Joined(a, x), y) ELSE A[k + 1], "main")
    BY <2>2
  <2> QED BY <2>1, <2>6, <2>7, <2>8
<1> QED BY <1>4, <1>5, <1>6

(* Three sequences, one after the other. *)
LEMMA Assoc ==
  ASSUME NEW T, NEW x \in Seq(T), NEW y \in Seq(T), NEW z \in Seq(T)
  PROVE  /\ (x \o y) \o z = x \o (y \o z) /\ x \o <<>> = x /\ <<>> \o x = x
         /\ x \o y \in Seq(T) /\ y \o z \in Seq(T)
  OBVIOUS

(* The server blocks a part opens. *)
LEMMA RestType ==
  ASSUME NEW q \in Seq(Said), q # <<>>, NEW f \in File
  PROVE  /\ Rest(q, f) \in Seq(ServerBlock) /\ Len(Rest(q, f)) = Len(q) - 1
         /\ \A k \in 1 .. Len(q) - 1 : Rest(q, f)[k] = InFile(q[k + 1], f)
         /\ Len(q) = 1 => Rest(q, f) = <<>>
         /\ q[1] \in Said
         /\ Ext(<<>>, FALSE, q, f) = Rest(q, f)
<1>1. <<>> \in Seq(ServerBlock) /\ q[1] \in Said
  OBVIOUS
<1>2. Rest(q, f) \in Seq(ServerBlock) /\ Len(Rest(q, f)) = Len(q) - 1
  BY <1>1, ExtType
<1>3. \A k \in 1 .. Len(q) - 1 : Rest(q, f)[k] = InFile(q[k + 1], f)
  BY DEF Rest
<1>4. Len(q) = 1 => Rest(q, f) = <<>>
  <2>1. PICK r : r = Rest(q, f)
    OBVIOUS
  <2>2. r \in Seq(ServerBlock) /\ Len(r) = Len(q) - 1
    BY <1>2, <2>1
  <2>3. Len(q) = 1 => Len(r) = 0
    BY <2>2
  <2>4. Len(r) = 0 => r = <<>>
    <3>1. \A y \in Seq(ServerBlock) : Len(y) = 0 => y = <<>>
      OBVIOUS
    <3> QED BY <2>2, <3>1
  <2> QED BY <2>1, <2>3, <2>4
<1>5. Ext(<<>>, FALSE, q, f) = <<>> \o Rest(q, f)
  BY DEF Ext, More
<1>6. <<>> \o Rest(q, f) = Rest(q, f)
  BY <1>2, Assoc
<1> QED BY <1>1, <1>2, <1>3, <1>4, <1>5, <1>6

(* The text of LoadFromDisk, and that of nginx -T. *)
LEMMA DiskServers ==
  ASSUME NEW A \in Seq(Said), A # <<>>, NEW I \in Seq(Said), I # <<>>, NEW R \in Seq(Said), R # <<>>,
         NEW in \in BOOLEAN, in => Len(A) > 1 /\ Len(I) = 1,
         ~in => I[1] = NewServer /\ R[1] = NewServer
  PROVE  Ext(Ext(Ext(<<>>, FALSE, A, "main"), in, I, "inc"), in, R, "inc")
           = Total(A, I[1], R[1]) \o (Rest(I, "inc") \o Rest(R, "inc"))
<1>0. NewServer \in Said /\ "main" \in File /\ "inc" \in File
  BY EmptyPart DEF File
<1>1. PICK S, i, r : S = Ext(<<>>, FALSE, A, "main") /\ i = Rest(I, "inc") /\ r = Rest(R, "inc")
  OBVIOUS
<1>2. S = Total(A, NewServer, NewServer) /\ S \in Seq(ServerBlock)
  <2>1. S = Rest(A, "main") /\ S \in Seq(ServerBlock)
    BY <1>0, <1>1, RestType
  <2> QED BY <1>0, <2>1, TotalMore
<1>3. i \in Seq(ServerBlock) /\ r \in Seq(ServerBlock) /\ (Len(I) = 1 => i = <<>>)
      /\ I[1] \in Said /\ R[1] \in Said
  BY <1>0, <1>1, RestType
<1>4. CASE in
  <2>1. i = <<>> /\ Len(A) > 1
    BY <1>3, <1>4
  <2>2. More(S, TRUE, I[1]) = Total(A, I[1], NewServer)
    <3>1. More(S, TRUE, I[1]) = Total(A, NewServer, I[1])
      BY <1>0, <1>2, <1>3, <2>1, TotalMore
    <3>2. Total(A, NewServer, I[1]) = Total(A, I[1], NewServer)
      BY <1>3, TotalMore
    <3> QED BY <3>1, <3>2
  <2>3. PICK m : m = Total(A, I[1], NewServer)
    OBVIOUS
  <2>4. m \in Seq(ServerBlock)
    BY <1>0, <1>3, <2>3, TotalType
  <2>5. Ext(S, in, I, "inc") = m
    <3>1. Ext(S, in, I, "inc") = m \o <<>>
      BY <1>1, <1>4, <2>1, <2>2, <2>3 DEF Ext, More
    <3> QED BY <2>4, <3>1, Assoc
  <2>6. Ext(m, in, R, "inc") = Total(A, I[1], R[1]) \o r
    <3>1. More(m, TRUE, R[1]) = Total(A, I[1], R[1])
      BY <1>3, <2>1, <2>3, TotalMore
    <3> QED BY <1>1, <1>4, <3>1 DEF Ext, More
  <2>7. <<>> \o r = r
    BY <1>3, Assoc
  <2> QED BY <1>1, <2>1, <2>5, <2>6, <2>7
<1>5. CASE ~in
  <2>1. Ext(S, in, I, "inc") = S \o i /\ Ext(S \o i, in, R, "inc") = (S \o i) \o r
    BY <1>1, <1>5 DEF Ext, More
  <2>2. (S \o i) \o r = S \o (i \o r)
    BY <1>2, <1>3, Assoc
  <2> QED BY <1>1, <1>2, <1>5, <2>1, <2>2
<1> QED BY <1>4, <1>5

(* The servers read from nginx -T, when the included file says nothing of  *)
(* the server it is included in.                                           *)
LEMMA PrintedServers ==
  ASSUME NEW A \in Seq(Said), A # <<>>, NEW I \in Seq(Said), I # <<>>, NEW R \in Seq(Said), R # <<>>,
         NEW in \in BOOLEAN, in => Len(A) > 1, I[1] = NewServer, ~in => R[1] = NewServer
  PROVE  Ext(Ext(Ext(<<>>, FALSE, A, "main"), in, R, "main"), FALSE, I, "inc")
           = Total(A, I[1], R[1]) \o (Rest(R, "main") \o Rest(I, "inc"))
<1>0. NewServer \in Said /\ "main" \in File /\ "inc" \in File
  BY EmptyPart DEF File
<1>1. PICK S, i, r : S = Ext(<<>>, FALSE, A, "main") /\ i = Rest(I, "inc") /\ r = Rest(R, "main")
  OBVIOUS
<1>2. S = Total(A, NewServer, NewServer)
  <2>1. S = Rest(A, "main")
    BY <1>0, <1>1, RestType
  <2> QED BY <1>0, <2>1, TotalMore
<1>3. i \in Seq(ServerBlock) /\ r \in Seq(ServerBlock) /\ R[1] \in Said
  BY <1>0, <1>1, RestType
<1>4. More(S, in, R[1]) = Total(A, NewServer, R[1])
  <2>1. CASE in
    <3>1. More(S, TRUE, R[1]) = Total(A, NewServer, R[1])
      BY <1>0, <1>2, <1>3, <2>1, TotalMore
    <3> QED BY <2>1, <3>1 DEF More
  <2>2. CASE ~in
    BY <1>2, <2>2 DEF More
  <2> QED BY <2>1, <2>2
<1>5. PICK m : m = Total(A, NewServer, R[1])
  OBVIOUS
<1>6. m \in Seq(ServerBlock)
  BY <1>0, <1>3, <1>5, TotalType
<1>7. Ext(S, in, R, "main") = m \o r /\ Ext(m \o r, FALSE, I, "inc") = (m \o r) \o i
  BY <1>1, <1>4, <1>5 DEF Ext, More
<1>8. (m \o r) \o i = m \o (r \o i)
  BY <1>3, <1>6, Assoc
<1> QED BY <1>1, <1>5, <1>7, <1>8

SameFiles(x, y) == Len(x) = Len(y) /\ \A k \in 1 .. Len(x) : x[k].File = y[k].File
Route(s) == <<s.Names, s.Listens, s.Pass>>
SameRoutes(x, y) == Len(x) = Len(y) /\ \A k \in 1 .. Len(x) : Route(x[k]) = Route(y[k])
NamedAll(all) == [k \in DOMAIN all |-> Named(all[k])]

(* Two lists of servers that agree still do with others that agree behind  *)
(* them.                                                                   *)
LEMMA SameConcat ==
  ASSUME NEW a \in Seq(ServerBlock), NEW b \in Seq(ServerBlock),
         NEW x \in Seq(ServerBlock), NEW y \in Seq(ServerBlock)
  PROVE  /\ SameFiles(a, b) /\ SameFiles(x, y) => SameFiles(a \o x, b \o y)
         /\ SameRoutes(a, b) /\ SameRoutes(x, y) => SameRoutes(a \o x, b \o y)
         /\ SameFiles(a, a) /\ SameRoutes(a, a)
<1>1. PICK c, d, k, l : c = a \o x /\ d = b \o y /\ k = Len(a) /\ l = Len(x)
  OBVIOUS
<1>2. /\ c \in Seq(ServerBlock) /\ Len(c) = k + l
      /\ \A i \in 1 .. k : c[i] = a[i]
      /\ \A i \in 1 .. l : c[k + i] = x[i]
  <2>1. /\ a \o x \in Seq(ServerBlock) /\ Len(a \o x) = Len(a) + Len(x)
        /\ \A i \in 1 .. Len(a) : (a \o x)[i] = a[i]
        /\ \A i \in 1 .. Len(x) : (a \o x)[Len(a) + i] = x[i]
    BY Concatenated
  <2> QED BY <1>1, <2>1
<1>3. /\ d \in Seq(ServerBlock) /\ Len(d) = Len(b) + Len(y)
      /\ \A i \in 1 .. Len(b) : d[i] = b[i]
      /\ \A i \in 1 .. Len(y) : d[Len(b) + i] = y[i]
  <2>1. /\ b \o y \in Seq(ServerBlock) /\ Len(b \o y) = Len(b) + Len(y)
        /\ \A i \in 1 .. Len(b) : (b \o y)[i] = b[i]
        /\ \A i \in 1 .. Len(y) : (b \o y)[Len(b) + i] = y[i]
    BY Concatenated
  <2> QED BY <1>1, <2>1
<1>4. k \in Nat /\ l \in Nat
  BY <1>1
<1>5. ASSUME Len(b) = k, Len(y) = l
      PROVE  /\ Len(d) = Len(c)
             /\ \A i \in 1 .. k : d[i] = b[i]
             /\ \A i \in 1 .. l : d[k + i] = y[i]
  BY <1>2, <1>3, <1>5
<1>6. \A m \in 1 .. k + l : m \in 1 .. k \/ \E i \in 1 .. l : m = k + i
  <2> TAKE m \in 1 .. k + l
  <2>1. CASE m <= k
    BY <1>4, <2>1
  <2>2. CASE ~(m <= k)
    <3>1. m - k \in 1 .. l /\ m = k + (m - k)
      BY <1>4, <2>2
    <3> QED BY <3>1
  <2> QED BY <2>1, <2>2
<1>7. ASSUME SameFiles(a, b), SameFiles(x, y) PROVE SameFiles(c, d)
  <2>1. Len(b) = k /\ Len(y) = l
    BY <1>1, <1>7 DEF SameFiles
  <2>2. ASSUME NEW m \in 1 .. k + l PROVE c[m].File = d[m].File
    <3>1. CASE m \in 1 .. k
      BY <1>1, <1>2, <1>5, <1>7, <2>1, <3>1 DEF SameFiles
    <3>2. CASE \E i \in 1 .. l : m = k + i
      <4>1. PICK i \in 1 .. l : m = k + i
        BY <3>2
      <4>2. c[m] = x[i] /\ d[m] = y[i]
        BY <1>2, <1>5, <2>1, <4>1
      <4> QED BY <1>1, <1>7, <4>2 DEF SameFiles
    <3> QED BY <1>6, <3>1, <3>2
  <2> QED BY <1>2, <1>5, <2>1, <2>2 DEF SameFiles
<1>8. ASSUME SameRoutes(a, b), SameRoutes(x, y) PROVE SameRoutes(c, d)
  <2>1. Len(b) = k /\ Len(y) = l
    BY <1>1, <1>8 DEF SameRoutes
  <2>2. ASSUME NEW m \in 1 .. k + l PROVE Route(c[m]) = Route(d[m])
    <3>1. CASE m \in 1 .. k
      BY <1>1, <1>2, <1>5, <1>8, <2>1, <3>1 DEF SameRoutes
    <3>2. CASE \E i \in 1 .. l : m = k + i
      <4>1. PICK i \in 1 .. l : m = k + i
        BY <3>2
      <4>2. c[m] = x[i] /\ d[m] = y[i]
        BY <1>2, <1>5, <2>1, <4>1
      <4> QED BY <1>1, <1>8, <4>2 DEF SameRoutes
    <3> QED BY <1>6, <3>1, <3>2
  <2> QED BY <1>2, <1>5, <2>1, <2>2 DEF SameRoutes
<1> QED BY <1>1, <1>7, <1>8 DEF SameFiles, SameRoutes

(* Naming the catch-all keeps files and routes. *)
LEMMA SameNamed ==
  ASSUME NEW x \in Seq(ServerBlock), NEW y \in Seq(ServerBlock)
  PROVE  /\ SameFiles(x, y) => Files(NamedAll(x)) = Files(NamedAll(y))
         /\ SameRoutes(x, y) => Routing(NamedAll(x)) = Routing(NamedAll(y))
         /\ NamedAll(x) \in Seq(ServerBlock) /\ Len(NamedAll(x)) = Len(x)
         /\ x # <<>> => NamedAll(x) # <<>>
<1>1. ASSUME NEW s \in ServerBlock PROVE Named(s) \in ServerBlock /\ Named(s).File = s.File
  <2>1. <<CatchAll>> \in Seq(Value \cup {CatchAll})
    OBVIOUS
  <2> QED BY <2>1 DEF Named, ServerBlock
<1>2. ASSUME NEW s \in ServerBlock, NEW t \in ServerBlock, Route(s) = Route(t)
      PROVE  Route(Named(s)) = Route(Named(t))
  <2>1. s.Names = t.Names /\ s.Listens = t.Listens /\ s.Pass = t.Pass
    BY <1>2 DEF Route
  <2>2. /\ Named(s).Names = (IF s.Names = <<>> THEN <<CatchAll>> ELSE s.Names)
        /\ Named(s).Listens = s.Listens /\ Named(s).Pass = s.Pass
        /\ Named(t).Names = (IF t.Names = <<>> THEN <<CatchAll>> ELSE t.Names)
        /\ Named(t).Listens = t.Listens /\ Named(t).Pass = t.Pass
    BY DEF Named, ServerBlock
  <2> QED BY <2>1, <2>2 DEF Route
<1> HIDE DEF ServerBlock
<1>3. ASSUME NEW z \in Seq(ServerBlock)
      PROVE  /\ NamedAll(z) = [k \in 1 .. Len(z) |-> Named(z[k])]
             /\ NamedAll(z) \in Seq(ServerBlock) /\ Len(NamedAll(z)) = Len(z)
             /\ z # <<>> => NamedAll(z) # <<>>
             /\ Files(NamedAll(z)) = [k \in 1 .. Len(z) |-> Named(z[k]).File]
             /\ Routing(NamedAll(z)) = [k \in 1 .. Len(z) |-> Route(Named(z[k]))]
  <2>1. NamedAll(z) = [k \in 1 .. Len(z) |-> Named(z[k])]
    BY DEF NamedAll
  <2>2. \A k \in 1 .. Len(z) : z[k] \in ServerBlock /\ Named(z[k]) \in ServerBlock
    BY <1>1
  <2>3. NamedAll(z) \in Seq(ServerBlock) /\ Len(NamedAll(z)) = Len(z)
    BY <2>1, <2>2
  <2>4. z # <<>> => NamedAll(z) # <<>>
    <3>1. PICK w : w = NamedAll(z)
      OBVIOUS
    <3>2. w = <<>> => Len(w) = 0
      OBVIOUS
    <3>3. Len(z) = 0 => z = <<>>
      OBVIOUS
    <3> QED BY <2>3, <3>1, <3>2, <3>3
  <2> QED BY <2>1, <2>3, <2>4 DEF Files, Routing, Route
<1>4. \A k \in 1 .. Len(x) : x[k] \in ServerBlock /\ \A j \in 1 .. Len(y) : y[j] \in ServerBlock
  OBVIOUS
<1>5. ASSUME SameFiles(x, y) PROVE Files(NamedAll(x)) = Files(NamedAll(y))
  <2>1. Len(x) = Len(y) /\ \A k \in 1 .. Len(x) : x[k].File = y[k].File
    BY <1>5 DEF SameFiles
  <2>2. \A k \in 1 .. Len(x) : Named(x[k]).File = Named(y[k]).File
    BY <1>1, <1>4, <2>1
  <2> QED BY <1>3, <2>1, <2>2
<1>6. ASSUME SameRoutes(x, y) PROVE Routing(NamedAll(x)) = Routing(NamedAll(y))
  <2>1. Len(x) = Len(y) /\ \A k \in 1 .. Len(x) : Route(x[k]) = Route(y[k])
    BY <1>6 DEF SameRoutes
  <2>2. \A k \in 1 .. Len(x) : Route(Named(x[k])) = Route(Named(y[k]))
    BY <1>2, <1>4, <2>1
  <2> QED BY <1>3, <2>1, <2>2
<1> QED BY <1>3, <1>5, <1>6

(* The routes of server blocks do not depend on the file, nor do the files *)
(* on what is said.                                                        *)
LEMMA RestSame ==
  ASSUME NEW q \in Seq(Said), q # <<>>, NEW r \in Seq(Said), r # <<>>, NEW f \in File, NEW g \in File
  PROVE  /\ SameRoutes(Rest(q, f), Rest(q, g))
         /\ Len(q) = Len(r) => SameFiles(Rest(q, f), Rest(r, f))
<1>1. \A s, h : InFile(s, h).File = h /\ Route(InFile(s, h)) = Route(s)
  BY DEF InFile, Route
<1>2. /\ Len(Rest(q, f)) = Len(q) - 1 /\ \A k \in 1 .. Len(q) - 1 : Rest(q, f)[k] = InFile(q[k + 1], f)
      /\ Len(Rest(q, g)) = Len(q) - 1 /\ \A k \in 1 .. Len(q) - 1 : Rest(q, g)[k] = InFile(q[k + 1], g)
      /\ Len(Rest(r, f)) = Len(r) - 1 /\ \A k \in 1 .. Len(r) - 1 : Rest(r, f)[k] = InFile(r[k + 1], f)
  BY RestType
<1> HIDE DEF InFile, Route, Rest
<1> QED BY <1>1, <1>2 DEF SameRoutes, SameFiles

(* Being told more does not move a server block to another file. *)
LEMMA MoreFiles ==
  ASSUME NEW S \in Seq(ServerBlock), NEW in \in BOOLEAN, in => S # <<>>, NEW x \in Said
  PROVE  SameFiles(More(S, in, x), S)
<1>1. CASE in
  <2>1. PICK n, e : n = Len(S) /\ e = InFile(Joined(S[n], x), S[n].File)
    OBVIOUS
  <2>2. n \in 1 .. n /\ DOMAIN S = 1 .. n
    BY <1>1, <2>1
  <2>3. More(S, in, x) = [S EXCEPT ![n] = e]
    BY <1>1, <2>1 DEF More
  <2>4. S[n] \in ServerBlock
    BY <2>1, <2>2
  <2>5. e \in ServerBlock
    BY <2>1, <2>4, JoinedType
  <2>6. /\ Len([S EXCEPT ![n] = e]) = n /\ [S EXCEPT ![n] = e][n] = e
        /\ \A k \in 1 .. n : k # n => [S EXCEPT ![n] = e][k] = S[k]
    BY <2>1, <2>2, <2>5, ExceptSeq
  <2>7. e.File = S[n].File
    BY <2>1 DEF InFile
  <2> QED BY <2>1, <2>3, <2>6, <2>7 DEF SameFiles
<1>2. CASE ~in
  BY <1>2 DEF More, SameFiles
<1> QED BY <1>1, <1>2

(* Assoc, for server blocks. *)
LEMMA BlocksAssoc ==
  \A x, y, z \in Seq(ServerBlock) : (x \o y) \o z = x \o (y \o z)
BY Assoc

(* TotalType, for every list. *)
LEMMA TotalBlocks ==
  \A A \in Seq(Said), x, y \in Said : A # <<>> =>
    /\ Total(A, x, y) \in Seq(ServerBlock) /\ Len(Total(A, x, y)) = Len(A) - 1
    /\ \A k \in 1 .. Len(A) - 1 :
         Total(A, x, y)[k] = InFile(IF k = Len(A) - 1 THEN Joined(Joined(Last(A), x), y) ELSE A[k + 1], "main")
BY TotalType

(* The files of the blocks, where only the numbers of blocks are known. *)
SameLen(x, y) == Len(x) = Len(y)
(* In what nginx -T prints each server block has its file, however much is *)
(* said of it.                                                             *)
LEMMA PrintedFiles ==
  ASSUME NEW A \in Seq(Said), A # <<>>, NEW I \in Seq(Said), I # <<>>, NEW R \in Seq(Said), R # <<>>,
         NEW a \in Seq(Said), SameLen(a, A), NEW i \in Seq(Said), SameLen(i, I),
         NEW r \in Seq(Said), SameLen(r, R), NEW in \in BOOLEAN, in => Len(A) > 1
  PROVE  LET X == Ext(Ext(Ext(<<>>, FALSE, a, "main"), in, r, "main"), FALSE, i, "inc") IN
         /\ X \in Seq(ServerBlock)
         /\ SameFiles(X, Total(A, I[1], R[1]) \o (Rest(R, "main") \o Rest(I, "inc")))
<1> USE DEF SameLen
<1>0. NewServer \in Said /\ "main" \in File /\ "inc" \in File
  BY EmptyPart DEF File
<1>1. a # <<>> /\ i # <<>> /\ r # <<>>
  <2>1. \A z \in Seq(Said) : z # <<>> => Len(z) > 0
    OBVIOUS
  <2>2. Len(A) > 0 /\ Len(I) > 0 /\ Len(R) > 0
    BY <2>1
  <2> QED BY <2>2
<1>2. PICK S, M, t, x, y : /\ S = Ext(<<>>, FALSE, a, "main") /\ M = More(S, in, r[1])
                           /\ t = Total(A, I[1], R[1]) /\ x = Rest(r, "main") /\ y = Rest(i, "inc")
  OBVIOUS
<1>3. /\ S = Rest(a, "main") /\ S \in Seq(ServerBlock) /\ Len(S) = Len(a) - 1
      /\ \A k \in 1 .. Len(a) - 1 : S[k] = InFile(a[k + 1], "main")
      /\ r[1] \in Said /\ x \in Seq(ServerBlock) /\ y \in Seq(ServerBlock)
      /\ I[1] \in Said /\ R[1] \in Said
  BY <1>0, <1>1, <1>2, RestType
<1>4. in => S # <<>>
  <2>1. in => Len(S) > 0
    BY <1>3
  <2>2. Len(<<>>) = 0
    OBVIOUS
  <2> QED BY <2>1, <2>2
<1>5. M \in Seq(ServerBlock) /\ SameFiles(M, S)
  BY <1>0, <1>1, <1>2, <1>3, <1>4, ExtType, MoreFiles
<1>6. t \in Seq(ServerBlock) /\ Len(t) = Len(A) - 1 /\ \A k \in 1 .. Len(A) - 1 : t[k].File = "main"
  <2>1. /\ t \in Seq(ServerBlock) /\ Len(t) = Len(A) - 1
        /\ \A k \in 1 .. Len(A) - 1 :
             t[k] = InFile(IF k = Len(A) - 1 THEN Joined(Joined(Last(A), I[1]), R[1]) ELSE A[k + 1], "main")
    <3>1. I[1] \in Said /\ R[1] \in Said
      BY <1>3
    <3> QED BY <1>2, <3>1, TotalBlocks, Zenon
  <2>2. \A s : InFile(s, "main").File = "main"
    BY DEF InFile
  <2> QED BY <2>1, <2>2
<1>7. SameFiles(M, t)
  <2>1. \A s : InFile(s, "main").File = "main"
    BY DEF InFile
  <2>2. Len(S) = Len(t) /\ \A k \in 1 .. Len(S) : S[k].File = t[k].File
    BY <1>3, <1>6, <2>1
  <2> QED BY <1>5, <2>2 DEF SameFiles
<1>8. SameFiles(x, Rest(R, "main")) /\ SameFiles(y, Rest(I, "inc"))
  BY <1>0, <1>1, <1>2, RestSame
<1>9. Rest(R, "main") \in Seq(ServerBlock) /\ Rest(I, "inc") \in Seq(ServerBlock)
  BY <1>0, RestType
<1>10. Ext(Ext(S, in, r, "main"), FALSE, i, "inc") = M \o (x \o y)
  <2>1. Ext(S, in, r, "main") = M \o x /\ Ext(M \o x, FALSE, i, "inc") = (M \o x) \o y
    BY <1>2 DEF Ext, More
  <2>2. M \in Seq(ServerBlock) /\ x \in Seq(ServerBlock) /\ y \in Seq(ServerBlock)
    BY <1>3, <1>5
  <2>3. (M \o x) \o y = M \o (x \o y)
    BY <2>2, BlocksAssoc, Zenon
  <2> QED BY <2>1, <2>3
<1>11. x \o y \in Seq(ServerBlock) /\ Rest(R, "main") \o Rest(I, "inc") \in Seq(ServerBlock)
       /\ M \o (x \o y) \in Seq(ServerBlock)
  <2>1. x \o y \in Seq(ServerBlock) /\ Rest(R, "main") \o Rest(I, "inc") \in Seq(ServerBlock)
    BY <1>3, <1>9, Assoc
  <2> QED BY <1>5, <2>1, Assoc
<1>12. SameFiles(x \o y, Rest(R, "main") \o Rest(I, "inc"))
  BY <1>3, <1>8, <1>9, SameConcat
<1>13. SameFiles(M \o (x \o y), t \o (Rest(R, "main") \o Rest(I, "inc")))
  BY <1>5, <1>6, <1>7, <1>11, <1>12, SameConcat
<1> QED BY <1>2, <1>10, <1>11, <1>13

MeantAll(d) ==
  CASE d = "nginx -T"  -> OfMain(servers["inc"][1]) \o (Opened("rest", "main") \o Opened("inc", "inc"))
    [] d = "disk"      -> OfMain(servers["inc"][1]) \o (Opened("inc", "inc") \o Opened("rest", "main"))
    [] d = "main file" -> OfMain(NewServer) \o Opened("rest", "main")
MeantUps(d) ==
  [u \in Up |-> Cat(Cat(members["main"][u], IF d = "main file" THEN Nothing ELSE members["inc"][u]),
                    members["rest"][u])]
MeantWorkers(d) ==
  {workers[p] : p \in IF d = "main file" THEN {"main", "rest"} ELSE Part} \ {Nothing}

(* What the configuration says, part by part. *)
LEMMA MeantSplit ==
  ASSUME NEW q, Writer(q)
  PROVE  /\ \A x : OfMain(x) = Total(servers["main"], x, servers["rest"][1])
         /\ \A p \in Part, f \in File : Opened(p, f) = Rest(servers[p], f)
         /\ ServersMeant = NamedAll(MeantAll(dump))
         /\ \A p \in Part : servers[p] \in Seq(Said) /\ servers[p] # <<>>
                            /\ q[p] \in Seq(Said) /\ q[p] # <<>> /\ Len(q[p]) = Len(servers[p])
<1>1. /\ servers \in [Part -> Seq(Said)] /\ q \in [Part -> Seq(Said)]
      /\ \A p \in Part : Len(q[p]) > 0 /\ Len(servers[p]) = Len(q[p])
  BY DEF Writer, Typed
<1>2. \A x : OfMain(x) = Total(servers["main"], x, servers["rest"][1])
  BY DEF OfMain, Total
<1>3. \A p \in Part : servers[p] \in Seq(Said) /\ servers[p] # <<>>
                      /\ q[p] \in Seq(Said) /\ q[p] # <<>> /\ Len(q[p]) = Len(servers[p])
  <2>1. \A z : z = <<>> => ~(Len(z) > 0)
    OBVIOUS
  <2> QED BY <1>1, <2>1
<1>4. ASSUME NEW p \in Part, NEW f \in File PROVE Opened(p, f) = Rest(servers[p], f)
  <2>1. PICK z : z = servers[p]
    OBVIOUS
  <2>2. z \in Seq(Said) /\ z # <<>>
    BY <1>3, <2>1
  <2>3. DOMAIN Tail(z) = 1 .. Len(z) - 1 /\ \A k \in 1 .. Len(z) - 1 : Tail(z)[k] = z[k + 1]
    BY <2>2
  <2>4. Opened(p, f) = [k \in 1 .. Len(z) - 1 |-> InFile(Tail(z)[k], f)]
    BY <2>1, <2>3 DEF Opened
  <2>5. Rest(z, f) = [k \in 1 .. Len(z) - 1 |-> InFile(z[k + 1], f)]
    BY DEF Rest
  <2> QED BY <2>1, <2>3, <2>4, <2>5
<1>5. ServersMeant = NamedAll(MeantAll(dump))
  BY DEF ServersMeant, NamedAll, MeantAll
<1> QED BY <1>2, <1>3, <1>4, <1>5

(* LoadFromDisk tells Parse the routing that is meant, if the file is not  *)
(* included again.                                                         *)
LEMMA DiskMeant ==
  ASSUME NEW q, Writer(q), q = servers, NEW in \in BOOLEAN, in <=> InServer(base)
  PROVE  LET X == Ext(Ext(Ext(<<>>, FALSE, q["main"], "main"), in, q["inc"], "inc"), in, q["rest"], "inc") IN
         Routing(NamedAll(X)) = Routing(NamedAll(MeantAll("disk")))
<1>1. PICK A, I, R : A = q["main"] /\ I = q["inc"] /\ R = q["rest"]
  OBVIOUS
<1>2. /\ A \in Seq(Said) /\ A # <<>> /\ I \in Seq(Said) /\ I # <<>> /\ R \in Seq(Said) /\ R # <<>>
      /\ (\A x : OfMain(x) = Total(A, x, R[1])) /\ Opened("inc", "inc") = Rest(I, "inc")
      /\ Opened("rest", "main") = Rest(R, "main")
  BY <1>1, MeantSplit DEF Part, File
<1>3. /\ in => Len(A) > 1 /\ Len(I) = 1
      /\ ~in => I[1] = NewServer /\ R[1] = NewServer
  <2>1. ServersSaid(q) /\ PathOK(base)
    BY DEF Writer, Typed
  <2>2. InServer(base) => ~Whole(base)
    BY <2>1, WholeServer
  <2> QED BY <1>1, <2>1, <2>2 DEF ServersSaid
<1>4. PICK t, i, r, g : t = Total(A, I[1], R[1]) /\ i = Rest(I, "inc") /\ r = Rest(R, "inc") /\ g = Rest(R, "main")
  OBVIOUS
<1>5. Ext(Ext(Ext(<<>>, FALSE, A, "main"), in, I, "inc"), in, R, "inc") = t \o (i \o r)
  BY <1>2, <1>3, <1>4, DiskServers
<1>6. /\ i \in Seq(ServerBlock) /\ r \in Seq(ServerBlock) /\ g \in Seq(ServerBlock)
      /\ I[1] \in Said /\ R[1] \in Said
  BY <1>2, <1>4, RestType DEF File
<1>7. t \in Seq(ServerBlock)
  BY <1>2, <1>4, <1>6, TotalBlocks, Zenon
<1>8. SameRoutes(r, g)
  BY <1>2, <1>4, RestSame DEF File
<1>9. SameRoutes(i \o r, i \o g) /\ i \o r \in Seq(ServerBlock) /\ i \o g \in Seq(ServerBlock)
  <2>1. SameRoutes(i, i)
    BY <1>6, SameConcat
  <2> QED BY <1>6, <1>8, <2>1, SameConcat, Assoc
<1>10. SameRoutes(t \o (i \o r), t \o (i \o g)) /\ t \o (i \o r) \in Seq(ServerBlock) /\ t \o (i \o g) \in Seq(ServerBlock)
  <2>1. SameRoutes(t, t)
    BY <1>7, SameConcat
  <2> QED BY <1>7, <1>9, <2>1, SameConcat, Assoc
<1>11. Routing(NamedAll(t \o (i \o r))) = Routing(NamedAll(t \o (i \o g)))
  BY <1>10, SameNamed
<1>12. MeantAll("disk") = t \o (i \o g)
  BY <1>1, <1>2, <1>4 DEF MeantAll
<1> QED BY <1>1, <1>5, <1>11, <1>12

(* nginx -T tells Parse the file of each server block, and the routing if  *)
(* the included file has nothing that Parse knows, or whole blocks.        *)
LEMMA PrintedMeant ==
  ASSUME NEW q, Writer(q), NEW in \in BOOLEAN, in <=> InServer(base)
  PROVE  LET X == Ext(Ext(Ext(<<>>, FALSE, q["main"], "main"), in, q["rest"], "main"), FALSE, q["inc"], "inc") IN
         /\ Files(NamedAll(X)) = Files(NamedAll(MeantAll("nginx -T")))
         /\ ~Snippets => Routing(NamedAll(X)) = Routing(NamedAll(MeantAll("nginx -T")))
<1>1. PICK A, I, R : A = servers["main"] /\ I = servers["inc"] /\ R = servers["rest"]
  OBVIOUS
<1>2. /\ A \in Seq(Said) /\ A # <<>> /\ I \in Seq(Said) /\ I # <<>> /\ R \in Seq(Said) /\ R # <<>>
      /\ (\A x : OfMain(x) = Total(A, x, R[1])) /\ Opened("inc", "inc") = Rest(I, "inc")
      /\ Opened("rest", "main") = Rest(R, "main")
  BY <1>1, MeantSplit DEF Part, File
<1>3. PICK a, i, r : a = q["main"] /\ i = q["inc"] /\ r = q["rest"]
  OBVIOUS
<1>4. /\ a \in Seq(Said) /\ Len(a) = Len(A) /\ i \in Seq(Said) /\ Len(i) = Len(I)
      /\ r \in Seq(Said) /\ Len(r) = Len(R)
  BY <1>1, <1>3, MeantSplit DEF Part
<1>5. /\ ServersSaid(q) /\ PathOK(base) /\ (InServer(base) => ~Whole(base))
  <2>1. ServersSaid(q) /\ PathOK(base)
    BY DEF Writer, Typed
  <2> QED BY <2>1, WholeServer
<1>6. in => Len(A) > 1
  BY <1>3, <1>4, <1>5 DEF ServersSaid
<1>7. PICK X, t, g, h : /\ X = Ext(Ext(Ext(<<>>, FALSE, a, "main"), in, r, "main"), FALSE, i, "inc")
                        /\ t = Total(A, I[1], R[1]) /\ g = Rest(R, "main") /\ h = Rest(I, "inc")
  OBVIOUS
<1>8. X \in Seq(ServerBlock) /\ SameFiles(X, t \o (g \o h))
  <2>1. a \in Seq(Said) /\ SameLen(a, A) /\ i \in Seq(Said) /\ SameLen(i, I) /\ r \in Seq(Said) /\ SameLen(r, R)
    BY <1>4 DEF SameLen
  <2> QED BY <1>2, <1>6, <1>7, <2>1, PrintedFiles
<1>9. /\ g \in Seq(ServerBlock) /\ h \in Seq(ServerBlock) /\ I[1] \in Said /\ R[1] \in Said
  BY <1>2, <1>7, RestType DEF File
<1>10. t \in Seq(ServerBlock)
  BY <1>2, <1>7, <1>9, TotalBlocks, Zenon
<1>11. t \o (g \o h) \in Seq(ServerBlock)
  <2>1. g \o h \in Seq(ServerBlock)
    BY <1>9, Assoc
  <2> QED BY <1>10, <2>1, Assoc
<1>12. MeantAll("nginx -T") = t \o (g \o h)
  BY <1>1, <1>2, <1>7 DEF MeantAll
<1>13. Files(NamedAll(X)) = Files(NamedAll(t \o (g \o h)))
  BY <1>8, <1>11, SameNamed
<1>14. ASSUME ~Snippets PROVE X = t \o (g \o h)
  <2>1. q = servers
    BY <1>5, <1>14 DEF ServersSaid
  <2>2. a = A /\ i = I /\ r = R
    BY <1>1, <1>3, <2>1
  <2>3. I[1] = NewServer /\ (~in => R[1] = NewServer)
    BY <1>3, <1>5, <1>14, <2>2 DEF ServersSaid
  <2> QED BY <1>2, <1>6, <1>7, <2>2, <2>3, PrintedServers
<1> QED BY <1>3, <1>7, <1>12, <1>13, <1>14

(* Without the included file the rest of the routing is what it means. *)
LEMMA MainFileMeant ==
  ASSUME NEW q, Writer(q), q = servers, NEW in \in BOOLEAN, in <=> InServer(base)
  PROVE  Ext(Ext(<<>>, FALSE, q["main"], "main"), in, q["rest"], "main") = MeantAll("main file")
<1>0. NewServer \in Said /\ "main" \in File
  BY EmptyPart DEF File
<1>1. PICK A, R : A = q["main"] /\ R = q["rest"]
  OBVIOUS
<1>2. /\ A \in Seq(Said) /\ A # <<>> /\ R \in Seq(Said) /\ R # <<>>
      /\ OfMain(NewServer) = Total(A, NewServer, R[1]) /\ Opened("rest", "main") = Rest(R, "main")
  BY <1>1, MeantSplit DEF Part, File
<1>3. (in => Len(A) > 1) /\ (~in => R[1] = NewServer)
  <2>1. ServersSaid(q)
    BY DEF Writer
  <2> QED BY <1>1, <2>1 DEF ServersSaid
<1>4. PICK S : S = Ext(<<>>, FALSE, A, "main")
  OBVIOUS
<1>5. S = Total(A, NewServer, NewServer)
  <2>1. S = Rest(A, "main")
    BY <1>0, <1>2, <1>4, RestType
  <2> QED BY <1>0, <1>2, <2>1, TotalMore
<1>6. R[1] \in Said
  BY <1>0, <1>2, RestType
<1>7. More(S, in, R[1]) = Total(A, NewServer, R[1])
  <2>1. CASE in
    <3>1. More(S, TRUE, R[1]) = Total(A, NewServer, R[1])
      BY <1>0, <1>2, <1>3, <1>5, <1>6, <2>1, TotalMore
    <3> QED BY <2>1, <3>1 DEF More
  <2>2. CASE ~in
    BY <1>3, <1>5, <2>2 DEF More
  <2> QED BY <2>1, <2>2
<1>8. Ext(S, in, R, "main") = Total(A, NewServer, R[1]) \o Rest(R, "main")
  BY <1>7 DEF Ext
<1> QED BY <1>1, <1>2, <1>4, <1>8 DEF MeantAll

(* The members, and the workers. *)
LEMMA UpstreamsAdded ==
  ASSUME NEW q, Writer(q), NEW u \in Up
  PROVE  LET a == members["main"][u]
             i == members["inc"][u]
             r == members["rest"][u]
             one == IF Opens("main", u) THEN a ELSE Nothing
             two == IF Opens("inc", u) THEN i ELSE IF UpOf(base) = u THEN Cat(one, i) ELSE one
             prt == IF Opens("rest", u) THEN r ELSE IF UpOf(base) = u THEN Cat(one, r) ELSE one
         IN /\ (IF Opens("rest", u) THEN r ELSE IF UpOf(base) = u THEN Cat(two, r) ELSE two)
                 = Cat(Cat(a, i), r)
            /\ ~Snippets => (IF Opens("inc", u) THEN i ELSE prt) = Cat(Cat(a, i), r)
            /\ prt = Cat(Cat(a, Nothing), r)
<1>1. MembersSaid /\ PathOK(base)
  BY DEF Writer, Typed
<1>2. PICK a, i, r : a = members["main"][u] /\ i = members["inc"][u] /\ r = members["rest"][u]
  OBVIOUS
<1>3. PICK m, n, o : m = Opens("main", u) /\ n = Opens("inc", u) /\ o = Opens("rest", u)
  OBVIOUS
<1>4. /\ Opens("main", u) => a # Nothing
      /\ a # Nothing => Opens("main", u)
      /\ Opens("inc", u) => i # Nothing /\ a = Nothing /\ r = Nothing
      /\ Opens("rest", u) => r # Nothing /\ a = Nothing /\ i = Nothing
      /\ i # Nothing => Opens("inc", u) \/ UpOf(base) = u
      /\ r # Nothing => Opens("rest", u) \/ UpOf(base) = u
      /\ ~Snippets /\ ~Whole(base) => i = Nothing
      /\ ~Whole(base) => ~Opens("inc", u)
      /\ UpOf(base) = u => ~Whole(base) /\ Opens("main", u)
  <2>1. u # Nothing
    BY NothingApart
  <2>2. UpOf(base) # Nothing => ~Whole(base)
    BY <1>1, WholeServer
  <2> QED BY <1>1, <1>2, <2>1, <2>2 DEF MembersSaid, Part
<1>5. \A x : Cat(x, Nothing) = x /\ Cat(Nothing, x) = x
  BY DEF Cat
<1> QED BY <1>2, <1>4, <1>5

(* worker_processes is written once, so the last one read is that one. *)
LEMMA WorkersAdded ==
  ASSUME NEW q, Writer(q)
  PROVE  LET one == IF workers["main"] = Nothing THEN Nothing ELSE workers["main"]
             two == IF workers["inc"] = Nothing THEN one ELSE workers["inc"]
             prt == IF workers["rest"] = Nothing THEN one ELSE workers["rest"]
         IN /\ {IF workers["rest"] = Nothing THEN two ELSE workers["rest"]} \ {Nothing} = MeantWorkers("disk")
            /\ {IF workers["inc"] = Nothing THEN prt ELSE workers["inc"]} \ {Nothing} = MeantWorkers("nginx -T")
            /\ {prt} \ {Nothing} = MeantWorkers("main file")
<1>1. \A p, r \in Part : workers[p] # Nothing /\ workers[r] # Nothing => p = r
  BY DEF Writer, WorkersSaid
<1>2. PICK a, i, r : a = workers["main"] /\ i = workers["inc"] /\ r = workers["rest"]
  OBVIOUS
<1>3. /\ a # Nothing => i = Nothing /\ r = Nothing
      /\ i # Nothing => a = Nothing /\ r = Nothing
      /\ r # Nothing => a = Nothing /\ i = Nothing
  BY <1>1, <1>2 DEF Part
<1>4. /\ MeantWorkers("disk") = {a, i, r} \ {Nothing} /\ MeantWorkers("nginx -T") = {a, i, r} \ {Nothing}
      /\ MeantWorkers("main file") = {a, r} \ {Nothing}
  BY <1>2 DEF MeantWorkers, Part
<1> QED BY <1>2, <1>3, <1>4

-----------------------------------------------------------------------------
(* The run of Parse over each of the two texts.                            *)
Empty == State(<<>>, Nothing, [u \in Up |-> Nothing], <<>>, Nothing)

(* Parse starts in a good state. *)
LEMMA EmptyGood ==
  /\ Good(Empty) /\ Empty.stack = <<>> /\ Empty.up = Nothing /\ Empty.ups = [u \in Up |-> Nothing]
  /\ Empty.all = <<>> /\ Empty.w = Nothing /\ ~InBlock(<<>>, "server")
  /\ From("main", Empty)
<1>1. /\ Empty.stack = <<>> /\ Empty.up = Nothing /\ Empty.ups = [u \in Up |-> Nothing]
      /\ Empty.all = <<>> /\ Empty.w = Nothing
      /\ Empty = State(Empty.stack, Empty.up, Empty.ups, Empty.all, Empty.w)
  BY DEF Empty, State
<1>2. \A y : ~InBlock(<<>>, y)
  BY DEF InBlock
<1>3. Rooted(<<>>)
  BY DEF Rooted
<1>4. Good(Empty)
  BY <1>1, <1>2, <1>3 DEF Good, Lists
<1> QED BY <1>1, <1>2, <1>4 DEF From

(* The words of a part are tokens. *)
LEMMA PartTokens ==
  ASSUME NEW q, Writer(q), NEW p \in Part, NEW f \in File
  PROVE  Marked(text[p], f) \in Seq(Tokens)
<1>1. text[p] \in Seq(Items)
  BY DEF Writer, Typed
<1>2. Item("close", "http", Nothing) \in Items
  BY ItemType DEF Blocks
<1> QED BY <1>1, <1>2, MarkedAppend

(* The state after a part is made of its fields. *)
LEMMA ReadAsState ==
  ASSUME NEW q, NEW p, NEW f, NEW s, NEW m, m = Read(q, p, f, s)
  PROVE  m = State(m.stack, m.up, m.ups, m.all, m.w)
BY DEF Read, State

(* What Parse knows after the first part. *)
LEMMA MainRead ==
  ASSUME NEW q, Writer(q), Reads(q), path = <<>>, part # "inc",
         NEW m, m = Read(q, "main", "main", Empty)
  PROVE  /\ Leads(Empty, Marked(text["main"], "main"), m)
         /\ From("inc", m) /\ From("rest", m)
         /\ m.stack = NamesOf(base) /\ m.up = UpOf(base)
         /\ m.all = Ext(<<>>, FALSE, q["main"], "main")
         /\ \A u \in Up : m.ups[u] = IF Opens("main", u) THEN members["main"][u] ELSE Nothing
         /\ m.w = IF workers["main"] = Nothing THEN Nothing ELSE workers["main"]
<1>1. Leads(Empty, Marked(text["main"], "main"), m)
  BY EmptyGood DEF Reads, Part, File
<1>2. Good(m)
  <2>1. Marked(text["main"], "main") \in Seq(Tokens)
    BY PartTokens DEF Part, File
  <2> QED BY <1>1, <2>1, LeadsGood
<1>3. part = "main" => base = <<>>
  BY DEF Writer, Placed
<1>4. /\ m.stack = EndStack("main", Empty) /\ m.up = EndUp("main", Empty) /\ m.ups = EndUps("main", Empty)
      /\ m.all = EndAll(q, "main", "main", Empty) /\ m.w = EndW("main", Empty)
  BY ReadFields
<1>5. m.stack = NamesOf(base) /\ m.up = UpOf(base)
  BY <1>3, <1>4 DEF EndStack, EndUp
<1>6. m.all = Ext(<<>>, FALSE, q["main"], "main")
  <2>1. InBlock(Empty.stack, "server") = FALSE
    BY EmptyGood DEF InBlock
  <2> QED BY <1>4, <2>1, EmptyGood DEF EndAll
<1>7. \A u \in Up : m.ups[u] = IF Opens("main", u) THEN members["main"][u] ELSE Nothing
  BY <1>4, EmptyGood, NothingApart DEF EndUps
<1>8. m.w = IF workers["main"] = Nothing THEN Nothing ELSE workers["main"]
  BY <1>4, EmptyGood DEF EndW
<1>9. m = State(m.stack, m.up, m.ups, m.all, m.w)
  BY ReadAsState
<1>10. From("inc", m) /\ From("rest", m)
  BY <1>2, <1>5, <1>9 DEF From
<1> QED BY <1>1, <1>5, <1>6, <1>7, <1>8, <1>10

(* Parsing what LoadFromDisk returns leads to the servers, upstreams and   *)
(* workers of the parts in their order.                                    *)
LEMMA DiskLeads ==
  ASSUME NEW q, Writer(q), Reads(q), path = <<>>, part # "inc", NEW in \in BOOLEAN, in <=> InServer(base)
  PROVE  \E t : /\ Leads(Empty, LoadFromDisk, t)
                /\ t.all = Ext(Ext(Ext(<<>>, FALSE, q["main"], "main"), in, q["inc"], "inc"), in, q["rest"], "inc")
                /\ t.ups = MeantUps("disk") /\ {t.w} \ {Nothing} = MeantWorkers("disk")
<1>1. PICK m : m = Read(q, "main", "main", Empty)
  OBVIOUS
<1>2. /\ Leads(Empty, Marked(text["main"], "main"), m) /\ From("inc", m)
      /\ m.stack = NamesOf(base) /\ m.up = UpOf(base)
      /\ m.all = Ext(<<>>, FALSE, q["main"], "main")
      /\ \A u \in Up : m.ups[u] = IF Opens("main", u) THEN members["main"][u] ELSE Nothing
      /\ m.w = IF workers["main"] = Nothing THEN Nothing ELSE workers["main"]
  BY <1>1, MainRead
<1>3. PICK n : n = Read(q, "inc", "inc", m)
  OBVIOUS
<1>4. PICK t : t = Read(q, "rest", "inc", n)
  OBVIOUS
<1>5. Leads(m, Marked(text["inc"], "inc"), n)
  BY <1>2, <1>3 DEF Reads, Part, File
<1>6. PathOK(base) /\ part \in Part /\ (InBlock(NamesOf(base), "server") <=> InServer(base))
  <2>1. PathOK(base) /\ part \in Part
    BY DEF Writer, Typed
  <2> QED BY <2>1, NamesType
<1>7. /\ n.stack = NamesOf(base) /\ n.up = UpOf(base) /\ n.ups = EndUps("inc", m)
      /\ n.all = EndAll(q, "inc", "inc", m) /\ n.w = EndW("inc", m)
  <2>1. /\ n.stack = EndStack("inc", m) /\ n.up = EndUp("inc", m) /\ n.ups = EndUps("inc", m)
        /\ n.all = EndAll(q, "inc", "inc", m) /\ n.w = EndW("inc", m)
    BY <1>3, ReadFields
  <2> QED BY <1>2, <2>1 DEF EndStack, EndUp
<1>8. From("rest", n)
  <2>1. Marked(text["inc"], "inc") \in Seq(Tokens)
    BY PartTokens DEF Part, File
  <2>2. Good(n)
    BY <1>5, <2>1, LeadsGood
  <2>3. n = State(n.stack, n.up, n.ups, n.all, n.w)
    BY <1>3, ReadAsState
  <2> QED BY <1>7, <2>2, <2>3 DEF From
<1>9. Leads(n, Marked(text["rest"], "inc"), t)
  BY <1>4, <1>8 DEF Reads, Part, File
<1>10. Leads(Empty, LoadFromDisk, t)
  <2>1. PICK x, y, z : x = Marked(text["main"], "main") /\ y = Marked(text["inc"], "inc") /\ z = Marked(text["rest"], "inc")
    OBVIOUS
  <2>2. x \in Seq(Tokens) /\ y \in Seq(Tokens) /\ z \in Seq(Tokens)
    BY <2>1, PartTokens DEF Part, File
  <2>3. Leads(Empty, x \o y, n) /\ x \o y \in Seq(Tokens)
    BY <1>2, <1>5, <2>1, <2>2, LeadsOn, Concatenated
  <2>4. Leads(Empty, (x \o y) \o z, t)
    <3>1. PICK xy : xy = x \o y
      OBVIOUS
    <3>2. Leads(Empty, xy, n) /\ xy \in Seq(Tokens) /\ Leads(n, z, t) /\ z \in Seq(Tokens)
      BY <1>9, <2>1, <2>2, <2>3, <3>1
    <3>3. Leads(Empty, xy \o z, t)
      BY <3>2, LeadsOn
    <3> QED BY <3>1, <3>3
  <2> QED BY <2>1, <2>4 DEF LoadFromDisk
<1>11. /\ t.ups = EndUps("rest", n) /\ t.all = EndAll(q, "rest", "inc", n) /\ t.w = EndW("rest", n)
  BY <1>4, ReadFields
<1>12. t.all = Ext(Ext(Ext(<<>>, FALSE, q["main"], "main"), in, q["inc"], "inc"), in, q["rest"], "inc")
  <2>1. in = InBlock(m.stack, "server") /\ in = InBlock(n.stack, "server")
    BY <1>2, <1>6, <1>7 DEF InBlock
  <2> QED BY <1>2, <1>7, <1>11, <2>1 DEF EndAll
<1>13. t.ups = MeantUps("disk")
  <2>1. ASSUME NEW u \in Up
        PROVE  t.ups[u] = Cat(Cat(members["main"][u], members["inc"][u]), members["rest"][u])
    <3>1. PICK one, two : /\ one = (IF Opens("main", u) THEN members["main"][u] ELSE Nothing)
                          /\ two = (IF Opens("inc", u) THEN members["inc"][u]
                                    ELSE IF UpOf(base) = u THEN Cat(one, members["inc"][u]) ELSE one)
      OBVIOUS
    <3>2. m.ups[u] = one
      BY <1>2, <3>1
    <3>3. n.ups[u] = two
      BY <1>2, <1>7, <3>1, <3>2 DEF EndUps
    <3>4. t.ups[u] = IF Opens("rest", u) THEN members["rest"][u]
                     ELSE IF UpOf(base) = u THEN Cat(two, members["rest"][u]) ELSE two
      BY <1>7, <1>11, <3>3 DEF EndUps
    <3> QED BY <3>1, <3>4, UpstreamsAdded
  <2>2. t.ups = [u \in Up |-> t.ups[u]]
    BY <1>11 DEF EndUps
  <2> QED BY <2>1, <2>2 DEF MeantUps
<1>14. {t.w} \ {Nothing} = MeantWorkers("disk")
  <2>1. t.w = IF workers["rest"] = Nothing
              THEN IF workers["inc"] = Nothing THEN IF workers["main"] = Nothing THEN Nothing ELSE workers["main"]
                   ELSE workers["inc"]
              ELSE workers["rest"]
    BY <1>2, <1>7, <1>11 DEF EndW
  <2> QED BY <2>1, WorkersAdded
<1> QED BY <1>10, <1>12, <1>13, <1>14

(* Parsing what nginx -T prints leads to those of the included file last. *)
LEMMA PrintedLeads ==
  ASSUME NEW q, Writer(q), Reads(q), path = <<>>, part # "inc", NEW in \in BOOLEAN, in <=> InServer(base)
  PROVE  \E t : /\ Leads(Empty, NginxT, t)
                /\ t.all = Ext(Ext(Ext(<<>>, FALSE, q["main"], "main"), in, q["rest"], "main"), FALSE, q["inc"], "inc")
                /\ ~Snippets => t.ups = MeantUps("nginx -T")
                /\ {t.w} \ {Nothing} = MeantWorkers("nginx -T")
<1>1. PICK m : m = Read(q, "main", "main", Empty)
  OBVIOUS
<1>2. /\ Leads(Empty, Marked(text["main"], "main"), m) /\ From("rest", m)
      /\ m.stack = NamesOf(base) /\ m.up = UpOf(base)
      /\ m.all = Ext(<<>>, FALSE, q["main"], "main")
      /\ \A u \in Up : m.ups[u] = IF Opens("main", u) THEN members["main"][u] ELSE Nothing
      /\ m.w = IF workers["main"] = Nothing THEN Nothing ELSE workers["main"]
  BY <1>1, MainRead
<1>3. PICK n : n = Read(q, "rest", "main", m)
  OBVIOUS
<1>4. PICK t : t = Read(q, "inc", "inc", n)
  OBVIOUS
<1>5. Leads(m, Marked(text["rest"], "main"), n)
  BY <1>2, <1>3 DEF Reads, Part, File
<1>6. /\ PathOK(base) /\ part \in Part /\ (InBlock(NamesOf(base), "server") <=> InServer(base))
      /\ NamesOf(<<>>) = <<>> /\ UpOf(<<>>) = Nothing
      /\ (part = "main" => base = <<>>)
  <2>1. PathOK(base) /\ part \in Part /\ (part = "main" => base = <<>>)
    BY DEF Writer, Typed, Placed
  <2>2. NamesOf(<<>>) = <<>> /\ UpOf(<<>>) = Nothing
    BY DEF NamesOf, UpOf
  <2> QED BY <2>1, <2>2, NamesType
<1>7. /\ n.stack = <<>> /\ n.up = Nothing /\ n.ups = EndUps("rest", m)
      /\ n.all = EndAll(q, "rest", "main", m) /\ n.w = EndW("rest", m)
  <2>1. /\ n.stack = EndStack("rest", m) /\ n.up = EndUp("rest", m) /\ n.ups = EndUps("rest", m)
        /\ n.all = EndAll(q, "rest", "main", m) /\ n.w = EndW("rest", m)
    BY <1>3, ReadFields
  <2> QED BY <1>2, <1>6, <2>1 DEF EndStack, EndUp, Part
<1>8. From("inc", n)
  <2>1. Marked(text["rest"], "main") \in Seq(Tokens)
    BY PartTokens DEF Part, File
  <2>2. Good(n)
    BY <1>5, <2>1, LeadsGood
  <2>3. n = State(n.stack, n.up, n.ups, n.all, n.w)
    BY <1>3, ReadAsState
  <2> QED BY <1>7, <2>2, <2>3 DEF From
<1>9. Leads(n, Marked(text["inc"], "inc"), t)
  BY <1>4, <1>8 DEF Reads, Part, File
<1>10. Leads(Empty, NginxT, t)
  <2>1. PICK x, y, z : x = Marked(text["main"], "main") /\ y = Marked(text["rest"], "main") /\ z = Marked(text["inc"], "inc")
    OBVIOUS
  <2>2. x \in Seq(Tokens) /\ y \in Seq(Tokens) /\ z \in Seq(Tokens)
    BY <2>1, PartTokens DEF Part, File
  <2>3. Leads(Empty, x \o y, n) /\ x \o y \in Seq(Tokens)
    BY <1>2, <1>5, <2>1, <2>2, LeadsOn, Concatenated
  <2>4. Leads(Empty, (x \o y) \o z, t)
    <3>1. PICK xy : xy = x \o y
      OBVIOUS
    <3>2. Leads(Empty, xy, n) /\ xy \in Seq(Tokens) /\ Leads(n, z, t) /\ z \in Seq(Tokens)
      BY <1>9, <2>1, <2>2, <2>3, <3>1
    <3>3. Leads(Empty, xy \o z, t)
      BY <3>2, LeadsOn
    <3> QED BY <3>1, <3>3
  <2> QED BY <2>1, <2>4 DEF NginxT
<1>11. /\ t.ups = EndUps("inc", n) /\ t.all = EndAll(q, "inc", "inc", n) /\ t.w = EndW("inc", n)
  BY <1>4, ReadFields
<1>12. t.all = Ext(Ext(Ext(<<>>, FALSE, q["main"], "main"), in, q["rest"], "main"), FALSE, q["inc"], "inc")
  <2>1. in = InBlock(m.stack, "server") /\ FALSE = InBlock(n.stack, "server")
    <3>1. ~InBlock(n.stack, "server")
      BY <1>7, EmptyGood
    <3> QED BY <1>2, <1>6, <3>1 DEF InBlock
  <2> QED BY <1>2, <1>7, <1>11, <2>1 DEF EndAll
<1>13. ASSUME ~Snippets PROVE t.ups = MeantUps("nginx -T")
  <2>1. ASSUME NEW u \in Up
        PROVE  t.ups[u] = Cat(Cat(members["main"][u], members["inc"][u]), members["rest"][u])
    <3>1. PICK one, two : /\ one = (IF Opens("main", u) THEN members["main"][u] ELSE Nothing)
                          /\ two = (IF Opens("rest", u) THEN members["rest"][u]
                                    ELSE IF UpOf(base) = u THEN Cat(one, members["rest"][u]) ELSE one)
      OBVIOUS
    <3>2. m.ups[u] = one
      BY <1>2, <3>1
    <3>3. n.ups[u] = two
      BY <1>2, <1>7, <3>1, <3>2 DEF EndUps
    <3>4. t.ups[u] = IF Opens("inc", u) THEN members["inc"][u] ELSE two
      BY <1>7, <1>11, <3>3, NothingApart DEF EndUps
    <3> QED BY <1>13, <3>1, <3>4, UpstreamsAdded
  <2>2. t.ups = [u \in Up |-> t.ups[u]]
    BY <1>11 DEF EndUps
  <2> QED BY <2>1, <2>2 DEF MeantUps
<1>14. {t.w} \ {Nothing} = MeantWorkers("nginx -T")
  <2>1. t.w = IF workers["inc"] = Nothing
              THEN IF workers["rest"] = Nothing THEN IF workers["main"] = Nothing THEN Nothing ELSE workers["main"]
                   ELSE workers["rest"]
              ELSE workers["inc"]
    BY <1>2, <1>7, <1>11 DEF EndW
  <2> QED BY <2>1, WorkersAdded
<1> QED BY <1>10, <1>12, <1>13, <1>14

(* Parsing the main file alone leads to what it says.                      *)
LEMMA MainFileLeads ==
  ASSUME NEW q, Writer(q), Reads(q), path = <<>>, part # "inc", NEW in \in BOOLEAN, in <=> InServer(base)
  PROVE  \E t : /\ Leads(Empty, LoadMainFile, t)
                /\ t.all = Ext(Ext(<<>>, FALSE, q["main"], "main"), in, q["rest"], "main")
                /\ t.ups = MeantUps("main file") /\ {t.w} \ {Nothing} = MeantWorkers("main file")
<1>1. PICK m : m = Read(q, "main", "main", Empty)
  OBVIOUS
<1>2. /\ Leads(Empty, Marked(text["main"], "main"), m) /\ From("rest", m)
      /\ m.stack = NamesOf(base) /\ m.up = UpOf(base)
      /\ m.all = Ext(<<>>, FALSE, q["main"], "main")
      /\ \A u \in Up : m.ups[u] = IF Opens("main", u) THEN members["main"][u] ELSE Nothing
      /\ m.w = IF workers["main"] = Nothing THEN Nothing ELSE workers["main"]
  BY <1>1, MainRead
<1>3. PICK t : t = Read(q, "rest", "main", m)
  OBVIOUS
<1>4. Leads(m, Marked(text["rest"], "main"), t)
  BY <1>2, <1>3 DEF Reads, Part, File
<1>5. InBlock(NamesOf(base), "server") <=> InServer(base)
  <2>1. PathOK(base)
    BY DEF Writer, Typed
  <2> QED BY <2>1, NamesType
<1>6. t.ups = EndUps("rest", m) /\ t.all = EndAll(q, "rest", "main", m) /\ t.w = EndW("rest", m)
  BY <1>3, ReadFields
<1>7. Leads(Empty, LoadMainFile, t)
  <2>1. Marked(text["main"], "main") \in Seq(Tokens) /\ Marked(text["rest"], "main") \in Seq(Tokens)
    BY PartTokens DEF Part, File
  <2> QED BY <1>2, <1>4, <2>1, LeadsOn DEF LoadMainFile
<1>8. t.all = Ext(Ext(<<>>, FALSE, q["main"], "main"), in, q["rest"], "main")
  <2>1. in = InBlock(m.stack, "server")
    BY <1>2, <1>5 DEF InBlock
  <2> QED BY <1>2, <1>6, <2>1 DEF EndAll
<1>9. t.ups = MeantUps("main file")
  <2>1. ASSUME NEW u \in Up
        PROVE  t.ups[u] = Cat(Cat(members["main"][u], Nothing), members["rest"][u])
    <3>1. PICK one : one = IF Opens("main", u) THEN members["main"][u] ELSE Nothing
      OBVIOUS
    <3>2. m.ups[u] = one
      BY <1>2, <3>1
    <3>3. t.ups[u] = IF Opens("rest", u) THEN members["rest"][u]
                     ELSE IF UpOf(base) = u THEN Cat(one, members["rest"][u]) ELSE one
      BY <1>2, <1>6, <3>2 DEF EndUps
    <3> QED BY <3>1, <3>3, UpstreamsAdded
  <2>2. t.ups = [u \in Up |-> t.ups[u]]
    BY <1>6 DEF EndUps
  <2> QED BY <2>1, <2>2 DEF MeantUps
<1>10. {t.w} \ {Nothing} = MeantWorkers("main file")
  <2>1. t.w = IF workers["rest"] = Nothing
              THEN IF workers["main"] = Nothing THEN Nothing ELSE workers["main"]
              ELSE workers["rest"]
    BY <1>2, <1>6 DEF EndW
  <2> QED BY <2>1, WorkersAdded
<1> QED BY <1>7, <1>8, <1>9, <1>10

-----------------------------------------------------------------------------
(* The invariant.                                                          *)

(* What is said of a result of Parse. *)
Intended(all, ups, w) ==
  /\ dump = "nginx -T" => Files(all) = Files(ServersMeant)
  /\ ~Snippets \/ (dump # "nginx -T" /\ includes < 2) =>
       /\ Routing(all) = Routing(ServersMeant)
       /\ ups = UpstreamsMeant /\ {w} \ {Nothing} = WorkersMeant
Final(t) == Intended(NamedAll(t.all), t.ups, t.w)

ConfInv ==
  /\ phase \in {"write", "parse", "done"} /\ part \in Part
  /\ includes \in 0 .. 2 /\ (includes = 2 => MaxIncludes = 2)
  /\ dump \in Dumps \cup {"none"} /\ (phase # "write" => dump \in Dumps)
  /\ Good(Now) /\ cur = Cur(Now)
  /\ phase = "write" => Now = Empty /\ Written
  /\ phase = "parse" => toks \in Seq(Tokens) /\ \E t : Leads(Now, toks, t) /\ Final(t)
  /\ phase = "done" => Intended(Servers, Upstreams, WorkerProcesses)

(* The block that an item is written in. *)
LEMMA InParts ==
  ASSUME PathOK(path)
  PROVE  /\ In("server") \/ In("location") => InServer(path)
         /\ In("upstream") => UpOf(path) = Last(path).arg /\ UpOf(path) \in Up
<1>1. /\ Len(path) \in 0 .. 3 /\ (path # <<>> => Len(path) > 0)
      /\ Len(path) > 0 => path[1].name = "http"
      /\ Len(path) > 1 => path[2].name \in {"server", "upstream"}
      /\ Len(path) > 1 /\ path[2].name = "upstream" => path[2].arg \in Up
      /\ Len(path) > 2 => path[2].name = "server" /\ path[3].name = "location"
  BY PathParts
<1>2. Last(path) = path[Len(path)]
  BY DEF Last
<1>3. path # <<>> => Len(path) = 1 \/ Len(path) = 2 \/ Len(path) = 3
  <2>1. \A l \in 0 .. 3 : l > 0 => l = 1 \/ l = 2 \/ l = 3
    OBVIOUS
  <2> QED BY <1>1, <2>1, Zenon
<1>4. CASE Len(path) = 1
  BY <1>1, <1>2, <1>4 DEF In
<1>5. CASE Len(path) = 2
  BY <1>1, <1>2, <1>5 DEF In, InServer, UpOf
<1>6. CASE Len(path) = 3
  BY <1>1, <1>2, <1>6 DEF In, InServer, UpOf
<1>7. CASE path = <<>>
  BY <1>7 DEF In
<1> QED BY <1>3, <1>4, <1>5, <1>6, <1>7

(* Everything the operator may write is read as it is meant. *)
LEMMA WritingKeeps ==
  ASSUME Written, Writing
  PROVE  /\ Written' /\ part' \in Part /\ includes' \in 0 .. 2
         /\ includes' = includes \/ includes' = 1 \/ MaxIncludes = 2
         /\ phase = "write" /\ UNCHANGED <<phase, dump, toks, blocks, Config>>
<1>1. PICK q : Writer(q) /\ Reads(q)
  BY DEF Written
<1>2. PathOK(path)
  BY <1>1 DEF Writer, Typed
<1>3. SUFFICES /\ \E n : Writer(n)' /\ Reads(n)'
               /\ includes' = includes \/ includes' = 1 \/ MaxIncludes = 2
               /\ phase = "write" /\ UNCHANGED <<phase, dump, toks, blocks, Config>>
  BY DEF Written, Writer, Typed
<1>4. ASSUME NEW x, Add(x)
      PROVE  /\ includes' = includes /\ phase = "write"
             /\ UNCHANGED <<phase, dump, toks, blocks, Config>>
  BY <1>4 DEF Add
<1>5. CASE WriteOpen
  <2>1. PICK b \in Blocks, u \in Up \cup {Nothing} :
          /\ MayKnow /\ MayOpen(b, u) /\ path' = Append(path, Item("open", b, u))
          /\ Add(Item("open", b, u))
          /\ servers' = IF b = "server" THEN [servers EXCEPT ![part] = Append(@, NewServer)] ELSE servers
          /\ members' = IF b = "upstream" THEN [members EXCEPT ![part][u] = <<>>] ELSE members
          /\ workers' = workers
    BY <1>5 DEF WriteOpen
  <2>2. PICK n : n = IF b = "server" THEN [q EXCEPT ![part] = Append(@, NewServer)] ELSE q
    OBVIOUS
  <2>3. Writer(n)'
    BY <1>1, <2>1, <2>2, OpenKeeps
  <2>4. Reads(n)'
    BY <1>1, <2>1, <2>2, OpenReads
  <2> QED BY <1>4, <2>1, <2>3, <2>4
<1>6. CASE WriteServerDirective
  <2>1. PICK d \in ServerDirectives, v \in Value :
          /\ d = "proxy_set_header" \/ MayKnow
          /\ In("server") \/ (d = "proxy_pass" /\ In("location"))
          /\ Add(Item("set", d, v))
          /\ servers' = [servers EXCEPT ![part][Len(servers[part])] = Says(@, d, v)]
          /\ path' = path /\ members' = members /\ workers' = workers
    BY <1>6 DEF WriteServerDirective
  <2>2. InServer(path)
    BY <1>2, <2>1, InParts
  <2>3. PICK n : n = [q EXCEPT ![part][Len(q[part])] = Says(@, d, v)]
    OBVIOUS
  <2>4. Writer(n)'
    BY <1>1, <2>1, <2>2, <2>3, DirectiveKeeps
  <2>5. Reads(n)'
    BY <1>1, <2>1, <2>2, <2>3, DirectiveReads
  <2> QED BY <1>4, <2>1, <2>4, <2>5
<1>7. CASE WriteMember
  <2>1. PICK v \in Value :
          /\ MayKnow /\ In("upstream") /\ Add(Item("set", "server", v))
          /\ members' = [members EXCEPT ![part][Last(path).arg] = Cat(@, <<v>>)]
          /\ path' = path /\ servers' = servers /\ workers' = workers
    BY <1>7 DEF WriteMember
  <2>2. PICK u \in Up : u = Last(path).arg /\ u = UpOf(path)
    BY <1>2, <2>1, InParts
  <2>3. members' = [members EXCEPT ![part][u] = Cat(@, <<v>>)]
    BY <2>1, <2>2
  <2>4. Writer(q)'
    BY <1>1, <2>1, <2>2, <2>3, MemberKeeps
  <2>5. Reads(q)'
    BY <1>1, <2>1, <2>2, <2>3, MemberReads
  <2> QED BY <1>4, <2>1, <2>4, <2>5
<1>8. CASE WriteWorkers
  <2>1. PICK v \in Value :
          /\ \A p \in Part : workers[p] = Nothing
          /\ Add(Item("set", "worker_processes", v))
          /\ workers' = [workers EXCEPT ![part] = v]
          /\ path' = path /\ servers' = servers /\ members' = members
    BY <1>8 DEF WriteWorkers
  <2>2. Writer(q)'
    BY <1>1, <2>1, WorkersKeep
  <2>3. Reads(q)'
    BY <1>1, <2>1, WorkersReads
  <2> QED BY <1>4, <2>1, <2>2, <2>3
<1>9. CASE WriteClose
  <2>1. /\ path # <<>> /\ (part = "inc" => Len(path) > Len(base)) /\ path' = Front(path)
        /\ Add(Item("close", Last(path).name, Nothing))
        /\ servers' = servers /\ members' = members /\ workers' = workers
    BY <1>9 DEF WriteClose, meaning
  <2>2. Writer(q)'
    BY <1>1, <2>1, CloseKeeps
  <2>3. Reads(q)'
    BY <1>1, <2>1, CloseReads
  <2> QED BY <1>4, <2>1, <2>2, <2>3
<1>10. CASE Include
  <2>1. Writer(q)' /\ Reads(q)'
    BY <1>1, <1>10, IncludeKeeps, IncludeReads
  <2> QED BY <1>10, <2>1 DEF Include
<1>11. CASE IncludeEnds
  <2>1. Writer(q)' /\ Reads(q)'
    BY <1>1, <1>11, IncludeEndsKeeps, IncludeEndsReads
  <2> QED BY <1>11, <2>1 DEF IncludeEnds
<1>12. CASE IncludeAgain
  <2>1. Writer(q)' /\ Reads(q)'
    BY <1>1, <1>12, IncludeAgainKeeps, IncludeAgainReads
  <2> QED BY <1>12, <2>1 DEF IncludeAgain
<1> QED BY <1>5, <1>6, <1>7, <1>8, <1>9, <1>10, <1>11, <1>12 DEF Writing

(* A refresh starts a parse that ends with what is meant. *)
LEMMA RefreshKeeps ==
  ASSUME ConfInv, Refresh
  PROVE  ConfInv'
<1>1. /\ phase = "write" /\ path = <<>> /\ part # "inc" /\ phase' = "parse" /\ dump' \in Dumps
      /\ toks' = (CASE dump' = "nginx -T" -> NginxT [] dump' = "disk" -> LoadFromDisk
                     [] dump' = "main file" -> LoadMainFile)
      /\ UNCHANGED <<writing, blocks, Config>>
  BY DEF Refresh
<1>2. Now' = Now /\ cur' = cur /\ Now = Empty /\ Good(Now) /\ cur = Cur(Now)
  BY <1>1 DEF ConfInv, Now, blocks, Config
<1>3. PICK q : Writer(q) /\ Reads(q)
  BY <1>1 DEF ConfInv, Written
<1>4. PICK in : in = InServer(base)
  OBVIOUS
<1>5. in \in BOOLEAN /\ (in <=> InServer(base))
  BY <1>4 DEF InServer
<1>d. dump' \in {"nginx -T", "disk", "main file"}
  BY <1>1, ConfAssumption
<1>6. /\ LoadFromDisk \in Seq(Tokens) /\ NginxT \in Seq(Tokens) /\ LoadMainFile \in Seq(Tokens)
  <2>1. \A p \in Part, f \in File : Marked(text[p], f) \in Seq(Tokens)
    BY <1>3, PartTokens
  <2>2. \A x, y, z \in Seq(Tokens) : (x \o y) \o z \in Seq(Tokens) /\ x \o y \in Seq(Tokens)
    OBVIOUS
  <2> QED BY <2>1, <2>2 DEF LoadFromDisk, LoadMainFile, NginxT, Part, File
<1>7. /\ ServersMeant' = NamedAll(MeantAll(dump')) /\ UpstreamsMeant' = MeantUps(dump')
      /\ WorkersMeant' = MeantWorkers(dump') /\ includes' = includes /\ part' = part
  <2>1. UNCHANGED <<servers, members, workers, includes, part>>
    BY <1>1 DEF writing, meaning
  <2>2. ServersMeant' = NamedAll(MeantAll(dump'))
    BY <2>1 DEF ServersMeant, NamedAll, MeantAll, OfMain, Opened
  <2>3. UpstreamsMeant' = MeantUps(dump')
    BY <2>1 DEF UpstreamsMeant, MeantUps, PartsRead, Part
  <2>4. WorkersMeant' = MeantWorkers(dump')
    BY <2>1 DEF WorkersMeant, MeantWorkers, PartsRead
  <2> QED BY <2>1, <2>2, <2>3, <2>4
<1>8. \E t : Leads(Empty, toks', t) /\ Final(t)'
  <2>1. CASE dump' = "disk"
    <3>1. PICK t : /\ Leads(Empty, LoadFromDisk, t)
                   /\ t.all = Ext(Ext(Ext(<<>>, FALSE, q["main"], "main"), in, q["inc"], "inc"), in, q["rest"], "inc")
                   /\ t.ups = MeantUps("disk") /\ {t.w} \ {Nothing} = MeantWorkers("disk")
      BY <1>1, <1>3, <1>5, DiskLeads
    <3>2. ASSUME ~Snippets \/ includes < 2 PROVE Routing(NamedAll(t.all)) = Routing(ServersMeant)'
      <4>1. q = servers
        <5>1. q = servers \/ (Snippets /\ includes = 2)
          BY <1>3 DEF Writer, ServersSaid
        <5>2. ~(2 < 2)
          OBVIOUS
        <5> QED BY <3>2, <5>1, <5>2
      <4>2. Writer(q) /\ q = servers /\ in \in BOOLEAN /\ (in <=> InServer(base))
        BY <1>3, <1>5, <4>1
      <4>3. LET X == Ext(Ext(Ext(<<>>, FALSE, q["main"], "main"), in, q["inc"], "inc"), in, q["rest"], "inc") IN
            Routing(NamedAll(X)) = Routing(NamedAll(MeantAll("disk")))
        BY <4>2, DiskMeant
      <4>4. Routing(NamedAll(t.all)) = Routing(NamedAll(MeantAll("disk")))
        BY <3>1, <4>3
      <4> QED BY <1>7, <2>1, <4>4 DEF Routing
    <3>3. Final(t)'
      BY <1>7, <2>1, <3>1, <3>2 DEF Final, Intended, Routing
    <3> QED BY <1>1, <2>1, <3>1, <3>3
  <2>2. CASE dump' = "nginx -T"
    <3>1. PICK t : /\ Leads(Empty, NginxT, t)
                   /\ t.all = Ext(Ext(Ext(<<>>, FALSE, q["main"], "main"), in, q["rest"], "main"), FALSE, q["inc"], "inc")
                   /\ ~Snippets => t.ups = MeantUps("nginx -T")
                   /\ {t.w} \ {Nothing} = MeantWorkers("nginx -T")
      BY <1>1, <1>3, <1>5, PrintedLeads
    <3>2. /\ Files(NamedAll(t.all)) = Files(NamedAll(MeantAll(dump')))
          /\ ~Snippets => Routing(NamedAll(t.all)) = Routing(NamedAll(MeantAll(dump')))
      <4>1. MeantAll(dump') = MeantAll("nginx -T")
        BY <2>2
      <4>2. LET X == Ext(Ext(Ext(<<>>, FALSE, q["main"], "main"), in, q["rest"], "main"), FALSE, q["inc"], "inc") IN
            /\ Files(NamedAll(X)) = Files(NamedAll(MeantAll("nginx -T")))
            /\ ~Snippets => Routing(NamedAll(X)) = Routing(NamedAll(MeantAll("nginx -T")))
        BY <1>3, <1>5, PrintedMeant
      <4> QED BY <3>1, <4>1, <4>2
    <3>3. Final(t)'
      BY <1>7, <2>2, <3>1, <3>2 DEF Final, Intended, Routing, Files, NamedAll
    <3> QED BY <1>1, <2>2, <3>1, <3>3
  <2>3. CASE dump' = "main file"
    <3>1. PICK t : /\ Leads(Empty, LoadMainFile, t)
                   /\ t.all = Ext(Ext(<<>>, FALSE, q["main"], "main"), in, q["rest"], "main")
                   /\ t.ups = MeantUps("main file") /\ {t.w} \ {Nothing} = MeantWorkers("main file")
      BY <1>1, <1>3, <1>5, MainFileLeads
    <3>2. ASSUME ~Snippets \/ includes < 2 PROVE Routing(NamedAll(t.all)) = Routing(ServersMeant)'
      <4>1. q = servers
        <5>1. q = servers \/ (Snippets /\ includes = 2)
          BY <1>3 DEF Writer, ServersSaid
        <5>2. ~(2 < 2)
          OBVIOUS
        <5> QED BY <3>2, <5>1, <5>2
      <4>2. t.all = MeantAll("main file")
        BY <1>3, <1>5, <3>1, <4>1, MainFileMeant
      <4> QED BY <1>7, <2>3, <4>2 DEF Routing
    <3>3. Final(t)'
      BY <1>7, <2>3, <3>1, <3>2 DEF Final, Intended, Routing
    <3> QED BY <1>1, <2>3, <3>1, <3>3
  <2> QED BY <1>d, <2>1, <2>2, <2>3
<1>9. Good(Now)' /\ (cur = Cur(Now))' /\ (\E t : Leads(Now, toks, t) /\ Final(t))'
  <2>1. Cur(Now)' = Cur(Now')
    BY DEF Cur
  <2>2. Good(Now)' <=> Good(Now')
    BY DEF Good
  <2>3. Now' = Empty
    BY <1>2
  <2> QED BY <1>2, <1>8, <2>1, <2>2, <2>3
<1>10. toks' \in Seq(Tokens)
  <2>1. toks' = NginxT \/ toks' = LoadFromDisk \/ toks' = LoadMainFile
    BY <1>1, <1>d
  <2> QED BY <1>6, <2>1
<1>11. phase' = "parse" /\ dump' \in Dumps
  BY <1>1
<1> QED BY <1>7, <1>9, <1>10, <1>11 DEF ConfInv

(* The invariant holds at first. *)
LEMMA InitInv == ConfInit => ConfInv
<1> SUFFICES ASSUME ConfInit PROVE ConfInv
  OBVIOUS
<1>1. Now = Empty /\ Written
  BY InitWritten DEF ConfInit, Now, Empty
<1>2. Good(Now) /\ cur = Cur(Now)
  <2>1. cur = 0
    BY DEF ConfInit
  <2> QED BY <1>1, <2>1, EmptyGood DEF Cur
<1> QED BY <1>1, <1>2 DEF ConfInv, ConfInit, Part

(* Every item that Parse takes is the next one on that way. *)
LEMMA TakersKeep ==
  ASSUME ConfInv, Takers
  PROVE  ConfInv'
<1>1. phase = "parse" /\ toks # <<>>
  BY DEF Takers, Takes, OpenServer, OpenUpstream, OpenOther, Close,
         SetWorkers, SetMember, SetName, SetListen, SetPass, Ignore
<1>2. toks \in Seq(Tokens) /\ Good(Now) /\ cur = Cur(Now)
  BY <1>1 DEF ConfInv
<1>3. PICK t : Leads(Now, toks, t) /\ Final(t)
  BY <1>1 DEF ConfInv
<1>4. PICK s : s = Now
  OBVIOUS
<1>5. Leads(s, toks, t)
  BY <1>3, <1>4
<1>6. Legal(s, tok) /\ Leads(Step(s, tok), Tail(toks), t)
  BY <1>1, <1>2, <1>5, OneItem DEF tok
<1>7. /\ Now' = Step(Now, tok) /\ cur' = Cur(Now)' /\ toks' = Tail(toks)
      /\ UNCHANGED <<phase, writing, dump>>
  BY <1>2, <1>4, <1>6, ParseSteps
<1>8. Good(Now') /\ Leads(Now', toks', t)
  BY <1>2, <1>4, <1>6, <1>7, StepGood
<1>9. Good(Now)' /\ Leads(Now, toks, t)' /\ (cur = Cur(Now))'
  <2>1. Good(Now)' <=> Good(Now')
    BY DEF Good
  <2>2. Leads(Now, toks, t)' <=> Leads(Now', toks', t)
    BY DEF Leads, Run
  <2> QED BY <1>7, <1>8, <2>1, <2>2
<1>10. Final(t)'
  <2>1. ServersMeant' = ServersMeant /\ UpstreamsMeant' = UpstreamsMeant /\ WorkersMeant' = WorkersMeant
        /\ dump' = dump /\ includes' = includes
    BY <1>7 DEF ServersMeant, OfMain, Opened, PartsRead, UpstreamsMeant, WorkersMeant, writing, meaning
  <2> QED BY <1>3, <2>1 DEF Final, Intended, Files, Routing, NamedAll
<1>11. toks' \in Seq(Tokens)
  BY <1>1, <1>2, <1>7
<1>12. phase' = phase /\ part' = part /\ includes' = includes /\ dump' = dump
  BY <1>7 DEF writing
<1> QED BY <1>1, <1>9, <1>10, <1>11, <1>12 DEF ConfInv

(* The end of the text is the end of the way, and the catch-all is named. *)
LEMMA FinishKeeps ==
  ASSUME ConfInv, Finish
  PROVE  ConfInv'
<1>1. /\ phase = "parse" /\ toks = <<>> /\ phase' = "done"
      /\ UNCHANGED <<writing, dump, toks, blocks, Upstreams, WorkerProcesses>>
  BY DEF Finish
<1>2. Servers' = NamedAll(Servers)
  BY DEF Finish, NamedAll, Named
<1>3. toks \in Seq(Tokens) /\ Good(Now) /\ cur = Cur(Now)
  BY <1>1 DEF ConfInv
<1>4. PICK t : Leads(Now, toks, t) /\ Final(t)
  BY <1>1 DEF ConfInv
<1>5. t = Now
  <2>1. PICK s, z : s = Now /\ z = toks
    OBVIOUS
  <2>2. Leads(s, z, t) /\ z \in Seq(Tokens)
    BY <1>3, <1>4, <2>1
  <2>3. z = <<>> => s = t
    BY <2>2, LeadsGood
  <2> QED BY <1>1, <2>1, <2>3
<1>6. Intended(NamedAll(Servers), Upstreams, WorkerProcesses)
  BY <1>4, <1>5, NowFields DEF Final
<1>7. ServersMeant' = ServersMeant /\ UpstreamsMeant' = UpstreamsMeant /\ WorkersMeant' = WorkersMeant
      /\ dump' = dump /\ includes' = includes /\ Upstreams' = Upstreams /\ WorkerProcesses' = WorkerProcesses
      /\ part' = part
  BY <1>1 DEF ServersMeant, OfMain, Opened, PartsRead, UpstreamsMeant, WorkersMeant, writing, meaning
<1>8. Intended(Servers, Upstreams, WorkerProcesses)'
  BY <1>2, <1>6, <1>7 DEF Intended, Files, Routing, NamedAll
<1>9. Servers \in Seq(ServerBlock)
  BY <1>3, NowFields DEF Good
<1>10. Servers' \in Seq(ServerBlock) /\ Len(Servers') = Len(Servers) /\ (Servers # <<>> => Servers' # <<>>)
  BY <1>2, <1>9, SameNamed
<1>11. /\ Now'.stack = stack /\ Now'.up = curUpstream /\ Now'.ups = Upstreams
       /\ Now'.all = Servers' /\ Now'.w = WorkerProcesses /\ cur' = cur
  BY <1>1, Fields DEF Now, blocks
<1>12. Good(Now') /\ cur' = Cur(Now')
  BY <1>3, <1>10, <1>11, NowFields DEF Good, Cur
<1>13. Good(Now)' /\ (cur = Cur(Now))'
  <2>1. Good(Now)' <=> Good(Now')
    BY DEF Good
  <2>2. Cur(Now)' = Cur(Now')
    BY DEF Cur
  <2> QED BY <1>12, <2>1, <2>2
<1> QED BY <1>1, <1>7, <1>8, <1>13 DEF ConfInv

(* While it is written, Parse has nothing. *)
LEMMA WriteKeeps ==
  ASSUME ConfInv, Writing
  PROVE  ConfInv'
<1>1. phase = "write" /\ Written
  <2>1. phase = "write"
    BY DEF Writing, WriteOpen, WriteServerDirective, WriteMember, WriteWorkers, WriteClose,
           Include, IncludeEnds, IncludeAgain, Add
  <2> QED BY <2>1 DEF ConfInv
<1>2. /\ Written' /\ part' \in Part /\ includes' \in 0 .. 2
      /\ includes' = includes \/ includes' = 1 \/ MaxIncludes = 2
      /\ UNCHANGED <<phase, dump, toks, blocks, Config>>
  BY <1>1, WritingKeeps
<1>3. Now' = Now /\ cur' = cur
  BY <1>2 DEF Now, blocks, Config
<1>4. Good(Now)' /\ (cur = Cur(Now))' /\ (Now = Empty)'
  <2>1. Good(Now)' <=> Good(Now')
    BY DEF Good
  <2>2. Cur(Now)' = Cur(Now')
    BY DEF Cur
  <2>3. Good(Now) /\ cur = Cur(Now) /\ Now = Empty
    BY <1>1 DEF ConfInv
  <2> QED BY <1>3, <2>1, <2>2, <2>3
<1>5. includes' = 2 => MaxIncludes = 2
  BY <1>2 DEF ConfInv
<1> QED BY <1>1, <1>2, <1>4, <1>5 DEF ConfInv

(* The invariant depends on the variables only. *)
LEMMA StutterKeeps ==
  ASSUME ConfInv, UNCHANGED confVars
  PROVE  ConfInv'
<1>1. /\ UNCHANGED <<phase, text, part, path, base, includes, servers, members, workers, dump, toks>>
      /\ UNCHANGED <<stack, cur, curUpstream, Upstreams, Servers, WorkerProcesses>>
  BY DEF confVars, writing, meaning, blocks, Config
<1>2. Now' = Now
  BY <1>1 DEF Now
<1>3. phase = "write" => Written'
  <2>1. phase = "write" => Written
    BY DEF ConfInv
  <2>2. \A q : Writer(q)' <=> Writer(q)
    BY <1>1 DEF Writer, Typed, Placed, ServersSaid, MembersSaid, WorkersSaid, Opens, Whole,
                InServer, UpOf, PathOK
  <2>3. \A q, p, f, s : Read(q, p, f, s)' = Read(q, p, f, s)
    BY <1>1 DEF Read, EndStack, EndUp, EndUps, EndAll, EndW, Above, NamesOf, UpOf, Whole, Opens
  <2>4. \A p, s : From(p, s)' <=> From(p, s)
    BY <1>1 DEF From, NamesOf, UpOf
  <2>5. \A q : Reads(q)' <=> Reads(q)
    BY <1>1, <2>3, <2>4 DEF Reads
  <2> QED BY <2>1, <2>2, <2>5 DEF Written
<1>4. Good(Now)' /\ (cur = Cur(Now))'
  <2>1. Good(Now)' <=> Good(Now')
    BY DEF Good
  <2>2. Cur(Now)' = Cur(Now')
    BY DEF Cur
  <2> QED BY <1>1, <1>2, <2>1, <2>2 DEF ConfInv
<1>5. /\ ServersMeant' = ServersMeant /\ UpstreamsMeant' = UpstreamsMeant /\ WorkersMeant' = WorkersMeant
  BY <1>1 DEF ServersMeant, OfMain, Opened, PartsRead, UpstreamsMeant, WorkersMeant
<1>6. \A all, ups, w : Intended(all, ups, w)' <=> Intended(all, ups, w)
  BY <1>1, <1>5 DEF Intended, Files, Routing
<1>7. phase = "parse" => \E t : Leads(Now, toks, t)' /\ Final(t)'
  <2>1. \A t : Final(t)' <=> Final(t)
    BY <1>6 DEF Final, NamedAll
  <2>2. \A t : Leads(Now, toks, t)' <=> Leads(Now', toks', t)
    BY DEF Leads, Run
  <2> QED BY <1>1, <1>2, <2>1, <2>2 DEF ConfInv
<1>8. phase = "done" => Intended(Servers, Upstreams, WorkerProcesses)'
  BY <1>1, <1>5 DEF ConfInv, Intended, Files, Routing
<1> QED BY <1>1, <1>2, <1>3, <1>4, <1>7, <1>8 DEF ConfInv

(* Every step keeps the invariant or starts again. *)
LEMMA StepKeeps ==
  ASSUME ConfInv, [ConfNext]_confVars
  PROVE  ConfInv' \/ ConfInit'
<1>1. CASE Writing
  BY <1>1, WriteKeeps
<1>2. CASE Refresh
  BY <1>2, RefreshKeeps
<1>3. CASE Finish
  BY <1>3, FinishKeeps
<1>4. CASE Takers
  BY <1>4, TakersKeep
<1>5. CASE Again
  BY <1>5 DEF Again, ConfInit
<1>6. CASE UNCHANGED confVars
  BY <1>6, StutterKeeps
<1> QED BY <1>1, <1>2, <1>3, <1>4, <1>5, <1>6 DEF ConfNext, Parse, Takers

(* The invariant holds of every configuration that nginx accepts, however  *)
(* long, of every text that refresh may get, and at every item of it.      *)
THEOREM ConfInvariant == ConfSpec => []ConfInv
<1>1. ConfInit => ConfInv
  BY InitInv
<1>2. ConfInv /\ [ConfNext]_confVars => ConfInv' \/ ConfInit'
  BY StepKeeps
<1> QED BY <1>1, <1>2, PTL DEF ConfSpec

(* The types are part of the invariant. *)
LEMMA InvType == ConfInv => ConfTypeInv
<1> SUFFICES ASSUME ConfInv PROVE ConfTypeInv
  OBVIOUS
<1>1. /\ stack \in Seq(Blocks)
      /\ curUpstream \in Up \cup {Nothing} /\ (curUpstream # Nothing <=> InBlock(stack, "upstream"))
      /\ Upstreams \in Lists
      /\ Servers \in Seq(ServerBlock) /\ (InBlock(stack, "server") => Servers # <<>>)
      /\ WorkerProcesses \in Value \cup {Nothing}
  BY NowFields DEF ConfInv, Good
<1>2. cur = IF InBlock(stack, "server") THEN Len(Servers) ELSE 0
  BY NowFields DEF ConfInv, Cur
<1>3. cur \in 0 .. Len(Servers) /\ (cur # 0 <=> InBlock(stack, "server"))
  <2>1. PICK n : n = Len(Servers)
    OBVIOUS
  <2>2. n \in Nat /\ (Servers # <<>> => n > 0)
    BY <1>1, <2>1
  <2> QED BY <1>1, <1>2, <2>1, <2>2
<1>4. \A u \in Up : Upstreams[u] = Nothing \/ Upstreams[u] \in Seq(Value)
  BY <1>1 DEF Lists
<1>5. phase \in {"write", "parse", "done"} /\ dump \in Dumps \cup {"none"} /\ part \in Part /\ includes \in 0 .. 2
  BY DEF ConfInv
<1> HIDE DEF ServerBlock
<1> QED BY <1>1, <1>3, <1>4, <1>5 DEF ConfTypeInv

(* The variables of nginxconf.Parse have their types; cur points to a      *)
(* server that exists, and says that one is open exactly when the stack    *)
(* has one, as curUpstream does of an upstream.                            *)
THEOREM ConfTypeCorrect == ConfSpec => []ConfTypeInv
BY ConfInvariant, InvType, PTL

(* What Parse makes of the text of nginx -T has every server block under   *)
(* the file it stands in, for every configuration, whether the included    *)
(* file holds directives of a server or whole blocks, and also where an    *)
(* include stands between two blocks (the label config_file of             *)
(* vhost_info).                                                            *)
THEOREM AttributedWhenPrintedCorrect == ConfSpec => []AttributedWhenPrinted
<1>1. ConfInv => AttributedWhenPrinted
  BY DEF ConfInv, Intended, AttributedWhenPrinted, AttributedToOwnFile
<1> QED BY ConfInvariant, <1>1, PTL

(* Parse yields the routing that the configuration means, each server      *)
(* block once with its own names, listeners and first target, and each     *)
(* upstream with its own members: from both texts when included files hold *)
(* whole blocks or what Parse ignores, and from LoadFromDisk in any case   *)
(* as long as the file is not included again; where LoadFromDisk could not *)
(* read the included file, the routing of the rest.                        *)
THEOREM TopologyAsMeantCorrect ==
  ConfSpec => [](~Snippets \/ (dump # "nginx -T" /\ includes < 2) => TopologyAsMeant)
<1>1. ConfInv => (~Snippets \/ (dump # "nginx -T" /\ includes < 2) => TopologyAsMeant)
  BY DEF ConfInv, Intended, TopologyAsMeant
<1> QED BY ConfInvariant, <1>1, PTL
=============================================================================
