------------------------------ MODULE NginxConf ------------------------------
(***************************************************************************)
(* nginxconf.Parse, directive by directive, over the two texts refresh     *)
(* gives it: what nginx -T prints (each file once, one after the other)    *)
(* and what LoadFromDisk returns (included files in place, each once).     *)
(*                                                                         *)
(* The configuration is a main file that may include another one, once or  *)
(* twice.  An item of it opens a block, closes one or sets a directive;    *)
(* words and lines are left out, as are the directives Parse treats like   *)
(* others (fastcgi_pass and grpc_pass like proxy_pass, worker_connections  *)
(* like worker_processes, include like any it has no case for).            *)
(***************************************************************************)
EXTENDS Naturals, Sequences, FiniteSets, SequencesExt

CONSTANTS
  Value,         \* the words used as names, targets, members and listeners
  Up,            \* names of upstream blocks
  Nothing,       \* the empty string, and a missing map entry
  CatchAll,      \* "_"
  Dumps,         \* the texts refresh may get: "nginx -T", or when it failed the
                 \* files on disk: all of them, or "main file" but no included one
  Snippets,      \* may a file included in a block have what Parse knows?
  MaxIncludes,   \* how often it is included
  MaxItems       \* bound on the configuration

ASSUME ConfAssumption ==
  /\ Nothing \notin Value \cup Up \cup Seq(Value) /\ CatchAll \notin Value \cup {Nothing}
  /\ Dumps \subseteq {"nginx -T", "disk", "main file"} /\ Snippets \in BOOLEAN
  /\ MaxIncludes \in 0 .. 2 /\ MaxItems \in Nat

Blocks == {"http", "server", "upstream", "location"}
ServerDirectives == {"server_name", "listen", "proxy_pass", "proxy_set_header"}
Directives == ServerDirectives \cup {"server", "worker_processes"}
File == {"main", "inc"}

(* The main file up to its first include, the file included, and the rest  *)
(* of the main file.                                                       *)
Part == {"main", "inc", "rest"}

VARIABLES
  phase,        \* "write" (the operator), "parse" or "done"
  text,         \* the items of each part
  part, path,   \* the part that is written, and the blocks open at its end
  base,         \* the blocks that are open where the file is included
  includes,     \* inclusions so far
  servers,      \* what each part says of the server block that is open where
                \* it starts, and then of each one that it opens
  members,      \* what each part says are the members of an upstream
  workers,      \* the worker_processes of each part
  dump,         \* the text that refresh got, "none" before
  toks,         \* what is still to parse
  stack, cur, curUpstream,
  Upstreams, Servers, WorkerProcesses

meaning  == <<servers, members, workers>>
writing  == <<text, part, path, base, includes, meaning>>
blocks   == <<stack, cur, curUpstream>>
Config   == <<Upstreams, Servers, WorkerProcesses>>
confVars == <<phase, writing, dump, toks, blocks, Config>>

InBlock(s, b) == \E i \in DOMAIN s : s[i] = b

NewServer == [Names |-> <<>>, Listens |-> <<>>, Pass |-> Nothing]
InFile(s, f) == [Names |-> s.Names, Listens |-> s.Listens, Pass |-> s.Pass, File |-> f]

(* Parse starts with an empty Config; cur and curUpstream are 0 and "".    *)
ConfInit ==
  /\ phase = "write" /\ text = [p \in Part |-> <<>>] /\ part = "main" /\ path = <<>>
  /\ base = <<>> /\ includes = 0 /\ dump = "none" /\ toks = <<>>
  /\ servers = [p \in Part |-> <<NewServer>>] /\ workers = [p \in Part |-> Nothing]
  /\ members = [p \in Part |-> [u \in Up |-> Nothing]]
  /\ stack = <<>> /\ cur = 0 /\ curUpstream = Nothing
  /\ Upstreams = [u \in Up |-> Nothing] /\ Servers = <<>> /\ WorkerProcesses = Nothing

-----------------------------------------------------------------------------
(* The configurations nginx accepts, and what it makes of each item.       *)

Item(op, name, arg) == [op |-> op, name |-> name, arg |-> arg]
Room(n) == Len(text["main"]) + Len(text["inc"]) + Len(text["rest"]) + includes + Len(path) + n
             <= MaxItems
In(b)   == path # <<>> /\ Last(path).name = b

Whole(blks) == blks # <<>> => Last(blks).name = "http"
MayKnow     == Snippets \/ part # "inc" \/ Whole(base)

Add(item) ==
  /\ phase = "write" /\ text' = [text EXCEPT ![part] = Append(@, item)]
  /\ UNCHANGED <<phase, part, base, includes, dump, toks, blocks, Config>>

(* The names of upstream blocks are all different, and there is one http.  *)
Has(name) == \E p \in Part : \E i \in DOMAIN text[p] : text[p][i].name = name
MayOpen(b, u) ==
  /\ u # Nothing <=> b = "upstream"
  /\ \/ b = "http" /\ path = <<>> /\ ~Has("http")
     \/ b = "server" /\ In("http")
     \/ b = "upstream" /\ In("http") /\ \A p \in Part : members[p][u] = Nothing
     \/ b = "location" /\ In("server")

WriteOpen ==
  \E b \in Blocks, u \in Up \cup {Nothing} :
    /\ Room(2) /\ MayKnow /\ MayOpen(b, u)
    /\ path' = Append(path, Item("open", b, u))
    /\ Add(Item("open", b, u))
    /\ servers' = IF b = "server" THEN [servers EXCEPT ![part] = Append(@, NewServer)] ELSE servers
    /\ members' = IF b = "upstream" THEN [members EXCEPT ![part][u] = <<>>] ELSE members
    /\ UNCHANGED workers

(* A server with a directive more; the first target counts. *)
Says(s, d, v) ==
  CASE d = "server_name" -> [s EXCEPT !.Names = Append(@, v)]
    [] d = "listen"      -> [s EXCEPT !.Listens = Append(@, v)]
    [] d = "proxy_pass"  -> [s EXCEPT !.Pass = IF @ = Nothing THEN v ELSE @]
    [] OTHER             -> s

(* In the server block, or in a location of it; proxy_set_header stands    *)
(* for what Parse has no case for, in an included file (a proxy_params).   *)
WriteServerDirective ==
  \E d \in ServerDirectives, v \in Value :
    /\ Room(1) /\ (d = "proxy_set_header" \/ MayKnow)
    /\ In("server") \/ (d = "proxy_pass" /\ In("location"))
    /\ d = "proxy_set_header" => part = "inc"
    /\ Add(Item("set", d, v))
    /\ servers' = [servers EXCEPT ![part][Len(servers[part])] = Says(@, d, v)]
    /\ UNCHANGED <<path, members, workers>>

(* A list that goes on in another part. *)
Cat(a, b) == IF b = Nothing THEN a ELSE IF a = Nothing THEN b ELSE a \o b

WriteMember ==
  \E v \in Value :
    /\ Room(1) /\ MayKnow /\ In("upstream")
    /\ Add(Item("set", "server", v))
    /\ members' = [members EXCEPT ![part][Last(path).arg] = Cat(@, <<v>>)]
    /\ UNCHANGED <<path, servers, workers>>

WriteWorkers ==
  \E v \in Value :
    /\ Room(1) /\ MayKnow /\ path = <<>> /\ \A p \in Part : workers[p] = Nothing
    /\ Add(Item("set", "worker_processes", v))
    /\ workers' = [workers EXCEPT ![part] = v]
    /\ UNCHANGED <<path, servers, members>>

WriteClose ==
  /\ path # <<>> /\ (part = "inc" => Len(path) > Len(base))
  /\ path' = Front(path)
  /\ Add(Item("close", Last(path).name, Nothing))
  /\ UNCHANGED meaning

(* An include: of whole blocks, of directives that Parse ignores, or, with *)
(* Snippets, of anything.                                                  *)
Include ==
  /\ phase = "write" /\ part = "main" /\ MaxIncludes > 0 /\ Room(1)
  /\ part' = "inc" /\ base' = path /\ includes' = 1
  /\ UNCHANGED <<phase, text, path, meaning, dump, toks, blocks, Config>>

IncludeEnds ==
  /\ phase = "write" /\ part = "inc" /\ path = base
  /\ part' = "rest"
  /\ UNCHANGED <<phase, text, path, base, includes, meaning, dump, toks, blocks, Config>>

(* A server with what else is said of it. *)
Joined(s, t) == [Names |-> s.Names \o t.Names, Listens |-> s.Listens \o t.Listens,
                 Pass |-> IF s.Pass = Nothing THEN t.Pass ELSE s.Pass]

(* The same file again, in this or another server. *)
IncludeAgain ==
  /\ phase = "write" /\ part = "rest" /\ includes = 1 /\ MaxIncludes = 2
  /\ In("server") /\ Room(1)
  /\ \A i \in DOMAIN text["inc"] :
       \/ text["inc"][i].name = "proxy_set_header"
       \/ Snippets /\ text["inc"][i].name \in {"server_name", "listen", "proxy_pass", "location"}
  /\ servers' = [servers EXCEPT !["rest"][Len(servers["rest"])] = Joined(@, servers["inc"][1])]
  /\ includes' = 2
  /\ UNCHANGED <<phase, text, part, path, base, members, workers, dump, toks, blocks, Config>>

Writing == \/ WriteOpen \/ WriteServerDirective \/ WriteMember \/ WriteWorkers \/ WriteClose
           \/ Include \/ IncludeEnds \/ IncludeAgain

-----------------------------------------------------------------------------
(* The texts.                                                              *)

(* The words of a file bear the name in the marker before them. *)
Marked(items, f) ==
  [i \in DOMAIN items |-> [op |-> items[i].op, name |-> items[i].name, arg |-> items[i].arg,
                           file |-> f]]

(* nginx -T prints every file once, in the order it first opened them. *)
NginxT == Marked(text["main"], "main") \o Marked(text["rest"], "main") \o Marked(text["inc"], "inc")

(* LoadFromDisk puts a file where it is first included, and nothing where  *)
(* it is included again.  The marker is at the start of each file only, so *)
(* what follows an include bears the name of the included file.            *)
LoadFromDisk == Marked(text["main"], "main") \o Marked(text["inc"], "inc") \o Marked(text["rest"], "inc")

(* It skips an included file that it cannot read, and does not recognise   *)
(* an include with a comment behind it, which Parse then ignores.          *)
LoadMainFile == Marked(text["main"], "main") \o Marked(text["rest"], "main")

Refresh ==
  /\ phase = "write" /\ path = <<>> /\ part # "inc"
  /\ phase' = "parse"
  /\ dump' \in Dumps
  /\ toks' = CASE dump' = "nginx -T"  -> NginxT
               [] dump' = "disk"      -> LoadFromDisk
               [] dump' = "main file" -> LoadMainFile
  /\ UNCHANGED <<writing, blocks, Config>>

-----------------------------------------------------------------------------
(* Parse                                                                   *)
tok == Head(toks)

Takes(op) == phase = "parse" /\ toks # <<>> /\ tok.op = op /\ toks' = Tail(toks)
Keeps     == UNCHANGED <<phase, writing, dump>>

(* Slip: the block is attributed to the file of the text's first word. *)
OpenServer_firstFile ==
  /\ Takes("open") /\ tok.name = "server"
  /\ stack' = Append(stack, "server")
  /\ ~InBlock(stack, "upstream")
  /\ Servers' = Append(Servers, InFile(NewServer, "main"))
  /\ cur' = Len(Servers) + 1
  /\ Keeps /\ UNCHANGED <<curUpstream, Upstreams, WorkerProcesses>>

(* Any server block that is not inside an upstream. *)
OpenServer ==
  /\ Takes("open") /\ tok.name = "server"
  /\ stack' = Append(stack, "server")
  /\ IF InBlock(stack, "upstream") THEN UNCHANGED <<Servers, cur>>
     ELSE /\ Servers' = Append(Servers, InFile(NewServer, tok.file))
          /\ cur' = Len(Servers) + 1
  /\ Keeps /\ UNCHANGED <<curUpstream, Upstreams, WorkerProcesses>>

OpenUpstream ==
  /\ Takes("open") /\ tok.name = "upstream"
  /\ stack' = Append(stack, "upstream")
  /\ curUpstream' = tok.arg /\ Upstreams' = [Upstreams EXCEPT ![tok.arg] = <<>>]
  /\ Keeps /\ UNCHANGED <<cur, Servers, WorkerProcesses>>

OpenOther ==
  /\ Takes("open") /\ tok.name \notin {"server", "upstream"}
  /\ stack' = Append(stack, tok.name)
  /\ Keeps /\ UNCHANGED <<cur, curUpstream, Config>>

(* Slip: the end of any block ends the server. *)
Close_anyBlock ==
  /\ Takes("close") /\ stack # <<>>
  /\ cur' = 0
  /\ curUpstream' = IF Last(stack) = "upstream" THEN Nothing ELSE curUpstream
  /\ stack' = Front(stack)
  /\ Keeps /\ UNCHANGED Config

Close ==
  /\ Takes("close") /\ stack # <<>>
  /\ cur' = IF Last(stack) = "server" THEN 0 ELSE cur
  /\ curUpstream' = IF Last(stack) = "upstream" THEN Nothing ELSE curUpstream
  /\ stack' = Front(stack)
  /\ Keeps /\ UNCHANGED Config

SetWorkers ==
  /\ Takes("set") /\ tok.name = "worker_processes"
  /\ WorkerProcesses' = tok.arg
  /\ Keeps /\ UNCHANGED <<blocks, Upstreams, Servers>>

SetMember ==
  /\ Takes("set") /\ tok.name = "server" /\ curUpstream # Nothing
  /\ Upstreams' = [Upstreams EXCEPT ![curUpstream] = Append(@, tok.arg)]
  /\ Keeps /\ UNCHANGED <<blocks, Servers, WorkerProcesses>>

SetName ==
  /\ Takes("set") /\ tok.name = "server_name" /\ cur # 0
  /\ Servers' = [Servers EXCEPT ![cur].Names = Append(@, tok.arg)]
  /\ Keeps /\ UNCHANGED <<blocks, Upstreams, WorkerProcesses>>

SetListen ==
  /\ Takes("set") /\ tok.name = "listen" /\ cur # 0
  /\ Servers' = [Servers EXCEPT ![cur].Listens = Append(@, tok.arg)]
  /\ Keeps /\ UNCHANGED <<blocks, Upstreams, WorkerProcesses>>

(* Slip: the last target wins. *)
SetPass_last ==
  /\ Takes("set") /\ tok.name = "proxy_pass" /\ cur # 0
  /\ Servers' = [Servers EXCEPT ![cur].Pass = tok.arg]
  /\ Keeps /\ UNCHANGED <<blocks, Upstreams, WorkerProcesses>>

(* The first target wins. *)
SetPass ==
  /\ Takes("set") /\ tok.name = "proxy_pass" /\ cur # 0
  /\ Servers' = [Servers EXCEPT ![cur].Pass = IF @ = Nothing THEN tok.arg ELSE @]
  /\ Keeps /\ UNCHANGED <<blocks, Upstreams, WorkerProcesses>>

(* No case of the switch: the directive is skipped. *)
Ignore ==
  /\ Takes("set")
  /\ \/ tok.name = "proxy_set_header"
     \/ tok.name = "server" /\ curUpstream = Nothing
     \/ tok.name \in {"server_name", "listen", "proxy_pass"} /\ cur = 0
  /\ Keeps /\ UNCHANGED <<blocks, Config>>

(* A server without a name is the catch-all. *)
Finish ==
  /\ phase = "parse" /\ toks = <<>>
  /\ phase' = "done"
  /\ Servers' = [k \in DOMAIN Servers |->
       [Servers[k] EXCEPT !.Names = IF @ = <<>> THEN <<CatchAll>> ELSE @]]
  /\ UNCHANGED <<writing, dump, toks, blocks, Upstreams, WorkerProcesses>>

(* The next refresh, of another configuration, starts from nothing. *)
Again ==
  /\ phase = "done"
  /\ phase' = "write" /\ text' = [p \in Part |-> <<>>] /\ part' = "main" /\ path' = <<>>
  /\ base' = <<>> /\ includes' = 0 /\ dump' = "none" /\ toks' = <<>>
  /\ servers' = [p \in Part |-> <<NewServer>>] /\ workers' = [p \in Part |-> Nothing]
  /\ members' = [p \in Part |-> [u \in Up |-> Nothing]]
  /\ stack' = <<>> /\ cur' = 0 /\ curUpstream' = Nothing
  /\ Upstreams' = [u \in Up |-> Nothing] /\ Servers' = <<>> /\ WorkerProcesses' = Nothing

Parse == \/ OpenServer \/ OpenUpstream \/ OpenOther \/ Close
         \/ SetWorkers \/ SetMember \/ SetName \/ SetListen \/ SetPass \/ Ignore
         \/ Finish

ConfNext == Writing \/ Refresh \/ Parse \/ Again

ConfSpec == ConfInit /\ [][ConfNext]_confVars

-----------------------------------------------------------------------------
(* What a scrape makes of the topology.  The registry refuses a whole      *)
(* scrape in which two series have the same labels.                        *)

(* Config.Backends.  IdleClocks has the targets that are variables; a block *)
(* without members is nil to Go, as no target is.                          *)
Backends(s) == CASE s.Pass = Nothing -> <<>>
                 [] s.Pass \in Up /\ Upstreams[s.Pass] # Nothing -> Upstreams[s.Pass]
                 [] OTHER -> <<s.Pass>>

Series(s, n, l, b) == [vhost |-> n, listen |-> l, upstream |-> b, file |-> s.File]

(* The loops of Collect, outermost first, over servers, names, listeners   *)
(* and backends; the last two are given for each server.                   *)
Loops(listens, backends) ==
  FlattenSeq([k \in DOMAIN Servers |->
    FlattenSeq([n \in DOMAIN Servers[k].Names |->
      FlattenSeq([l \in DOMAIN listens[k] |->
        [b \in DOMAIN backends[k] |->
          Series(Servers[k], Servers[k].Names[n], listens[k][l], backends[k][b])]])])])

Labels(series) == <<series.vhost, series.listen, series.upstream>>

(* Slip: without the keys seen. *)
Emit_all(out, series) == Append(out, series)

(* The first series of a key is shown, whatever file the others are of.    *)
Emit(out, series) ==
  IF \E i \in DOMAIN out : Labels(out[i]) = Labels(series) THEN out ELSE Append(out, series)

(* upstream_member_info; its upstream_ip is the resolver's answer.         *)
MemberInfo == FoldLeft(Emit, <<>>,
  Loops([k \in DOMAIN Servers |-> <<Nothing>>], [k \in DOMAIN Servers |-> Backends(Servers[k])]))

VhostInfo == FoldLeft(Emit, <<>>,
  Loops([k \in DOMAIN Servers |-> Servers[k].Listens],
        [k \in DOMAIN Servers |-> IF Backends(Servers[k]) = <<>> THEN <<Nothing>>
                                  ELSE Backends(Servers[k])]))

-----------------------------------------------------------------------------
(* Every variable has its type; and the cursors of Parse say which blocks  *)
(* of the stack are open.                                                  *)
ServerBlock == [Names : Seq(Value \cup {CatchAll}), Listens : Seq(Value),
                Pass : Value \cup {Nothing}, File : File]
ConfTypeInv ==
  /\ phase \in {"write", "parse", "done"} /\ dump \in Dumps \cup {"none"}
  /\ part \in Part /\ includes \in 0 .. 2
  /\ stack \in Seq(Blocks) /\ cur \in 0 .. Len(Servers)
  /\ curUpstream \in Up \cup {Nothing}
  /\ \A u \in Up : Upstreams[u] = Nothing \/ Upstreams[u] \in Seq(Value)
  /\ Servers \in Seq(ServerBlock) /\ WorkerProcesses \in Value \cup {Nothing}
  /\ cur # 0 <=> InBlock(stack, "server")
  /\ curUpstream # Nothing <=> InBlock(stack, "upstream")

(* What the configuration says, the included file read where it is         *)
(* included, or not at all where the text lacks it: the server blocks in   *)
(* the order in which the text has them, the catch-all without a name, and *)
(* the members of each upstream.                                           *)
PartsRead == IF dump = "main file" THEN {"main", "rest"} ELSE Part

Opened(p, f) == [k \in DOMAIN Tail(servers[p]) |-> InFile(Tail(servers[p])[k], f)]
OfMain(included) ==
  LET all  == servers["main"]
      last == Joined(Joined(Last(all), included), servers["rest"][1])
  IN [k \in 1 .. Len(all) - 1 |-> InFile(IF k = Len(all) - 1 THEN last ELSE all[k + 1], "main")]
Named(s) == [s EXCEPT !.Names = IF @ = <<>> THEN <<CatchAll>> ELSE @]

ServersMeant ==
  LET whole == OfMain(servers["inc"][1])
      all == CASE dump = "nginx -T"  -> whole \o (Opened("rest", "main") \o Opened("inc", "inc"))
               [] dump = "disk"      -> whole \o (Opened("inc", "inc") \o Opened("rest", "main"))
               [] dump = "main file" -> OfMain(NewServer) \o Opened("rest", "main")
  IN [k \in DOMAIN all |-> Named(all[k])]
UpstreamsMeant ==
  LET MembersRead(p, u) == IF p \in PartsRead THEN members[p][u] ELSE Nothing
  IN [u \in Up |-> Cat(Cat(MembersRead("main", u), MembersRead("inc", u)), MembersRead("rest", u))]
WorkersMeant == {workers[p] : p \in PartsRead} \ {Nothing}

(* Parse yields the intended topology ("parses nginx -T output into the    *)
(* intended routing topology"): each server block once with its own names, *)
(* listeners and first target, in the order of the text, and each upstream *)
(* with its own members.  What is said in an included file that could not  *)
(* be read is missing, and nothing else is ("one unreadable file shouldn't *)
(* blank the whole topology", load.go:46-47).                              *)
Routing(all) == [k \in DOMAIN all |-> <<all[k].Names, all[k].Listens, all[k].Pass>>]
TopologyAsMeant ==
  phase = "done" =>
    /\ Routing(Servers) = Routing(ServersMeant)
    /\ Upstreams = UpstreamsMeant
    /\ {WorkerProcesses} \ {Nothing} = WorkersMeant

(* Each server block is attributed to the file it stands in (the label     *)
(* config_file of vhost_info).                                             *)
Files(all) == [k \in DOMAIN all |-> all[k].File]
AttributedToOwnFile == phase = "done" => Files(Servers) = Files(ServersMeant)

(* With the text of nginx -T, which has a marker before each file and each *)
(* file in one piece, no server block is attributed to another file, also  *)
(* where an include stands between two of them.                            *)
AttributedWhenPrinted == dump = "nginx -T" => AttributedToOwnFile

(* Every server name is shown exactly once for each listener of its block  *)
(* and each member behind it, and nothing else is: neither what nginx lets *)
(* be written twice nor what an included file adds repeats a series, which *)
(* would fail every scrape.                                                *)
BackendsMeant(s) ==
  IF s.Pass = Nothing THEN {}
  ELSE IF s.Pass \in Up /\ UpstreamsMeant[s.Pass] # Nothing THEN ToSet(UpstreamsMeant[s.Pass])
  ELSE {s.Pass}

OrNothing(S) == IF S = {} THEN {Nothing} ELSE S

IntentOnce ==
  phase = "done" =>
    /\ Len(VhostInfo) = Cardinality(ToSet([i \in DOMAIN VhostInfo |-> Labels(VhostInfo[i])]))
    /\ {Labels(v) : v \in ToSet(VhostInfo)}
         = UNION {ToSet(s.Names) \X ToSet(s.Listens) \X OrNothing(BackendsMeant(s))
                  : s \in ToSet(ServersMeant)}
    /\ Len(MemberInfo) = Cardinality(ToSet([i \in DOMAIN MemberInfo |-> Labels(MemberInfo[i])]))
    /\ {Labels(v) : v \in ToSet(MemberInfo)}
         = UNION {ToSet(s.Names) \X {Nothing} \X BackendsMeant(s) : s \in ToSet(ServersMeant)}

(* Every server block is in the routing topology that is shown ("intended  *)
(* routing graph from the running config").                                *)
NamesShown ==
  phase = "done" =>
    \A s \in ToSet(ServersMeant) : \A n \in ToSet(s.Names) :
      \E v \in ToSet(VhostInfo) : v.vhost = n
=============================================================================
