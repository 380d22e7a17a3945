--------------------------- MODULE KeepalivedConf ---------------------------
(***************************************************************************)
(* keepalived.parse, line by line, over the configurations an operator may *)
(* write, and the membership series VRRPCollector.Collect makes of the     *)
(* result.  A line is its first word, its second, and whether it has an    *)
(* opening and a closing brace, which is all parse looks at; comments and  *)
(* the part of an address from "/" on are cut off before.                  *)
(***************************************************************************)
EXTENDS Integers, Sequences, FiniteSets

CONSTANTS
  Name,       \* names of vrrp_instance blocks
  Number,     \* values of virtual_router_id and priority
  Iface,      \* interfaces
  Address,    \* virtual addresses
  Unset,      \* no second word, and a field never set
  Braces,     \* how braces are written: see WriteOpen and WriteInline
  Repeats,    \* may a block list an address twice, say with two prefixes?
  MaxLines    \* bound on the configuration

ASSUME KeepalivedAssumption ==
  /\ Unset \notin Number \cup Iface \cup Address \cup Name
  /\ Address \cap {"vrrp_instance", "virtual_ipaddress"} = {}
  /\ Braces \subseteq {"trailing", "alone", "inline"}
  /\ Repeats \in BOOLEAN /\ MaxLines \in Nat

Setting == {"virtual_router_id", "priority", "interface"}
Block   == {"vrrp_instance", "virtual_ipaddress", "unicast_peer", "other"}

VARIABLES
  pc,         \* "write" (the operator), "parse" or "done"
  lines,      \* the lines that are written and not yet parsed
  path,       \* the blocks that are open at their end
  meant,      \* the instances the operator writes
  out, cur,   \* the instances parsed, and the current one, 0 when cur is nil
  depth, instDepth, inVIPs

cursor == <<cur, depth, instDepth, inVIPs>>
vars   == <<pc, lines, path, meant, out, cursor>>

(* Instance{Name: n}; the fields of a Setting bear its name. *)
Instance(n) == [Name |-> n, virtual_router_id |-> Unset, priority |-> Unset,
                interface |-> Unset, VIPs |-> <<>>, Unicast |-> FALSE]

Init ==
  /\ pc = "write" /\ lines = <<>> /\ path = <<>> /\ meant = <<>>
  /\ out = <<>> /\ cur = 0 /\ depth = 0 /\ instDepth = 0 /\ inVIPs = FALSE

-----------------------------------------------------------------------------
(* The configurations.                                                     *)

Line(word, arg, open, close) == [word |-> word, arg |-> arg, open |-> open, close |-> close]

In(b) == path # <<>> /\ path[Len(path)] = b
this  == Len(meant)             \* the instance being written

Write(new, blocks, means) ==
  /\ pc = "write" /\ Len(lines) + Len(new) + Len(blocks) <= MaxLines
  /\ lines' = lines \o new /\ path' = blocks /\ meant' = means
  /\ UNCHANGED <<pc, out, cursor>>

(* Instances are at the top level, the blocks parse knows in an instance,  *)
(* other blocks (global_defs, authentication, track_script, ...) anywhere  *)
(* but among addresses.                                                    *)
MayOpen(b) ==
  \/ b = "vrrp_instance" /\ path = <<>>
  \/ b \in {"virtual_ipaddress", "unicast_peer"} /\ In("vrrp_instance")
  \/ b = "other" /\ ~In("virtual_ipaddress") /\ ~In("unicast_peer")

Opened(b, n) ==
  CASE b = "vrrp_instance" -> Append(meant, Instance(n))
    [] b = "unicast_peer"  -> [meant EXCEPT ![this].Unicast = TRUE]
    [] OTHER               -> meant

(* The brace ends the block's first line, or is a line of its own. *)
WriteOpen ==
  \E b \in Block, n \in Name \cup {Unset} :
    /\ MayOpen(b) /\ (n # Unset <=> b = "vrrp_instance")
    /\ \A k \in DOMAIN meant : meant[k].Name # n
    /\ \/ "trailing" \in Braces
          /\ Write(<<Line(b, n, TRUE, FALSE)>>, Append(path, b), Opened(b, n))
       \/ "alone" \in Braces
          /\ Write(<<Line(b, n, FALSE, FALSE), Line("{", Unset, TRUE, FALSE)>>,
                   Append(path, b), Opened(b, n))

(* A block on one line: parse sees its first word and both braces. *)
Inline == {"other", "unicast_peer"} \cup {b \in {"virtual_ipaddress"} : "inline" \in Braces}

WriteInline ==
  \E b \in Inline, a \in Address :
    /\ MayOpen(b)
    /\ Write(<<Line(b, Unset, TRUE, TRUE)>>, path,
             IF b = "virtual_ipaddress" THEN [meant EXCEPT ![this].VIPs = Append(@, a)]
                                        ELSE Opened(b, Unset))

(* A setting may be given again; the last one counts, also for keepalived. *)
WriteSetting ==
  \E s \in Setting, v \in Number \cup Iface :
    /\ In("vrrp_instance") /\ (v \in Iface <=> s = "interface")
    /\ Write(<<Line(s, v, FALSE, FALSE)>>, path, [meant EXCEPT ![this][s] = v])

Listed(a) == \E k \in DOMAIN meant[this].VIPs : meant[this].VIPs[k] = a

WriteAddress ==
  \E a \in Address :
    /\ In("virtual_ipaddress") /\ (Repeats \/ ~Listed(a))
    /\ Write(<<Line(a, Unset, FALSE, FALSE)>>, path, [meant EXCEPT ![this].VIPs = Append(@, a)])

(* A line that parse has no case for, in a block other than the addresses: *)
(* a peer, a password, or a directive of the instance.                     *)
WriteOther ==
  /\ path # <<>> /\ ~In("virtual_ipaddress")
  /\ Write(<<Line("other", Unset, FALSE, FALSE)>>, path, meant)

(* Blocks outside the instances use the words of settings too: garp_group  *)
(* names an interface.                                                     *)
WriteElsewhere ==
  \E v \in Iface :
    /\ path # <<>> /\ path[1] = "other"
    /\ Write(<<Line("interface", v, FALSE, FALSE)>>, path, meant)

WriteClose ==
  /\ path # <<>>
  /\ Write(<<Line("}", Unset, FALSE, TRUE)>>, SubSeq(path, 1, Len(path) - 1), meant)

Writing == \/ WriteOpen \/ WriteInline \/ WriteSetting
           \/ WriteAddress \/ WriteOther \/ WriteElsewhere \/ WriteClose

-----------------------------------------------------------------------------
(* parse                                                                   *)

ParseFile ==
  /\ pc = "write" /\ path = <<>>
  /\ pc' = "parse"
  /\ UNCHANGED <<lines, path, meant, out, cursor>>

line == Head(lines)

(* Slip: the end of an instance does not end it. *)
Count_keepsInstance(c, v) ==
  /\ depth' = depth + (IF line.open THEN 1 ELSE 0) - (IF line.close THEN 1 ELSE 0)
  /\ inVIPs' = (v /\ ~line.close)
  /\ cur' = c

(* Slip: the end of a block does not end the addresses. *)
Count_keepsVIPs(c, v) ==
  /\ depth' = depth + (IF line.open THEN 1 ELSE 0) - (IF line.close THEN 1 ELSE 0)
  /\ inVIPs' = v
  /\ cur' = IF line.close /\ depth' <= instDepth' THEN 0 ELSE c

(* The braces, once a line, after the switch left cur = c and inVIPs = v.  *)
Count(c, v) ==
  /\ depth' = depth + (IF line.open THEN 1 ELSE 0) - (IF line.close THEN 1 ELSE 0)
  /\ inVIPs' = (v /\ ~line.close)
  /\ cur' = IF line.close /\ ~v /\ depth' <= instDepth' THEN 0 ELSE c

Takes == pc = "parse" /\ lines # <<>> /\ lines' = Tail(lines) /\ UNCHANGED <<pc, path, meant>>
Keeps == UNCHANGED instDepth /\ Count(cur, inVIPs)

OpenInstance ==
  /\ Takes /\ line.word = "vrrp_instance"
  /\ out' = Append(out, Instance(line.arg))
  /\ instDepth' = depth
  /\ Count(Len(out) + 1, inVIPs)

OpenVIPs ==
  /\ Takes /\ cur # 0 /\ line.word = "virtual_ipaddress"
  /\ UNCHANGED <<out, instDepth>>
  /\ Count(cur, TRUE)

(* Any other line without a closing brace among the addresses is one. *)
IsVIP == cur # 0 /\ inVIPs /\ ~line.close /\ line.word \notin {"vrrp_instance", "virtual_ipaddress"}

AddVIP ==
  /\ Takes /\ IsVIP
  /\ out' = [out EXCEPT ![cur].VIPs = Append(@, line.word)]
  /\ Keeps

SetField ==
  /\ Takes /\ cur # 0 /\ ~IsVIP /\ line.word \in Setting
  /\ out' = [out EXCEPT ![cur][line.word] = line.arg]
  /\ Keeps

SetUnicast ==
  /\ Takes /\ cur # 0 /\ ~IsVIP /\ line.word = "unicast_peer"
  /\ out' = [out EXCEPT ![cur].Unicast = TRUE]
  /\ Keeps

(* No case of the switch: only the braces count. *)
Ignore ==
  /\ Takes /\ ~IsVIP /\ line.word # "vrrp_instance"
  /\ cur # 0 => line.word \notin Setting \cup {"virtual_ipaddress", "unicast_peer"}
  /\ UNCHANGED out
  /\ Keeps

Finish ==
  /\ pc = "parse" /\ lines = <<>>
  /\ pc' = "done"
  /\ UNCHANGED <<lines, path, meant, out, cursor>>

(* The next start of the exporter, with another configuration. *)
Again ==
  /\ pc = "done"
  /\ pc' = "write" /\ lines' = <<>> /\ path' = <<>> /\ meant' = <<>>
  /\ out' = <<>> /\ cur' = 0 /\ depth' = 0 /\ instDepth' = 0 /\ inVIPs' = FALSE

ParseText == \/ OpenInstance \/ OpenVIPs \/ AddVIP \/ SetField \/ SetUnicast \/ Ignore
             \/ Finish

Next == Writing \/ ParseFile \/ ParseText \/ Again

Spec == Init /\ [][Next]_vars

-----------------------------------------------------------------------------
(* The labels of the cluster_info samples, by the sample's place; a scrape *)
(* adds the host name and the segment, which is one per interface.         *)
Places       == {p \in (1 .. MaxLines) \X (1 .. MaxLines) :
                   p[1] \in DOMAIN out /\ p[2] \in DOMAIN out[p[1]].VIPs}
ClusterInfo(p) ==
  LET inst == out[p[1]] IN
  <<inst.virtual_router_id, inst.VIPs[p[2]], inst.Name, inst.interface>>

-----------------------------------------------------------------------------
(* Every variable has its type; and while it parses, depth is that of the  *)
(* line, and the addresses are those of an open instance.                  *)
Parsed == [Name : Name, virtual_router_id : Number \cup {Unset}, priority : Number \cup {Unset},
           interface : Iface \cup {Unset}, VIPs : Seq(Address), Unicast : BOOLEAN]
TypeInv ==
  /\ pc \in {"write", "parse", "done"} /\ meant \in Seq(Parsed)
  /\ out \in Seq(Parsed) /\ cur \in {0, Len(out)} /\ inVIPs \in BOOLEAN
  /\ depth \in 0 .. MaxLines /\ instDepth \in 0 .. depth
  /\ inVIPs => cur # 0

(* The exporter's membership is what the operator wrote, in the same order: *)
(* each instance with its own settings, all of its virtual addresses and    *)
(* nothing else, whatever blocks stand inside, between and around it ("the  *)
(* node's own config" says which VRIDs the node is a member of,             *)
(* conf.go:2-4).                                                            *)
MembershipAsMeant == pc = "done" => out = meant

(* No two samples of a scrape bear the same labels.  If two do, Gather      *)
(* fails and the scrape is answered with an error, all its series lost,     *)
(* though "any failure here ... never takes down the other collectors"      *)
(* (main.go:114-115).                                                       *)
MembershipOnce ==
  pc = "done" => \A p, q \in Places : ClusterInfo(p) = ClusterInfo(q) => p = q
=============================================================================
