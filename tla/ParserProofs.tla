---------------------------- MODULE ParserProofs ----------------------------
(***************************************************************************)
(* The two parsers of the VRRP collector.  keepalived.parse gives back the *)
(* instances the operator means, for configurations of every length; and   *)
(* what Listen observes is decided by the frame alone, for every length of *)
(* its buffer, every advert, option and damage, however many frames came   *)
(* before: a whole advert as it was sent, and nothing of a frame that is   *)
(* cut, is no advert, or has damage that its checksum is sure to show.     *)
(***************************************************************************)
EXTENDS KeepalivedConf, VrrpPacket, FiniteSetTheorems, SequenceTheorems, WellFoundedInduction,
        TLAPS

-----------------------------------------------------------------------------
(* keepalived.parse: one line.                                             *)

(* What parse keeps between two lines. *)
State(o, c, d, i, v) == [out |-> o, cur |-> c, depth |-> d, instDepth |-> i, inVIPs |-> v]
Now == State(out, cur, depth, instDepth, inVIPs)

(* What it makes of a line. *)
Vip(s, l) ==
  /\ s.cur # 0 /\ s.inVIPs /\ ~l.close
  /\ l.word \notin {"vrrp_instance", "virtual_ipaddress"}

StepOut(s, l) ==
  IF l.word = "vrrp_instance" THEN Append(s.out, Instance(l.arg))
  ELSE IF s.cur = 0 THEN s.out
  ELSE IF Vip(s, l) THEN [s.out EXCEPT ![s.cur].VIPs = Append(@, l.word)]
  ELSE IF l.word \in Setting THEN [s.out EXCEPT ![s.cur][l.word] = l.arg]
  ELSE IF l.word = "unicast_peer" THEN [s.out EXCEPT ![s.cur].Unicast = TRUE]
  ELSE s.out

StepDepth(s, l) == s.depth + (IF l.open THEN 1 ELSE 0) - (IF l.close THEN 1 ELSE 0)
StepInst(s, l)  == IF l.word = "vrrp_instance" THEN s.depth ELSE s.instDepth
StepVIPs(s, l)  == s.inVIPs \/ (s.cur # 0 /\ l.word = "virtual_ipaddress")

StepCur(s, l) ==
  IF l.close /\ ~StepVIPs(s, l) /\ StepDepth(s, l) <= StepInst(s, l) THEN 0
  ELSE IF l.word = "vrrp_instance" THEN Len(s.out) + 1 ELSE s.cur

Step(s, l) == State(StepOut(s, l), StepCur(s, l), StepDepth(s, l), StepInst(s, l),
                    StepVIPs(s, l) /\ ~l.close)

LEMMA Fields ==
  ASSUME NEW o, NEW c, NEW d, NEW i, NEW v
  PROVE  LET s == State(o, c, d, i, v) IN
         s.out = o /\ s.cur = c /\ s.depth = d /\ s.instDepth = i /\ s.inVIPs = v
  BY DEF State

Takers == OpenInstance \/ OpenVIPs \/ AddVIP \/ SetField \/ SetUnicast \/ Ignore

(* The six cases of parse are one function of the line. *)
LEMMA ParseSteps ==
  ASSUME inVIPs \in BOOLEAN, Takers
  PROVE  /\ Now' = Step(Now, line)
         /\ pc = "parse" /\ lines # <<>> /\ lines' = Tail(lines) /\ UNCHANGED <<pc, path, meant>>
<1>1. PICK s : s = Now
  OBVIOUS
<1>2. /\ s.out = out /\ s.cur = cur /\ s.depth = depth
      /\ s.instDepth = instDepth /\ s.inVIPs = inVIPs
  BY <1>1, Fields DEF Now
<1>3. /\ pc = "parse" /\ lines # <<>> /\ lines' = Tail(lines) /\ UNCHANGED <<pc, path, meant>>
  BY DEF Takers, Takes, OpenInstance, OpenVIPs, AddVIP, SetField, SetUnicast, Ignore
<1>4. SUFFICES /\ out' = StepOut(s, line) /\ cur' = StepCur(s, line)
               /\ depth' = StepDepth(s, line) /\ instDepth' = StepInst(s, line)
               /\ inVIPs' = (StepVIPs(s, line) /\ ~line.close)
  BY <1>1, <1>3 DEF Now, Step, State
<1> USE <1>2 DEF StepOut, StepCur, StepDepth, StepInst, StepVIPs, Vip, Count, Keeps
<1>5. CASE OpenInstance
  BY <1>5 DEF OpenInstance
<1>6. CASE OpenVIPs
  BY <1>6 DEF OpenVIPs, Setting
<1>7. CASE AddVIP
  BY <1>7 DEF AddVIP, IsVIP
<1>8. CASE SetField
  BY <1>8 DEF SetField, IsVIP, Setting
<1>9. CASE SetUnicast
  BY <1>9 DEF SetUnicast, IsVIP, Setting
<1>10. CASE Ignore
  BY <1>10 DEF Ignore, IsVIP, Setting
<1> QED
  BY <1>5, <1>6, <1>7, <1>8, <1>9, <1>10 DEF Takers

-----------------------------------------------------------------------------
(* Runs of parse over some lines.                                          *)

(* What is true of the state between any two lines. *)
Good(s) ==
  /\ s.out \in Seq(Parsed) /\ s.cur \in {0, Len(s.out)} /\ s.inVIPs \in BOOLEAN
  /\ s.depth \in 0 .. MaxLines /\ s.instDepth = 0
  /\ s.inVIPs => s.cur # 0

(* Parsing the lines ls leads from s to t, through good states. *)
Run(r, s, ls, t) ==
  /\ r[0] = s /\ r[Len(ls)] = t
  /\ \A k \in 0 .. Len(ls) : Good(r[k])
  /\ \A k \in 1 .. Len(ls) : r[k] = Step(r[k - 1], ls[k])
Leads(s, ls, t) == \E r : Run(r, s, ls, t)

LEMMA NoLines == ASSUME NEW s, Good(s) PROVE Leads(s, <<>>, s)
<1> DEFINE r == [k \in {0} |-> s]
<1>1. r[0] = s
  OBVIOUS
<1>2. Run(r, s, <<>>, s)
  BY <1>1 DEF Run
<1> QED
  BY <1>2 DEF Leads

LEMMA OneMore ==
  ASSUME NEW s, NEW T, NEW ls \in Seq(T), NEW t, NEW l \in T,
         Leads(s, ls, t), Good(Step(t, l))
  PROVE  Leads(s, Append(ls, l), Step(t, l))
<1>1. PICK r : Run(r, s, ls, t)
  BY DEF Leads
<1> DEFINE n == Len(ls)
           q == [k \in 0 .. n + 1 |-> IF k <= n THEN r[k] ELSE Step(t, l)]
<1>2. n \in Nat /\ Len(Append(ls, l)) = n + 1 /\ Append(ls, l)[n + 1] = l
      /\ \A k \in 1 .. n : Append(ls, l)[k] = ls[k]
  OBVIOUS
<1>3. /\ \A k \in 0 .. n : q[k] = r[k]
      /\ q[n + 1] = Step(t, l)
  BY <1>2
<1> HIDE DEF n, q
<1>4. /\ r[0] = s /\ r[n] = t /\ \A k \in 0 .. n : Good(r[k])
      /\ \A k \in 1 .. n : r[k] = Step(r[k - 1], ls[k])
  BY <1>1 DEF Run, n
<1>5. \A k \in 0 .. n + 1 : Good(q[k])
  BY <1>2, <1>3, <1>4
<1>6. \A k \in 1 .. n + 1 : q[k] = Step(q[k - 1], Append(ls, l)[k])
  <2> SUFFICES ASSUME NEW k \in 1 .. n + 1
               PROVE  q[k] = Step(q[k - 1], Append(ls, l)[k])
    OBVIOUS
  <2>1. CASE k \in 1 .. n
    <3>1. k - 1 \in 0 .. n /\ k \in 0 .. n
      BY <1>2, <2>1
    <3> QED
      BY <1>2, <1>3, <1>4, <2>1, <3>1
  <2>2. CASE k = n + 1
    <3>1. k - 1 = n /\ n \in 0 .. n
      BY <1>2, <2>2
    <3> QED
      BY <1>2, <1>3, <1>4, <2>2, <3>1
  <2> QED
    BY <1>2, <2>1, <2>2
<1>7. q[0] = s
  BY <1>2, <1>3, <1>4
<1>8. Run(q, s, Append(ls, l), Step(t, l))
  BY <1>2, <1>3, <1>5, <1>6, <1>7 DEF Run
<1> QED
  BY <1>8 DEF Leads

LEMMA OneLess ==
  ASSUME NEW s, NEW T, NEW ls \in Seq(T), NEW t, ls # <<>>, Leads(s, ls, t)
  PROVE  Leads(Step(s, Head(ls)), Tail(ls), t)
<1>1. PICK r : Run(r, s, ls, t)
  BY DEF Leads
<1> DEFINE n == Len(ls) - 1
           q == [k \in 0 .. n |-> r[k + 1]]
<1>2. /\ n \in Nat /\ Len(ls) = n + 1 /\ Len(Tail(ls)) = n /\ Head(ls) = ls[1]
      /\ \A k \in 1 .. n : Tail(ls)[k] = ls[k + 1]
  OBVIOUS
<1>3. \A k \in 0 .. n : q[k] = r[k + 1]
  OBVIOUS
<1> HIDE DEF n, q
<1>4. /\ r[0] = s /\ r[n + 1] = t /\ \A k \in 0 .. n + 1 : Good(r[k])
      /\ \A k \in 1 .. n + 1 : r[k] = Step(r[k - 1], ls[k])
  BY <1>1, <1>2 DEF Run
<1>5. \A k \in 0 .. n : Good(q[k])
  BY <1>2, <1>3, <1>4
<1>6. \A k \in 1 .. n : q[k] = Step(q[k - 1], Tail(ls)[k])
  <2> SUFFICES ASSUME NEW k \in 1 .. n
               PROVE  q[k] = Step(q[k - 1], Tail(ls)[k])
    OBVIOUS
  <2>1. k - 1 \in 0 .. n /\ k \in 0 .. n /\ k + 1 \in 1 .. n + 1 /\ (k - 1) + 1 = k
        /\ (k + 1) - 1 = k
    BY <1>2
  <2>2. q[k - 1] = r[k] /\ q[k] = r[k + 1] /\ r[k + 1] = Step(r[k], ls[k + 1])
    <3>1. q[k - 1] = r[k] /\ q[k] = r[k + 1]
      BY <1>3, <2>1
    <3>2. PICK m \in 1 .. n + 1 : m = k + 1 /\ m - 1 = k
      BY <2>1
    <3>3. r[m] = Step(r[m - 1], ls[m])
      BY <1>4
    <3> QED
      BY <3>1, <3>2, <3>3
  <2> QED
    BY <1>2, <2>2
<1>7. q[0] = Step(s, Head(ls)) /\ q[n] = t
  <2>1. 0 \in 0 .. n /\ n \in 0 .. n /\ 1 \in 1 .. n + 1
    BY <1>2
  <2>2. q[0] = r[1] /\ r[1] = Step(r[0], ls[1])
    BY <1>3, <1>4, <2>1
  <2> QED
    BY <1>2, <1>3, <1>4, <2>1, <2>2
<1>8. Run(q, Step(s, Head(ls)), Tail(ls), t)
  BY <1>2, <1>5, <1>6, <1>7 DEF Run
<1> QED
  BY <1>8 DEF Leads

LEMMA LeadsGood ==
  ASSUME NEW s, NEW T, NEW ls \in Seq(T), NEW t, Leads(s, ls, t)
  PROVE  Good(s) /\ Good(t) /\ (ls = <<>> => s = t)
<1>1. PICK r : Run(r, s, ls, t)
  BY DEF Leads
<1>2. 0 \in 0 .. Len(ls) /\ Len(ls) \in 0 .. Len(ls) /\ (ls = <<>> => Len(ls) = 0)
  OBVIOUS
<1> QED
  BY <1>1, <1>2 DEF Run

-----------------------------------------------------------------------------
(* What the operator has written, as the state parse is to be in there.    *)

Within(p)      == p # <<>> /\ p[1] = "vrrp_instance"
Listing(p)     == p # <<>> /\ p[Len(p)] = "virtual_ipaddress"
MeantAt(m, p)  == State(m, IF Within(p) THEN Len(m) ELSE 0, Len(p), 0, Listing(p))
LineWords == Block \cup Setting \cup Address \cup {"}"}
LineType == [word : LineWords, arg : Name \cup Number \cup Iface \cup {Unset},
             open : BOOLEAN, close : BOOLEAN]

(* Which blocks stand in which. *)
Nested(m, p) ==
  /\ m \in Seq(Parsed) /\ p \in Seq(Block)
  /\ \A k \in 1 .. Len(p) :
       /\ p[k] = "vrrp_instance" => k = 1
       /\ p[k] \in {"virtual_ipaddress", "unicast_peer"} =>
            k = 2 /\ Len(p) = 2 /\ p[1] = "vrrp_instance"
  /\ Within(p) => Len(m) > 0

LEMMA MeantGood ==
  ASSUME NEW m, NEW p, Nested(m, p), Len(p) <= MaxLines
  PROVE  Good(MeantAt(m, p))
<1> DEFINE s == MeantAt(m, p)
<1>1. /\ s.out = m /\ s.cur = (IF Within(p) THEN Len(m) ELSE 0) /\ s.depth = Len(p)
      /\ s.instDepth = 0 /\ s.inVIPs = Listing(p)
  BY Fields DEF MeantAt
<1>2. Len(p) \in 0 .. MaxLines /\ Len(m) \in Nat
  BY KeepalivedAssumption DEF Nested
<1>3. Listing(p) => Within(p)
  BY DEF Nested, Listing, Within
<1>4. Within(p) => Len(m) # 0
  BY <1>2 DEF Nested
<1> HIDE DEF s
<1>5. s.inVIPs \in BOOLEAN
  BY <1>1 DEF Listing
<1>6. s.cur \in {0, Len(s.out)} /\ (s.inVIPs => s.cur # 0)
  BY <1>1, <1>3, <1>4
<1>7. s.out \in Seq(Parsed) /\ s.depth \in 0 .. MaxLines
  BY <1>1, <1>2 DEF Nested
<1>8. Good(s)
  BY <1>1, <1>5, <1>6, <1>7, Zenon DEF Good
<1> QED
  BY <1>8 DEF s

LEMMA MeantFields ==
  ASSUME NEW m, NEW p
  PROVE  /\ MeantAt(m, p).out = m /\ MeantAt(m, p).cur = (IF Within(p) THEN Len(m) ELSE 0)
         /\ MeantAt(m, p).depth = Len(p) /\ MeantAt(m, p).instDepth = 0
         /\ MeantAt(m, p).inVIPs = Listing(p)
  BY Fields DEF MeantAt

LEMMA LineFields ==
  ASSUME NEW w, NEW a, NEW o, NEW c
  PROVE  /\ Line(w, a, o, c).word = w /\ Line(w, a, o, c).arg = a
         /\ Line(w, a, o, c).open = o /\ Line(w, a, o, c).close = c
  BY DEF Line

(* Inside a block and not among addresses, the instance is on top.         *)
LEMMA Top ==
  ASSUME NEW m, NEW p, Nested(m, p), p # <<>>
  PROVE  /\ p[Len(p)] = "vrrp_instance" => p = <<"vrrp_instance">>
         /\ Listing(p) => p = <<"vrrp_instance", "virtual_ipaddress">>
<1>1. Len(p) \in 1 .. Len(p) /\ p \in Seq(Block)
  BY DEF Nested
<1>2. ASSUME p[Len(p)] = "vrrp_instance" PROVE p = <<"vrrp_instance">>
  <2>1. Len(p) = 1
    BY <1>1, <1>2 DEF Nested
  <2> QED
    BY <1>1, <1>2, <2>1
<1>3. ASSUME Listing(p) PROVE p = <<"vrrp_instance", "virtual_ipaddress">>
  <2>1. Len(p) = 2 /\ p[1] = "vrrp_instance" /\ p[2] = "virtual_ipaddress"
    BY <1>1, <1>3 DEF Nested, Listing
  <2> QED
    BY <1>1, <2>1
<1> QED
  BY <1>2, <1>3

LEMMA InstanceParsed ==
  ASSUME NEW n \in Name
  PROVE  Instance(n) \in Parsed
<1>1. <<>> \in Seq(Address)
  OBVIOUS
<1> QED
  BY <1>1 DEF Instance, Parsed

LEMMA LastOf ==
  ASSUME NEW p \in Seq(Block), NEW b \in Block
  PROVE  /\ Append(p, b) # <<>> /\ Append(p, b) \in Seq(Block)
         /\ Len(Append(p, b)) = Len(p) + 1 /\ Len(p) \in Nat
         /\ Append(p, b)[Len(p) + 1] = b
         /\ \A k \in 1 .. Len(p) : Append(p, b)[k] = p[k]
         /\ Append(p, b)[1] = (IF p = <<>> THEN b ELSE p[1])
         /\ Listing(Append(p, b)) <=> b = "virtual_ipaddress"
<1>1. /\ Append(p, b) # <<>> /\ Append(p, b) \in Seq(Block)
      /\ Len(Append(p, b)) = Len(p) + 1 /\ Len(p) \in Nat
      /\ Append(p, b)[Len(p) + 1] = b
      /\ \A k \in 1 .. Len(p) : Append(p, b)[k] = p[k]
  OBVIOUS
<1>2. Append(p, b)[1] = (IF p = <<>> THEN b ELSE p[1])
  <2>1. CASE p = <<>>
    BY <1>1, <2>1
  <2>2. CASE p # <<>>
    <3>1. 1 \in 1 .. Len(p)
      BY <2>2
    <3> QED
      BY <1>1, <2>2, <3>1
  <2> QED
    BY <2>1, <2>2
<1>3. Listing(Append(p, b)) <=> b = "virtual_ipaddress"
  BY <1>1, Zenon DEF Listing
<1> QED
  BY <1>1, <1>2, <1>3

(* The instance that is being written is changed.                          *)
LEMMA InSequence ==
  ASSUME NEW m \in Seq(Parsed), NEW i \in 1 .. Len(m), NEW x \in Parsed
  PROVE  [m EXCEPT ![i] = x] \in Seq(Parsed) /\ Len([m EXCEPT ![i] = x]) = Len(m)
  BY ExceptSeq

LEMMA Changed ==
  ASSUME NEW m \in Seq(Parsed), Len(m) > 0, NEW m2,
         \/ m2 = [m EXCEPT ![Len(m)].Unicast = TRUE]
         \/ \E a \in Address : m2 = [m EXCEPT ![Len(m)].VIPs = Append(@, a)]
         \/ \E f \in Setting, v \in Number \cup Iface :
              (v \in Iface <=> f = "interface") /\ m2 = [m EXCEPT ![Len(m)][f] = v]
  PROVE  m2 \in Seq(Parsed) /\ Len(m2) = Len(m)
<1>1. Len(m) \in 1 .. Len(m) /\ m[Len(m)] \in Parsed
  OBVIOUS
<1>2. SUFFICES \E x \in Parsed : m2 = [m EXCEPT ![Len(m)] = x]
  BY <1>1, InSequence
<1>3. CASE m2 = [m EXCEPT ![Len(m)].Unicast = TRUE]
  <2>1. \A x \in Parsed : [x EXCEPT !.Unicast = TRUE] \in Parsed
    BY DEF Parsed
  <2> QED
    BY <1>1, <1>3, <2>1
<1>4. ASSUME NEW a \in Address, m2 = [m EXCEPT ![Len(m)].VIPs = Append(@, a)]
      PROVE  \E x \in Parsed : m2 = [m EXCEPT ![Len(m)] = x]
  <2>1. \A v \in Seq(Address) : Append(v, a) \in Seq(Address)
    OBVIOUS
  <2>2. \A x \in Parsed : [x EXCEPT !.VIPs = Append(@, a)] \in Parsed
    BY <2>1 DEF Parsed
  <2> QED
    BY <1>1, <1>4, <2>2
<1>5. ASSUME NEW f \in Setting, NEW v \in Number \cup Iface, v \in Iface <=> f = "interface",
             m2 = [m EXCEPT ![Len(m)][f] = v]
      PROVE  \E x \in Parsed : m2 = [m EXCEPT ![Len(m)] = x]
  <2>1. \A x \in Parsed : [x EXCEPT ![f] = v] \in Parsed
    <3>1. CASE f = "virtual_router_id"
      BY <1>5, <3>1 DEF Parsed
    <3>2. CASE f = "priority"
      BY <1>5, <3>2 DEF Parsed
    <3>3. CASE f = "interface"
      BY <1>5, <3>3 DEF Parsed
    <3> QED
      BY <3>1, <3>2, <3>3 DEF Setting
  <2> QED
    BY <1>1, <1>5, <2>1
<1> QED
  BY <1>3, <1>4, <1>5

(* A block is opened.                                                      *)
Fits(p, b, n) ==
  \/ b = "vrrp_instance" /\ p = <<>> /\ n \in Name
  \/ b \in {"virtual_ipaddress", "unicast_peer"} /\ p = <<"vrrp_instance">>
  \/ b = "other" /\ ~Listing(p) /\ (p = <<>> \/ p[Len(p)] # "unicast_peer")

OpenedIn(m, b, n) ==
  IF b = "vrrp_instance" THEN Append(m, Instance(n))
  ELSE IF b = "unicast_peer" THEN [m EXCEPT ![Len(m)].Unicast = TRUE]
  ELSE m

LEMMA Opens ==
  ASSUME NEW m, NEW p, NEW b \in Block, NEW n, Nested(m, p), Fits(p, b, n)
  PROVE  /\ Nested(OpenedIn(m, b, n), Append(p, b))
         /\ Step(MeantAt(m, p), Line(b, n, TRUE, FALSE)) = MeantAt(OpenedIn(m, b, n), Append(p, b))
<1> PICK m2 : m2 = OpenedIn(m, b, n)
  OBVIOUS
<1>a. m2 = IF b = "vrrp_instance" THEN Append(m, Instance(n))
           ELSE IF b = "unicast_peer" THEN [m EXCEPT ![Len(m)].Unicast = TRUE]
           ELSE m
  BY Zenon DEF OpenedIn
<1>b. \/ b = "vrrp_instance" /\ p = <<>> /\ n \in Name
      \/ b \in {"virtual_ipaddress", "unicast_peer"} /\ p = <<"vrrp_instance">>
      \/ b = "other" /\ ~Listing(p) /\ (p = <<>> \/ p[Len(p)] # "unicast_peer")
  BY Zenon DEF Fits
<1> USE <1>a, <1>b
<1> DEFINE s == MeantAt(m, p)
           l == Line(b, n, TRUE, FALSE)
           q == Append(p, b)
<1>0. m \in Seq(Parsed) /\ p \in Seq(Block)
  BY DEF Nested
<1>1. /\ s.out = m /\ s.cur = (IF Within(p) THEN Len(m) ELSE 0) /\ s.depth = Len(p)
      /\ s.instDepth = 0 /\ (s.inVIPs <=> Listing(p))
  BY MeantFields
<1>2. l.word = b /\ l.arg = n /\ l.open /\ ~l.close /\ l.close \in BOOLEAN
  BY DEF l, Line
<1>3. /\ q # <<>> /\ q \in Seq(Block) /\ Len(q) = Len(p) + 1 /\ Len(p) \in Nat
      /\ q[Len(p) + 1] = b /\ \A k \in 1 .. Len(p) : q[k] = p[k]
      /\ q[1] = (IF p = <<>> THEN b ELSE p[1])
      /\ (Listing(q) <=> b = "virtual_ipaddress")
  BY <1>0, LastOf
<1> HIDE DEF s, l, q
<1>8. SUFFICES Nested(m2, q) /\ Step(s, l) = MeantAt(m2, q)
  BY Zenon DEF s, l, q
<1>9. StepDepth(s, l) = Len(q)
  <2>1. s.depth \in Nat /\ StepDepth(s, l) = s.depth + 1 - 0
    BY <1>1, <1>2, <1>3 DEF StepDepth
  <2> QED
    BY <1>1, <1>3, <2>1
<1>10. StepCur(s, l) = IF b = "vrrp_instance" THEN Len(m) + 1 ELSE s.cur
  BY <1>1, <1>2 DEF StepCur
<1>4. CASE b = "vrrp_instance" /\ p = <<>> /\ n \in Name
  <2>1. Len(p) = 0 /\ ~Within(p) /\ ~Listing(p) /\ Within(q) /\ Len(q) = 1
    BY <1>3, <1>4 DEF Within, Listing
  <2>2. m2 = Append(m, Instance(n)) /\ m2 \in Seq(Parsed) /\ Len(m2) = Len(m) + 1 /\ Len(m2) > 0
    BY <1>0, <1>4, InstanceParsed
  <2>3. Nested(m2, q)
    BY <1>3, <1>4, <2>1, <2>2 DEF Nested
  <2>4. StepOut(s, l) = m2
    BY <1>1, <1>2, <1>4, <2>2 DEF StepOut
  <2>5. StepInst(s, l) = 0
    BY <1>1, <1>2, <1>4, <2>1 DEF StepInst
  <2>6. StepVIPs(s, l) /\ ~l.close <=> Listing(q)
    BY <1>1, <1>2, <1>3, <1>4, <2>1 DEF StepVIPs, Listing
  <2>7. StepCur(s, l) = IF Within(q) THEN Len(m2) ELSE 0
    BY <1>4, <1>10, <2>1, <2>2
  <2> QED
    <3>1. (StepVIPs(s, l) /\ ~l.close) = Listing(q)
      BY <2>6, Zenon DEF Listing
    <3>2. Step(s, l) = MeantAt(m2, q)
      BY <1>9, <2>4, <2>5, <2>7, <3>1, Zenon DEF Step, MeantAt
    <3> QED
      BY <2>3, <3>2
<1>5. CASE b \in {"virtual_ipaddress", "unicast_peer"} /\ p = <<"vrrp_instance">>
  <2>1. Len(p) = 1 /\ Within(p) /\ ~Listing(p) /\ Within(q) /\ Len(q) = 2
        /\ q[1] = "vrrp_instance" /\ q[2] = b
    BY <1>3, <1>5 DEF Within, Listing
  <2>2. Len(m) > 0 /\ Len(m) \in Nat /\ s.cur = Len(m)
    BY <1>1, <2>1 DEF Nested
  <2>3. m2 \in Seq(Parsed) /\ Len(m2) = Len(m)
    <3>1. CASE b = "unicast_peer"
      <4>1. m2 = [m EXCEPT ![Len(m)].Unicast = TRUE]
        BY <1>5, <3>1
      <4> QED
        BY <1>0, <2>2, <4>1, Changed
    <3>2. CASE b # "unicast_peer"
      BY <1>0, <1>5, <3>2
    <3> QED
      BY <3>1, <3>2
  <2>4. Nested(m2, q)
    <3>1. \A k \in 1 .. Len(q) : k = 1 \/ k = 2
      BY <2>1
    <3> QED
      BY <1>3, <1>5, <2>1, <2>2, <2>3, <3>1 DEF Nested
  <2>5. StepOut(s, l) = m2
    <3>1. ~Vip(s, l) /\ s.cur # 0 /\ l.word \notin Setting /\ l.word # "vrrp_instance"
      BY <1>1, <1>2, <1>5, <2>1, <2>2 DEF Vip, Setting
    <3>2. StepOut(s, l) = IF l.word = "unicast_peer" THEN [s.out EXCEPT ![s.cur].Unicast = TRUE]
                          ELSE s.out
      BY <3>1, Zenon DEF StepOut
    <3>3. CASE b = "unicast_peer"
      <4>1. m2 = [m EXCEPT ![Len(m)].Unicast = TRUE]
        BY <3>3
      <4>2. StepOut(s, l) = [s.out EXCEPT ![s.cur].Unicast = TRUE]
        BY <1>2, <3>2, <3>3
      <4> QED
        BY <1>1, <2>2, <4>1, <4>2, Zenon
    <3>4. CASE b # "unicast_peer"
      BY <1>1, <1>2, <1>5, <3>2, <3>4
    <3> QED
      BY <3>3, <3>4
  <2>6. StepInst(s, l) = 0
    BY <1>1, <1>2, <1>5 DEF StepInst
  <2>7. StepVIPs(s, l) /\ ~l.close <=> Listing(q)
    BY <1>1, <1>2, <1>3, <2>1, <2>2 DEF StepVIPs, Listing
  <2>8. StepCur(s, l) = IF Within(q) THEN Len(m2) ELSE 0
    BY <1>5, <1>10, <2>1, <2>2, <2>3
  <2> QED
    <3>1. (StepVIPs(s, l) /\ ~l.close) = Listing(q)
      BY <2>7, Zenon DEF Listing
    <3>2. Step(s, l) = MeantAt(m2, q)
      BY <1>9, <2>5, <2>6, <2>8, <3>1, Zenon DEF Step, MeantAt
    <3> QED
      BY <2>4, <3>2
<1>6. CASE b = "other" /\ ~Listing(p) /\ (p = <<>> \/ p[Len(p)] # "unicast_peer")
  <2>1. Within(q) <=> Within(p)
    BY <1>3, <1>6 DEF Within
  <2>2. m2 = m /\ Len(m) \in Nat
    BY <1>0, <1>6
  <2>3. Nested(m2, q)
    <3>1. \A k \in 1 .. Len(p) : p[k] \notin {"virtual_ipaddress", "unicast_peer"}
      <4> SUFFICES ASSUME NEW k \in 1 .. Len(p), p[k] \in {"virtual_ipaddress", "unicast_peer"}
                   PROVE  FALSE
        OBVIOUS
      <4>1. k = Len(p) /\ p # <<>>
        BY <1>3 DEF Nested
      <4> QED
        BY <1>6, <4>1 DEF Listing
    <3>2. \A k \in 1 .. Len(q) : k \in 1 .. Len(p) \/ k = Len(p) + 1
      BY <1>3
    <3>3. \A k \in 1 .. Len(q) :
            /\ q[k] = "vrrp_instance" => k = 1
            /\ q[k] \notin {"virtual_ipaddress", "unicast_peer"}
      BY <1>3, <1>6, <3>1, <3>2 DEF Nested
    <3> QED
      BY <1>3, <2>1, <2>2, <3>3 DEF Nested
  <2>4. StepOut(s, l) = m2
    <3>1. ~Vip(s, l) /\ l.word \notin Setting /\ l.word \notin {"vrrp_instance", "unicast_peer"}
      BY <1>1, <1>2, <1>6 DEF Vip, Setting
    <3> QED
      BY <1>1, <2>2, <3>1 DEF StepOut
  <2>5. StepInst(s, l) = 0
    BY <1>1, <1>2, <1>6 DEF StepInst
  <2>6. StepVIPs(s, l) /\ ~l.close <=> Listing(q)
    BY <1>1, <1>2, <1>3, <1>6 DEF StepVIPs, Listing
  <2>7. StepCur(s, l) = IF Within(q) THEN Len(m2) ELSE 0
    BY <1>1, <1>6, <1>10, <2>1, <2>2
  <2> QED
    <3>1. (StepVIPs(s, l) /\ ~l.close) = Listing(q)
      BY <2>6, Zenon DEF Listing
    <3>2. Step(s, l) = MeantAt(m2, q)
      BY <1>9, <2>4, <2>5, <2>7, <3>1, Zenon DEF Step, MeantAt
    <3> QED
      BY <2>3, <3>2
<1> QED
  BY <1>4, <1>5, <1>6

(* A line that leaves the blocks open as they are: a directive or a block   *)
(* on one line, with or without an effect on the instance, or an address.   *)
Plain(p, l) ==
  /\ l.open \in BOOLEAN /\ l.close = l.open
  /\ l.word \notin {"vrrp_instance", "virtual_ipaddress"}
  /\ Listing(p) => ~l.close /\ l.word \in Address
  /\ ~Listing(p) /\ (l.word = "unicast_peer" \/ l.word \in Setting) => p = <<"vrrp_instance">>
  /\ ~Listing(p) /\ l.word \in Setting =>
       l.arg \in Number \cup Iface /\ (l.arg \in Iface <=> l.word = "interface")

After(m, p, l) ==
  IF Listing(p) THEN [m EXCEPT ![Len(m)].VIPs = Append(@, l.word)]
  ELSE IF l.word \in Setting THEN [m EXCEPT ![Len(m)][l.word] = l.arg]
  ELSE IF l.word = "unicast_peer" THEN [m EXCEPT ![Len(m)].Unicast = TRUE]
  ELSE m

LEMMA Stays ==
  ASSUME NEW m, NEW p, NEW l, Nested(m, p), Plain(p, l)
  PROVE  Nested(After(m, p, l), p) /\ Step(MeantAt(m, p), l) = MeantAt(After(m, p, l), p)
<1> PICK m2 : m2 = After(m, p, l)
  OBVIOUS
<1>a. m2 = IF Listing(p) THEN [m EXCEPT ![Len(m)].VIPs = Append(@, l.word)]
           ELSE IF l.word \in Setting THEN [m EXCEPT ![Len(m)][l.word] = l.arg]
           ELSE IF l.word = "unicast_peer" THEN [m EXCEPT ![Len(m)].Unicast = TRUE]
           ELSE m
  BY Zenon DEF After
<1>b. /\ l.open \in BOOLEAN /\ l.close = l.open
      /\ l.word \notin {"vrrp_instance", "virtual_ipaddress"}
      /\ Listing(p) => ~l.close /\ l.word \in Address
      /\ ~Listing(p) /\ (l.word = "unicast_peer" \/ l.word \in Setting) => p = <<"vrrp_instance">>
      /\ ~Listing(p) /\ l.word \in Setting =>
           l.arg \in Number \cup Iface /\ (l.arg \in Iface <=> l.word = "interface")
  BY Zenon DEF Plain
<1> USE <1>a, <1>b
<1> DEFINE s == MeantAt(m, p)
<1>0. m \in Seq(Parsed) /\ p \in Seq(Block) /\ Len(m) \in Nat /\ Len(p) \in Nat
  BY DEF Nested
<1>1. /\ s.out = m /\ s.cur = (IF Within(p) THEN Len(m) ELSE 0) /\ s.depth = Len(p)
      /\ s.instDepth = 0 /\ (s.inVIPs <=> Listing(p))
  BY MeantFields
<1> HIDE DEF s
<1>2. /\ Within(p) => Len(m) > 0
      /\ Listing(p) => Within(p)
      /\ ~Listing(p) /\ (l.word = "unicast_peer" \/ l.word \in Setting) => Within(p)
  <2>1. p = <<"vrrp_instance">> => Within(p) /\ ~Listing(p)
    BY DEF Within, Listing
  <2>2. Listing(p) => Within(p)
    BY Top DEF Within, Nested, Listing
  <2> QED
    BY <2>1, <2>2 DEF Nested
<1>3. m2 \in Seq(Parsed) /\ Len(m2) = Len(m)
  <2>1. CASE Listing(p)
    BY <1>0, <1>2, <2>1, Changed
  <2>2. CASE ~Listing(p) /\ l.word \in Setting
    BY <1>0, <1>2, <2>2, Changed
  <2>3. CASE ~Listing(p) /\ l.word \notin Setting /\ l.word = "unicast_peer"
    BY <1>0, <1>2, <2>3, Changed
  <2>4. CASE ~Listing(p) /\ l.word \notin Setting /\ l.word # "unicast_peer"
    BY <1>0, <2>4
  <2> QED
    BY <2>1, <2>2, <2>3, <2>4
<1>4. Nested(m2, p)
  BY <1>3 DEF Nested
<1>5. StepOut(s, l) = m2
  <2>1. Vip(s, l) <=> Listing(p)
    BY <1>0, <1>1, <1>2 DEF Vip
  <2>2. CASE Listing(p)
    <3>1. s.cur # 0 /\ s.cur = Len(m)
      BY <1>0, <1>1, <1>2, <2>2
    <3> QED
      BY <1>1, <2>1, <2>2, <3>1, Zenon DEF StepOut
  <2>3. CASE ~Listing(p) /\ (l.word = "unicast_peer" \/ l.word \in Setting)
    <3>1. s.cur # 0 /\ s.cur = Len(m)
      BY <1>0, <1>1, <1>2, <2>3
    <3> QED
      BY <1>1, <2>1, <2>3, <3>1, Zenon DEF StepOut
  <2>4. CASE ~Listing(p) /\ l.word # "unicast_peer" /\ l.word \notin Setting
    BY <1>1, <2>1, <2>4 DEF StepOut
  <2> QED
    BY <2>2, <2>3, <2>4
<1>6. StepDepth(s, l) = Len(p)
  BY <1>0, <1>1 DEF StepDepth
<1>7. StepInst(s, l) = 0
  BY <1>1 DEF StepInst
<1>8. StepVIPs(s, l) <=> Listing(p)
  BY <1>1 DEF StepVIPs
<1>9. StepCur(s, l) = IF Within(p) THEN Len(m2) ELSE 0
  <2>1. Within(p) => Len(p) > 0
    BY <1>0 DEF Within
  <2>2. StepCur(s, l) = IF l.close /\ ~StepVIPs(s, l) /\ Len(p) <= 0 THEN 0 ELSE s.cur
    BY <1>6, <1>7 DEF StepCur
  <2> QED
    BY <1>0, <1>1, <1>3, <2>1, <2>2
<1>10. (StepVIPs(s, l) /\ ~l.close) = Listing(p)
  BY <1>8, Zenon DEF Listing
<1>11. Step(s, l) = MeantAt(m2, p)
  BY <1>5, <1>6, <1>7, <1>9, <1>10, Zenon DEF Step, MeantAt
<1> QED
  BY <1>4, <1>11 DEF s

(* The innermost block ends. *)
LEMMA Closes ==
  ASSUME NEW m, NEW p, NEW l, Nested(m, p), p # <<>>,
         l.open = FALSE, l.close = TRUE, l.word \notin Block \cup Setting
  PROVE  LET q == SubSeq(p, 1, Len(p) - 1) IN
         Nested(m, q) /\ Step(MeantAt(m, p), l) = MeantAt(m, q)
<1> DEFINE s == MeantAt(m, p)
           q == SubSeq(p, 1, Len(p) - 1)
<1>0. m \in Seq(Parsed) /\ p \in Seq(Block) /\ Len(m) \in Nat /\ Len(p) \in Nat /\ Len(p) > 0
  <2>1. m \in Seq(Parsed) /\ p \in Seq(Block)
    BY DEF Nested
  <2> QED
    BY <2>1, EmptySeq
<1>1. /\ s.out = m /\ s.cur = (IF Within(p) THEN Len(m) ELSE 0) /\ s.depth = Len(p)
      /\ s.instDepth = 0 /\ (s.inVIPs <=> Listing(p))
  BY MeantFields
<1>2. /\ q \in Seq(Block) /\ Len(q) = Len(p) - 1
      /\ \A k \in 1 .. Len(p) - 1 : q[k] = p[k]
  <2>1. \A n \in 0 .. Len(p) : /\ SubSeq(p, 1, n) \in Seq(Block) /\ Len(SubSeq(p, 1, n)) = n
                              /\ \A k \in 1 .. n : SubSeq(p, 1, n)[k] = p[k]
    BY <1>0
  <2>2. Len(p) - 1 \in 0 .. Len(p)
    BY <1>0
  <2> QED
    BY <2>1, <2>2, Zenon
<1> HIDE DEF s, q
<1>3. Within(q) <=> Within(p) /\ Len(p) # 1
  BY <1>0, <1>2 DEF Within
<1>4. ~Listing(q)
  <2> SUFFICES ASSUME Listing(q) PROVE FALSE
    OBVIOUS
  <2>1. PICK k \in 1 .. Len(p) : k = Len(p) - 1 /\ p[k] = "virtual_ipaddress"
    BY <1>0, <1>2 DEF Listing
  <2>2. k = 2 /\ Len(p) = 2
    BY <2>1 DEF Nested
  <2> QED
    BY <2>1, <2>2
<1>5. Nested(m, q)
  <2>1. \A k \in 1 .. Len(q) : p[k] \notin {"virtual_ipaddress", "unicast_peer"}
    <3> SUFFICES ASSUME NEW k \in 1 .. Len(q), p[k] \in {"virtual_ipaddress", "unicast_peer"}
                 PROVE  FALSE
      OBVIOUS
    <3>1. k \in 1 .. Len(p) /\ k < Len(p)
      BY <1>0, <1>2
    <3>2. k = 2 /\ Len(p) = 2
      BY <3>1 DEF Nested
    <3> QED
      BY <3>1, <3>2
  <2>2. \A k \in 1 .. Len(q) : k \in 1 .. Len(p) /\ q[k] = p[k]
    BY <1>0, <1>2
  <2> QED
    BY <1>0, <1>2, <1>3, <2>1, <2>2 DEF Nested
<1>6. StepOut(s, l) = m
  <2>1. ~Vip(s, l)
    BY DEF Vip
  <2> QED
    BY <1>1, <2>1 DEF StepOut, Block
<1>7. StepDepth(s, l) = Len(q)
  BY <1>0, <1>1, <1>2 DEF StepDepth
<1>8. StepInst(s, l) = 0
  BY <1>1 DEF StepInst, Block
<1>9. StepVIPs(s, l) <=> Listing(p)
  BY <1>1 DEF StepVIPs, Block
<1>10. StepCur(s, l) = IF Within(q) THEN Len(m) ELSE 0
  <2>1. StepCur(s, l) = IF ~Listing(p) /\ Len(q) <= 0 THEN 0 ELSE s.cur
    BY <1>7, <1>8, <1>9 DEF StepCur, Block
  <2>2. Len(p) = 1 => ~Listing(p)
    BY <1>0 DEF Listing, Nested
  <2> QED
    BY <1>0, <1>1, <1>2, <1>3, <2>1, <2>2
<1>11. (StepVIPs(s, l) /\ ~l.close) = Listing(q)
  BY <1>4, Zenon DEF Listing
<1>12. Step(s, l) = MeantAt(m, q)
  BY <1>6, <1>7, <1>8, <1>10, <1>11, Zenon DEF Step, MeantAt
<1> QED
  BY <1>5, <1>12, Zenon DEF s, q

-----------------------------------------------------------------------------
(* The invariant: parsing what is written, and not yet parsed, leads to     *)
(* the state in which the instances are those the operator means.           *)

Start == State(<<>>, 0, 0, 0, FALSE)

PInv ==
  /\ pc \in {"write", "parse", "done"} /\ lines \in Seq(LineType)
  /\ Nested(meant, path) /\ Good(Now)
  /\ pc = "write" => Now = Start /\ Leads(Start, lines, MeantAt(meant, path))
  /\ pc = "parse" => path = <<>> /\ Leads(Now, lines, MeantAt(meant, path))
  /\ pc = "done" => out = meant

LEMMA StartGood == Good(Start) /\ Start = MeantAt(<<>>, <<>>) /\ Nested(<<>>, <<>>)
<1>1. <<>> \in Seq(Parsed) /\ <<>> \in Seq(Block) /\ Len(<<>>) = 0
      /\ ~Within(<<>>) /\ ~Listing(<<>>)
  BY DEF Within, Listing
<1>2. Nested(<<>>, <<>>)
  BY <1>1 DEF Nested
<1>3. Start = MeantAt(<<>>, <<>>)
  <2>1. PICK e : e = <<>>
    OBVIOUS
  <2>2. Listing(e) = FALSE /\ (IF Within(e) THEN Len(e) ELSE 0) = 0 /\ Len(e) = 0
    BY <1>1, <2>1
  <2>3. MeantAt(e, e) = State(e, 0, 0, 0, FALSE)
    BY <2>2, Zenon DEF MeantAt
  <2> QED
    BY <2>1, <2>3, Zenon DEF Start
<1>4. Len(<<>>) <= MaxLines
  BY <1>1, KeepalivedAssumption
<1> QED
  BY <1>2, <1>3, <1>4, MeantGood

LEMMA Written ==
  ASSUME PInv, NEW l \in LineType, NEW p2, NEW m2, Write(<<l>>, p2, m2), Nested(m2, p2),
         Step(MeantAt(meant, path), l) = MeantAt(m2, p2)
  PROVE  PInv'
<1> PICK ls \in Seq(LineType) : ls = lines
  BY DEF PInv
<1> PICK m, p : m = meant /\ p = path
  OBVIOUS
<1>1. /\ pc = "write" /\ pc' = "write" /\ lines' = Append(ls, l) /\ path' = p2 /\ meant' = m2
      /\ Len(ls) + 1 + Len(p2) <= MaxLines
      /\ out' = out /\ cur' = cur /\ depth' = depth /\ instDepth' = instDepth /\ inVIPs' = inVIPs
  BY DEF Write, cursor
<1>2. Append(ls, l) \in Seq(LineType)
  OBVIOUS
<1>3. Good(MeantAt(m2, p2))
  <2>1. Len(ls) \in Nat /\ Len(p2) \in Nat /\ MaxLines \in Nat
    BY KeepalivedAssumption DEF Nested
  <2>2. Len(p2) <= MaxLines
    BY <1>1, <2>1
  <2> QED
    BY <2>2, MeantGood
<1>4. Leads(Start, ls, MeantAt(m, p))
  BY <1>1 DEF PInv
<1>5. Step(MeantAt(m, p), l) = MeantAt(m2, p2)
  OBVIOUS
<1>6. Leads(Start, Append(ls, l), MeantAt(m2, p2))
  <2>1. Good(Step(MeantAt(m, p), l))
    BY <1>3, <1>5
  <2> QED
    BY <1>4, <1>5, <2>1, OneMore
<1>7. Now' = Now
  BY <1>1 DEF Now
<1>8. Leads(Start, lines, MeantAt(meant, path))'
  BY <1>1, <1>6, Zenon DEF Leads, Start, MeantAt
<1> QED
  BY <1>1, <1>2, <1>7, <1>8 DEF PInv

(* Every action of the operator is such a line, braces trailing.            *)
LEMMA WriteOpenStep == ASSUME PInv, Braces = {"trailing"}, WriteOpen PROVE PInv'
<1> PICK m, p : m = meant /\ p = path
  OBVIOUS
<1>1. PICK b \in Block, n \in Name \cup {Unset} :
        /\ MayOpen(b) /\ (n # Unset <=> b = "vrrp_instance")
        /\ Write(<<Line(b, n, TRUE, FALSE)>>, Append(p, b), Opened(b, n))
  BY Zenon DEF WriteOpen
<1>2. Nested(m, p)
  BY DEF PInv
<1> DEFINE m2 == OpenedIn(m, b, n)
           l == Line(b, n, TRUE, FALSE)
<1>3. Opened(b, n) = m2
  BY DEF Opened, this, OpenedIn
<1>4. Fits(p, b, n)
  <2>1. CASE b = "vrrp_instance"
    BY <1>1, <2>1 DEF Fits, MayOpen
  <2>2. CASE b \in {"virtual_ipaddress", "unicast_peer"}
    BY <1>1, <1>2, <2>2, Top DEF Fits, MayOpen, In
  <2>3. CASE b = "other"
    BY <1>1, <2>3 DEF Fits, MayOpen, In, Listing
  <2> QED
    BY <2>1, <2>2, <2>3 DEF Block
<1>5. Nested(m2, Append(p, b)) /\ Step(MeantAt(m, p), l) = MeantAt(m2, Append(p, b))
  BY <1>2, <1>4, Opens, Zenon
<1>6. l \in LineType
  BY DEF l, Line, LineType, LineWords
<1> HIDE DEF m2, l
<1>7. Write(<<l>>, Append(p, b), m2)
  BY <1>1, <1>3 DEF l
<1> QED
  BY <1>5, <1>6, <1>7, Written

LEMMA WriteInlineStep == ASSUME PInv, Braces = {"trailing"}, WriteInline PROVE PInv'
<1> PICK m, p : m = meant /\ p = path
  OBVIOUS
<1>1. PICK b \in {"other", "unicast_peer"} :
        MayOpen(b) /\ Write(<<Line(b, Unset, TRUE, TRUE)>>, p, Opened(b, Unset))
  <2>1. PICK b \in Inline, a \in Address :
          /\ MayOpen(b)
          /\ Write(<<Line(b, Unset, TRUE, TRUE)>>, p,
                   IF b = "virtual_ipaddress" THEN [m EXCEPT ![this].VIPs = Append(@, a)]
                                              ELSE Opened(b, Unset))
    BY Zenon DEF WriteInline
  <2>2. b \in {"other", "unicast_peer"} /\ b # "virtual_ipaddress"
    BY DEF Inline
  <2> QED
    BY <2>1, <2>2
<1>2. Nested(m, p)
  BY DEF PInv
<1> DEFINE l == Line(b, Unset, TRUE, TRUE)
<1>4. ~Listing(p) /\ (b = "unicast_peer" => p = <<"vrrp_instance">>)
  <2>1. CASE b = "unicast_peer"
    BY <1>1, <1>2, <2>1, Top DEF MayOpen, In, Listing
  <2>2. CASE b = "other"
    BY <1>1, <2>2 DEF MayOpen, In, Listing
  <2> QED
    BY <2>1, <2>2
<1>5. l.word = b /\ l.arg = Unset /\ l.open = TRUE /\ l.close = TRUE /\ b \notin Setting
  BY DEF l, Line, Setting
<1>6. l \in LineType
  BY DEF l, Line, LineType, LineWords, Block
<1> HIDE DEF l
<1>7. Plain(p, l)
  BY <1>4, <1>5 DEF Plain
<1>8. Opened(b, Unset) = After(m, p, l)
  BY <1>4, <1>5 DEF Opened, this, After
<1>9. Write(<<l>>, p, After(m, p, l))
  BY <1>1, <1>8 DEF l
<1> QED
  BY <1>2, <1>6, <1>7, <1>9, Stays, Written, Zenon

LEMMA WriteSettingStep == ASSUME PInv, WriteSetting PROVE PInv'
<1> PICK m, p : m = meant /\ p = path
  OBVIOUS
<1>1. PICK s \in Setting, v \in Number \cup Iface :
        /\ In("vrrp_instance") /\ (v \in Iface <=> s = "interface")
        /\ Write(<<Line(s, v, FALSE, FALSE)>>, p, [m EXCEPT ![Len(m)][s] = v])
  BY Zenon DEF WriteSetting, this
<1>2. Nested(m, p) /\ p = <<"vrrp_instance">> /\ ~Listing(p)
  BY <1>1, Top DEF PInv, In, Listing
<1> DEFINE l == Line(s, v, FALSE, FALSE)
<1>3. l.word = s /\ l.arg = v /\ l.open = FALSE /\ l.close = FALSE
      /\ s \notin {"vrrp_instance", "virtual_ipaddress"}
  BY DEF l, Line, Setting
<1>4. l \in LineType
  BY DEF l, Line, LineType, LineWords
<1> HIDE DEF l
<1>5. Plain(p, l)
  BY <1>1, <1>2, <1>3 DEF Plain, Setting
<1>6. [m EXCEPT ![Len(m)][s] = v] = After(m, p, l)
  BY <1>2, <1>3 DEF After
<1>7. Write(<<l>>, p, After(m, p, l))
  BY <1>1, <1>6 DEF l
<1> QED
  BY <1>2, <1>4, <1>5, <1>7, Stays, Written, Zenon

LEMMA WriteAddressStep == ASSUME PInv, WriteAddress PROVE PInv'
<1> PICK m, p : m = meant /\ p = path
  OBVIOUS
<1>1. PICK a \in Address :
        /\ In("virtual_ipaddress")
        /\ Write(<<Line(a, Unset, FALSE, FALSE)>>, p, [m EXCEPT ![Len(m)].VIPs = Append(@, a)])
  BY Zenon DEF WriteAddress, this
<1>2. Nested(m, p) /\ Listing(p)
  BY <1>1 DEF PInv, In, Listing
<1> DEFINE l == Line(a, Unset, FALSE, FALSE)
<1>3. l.word = a /\ l.arg = Unset /\ l.open = FALSE /\ l.close = FALSE
  BY DEF l, Line
<1>4. l \in LineType
  BY DEF l, Line, LineType, LineWords
<1> HIDE DEF l
<1>5. Plain(p, l)
  BY <1>2, <1>3, KeepalivedAssumption DEF Plain, Setting
<1>6. [m EXCEPT ![Len(m)].VIPs = Append(@, a)] = After(m, p, l)
  BY <1>2, <1>3 DEF After
<1>7. Write(<<l>>, p, After(m, p, l))
  BY <1>1, <1>6 DEF l
<1> QED
  BY <1>2, <1>4, <1>5, <1>7, Stays, Written, Zenon

LEMMA WriteOtherStep == ASSUME PInv, WriteOther PROVE PInv'
<1> PICK m, p : m = meant /\ p = path
  OBVIOUS
<1>1. ~Listing(p) /\ Write(<<Line("other", Unset, FALSE, FALSE)>>, p, m)
  BY DEF WriteOther, In, Listing
<1>2. Nested(m, p)
  BY DEF PInv
<1> DEFINE l == Line("other", Unset, FALSE, FALSE)
<1>3. l.word = "other" /\ l.arg = Unset /\ l.open = FALSE /\ l.close = FALSE
      /\ l.word \notin Setting
  BY DEF l, Line, Setting
<1>4. l \in LineType
  BY DEF l, Line, LineType, LineWords, Block
<1> HIDE DEF l
<1>5. Plain(p, l) /\ m = After(m, p, l)
  BY <1>1, <1>3 DEF Plain, After
<1>6. Write(<<l>>, p, After(m, p, l))
  BY <1>1, <1>5 DEF l
<1> QED
  BY <1>2, <1>4, <1>5, <1>6, Stays, Written, Zenon

(* Outside the instances parse has no current one, and takes no setting.    *)
LEMMA Elsewhere ==
  ASSUME NEW m, NEW p, NEW l, Nested(m, p), p # <<>>, p[1] = "other",
         l.word \in Setting, l.open = FALSE, l.close = FALSE
  PROVE  Step(MeantAt(m, p), l) = MeantAt(m, p)
<1> DEFINE s == MeantAt(m, p)
<1>0. m \in Seq(Parsed) /\ p \in Seq(Block) /\ Len(m) \in Nat /\ Len(p) \in Nat
  BY DEF Nested
<1>1. /\ s.out = m /\ s.cur = (IF Within(p) THEN Len(m) ELSE 0) /\ s.depth = Len(p)
      /\ s.instDepth = 0 /\ (s.inVIPs <=> Listing(p))
  BY MeantFields
<1> HIDE DEF s
<1>2. ~Within(p)
  BY DEF Within
<1>3. ~Listing(p)
  BY <1>2, Top DEF Within, Listing
<1>4. l.word \notin {"vrrp_instance", "virtual_ipaddress", "unicast_peer"}
  BY DEF Setting
<1>5. s.cur = 0
  BY <1>1, <1>2
<1>6. StepOut(s, l) = m
  <2>1. ~Vip(s, l)
    BY <1>5 DEF Vip
  <2> QED
    BY <1>1, <1>4, <1>5, <2>1 DEF StepOut
<1>7. StepDepth(s, l) = Len(p)
  BY <1>0, <1>1 DEF StepDepth
<1>8. StepInst(s, l) = 0
  BY <1>1, <1>4 DEF StepInst
<1>9. StepVIPs(s, l) <=> Listing(p)
  BY <1>1, <1>4 DEF StepVIPs
<1>10. StepCur(s, l) = IF Within(p) THEN Len(m) ELSE 0
  BY <1>2, <1>4, <1>5 DEF StepCur
<1>11. (StepVIPs(s, l) /\ ~l.close) = Listing(p)
  BY <1>9, Zenon DEF Listing
<1>12. Step(s, l) = MeantAt(m, p)
  BY <1>6, <1>7, <1>8, <1>10, <1>11, Zenon DEF Step, MeantAt
<1> QED
  BY <1>12 DEF s

LEMMA WriteElsewhereStep == ASSUME PInv, WriteElsewhere PROVE PInv'
<1> PICK m, p : m = meant /\ p = path
  OBVIOUS
<1>1. PICK v \in Iface :
        /\ p # <<>> /\ p[1] = "other"
        /\ Write(<<Line("interface", v, FALSE, FALSE)>>, p, m)
  BY Zenon DEF WriteElsewhere
<1>2. Nested(m, p)
  BY DEF PInv
<1> DEFINE l == Line("interface", v, FALSE, FALSE)
<1>3. l.word \in Setting /\ l.open = FALSE /\ l.close = FALSE
  BY DEF l, Line, Setting
<1>4. l \in LineType
  BY DEF l, Line, LineType, LineWords, Setting
<1> HIDE DEF l
<1>5. Step(MeantAt(m, p), l) = MeantAt(m, p)
  BY <1>1, <1>2, <1>3, Elsewhere, Zenon
<1>6. Write(<<l>>, p, m)
  BY <1>1 DEF l
<1> QED
  BY <1>2, <1>4, <1>5, <1>6, Written, Zenon

LEMMA WriteCloseStep == ASSUME PInv, WriteClose PROVE PInv'
<1> PICK m, p : m = meant /\ p = path
  OBVIOUS
<1> DEFINE q == SubSeq(p, 1, Len(p) - 1)
           l == Line("}", Unset, FALSE, TRUE)
<1>1. p # <<>> /\ Write(<<l>>, q, m)
  BY Zenon DEF WriteClose
<1>2. Nested(m, p)
  BY DEF PInv
<1>3. l.word = "}" /\ l.open = FALSE /\ l.close = TRUE
  BY Zenon DEF l, Line
<1>4. "}" \notin Block \cup Setting
  BY Zenon DEF Block, Setting
<1>5. l \in LineType
  <2>1. "}" \in LineWords
    BY Zenon DEF LineWords
  <2>2. \A w \in LineWords : Line(w, Unset, FALSE, TRUE) \in LineType
    BY DEF Line, LineType
  <2> QED
    BY <2>1, <2>2, Zenon
<1>6. l.word \notin Block \cup Setting
  BY <1>3, <1>4, Zenon
<1> HIDE DEF l
<1>7. Nested(m, q) /\ Step(MeantAt(m, p), l) = MeantAt(m, q)
  BY <1>1, <1>2, <1>3, <1>6, Closes, Zenon
<1> HIDE DEF q
<1> QED
  BY <1>1, <1>5, <1>7, Written, Zenon

-----------------------------------------------------------------------------
LEMMA PInit == Init => PInv
<1> SUFFICES ASSUME Init PROVE PInv
  OBVIOUS
<1>1. Now = Start /\ Good(Now)
  BY StartGood DEF Init, Now, Start
<1>2. meant = <<>> /\ path = <<>> /\ lines = <<>> /\ pc = "write"
  BY DEF Init
<1>3. Leads(Start, lines, MeantAt(meant, path))
  BY <1>2, StartGood, NoLines
<1> QED
  BY <1>1, <1>2, <1>3, StartGood DEF PInv

LEMMA ParseFileStep == ASSUME PInv, ParseFile PROVE PInv'
<1>1. /\ pc = "write" /\ path = <<>> /\ pc' = "parse"
      /\ UNCHANGED <<lines, path, meant, out, cur, depth, instDepth, inVIPs>>
  BY DEF ParseFile, cursor
<1>2. Now = Start /\ Leads(Now, lines, MeantAt(meant, path))
  BY <1>1 DEF PInv
<1>3. Now' = Now /\ MeantAt(meant, path)' = MeantAt(meant, path)
  BY <1>1 DEF Now, MeantAt
<1>4. Leads(Now, lines, MeantAt(meant, path))'
  BY <1>1, <1>2, <1>3
<1> QED
  BY <1>1, <1>3, <1>4 DEF PInv

LEMMA TakersStep == ASSUME PInv, Takers PROVE PInv'
<1> PICK s, t : s = Now /\ t = MeantAt(meant, path)
  OBVIOUS
<1> PICK ls \in Seq(LineType) : ls = lines
  BY DEF PInv
<1>1. /\ Now' = Step(s, Head(ls)) /\ pc = "parse" /\ ls # <<>> /\ lines' = Tail(ls)
      /\ UNCHANGED <<pc, path, meant>>
  BY ParseSteps DEF PInv, Good, Now, State, line
<1>2. path = <<>> /\ Leads(s, ls, t)
  BY <1>1 DEF PInv
<1>3. Tail(ls) \in Seq(LineType)
  BY <1>1
<1>4. Leads(Step(s, Head(ls)), Tail(ls), t)
  BY <1>1, <1>2, OneLess
<1>5. Good(Step(s, Head(ls)))
  BY <1>3, <1>4, LeadsGood
<1>6. MeantAt(meant, path)' = t
  BY <1>1 DEF MeantAt
<1> QED
  BY <1>1, <1>2, <1>3, <1>4, <1>5, <1>6 DEF PInv

LEMMA FinishStep == ASSUME PInv, Finish PROVE PInv'
<1>1. /\ pc = "parse" /\ lines = <<>> /\ pc' = "done"
      /\ UNCHANGED <<lines, path, meant, out, cur, depth, instDepth, inVIPs>>
  BY DEF Finish, cursor
<1>2. Now = MeantAt(meant, path)
  BY <1>1, LeadsGood DEF PInv
<1>3. out = meant
  BY <1>2, MeantFields, Fields DEF Now
<1>4. Now' = Now
  BY <1>1 DEF Now
<1> QED
  BY <1>1, <1>3, <1>4 DEF PInv

LEMMA AgainStep == ASSUME PInv, Again PROVE PInv'
<1>1. /\ pc' = "write" /\ lines' = <<>> /\ path' = <<>> /\ meant' = <<>>
      /\ out' = <<>> /\ cur' = 0 /\ depth' = 0 /\ instDepth' = 0 /\ inVIPs' = FALSE
  BY DEF Again
<1>2. Now' = Start
  BY <1>1 DEF Now, Start
<1>3. Leads(Start, <<>>, MeantAt(<<>>, <<>>))
  BY StartGood, NoLines
<1>4. Leads(Start, lines, MeantAt(meant, path))'
  BY <1>1, <1>3, Zenon DEF Leads, Start, MeantAt
<1> QED
  BY <1>1, <1>2, <1>4, StartGood DEF PInv

LEMMA PStep == ASSUME PInv, Braces = {"trailing"}, [Next]_vars PROVE PInv'
<1>1. CASE Writing
  BY <1>1, WriteOpenStep, WriteInlineStep, WriteSettingStep, WriteAddressStep, WriteOtherStep,
     WriteElsewhereStep, WriteCloseStep DEF Writing
<1>2. CASE ParseFile
  BY <1>2, ParseFileStep
<1>3. CASE ParseText
  BY <1>3, TakersStep, FinishStep DEF ParseText, Takers
<1>4. CASE Again
  BY <1>4, AgainStep
<1>5. CASE UNCHANGED vars
  <2>1. UNCHANGED <<pc, lines, path, meant, out, cur, depth, instDepth, inVIPs>>
    BY <1>5 DEF vars, cursor
  <2>2. Now' = Now /\ MeantAt(meant, path)' = MeantAt(meant, path)
    BY <2>1 DEF Now, MeantAt
  <2>3. Leads(Start, lines, MeantAt(meant, path))' = Leads(Start, lines, MeantAt(meant, path))
        /\ Leads(Now, lines, MeantAt(meant, path))' = Leads(Now, lines, MeantAt(meant, path))
    BY <2>1, <2>2, Zenon DEF Leads, Start
  <2> QED
    BY <2>1, <2>2, <2>3 DEF PInv
<1> QED
  BY <1>1, <1>2, <1>3, <1>4, <1>5 DEF Next

LEMMA PInvMeans == PInv => TypeInv /\ MembershipAsMeant
<1> SUFFICES ASSUME PInv PROVE TypeInv /\ MembershipAsMeant
  OBVIOUS
<1>1. /\ out \in Seq(Parsed) /\ cur \in {0, Len(out)} /\ inVIPs \in BOOLEAN
      /\ depth \in 0 .. MaxLines /\ instDepth = 0 /\ (inVIPs => cur # 0)
  BY DEF PInv, Good, Now, State
<1>2. instDepth \in 0 .. depth
  BY <1>1, KeepalivedAssumption
<1> QED
  BY <1>1, <1>2 DEF PInv, Nested, TypeInv, MembershipAsMeant

(* What parse returns is a list of instances, each field of which is unset   *)
(* or a value that may stand there; its depth is never negative; and while   *)
(* it reads addresses it has an instance to put them in (parse never         *)
(* dereferences a nil cur, conf.go, the case of inVIPs).                     *)
THEOREM KeepalivedTypeCorrect == ASSUME Braces = {"trailing"} PROVE Spec => []TypeInv
<1>1. PInv /\ [Next]_vars => PInv'
  BY PStep
<1> QED
  BY PInit, <1>1, PInvMeans, PTL DEF Spec

(* However many instances, settings, addresses and other blocks there are,   *)
(* nested as keepalived allows: the membership is what the operator wrote,   *)
(* as long as a brace opens on the line of its block and closes on its own.  *)
THEOREM MembershipAsMeantCorrect ==
  ASSUME Braces = {"trailing"} PROVE Spec => []MembershipAsMeant
<1>1. PInv /\ [Next]_vars => PInv'
  BY PStep
<1> QED
  BY PInit, <1>1, PInvMeans, PTL DEF Spec

-----------------------------------------------------------------------------
(* Labels.                                                                  *)

(* No name is used twice, and no instance lists an address twice. *)
Unique(m) ==
  /\ \A j, k \in 1 .. Len(m) : m[j].Name = m[k].Name => j = k
  /\ \A k \in 1 .. Len(m) : \A a, b \in 1 .. Len(m[k].VIPs) : m[k].VIPs[a] = m[k].VIPs[b] => a = b

LEMMA UniqueNew ==
  ASSUME NEW m \in Seq(Parsed), NEW n \in Name, Unique(m), \A k \in 1 .. Len(m) : m[k].Name # n
  PROVE  Unique(Append(m, Instance(n)))
<1>1. /\ Len(Append(m, Instance(n))) = Len(m) + 1 /\ Len(m) \in Nat
      /\ Append(m, Instance(n))[Len(m) + 1] = Instance(n)
      /\ \A k \in 1 .. Len(m) : Append(m, Instance(n))[k] = m[k]
  OBVIOUS
<1>2. Instance(n).Name = n /\ Instance(n).VIPs = <<>> /\ Len(<<>>) = 0
  BY DEF Instance
<1> PICK q : q = Append(m, Instance(n))
  OBVIOUS
<1>3. \A k \in 1 .. Len(q) :
        \/ k \in 1 .. Len(m) /\ q[k] = m[k]
        \/ k = Len(m) + 1 /\ q[k] = Instance(n)
  BY <1>1
<1>4. \A j, k \in 1 .. Len(q) : q[j].Name = q[k].Name => j = k
  BY <1>2, <1>3 DEF Unique
<1>5. \A k \in 1 .. Len(q) : \A a, b \in 1 .. Len(q[k].VIPs) : q[k].VIPs[a] = q[k].VIPs[b] => a = b
  BY <1>2, <1>3 DEF Unique
<1> QED
  BY <1>4, <1>5 DEF Unique

LEMMA UniqueSame ==
  ASSUME NEW m \in Seq(Parsed), NEW q, Unique(m), Len(q) = Len(m),
         \A k \in 1 .. Len(m) : q[k].Name = m[k].Name /\ q[k].VIPs = m[k].VIPs
  PROVE  Unique(q)
  BY DEF Unique

LEMMA ListedIn ==
  ASSUME NEW x \in Parsed, NEW a \in Address
  PROVE  /\ [x EXCEPT !.VIPs = Append(@, a)] \in Parsed
         /\ [x EXCEPT !.VIPs = Append(@, a)].Name = x.Name
         /\ [x EXCEPT !.VIPs = Append(@, a)].VIPs = Append(x.VIPs, a)
<1>1. \A v \in Seq(Address) : Append(v, a) \in Seq(Address)
  OBVIOUS
<1> QED
  BY <1>1 DEF Parsed

LEMMA AppendedOnce ==
  ASSUME NEW v \in Seq(Address), NEW a \in Address, \A k \in 1 .. Len(v) : v[k] # a,
         \A c, d \in 1 .. Len(v) : v[c] = v[d] => c = d
  PROVE  \A c, d \in 1 .. Len(Append(v, a)) : Append(v, a)[c] = Append(v, a)[d] => c = d
<1>1. /\ Len(Append(v, a)) = Len(v) + 1 /\ Len(v) \in Nat /\ Append(v, a)[Len(v) + 1] = a
      /\ \A k \in 1 .. Len(v) : Append(v, a)[k] = v[k]
  OBVIOUS
<1>2. \A c \in 1 .. Len(v) + 1 : c \in 1 .. Len(v) \/ c = Len(v) + 1
  BY <1>1
<1> QED
  BY <1>1, <1>2

LEMMA UniqueListed ==
  ASSUME NEW m \in Seq(Parsed), Len(m) > 0, NEW a \in Address, Unique(m),
         \A k \in 1 .. Len(m[Len(m)].VIPs) : m[Len(m)].VIPs[k] # a
  PROVE  Unique([m EXCEPT ![Len(m)].VIPs = Append(@, a)])
<1> PICK i \in 1 .. Len(m) : i = Len(m)
  OBVIOUS
<1> PICK x \in Parsed : x = m[i]
  OBVIOUS
<1> PICK v \in Seq(Address) : v = x.VIPs
  BY DEF Parsed
<1> PICK q : q = [m EXCEPT ![Len(m)].VIPs = Append(@, a)]
  OBVIOUS
<1> PICK y \in Parsed : y = [x EXCEPT !.VIPs = Append(@, a)]
  BY ListedIn
<1>1. /\ Len(q) = Len(m) /\ q[i] = y
      /\ \A k \in 1 .. Len(m) : k # i => q[k] = m[k]
  <2>1. q = [m EXCEPT ![i] = y]
    OBVIOUS
  <2>2. /\ Len([m EXCEPT ![i] = y]) = Len(m)
        /\ \A k \in 1 .. Len(m) : [m EXCEPT ![i] = y][k] = IF k = i THEN y ELSE m[k]
    BY ExceptSeq
  <2>3. /\ Len(q) = Len(m)
        /\ \A k \in 1 .. Len(m) : q[k] = IF k = i THEN y ELSE m[k]
    BY <2>1, <2>2, Zenon
  <2> QED
    BY <2>3
<1>2. q[i].Name = m[i].Name /\ q[i].VIPs = Append(v, a)
  BY <1>1, ListedIn
<1>3. \A j, k \in 1 .. Len(q) : q[j].Name = q[k].Name => j = k
  <2>1. \A k \in 1 .. Len(q) : q[k].Name = m[k].Name
    BY <1>1, <1>2
  <2> QED
    BY <1>1, <2>1 DEF Unique
<1>4. ASSUME NEW k \in 1 .. Len(q)
      PROVE  \A c, d \in 1 .. Len(q[k].VIPs) : q[k].VIPs[c] = q[k].VIPs[d] => c = d
  <2>1. CASE k # i
    BY <1>1, <2>1 DEF Unique
  <2>2. CASE k = i
    <3>1. \A c, d \in 1 .. Len(v) : v[c] = v[d] => c = d
      <4>1. \A c, d \in 1 .. Len(m[i].VIPs) : m[i].VIPs[c] = m[i].VIPs[d] => c = d
        BY Zenon DEF Unique
      <4>2. m[i].VIPs = v
        OBVIOUS
      <4> QED
        BY <4>1, <4>2, Zenon
    <3>2. \A j \in 1 .. Len(v) : v[j] # a
      OBVIOUS
    <3>3. \A c, d \in 1 .. Len(Append(v, a)) : Append(v, a)[c] = Append(v, a)[d] => c = d
      BY <3>1, <3>2, AppendedOnce
    <3>4. q[k].VIPs = Append(v, a)
      BY <1>2, <2>2
    <3> QED
      BY <3>3, <3>4, Zenon
  <2> QED
    BY <2>1, <2>2
<1> QED
  BY <1>3, <1>4 DEF Unique

LEMMA UniqueStep ==
  ASSUME PInv, Braces = {"trailing"}, ~Repeats, Unique(meant), [Next]_vars
  PROVE  Unique(meant)'
<1> PICK m \in Seq(Parsed) : m = meant
  BY DEF PInv, Nested
<1> PICK p : p = path
  OBVIOUS
<1>0. Unique(m) /\ Len(m) \in Nat /\ Nested(m, p)
  BY DEF PInv
<1>a. ASSUME NEW f \in Setting \cup {"Unicast"}, NEW v, p = <<"vrrp_instance">>,
             meant' = [m EXCEPT ![Len(m)][f] = v]
      PROVE  Unique(meant)'
  <2> PICK q : q = [m EXCEPT ![Len(m)][f] = v]
    OBVIOUS
  <2>1. f \notin {"Name", "VIPs"}
    BY DEF Setting
  <2>2. \A x \in Parsed : [x EXCEPT ![f] = v].Name = x.Name /\ [x EXCEPT ![f] = v].VIPs = x.VIPs
    BY <2>1 DEF Parsed
  <2>3. /\ Len(q) = Len(m)
        /\ \A k \in 1 .. Len(m) : q[k] = m[k] \/ q[k] = [m[k] EXCEPT ![f] = v]
    OBVIOUS
  <2>4. \A k \in 1 .. Len(m) : q[k].Name = m[k].Name /\ q[k].VIPs = m[k].VIPs
    BY <2>2, <2>3
  <2>5. Unique(q)
    BY <1>0, <2>3, <2>4 DEF Unique
  <2> QED
    BY <1>a, <2>5 DEF Unique
<1>b. ASSUME meant' = m PROVE Unique(meant)'
  BY <1>0, <1>b DEF Unique
<1>1. CASE WriteOpen
  <2>1. PICK b \in Block, n \in Name \cup {Unset} :
          /\ MayOpen(b) /\ (n # Unset <=> b = "vrrp_instance")
          /\ \A k \in DOMAIN m : m[k].Name # n
          /\ meant' = Opened(b, n)
    BY <1>1 DEF WriteOpen, Write
  <2>2. CASE b = "vrrp_instance"
    <3>1. n \in Name /\ \A k \in 1 .. Len(m) : m[k].Name # n
      BY <2>1, <2>2
    <3>2. meant' = Append(m, Instance(n))
      BY <2>1, <2>2 DEF Opened
    <3>3. PICK q : q = Append(m, Instance(n)) /\ Unique(q)
      BY <1>0, <3>1, UniqueNew
    <3>4. meant' = q
      BY <3>2, <3>3
    <3> QED
      BY <3>3, <3>4 DEF Unique
  <2>3. CASE b = "unicast_peer"
    <3>1. p = <<"vrrp_instance">>
      BY <1>0, <2>1, <2>3, Top DEF MayOpen, In
    <3>2. meant' = [m EXCEPT ![Len(m)]["Unicast"] = TRUE]
      BY <2>1, <2>3 DEF Opened, this
    <3> QED
      BY <1>a, <3>1, <3>2
  <2>4. CASE b \notin {"vrrp_instance", "unicast_peer"}
    BY <1>b, <2>1, <2>4 DEF Opened
  <2> QED
    BY <2>2, <2>3, <2>4
<1>2. CASE WriteInline
  <2>1. PICK b \in {"other", "unicast_peer"} : MayOpen(b) /\ meant' = Opened(b, Unset)
    BY <1>2 DEF WriteInline, Write, Inline
  <2>2. CASE b = "unicast_peer"
    <3>1. p = <<"vrrp_instance">>
      BY <1>0, <2>1, <2>2, Top DEF MayOpen, In
    <3>2. meant' = [m EXCEPT ![Len(m)]["Unicast"] = TRUE]
      BY <2>1, <2>2 DEF Opened, this
    <3> QED
      BY <1>a, <3>1, <3>2
  <2>3. CASE b # "unicast_peer"
    BY <1>b, <2>1, <2>3 DEF Opened
  <2> QED
    BY <2>2, <2>3
<1>3. CASE WriteSetting
  <2>1. PICK f \in Setting, v \in Number \cup Iface : In("vrrp_instance") /\ meant' = [m EXCEPT ![Len(m)][f] = v]
    BY <1>3 DEF WriteSetting, Write, this
  <2>2. p = <<"vrrp_instance">>
    BY <1>0, <2>1, Top DEF In
  <2> QED
    BY <1>a, <2>1, <2>2
<1>4. CASE WriteAddress
  <2>1. PICK a \in Address :
          /\ In("virtual_ipaddress") /\ ~Listed(a)
          /\ meant' = [m EXCEPT ![Len(m)].VIPs = Append(@, a)]
    BY <1>4 DEF WriteAddress, Write, this
  <2>2. Listing(p)
    BY <2>1 DEF In, Listing
  <2>3. Len(m) > 0
    <3>1. p = <<"vrrp_instance", "virtual_ipaddress">>
      BY <1>0, <2>2, Top DEF Listing
    <3>2. Within(p)
      BY <3>1 DEF Within
    <3> QED
      BY <1>0, <3>2 DEF Nested
  <2>4. \A k \in 1 .. Len(m[Len(m)].VIPs) : m[Len(m)].VIPs[k] # a
    <3>1. m[Len(m)] \in Parsed
      BY <2>3
    <3>2. m[Len(m)].VIPs \in Seq(Address)
      BY <3>1 DEF Parsed
    <3> QED
      BY <2>1, <3>2 DEF Listed, this
  <2>5. PICK q : q = [m EXCEPT ![Len(m)].VIPs = Append(@, a)] /\ Unique(q)
    BY <1>0, <2>3, <2>4, UniqueListed
  <2>6. meant' = q
    BY <2>1, <2>5
  <2>7. Unique(q)
    BY <2>5
  <2> QED
    BY <2>6, <2>7 DEF Unique
<1>5. CASE WriteOther \/ WriteElsewhere \/ WriteClose \/ ParseFile \/ Finish \/ UNCHANGED vars
  BY <1>5, <1>b DEF WriteOther, WriteElsewhere, WriteClose, Write, ParseFile, Finish, vars
<1>6. CASE Takers
  BY <1>6, <1>b DEF Takers, Takes, OpenInstance, OpenVIPs, AddVIP, SetField, SetUnicast, Ignore
<1>7. CASE Again
  <2>1. meant' = <<>> /\ Len(<<>>) = 0
    BY <1>7 DEF Again
  <2> QED
    BY <2>1 DEF Unique
<1> QED
  BY <1>1, <1>2, <1>3, <1>4, <1>5, <1>6, <1>7 DEF Next, Writing, ParseText, Takers

(* And then two samples of cluster_info never bear the same labels, unless a *)
(* block lists an address twice: that is the only way to fail the scrape.    *)
THEOREM MembershipOnceCorrect ==
  ASSUME Braces = {"trailing"}, ~Repeats PROVE Spec => []MembershipOnce
<1>1. Init => PInv /\ Unique(meant)
  <2>1. Init => Unique(meant)
    <3>1. Len(<<>>) = 0
      OBVIOUS
    <3> QED
      BY <3>1 DEF Init, Unique
  <2> QED
    BY <2>1, PInit
<1>2. PInv /\ Unique(meant) /\ [Next]_vars => PInv' /\ Unique(meant)'
  BY PStep, UniqueStep
<1>3. PInv /\ Unique(meant) => MembershipOnce
  <2> SUFFICES ASSUME PInv, Unique(meant), pc = "done",
                      NEW p \in Places, NEW q \in Places, ClusterInfo(p) = ClusterInfo(q)
               PROVE  p = q
    BY DEF MembershipOnce
  <2>1. out = meant /\ out \in Seq(Parsed)
    BY DEF PInv, Nested
  <2>2. PICK a, b, c, d : p = <<a, b>> /\ q = <<c, d>>
    BY DEF Places
  <2>3. a \in 1 .. Len(out) /\ c \in 1 .. Len(out)
    BY <2>1, <2>2 DEF Places
  <2>4. out[a].Name = out[c].Name /\ out[a].VIPs[b] = out[c].VIPs[d]
    BY <2>2 DEF ClusterInfo
  <2>5. a = c
    BY <2>1, <2>3, <2>4 DEF Unique
  <2>6. out[a] \in Parsed
    BY <2>1, <2>3
  <2>7. b \in 1 .. Len(out[a].VIPs) /\ d \in 1 .. Len(out[a].VIPs)
    BY <2>2, <2>5, <2>6 DEF Places, Parsed
  <2>8. b = d
    BY <2>1, <2>3, <2>4, <2>5, <2>7 DEF Unique
  <2> QED
    BY <2>2, <2>5, <2>8
<1> QED
  BY <1>1, <1>2, <1>3, PTL DEF Spec

-----------------------------------------------------------------------------
(* vrrp.Parse and the receive loop of vrrp.Listen.                         *)

(* Recvfrom puts the frame at the start of the buffer and keeps its size.  *)
LEMMA RecvfromType ==
  ASSUME NEW b \in [1 .. BufLen -> Byte], NEW f \in Seq(Byte), Len(f) <= BufLen
  PROVE  /\ Recvfrom(b, f) \in [1 .. BufLen -> Byte]
         /\ \A i \in 1 .. Len(f) : Recvfrom(b, f)[i] = f[i]
<1>1. BufLen \in Nat BY PacketAssumption
<1>2. \A i \in 1 .. Len(f) : f[i] \in Byte OBVIOUS
<1> QED BY <1>1, <1>2, Z3 DEF Recvfrom, Byte

(* Two buffers that start with the same frame are cut alike, wherever the  *)
(* cut ends within it.                                                     *)
LEMMA CutInFrame ==
  ASSUME NEW b, NEW c, NEW n \in Nat, \A i \in 1 .. n : b[i] = c[i]
  PROVE  \A from \in Nat, to \in 0 .. n : Cut(b, from, to) = Cut(c, from, to)
<1> SUFFICES ASSUME NEW from \in Nat, NEW to \in 0 .. n
             PROVE  Cut(b, from, to) = Cut(c, from, to)
  OBVIOUS
<1>1. Cut(b, from, to) = [i \in 1 .. to - from |-> b[i + from]]
  BY Z3 DEF Cut
<1> QED BY Z3 DEF Cut

(* The header and the message are read from the first n bytes.             *)
LEMMA HeardInFrame ==
  ASSUME NEW n \in 0 .. BufLen,
         NEW b \in [1 .. BufLen -> Byte], NEW c \in [1 .. BufLen -> Byte],
         \A i \in 1 .. n : b[i] = c[i]
  PROVE  Heard(b, n) = Heard(c, n)
<1> USE PacketAssumption
<1>1. CASE n < 20
  BY <1>1 DEF Heard
<1>2. CASE n >= 20
  <2>1. /\ At(b, 0) = At(c, 0) /\ At(b, 2) = At(c, 2)
        /\ At(b, 3) = At(c, 3) /\ At(b, 9) = At(c, 9)
    BY <1>2 DEF At
  <2>2. IHL(b) = IHL(c) /\ TotLen(b, n) = TotLen(c, n)
    BY <2>1 DEF IHL, TotLen
  <2>3. At(b, 0) \in Byte /\ At(b, 2) \in Byte /\ At(b, 3) \in Byte
    BY <1>2 DEF At
  <2>4. IHL(b) \in Nat
    <3>1. \A x \in Byte : (x % 16) * 4 \in Nat BY DEF Byte
    <3> QED BY <3>1, <2>3 DEF IHL
  <2>5. TotLen(b, n) \in 0 .. n
    <3>1. \A x, y \in Byte : 256 * x + y \in Nat BY DEF Byte
    <3>2. \A x \in Nat : Lesser(x, n) \in 0 .. n BY DEF Lesser
    <3> QED BY <3>1, <3>2, <2>3, Zenon DEF TotLen
  <2>6. \A from \in Nat, to \in 0 .. n : Cut(b, from, to) = Cut(c, from, to)
    <3>1. n \in Nat OBVIOUS
    <3> QED BY <3>1, CutInFrame, Zenon
  <2>7. Cut(b, IHL(b), TotLen(b, n)) = Cut(c, IHL(c), TotLen(c, n))
    BY <2>2, <2>4, <2>5, <2>6
  <2>8. Cut(b, 12, 16) = Cut(c, 12, 16) /\ Cut(b, 16, 20) = Cut(c, 16, 20)
    BY <1>2, <2>6
  <2> QED BY <2>1, <2>2, <2>7, <2>8, Zenon DEF Heard
<1> QED BY <1>1, <1>2

-----------------------------------------------------------------------------
(* One round of the loop, whatever the frame carries.                      *)
LEMMA ReceiveStep ==
  ASSUME NEW bytes, NEW a \in Adverts \cup {NoAdvert},
         PacketTypeInv, Receive(Frame(bytes, a))
  PROVE  PacketTypeInv' /\ OnlyThisFrame'
<1> USE PacketAssumption
<1>1. bytes \in Seq(Byte) /\ Len(bytes) \in 0 .. BufLen /\ frame' = Frame(bytes, a)
      /\ frame'.bytes = bytes /\ frame'.advert = a
  BY DEF Receive, Frame
<1>2. buf' = Recvfrom(buf, bytes) /\ seen' = Heard(buf', Len(bytes))
  BY <1>1 DEF Receive, Frame
<1>3. buf' \in [1 .. BufLen -> Byte] /\ \A i \in 1 .. Len(bytes) : buf'[i] = bytes[i]
  BY <1>1, <1>2, RecvfromType DEF PacketTypeInv
<1>4. PacketTypeInv'
  <2>1. SubSeq(buf', 1, Len(bytes)) = bytes
    BY <1>1, <1>3
  <2>2. frames' \in 0 .. MaxFrames
    BY DEF PacketTypeInv, Receive
  <2> QED BY <1>1, <1>3, <2>1, <2>2 DEF PacketTypeInv
<1>5. OnlyThisFrame'
  <2> DEFINE new == Recvfrom(Zeros(BufLen), bytes)
  <2>1. Zeros(BufLen) \in [1 .. BufLen -> Byte]
    BY DEF Zeros, Byte
  <2>2. new \in [1 .. BufLen -> Byte] /\ \A i \in 1 .. Len(bytes) : new[i] = bytes[i]
    BY <1>1, <2>1, RecvfromType
  <2>3. \A i \in 1 .. Len(bytes) : buf'[i] = new[i]
    BY <1>3, <2>2
  <2>4. Heard(buf', Len(bytes)) = Heard(new, Len(bytes))
    BY <1>1, <1>3, <2>2, <2>3, HeardInFrame
  <2> QED BY <1>1, <1>2, <2>4 DEF OnlyThisFrame
<1> QED BY <1>4, <1>5

(* Every action receives some frame.                                       *)
LEMMA NextReceives ==
  ASSUME PacketNext
  PROVE  \E bytes : \E a \in Adverts \cup {NoAdvert} : Receive(Frame(bytes, a))
<1>1. CASE ReceiveWhole
  BY <1>1, Zenon DEF ReceiveWhole
<1>2. CASE ReceiveCut
  BY <1>2, Zenon DEF ReceiveCut
<1>3. CASE ReceiveDamaged
  BY <1>3, Zenon DEF ReceiveDamaged
<1>4. CASE ReceiveOther
  BY <1>4, Zenon DEF ReceiveOther
<1> QED BY <1>1, <1>2, <1>3, <1>4 DEF PacketNext

LEMMA PacketInitially == ASSUME PacketInit PROVE PacketTypeInv /\ OnlyThisFrame
<1> USE PacketAssumption
<1>1. frame.bytes = <<>> /\ frame.advert = NoAdvert /\ Len(frame.bytes) = 0
  BY DEF PacketInit, Frame
<1>2. buf = Zeros(BufLen) /\ buf \in [1 .. BufLen -> Byte] /\ frames = 0 /\ seen = NoAdvert
  BY DEF PacketInit, Zeros, Byte
<1>3. PacketTypeInv
  <2>1. SubSeq(buf, 1, 0) = <<>> BY <1>2
  <2> QED BY <1>1, <1>2, <2>1 DEF PacketTypeInv
<1>4. \A b : Heard(b, 0) = NoAdvert
  BY DEF Heard
<1> QED BY <1>1, <1>2, <1>3, <1>4 DEF OnlyThisFrame

LEMMA PacketStep ==
  ASSUME PacketTypeInv, OnlyThisFrame, [PacketNext]_packetVars
  PROVE  PacketTypeInv' /\ OnlyThisFrame'
<1>1. CASE PacketNext
  BY <1>1, NextReceives, ReceiveStep
<1>2. CASE UNCHANGED packetVars
  BY <1>2 DEF PacketTypeInv, OnlyThisFrame, packetVars
<1> QED BY <1>1, <1>2

(* The buffer always starts with the last frame and is never outgrown      *)
(* (listener_linux.go, buf[:n]).                                           *)
THEOREM PacketTypeCorrect == PacketSpec => []PacketTypeInv
<1>1. PacketInit => PacketTypeInv /\ OnlyThisFrame
  BY PacketInitially
<1>2. PacketTypeInv /\ OnlyThisFrame /\ [PacketNext]_packetVars => PacketTypeInv' /\ OnlyThisFrame'
  BY PacketStep
<1> QED BY <1>1, <1>2, PTL DEF PacketSpec

(* No frame is ever completed with bytes of an earlier one: what Observe   *)
(* is given is what a new buffer would have yielded (listener_linux.go,    *)
(* the clamping of totLen).                                                *)
THEOREM OnlyThisFrameCorrect == PacketSpec => []OnlyThisFrame
<1>1. PacketInit => PacketTypeInv /\ OnlyThisFrame
  BY PacketInitially
<1>2. PacketTypeInv /\ OnlyThisFrame /\ [PacketNext]_packetVars => PacketTypeInv' /\ OnlyThisFrame'
  BY PacketStep
<1> QED BY <1>1, <1>2, PTL DEF PacketSpec

-----------------------------------------------------------------------------
(* Sums of the words of a message.                                         *)

(* A set of numbers that has 0 and the successor of each has them all: the *)
(* least number outside would be the successor of one inside.             *)
LEMMA NatSetInduction ==
  ASSUME NEW T, 0 \in T, \A n \in Nat : n \in T => n + 1 \in T
  PROVE  Nat \subseteq T
<1> DEFINE R == {ss \in Nat \X Nat : ss[1] < ss[2]}
<1>1. IsWellFoundedOn(R, Nat)
  BY NatLessThanWellFounded DEF OpToRel
<1>2. SUFFICES ASSUME Nat \ T # {} PROVE FALSE
  OBVIOUS
<1>3. PICK x \in Nat \ T : \A y \in Nat \ T : ~(<<y, x>> \in R)
  <2> HIDE DEF R
  <2> QED
    BY <1>1, <1>2, WFMin
<1>4. x # 0 /\ x - 1 \in Nat /\ <<x - 1, x>> \in R /\ (x - 1) + 1 = x
  OBVIOUS
<1> QED
  BY <1>3, <1>4

(* What holds of no element, and of a set if of all that have one less,    *)
(* holds of every subset of a finite set.                                  *)
LEMMA SubsetInduction ==
  ASSUME NEW S, IsFiniteSet(S), NEW T, {} \in T,
         \A s \in SUBSET S : s # {} /\ (\A x \in s : s \ {x} \in T) => s \in T
  PROVE  SUBSET S \subseteq T
<1> DEFINE N == {n \in Nat : \A s \in SUBSET S : Cardinality(s) = n => s \in T}
<1>1. \A s \in SUBSET S : IsFiniteSet(s) /\ Cardinality(s) \in Nat
  BY FS_Subset, FS_CardinalityType
<1>2. 0 \in N
  BY <1>1, FS_EmptySet
<1>3. ASSUME NEW n \in Nat, n \in N
      PROVE  n + 1 \in N
  <2> SUFFICES ASSUME NEW s \in SUBSET S, Cardinality(s) = n + 1
               PROVE  s \in T
    OBVIOUS
  <2>1. s # {}
    BY <1>1, FS_EmptySet
  <2>2. ASSUME NEW x \in s
        PROVE  s \ {x} \in T
    <3>1. Cardinality(s \ {x}) = n
      BY <1>1, FS_RemoveElement
    <3>2. s \ {x} \in SUBSET S
      OBVIOUS
    <3> QED
      BY <1>3, <3>1, <3>2
  <2> QED
    BY <2>1, <2>2
<1>4. Nat \subseteq N
  <2> HIDE DEF N
  <2> QED
    BY <1>2, <1>3, NatSetInduction
<1> QED
  BY <1>1, <1>4

(* The order in which SumFunction takes the places, and its recursion.     *)
Pick(s) == CHOOSE x \in s : TRUE

Adds(g, f, S) ==
  g = [s \in SUBSET S |-> IF s = {} THEN 0 ELSE f[Pick(s)] + g[s \ {Pick(s)}]]

(* SumFunction is the solution of that recursion.                          *)
LEMMA SumFunctionAdds ==
  ASSUME NEW f
  PROVE  SumFunction(f) = (CHOOSE g : Adds(g, f, DOMAIN f))[DOMAIN f]
  BY DEF SumFunction, SumFunctionOnSet, FoldFunctionOnSet, MapThenFoldSet, Adds, Pick

(* The recursion of a sum over a finite set has a solution. *)
LEMMA SumExists ==
  ASSUME NEW S, IsFiniteSet(S), NEW f
  PROVE  \E g : Adds(g, f, S)
<1> DEFINE Val(g, s) == IF s = {} THEN 0 ELSE f[Pick(s)] + g[s \ {Pick(s)}]
           N == {n \in Nat : \E g : \A s \in SUBSET S : Cardinality(s) <= n => g[s] = Val(g, s)}
<1>1. \A s \in SUBSET S : IsFiniteSet(s) /\ Cardinality(s) \in Nat
  BY FS_Subset, FS_CardinalityType
<1>2. 0 \in N
  <2> DEFINE g == [s \in SUBSET S |-> 0]
  <2>1. \A s \in SUBSET S : Cardinality(s) <= 0 => g[s] = Val(g, s)
    BY <1>1, FS_EmptySet
  <2> QED
    BY <2>1
<1>3. ASSUME NEW n \in Nat, n \in N
      PROVE  n + 1 \in N
  <2>1. PICK g : \A s \in SUBSET S : Cardinality(s) <= n => g[s] = Val(g, s)
    BY <1>3
  <2> DEFINE h == [s \in SUBSET S |-> IF Cardinality(s) <= n THEN g[s] ELSE Val(g, s)]
  <2>2. ASSUME NEW s \in SUBSET S, Cardinality(s) <= n + 1
        PROVE  h[s] = Val(h, s)
    <3>1. CASE s = {}
      BY <2>1, <3>1, FS_EmptySet
    <3>2. CASE s # {}
      <4>1. Pick(s) \in s
        BY <3>2 DEF Pick
      <4>2. Cardinality(s \ {Pick(s)}) = Cardinality(s) - 1 /\ s \ {Pick(s)} \in SUBSET S
        BY <1>1, <4>1, FS_RemoveElement
      <4>3. Cardinality(s \ {Pick(s)}) <= n
        BY <1>1, <2>2, <4>2
      <4>4. h[s \ {Pick(s)}] = g[s \ {Pick(s)}]
        BY <4>2, <4>3
      <4>5. h[s] = Val(g, s)
        BY <2>1
      <4> QED
        BY <3>2, <4>4, <4>5
    <3> QED
      BY <3>1, <3>2
  <2> HIDE DEF h
  <2> QED
    BY <2>2
<1>4. Cardinality(S) \in N
  <2> HIDE DEF N
  <2> QED
    BY <1>1, <1>2, <1>3, NatSetInduction
<1>5. PICK g : \A s \in SUBSET S : Cardinality(s) <= Cardinality(S) => g[s] = Val(g, s)
  BY <1>4
<1> DEFINE h == [s \in SUBSET S |-> g[s]]
<1>6. \A s \in SUBSET S : h[s] = Val(h, s)
  <2>1. \A s \in SUBSET S : g[s] = Val(g, s)
    BY <1>5, FS_Subset
  <2>2. \A s \in SUBSET S : s \ {Pick(s)} \in SUBSET S
    OBVIOUS
  <2> QED
    BY <2>1, <2>2
<1>7. Adds(h, f, S)
  <2>1. h = [s \in SUBSET S |-> h[s]]
    OBVIOUS
  <2> HIDE DEF h
  <2> QED
    BY <1>6, <2>1 DEF Adds
<1> QED
  BY <1>7

(* The sum of f with its partial sums: it does not matter which place is   *)
(* taken first.                                                            *)
Partial(g, f, S) ==
  /\ SumFunction(f) = g[S] /\ g[{}] = 0
  /\ \A s \in SUBSET S : g[s] \in Nat
  /\ \A s \in SUBSET S : \A x \in s : g[s] = f[x] + g[s \ {x}]

LEMMA SumRemoves ==
  ASSUME NEW S, IsFiniteSet(S), NEW f, \A x \in S : f[x] \in Nat, S = DOMAIN f
  PROVE  \E g : Partial(g, f, S)
<1> DEFINE g == CHOOSE g : Adds(g, f, S)
<1>1. SumFunction(f) = g[S] /\ Adds(g, f, S)
  BY SumFunctionAdds, SumExists
<1> HIDE DEF g
<1>2. g[{}] = 0 /\ \A s \in SUBSET S : s # {} => g[s] = f[Pick(s)] + g[s \ {Pick(s)}]
  BY <1>1 DEF Adds
<1> DEFINE M == {s \in SUBSET S : g[s] \in Nat}
           T == {s \in SUBSET S : \A x \in s : g[s] = f[x] + g[s \ {x}]}
<1>3. \A s \in SUBSET S : g[s] \in Nat
  <2>1. {} \in M
    BY <1>2
  <2>2. ASSUME NEW s \in SUBSET S, s # {}, \A x \in s : s \ {x} \in M
        PROVE  s \in M
    <3>1. Pick(s) \in s
      BY <2>2 DEF Pick
    <3>2. g[s] = f[Pick(s)] + g[s \ {Pick(s)}]
      BY <1>2, <2>2
    <3> QED
      BY <2>2, <3>1, <3>2
  <2>3. SUBSET S \subseteq M
    <3> HIDE DEF M
    <3> QED
      BY <2>1, <2>2, SubsetInduction
  <2> QED
    BY <2>3
<1>4. ASSUME NEW s \in SUBSET S, s # {}, \A x \in s : s \ {x} \in T
      PROVE  s \in T
  <2>1. PICK p \in s : g[s] = f[p] + g[s \ {p}]
    <3>1. Pick(s) \in s
      BY <1>4 DEF Pick
    <3>2. g[s] = f[Pick(s)] + g[s \ {Pick(s)}]
      BY <1>2, <1>4
    <3> QED
      BY <3>1, <3>2
  <2>2. ASSUME NEW x \in s, x # p
        PROVE  g[s] = f[x] + g[s \ {x}]
    <3> DEFINE r == (s \ {p}) \ {x}
    <3>1. r = (s \ {x}) \ {p} /\ r \in SUBSET S
      OBVIOUS
    <3>2. g[s \ {p}] = f[x] + g[r]
      BY <1>4, <2>1, <2>2
    <3>3. g[s \ {x}] = f[p] + g[r]
      BY <1>4, <2>1, <2>2, <3>1
    <3>4. g[r] \in Nat /\ f[x] \in Nat /\ f[p] \in Nat
      BY <1>3, <2>1, <3>1
    <3> HIDE DEF r
    <3> QED
      BY <2>1, <3>2, <3>3, <3>4
  <2> QED
    BY <2>1, <2>2
<1>5. SUBSET S \subseteq T
  <2>1. {} \in T
    OBVIOUS
  <2> HIDE DEF T
  <2> QED
    BY <1>4, <2>1, SubsetInduction
<1>6. \A s \in SUBSET S : \A x \in s : g[s] = f[x] + g[s \ {x}]
  BY <1>5
<1> HIDE DEF T, M
<1>7. Partial(g, f, S)
  BY <1>1, <1>2, <1>3, <1>6 DEF Partial
<1> QED
  BY <1>7

(* The words of a message, added up from its start. *)
Weight(b, i) == IF i % 2 = 1 THEN 256 * b[i] ELSE b[i]

UpTo(q, b) ==
  /\ Words(b) = q[Len(b)] /\ q[0] = 0
  /\ \A n \in 0 .. Len(b) : q[n] \in Nat
  /\ \A n \in 0 .. Len(b) - 1 : q[n + 1] = q[n] + Weight(b, n + 1)

(* A byte counts with its weight, which is a number.                       *)
LEMMA WeightNat ==
  ASSUME NEW b \in Seq(Byte), NEW i \in 1 .. Len(b)
  PROVE  Weight(b, i) \in Nat
<1>1. b[i] \in Byte
  OBVIOUS
<1>2. b[i] \in Nat
  <2>1. \A y \in Byte : y \in Nat
    BY DEF Byte
  <2> QED
    BY <1>1, <2>1
<1>3. 256 * b[i] \in Nat
  BY <1>2
<1> QED
  BY <1>2, <1>3, Zenon DEF Weight

(* There are such partial sums for every message.                          *)
LEMMA WordsUpTo ==
  ASSUME NEW b \in Seq(Byte)
  PROVE  \E q : UpTo(q, b)
<1> DEFINE S == 1 .. Len(b)
           f == [i \in S |-> Weight(b, i)]
<1>1. IsFiniteSet(S) /\ S = DOMAIN f
  BY FS_Interval
<1>2. Words(b) = SumFunction(f)
  BY DEF Words, Weight
<1>3. \A x \in S : f[x] \in Nat /\ f[x] = Weight(b, x)
  BY WeightNat
<1> HIDE DEF f
<1>4. PICK g : Partial(g, f, S)
  BY <1>1, <1>3, SumRemoves
<1> DEFINE q == [n \in 0 .. Len(b) |-> g[1 .. n]]
<1>5. Words(b) = q[Len(b)] /\ q[0] = 0
  BY <1>2, <1>4 DEF Partial
<1>6. \A n \in 0 .. Len(b) : q[n] \in Nat
  BY <1>4 DEF Partial
<1>7. ASSUME NEW n \in 0 .. Len(b) - 1
      PROVE  q[n + 1] = q[n] + Weight(b, n + 1)
  <2>1. 1 .. n + 1 \in SUBSET S /\ n + 1 \in 1 .. n + 1 /\ n + 1 \in S
    OBVIOUS
  <2>2. (1 .. n + 1) \ {n + 1} = 1 .. n
    OBVIOUS
  <2>3. g[1 .. n + 1] = f[n + 1] + g[1 .. n]
    <3>1. \A s \in SUBSET S : \A x \in s : g[s] = f[x] + g[s \ {x}]
      BY <1>4 DEF Partial
    <3>2. g[1 .. n + 1] = f[n + 1] + g[(1 .. n + 1) \ {n + 1}]
      BY <2>1, <3>1, Zenon
    <3> QED
      BY <2>2, <3>2, Zenon
  <2>4. g[1 .. n] \in Nat
    BY <1>4, <2>1 DEF Partial
  <2>5. q[n + 1] = g[1 .. n + 1] /\ q[n] = g[1 .. n]
    OBVIOUS
  <2> QED
    BY <1>3, <2>1, <2>3, <2>4, <2>5
<1> HIDE DEF q, S
<1>8. UpTo(q, b)
  BY <1>5, <1>6, <1>7 DEF UpTo
<1> QED
  BY <1>8

(* The sum of the words is a number.                                       *)
LEMMA WordsNat ==
  ASSUME NEW b \in Seq(Byte)
  PROVE  Words(b) \in Nat
<1>1. PICK q : UpTo(q, b)
  BY WordsUpTo
<1>2. Len(b) \in 0 .. Len(b)
  OBVIOUS
<1> QED
  BY <1>1, <1>2 DEF UpTo

(* A message of whole words ends at a word, so the next one begins there.  *)
LEMMA WordsConcat ==
  ASSUME NEW b \in Seq(Byte), NEW c \in Seq(Byte), Len(b) % 2 = 0
  PROVE  Words(b \o c) = Words(b) + Words(c)
<1> DEFINE d == b \o c
<1>1. d \in Seq(Byte) /\ Len(d) = Len(b) + Len(c)
  OBVIOUS
<1>2. PICK q : UpTo(q, b)
  BY WordsUpTo
<1>3. PICK r : UpTo(r, c)
  BY WordsUpTo
<1>4. PICK s : UpTo(s, d)
  BY <1>1, WordsUpTo
<1>5. \A i \in 1 .. Len(b) : Weight(d, i) = Weight(b, i)
  BY DEF Weight
<1>6. \A i \in 1 .. Len(c) : Weight(d, Len(b) + i) = Weight(c, i)
  <2>1. \A i \in 1 .. Len(c) : d[Len(b) + i] = c[i]
    OBVIOUS
  <2>2. \A i \in 1 .. Len(c) : (Len(b) + i) % 2 = i % 2
    OBVIOUS
  <2> HIDE DEF d
  <2> QED
    BY <2>1, <2>2 DEF Weight
<1> HIDE DEF d
<1> DEFINE A == {n \in Nat : n <= Len(b) => s[n] = q[n]}
           B == {n \in Nat : n <= Len(c) => s[Len(b) + n] = q[Len(b)] + r[n]}
<1>7. Nat \subseteq A
  <2>1. 0 \in A
    BY <1>2, <1>4 DEF UpTo
  <2>2. ASSUME NEW n \in Nat, n \in A
        PROVE  n + 1 \in A
    <3> SUFFICES ASSUME n + 1 <= Len(b) PROVE s[n + 1] = q[n + 1]
      OBVIOUS
    <3>1. n \in 0 .. Len(b) - 1 /\ n \in 0 .. Len(d) - 1 /\ s[n] = q[n]
      BY <1>1, <2>2
    <3> QED
      BY <1>2, <1>4, <1>5, <3>1 DEF UpTo
  <2> HIDE DEF A
  <2> QED
    BY <2>1, <2>2, NatSetInduction
<1>8. s[Len(b)] = q[Len(b)] /\ q[Len(b)] \in Nat
  <2>1. Len(b) \in Nat /\ Len(b) \in 0 .. Len(b)
    OBVIOUS
  <2>2. s[Len(b)] = q[Len(b)]
    BY <1>7, <2>1
  <2>3. q[Len(b)] \in Nat
    BY <1>2, <2>1 DEF UpTo
  <2> QED
    BY <2>2, <2>3
<1>9. Nat \subseteq B
  <2>1. 0 \in B
    BY <1>3, <1>8 DEF UpTo
  <2>2. ASSUME NEW n \in Nat, n \in B
        PROVE  n + 1 \in B
    <3> SUFFICES ASSUME n + 1 <= Len(c) PROVE s[Len(b) + (n + 1)] = q[Len(b)] + r[n + 1]
      OBVIOUS
    <3>1. n \in 0 .. Len(c) - 1 /\ Len(b) + n \in 0 .. Len(d) - 1 /\ n + 1 \in 1 .. Len(c)
      BY <1>1
    <3>2. s[Len(b) + n] = q[Len(b)] + r[n]
      BY <2>2, <3>1
    <3>3. s[(Len(b) + n) + 1] = s[Len(b) + n] + Weight(d, (Len(b) + n) + 1)
      BY <1>4, <3>1 DEF UpTo
    <3>4. r[n + 1] = r[n] + Weight(c, n + 1) /\ r[n] \in Nat /\ r[n + 1] \in Nat
      BY <1>3, <3>1 DEF UpTo
    <3>5. (Len(b) + n) + 1 = Len(b) + (n + 1)
      OBVIOUS
    <3>6. Weight(d, (Len(b) + n) + 1) = Weight(c, n + 1)
      BY <1>6, <3>1, <3>5
    <3>7. Weight(c, n + 1) \in Nat
      BY <3>1, WeightNat
    <3> QED
      BY <1>8, <3>2, <3>3, <3>4, <3>5, <3>6, <3>7
  <2> HIDE DEF B
  <2> QED
    BY <2>1, <2>2, NatSetInduction
<1>10. s[Len(b) + Len(c)] = q[Len(b)] + r[Len(c)]
  <2>1. Len(c) \in Nat
    OBVIOUS
  <2> QED
    BY <1>9, <2>1
<1> QED
  BY <1>1, <1>2, <1>3, <1>4, <1>10 DEF UpTo, d

(* One byte that is wrong makes the sum wrong by its own error.            *)
LEMMA WordsChanged ==
  ASSUME NEW b \in Seq(Byte), NEW j \in 1 .. Len(b), NEW x \in Byte
  PROVE  Words([b EXCEPT ![j] = x]) =
           Words(b) + (IF j % 2 = 1 THEN 256 * (x - b[j]) ELSE x - b[j])
<1> DEFINE d == [b EXCEPT ![j] = x]
           e == IF j % 2 = 1 THEN 256 * (x - b[j]) ELSE x - b[j]
<1>1. d \in Seq(Byte) /\ Len(d) = Len(b)
  OBVIOUS
<1>2. PICK q : UpTo(q, b)
  BY WordsUpTo
<1>3. PICK s : UpTo(s, d)
  BY <1>1, WordsUpTo
<1>4. \A i \in 1 .. Len(b) : i # j => Weight(d, i) = Weight(b, i)
  BY DEF Weight
<1>5. b[j] \in Byte /\ \A i \in 1 .. Len(b) : Weight(b, i) \in Nat
  BY WeightNat
<1>6. Weight(d, j) = Weight(b, j) + e /\ e \in Int
  <2>1. d[j] = x
    OBVIOUS
  <2> HIDE DEF d
  <2>2. \A y \in Byte : y \in Nat
    BY DEF Byte
  <2>5. x \in Nat /\ b[j] \in Nat
    BY <1>5, <2>2
  <2>3. CASE j % 2 = 1
    <3>1. Weight(d, j) = 256 * x /\ Weight(b, j) = 256 * b[j] /\ e = 256 * (x - b[j])
      BY <2>1, <2>3 DEF Weight
    <3> QED
      BY <2>5, <3>1
  <2>4. CASE j % 2 # 1
    <3>1. Weight(d, j) = x /\ Weight(b, j) = b[j] /\ e = x - b[j]
      BY <2>1, <2>4 DEF Weight
    <3> QED
      BY <2>5, <3>1
  <2> QED
    BY <2>3, <2>4
<1> HIDE DEF d, e
<1> DEFINE A == {n \in Nat : n <= Len(b) => s[n] = q[n] + (IF n < j THEN 0 ELSE e)}
<1>7. Nat \subseteq A
  <2>1. 0 \in A
    <3>1. s[0] = 0 /\ q[0] = 0
      BY <1>2, <1>3 DEF UpTo
    <3> QED
      BY <3>1
  <2>2. ASSUME NEW n \in Nat, n \in A
        PROVE  n + 1 \in A
    <3> SUFFICES ASSUME n + 1 <= Len(b)
                 PROVE  s[n + 1] = q[n + 1] + (IF n + 1 < j THEN 0 ELSE e)
      OBVIOUS
    <3>1. n \in 0 .. Len(b) - 1 /\ n + 1 \in 1 .. Len(b) /\ n \in 0 .. Len(b)
      OBVIOUS
    <3>2. s[n] = q[n] + (IF n < j THEN 0 ELSE e)
      BY <2>2, <3>1
    <3>3. s[n + 1] = s[n] + Weight(d, n + 1) /\ q[n + 1] = q[n] + Weight(b, n + 1) /\ q[n] \in Nat
      BY <1>1, <1>2, <1>3, <3>1 DEF UpTo
    <3>4. Weight(d, n + 1) = Weight(b, n + 1) + (IF n + 1 = j THEN e ELSE 0)
      <4>1. CASE n + 1 = j
        BY <1>6, <4>1, Zenon
      <4>2. CASE n + 1 # j
        <5>1. Weight(d, n + 1) = Weight(b, n + 1) /\ Weight(b, n + 1) \in Nat
          BY <1>4, <1>5, <3>1, <4>2, Zenon
        <5> QED
          BY <4>2, <5>1, SMT
      <4> QED
        BY <4>1, <4>2, Zenon
    <3>5. Weight(b, n + 1) \in Nat
      BY <1>5, <3>1
    <3> QED
      BY <1>6, <3>2, <3>3, <3>4, <3>5
  <2> HIDE DEF A
  <2> QED
    BY <2>1, <2>2, NatSetInduction
<1>8. s[Len(b)] = q[Len(b)] + e
  <2>1. Len(b) \in Nat /\ ~(Len(b) < j)
    OBVIOUS
  <2> QED
    BY <1>7, <2>1
<1> QED
  BY <1>1, <1>2, <1>3, <1>8 DEF UpTo, d, e

-----------------------------------------------------------------------------
(* inetChecksum                                                            *)

(* Folding the carry back in keeps a sum's remainder modulo 65535, and     *)
(* makes 0 of 0 only.                                                      *)
Folded(n) == IF n < 65536 THEN n ELSE ((n - 1) % 65535) + 1

(* One round of the fold makes the sum smaller and keeps that.             *)
LEMMA FoldedFolds ==
  ASSUME NEW n \in Nat, n >= 65536
  PROVE  /\ (n % 65536) + n \div 65536 \in Nat
         /\ (n % 65536) + n \div 65536 < n
         /\ Folded((n % 65536) + n \div 65536) = Folded(n)
<1> DEFINE k == n \div 65536
           r == n % 65536
<1>1. k \in Nat /\ r \in Nat /\ r < 65536
  OBVIOUS
<1>2. k = n \div 65536 /\ r = n % 65536
  OBVIOUS
<1> HIDE DEF k, r
<1>3. n = 65536 * k + r
  BY <1>1, <1>2
<1>4. r + k \in Nat /\ k >= 1 /\ r + k < n /\ n - 1 = (r + k - 1) + 65535 * k
  BY <1>1, <1>3
<1> DEFINE u == (r + k - 1) % 65535
           v == (n - 1) % 65535
<1>5. u = v
  BY <1>1, <1>4, SMT
<1>6. r + k < 65536 => u + 1 = r + k
  BY <1>1, <1>4, SMT
<1>7. /\ Folded(r + k) = IF r + k < 65536 THEN r + k ELSE u + 1
      /\ Folded(n) = IF n < 65536 THEN n ELSE v + 1
  BY <1>1, <1>4, SMT DEF Folded
<1>8. Folded(r + k) = Folded(n)
  <2> HIDE DEF u, v
  <2> QED
    BY <1>5, <1>6, <1>7, SMT
<1>9. r + k = (n % 65536) + n \div 65536
  BY <1>2, SMT
<1> QED
  BY <1>4, <1>8, <1>9, SMT

(* What the fold ends with, for every sum.                                 *)
LEMMA FoldIsFolded == \A n \in Nat : fold[n] = Folded(n)
<1> DEFINE F == [n \in Nat |-> Folded(n)]
           Loops(f) == f = [sum \in Nat |-> IF sum < 65536 THEN sum
                                            ELSE f[(sum % 65536) + sum \div 65536]]
<1>1. Loops(F)
  <2>1. \A n \in Nat : F[n] = IF n < 65536 THEN n ELSE F[(n % 65536) + n \div 65536]
    <3> SUFFICES ASSUME NEW n \in Nat
                 PROVE  F[n] = IF n < 65536 THEN n ELSE F[(n % 65536) + n \div 65536]
      OBVIOUS
    <3>1. CASE n < 65536
      BY <3>1 DEF Folded
    <3>2. CASE n >= 65536
      <4>1. (n % 65536) + n \div 65536 \in Nat
        BY <3>2, FoldedFolds
      <4>2. Folded((n % 65536) + n \div 65536) = Folded(n)
        BY <3>2, FoldedFolds
      <4> QED
        BY <3>2, <4>1, <4>2
    <3> QED
      BY <3>1, <3>2
  <2>2. F = [n \in Nat |-> F[n]]
    OBVIOUS
  <2> HIDE DEF F
  <2>3. [n \in Nat |-> F[n]] =
          [n \in Nat |-> IF n < 65536 THEN n ELSE F[(n % 65536) + n \div 65536]]
    BY <2>1
  <2> QED
    BY <2>2, <2>3
<1>2. fold = CHOOSE f : Loops(f)
  BY DEF fold
<1>3. Loops(fold)
  <2> HIDE DEF Loops, F
  <2> QED
    BY <1>1, <1>2
<1> DEFINE T == {n \in Nat : \A m \in 0 .. n : fold[m] = Folded(m)}
<1>4. fold[0] = 0 /\ \A m \in Nat : fold[m] = IF m < 65536 THEN m
                                             ELSE fold[(m % 65536) + m \div 65536]
  BY <1>3
<1>5. 0 \in T
  BY <1>4 DEF Folded
<1>6. ASSUME NEW n \in Nat, n \in T
      PROVE  n + 1 \in T
  <2> SUFFICES fold[n + 1] = Folded(n + 1)
    BY <1>6
  <2>1. CASE n + 1 < 65536
    BY <1>4, <2>1 DEF Folded
  <2>2. CASE n + 1 >= 65536
    <3> DEFINE l == ((n + 1) % 65536) + (n + 1) \div 65536
    <3>1. l \in Nat /\ l < n + 1 /\ Folded(l) = Folded(n + 1)
      BY <2>2, FoldedFolds
    <3>2. fold[n + 1] = fold[l]
      BY <1>4, <2>2
    <3> HIDE DEF l
    <3> QED
      BY <1>6, <3>1, <3>2
  <2> QED
    BY <2>1, <2>2
<1>7. Nat \subseteq T
  <2> HIDE DEF T
  <2> QED
    BY <1>5, <1>6, NatSetInduction
<1> QED
  BY <1>7

(* The checksum of a sum that is not zero is right when 65535 divides it.  *)
NoRest(n) == n % 65535 = 0

(* inetChecksum is 0 exactly then.                                         *)
LEMMA ChecksumZero ==
  ASSUME NEW b, Words(b) \in Nat, Words(b) > 0
  PROVE  inetChecksum(b) = 0 <=> NoRest(Words(b))
<1> DEFINE n == Words(b)
<1>1. fold[n] = Folded(n)
  BY FoldIsFolded
<1>2. inetChecksum(b) = 65535 - Folded(n)
  BY <1>1 DEF inetChecksum
<1> HIDE DEF n
<1>3. n \in Nat /\ n > 0
  BY DEF n
<1>4. Folded(n) \in Nat /\ (Folded(n) = 65535 <=> n % 65535 = 0)
  BY <1>3 DEF Folded
<1> QED
  BY <1>2, <1>4, SMT DEF n, NoRest

-----------------------------------------------------------------------------
(* The bytes of a message.                                                 *)

(* Bytes are the numbers below 256.                                        *)
LEMMA BytesAreNumbers == \A y : y \in Byte <=> y \in Nat /\ y < 256
  BY SMT DEF Byte

(* Bytes put one behind the other.                                         *)
LEMMA ConcatBytes ==
  ASSUME NEW p \in Seq(Byte), NEW q \in Seq(Byte)
  PROVE  /\ p \o q \in Seq(Byte) /\ Len(p \o q) = Len(p) + Len(q)
         /\ \A i \in 1 .. Len(p) : (p \o q)[i] = p[i]
         /\ \A i \in 1 .. Len(q) : (p \o q)[Len(p) + i] = q[i]
  BY SMT

(* In which order they are put together does not matter.                   *)
LEMMA AssocBytes ==
  ASSUME NEW p \in Seq(Byte), NEW q \in Seq(Byte), NEW r \in Seq(Byte)
  PROVE  (p \o q) \o r = p \o (q \o r)
  OBVIOUS

(* The fields of an advert that is sent.                                   *)
LEMMA AdvertFields ==
  ASSUME NEW a \in Adverts
  PROVE  /\ a.Version \in {2, 3} /\ a.VRID \in Byte /\ a.Priority \in Byte
         /\ a.VIPs \in Seq([1 .. 4 -> Byte]) /\ Len(a.VIPs) \in Byte
         /\ a.auth \in Seq(Byte) /\ Len(a.auth) = IF a.Version = 2 THEN 8 ELSE 0
<1>1. AdvertType(a)
  BY PacketAssumption, Zenon
<1> QED
  BY <1>1, SMT DEF AdvertType

(* Its interval has 8 bits in version 2, 12 in version 3.                  *)
LEMMA AdvertInterval ==
  ASSUME NEW a \in Adverts
  PROVE  a.interval \in Nat /\ a.interval < 4096 /\ (a.Version = 2 => a.interval < 256)
<1>1. AdvertType(a)
  BY PacketAssumption, Zenon
<1> QED
  BY <1>1, SMT DEF AdvertType

(* Its number of addresses fits a byte.                                    *)
LEMMA AdvertCount ==
  ASSUME NEW a \in Adverts
  PROVE  Len(a.VIPs) \in Nat /\ Len(a.VIPs) < 256
<1>1. Len(a.VIPs) \in Byte
  BY AdvertFields, Zenon
<1> QED
  BY <1>1, BytesAreNumbers, Zenon

(* Numbers of 16 bits, in two bytes. *)
Word == {w \in Nat : w < 65536}

(* The two bytes of a 16-bit number give it back.                          *)
LEMMA WordInBytes ==
  ASSUME NEW w \in Word
  PROVE  /\ Hi(w) \in Byte /\ Lo(w) \in Byte /\ Hi(w) % 256 = Hi(w)
         /\ 256 * Hi(w) + Lo(w) = w
<1> DEFINE h == w \div 256
           l == w % 256
<1>1. h \in Nat /\ l \in Nat /\ l < 256 /\ w \in Nat /\ w < 65536
  BY SMT DEF Word
<1>2. h = w \div 256 /\ l = w % 256
  BY SMT
<1> HIDE DEF h, l
<1>3. w = 256 * h + l
  BY <1>1, <1>2, SMT
<1>4. h < 256 /\ h % 256 = h
  BY <1>1, <1>3, SMT
<1>5. h \in Byte /\ l \in Byte
  BY <1>1, <1>4, BytesAreNumbers, SMT
<1>6. Hi(w) = h /\ Lo(w) = l
  BY <1>2, SMT DEF Hi, Lo, h, l
<1> QED
  BY <1>3, <1>4, <1>5, <1>6, SMT

(* Quotient and remainder by four are unique.                              *)
LEMMA ByFour ==
  ASSUME NEW n \in Nat, NEW k \in Nat, NEW r \in Nat, r < 4, n = 4 * k + r
  PROVE  n \div 4 = k /\ n % 4 = r
  BY SMT

(* The addresses, one after the other, and each of them cut out again.     *)
LEMMA CatBytes ==
  ASSUME NEW vips \in Seq([1 .. 4 -> Byte])
  PROVE  /\ Cat(vips) \in Seq(Byte) /\ Len(Cat(vips)) = 4 * Len(vips)
         /\ \A j \in 1 .. Len(vips) : \A t \in 1 .. 4 : Cat(vips)[4 * (j - 1) + t] = vips[j][t]
<1> DEFINE L == Len(vips)
<1>1. L \in Nat /\ \A j \in 1 .. L : vips[j] \in [1 .. 4 -> Byte]
  OBVIOUS
<1> HIDE DEF L
<1>2. \A i \in 1 .. 4 * L : (i + 3) \div 4 \in 1 .. L /\ ((i - 1) % 4) + 1 \in 1 .. 4
  <2> SUFFICES ASSUME NEW i \in 1 .. 4 * L
               PROVE  (i + 3) \div 4 \in 1 .. L /\ ((i - 1) % 4) + 1 \in 1 .. 4
    OBVIOUS
  <2> DEFINE q == (i + 3) \div 4
             r == (i + 3) % 4
  <2>1. q \in Nat /\ r \in Nat /\ r < 4
    BY <1>1, SMT
  <2>2. q = (i + 3) \div 4 /\ r = (i + 3) % 4
    BY <1>1, SMT
  <2>3. ((i - 1) % 4) + 1 \in 1 .. 4
    BY <1>1, SMT
  <2> HIDE DEF q, r
  <2>4. i + 3 = 4 * q + r
    BY <1>1, <2>1, <2>2, SMT
  <2>5. q \in 1 .. L
    BY <1>1, <2>1, <2>4, SMT
  <2> QED
    BY <2>2, <2>3, <2>5
<1>3. \A i \in 1 .. 4 * L : vips[(i + 3) \div 4][((i - 1) % 4) + 1] \in Byte
  BY <1>1, <1>2
<1>4. Cat(vips) = [i \in 1 .. 4 * L |-> vips[(i + 3) \div 4][((i - 1) % 4) + 1]]
  BY DEF Cat, L
<1>5. Cat(vips) \in Seq(Byte) /\ Len(Cat(vips)) = 4 * L
  <2>1. 4 * L \in Nat
    BY <1>1
  <2>2. Cat(vips) \in [1 .. 4 * L -> Byte]
    BY <1>3, <1>4, Zenon
  <2> QED
    BY <2>1, <2>2, SMTT(30)
<1>6. ASSUME NEW j \in 1 .. L, NEW t \in 1 .. 4
      PROVE  Cat(vips)[4 * (j - 1) + t] = vips[j][t]
  <2> DEFINE i == 4 * (j - 1) + t
  <2>1. i \in 1 .. 4 * L /\ i + 3 = 4 * j + (t - 1) /\ i - 1 = 4 * (j - 1) + (t - 1)
    BY <1>1, SMT
  <2> HIDE DEF i
  <2>2. (i + 3) \div 4 = j /\ (i - 1) % 4 = t - 1
    <3>1. t - 1 \in Nat /\ t - 1 < 4 /\ j \in Nat /\ j - 1 \in Nat /\ i + 3 \in Nat /\ i - 1 \in Nat
      BY <1>1, <2>1
    <3> QED
      BY <2>1, <3>1, ByFour
  <2>3. (t - 1) + 1 = t
    OBVIOUS
  <2>4. Cat(vips)[i] = vips[(i + 3) \div 4][((i - 1) % 4) + 1]
    BY <1>4, <2>1, Zenon
  <2> QED
    BY <2>2, <2>3, <2>4 DEF i
<1> QED
  BY <1>5, <1>6 DEF L

(* The parts of a message around its checksum, and the checksum.           *)
Before(a) ==
  <<16 * a.Version + 1, a.VRID, a.Priority, Len(a.VIPs)>>
  \o (IF a.Version = 2 THEN <<1, a.interval>> ELSE <<Hi(a.interval), Lo(a.interval)>>)
Behind(a) == Cat(a.VIPs) \o a.auth
Sum(a)   == Words(Pseudo(a, Len(Unsummed(a, 0)))) + Words(Unsummed(a, 0))
Check(a) == (65535 - (Sum(a) % 65535)) % 65535
Size(a)  == 8 + 4 * Len(a.VIPs) + (IF a.Version = 2 THEN 8 ELSE 0)

(* The six bytes before the checksum, field by field.                      *)
LEMMA BeforeBytes ==
  ASSUME NEW a \in Adverts
  PROVE  /\ Before(a) \in Seq(Byte) /\ Len(Before(a)) = 6
         /\ Before(a)[1] = 16 * a.Version + 1 /\ Before(a)[2] = a.VRID
         /\ Before(a)[3] = a.Priority /\ Before(a)[4] = Len(a.VIPs)
         /\ a.Version = 2 => Before(a)[6] = a.interval
         /\ a.Version # 2 => Before(a)[5] = Hi(a.interval) /\ Before(a)[6] = Lo(a.interval)
<1> DEFINE p == <<16 * a.Version + 1, a.VRID, a.Priority, Len(a.VIPs)>>
           q == IF a.Version = 2 THEN <<1, a.interval>> ELSE <<Hi(a.interval), Lo(a.interval)>>
<1>1. 16 * a.Version + 1 \in Byte
  <2>1. 16 * a.Version + 1 \in Nat /\ 16 * a.Version + 1 < 256
    <3>1. a.Version \in {2, 3}
      BY AdvertFields, Zenon
    <3> QED
      BY <3>1, SMT
  <2> QED
    BY <2>1, BytesAreNumbers, Zenon
<1>2. /\ p \in Seq(Byte) /\ Len(p) = 4 /\ p[1] = 16 * a.Version + 1
      /\ p[2] = a.VRID /\ p[3] = a.Priority /\ p[4] = Len(a.VIPs)
  <2>1. a.VRID \in Byte /\ a.Priority \in Byte /\ Len(a.VIPs) \in Byte
    BY AdvertFields, Zenon
  <2> QED
    BY <1>1, <2>1, SMT
<1>3. /\ q \in Seq(Byte) /\ Len(q) = 2
      /\ a.Version = 2 => q[2] = a.interval
      /\ a.Version # 2 => q[1] = Hi(a.interval) /\ q[2] = Lo(a.interval)
  <2>1. CASE a.Version = 2
    <3>1. 1 \in Byte /\ a.interval \in Byte
      BY AdvertInterval, BytesAreNumbers, <2>1, SMT
    <3>2. q = <<1, a.interval>>
      BY <2>1, Zenon
    <3> QED
      BY <2>1, <3>1, <3>2, SMT
  <2>2. CASE a.Version # 2
    <3>1. a.interval \in Word
      BY AdvertInterval, SMT DEF Word
    <3>2. Hi(a.interval) \in Byte /\ Lo(a.interval) \in Byte
      BY <3>1, WordInBytes
    <3>3. q = <<Hi(a.interval), Lo(a.interval)>>
      BY <2>2, Zenon
    <3> QED
      BY <2>2, <3>2, <3>3, SMT
  <2> QED
    BY <2>1, <2>2
<1>4. Before(a) = p \o q
  BY Zenon DEF Before
<1> HIDE DEF p, q
<1>5. /\ p \o q \in Seq(Byte) /\ Len(p \o q) = Len(p) + Len(q)
      /\ \A i \in 1 .. Len(p) : (p \o q)[i] = p[i]
      /\ \A i \in 1 .. Len(q) : (p \o q)[Len(p) + i] = q[i]
  BY <1>2, <1>3, ConcatBytes
<1>6. /\ Before(a)[1] = p[1] /\ Before(a)[2] = p[2] /\ Before(a)[3] = p[3]
      /\ Before(a)[4] = p[4] /\ Before(a)[5] = q[1] /\ Before(a)[6] = q[2]
  <2>1. /\ 1 \in 1 .. Len(p) /\ 2 \in 1 .. Len(p) /\ 3 \in 1 .. Len(p) /\ 4 \in 1 .. Len(p)
        /\ 1 \in 1 .. Len(q) /\ 2 \in 1 .. Len(q) /\ Len(p) + 1 = 5 /\ Len(p) + 2 = 6
    BY <1>2, <1>3, SMT
  <2>2. /\ Before(a)[1] = p[1] /\ Before(a)[2] = p[2] /\ Before(a)[3] = p[3] /\ Before(a)[4] = p[4]
        /\ Before(a)[Len(p) + 1] = q[1] /\ Before(a)[Len(p) + 2] = q[2]
    <3>1. \A i \in 1 .. Len(p) : Before(a)[i] = p[i]
      BY <1>4, <1>5
    <3>2. \A i \in 1 .. Len(q) : Before(a)[Len(p) + i] = q[i]
      BY <1>4, <1>5
    <3> QED
      BY <2>1, <3>1, <3>2
  <2> QED
    BY <2>1, <2>2, SMT
<1>7. Before(a) \in Seq(Byte) /\ Len(Before(a)) = 6
  BY <1>2, <1>3, <1>4, <1>5, SMT
<1> QED
  BY <1>2, <1>3, <1>6, <1>7, Zenon

(* The bytes after it hold the addresses; the sizes are those of           *)
(* packet.go.                                                              *)
LEMMA BehindBytes ==
  ASSUME NEW a \in Adverts
  PROVE  /\ Behind(a) \in Seq(Byte) /\ Len(Behind(a)) = Size(a) - 8 /\ Size(a) \in Nat
         /\ Size(a) >= 8 + 4 * Len(a.VIPs) /\ Size(a) \in Word
         /\ Size(a) % 2 = 0 /\ Len(Behind(a)) % 2 = 0
         /\ \A j \in 1 .. Len(a.VIPs) : \A t \in 1 .. 4 : Behind(a)[4 * (j - 1) + t] = a.VIPs[j][t]
<1> DEFINE c == Cat(a.VIPs)
           L == Len(a.VIPs)
           A == Len(a.auth)
<1>1. L \in Nat /\ L < 256 /\ a.auth \in Seq(Byte)
  BY AdvertFields, AdvertCount, Zenon
<1>2. /\ c \in Seq(Byte) /\ Len(c) = 4 * L
      /\ \A j \in 1 .. L : \A t \in 1 .. 4 : c[4 * (j - 1) + t] = a.VIPs[j][t]
  <2>1. a.VIPs \in Seq([1 .. 4 -> Byte])
    BY AdvertFields, Zenon
  <2> QED
    BY <2>1, CatBytes
<1>3. Behind(a) = c \o a.auth
  BY Zenon DEF Behind
<1> HIDE DEF c
<1>4. /\ Behind(a) \in Seq(Byte) /\ Len(Behind(a)) = Len(c) + A
      /\ \A i \in 1 .. Len(c) : Behind(a)[i] = c[i]
  <2> DEFINE d == c \o a.auth
  <2>1. /\ d \in Seq(Byte) /\ Len(d) = Len(c) + A
        /\ \A i \in 1 .. Len(c) : d[i] = c[i]
    BY <1>1, <1>2, ConcatBytes, Zenon
  <2> HIDE DEF d
  <2> QED
    BY <1>3, <2>1, Zenon DEF d
<1>5. A = (IF a.Version = 2 THEN 8 ELSE 0) /\ Size(a) = 8 + 4 * L + A
  <2>1. A = IF a.Version = 2 THEN 8 ELSE 0
    BY AdvertFields, Zenon
  <2> QED
    BY <2>1, Zenon DEF Size
<1> HIDE DEF L, A
<1>6. A \in {0, 8}
  BY <1>5, Zenon
<1>7. ASSUME NEW j \in 1 .. L, NEW t \in 1 .. 4
      PROVE  Behind(a)[4 * (j - 1) + t] = a.VIPs[j][t]
  <2>1. 4 * (j - 1) + t \in 1 .. 4 * L
    BY <1>1, SMTT(30)
  <2> QED
    BY <1>2, <1>4, <2>1, Zenon
<1>8. Len(Behind(a)) = Size(a) - 8 /\ Size(a) \in Nat /\ Size(a) >= 8 + 4 * L
      /\ Size(a) \in Word
  BY <1>1, <1>2, <1>4, <1>5, <1>6, SMT DEF Word
<1>9. Size(a) % 2 = 0 /\ Len(Behind(a)) % 2 = 0
  <2>1. PICK B \in {0, 4} : A = 2 * B
    BY <1>6, SMT
  <2>4. Size(a) = 8 + 4 * L + A /\ Len(Behind(a)) = 4 * L + A
    BY <1>2, <1>4, <1>5, Zenon
  <2>5. Size(a) = 2 * (4 + 2 * L + B) /\ Len(Behind(a)) = 2 * (2 * L + B)
    BY <1>1, <2>1, <2>4, SMT
  <2>2. 4 + 2 * L + B \in Nat /\ 2 * L + B \in Nat
    BY <1>1, SMT
  <2>3. \A k \in Nat : (2 * k) % 2 = 0
    BY SMT
  <2> QED
    BY <2>2, <2>3, <2>5, Zenon
<1> QED
  BY <1>4, <1>7, <1>8, <1>9, Zenon DEF L

(* A message whose first byte is not zero has a sum above zero.            *)
LEMMA WordsPositive ==
  ASSUME NEW b \in Seq(Byte), Len(b) >= 1, b[1] > 0
  PROVE  Words(b) \in Nat /\ Words(b) > 0
<1> DEFINE d == [b EXCEPT ![1] = 0]
<1>1. d \in Seq(Byte) /\ 0 \in Byte /\ 1 \in 1 .. Len(b)
  BY BytesAreNumbers
<1>2. Words(d) = Words(b) + (IF 1 % 2 = 1 THEN 256 * (0 - b[1]) ELSE 0 - b[1])
  BY <1>1, WordsChanged, Zenon
<1>3. Words(d) \in Nat /\ Words(b) \in Nat
  BY <1>1, WordsNat, Zenon
<1>4. b[1] \in Nat
  <2>1. b[1] \in Byte
    BY <1>1
  <2> QED
    BY <2>1, BytesAreNumbers
<1> HIDE DEF d
<1>5. Words(d) = Words(b) - 256 * b[1]
  BY <1>2, <1>3, <1>4, SMT
<1> QED
  BY <1>3, <1>4, <1>5, SMT

(* Two bytes are one word.                                                 *)
LEMMA WordsOfWord ==
  ASSUME NEW h \in Byte, NEW l \in Byte
  PROVE  Words(<<h, l>>) = 256 * h + l
<1> DEFINE b == <<h, l>>
<1>1. b \in Seq(Byte) /\ Len(b) = 2 /\ b[1] = h /\ b[2] = l
  OBVIOUS
<1>2. h \in Nat /\ l \in Nat
  BY BytesAreNumbers
<1> HIDE DEF b
<1>3. PICK q : UpTo(q, b)
  BY <1>1, WordsUpTo
<1>4. Words(b) = q[2] /\ q[0] = 0 /\ q[0 + 1] = q[0] + Weight(b, 0 + 1) /\ q[1 + 1] = q[1] + Weight(b, 1 + 1)
  BY <1>1, <1>3 DEF UpTo
<1>5. Weight(b, 1) = 256 * h /\ Weight(b, 2) = l
  BY <1>1, <1>2, SMT DEF Weight
<1> QED
  BY <1>2, <1>4, <1>5, SMT DEF b

(* No bytes, no sum.                                                       *)
LEMMA WordsOfNothing == Words(<<>>) = 0
<1>1. <<>> \in Seq(Byte) /\ Len(<<>>) = 0
  OBVIOUS
<1>2. PICK q : UpTo(q, <<>>)
  BY <1>1, WordsUpTo
<1> QED
  BY <1>1, <1>2 DEF UpTo

(* A message with any checksum.                                            *)
LEMMA UnsummedBytes ==
  ASSUME NEW a \in Adverts, NEW c \in Word
  PROVE  /\ Unsummed(a, c) \in Seq(Byte) /\ Len(Unsummed(a, c)) = Size(a)
         /\ \A i \in 1 .. 6 : Unsummed(a, c)[i] = Before(a)[i]
         /\ \A i \in 1 .. Len(Behind(a)) : Unsummed(a, c)[8 + i] = Behind(a)[i]
         /\ Words(Unsummed(a, c)) = Words(Before(a)) + c + Words(Behind(a))
<1> DEFINE u == Unsummed(a, c)
           w == <<Hi(c), Lo(c)>>
           p == Before(a)
           f == Behind(a)
           v == Cat(a.VIPs)
           pw == p \o w
<1>1. Hi(c) \in Byte /\ Lo(c) \in Byte /\ 256 * Hi(c) + Lo(c) = c
  BY WordInBytes
<1>2. w \in Seq(Byte) /\ Len(w) = 2
  BY <1>1
<1>3. Words(w) = c
  BY <1>1, WordsOfWord
<1>4. p \in Seq(Byte) /\ Len(p) = 6
  BY BeforeBytes, Zenon
<1>5. f \in Seq(Byte) /\ Len(f) = Size(a) - 8 /\ Size(a) \in Nat
  BY BehindBytes, SMT
<1>6. v \in Seq(Byte) /\ a.auth \in Seq(Byte)
  BY AdvertFields, CatBytes, Zenon
<1>7. u = ((p \o w) \o v) \o a.auth
  BY Zenon DEF Unsummed, Before
<1>8. f = v \o a.auth
  BY Zenon DEF Behind
<1> HIDE DEF u, w, p, f, v
<1>9. /\ pw \in Seq(Byte) /\ Len(pw) = Len(p) + Len(w)
      /\ \A i \in 1 .. Len(p) : pw[i] = p[i]
  BY <1>2, <1>4, ConcatBytes
<1>10. Len(pw) = 8 /\ \A i \in 1 .. 6 : pw[i] = p[i]
  BY <1>2, <1>4, <1>9, SMT
<1> HIDE DEF pw
<1>11. u = pw \o f
  <2>1. (pw \o v) \o a.auth = pw \o (v \o a.auth)
    <3>1. pw \in Seq(Byte)
      BY <1>9, Zenon
    <3> QED
      BY <1>6, <3>1, AssocBytes
  <2> QED
    BY <1>7, <1>8, <2>1, Zenon DEF pw
<1>12. /\ pw \o f \in Seq(Byte) /\ Len(pw \o f) = Len(pw) + Len(f)
       /\ \A i \in 1 .. Len(pw) : (pw \o f)[i] = pw[i]
       /\ \A i \in 1 .. Len(f) : (pw \o f)[Len(pw) + i] = f[i]
  BY <1>5, <1>9, ConcatBytes
<1>13. /\ u \in Seq(Byte) /\ Len(u) = Size(a)
       /\ \A i \in 1 .. 6 : u[i] = p[i]
       /\ \A i \in 1 .. Len(f) : u[8 + i] = f[i]
  <2>1. u \in Seq(Byte) /\ Len(u) = Len(pw) + Len(f)
    BY <1>11, <1>12, Zenon
  <2>2. Len(u) = Size(a)
    BY <1>5, <1>10, <2>1, SMT
  <2>3. \A i \in 1 .. 6 : u[i] = p[i]
    <3>1. \A i \in 1 .. 6 : i \in 1 .. 8
      OBVIOUS
    <3> QED
      BY <1>10, <1>11, <1>12, <3>1, Zenon
  <2>4. \A i \in 1 .. Len(f) : u[8 + i] = f[i]
    BY <1>10, <1>11, <1>12, Zenon
  <2> QED
    BY <2>1, <2>2, <2>3, <2>4, Zenon
<1>14. Words(u) = Words(p) + c + Words(f)
  <2>1. Words(pw) = Words(p) + Words(w)
    <3>1. Len(p) % 2 = 0
      BY <1>4, SMT
    <3> QED
      BY <1>2, <1>4, <3>1, WordsConcat, Zenon DEF pw
  <2>2. Words(pw \o f) = Words(pw) + Words(f)
    <3>1. Len(pw) % 2 = 0
      BY <1>10, SMT
    <3> QED
      BY <1>5, <1>9, <3>1, WordsConcat, Zenon
  <2> QED
    BY <1>3, <1>11, <2>1, <2>2, Zenon
<1> QED
  BY <1>13, <1>14, Zenon DEF u, p, f

(* Sender's and receiver's pseudo-header are the same, and whole words     *)
(* long.                                                                   *)
LEMMA PseudoBytes ==
  ASSUME NEW a \in Adverts
  PROVE  /\ Pseudo(a, Size(a)) \in Seq(Byte) /\ Len(Pseudo(a, Size(a))) % 2 = 0
         /\ a.Version # 2 => Pseudo(a, Size(a)) = pseudoHeader(Src, Dst, Size(a))
         /\ a.Version = 2 => Words(Pseudo(a, Size(a))) = 0
<1> DEFINE l == Size(a)
           t == <<0, IPProtoVRRP, Hi(l), Lo(l)>>
           z == Pseudo(a, l)
<1>1. l \in Word
  BY BehindBytes, Zenon
<1>2. Hi(l) \in Byte /\ Lo(l) \in Byte /\ Hi(l) % 256 = Hi(l)
  BY <1>1, WordInBytes
<1>3. 0 \in Byte /\ IPProtoVRRP \in Byte
  BY BytesAreNumbers DEF IPProtoVRRP
<1>4. t \in Seq(Byte) /\ Len(t) = 4
  BY <1>2, <1>3
<1>5. Src \in Seq(Byte) /\ Dst \in Seq(Byte) /\ Len(Src) = 4 /\ Len(Dst) = 4
  BY PacketAssumption, Zenon
<1>6. CASE a.Version = 2
  <2>1. z = <<>>
    BY <1>6, Zenon DEF Pseudo
  <2>2. <<>> \in Seq(Byte) /\ Len(<<>>) % 2 = 0
    BY SMT
  <2> QED
    BY <1>6, <2>1, <2>2, WordsOfNothing, Zenon
<1>7. CASE a.Version # 2
  <2>1. z = (Src \o Dst) \o t
    BY <1>7, Zenon DEF Pseudo
  <2>2. pseudoHeader(Src, Dst, l) = (Src \o Dst) \o t
    BY <1>2, Zenon DEF pseudoHeader
  <2> HIDE DEF t, l
  <2>3. Src \o Dst \in Seq(Byte) /\ Len(Src \o Dst) = 8
    <3>1. Src \o Dst \in Seq(Byte) /\ Len(Src \o Dst) = Len(Src) + Len(Dst)
      BY <1>5, ConcatBytes, Zenon
    <3> QED
      BY <1>5, <3>1, SMT
  <2>4. (Src \o Dst) \o t \in Seq(Byte) /\ Len((Src \o Dst) \o t) = 12
    <3>1. /\ (Src \o Dst) \o t \in Seq(Byte)
          /\ Len((Src \o Dst) \o t) = Len(Src \o Dst) + Len(t)
      BY <1>4, <2>3, ConcatBytes, Zenon
    <3> QED
      BY <1>4, <2>3, <3>1, SMT
  <2>5. 12 % 2 = 0
    BY SMT
  <2> QED
    BY <1>7, <2>1, <2>2, <2>4, <2>5, Zenon DEF l
<1> QED
  BY <1>6, <1>7

(* The checksum makes the sum of the message's words, with those of the    *)
(* pseudo-header, a multiple of 65535.                                     *)
LEMMA Completed ==
  ASSUME NEW s \in Nat
  PROVE  LET c == (65535 - (s % 65535)) % 65535
         IN  c \in Word /\ NoRest(s + c)
<1> DEFINE r == s % 65535
           c == (65535 - r) % 65535
<1>1. r \in Nat /\ r < 65535 /\ r = s % 65535
  BY SMT
<1>2. CASE r = 0
  <2>1. c = 0
    BY <1>2, SMT
  <2> QED
    BY <1>1, <1>2, <2>1, SMT DEF Word, NoRest
<1>3. CASE r # 0
  <2>1. c = 65535 - r
    BY <1>1, <1>3, SMT
  <2> HIDE DEF r, c
  <2>2. c \in Word /\ NoRest(s + c)
    BY <1>1, <1>3, <2>1, SMT DEF Word, NoRest
  <2> QED
    BY <2>2, SMT DEF c, r
<1> QED
  BY <1>2, <1>3

(* A message as sent: its bytes, and that its checksum is right.           *)
LEMMA MessageBytes ==
  ASSUME NEW a \in Adverts
  PROVE  /\ Message(a) \in Seq(Byte) /\ Len(Message(a)) = Size(a)
         /\ \A i \in 1 .. 6 : Message(a)[i] = Before(a)[i]
         /\ \A i \in 1 .. Len(Behind(a)) : Message(a)[8 + i] = Behind(a)[i]
         /\ Words(Pseudo(a, Size(a))) \in Nat
         /\ Words(Message(a)) \in Nat /\ Words(Message(a)) > 0
         /\ NoRest(Words(Pseudo(a, Size(a))) + Words(Message(a)))
<1> DEFINE s == Sum(a)
           c == Check(a)
           pz == Pseudo(a, Size(a))
<1>1. 0 \in Word
  BY SMT DEF Word
<1>2. /\ Unsummed(a, 0) \in Seq(Byte) /\ Len(Unsummed(a, 0)) = Size(a)
      /\ Words(Unsummed(a, 0)) = Words(Before(a)) + 0 + Words(Behind(a))
  BY <1>1, UnsummedBytes
<1>3. Words(pz) \in Nat /\ Words(Before(a)) \in Nat /\ Words(Behind(a)) \in Nat
  BY PseudoBytes, BeforeBytes, BehindBytes, WordsNat
<1>4. s = Words(pz) + Words(Before(a)) + Words(Behind(a)) /\ s \in Nat
  <2>1. s = Words(pz) + Words(Unsummed(a, 0))
    BY <1>2, Zenon DEF Sum
  <2> QED
    BY <1>2, <1>3, <2>1, SMT
<1>5. c \in Word /\ NoRest(s + c)
  BY <1>4, Completed, SMT DEF Check
<1>6. Message(a) = Unsummed(a, c)
  BY SMT DEF Message, Check, Sum
<1>10. c \in Nat /\ s + c \in Nat
  BY <1>4, <1>5, SMT DEF Word
<1>7. /\ Message(a) \in Seq(Byte) /\ Len(Message(a)) = Size(a)
      /\ \A i \in 1 .. 6 : Message(a)[i] = Before(a)[i]
      /\ \A i \in 1 .. Len(Behind(a)) : Message(a)[8 + i] = Behind(a)[i]
      /\ Words(Message(a)) = Words(Before(a)) + c + Words(Behind(a))
  BY <1>5, <1>6, UnsummedBytes
<1> HIDE DEF s, c, pz
<1>8. NoRest(Words(pz) + Words(Message(a)))
  <2>1. Words(pz) + Words(Message(a)) = s + c
    <3>1. Words(Message(a)) = Words(Before(a)) + c + Words(Behind(a))
      BY <1>7, Zenon
    <3> QED
      BY <1>3, <1>4, <1>10, <3>1, SMT
  <2>2. NoRest(s + c)
    BY <1>5, SMT
  <2> QED
    BY <2>1, <2>2, Zenon
<1>9. Words(Message(a)) \in Nat /\ Words(Message(a)) > 0
  <2>1. Before(a) \in Seq(Byte) /\ Len(Before(a)) >= 1 /\ Before(a)[1] > 0
    <3>1. a.Version \in {2, 3}
      BY AdvertFields, Zenon
    <3>2. Before(a) \in Seq(Byte) /\ Len(Before(a)) = 6 /\ Before(a)[1] = 16 * a.Version + 1
      BY BeforeBytes, Zenon
    <3> QED
      BY <3>1, <3>2, SMT
  <2>2. Words(Before(a)) > 0
    BY <2>1, WordsPositive
  <2> QED
    BY <1>3, <1>7, <1>10, <2>2, SMT
<1> QED
  BY <1>3, <1>7, <1>8, <1>9, SMT DEF pz

-----------------------------------------------------------------------------
(* Parse.                                                                  *)

(* A message of a's size and version, whatever the rest of it is.  The      *)
(* number of addresses counts for the checksum of version 2 only.          *)
Headed(m, a) ==
  /\ m \in Seq(Byte) /\ Len(m) = Size(a)
  /\ m[1] = 16 * a.Version + 1 /\ (a.Version = 2 => m[4] = Len(a.VIPs))

(* The first byte gives type and version back.                             *)
LEMMA HeadVersion ==
  ASSUME NEW a \in Adverts, NEW m, m[1] = 16 * a.Version + 1
  PROVE  At(m, 0) % 16 = 1 /\ At(m, 0) \div 16 = a.Version /\ a.Version \in {2, 3}
<1>1. a.Version \in {2, 3}
  BY AdvertFields, Zenon
<1>2. At(m, 0) = m[1]
  BY SMT DEF At
<1> QED
  BY <1>1, <1>2, SMT

(* With the number of addresses, need() is the message's size.             *)
LEMMA HeadNumbers ==
  ASSUME NEW a \in Adverts, NEW m, m[1] = 16 * a.Version + 1, m[4] = Len(a.VIPs)
  PROVE  /\ At(m, 0) % 16 = 1 /\ At(m, 0) \div 16 = a.Version
         /\ a.Version \in {2, 3} /\ need(m) = Size(a) /\ At(m, 3) = Len(a.VIPs)
<1>1. a.Version \in {2, 3}
  BY AdvertFields, Zenon
<1>2. At(m, 3) = m[4]
  BY SMT DEF At
<1>3. At(m, 0) % 16 = 1 /\ At(m, 0) \div 16 = a.Version
  BY HeadVersion, Zenon
<1>4. need(m) = Size(a)
  BY <1>2, <1>3, Zenon DEF need, Size
<1> QED
  BY <1>1, <1>2, <1>3, <1>4, Zenon

(* The checksum is right when the words sum up to a multiple of 65535.     *)
LEMMA SumsIs ==
  ASSUME NEW a \in Adverts, NEW m, Headed(m, a)
  PROVE  /\ Words(m) \in Nat
         /\ Sums(m, Src, Dst) <=> NoRest(Words(Pseudo(a, Size(a))) + Words(m))
<1> DEFINE z == Pseudo(a, Size(a))
<1>1. m \in Seq(Byte) /\ Len(m) = Size(a)
  BY DEF Headed
<1>2. Size(a) \in Nat /\ Size(a) >= 8
  BY BehindBytes, AdvertCount, SMT
<1>3. /\ z \in Seq(Byte) /\ Len(z) % 2 = 0
      /\ a.Version # 2 => z = pseudoHeader(Src, Dst, Size(a))
      /\ a.Version = 2 => Words(z) = 0
  BY PseudoBytes, Zenon
<1>4. At(m, 0) \div 16 = a.Version /\ a.Version \in {2, 3}
  BY HeadVersion, Zenon DEF Headed
<1>5. Words(m) \in Nat /\ Words(m) > 0
  <2>1. Len(m) >= 1
    BY <1>1, <1>2, SMT
  <2>2. m[1] > 0
    BY <1>4, SMT DEF Headed
  <2> QED
    BY <1>1, <2>1, <2>2, WordsPositive, Zenon
<1>6. Words(z) \in Nat
  BY <1>3, WordsNat, Zenon
<1> HIDE DEF z
<1>7. CASE a.Version = 2
  <2>1. Cut(m, 0, need(m)) = m
    <3>1. need(m) = Size(a)
      BY <1>7, HeadNumbers, Zenon DEF Headed
    <3> QED
      BY <1>1, <1>2, <3>1, SMT DEF Cut
  <2>2. Sums(m, Src, Dst) <=> inetChecksum(m) = 0
    BY <1>4, <1>7, <2>1, Zenon DEF Sums
  <2>3. Words(z) + Words(m) = Words(m)
    BY <1>3, <1>5, <1>7, SMT
  <2>4. inetChecksum(m) = 0 <=> NoRest(Words(m))
    BY <1>5, ChecksumZero, SMT
  <2> QED
    BY <1>5, <2>2, <2>3, <2>4, SMT DEF z
<1>8. CASE a.Version # 2
  <2> DEFINE d == z \o m
  <2>1. Words(d) = Words(z) + Words(m)
    BY <1>1, <1>3, WordsConcat, Zenon
  <2>2. pseudoHeader(Src, Dst, Len(m)) \o m = d
    BY <1>1, <1>3, <1>8, Zenon
  <2>3. Sums(m, Src, Dst) <=> inetChecksum(d) = 0
    BY <1>4, <1>8, <2>2, Zenon DEF Sums
  <2> HIDE DEF d
  <2>4. Words(d) \in Nat /\ Words(d) > 0
    BY <1>5, <1>6, <2>1, SMT
  <2>5. inetChecksum(d) = 0 <=> NoRest(Words(d))
    BY <2>4, ChecksumZero, SMT
  <2> QED
    BY <1>5, <2>1, <2>3, <2>5, SMT DEF z
<1> QED
  BY <1>7, <1>8

(* A message that is shorter than its head says is not accepted.           *)
LEMMA ShortRefused ==
  ASSUME NEW a \in Adverts, NEW k \in Nat, k < Size(a)
  PROVE  Parse(SubSeq(Message(a), 1, k), Src, Dst) = NoAdvert
<1> DEFINE m == Message(a)
           s == SubSeq(m, 1, k)
<1>1. m \in Seq(Byte) /\ Len(m) = Size(a) /\ Size(a) \in Nat
  BY MessageBytes, BehindBytes, Zenon
<1>2. m[1] = 16 * a.Version + 1 /\ m[4] = Len(a.VIPs)
  BY MessageBytes, BeforeBytes, SMT
<1> HIDE DEF m
<1>3. Len(s) = k /\ \A i \in 1 .. k : s[i] = m[i]
  BY <1>1, SMT
<1>4. CASE k < 8
  BY <1>3, <1>4, SMT DEF Parse, Accepts
<1>5. CASE k >= 8
  <2>1. s[1] = 16 * a.Version + 1 /\ s[4] = Len(a.VIPs)
    BY <1>2, <1>3, <1>5, SMT
  <2> HIDE DEF s
  <2>2. need(s) = Size(a)
    BY <2>1, HeadNumbers, Zenon
  <2>3. ~Accepts(s, Src, Dst)
    <3>1. ~(Len(s) >= need(s))
      BY <1>1, <1>3, <2>2, SMT
    <3> QED
      BY <3>1, Zenon DEF Accepts
  <2> QED
    BY <2>3, Zenon DEF Parse, s, m
<1> QED
  BY <1>4, <1>5, SMT

(* An interval of 12 bits is read as it was written.                       *)
LEMMA IntervalInBytes ==
  ASSUME NEW w \in Nat, w < 4096
  PROVE  256 * (Hi(w) % 16) + Lo(w) = w
<1> DEFINE h == w \div 256
           l == w % 256
<1>1. h \in Nat /\ l \in Nat /\ l < 256 /\ h = w \div 256 /\ l = w % 256
  BY SMT
<1>2. Hi(w) = h /\ Lo(w) = l
  BY SMT DEF Hi, Lo
<1> HIDE DEF h, l
<1>3. w = 256 * h + l
  BY <1>1, SMT
<1>4. h % 16 = h
  BY <1>1, <1>3, SMT
<1> QED
  BY <1>2, <1>3, <1>4, SMT

(* Each address is cut out of the message as it was put in.                *)
LEMMA AddressesCut ==
  ASSUME NEW a \in Adverts
  PROVE  [i \in 1 .. Len(a.VIPs) |-> Cut(Message(a), 4 + 4 * i, 8 + 4 * i)] = a.VIPs
<1> DEFINE m == Message(a)
           L == Len(a.VIPs)
<1>1. m \in Seq(Byte) /\ Len(m) = Size(a) /\ Size(a) \in Nat /\ Size(a) >= 8 + 4 * L
  BY MessageBytes, BehindBytes, Zenon
<1>2. \A i \in 1 .. Len(Behind(a)) : m[8 + i] = Behind(a)[i]
  BY MessageBytes, Zenon
<1>3. /\ Len(Behind(a)) = Size(a) - 8
      /\ \A j \in 1 .. L : \A t \in 1 .. 4 : Behind(a)[4 * (j - 1) + t] = a.VIPs[j][t]
  BY BehindBytes, Zenon
<1>4. L \in Nat /\ a.VIPs \in Seq([1 .. 4 -> Byte])
  BY AdvertCount, AdvertFields, Zenon
<1>5. a.VIPs = [i \in 1 .. L |-> a.VIPs[i]] /\ \A i \in 1 .. L : a.VIPs[i] \in [1 .. 4 -> Byte]
  BY <1>4
<1> HIDE DEF m, L
<1>8. Len(Behind(a)) = Size(a) - 8 /\ Size(a) \in Nat /\ Size(a) >= 8 + 4 * L
  BY <1>1, <1>3, Zenon
<1>6. ASSUME NEW i \in 1 .. L
      PROVE  Cut(m, 4 + 4 * i, 8 + 4 * i) = a.VIPs[i]
  <2> DEFINE v == a.VIPs[i]
             c == Cut(m, 4 + 4 * i, 8 + 4 * i)
  <2>1. v \in [1 .. 4 -> Byte]
    BY <1>5
  <2>2. c = [t \in 1 .. 4 |-> m[4 + 4 * i + t]]
    <3> DEFINE f == 4 + 4 * i
               g == 8 + 4 * i
    <3>1. f \in Nat /\ g \in Nat /\ g - f = 4
      BY <1>4, SMT
    <3> HIDE DEF f, g
    <3>2. Cut(m, f, g) = [t \in 1 .. g - f |-> m[t + f]]
      BY <3>1, Z3 DEF Cut
    <3>3. [t \in 1 .. 4 |-> m[t + f]] = [t \in 1 .. 4 |-> m[f + t]]
      <4>1. \A t \in 1 .. 4 : t + f = f + t
        BY <3>1, SMT
      <4> QED
        BY <4>1, Zenon
    <3> QED
      BY <3>1, <3>2, <3>3, Zenon DEF f, g
  <2>3. ASSUME NEW t \in 1 .. 4
        PROVE  m[4 + 4 * i + t] = v[t]
    <3> DEFINE x == 4 * (i - 1) + t
    <3>1. x \in 1 .. Len(Behind(a)) /\ 8 + x = 4 + 4 * i + t
      BY <1>4, <1>8, SMT
    <3>2. Behind(a)[x] = v[t]
      BY <1>3, Zenon
    <3> HIDE DEF x, v
    <3> QED
      BY <1>2, <3>1, <3>2, Zenon
  <2>4. c = [t \in 1 .. 4 |-> v[t]]
    BY <2>2, <2>3, Zenon
  <2> HIDE DEF v, c
  <2>5. v = [t \in 1 .. 4 |-> v[t]]
    BY <2>1
  <2> QED
    BY <2>4, <2>5, Zenon DEF v, c
<1>7. [i \in 1 .. L |-> Cut(m, 4 + 4 * i, 8 + 4 * i)] = [i \in 1 .. L |-> a.VIPs[i]]
  BY <1>6, Zenon
<1> QED
  BY <1>5, <1>7, Zenon DEF m, L

(* What was sent is what Parse reads.                                      *)
LEMMA ParsesMessage ==
  ASSUME NEW a \in Adverts
  PROVE  Parse(Message(a), Src, Dst) = Sent(a)
<1> DEFINE m == Message(a)
<1>1. /\ m \in Seq(Byte) /\ Len(m) = Size(a)
      /\ \A i \in 1 .. 6 : m[i] = Before(a)[i]
      /\ NoRest(Words(Pseudo(a, Size(a))) + Words(m))
  BY MessageBytes, SMT
<1>2. /\ m[1] = 16 * a.Version + 1 /\ m[2] = a.VRID /\ m[3] = a.Priority
      /\ m[4] = Len(a.VIPs)
      /\ a.Version = 2 => m[6] = a.interval
      /\ a.Version # 2 => m[5] = Hi(a.interval) /\ m[6] = Lo(a.interval)
  BY <1>1, BeforeBytes, SMT
<1> HIDE DEF m
<1>3. Headed(m, a)
  BY <1>1, <1>2, Zenon DEF Headed
<1>4. Sums(m, Src, Dst)
  BY <1>1, <1>3, SumsIs, Zenon
<1>5. /\ At(m, 0) % 16 = 1 /\ At(m, 0) \div 16 = a.Version
      /\ a.Version \in {2, 3} /\ need(m) = Size(a) /\ At(m, 3) = Len(a.VIPs)
  BY <1>2, HeadNumbers, Zenon
<1>6. Size(a) \in Nat /\ Size(a) >= 8
  BY BehindBytes, AdvertCount, SMT
<1>7. Accepts(m, Src, Dst)
  <2>1. Len(m) >= 8 /\ Len(m) >= need(m)
    BY <1>1, <1>5, <1>6, SMT
  <2> QED
    BY <1>4, <1>5, <2>1, Zenon DEF Accepts
<1>8. At(m, 1) = a.VRID /\ At(m, 2) = a.Priority
  BY <1>2, SMT DEF At
<1>9. Interval(m) = IF a.Version = 2 THEN 1000 * a.interval ELSE 10 * a.interval
  <2>1. At(m, 4) = m[5] /\ At(m, 5) = m[6]
    BY SMT DEF At
  <2>2. CASE a.Version = 2
    BY <1>2, <1>5, <2>1, <2>2, SMT DEF Interval
  <2>3. CASE a.Version # 2
    <3>1. 256 * (Hi(a.interval) % 16) + Lo(a.interval) = a.interval
      BY AdvertInterval, IntervalInBytes, SMT
    <3> QED
      BY <1>2, <1>5, <2>1, <2>3, <3>1, SMT DEF Interval
  <2> QED
    BY <2>2, <2>3
<1>10. [i \in 1 .. At(m, 3) |-> Cut(m, 4 + 4 * i, 8 + 4 * i)] = a.VIPs
  BY <1>5, AddressesCut, Zenon DEF m
<1> QED
  BY <1>5, <1>7, <1>8, <1>9, <1>10, SMT DEF Parse, Sent, m

(* A byte that is off by less than 256 takes the sum off the multiples.    *)
LEMMA DamageShows ==
  ASSUME NEW y \in Byte, NEW d \in Byte \ {0}, NEW s \in Nat, NoRest(s),
         NEW e, e = 256 * (((y + d) % 256) - y) \/ e = ((y + d) % 256) - y
  PROVE  ~NoRest(s + e)
<1> DEFINE x == (y + d) % 256
<1>1. y \in Nat /\ y < 256 /\ d \in Nat /\ d < 256 /\ d # 0
  BY BytesAreNumbers
<1>2. x \in Nat /\ x < 256 /\ x # y
  BY <1>1, SMT
<1>3. e = 256 * (x - y) \/ e = x - y
  OBVIOUS
<1> HIDE DEF x
<1>4. e \in Int /\ e # 0 /\ e < 65535 /\ -65535 < e
  BY <1>1, <1>2, <1>3, SMT
<1>5. s % 65535 = 0
  BY SMT DEF NoRest
<1> QED
  BY <1>4, <1>5, SMT DEF NoRest

(* A message with such a byte wrong fails its checksum.                    *)
LEMMA DamageRefused ==
  ASSUME NEW a \in Adverts, NEW j \in 1 .. Size(a), NEW d \in Deltas,
         j # 1, j = 4 => a.Version = 3
  PROVE  Parse([Message(a) EXCEPT ![j] = (@ + d) % 256], Src, Dst) = NoAdvert
<1> DEFINE m == Message(a)
           x == (m[j] + d) % 256
           t == [m EXCEPT ![j] = x]
           z == Pseudo(a, Size(a))
<1>1. /\ m \in Seq(Byte) /\ Len(m) = Size(a)
      /\ \A i \in 1 .. 6 : m[i] = Before(a)[i]
      /\ Words(z) \in Nat /\ Words(m) \in Nat /\ NoRest(Words(z) + Words(m))
  BY MessageBytes, Zenon
<1>2. m[1] = 16 * a.Version + 1 /\ m[4] = Len(a.VIPs)
  BY <1>1, BeforeBytes, SMT
<1> HIDE DEF m, z
<1>3. d \in Byte \ {0}
  BY PacketAssumption, Zenon
<1>4. m[j] \in Byte /\ x \in Byte /\ Size(a) \in Nat /\ Size(a) >= 8
  <2>1. m[j] \in Byte
    BY <1>1
  <2>2. Size(a) \in Nat /\ Size(a) >= 8
    BY BehindBytes, AdvertCount, SMT
  <2>3. \A v \in Byte : (m[j] + v) % 256 \in Byte
    <3>1. \A u, v \in Nat : (u + v) % 256 \in Nat /\ (u + v) % 256 < 256
      BY SMT
    <3> QED
      BY <2>1, <3>1, BytesAreNumbers, ZenonT(40)
  <2> QED
    BY <1>3, <2>1, <2>2, <2>3, Zenon
<1>5. Words(t) = Words(m) + (IF j % 2 = 1 THEN 256 * (x - m[j]) ELSE x - m[j])
  <2>1. j \in 1 .. Len(m)
    BY <1>1, Zenon
  <2> HIDE DEF x
  <2> QED
    BY <1>1, <1>4, <2>1, WordsChanged, Zenon
<1>6. Headed(t, a)
  <2> HIDE DEF x
  <2>1. t \in Seq(Byte) /\ Len(t) = Len(m)
    BY <1>1, <1>4
  <2>2. t[1] = m[1] /\ (a.Version = 2 => t[4] = m[4])
    BY <1>1, <1>4, SMT
  <2> HIDE DEF t
  <2> QED
    BY <1>1, <1>2, <2>1, <2>2, Zenon DEF Headed
<1> DEFINE e == IF j % 2 = 1 THEN 256 * (x - m[j]) ELSE x - m[j]
<1>7. e = 256 * (x - m[j]) \/ e = x - m[j]
  BY Zenon
<1> HIDE DEF t
<1>8. Words(t) \in Nat
  BY <1>6, SumsIs, Zenon
<1>9. ~NoRest((Words(z) + Words(m)) + e)
  <2>1. Words(z) + Words(m) \in Nat
    BY <1>1, SMT
  <2> HIDE DEF e
  <2> QED
    <3>1. m[j] \in Byte /\ d \in Byte \ {0} /\ NoRest(Words(z) + Words(m))
      BY <1>1, <1>3, <1>4, Zenon
    <3>2. e = 256 * (((m[j] + d) % 256) - m[j]) \/ e = ((m[j] + d) % 256) - m[j]
      BY <1>7, Zenon
    <3> QED
      BY <2>1, <3>1, <3>2, DamageShows, ZenonT(40)
<1>10. Words(z) + Words(t) = (Words(z) + Words(m)) + e
  <2>1. e \in Int
    <3>1. m[j] \in Nat /\ x \in Nat
      BY <1>4, BytesAreNumbers, Zenon
    <3> HIDE DEF x
    <3> QED
      BY <1>7, <3>1, SMT
  <2>2. Words(t) = Words(m) + e
    BY <1>5, Zenon
  <2> HIDE DEF e
  <2> QED
    BY <1>1, <2>1, <2>2, SMT
<1>11. ~Sums(t, Src, Dst)
  BY <1>6, <1>9, <1>10, SumsIs, Zenon DEF z
<1> QED
  BY <1>11, Zenon DEF Parse, Accepts, t, m

-----------------------------------------------------------------------------
(* The IP header, and the frame read through it.                           *)

(* Lengths of the options in a header. *)
Opts == {0, 4}

(* The bytes of the IP header that Listen reads.                           *)
LEMMA HeaderBytes ==
  ASSUME NEW proto \in Byte, NEW opts \in Opts, NEW len \in Word
  PROVE  LET h == Header(proto, opts, len)
         IN  /\ h \in Seq(Byte) /\ Len(h) = 20 + opts
             /\ h[1] = 69 + opts \div 4 /\ h[3] = Hi(len) /\ h[4] = Lo(len) /\ h[10] = proto
             /\ \A i \in 1 .. 4 : h[12 + i] = Src[i] /\ h[16 + i] = Dst[i]
<1> DEFINE f == <<64 + 5 + opts \div 4, 0, Hi(len), Lo(len), 0, 0, 0, 0, 255, proto, 0, 0>>
           z == Zeros(opts)
           fs == f \o Src
           fd == fs \o Dst
           h == Header(proto, opts, len)
<1>1. opts \in {0, 4}
  BY DEF Opts
<1>2. 64 + 5 + opts \div 4 = 69 + opts \div 4 /\ 69 + opts \div 4 \in Byte
  BY <1>1, BytesAreNumbers, SMT
<1>3. Hi(len) \in Byte /\ Lo(len) \in Byte
  BY WordInBytes, Zenon
<1>4. 0 \in Byte /\ 255 \in Byte
  BY BytesAreNumbers, SMT
<1>5. /\ f \in Seq(Byte) /\ Len(f) = 12
      /\ f[1] = 69 + opts \div 4 /\ f[3] = Hi(len) /\ f[4] = Lo(len) /\ f[10] = proto
  BY <1>2, <1>3, <1>4, SMT
<1>6. z \in Seq(Byte) /\ Len(z) = opts
  BY <1>1, <1>4, SMT DEF Zeros
<1>7. Src \in Seq(Byte) /\ Dst \in Seq(Byte) /\ Len(Src) = 4 /\ Len(Dst) = 4
  BY PacketAssumption, Zenon
<1>8. h = fd \o z
  BY Zenon DEF Header
<1> HIDE DEF f, z, h
<1>9. /\ fs \in Seq(Byte) /\ Len(fs) = Len(f) + Len(Src)
      /\ \A i \in 1 .. Len(f) : fs[i] = f[i]
      /\ \A i \in 1 .. Len(Src) : fs[Len(f) + i] = Src[i]
  BY <1>5, <1>7, ConcatBytes
<1> HIDE DEF fs
<1>10. /\ fd \in Seq(Byte) /\ Len(fd) = Len(fs) + Len(Dst)
       /\ \A i \in 1 .. Len(fs) : fd[i] = fs[i]
       /\ \A i \in 1 .. Len(Dst) : fd[Len(fs) + i] = Dst[i]
  BY <1>7, <1>9, ConcatBytes
<1> HIDE DEF fd
<1>11. /\ h \in Seq(Byte) /\ Len(h) = Len(fd) + Len(z)
       /\ \A i \in 1 .. Len(fd) : h[i] = fd[i]
  BY <1>6, <1>8, <1>10, ConcatBytes
<1>12. Len(f) = 12 /\ Len(fs) = 16 /\ Len(fd) = 20 /\ Len(h) = 20 + opts
  BY <1>5, <1>6, <1>7, <1>9, <1>10, <1>11, SMT
<1>13. \A i \in 1 .. 12 : h[i] = f[i]
  <2>1. \A i \in 1 .. 12 : i \in 1 .. 16 /\ i \in 1 .. 20
    OBVIOUS
  <2> QED
    BY <1>9, <1>10, <1>11, <1>12, <2>1, ZenonT(40)
<1>14. h[1] = f[1] /\ h[3] = f[3] /\ h[4] = f[4] /\ h[10] = f[10]
  BY <1>13, SMT
<1>15. ASSUME NEW i \in 1 .. 4
       PROVE  h[12 + i] = Src[i] /\ h[16 + i] = Dst[i]
  <2>1. 12 + i \in 1 .. 16 /\ 12 + i \in 1 .. 20 /\ 16 + i \in 1 .. 20
    OBVIOUS
  <2>2. h[12 + i] = fd[12 + i] /\ h[16 + i] = fd[16 + i] /\ fd[12 + i] = fs[12 + i]
    BY <1>10, <1>11, <1>12, <2>1
  <2>3. fs[12 + i] = Src[i] /\ fd[16 + i] = Dst[i]
    BY <1>7, <1>9, <1>10, <1>12
  <2> QED
    BY <2>2, <2>3
<1> QED
  BY <1>5, <1>11, <1>12, <1>14, <1>15, SMT DEF h

(* The packet of a message m, which need not be the one that was sent. *)
Carrying(proto, opts, m) == Header(proto, opts, 20 + opts + Len(m)) \o m

(* The same bytes at the start of the packet, and the message behind them. *)
LEMMA PacketBytes ==
  ASSUME NEW proto \in Byte, NEW opts \in Opts, NEW m \in Seq(Byte),
         20 + opts + Len(m) \in Word
  PROVE  LET p == Carrying(proto, opts, m)
         IN  /\ p \in Seq(Byte) /\ Len(p) = 20 + opts + Len(m)
             /\ p[1] = 69 + opts \div 4 /\ p[3] = Hi(Len(p)) /\ p[4] = Lo(Len(p))
             /\ p[10] = proto
             /\ \A i \in 1 .. 4 : p[12 + i] = Src[i] /\ p[16 + i] = Dst[i]
             /\ \A i \in 1 .. Len(m) : p[20 + opts + i] = m[i]
<1> DEFINE l == 20 + opts + Len(m)
           h == Header(proto, opts, l)
           p == Carrying(proto, opts, m)
<1>1. /\ h \in Seq(Byte) /\ Len(h) = 20 + opts
      /\ h[1] = 69 + opts \div 4 /\ h[3] = Hi(l) /\ h[4] = Lo(l) /\ h[10] = proto
      /\ \A i \in 1 .. 4 : h[12 + i] = Src[i] /\ h[16 + i] = Dst[i]
  <2>1. l \in Word
    OBVIOUS
  <2> HIDE DEF l
  <2> QED
    BY <2>1, HeaderBytes
<1>2. opts \in {0, 4}
  BY DEF Opts
<1>3. p = h \o m
  BY Zenon DEF Carrying
<1> HIDE DEF h, p
<1>4. /\ p \in Seq(Byte) /\ Len(p) = Len(h) + Len(m)
      /\ \A i \in 1 .. Len(h) : p[i] = h[i]
      /\ \A i \in 1 .. Len(m) : p[Len(h) + i] = m[i]
  BY <1>1, <1>3, ConcatBytes
<1>5. Len(p) = l
  BY <1>1, <1>4, Zenon
<1> HIDE DEF l
<1>6. \A i \in 1 .. 20 : p[i] = h[i]
  <2>1. \A i \in 1 .. 20 : i \in 1 .. Len(h)
    BY <1>1, <1>2, SMT
  <2> QED
    BY <1>4, <2>1, Zenon
<1>7. p[1] = h[1] /\ p[3] = h[3] /\ p[4] = h[4] /\ p[10] = h[10]
  BY <1>6, SMT
<1>8. \A i \in 1 .. 4 : p[12 + i] = Src[i] /\ p[16 + i] = Dst[i]
  <2>1. \A i \in 1 .. 4 : 12 + i \in 1 .. 20 /\ 16 + i \in 1 .. 20
    OBVIOUS
  <2> QED
    BY <1>1, <1>6, <2>1, Zenon
<1>9. \A i \in 1 .. Len(m) : p[20 + opts + i] = m[i]
  BY <1>1, <1>4, Zenon
<1> QED
  BY <1>1, <1>4, <1>5, <1>7, <1>8, <1>9, Zenon DEF l, p

(* Whatever the buffer holds beyond it, a packet is read as far as the     *)
(* frame goes and not further than the packet says.                        *)
LEMMA HeardPacket ==
  ASSUME NEW proto \in Byte, NEW opts \in Opts, NEW m \in Seq(Byte),
         20 + opts + Len(m) \in Word,
         NEW n \in 0 .. BufLen, NEW b \in [1 .. BufLen -> Byte],
         NEW e, e = Lesser(20 + opts + Len(m), n),
         \A i \in 1 .. e : b[i] = Carrying(proto, opts, m)[i]
  PROVE  Heard(b, n) = IF n >= 20 + opts /\ proto = IPProtoVRRP
                       THEN Parse(SubSeq(m, 1, e - (20 + opts)), Src, Dst)
                       ELSE NoAdvert
<1> DEFINE p == Carrying(proto, opts, m)
           h == 20 + opts
<1>1. opts \in {0, 4} /\ h \in {20, 24}
  BY SMT DEF Opts
<1>2. /\ p \in Seq(Byte) /\ Len(p) = h + Len(m)
      /\ p[1] = 69 + opts \div 4 /\ p[3] = Hi(Len(p)) /\ p[4] = Lo(Len(p))
      /\ p[10] = proto
      /\ \A i \in 1 .. 4 : p[12 + i] = Src[i] /\ p[16 + i] = Dst[i]
      /\ \A i \in 1 .. Len(m) : p[h + i] = m[i]
  BY PacketBytes, ZenonT(60)
<1>3. n \in Nat /\ n <= BufLen /\ BufLen \in Nat /\ Len(m) \in Nat
  BY PacketAssumption, SMT
<1>4. 256 * Hi(Len(p)) + Lo(Len(p)) = Len(p)
  <2>1. Len(p) \in Word
    BY <1>2, Zenon
  <2> QED
    BY <2>1, WordInBytes, Zenon
<1>5. e \in Nat /\ e <= n /\ e <= Len(p) /\ (e = n \/ e = Len(p)) /\ e = Lesser(Len(p), n)
  <2>1. e = Lesser(Len(p), n)
    BY <1>2, Zenon
  <2>2. Len(p) \in Nat
    BY <1>1, <1>2, <1>3, SMT
  <2> HIDE DEF p
  <2> QED
    BY <1>3, <2>1, <2>2, SMT DEF Lesser
<1>6. \A i \in 1 .. e : b[i] = p[i]
  OBVIOUS
<1>10. Len(p) = h + Len(m)
  BY <1>2, Zenon
<1>7. Src \in Seq(Byte) /\ Dst \in Seq(Byte) /\ Len(Src) = 4 /\ Len(Dst) = 4
  BY PacketAssumption, Zenon
<1> HIDE DEF p, h
<1>8. CASE n < 20
  <2>1. ~(n >= 20) /\ ~(n >= h)
    BY <1>1, <1>3, <1>8, SMT
  <2> QED
    BY <2>1, Zenon DEF Heard, h
<1>9. CASE n >= 20
  <2>1. e >= 20
    BY <1>1, <1>3, <1>5, <1>9, <1>10, SMT
  <2>2. b[1] = p[1] /\ b[3] = p[3] /\ b[4] = p[4] /\ b[10] = p[10]
    BY <1>5, <1>6, <2>1, SMT
  <2>3. At(b, 0) = 69 + opts \div 4 /\ At(b, 2) = Hi(Len(p)) /\ At(b, 3) = Lo(Len(p))
        /\ At(b, 9) = proto
    BY <1>2, <2>2, SMT DEF At
  <2>4. TotLen(b, n) = e
    BY <1>4, <1>5, <2>3, Zenon DEF TotLen
  <2>5. IHL(b) = h /\ At(b, 0) \div 16 = 4
    <3>1. CASE opts = 0
      <4>1. At(b, 0) = 69 /\ h = 20
        BY <2>3, <3>1, SMT DEF h
      <4> QED
        BY <4>1, SMT DEF IHL
    <3>2. CASE opts = 4
      <4>1. At(b, 0) = 70 /\ h = 24
        BY <2>3, <3>2, SMT DEF h
      <4> QED
        BY <4>1, SMT DEF IHL
    <3> QED
      BY <1>1, <3>1, <3>2
  <2>6. Cut(b, 12, 16) = Src /\ Cut(b, 16, 20) = Dst
    <3>1. \A i \in 1 .. 4 : b[12 + i] = Src[i] /\ b[16 + i] = Dst[i]
      <4>1. \A i \in 1 .. 4 : 12 + i \in 1 .. e /\ 16 + i \in 1 .. e
        BY <1>5, <2>1, SMT
      <4> QED
        BY <1>2, <1>6, <4>1, Zenon
    <3>2. /\ Cut(b, 12, 16) = [i \in 1 .. 4 |-> b[12 + i]]
          /\ Cut(b, 16, 20) = [i \in 1 .. 4 |-> b[16 + i]]
      BY SMT DEF Cut
    <3>3. Src = [i \in 1 .. 4 |-> Src[i]] /\ Dst = [i \in 1 .. 4 |-> Dst[i]]
      BY <1>7
    <3>4. /\ [i \in 1 .. 4 |-> b[12 + i]] = [i \in 1 .. 4 |-> Src[i]]
          /\ [i \in 1 .. 4 |-> b[16 + i]] = [i \in 1 .. 4 |-> Dst[i]]
      BY <3>1, Zenon
    <3> QED
      BY <3>2, <3>3, <3>4, Zenon
  <2>7. CASE ~(n >= h)
    <3>1. ~(TotLen(b, n) >= IHL(b))
      BY <1>1, <1>3, <1>5, <2>4, <2>5, <2>7, SMT
    <3> QED
      BY <2>7, <3>1, Zenon DEF Heard, h
  <2>8. CASE proto # IPProtoVRRP
    BY <2>3, <2>8, Zenon DEF Heard
  <2>9. CASE n >= h /\ proto = IPProtoVRRP
    <3>1. TotLen(b, n) >= IHL(b) /\ e >= h
      BY <1>1, <1>3, <1>5, <1>10, <2>4, <2>5, <2>9, SMT
    <3>2. Heard(b, n) = Parse(Cut(b, h, e), Src, Dst)
      BY <1>9, <2>3, <2>4, <2>5, <2>6, <2>9, <3>1, Zenon DEF Heard
    <3>3. Cut(b, h, e) = SubSeq(m, 1, e - h)
      <4> DEFINE k == e - h
      <4>1. k \in Nat /\ k <= Len(m) /\ h \in Nat /\ e - (h + 1) + 1 = k
        BY <1>1, <1>3, <1>5, <1>10, <3>1, SMTT(30)
      <4>2. Cut(b, h, e) = [i \in 1 .. k |-> b[h + i]]
        <5>1. Cut(b, h, e) = [i \in 1 .. e - h |-> b[i + h]]
          BY <1>5, <4>1, Z3 DEF Cut
        <5>2. \A i \in 1 .. k : i + h = h + i
          BY <4>1, SMT
        <5>3. [i \in 1 .. k |-> b[i + h]] = [i \in 1 .. k |-> b[h + i]]
          BY <5>2, Zenon
        <5> QED
          BY <5>1, <5>3, Zenon
      <4>3. SubSeq(m, 1, k) = [i \in 1 .. k |-> m[i]]
        BY <4>1, SMT
      <4>4. \A i \in 1 .. k : b[h + i] = m[i]
        <5>1. \A i \in 1 .. k : h + i \in 1 .. e /\ i \in 1 .. Len(m)
          BY <1>1, <1>3, <1>5, <1>10, <4>1, SMTT(30)
        <5> HIDE DEF k
        <5> QED
          BY <1>2, <1>6, <5>1, Zenon
      <4> HIDE DEF k
      <4>5. [i \in 1 .. k |-> b[h + i]] = [i \in 1 .. k |-> m[i]]
        BY <4>4, Zenon
      <4> QED
        BY <4>2, <4>3, <4>5, Zenon DEF k
    <3> QED
      BY <2>9, <3>2, <3>3, Zenon DEF h
  <2> QED
    BY <2>7, <2>8, <2>9, Zenon
<1> QED
  BY <1>3, <1>8, <1>9, SMT

(* What a round of the loop leaves behind.                                 *)
LEMMA ReceivedFrame ==
  ASSUME NEW bytes, NEW x, PacketTypeInv, Receive(Frame(bytes, x))
  PROVE  /\ bytes \in Seq(Byte) /\ Len(bytes) \in 0 .. BufLen
         /\ buf' \in [1 .. BufLen -> Byte] /\ \A i \in 1 .. Len(bytes) : buf'[i] = bytes[i]
         /\ seen' = Heard(buf', Len(bytes)) /\ frame'.advert = x
<1> DEFINE f == Frame(bytes, x)
<1>1. f.bytes = bytes /\ f.advert = x
  BY DEF Frame
<1> HIDE DEF f
<1>2. /\ bytes \in Seq(Byte) /\ Len(bytes) <= BufLen /\ frame' = f
      /\ buf' = Recvfrom(buf, bytes) /\ seen' = Heard(buf', Len(bytes))
  BY <1>1, Zenon DEF Receive, f
<1>3. buf \in [1 .. BufLen -> Byte]
  BY Zenon DEF PacketTypeInv
<1>4. Len(bytes) \in 0 .. BufLen
  BY <1>2, PacketAssumption
<1> QED
  BY <1>1, <1>2, <1>3, <1>4, RecvfromType, Zenon

(* Padding changes no byte of the packet.                                  *)
LEMMA PaddedBytes ==
  ASSUME NEW p \in Seq(Byte)
  PROVE  Len(Padded(p)) \in Nat /\ Len(Padded(p)) >= Len(p)
         /\ \A i \in 1 .. Len(p) : Padded(p)[i] = p[i]
<1> DEFINE k == IF Len(p) < MinFrame THEN MinFrame - Len(p) ELSE 0
           z == Zeros(k)
<1>1. k \in Nat /\ Len(p) \in Nat
  BY PacketAssumption, SMT
<1>2. 0 \in Byte
  BY BytesAreNumbers
<1>3. Padded(p) = p \o z
  BY Zenon DEF Padded
<1> HIDE DEF k
<1>4. z \in Seq(Byte) /\ Len(z) = k
  BY <1>1, <1>2 DEF Zeros
<1> HIDE DEF z
<1>5. /\ p \o z \in Seq(Byte) /\ Len(p \o z) = Len(p) + Len(z)
      /\ \A i \in 1 .. Len(p) : (p \o z)[i] = p[i]
  BY <1>4, ConcatBytes
<1>6. Len(p) + Len(z) \in Nat /\ Len(p) + Len(z) >= Len(p)
  BY <1>1, <1>4, SMT
<1> QED
  BY <1>3, <1>5, <1>6, Zenon

(* The padding after a packet is not read.                                 *)
LEMMA PaddedHeard ==
  ASSUME NEW proto \in Byte, NEW opts \in Opts, NEW m \in Seq(Byte), NEW x,
         20 + opts + Len(m) \in Word, PacketTypeInv,
         Receive(Frame(Padded(Carrying(proto, opts, m)), x))
  PROVE  /\ seen' = IF proto = IPProtoVRRP THEN Parse(m, Src, Dst) ELSE NoAdvert
         /\ frame'.advert = x
<1> DEFINE p == Carrying(proto, opts, m)
           bytes == Padded(p)
           n == Len(bytes)
           l == 20 + opts + Len(m)
<1>1. p \in Seq(Byte) /\ Len(p) = l
  BY PacketBytes
<1>2. opts \in {0, 4} /\ Len(m) \in Nat
  BY DEF Opts
<1>3. n \in Nat /\ n >= l /\ \A i \in 1 .. l : bytes[i] = p[i]
  BY <1>1, PaddedBytes
<1>4. /\ n \in 0 .. BufLen
      /\ buf' \in [1 .. BufLen -> Byte] /\ \A i \in 1 .. n : buf'[i] = bytes[i]
      /\ seen' = Heard(buf', n) /\ frame'.advert = x
  BY ReceivedFrame, Zenon
<1> HIDE DEF p, bytes, n
<1>5. l \in Nat /\ l - (20 + opts) = Len(m) /\ l >= 20 + opts
  BY <1>2, SMT
<1>6. l = Lesser(l, n)
  BY <1>3, <1>5, SMT DEF Lesser
<1>7. \A i \in 1 .. l : buf'[i] = p[i]
  <2>1. \A i \in 1 .. l : i \in 1 .. n
    BY <1>3, <1>5, SMT
  <2> QED
    BY <1>3, <1>4, <2>1, Zenon
<1>8. n >= 20 + opts
  BY <1>2, <1>3, <1>5, SMT
<1>9. SubSeq(m, 1, l - (20 + opts)) = m
  BY <1>5
<1>10. Heard(buf', n) = IF n >= 20 + opts /\ proto = IPProtoVRRP
                        THEN Parse(SubSeq(m, 1, l - (20 + opts)), Src, Dst)
                        ELSE NoAdvert
  <2> HIDE DEF l
  <2>1. l = Lesser(20 + opts + Len(m), n)
    BY <1>6, Zenon DEF l
  <2>2. \A i \in 1 .. l : buf'[i] = Carrying(proto, opts, m)[i]
    BY <1>7, Zenon DEF p
  <2> QED
    BY <1>4, <2>1, <2>2, HeardPacket, ZenonT(60)
<1> QED
  BY <1>4, <1>8, <1>9, <1>10, Zenon

(* A packet with an advert is shorter than 64 KiB.                         *)
LEMMA FrameSize ==
  ASSUME NEW a \in Adverts, NEW opts \in Opts
  PROVE  20 + opts + Size(a) \in Word
<1> DEFINE L == Len(a.VIPs)
           A == IF a.Version = 2 THEN 8 ELSE 0
<1>1. L \in Nat /\ L < 256
  BY AdvertCount, Zenon
<1>2. A \in {0, 8} /\ Size(a) = 8 + 4 * L + A
  BY Zenon DEF Size
<1>3. opts \in {0, 4}
  BY DEF Opts
<1> HIDE DEF L, A
<1> QED
  BY <1>1, <1>2, <1>3, SMT DEF Word

(* The packet of an advert carries its message.                            *)
LEMMA PacketCarries ==
  ASSUME NEW a \in Adverts, NEW opts \in Options
  PROVE  /\ Packet(a, opts) = Carrying(IPProtoVRRP, opts, Message(a))
         /\ Message(a) \in Seq(Byte) /\ Len(Message(a)) = Size(a)
         /\ 20 + opts + Len(Message(a)) \in Word /\ IPProtoVRRP \in Byte /\ opts \in Opts
<1>1. Packet(a, opts) = Carrying(IPProtoVRRP, opts, Message(a))
  BY Zenon DEF Packet, Carrying
<1>2. Message(a) \in Seq(Byte) /\ Len(Message(a)) = Size(a)
  BY MessageBytes, Zenon
<1>3. IPProtoVRRP \in Byte
  BY BytesAreNumbers, SMT DEF IPProtoVRRP
<1>4. opts \in Opts
  BY PacketAssumption, Zenon DEF Opts
<1> QED
  BY <1>1, <1>2, <1>3, <1>4, FrameSize, Zenon

(* A whole advert is observed as sent.                                     *)
LEMMA WholeHeard ==
  ASSUME PacketTypeInv, ReceiveWhole
  PROVE  ExactlyWholeHeard'
<1>1. PICK a \in Adverts, opts \in Options : Receive(Frame(Padded(Packet(a, opts)), a))
  BY Zenon DEF ReceiveWhole
<1>2. Receive(Frame(Padded(Carrying(IPProtoVRRP, opts, Message(a))), a))
  BY <1>1, PacketCarries, Zenon
<1>3. seen' = Parse(Message(a), Src, Dst) /\ frame'.advert = a
  BY <1>2, PacketCarries, PaddedHeard, Zenon
<1>4. a # NoAdvert
  BY PacketAssumption, Zenon
<1>5. seen' = Sent(frame'.advert) /\ frame'.advert # NoAdvert
  BY <1>3, <1>4, ParsesMessage, Zenon
<1> QED
  BY <1>5, Zenon DEF ExactlyWholeHeard, Sent

(* A packet that is cut anywhere is not observed.                          *)
LEMMA CutHeard ==
  ASSUME PacketTypeInv, ReceiveCut
  PROVE  ExactlyWholeHeard'
<1>1. PICK a \in Adverts, opts \in Options : \E k \in 0 .. Len(Packet(a, opts)) - 1 :
        Receive(Frame(SubSeq(Packet(a, opts), 1, k), NoAdvert))
  BY Zenon DEF ReceiveCut
<1>14. PICK k \in 0 .. Len(Packet(a, opts)) - 1 :
         Receive(Frame(SubSeq(Packet(a, opts), 1, k), NoAdvert))
  BY <1>1, Zenon
<1> DEFINE m == Message(a)
           p == Carrying(IPProtoVRRP, opts, m)
           l == 20 + opts + Len(m)
           bytes == SubSeq(p, 1, k)
<1>2. /\ Packet(a, opts) = p /\ m \in Seq(Byte) /\ Len(m) = Size(a)
      /\ l \in Word /\ IPProtoVRRP \in Byte /\ opts \in Opts
  BY PacketCarries, Zenon
<1>3. p \in Seq(Byte) /\ Len(p) = l
  BY <1>2, PacketBytes, ZenonT(60)
<1>4. opts \in {0, 4} /\ Len(m) \in Nat
  BY <1>2 DEF Opts
<1> HIDE DEF m, p
<1>5. l \in Nat /\ k \in Nat /\ k < l
  BY <1>14, <1>2, <1>3, <1>4, SMT
<1>6. Len(bytes) = k /\ \A i \in 1 .. k : bytes[i] = p[i]
  BY <1>3, <1>5, SMT
<1>7. Receive(Frame(bytes, NoAdvert))
  BY <1>14, <1>2, Zenon
<1> HIDE DEF bytes
<1>8. /\ Len(bytes) \in 0 .. BufLen
      /\ buf' \in [1 .. BufLen -> Byte] /\ \A i \in 1 .. Len(bytes) : buf'[i] = bytes[i]
      /\ seen' = Heard(buf', Len(bytes)) /\ frame'.advert = NoAdvert
  BY <1>7, ReceivedFrame, Zenon
<1>9. k = Lesser(l, k)
  BY <1>5, SMT DEF Lesser
<1>10. k \in 0 .. BufLen /\ \A i \in 1 .. k : buf'[i] = Carrying(IPProtoVRRP, opts, m)[i]
  BY <1>6, <1>8, Zenon DEF p
<1>11. Heard(buf', k) = IF k >= 20 + opts /\ IPProtoVRRP = IPProtoVRRP
                        THEN Parse(SubSeq(m, 1, k - (20 + opts)), Src, Dst)
                        ELSE NoAdvert
  BY <1>2, <1>8, <1>9, <1>10, HeardPacket, Zenon
<1>12. k >= 20 + opts => Parse(SubSeq(m, 1, k - (20 + opts)), Src, Dst) = NoAdvert
  <2> SUFFICES ASSUME k >= 20 + opts
               PROVE  Parse(SubSeq(m, 1, k - (20 + opts)), Src, Dst) = NoAdvert
    OBVIOUS
  <2> DEFINE j == k - (20 + opts)
  <2>1. j \in Nat /\ j < Size(a)
    BY <1>2, <1>4, <1>5, SMT
  <2> HIDE DEF j
  <2>2. Parse(SubSeq(Message(a), 1, j), Src, Dst) = NoAdvert
    BY <2>1, ShortRefused, Zenon
  <2> QED
    BY <2>2, Zenon DEF j, m
<1>13. seen' = NoAdvert
  BY <1>6, <1>8, <1>11, <1>12, Zenon
<1> QED
  BY <1>8, <1>13, Zenon DEF ExactlyWholeHeard

(* Neither is a TCP segment nor another version of IP.                     *)
LEMMA OtherHeard ==
  ASSUME PacketTypeInv, ReceiveOther
  PROVE  ExactlyWholeHeard'
<1>1. PICK a \in Adverts :
        \/ Receive(Frame(Padded(Header(6, 0, 20 + Len(Message(a))) \o Message(a)), NoAdvert))
        \/ Receive(Frame(Padded([Packet(a, 0) EXCEPT ![1] = 96]), NoAdvert))
  BY Zenon DEF ReceiveOther
<1> DEFINE m == Message(a)
<1>2. m \in Seq(Byte) /\ Len(m) = Size(a) /\ Size(a) \in Nat
  BY MessageBytes, BehindBytes, Zenon
<1>3. 20 + 0 + Len(m) \in Word /\ 20 + Len(m) = 20 + 0 + Len(m)
  <2>1. 20 + 0 + Size(a) \in Word
    BY FrameSize, Zenon DEF Opts
  <2>2. 20 + Len(m) = 20 + 0 + Len(m)
    BY <1>2, SMT
  <2> QED
    BY <1>2, <2>1, <2>2, Zenon
<1>4. 6 \in Byte /\ IPProtoVRRP \in Byte /\ 6 # IPProtoVRRP /\ 0 \in Opts /\ 96 \in Byte
  BY BytesAreNumbers, SMT DEF IPProtoVRRP, Opts
<1> HIDE DEF m
<1>5. CASE Receive(Frame(Padded(Header(6, 0, 20 + Len(m)) \o m), NoAdvert))
  <2>1. Header(6, 0, 20 + Len(m)) \o m = Carrying(6, 0, m)
    BY <1>3, Zenon DEF Carrying
  <2>2. Receive(Frame(Padded(Carrying(6, 0, m)), NoAdvert))
    BY <1>5, <2>1, Zenon
  <2>3. /\ seen' = IF 6 = IPProtoVRRP THEN Parse(m, Src, Dst) ELSE NoAdvert
        /\ frame'.advert = NoAdvert
    BY <1>2, <1>3, <1>4, <2>2, PaddedHeard, Zenon
  <2> QED
    BY <1>4, <2>3, Zenon DEF ExactlyWholeHeard
<1>6. CASE Receive(Frame(Padded([Packet(a, 0) EXCEPT ![1] = 96]), NoAdvert))
  <2> DEFINE p == Carrying(IPProtoVRRP, 0, m)
             six == [p EXCEPT ![1] = 96]
             bytes == Padded(six)
             n == Len(bytes)
  <2>1. Packet(a, 0) = p
    BY Zenon DEF Packet, Carrying, m
  <2>2. p \in Seq(Byte) /\ Len(p) = 20 + 0 + Len(m)
    BY <1>2, <1>3, <1>4, PacketBytes
  <2> HIDE DEF p
  <2>3. Len(p) >= 1
    BY <1>2, <2>2, SMT
  <2>4. six \in Seq(Byte) /\ 1 \in 1 .. Len(six) /\ six[1] = 96
    BY <1>4, <2>2, <2>3
  <2> HIDE DEF six
  <2>5. n \in Nat /\ n >= Len(six) /\ bytes[1] = 96
    BY <2>4, PaddedBytes
  <2>6. Receive(Frame(bytes, NoAdvert))
    BY <1>6, <2>1, Zenon DEF six
  <2> HIDE DEF bytes
  <2>7. /\ \A i \in 1 .. n : buf'[i] = bytes[i]
        /\ seen' = Heard(buf', n) /\ frame'.advert = NoAdvert
    BY <2>6, ReceivedFrame, Zenon
  <2>8. 1 \in 1 .. n
    BY <2>4, <2>5, SMT
  <2>9. At(buf', 0) \div 16 # 4
    <3>1. At(buf', 0) = 96
      BY <2>5, <2>7, <2>8, SMT DEF At
    <3> QED
      BY <3>1, SMT
  <2>10. seen' = NoAdvert
    BY <2>7, <2>9, Zenon DEF Heard
  <2> QED
    BY <2>7, <2>10, Zenon DEF ExactlyWholeHeard
<1> QED
  BY <1>1, <1>5, <1>6, Zenon DEF m

(* Damage that the checksum is sure to show: any wrong byte, except of the *)
(* version, which decides what is summed up, and of the number of          *)
(* addresses in version 2, where the sum ends after as many.               *)
ReceiveShown ==
  \E a \in Adverts, opts \in Options :
    LET p == Packet(a, opts) IN
    \E i \in 20 + opts + 1 .. Len(p), d \in Deltas :
      /\ i # 20 + opts + 1 /\ (i = 20 + opts + 4 => a.Version = 3)
      /\ Receive(Frame(Padded([p EXCEPT ![i] = (@ + d) % 256]), NoAdvert))

(* Nor is an advert with damage that shows.                                *)
LEMMA ShownHeard ==
  ASSUME PacketTypeInv, ReceiveShown
  PROVE  ExactlyWholeHeard'
<1>1. PICK a \in Adverts, opts \in Options :
        \E i \in 20 + opts + 1 .. Len(Packet(a, opts)), d \in Deltas :
          /\ i # 20 + opts + 1 /\ (i = 20 + opts + 4 => a.Version = 3)
          /\ Receive(Frame(Padded([Packet(a, opts) EXCEPT ![i] = (@ + d) % 256]), NoAdvert))
  BY Zenon DEF ReceiveShown
<1>2. PICK i \in 20 + opts + 1 .. Len(Packet(a, opts)), d \in Deltas :
        /\ i # 20 + opts + 1 /\ (i = 20 + opts + 4 => a.Version = 3)
        /\ Receive(Frame(Padded([Packet(a, opts) EXCEPT ![i] = (@ + d) % 256]), NoAdvert))
  BY <1>1, Zenon
<1> DEFINE m == Message(a)
           h == 20 + opts
           j == i - h
           t == [m EXCEPT ![j] = (@ + d) % 256]
           p == Carrying(IPProtoVRRP, opts, m)
           q == Carrying(IPProtoVRRP, opts, t)
<1>3. /\ Packet(a, opts) = p /\ m \in Seq(Byte) /\ Len(m) = Size(a)
      /\ h + Len(m) \in Word /\ IPProtoVRRP \in Byte /\ opts \in Opts
  BY PacketCarries, Zenon
<1>4. p \in Seq(Byte) /\ Len(p) = h + Len(m)
  BY <1>3, PacketBytes, ZenonT(60)
<1> HIDE DEF m, p
<1>5. /\ j \in 1 .. Size(a) /\ j # 1 /\ (j = 4 => a.Version = 3)
      /\ i = h + j /\ j \in 1 .. Len(m) /\ h \in Nat /\ j \in Nat
  BY <1>2, <1>3, <1>4, SMT DEF Opts
<1>6. d \in Byte
  BY PacketAssumption, Zenon
<1> HIDE DEF j
<1>7. (m[j] + d) % 256 \in Byte
  <2>1. m[j] \in Nat /\ d \in Nat
    <3>1. m[j] \in Byte
      BY <1>3, <1>5
    <3> QED
      BY <1>6, <3>1, BytesAreNumbers, Zenon
  <2>2. (m[j] + d) % 256 \in Nat /\ (m[j] + d) % 256 < 256
    BY <2>1, SMT
  <2> QED
    BY <2>2, BytesAreNumbers, Zenon
<1>8. /\ t \in Seq(Byte) /\ Len(t) = Len(m)
      /\ \A x \in 1 .. Len(m) : t[x] = IF x = j THEN (m[j] + d) % 256 ELSE m[x]
  BY <1>3, <1>5, <1>7
<1>9. Parse(t, Src, Dst) = NoAdvert
  BY <1>5, DamageRefused, ZenonT(40) DEF m
<1> HIDE DEF t
<1>10. [p EXCEPT ![i] = (@ + d) % 256] = q
  <2> DEFINE k == Header(IPProtoVRRP, opts, h + Len(m))
             l == h + Len(m)
  <2>1. k \in Seq(Byte) /\ Len(k) = h
    BY <1>3, HeaderBytes, ZenonT(60)
  <2>2. p = k \o m /\ q = k \o t
    BY <1>8, Zenon DEF Carrying, p
  <2> HIDE DEF k, q, h
  <2>3. /\ k \o m \in Seq(Byte) /\ Len(k \o m) = Len(k) + Len(m)
        /\ \A x \in 1 .. Len(k) : (k \o m)[x] = k[x]
        /\ \A x \in 1 .. Len(m) : (k \o m)[Len(k) + x] = m[x]
    BY <1>3, <2>1, ConcatBytes
  <2>4. /\ k \o t \in Seq(Byte) /\ Len(k \o t) = Len(k) + Len(t)
        /\ \A x \in 1 .. Len(k) : (k \o t)[x] = k[x]
        /\ \A x \in 1 .. Len(t) : (k \o t)[Len(k) + x] = t[x]
    BY <1>8, <2>1, ConcatBytes
  <2>5. /\ p \in Seq(Byte) /\ Len(p) = l /\ \A x \in 1 .. h : p[x] = k[x]
        /\ \A x \in 1 .. Len(m) : p[h + x] = m[x]
    BY <2>1, <2>2, <2>3, Zenon
  <2>6. /\ q \in Seq(Byte) /\ Len(q) = l /\ \A x \in 1 .. h : q[x] = k[x]
        /\ \A x \in 1 .. Len(m) : q[h + x] = t[x]
    BY <1>8, <2>1, <2>2, <2>4, Zenon
  <2> DEFINE v == [p EXCEPT ![i] = (@ + d) % 256]
  <2>7. p = [x \in 1 .. l |-> p[x]] /\ q = [x \in 1 .. l |-> q[x]]
    BY <2>5, <2>6
  <2>8. v = [x \in 1 .. l |-> IF x = i THEN (p[i] + d) % 256 ELSE p[x]]
    BY <2>7, Zenon
  <2>9. ASSUME NEW x \in 1 .. l
        PROVE  q[x] = IF x = i THEN (p[i] + d) % 256 ELSE p[x]
    <3>1. CASE x \in 1 .. h
      <4>1. x # i
        BY <1>5, <3>1, SMT
      <4> QED
        BY <2>5, <2>6, <3>1, <4>1, Zenon
    <3>2. CASE x \notin 1 .. h
      <4> DEFINE y == x - h
      <4>1. y \in 1 .. Len(m) /\ x = h + y /\ (x = i <=> y = j)
        BY <1>3, <1>5, <3>2, SMT
      <4> HIDE DEF y
      <4>2. q[x] = t[y] /\ p[x] = m[y] /\ p[i] = m[j]
        BY <1>5, <2>5, <2>6, <4>1, Zenon
      <4> QED
        BY <1>8, <4>1, <4>2, ZenonT(40)
    <3> QED
      BY <3>1, <3>2, Zenon
  <2>10. [x \in 1 .. l |-> q[x]] = [x \in 1 .. l |-> IF x = i THEN (p[i] + d) % 256 ELSE p[x]]
    BY <2>9, Zenon
  <2> QED
    BY <2>7, <2>8, <2>10, Zenon
<1>11. Receive(Frame(Padded(q), NoAdvert))
  BY <1>2, <1>3, <1>10, Zenon
<1>12. /\ seen' = IF IPProtoVRRP = IPProtoVRRP THEN Parse(t, Src, Dst) ELSE NoAdvert
       /\ frame'.advert = NoAdvert
  <2>1. h + Len(t) \in Word
    BY <1>3, <1>8, Zenon
  <2> QED
    BY <1>3, <1>8, <1>11, <2>1, PaddedHeard, ZenonT(60)
<1> QED
  BY <1>9, <1>12, Zenon DEF ExactlyWholeHeard

(* Whole, cut, foreign or with damage that shows: each frame is observed as *)
(* it should be, whatever came before it (listener_linux.go, packet.go).   *)
LEMMA HeardRight ==
  ASSUME PacketTypeInv, ReceiveWhole \/ ReceiveCut \/ ReceiveOther \/ ReceiveShown
  PROVE  ExactlyWholeHeard'
<1>1. CASE ReceiveWhole BY <1>1, WholeHeard
<1>2. CASE ReceiveCut BY <1>2, CutHeard
<1>3. CASE ReceiveOther BY <1>3, OtherHeard
<1>4. CASE ReceiveShown BY <1>4, ShownHeard
<1> QED BY <1>1, <1>2, <1>3, <1>4

(* Every whole advert, of both versions and with every number of           *)
(* addresses, is observed with the fields that were sent; a frame that is  *)
(* cut, that is no advert or that has damage the checksum is sure to show  *)
(* is not observed (packet.go:38-39, listener_linux.go:64-65).             *)
THEOREM EachFrameHeardRight ==
  PacketSpec =>
    [][ReceiveWhole \/ ReceiveCut \/ ReceiveOther \/ ReceiveShown
         => ExactlyWholeHeard']_packetVars
<1>1. PacketTypeInv /\ [PacketNext]_packetVars =>
        [ReceiveWhole \/ ReceiveCut \/ ReceiveOther \/ ReceiveShown
           => ExactlyWholeHeard']_packetVars
  BY HeardRight
<1> QED BY <1>1, PacketTypeCorrect, PTL DEF PacketSpec

(* So what was observed last is always what was sent last, if it came      *)
(* whole, and nothing otherwise, as long as all damage is of the kind that *)
(* shows: what a one's complement sum cannot promise is that a v2 advert   *)
(* with another number of addresses or another version is noticed.         *)
THEOREM ExactlyWholeHeardCorrect ==
  PacketSpec /\ [][ReceiveDamaged => ReceiveShown]_packetVars => []ExactlyWholeHeard
<1>1. PacketInit => ExactlyWholeHeard
  BY DEF PacketInit, Frame, ExactlyWholeHeard
<1>2. /\ PacketTypeInv /\ ExactlyWholeHeard /\ [PacketNext]_packetVars
      /\ [ReceiveDamaged => ReceiveShown]_packetVars
      => ExactlyWholeHeard'
  <2> SUFFICES ASSUME PacketTypeInv, ExactlyWholeHeard, [PacketNext]_packetVars,
                      [ReceiveDamaged => ReceiveShown]_packetVars
               PROVE  ExactlyWholeHeard'
    OBVIOUS
  <2>1. CASE UNCHANGED packetVars
    <3>1. seen' = seen /\ frame' = frame
      BY <2>1, Zenon DEF packetVars
    <3> QED
      BY <3>1 DEF ExactlyWholeHeard, Sent
  <2>2. CASE PacketNext /\ (ReceiveDamaged => ReceiveShown)
    BY <2>2, HeardRight, Zenon DEF PacketNext
  <2> QED BY <2>1, <2>2, Zenon
<1> QED BY <1>1, <1>2, PacketTypeCorrect, PTL DEF PacketSpec
=============================================================================
