----------------------------- MODULE VrrpPacket -----------------------------
(***************************************************************************)
(* vrrp.Parse and the receive loop of vrrp.Listen, byte by byte: adverts   *)
(* of both versions on a wire that pads, cuts and damages frames, read     *)
(* into a buffer that still holds what earlier frames left behind.         *)
(* The link-layer header is not part of a frame (SOCK_DGRAM).              *)
(***************************************************************************)
EXTENDS Naturals, Sequences, Functions

CONSTANTS
  Adverts,    \* the adverts that are sent, see AdvertType
  Src, Dst,   \* the sender's and the multicast group's address, four bytes
  Options,    \* lengths of the options in the IP header, multiples of four
  MinFrame,   \* shorter packets are padded to this length
  Deltas,     \* by how much a byte may be damaged
  BufLen,     \* length of Listen's buffer, 65536 in the code
  MaxFrames,  \* bound on the frames received
  NoAdvert    \* nothing was observed

Byte == 0 .. 255
AdvertType(a) ==
  /\ a.Version \in {2, 3} /\ a.VRID \in Byte /\ a.Priority \in Byte
  /\ a.interval \in Nat /\ a.interval < (IF a.Version = 2 THEN 256 ELSE 4096)
  /\ a.VIPs \in Seq([1 .. 4 -> Byte]) /\ Len(a.VIPs) \in Byte
  /\ a.auth \in Seq(Byte) /\ Len(a.auth) = IF a.Version = 2 THEN 8 ELSE 0

ASSUME PacketAssumption ==
  /\ \A a \in Adverts : AdvertType(a)
  /\ NoAdvert \notin Adverts
  /\ Src \in Seq(Byte) /\ Len(Src) = 4 /\ Dst \in Seq(Byte) /\ Len(Dst) = 4
  /\ Options \subseteq {0, 4} /\ Deltas \subseteq Byte \ {0} /\ MaxFrames \in Nat
  /\ BufLen \in Nat /\ MinFrame \in 0 .. BufLen

VARIABLES
  frame,    \* the frame last received, and what is true of it; see Frame
  buf,      \* Listen's buffer
  seen,     \* what Observe was given, NoAdvert when the frame was skipped
  frames    \* frames received so far

packetVars == <<frame, buf, seen, frames>>

IPProtoVRRP == 112
(* The bytes, and the advert that they carry whole, NoAdvert if none. *)
Frame(bytes, advert) == [bytes |-> bytes, advert |-> advert]

Zeros(k) == [i \in 1 .. k |-> 0]

PacketInit ==
  /\ frame = Frame(<<>>, NoAdvert) /\ buf = Zeros(BufLen)
  /\ seen = NoAdvert /\ frames = 0

-----------------------------------------------------------------------------
(* What keepalived sends (RFC 3768, RFC 5798): the checksum field makes    *)
(* the one's complement sum of the 16-bit words zero.                      *)
Hi(w) == w \div 256
Lo(w) == w % 256
Words(b)  == SumFunction([i \in 1 .. Len(b) |-> IF i % 2 = 1 THEN 256 * b[i] ELSE b[i]])
Cat(vips) == [i \in 1 .. 4 * Len(vips) |-> vips[(i + 3) \div 4][((i - 1) % 4) + 1]]

Unsummed(a, c) ==
  <<16 * a.Version + 1, a.VRID, a.Priority, Len(a.VIPs)>>
  \o (IF a.Version = 2 THEN <<1, a.interval>> ELSE <<Hi(a.interval), Lo(a.interval)>>)
  \o <<Hi(c), Lo(c)>> \o Cat(a.VIPs) \o a.auth
Pseudo(a, len) == IF a.Version = 2 THEN <<>> ELSE Src \o Dst \o <<0, IPProtoVRRP, Hi(len), Lo(len)>>
Message(a) ==
  LET bare == Unsummed(a, 0)
      sum  == Words(Pseudo(a, Len(bare))) + Words(bare)
  IN Unsummed(a, (65535 - (sum % 65535)) % 65535)

Header(proto, opts, len) ==
  <<64 + 5 + opts \div 4, 0, Hi(len), Lo(len), 0, 0, 0, 0, 255, proto, 0, 0>>
  \o Src \o Dst \o Zeros(opts)
Packet(a, opts) == Header(IPProtoVRRP, opts, 20 + opts + Len(Message(a))) \o Message(a)
Padded(p)       == p \o Zeros(IF Len(p) < MinFrame THEN MinFrame - Len(p) ELSE 0)

-----------------------------------------------------------------------------
(* Parse.  Offsets of the code are zero-based.                             *)
At(b, i) == b[i + 1]
Cut(b, from, to) == SubSeq(b, from + 1, to)

pseudoHeader(src, dst, vrrpLen) == src \o dst \o <<0, IPProtoVRRP, Hi(vrrpLen) % 256, Lo(vrrpLen)>>

fold[sum \in Nat] == IF sum < 65536 THEN sum ELSE fold[(sum % 65536) + sum \div 65536]
inetChecksum(b) == 65535 - fold[Words(b)]

(* In milliseconds: whole seconds in v2, 12 bits of centiseconds in v3. *)
Interval(payload) ==
  IF At(payload, 0) \div 16 = 2 THEN 1000 * At(payload, 5)
  ELSE 10 * (256 * (At(payload, 4) % 16) + At(payload, 5))

need(payload) == 8 + 4 * At(payload, 3) + (IF At(payload, 0) \div 16 = 2 THEN 8 ELSE 0)

(* Slip: v2's checksum ends before the authentication data. *)
Sums_noAuth(payload, src, dst) ==
  IF At(payload, 0) \div 16 = 2
  THEN inetChecksum(Cut(payload, 0, need(payload) - 8)) = 0
  ELSE inetChecksum(pseudoHeader(src, dst, Len(payload)) \o payload) = 0

Sums(payload, src, dst) ==
  IF At(payload, 0) \div 16 = 2
  THEN inetChecksum(Cut(payload, 0, need(payload))) = 0
  ELSE inetChecksum(pseudoHeader(src, dst, Len(payload)) \o payload) = 0

Accepts(payload, src, dst) ==
  /\ Len(payload) >= 8
  /\ At(payload, 0) % 16 = 1
  /\ At(payload, 0) \div 16 \in {2, 3}
  /\ Len(payload) >= need(payload)
  /\ Sums(payload, src, dst)

Parse(payload, src, dst) ==
  IF Accepts(payload, src, dst)
  THEN [Version |-> At(payload, 0) \div 16, VRID |-> At(payload, 1),
        Priority |-> At(payload, 2), Interval |-> Interval(payload), Src |-> src,
        VIPs |-> [i \in 1 .. At(payload, 3) |-> Cut(payload, 4 + 4 * i, 8 + 4 * i)]]
  ELSE NoAdvert

-----------------------------------------------------------------------------
(* One round of the loop: Recvfrom overwrites the start of the buffer, and *)
(* all that follows reads the buffer.                                      *)
Recvfrom(b, f) == [i \in 1 .. BufLen |-> IF i <= Len(f) THEN f[i] ELSE b[i]]

(* Slip: the total length is believed; the slice ends in an older frame. *)
TotLen_believed(b, n) == 256 * At(b, 2) + At(b, 3)

Lesser(x, y) == IF x < y THEN x ELSE y
TotLen(b, n) == Lesser(256 * At(b, 2) + At(b, 3), n)

IHL(b) == (At(b, 0) % 16) * 4

Heard(b, n) ==
  IF /\ n >= 20 /\ At(b, 0) \div 16 = 4 /\ At(b, 9) = IPProtoVRRP
     /\ TotLen(b, n) >= IHL(b)
  THEN Parse(Cut(b, IHL(b), TotLen(b, n)), Cut(b, 12, 16), Cut(b, 16, 20))
  ELSE NoAdvert

Receive(f) ==
  /\ f.bytes \in Seq(Byte) /\ Len(f.bytes) <= BufLen
  /\ frames < MaxFrames /\ frames' = frames + 1
  /\ frame' = f
  /\ buf' = Recvfrom(buf, f.bytes)
  /\ seen' = Heard(buf', Len(f.bytes))

ReceiveWhole ==
  \E a \in Adverts, opts \in Options : Receive(Frame(Padded(Packet(a, opts)), a))

(* A frame that ends in the middle of the packet. *)
ReceiveCut ==
  \E a \in Adverts, opts \in Options :
    LET p == Packet(a, opts) IN
    \E k \in 0 .. Len(p) - 1 : Receive(Frame(SubSeq(p, 1, k), NoAdvert))

(* One byte of the VRRP message is wrong. *)
ReceiveDamaged ==
  \E a \in Adverts, opts \in Options :
    LET p == Packet(a, opts) IN
    \E i \in 20 + opts + 1 .. Len(p), d \in Deltas :
      Receive(Frame(Padded([p EXCEPT ![i] = (@ + d) % 256]), NoAdvert))

(* Every other frame of the host passes the socket as well (ETH_P_ALL):    *)
(* here the bytes of an advert as TCP, and as another version of IP.       *)
ReceiveOther ==
  \E a \in Adverts :
    LET m == Message(a)
        tcp == Header(6, 0, 20 + Len(m)) \o m
        six == [Packet(a, 0) EXCEPT ![1] = 96]
    IN \E p \in {tcp, six} : Receive(Frame(Padded(p), NoAdvert))

PacketNext == ReceiveWhole \/ ReceiveCut \/ ReceiveDamaged \/ ReceiveOther

PacketSpec == PacketInit /\ [][PacketNext]_packetVars

-----------------------------------------------------------------------------
(* The buffer holds bytes and starts with the frame.                       *)
PacketTypeInv ==
  /\ frame.advert \in Adverts \cup {NoAdvert} /\ frames \in 0 .. MaxFrames
  /\ frame.bytes \in Seq(Byte) /\ buf \in [1 .. BufLen -> Byte]
  /\ Len(frame.bytes) <= BufLen /\ SubSeq(buf, 1, Len(frame.bytes)) = frame.bytes

(* A whole advert is observed with the fields that were sent, in both      *)
(* versions and their units, with or without options, padded or not; and a *)
(* frame that was cut or damaged, or is no advert, is not observed at all. *)
(* ("The version nibble is branched on before any offset is trusted",      *)
(* packet.go:38-39; "padding would break the v2 full-message checksum",    *)
(* listener_linux.go:64-65.)                                               *)
Sent(a) ==
  [Version |-> a.Version, VRID |-> a.VRID, Priority |-> a.Priority,
   Interval |-> IF a.Version = 2 THEN 1000 * a.interval ELSE 10 * a.interval,
   Src |-> Src, VIPs |-> a.VIPs]
ExactlyWholeHeard == seen = IF frame.advert = NoAdvert THEN NoAdvert ELSE Sent(frame.advert)

(* What is observed depends on the frame alone, as if the buffer were new, *)
(* never on what earlier frames left in it: a frame that claims to be      *)
(* longer than it is is not completed with old bytes.                      *)
OnlyThisFrame ==
  seen = Heard(Recvfrom(Zeros(BufLen), frame.bytes), Len(frame.bytes))
=============================================================================
