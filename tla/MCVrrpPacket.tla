---------------------------- MODULE MCVrrpPacket ----------------------------
(* VrrpPacket for TLC. *)
EXTENDS VrrpPacket

(* A v2 advert with a password and one address; the stepdown of a v3 node  *)
(* with an interval of four seconds, which needs more than a byte; a v3    *)
(* advert without addresses, the shortest there is.                        *)
V2   == [Version |-> 2, VRID |-> 51, Priority |-> 150, interval |-> 1,
         VIPs |-> <<<<10, 1, 1, 100>>>>, auth |-> <<112, 97, 115, 115, 0, 0, 0, 0>>]
V3   == [Version |-> 3, VRID |-> 52, Priority |-> 0, interval |-> 400,
         VIPs |-> <<<<10, 1, 1, 100>>, <<10, 1, 1, 101>>>>, auth |-> <<>>]
Bare == [Version |-> 3, VRID |-> 255, Priority |-> 100, interval |-> 100,
         VIPs |-> <<>>, auth |-> <<>>]
MCAdverts == {V2, V3, Bare}

MCSrc == <<10, 1, 1, 1>>
MCDst == <<224, 0, 0, 18>>
=============================================================================
