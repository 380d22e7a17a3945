--------------------------- MODULE MCVrrpCollector ---------------------------
(* A small instance of VrrpCollector: on one router this node advertises,  *)
(* and steps down with an advert of interval 0; another node takes over.   *)
(* The map of transitions has room for two of the four pairs.              *)
EXTENDS VrrpCollector

CONSTANTS here, there

MCAdvert(source, prio, intv) ==
  [vrid |-> 1, src |-> source, priority |-> prio, interval |-> intv]
MCAdverts == {MCAdvert(here, 100, 4), MCAdvert(here, 0, 0), MCAdvert(there, 100, 4)}
=============================================================================
