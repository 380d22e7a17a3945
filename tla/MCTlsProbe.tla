----------------------------- MODULE MCTlsProbe -----------------------------
(* A small instance of TlsProbe: a vhost on the virtual address, one on    *)
(* every address, and one that moves from the one to the other.            *)
EXTENDS TlsProbe

CONSTANTS shop, blog, api

On(key, addr) == [key |-> key, addr |-> addr]
MCTopologies ==
  { <<On(shop, VIP), On(blog, Loopback), On(api, VIP)>>,
    <<On(blog, Loopback), On(api, VIP), On(api, Loopback)>> }
=============================================================================
