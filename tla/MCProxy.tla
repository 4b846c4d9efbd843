------------------------------ MODULE MCProxy -------------------------------
(***************************************************************************)
(* Small instances of the proxy: the .cfg files give the constants their   *)
(* values.                                                                 *)
(***************************************************************************)
EXTENDS ProxyLiveness, ProxyTraffic, ProxyRefinement, ProxyClaims, TLC

(* Clients and hosts are interchangeable; links, which are taken in order, *)
(* and descriptors, of which the lowest is taken, are not.                 *)
Symmetric == Permutations(Clients) \cup Permutations(Hosts)
=============================================================================
