--------------------------- MODULE MCRelayRegistry ---------------------------
(* RelayRegistry on small sets of devices and sockets. *)
EXTENDS RelayRegistry, TLC

\* Devices are interchangeable, and so are sockets.
Symmetry == Permutations(Devices) \union Permutations(Sockets)
=============================================================================
