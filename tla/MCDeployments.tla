---------------------------- MODULE MCDeployments ----------------------------
(* Small instances of Deployments for TLC. *)
EXTENDS Deployments, TLC

CONSTANTS d1, d2, d3, p1, p2

(* Two deployments ask for one port, the third has its own. *)
SharedPort == d1 :> p1 @@ d2 :> p1 @@ d3 :> p2
OneOnly == d1 :> p1
OwnPorts == d1 :> p1 @@ d2 :> p2
SameClients == Permutations(Clients)

(* The two that ask for one port may be exchanged as well. *)
SameClientsSamePort == SameClients \cup Permutations({d1, d2})
=============================================================================
