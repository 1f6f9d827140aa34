---------------------------- MODULE MCAssetStore ----------------------------
(* Small instances of AssetStore for TLC. *)
EXTENDS AssetStore, TLC

CONSTANTS a1, a2, a3, p1

(* The generated asset a1 and two uploads that want its path. *)
OnePath == a1 :> p1 @@ a2 :> p1 @@ a3 :> p1
SameClientsAndUploads ==
  {f @@ g : f \in Permutations(Clients), g \in Permutations({a2, a3})}
=============================================================================
