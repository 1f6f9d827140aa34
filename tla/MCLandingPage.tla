---------------------------- MODULE MCLandingPage ----------------------------
(* Small instances of LandingPage for TLC. *)
EXTENDS LandingPage, TLC

(* The root is 1, with the file 2, the directory 3 and the file 5; 4 is in 3. *)
Tree == 2 :> 1 @@ 4 :> 3 @@ 5 :> 1

Same == Permutations(Visitors)
=============================================================================
