--------------------------- MODULE MCAdminConsole ---------------------------
(* Small instances of AdminConsole for TLC. *)
EXTENDS AdminConsole, TLC

CONSTANTS u0, k0, k1, m0, m1, mm, d, w

(* mm stands for every mask of a mask, which is longer than the mask. *)
ShownOf ==
  k0 :> m0 @@ k1 :> m1 @@ m0 :> mm @@ m1 :> mm @@ mm :> mm @@ Blank :> Blank

FromEnv == [url |-> u0, key |-> k0]

Whole == [f \in Fields |-> "ok"]
NoColors == [Whole EXCEPT !["colors"] = "absent", !["generation_settings"] = "absent", !["respelled"] = "absent"]
BadProjects == [Whole EXCEPT !["projects"] = "mistyped"]

Payloads == {NoColors, BadProjects}
Same == Permutations(Clients)
=============================================================================
