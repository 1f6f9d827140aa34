----------------------------- MODULE MCAssetTree -----------------------------
(* Small instances of AssetTree for TLC. *)
EXTENDS AssetTree, TLC

CONSTANTS w, j1, j2, d1, d2, f1, f2

(* Two files of one directory, one of another, one of another job. *)
OneWorld == [a \in Assets |-> w]
Jobs == [a \in Assets |-> IF a = 4 THEN j2 ELSE j1]
Targets == 1 :> <<d1, f1>> @@ 2 :> <<d1, f2>> @@ 3 :> <<d2, f1>> @@ 4 :> <<f1>>

NameSet == {Generated, w, j1, j2, d1, d2, f1, f2}

FilterSet == {[world |-> NoFilter, job |-> NoFilter], [world |-> w, job |-> NoFilter], [world |-> NoFilter, job |-> j1]}
=============================================================================
