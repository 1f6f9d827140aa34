-------------------------- MODULE MCGenerationJobs --------------------------
(* Small instances of GenerationJobs for TLC. *)
EXTENDS GenerationJobs, TLC

CONSTANTS j1, j2

(* The second job is given the same path for two of its pages. *)
OneFile  == j1 :> <<"public/about.html">>
TwoFiles ==
  j1 :> <<"public/about.html", "intranet/about.html">> @@
  j2 :> <<"public/about.html", "public/about.html">>
=============================================================================
