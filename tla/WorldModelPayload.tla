-------------------------- MODULE WorldModelPayload --------------------------
(***************************************************************************)
(* The JSON of a world model, as far as the code tells payloads apart: the *)
(* shape of each section, and which of them validation, normalisation and  *)
(* decoding look at.                                                       *)
(***************************************************************************)

(* Those a payload must have. *)
Sections ==
  {"organization", "branding", "departments", "employees", "projects", "document_themes"}

(* What validation does not look at: generation_settings, and a key that is *)
(* spelled like another but for its case, which Go takes for that one when *)
(* it decodes into a struct, and validation, which goes by a map, does not.*)
Ignored == {"generation_settings", "respelled"}

(* branding.colors may be left out. *)
Fields == Sections \cup {"colors"} \cup Ignored

(* "empty" is a blank required string or an empty list, "mistyped" JSON     *)
(* that the Go type of the field does not take.                            *)
Shapes == {"absent", "null", "mistyped", "empty", "ok"}

Payload == [Fields -> Shapes]

(* What the migration gives a row that had no payload: {}. *)
Bare == [f \in Fields |-> "absent"]

ValidatePayload(p) ==
  /\ \A s \in Sections : p[s] = "ok"
  /\ p["colors"] # "mistyped"

(* The branding is decoded to give it a list of colors if it has none. *)
Normalizes(p) == p["branding"] # "mistyped"

NormalizedPayload(p) ==
  IF p["branding"] \in {"absent", "null"} \/ p["colors"] \notin {"absent", "null"} THEN p
  ELSE [p EXCEPT !["colors"] = "empty"]

(* The list and the generation decode a payload into the Go struct. *)
Decodes(p) == \A f \in Fields : p[f] # "mistyped"

BuildSummary(p) == Normalizes(p) /\ Decodes(NormalizedPayload(p))
=============================================================================
