--------------------------- MODULE MCAgentPipeline ---------------------------
(* Instances of AgentPipeline for TLC. *)
EXTENDS AgentPipeline

CONSTANTS a, b

\* Two sources and one spool between them: from a, an event the server accepts
\* and one it cannot parse; from b, one too large.
LinesOfTwo == [s \in Sources |-> IF s = a THEN 2 ELSE 1]
KindsOfTwo ==
  [e \in Events |-> CASE e = <<a, 1>> -> "healthy" [] e = <<a, 2>> -> "poison"
                      [] OTHER -> "huge"]

\* Behind a line that is no event, a healthy event behind one that the server
\* cannot parse.
ThreeLines == [s \in Sources |-> 3]
PoisonFirst ==
  [e \in Events |-> CASE e[2] = 1 -> "ignored" [] e[2] = 2 -> "poison" [] OTHER -> "healthy"]
=============================================================================
