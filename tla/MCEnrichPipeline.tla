-------------------------- MODULE MCEnrichPipeline --------------------------
(* Small instances of EnrichPipeline for TLC. *)
EXTENDS EnrichPipeline, TLC

(* Messages and publishers are interchangeable. *)
Symmetric == Permutations(Job) \cup Permutations(Producer)
=============================================================================
