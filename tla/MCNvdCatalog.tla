---------------------------- MODULE MCNvdCatalog ----------------------------
(* Small instances of NvdCatalog for TLC. *)
EXTENDS NvdCatalog, TLC

(* The keys an administrator saves are interchangeable. *)
Symmetric == Permutations(Fingerprint)
=============================================================================
