-------------------------- MODULE MCPlatformUpdate --------------------------
(* Small instances of PlatformUpdate for TLC. *)
EXTENDS PlatformUpdate, TLC

(* Administrators are interchangeable, and so are scripts on the host. *)
Symmetric == Permutations(Admin) \cup Permutations(Slot \ {Container})
=============================================================================
