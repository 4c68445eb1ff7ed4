----------------------------- MODULE MCPatchAgent -----------------------------
(***************************************************************************)
(* Small instances of PatchAgent for TLC: a kiosk with a main executable   *)
(* and a library.  Patch p1 replaces the executable and adds a file, patch *)
(* p2 replaces the library.  Deployment d1 is for p1, d2 is for p2, and d3 *)
(* repeats p1 with a request that carries no checksum.                     *)
(***************************************************************************)
EXTENDS PatchAgent

CONSTANTS d1, d2, d3, p1, p2, exe, lib, new

MCPatchOf   == [d \in Deployments |-> IF d = d2 THEN p2 ELSE p1]
MCContents  == [p \in Patches |-> IF p = p1 THEN {exe, new} ELSE {lib}]
MCFiles     == {exe, lib, new}
MCInstalled == {exe, lib}

\* One file, one patch of it, delivered twice: everything is shared.
MCOnePatch   == [d \in Deployments |-> p1]
MCOneFile    == {exe}
MCOnlyExe    == [p \in Patches |-> {exe}]
=============================================================================
