------------------------------ MODULE MCMaildir ------------------------------
(* Two deliveries that draw from two names, so that every kind of collision  *)
(* happens, on both backends.                                                *)
EXTENDS Maildir

CONSTANTS s1, s2, n1, n2

MCSinks == {s1, s2}
MCNames == {n1, n2}
MCPlatforms == {"linux", "portable"}
=============================================================================
