---------------------------- MODULE MCLocalLock ----------------------------
(***************************************************************************)
(* Three processes with LOCKTIMEOUT 1, 1 and 3 and LOCKSLEEP 2: a sleep    *)
(* can be longer or shorter than what remains of the wait.                 *)
(***************************************************************************)
EXTENDS LocalLock, TLC

CONSTANTS p1, p2, p3

MCTimeout == (p1 :> 1) @@ (p2 :> 1) @@ (p3 :> 3)
=============================================================================
