------------------------------ MODULE Binding ------------------------------
(***************************************************************************)
(* With(v, LAMBDA x : e) is LET x == v IN e.  The evaluation modules write *)
(* it for values that are long to compute: the value is an argument, so it *)
(* stands in the formula once however often its name is used.              *)
(***************************************************************************)
With(value, Use(_)) == Use(value)
=============================================================================
