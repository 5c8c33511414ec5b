---------------------------- MODULE MCApiClient -----------------------------
(***************************************************************************)
(* Small instances of ApiClient for TLC: tokens that live for two ticks,   *)
(* the last of which is the lead, and a limiter that fills up with the     *)
(* first call of an operation.                                             *)
(***************************************************************************)
EXTENDS ApiClient

CONSTANT publish

OneOperation == {publish}
=============================================================================
