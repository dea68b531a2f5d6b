------------------------------- MODULE MCWithTx -------------------------------
(* Small instances of WithTx. *)
EXTENDS WithTx

MCFnErrors == {APIError(409)}
===============================================================================
