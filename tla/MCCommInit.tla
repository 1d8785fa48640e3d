------------------------------ MODULE MCCommInit ------------------------------
(* TLC instance of CommInit: one process too many of either kind.           *)
EXTENDS CommInit
=============================================================================
