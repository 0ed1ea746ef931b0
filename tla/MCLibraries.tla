---------------------------- MODULE MCLibraries -----------------------------
(* Six keys, one of them twice.                                             *)
EXTENDS Libraries

SevenElements == <<1, 2, 3, 4, 5, 6, 6>>

=============================================================================
