------------------------------- MODULE MCWrap -------------------------------
(* Every node of a few children in every area of a few cells.              *)
EXTENDS Sizes
=============================================================================
