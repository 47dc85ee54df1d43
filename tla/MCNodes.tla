------------------------------ MODULE MCNodes ------------------------------
(* All nodes of up to three children, in areas that are empty, too small,  *)
(* just right and with room to share.                                      *)
EXTENDS Draw
=============================================================================
