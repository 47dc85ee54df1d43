------------------------------ MODULE MCTimer ------------------------------
(* The timer on a short clock: an idle target of 30 percent makes both the *)
(* debt and the integer division's remainder matter within 40 ms.          *)
EXTENDS Timer

=============================================================================
