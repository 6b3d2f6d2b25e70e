------------------------------ MODULE MCTopUp ------------------------------
(* The top-up machine with two cards.                                        *)
EXTENDS TopUp
CONSTANTS c1, c2
=============================================================================
