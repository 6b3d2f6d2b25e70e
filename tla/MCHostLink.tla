----------------------------- MODULE MCHostLink -----------------------------
(* Lists for TLC: single changes of two cards whose numbers share their      *)
(* first byte, and long lists.                                               *)
EXTENDS HostLink

Entry(c, f) == <<[card |-> c, flag |-> f]>>
Lost(n) == [i \in 1..n |-> [card |-> 300 + i, flag |-> 0]]

Singles == {Entry(c, f) : c \in {2, 258}, f \in {0, 1}}
Fifty == {Lost(50)}
Anywhere == 1..26
=============================================================================
