------------------------------ MODULE MCUploader ------------------------------
(* The upload thread on journals of at most two rows.                        *)
EXTENDS Uploader
CONSTANTS c1, c2

Keys == {1, 2}

\* Rows as a purchase leaves them; the columns the thread only copies are fixed.
Left(flag, confirm) ==
  [cardno |-> c1, cardbefbal |-> 1, amount |-> 1, transflag |-> flag,
   confirm |-> confirm, tac |-> NoStamp]
Journals ==
  UNION {[keys -> {Left(f, c) : f \in TransFlags, c \in {0, 1}}] :
           keys \in SUBSET Keys}

Spec == UploaderInit(Journals) /\ [][UploaderNext]_uploaderVars /\ ThreadFairness

\* A row that is not confirmed is marked for upload sooner or later, whatever
\* the server does: no older row can hold it up, nor can an UPDATE that failed
\* (p16main.c:995-1017).
EveryRowMarked ==
  StaysUp => \A k \in Keys : k \in Unconfirmed ~> k \notin Unconfirmed
=============================================================================
