----------------------------- MODULE WriteAhead -----------------------------
(***************************************************************************)
(* What the journal promises: an amount is taken from a card only for an   *)
(* entry that is already in the journal, and once.  Entries are written    *)
(* with the card, the amount and the balance that the card will be found   *)
(* to have, are never altered, and may be forgotten.                       *)
(***************************************************************************)
CONSTANTS Keys, Entries \* an entry has a key and whatever else describes it

VARIABLES
  journal, \* the entries the journal holds
  taken    \* the entries whose amount was taken

KeysOf(S) == {e.key : e \in S}

Init == journal = {} /\ taken = {}

\* A key is used once, be it the key of an entry forgotten since.
Record(e) ==
  /\ e.key \in Keys \ (KeysOf(journal) \cup KeysOf(taken))
  /\ journal' = journal \cup {e}
  /\ UNCHANGED taken

Take(e) ==
  /\ e \in journal
  /\ e.key \notin KeysOf(taken)
  /\ taken' = taken \cup {e}
  /\ UNCHANGED journal

Forget ==
  /\ \E kept \in SUBSET journal : journal' = kept
  /\ UNCHANGED taken

Next ==
  \/ \E e \in Entries : Record(e)
  \/ \E e \in journal : Take(e)
  \/ Forget

Spec == Init /\ [][Next]_<<journal, taken>>
=============================================================================
