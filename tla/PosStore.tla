------------------------------ MODULE PosStore ------------------------------
(***************************************************************************)
(* The SQLite file p16cfg.db that the two threads of the machine share     *)
(* (syspara.c): the journal TRANSDTL, the loss list T_BLACKCARD and the    *)
(* parameter dev.pos_blacklist_version of SYSPARA.  One statement is one   *)
(* atomic step, and what a statement wrote survives a loss of power.       *)
(***************************************************************************)
EXTENDS Naturals

CONSTANTS
  Cards,    \* the cards that can be presented
  NoCard,   \* no card at all
  TypedIn,  \* the amounts an operator can type (yuan)
  MaxMoney, \* the largest amount a purchase may have (10000 yuan in the code)
  DbErrors  \* which statements may fail: a subset of {"read", "write"}

ASSUME CardsAssumption == NoCard \notin Cards
ASSUME AmountsAssumption == TypedIn \subseteq Nat /\ MaxMoney \in Nat
ASSUME DbErrorsAssumption == DbErrors \subseteq {"read", "write"}

VARIABLES
  trans,    \* TRANSDTL: the rows, as a function from their keys
  black,    \* T_BLACKCARD: the flag of each card, "none" when it has no row
  dbVersion \* SYSPARA: dev.pos_blacklist_version

storeVars == <<trans, black, dbVersion>>

-----------------------------------------------------------------------------
Amounts == {m \in TypedIn : m # 0 /\ m <= MaxMoney}

\* The primary key is date, time, card, operator, device and DEVSEQNO.  Only
\* the first three vary while the machine runs and no two purchases read the
\* same second (each one shows its result for 3 seconds), so a key is the
\* second at which its purchase read the clock.  0 is no key.
Stamps == Nat
NoStamp == 0

TransFlags == {"INIT", "WRITE_CARD_OK", "WRITE_CARD_FAILED"}

\* The columns a property looks at.  tac is the stamp of the purchase whose
\* card answer carried it, 0 before any.
Rows == [cardno : Cards, cardbefbal : Nat, amount : Amounts,
         transflag : TransFlags, confirm : {0, 1}, tac : Stamps]

\* CARDFLAG is 0 for a card reported lost.
CardFlags == {"lost", "normal"}

-----------------------------------------------------------------------------
\* INSERT; a purchase whose key is already there would be refused.
InsertRow(key, row) ==
  /\ key \notin DOMAIN trans
  /\ trans' = [k \in DOMAIN trans \cup {key} |-> IF k = key THEN row ELSE trans[k]]

\* Mutant: INSERT OR REPLACE, which brings a deleted row back.
UpsertRow(key, row) ==
  trans' = [k \in DOMAIN trans \cup ({key} \ {NoStamp}) |-> IF k = key THEN row ELSE trans[k]]

\* UPDATE ... WHERE key: every other column is rewritten from the caller's
\* copy, and a key that is not there is no error.
UpdateRow(key, row) ==
  trans' = [k \in DOMAIN trans |-> IF k = key THEN row ELSE trans[k]]

DeleteRows(keys) ==
  trans' = [k \in DOMAIN trans \ keys |-> trans[k]]

\* SELECT ... WHERE CONFIRM=0 ORDER BY TRANSDATE, TRANSTIME: the first row of
\* the answer, in spite of the name trans_get_last_record.
Unconfirmed == {k \in DOMAIN trans : trans[k].confirm = 0}
LastRecord(k) == k \in Unconfirmed /\ \A j \in Unconfirmed : k <= j

\* A statement of this kind may return an error.
Fails(kind) == kind \in DbErrors

StoreInit ==
  /\ trans = [k \in {} |-> 0]
  /\ black = [c \in Cards |-> "none"]
  /\ dbVersion = 0

StoreTypeOK ==
  /\ DOMAIN trans \subseteq Stamps \ {NoStamp}
  /\ trans \in [DOMAIN trans -> Rows]
  /\ black \in [Cards -> CardFlags \cup {"none"}]
  /\ dbVersion \in Nat
=============================================================================
