--------------------------- MODULE PurchaseMachine ---------------------------
(***************************************************************************)
(* The machine: the main thread and the upload thread over one store, the  *)
(* card holders, the server, and a power supply that may fail between any  *)
(* two steps.                                                              *)
(***************************************************************************)
EXTENDS Purchase, Uploader

vars == <<mainVars, uploadVars, storeVars>>

Init ==
  /\ StoreInit
  /\ PurchaseInit
  /\ UploadInit

\* The main thread's own steps, the operator's and the card holder's.
MainThread == PurchaseNext /\ UNCHANGED uploadVars

\* The upload thread's steps and the server's.
UploadThread == (ThreadStep \/ HostStep) /\ UNCHANGED mainVars

\* Power is lost, or switched off from the menu (sys_power_off).
PowerCut == MainLosesPower /\ UploadLosesPower /\ UNCHANGED storeVars

\* main: the startup that leads to both threads.
PowerOn == MainBoots /\ UploadBoots /\ UNCHANGED <<black, dbVersion>>

Next == MainThread \/ UploadThread \/ PowerCut \/ PowerOn

Spec == Init /\ [][Next]_vars

TypeOK == StoreTypeOK /\ PurchaseTypeOK /\ UploadTypeOK

-----------------------------------------------------------------------------
(* The journal and the cards.                                              *)

\* The row tells what the card gave up: same card, same amount, and the
\* balance the purse really had just before.
Describes(row, d) ==
  row.cardno = d.card /\ row.amount = d.amount /\ row.cardbefbal = d.befbal

\* Every debit a row of the journal stands for is the one that happened, even
\* after the upload thread wrote the row back from its copy, a power loss, or
\* a card swapped between two steps of the purchase (deposit.c:406-522).
DebitsDescribed ==
  \A d \in debits : d.key \in DOMAIN trans => Describes(trans[d.key], d)

\* No card loses money before the row that says so is in the database: what
\* trans_add_record before write_card_timeout is for (deposit.c:501-510).
JournalBeforeDebit ==
  [][\A d \in debits' \ debits :
       d.key \in DOMAIN trans /\ Describes(trans[d.key], d)]_vars

\* One row, one debit: however often the write is tried again, the holder puts
\* the card back or the machine restarts, no balance on the reader changes for
\* a row that was debited before (deposit.c:291-341).
OneDebitPerRow ==
  [][\A c \in Cards : field = c /\ balance'[c] # balance[c] =>
       \A d \in debits : d.key # p16card.term]_vars

\* A row that carries the TAC of its own purchase proves a debit: p16card.tac
\* survives from purchase to purchase, but never runs ahead (deposit.c:519).
TacProvesDebit ==
  \A k \in DOMAIN trans : trans[k].tac = k => \E d \in debits : d.key = k

\* The card debited is the one that was looked up in T_BLACKCARD, and the
\* answer was not that it is lost (deposit.c:1111-1123, then the wait for the
\* amount and the second request of the card).
DebitsAreVetted ==
  [][\A d \in debits' \ debits :
       vetted.card = d.card /\ vetted.flag # "lost"]_vars

-----------------------------------------------------------------------------
(* The journal and the server.                                             *)

\* The server receives each state of a row at most once: first as it was
\* inserted, then with its result.  A row is marked before it is sent, so
\* neither a power loss nor a lost answer sends it twice (p16main.c:575-594).
NeverResent == resent = {}

\* A result the server has received is the one the journal keeps: the two
\* threads' whole-row updates never undo a reported result.
ReportedResultStands ==
  \A r \in sent : r.flag # "INIT" /\ r.key \in DOMAIN trans =>
    trans[r.key].transflag = r.flag /\ trans[r.key].confirm = 1

\* Whatever the server was told of a purchase is what the card gave up, told
\* before the debit, after it, from a copy that was written back over a newer
\* row, or of a row that is deleted by now: the server's books and the cards
\* agree on card, amount and balance (p16main.c:575-621 against
\* deposit.c:406-522).
ReportsDescribeDebits ==
  \A r \in sent, d \in debits : r.key = d.key => Describes(r, d)

-----------------------------------------------------------------------------
(* Why DebitsDescribed and JournalBeforeDebit hold: an inductive invariant.  *)

AtDebit == {"debit", "prove", "update"}      \* the row is in the journal
AtCard == {"init", "mac", "add", "debit"}    \* the card is being talked to
InHand == {"request", "prove", "update"} \cup AtCard

\* Keys are seconds that are over.
KeysPast ==
  /\ \A k \in DOMAIN trans : k <= clock
  /\ \A d \in debits : d.key <= clock
  /\ copy.key <= clock

\* From the reading of the card on, the purchase has a card and, once it is
\* typed, an amount; from psam_purchase_mac on, a key.
PurchaseInHand ==
  /\ mpc \in {"check", "input"} \cup InHand => p16card.cardno \in Cards
  /\ mpc \in InHand => money \in Amounts
  /\ mpc \in {"add"} \cup AtDebit => p16card.term \in 1..clock

\* The card that answers is the purchase's, and once it is armed for the amount
\* its balance is the one in the context and covers it.
CardInHand ==
  /\ session # "off" => field \in Cards
  /\ session # "off" /\ mpc \in AtCard => field = p16card.cardno
  /\ session = "armed" =>
       /\ mpc \in {"mac", "add", "debit"}
       /\ balance[field] = p16card.cardbefbal
       /\ money <= balance[field]

\* Until trans_add_record nothing uses the key, and until the debit no debit.
KeyUnused ==
  /\ mpc = "add" => p16card.term \notin DOMAIN trans /\ copy.key # p16card.term
  /\ mpc \in {"add", "debit"} => \A d \in debits : d.key # p16card.term

\* Afterwards the row says what the context says.
RowInHand ==
  mpc \in AtDebit =>
    /\ p16card.term \in DOMAIN trans
    /\ trans[p16card.term].cardno = p16card.cardno
    /\ trans[p16card.term].cardbefbal = p16card.cardbefbal
    /\ trans[p16card.term].amount = money

\* The upload thread's copy may be stale in its result, never in these columns.
CopyDescribes ==
  copy.key \in DOMAIN trans =>
    /\ trans[copy.key].cardno = copy.row.cardno
    /\ trans[copy.key].cardbefbal = copy.row.cardbefbal
    /\ trans[copy.key].amount = copy.row.amount

\* Every TAC in memory or in the journal is the answer to a debit.
Proved(tac) == tac # NoStamp => \E d \in debits : d.key = tac
TacsProved ==
  /\ Proved(p16card.tac)
  /\ Proved(copy.row.tac)
  /\ \A k \in DOMAIN trans : Proved(trans[k].tac)

\* A list is saved as long as it has an entry left.
ListInHand == upc = "save" => recvList # <<>>

\* The journal tells the truth about the cards at every step, and what each
\* step of the purchase may rely on (deposit.c:415-526 against
\* p16main.c:575-594).
PurchaseInv ==
  /\ TypeOK
  /\ KeysPast /\ PurchaseInHand /\ CardInHand /\ KeyUnused
  /\ RowInHand /\ CopyDescribes /\ TacsProved /\ ListInHand
  /\ DebitsDescribed

-----------------------------------------------------------------------------
(* What the comments of the code say and the code does not do.              *)

\* "Returns 0 if the purchase succeeded, 1 if it did not, -1 if the card cannot
\* be read" (get_purchase_card_prove, cardop.c:1243-1244): a row whose write is
\* recorded as a success stands for a debit.
WriteOkMeansDebited ==
  \A k \in DOMAIN trans :
    trans[k].transflag = "WRITE_CARD_OK" => \E d \in debits : d.key = k

\* "TRANSFLAG: 0 means that writing the card was not started, 1 that it
\* succeeded, 2 that it failed" (syspara.c:233-234): a row that once said 1 or 2
\* does not say 0 later.
ResultNotForgotten ==
  [][\A k \in DOMAIN trans \cap DOMAIN trans' :
       trans[k].transflag # "INIT" => trans'[k].transflag # "INIT"]_vars

-----------------------------------------------------------------------------
\* The machine implements the write-ahead journal.
EntryOf(k) == [key |-> k, card |-> trans[k].cardno, amount |-> trans[k].amount,
               befbal |-> trans[k].cardbefbal]
Entries == [key : 1..MaxStamp, card : Cards, amount : Amounts, befbal : 0..MaxBalance]
WA == INSTANCE WriteAhead WITH
        Keys <- Stamps \ {NoStamp}, Entries <- Entries,
        journal <- {EntryOf(k) : k \in DOMAIN trans}, taken <- debits

\* Every step of the machine records, takes or forgets entries of an abstract
\* journal, or leaves it alone (the order of trans_add_record, debit_4_purchase
\* and trans_update_record, against everything else that writes TRANSDTL).
ImplementsWriteAhead == WA!Spec
=============================================================================
