----------------------- MODULE PurchaseMachineProofs -----------------------
(***************************************************************************)
(* The journal tells the truth about the cards, whatever the number of     *)
(* cards, purchases and rows: PurchaseInv is inductive, and the properties *)
(* of PurchaseMachine that follow from it.  One lemma per group of steps:  *)
(* the holder's, the operator's, the main thread's, the upload thread's,   *)
(* and the loss and return of power.                                       *)
(***************************************************************************)
EXTENDS PurchaseMachine, SequenceTheorems, TLAPS

-----------------------------------------------------------------------------
(* The statements on TRANSDTL.                                             *)

\* INSERT adds one row and leaves the others alone.
LEMMA InsertedRow ==
  ASSUME trans \in [DOMAIN trans -> Rows], NEW key, NEW row \in Rows, InsertRow(key, row)
  PROVE  /\ key \notin DOMAIN trans
         /\ DOMAIN trans' = DOMAIN trans \cup {key}
         /\ trans'[key] = row
         /\ \A k \in DOMAIN trans : trans'[k] = trans[k]
         /\ trans' \in [DOMAIN trans' -> Rows]
BY DEF InsertRow

\* UPDATE changes at most the row of its key; a row that was deleted in the
\* meantime does not come back.
LEMMA UpdatedRow ==
  ASSUME trans \in [DOMAIN trans -> Rows], NEW key, NEW row,
         key \in DOMAIN trans => row \in Rows, UpdateRow(key, row)
  PROVE  /\ DOMAIN trans' = DOMAIN trans
         /\ key \in DOMAIN trans => trans'[key] = row
         /\ \A k \in DOMAIN trans \ {key} : trans'[k] = trans[k]
         /\ trans' \in [DOMAIN trans' -> Rows]
BY DEF UpdateRow

\* DELETE takes rows away and leaves the others alone.
LEMMA DeletedRows ==
  ASSUME trans \in [DOMAIN trans -> Rows], NEW keys, DeleteRows(keys)
  PROVE  /\ DOMAIN trans' = DOMAIN trans \ keys
         /\ \A k \in DOMAIN trans' : trans'[k] = trans[k]
         /\ trans' \in [DOMAIN trans' -> Rows]
BY DEF DeleteRows

\* The row that do_card_purchase builds is a row, whatever its result.
LEMMA TransdtlTyped ==
  ASSUME PurchaseInv, mpc \in InHand,
         NEW flag \in TransFlags, NEW tac \in Stamps
  PROVE  Transdtl(flag, tac) \in Rows
BY DEF PurchaseInv, TypeOK, PurchaseTypeOK, PurchaseInHand, InHand, AtCard, AtDebit,
       Transdtl, Rows, Ctx

\* The card's answer to the debit: one debit more, the one its row describes.
LEMMA CardGivesUp ==
  ASSUME PurchaseInv, mpc = "debit", CardDebits
  PROVE  LET d == [key |-> p16card.term, card |-> field, amount |-> money,
                   befbal |-> balance[field]]
         IN  /\ debits' = debits \cup {d}
             /\ d \in Debit
             /\ p16card.term \in DOMAIN trans /\ Describes(trans[p16card.term], d)
             /\ balance' \in [Cards -> Nat]
             /\ session' = "ready" /\ field' = field /\ field \in Cards
             /\ field = p16card.cardno
  <1>1. /\ field \in Cards /\ field = p16card.cardno
        /\ balance[field] = p16card.cardbefbal
    BY DEF PurchaseInv, CardDebits, CardInHand, AtCard
  <1>2. money \in Amounts /\ p16card.term \in 1..clock /\ clock \in Nat
    BY DEF PurchaseInv, TypeOK, PurchaseTypeOK, PurchaseInHand, InHand, AtCard, AtDebit
  <1>3. money \in Nat /\ balance \in [Cards -> Nat]
    BY DEF PurchaseInv, TypeOK, PurchaseTypeOK
  <1>4. balance' \in [Cards -> Nat]
    BY <1>1, <1>3 DEF CardDebits
  <1>5. /\ p16card.term \in DOMAIN trans
        /\ trans[p16card.term].cardno = field
        /\ trans[p16card.term].cardbefbal = balance[field]
        /\ trans[p16card.term].amount = money
    BY <1>1 DEF PurchaseInv, RowInHand, AtDebit
  <1> QED BY <1>1, <1>2, <1>3, <1>4, <1>5 DEF CardDebits, Debit, Describes, Stamps

\* A purchase that ends, for whatever reason, leaves nothing to rely on.
LEMMA ForgettingKeepsInv ==
  ASSUME PurchaseInv, ForgetPurchase, mpc' \in {"wait", "menu"},
         UNCHANGED <<clock, field, balance, debits, storeVars, uploadVars>>
  PROVE  PurchaseInv'
BY CardsAssumption
   DEF PurchaseInv, TypeOK, StoreTypeOK, PurchaseTypeOK, UploadTypeOK, KeysPast,
       PurchaseInHand, CardInHand, KeyUnused, RowInHand, CopyDescribes, TacsProved,
       Proved, ListInHand, DebitsDescribed, InHand, AtDebit, AtCard, MainPcs, ForgetPurchase, NoCtx,
       NoStamp, Ctx, Stamps, Sessions, TransFlags, NotVetted, CardFlags,
       storeVars, uploadVars, listVars, netVars

-----------------------------------------------------------------------------
(* The first state.                                                        *)

\* A machine as delivered: empty journal, no card on the reader, both threads at
\* their start (p16main.c:1106-1157).
LEMMA InitInv == Init => PurchaseInv
BY CardsAssumption, BoundsAssumption
   DEF Init, StoreInit, PurchaseInit, UploadInit, PurchaseInv, TypeOK, StoreTypeOK,
       PurchaseTypeOK, UploadTypeOK, KeysPast, PurchaseInHand, CardInHand, KeyUnused,
       RowInHand, CopyDescribes, TacsProved, Proved, ListInHand, DebitsDescribed,
       InHand, AtDebit, AtCard, MainPcs, UploadPcs, Ctx, NoCtx, Sessions, TransFlags, Stamps, NoStamp,
       ZeroCopy, ZeroRow, NotVetted, CardFlags

-----------------------------------------------------------------------------
(* The card holder's steps.                                                *)

\* Putting a card down, taking it away, or using it elsewhere disturbs nothing a
\* purchase relies on: a card that leaves is no longer armed.
LEMMA HolderKeepsInv ==
  ASSUME PurchaseInv, HolderStep, UNCHANGED uploadVars
  PROVE  PurchaseInv'
  <1> USE CardsAssumption, CardSetsAssumption, BoundsAssumption
      DEF PurchaseInv, TypeOK, StoreTypeOK, PurchaseTypeOK, UploadTypeOK, KeysPast,
          PurchaseInHand, CardInHand, KeyUnused, RowInHand, CopyDescribes, TacsProved,
          Proved, ListInHand, DebitsDescribed, InHand, AtDebit, AtCard, Sessions,
          uploadVars, listVars, netVars, ctxVars, histVars, storeVars
  <1>1. ASSUME NEW c \in Cards, PlaceCard(c) PROVE PurchaseInv'
    BY <1>1 DEF PlaceCard
  <1>2. CASE RemoveCard
    BY <1>2 DEF RemoveCard
  <1>3. ASSUME NEW c \in Cards, UseElsewhere(c) PROVE PurchaseInv'
    BY <1>3 DEF UseElsewhere
  <1> QED BY <1>1, <1>2, <1>3 DEF HolderStep

-----------------------------------------------------------------------------
(* The operator's steps.                                                   *)

\* Nor does the operator: the amount typed is one of Amounts, the card requested
\* again is the one that was read, and the journal is emptied between purchases
\* only (deposit.c:406-442, deposit.c:958-1012, menu.c:610-624).
LEMMA OperatorKeepsInv ==
  ASSUME PurchaseInv, OperatorStep, UNCHANGED uploadVars
  PROVE  PurchaseInv'
  <1> USE CardsAssumption, CardSetsAssumption
      DEF PurchaseInv, TypeOK, StoreTypeOK, PurchaseTypeOK, UploadTypeOK, KeysPast,
          PurchaseInHand, CardInHand, KeyUnused, RowInHand, CopyDescribes, TacsProved,
          Proved, ListInHand, DebitsDescribed, InHand, AtDebit, AtCard, MainPcs, uploadVars, Goto
  <1>1. CASE EnterPurchase
    BY <1>1 DEF EnterPurchase, ctxVars, cardVars, histVars, storeVars, listVars, netVars
  <1>2. CASE LeavePurchase
    BY <1>2 DEF LeavePurchase, ctxVars, cardVars, histVars, storeVars, listVars, netVars
  <1>3. CASE ReadCard
    <2>1. /\ mpc = "wait" /\ mpc' = "check" /\ field \in Cards
          /\ p16card' = [p16card EXCEPT !.cardno = field, !.cardbefbal = balance[field]]
          /\ UNCHANGED <<cardVars, money, write_card_ret, clock, histVars, storeVars>>
      BY <1>3 DEF ReadCard, Goto
    <2>2. p16card \in Ctx /\ balance[field] \in Nat
      BY <2>1 DEF PurchaseInv, TypeOK, PurchaseTypeOK
    <2>3. /\ p16card' \in Ctx /\ p16card'.cardno \in Cards
          /\ p16card'.tac = p16card.tac
      BY <2>1, <2>2 DEF Ctx, Stamps
    <2> QED
      BY <2>1, <2>3 DEF cardVars, histVars, storeVars, listVars, netVars
  <1>4. ASSUME NEW m \in TypedIn, InputMoney(m) PROVE PurchaseInv'
    <2>1. m \in Amounts /\ m \in Nat
      BY <1>4, AmountsAssumption DEF InputMoney, Amounts
    <2> QED
      BY <2>1, <1>4 DEF InputMoney, cardVars, histVars, storeVars, listVars, netVars
  <1>5. CASE CancelMoney
    BY <1>5, ForgettingKeepsInv DEF CancelMoney, Goto
  <1>6. CASE RequestSameCard
    BY <1>6 DEF RequestSameCard, Sessions, ctxVars, histVars, storeVars, listVars, netVars
  <1>7. CASE AbandonPurchase
    BY <1>7, ForgettingKeepsInv DEF AbandonPurchase, Goto
  <1>8. CASE ProveCard
    BY <1>8 DEF ProveCard, Sessions, TransFlags, histVars, storeVars, listVars, netVars
  <1>9. CASE CancelWrite
    BY <1>9 DEF CancelWrite, TransFlags, cardVars, histVars, storeVars, listVars, netVars
  <1>10. CASE ClearTransdtl
    <2>1. /\ DOMAIN trans' = {}
          /\ trans' \in [DOMAIN trans' -> Rows]
      <3>1. DeleteRows(DOMAIN trans) /\ trans \in [DOMAIN trans -> Rows]
        BY <1>10 DEF ClearTransdtl
      <3> QED BY <3>1, DeletedRows
    <2>2. mpc = "menu" /\ UNCHANGED <<black, dbVersion, mainVars>>
      BY <1>10 DEF ClearTransdtl
    <2> QED
      BY <2>1, <2>2 DEF mainVars, ctxVars, cardVars, histVars, listVars, netVars
  <1>11. CASE FactoryReset
    BY <1>11 DEF FactoryReset, mainVars, ctxVars, cardVars, histVars, listVars, netVars
  <1> QED
    BY <1>1, <1>2, <1>3, <1>4, <1>5, <1>6, <1>7, <1>8, <1>9, <1>10, <1>11 DEF OperatorStep

-----------------------------------------------------------------------------
(* The main thread's own steps, those that neither write the journal nor    *)
(* debit a card first.                                                      *)

QuietMainStep ==
  \/ CheckBlackcard \/ RefuseBlackcard \/ Init4Purchase \/ PsamPurchaseMac
  \/ TransAddFails \/ DebitRefused \/ TransUpdateFails

\* The main thread's steps that write neither a row nor a purse; among them
\* psam_purchase_mac, whose clock reading is a key nothing uses yet
\* (cardop.c:386-494).
LEMMA QuietMainKeepsInv ==
  ASSUME PurchaseInv, QuietMainStep, UNCHANGED uploadVars
  PROVE  PurchaseInv'
  <1> USE CardsAssumption
      DEF PurchaseInv, TypeOK, StoreTypeOK, PurchaseTypeOK, UploadTypeOK, KeysPast,
          PurchaseInHand, CardInHand, KeyUnused, RowInHand, CopyDescribes, TacsProved,
          Proved, ListInHand, DebitsDescribed, InHand, AtDebit, AtCard, MainPcs, uploadVars, Goto
  <1>1. CASE CheckBlackcard
    BY <1>1 DEF CheckBlackcard, CardFlags, ctxVars, cardVars, storeVars, listVars, netVars
  <1>2. CASE RefuseBlackcard
    BY <1>2, ForgettingKeepsInv DEF RefuseBlackcard, Goto
  <1>3. CASE Init4Purchase
    <2>1. /\ mpc = "init" /\ mpc' = "mac" /\ session # "off" /\ session' = "armed"
          /\ money <= balance[field]
          /\ p16card' = [p16card EXCEPT !.cardbefbal = balance[field]]
          /\ UNCHANGED <<field, balance, money, write_card_ret, clock, histVars, storeVars>>
      BY <1>3 DEF Init4Purchase, Goto, PurchaseInv, TypeOK, PurchaseTypeOK, CardInHand
    <2>2. p16card \in Ctx /\ field \in Cards /\ balance[field] \in Nat
      BY <2>1 DEF PurchaseInv, TypeOK, PurchaseTypeOK, CardInHand
    <2>3. /\ p16card' \in Ctx /\ p16card'.cardno = p16card.cardno
          /\ p16card'.cardbefbal = balance[field] /\ p16card'.tac = p16card.tac
      BY <2>1, <2>2 DEF Ctx, Stamps
    <2> QED
      BY <2>1, <2>2, <2>3 DEF Sessions, histVars, storeVars, listVars, netVars
  <1>4. CASE PsamPurchaseMac
    <2>1. /\ mpc = "mac" /\ mpc' = "add"
          /\ clock \in Nat /\ clock' = clock + 1
          /\ p16card' = [p16card EXCEPT !.term = clock']
          /\ UNCHANGED <<money, write_card_ret, cardVars, histVars, storeVars, uploadVars>>
      BY <1>4 DEF PsamPurchaseMac
    <2>2. p16card \in Ctx /\ clock' \in Stamps
      BY <2>1 DEF PurchaseInv, TypeOK, PurchaseTypeOK, Stamps
    <2>b. /\ p16card' \in Ctx /\ p16card'.term = clock'
          /\ p16card'.cardno = p16card.cardno
          /\ p16card'.cardbefbal = p16card.cardbefbal /\ p16card'.tac = p16card.tac
      BY <2>1, <2>2 DEF Ctx, Stamps
    <2>3. TypeOK'
      BY <2>1, <2>b DEF cardVars, histVars, storeVars, listVars, netVars
    <2>4. /\ \A k \in DOMAIN trans : k \in Nat /\ k <= clock
          /\ \A d \in debits : d.key \in Nat /\ d.key <= clock
          /\ copy.key \in Nat /\ copy.key <= clock
      BY DEF Debit, Stamps, NoStamp, ZeroCopy
    <2>5. KeysPast' /\ KeyUnused'
      BY <2>1, <2>4, <2>b DEF histVars, storeVars
    <2>6. (PurchaseInHand /\ CardInHand /\ RowInHand)'
      BY <2>1, <2>b DEF cardVars, histVars, storeVars
    <2>7. (CopyDescribes /\ TacsProved /\ ListInHand /\ DebitsDescribed)'
      BY <2>1, <2>b DEF Describes, cardVars, histVars, storeVars, listVars
    <2> QED BY <2>3, <2>5, <2>6, <2>7
  <1>5. CASE TransAddFails
    BY <1>5, ForgettingKeepsInv DEF TransAddFails, Goto
  <1>6. CASE DebitRefused
    BY <1>6 DEF DebitRefused, Sessions, ctxVars, histVars, storeVars, listVars, netVars
  <1>7. CASE TransUpdateFails
    BY <1>7, ForgettingKeepsInv DEF TransUpdateFails, Goto
  <1> QED BY <1>1, <1>2, <1>3, <1>4, <1>5, <1>6, <1>7 DEF QuietMainStep

-----------------------------------------------------------------------------
(* trans_add_record, the debit, and trans_update_record.                   *)

\* trans_add_record puts the row in that the context describes
\* (deposit.c:476-509).
LEMMA AddKeepsInv ==
  ASSUME PurchaseInv, TransAddRecord, UNCHANGED uploadVars
  PROVE  PurchaseInv'
  <1> DEFINE key == p16card.term
             row == Transdtl("INIT", NoStamp)
  <1>1. /\ InsertRow(key, row) /\ mpc = "add" /\ mpc' = "debit"
        /\ UNCHANGED <<black, dbVersion, ctxVars, cardVars, histVars>>
    BY DEF TransAddRecord, Goto
  <1>2. row \in Rows
    <2>1. mpc \in InHand /\ "INIT" \in TransFlags /\ NoStamp \in Stamps
      BY <1>1 DEF InHand, AtCard, TransFlags, Stamps, NoStamp
    <2> QED BY <2>1, TransdtlTyped
  <1>3. key \in Stamps \ {NoStamp} /\ key <= clock
    BY <1>1 DEF PurchaseInv, TypeOK, PurchaseTypeOK, PurchaseInHand, Stamps, NoStamp
  <1>4. /\ row.cardno = p16card.cardno /\ row.cardbefbal = p16card.cardbefbal
        /\ row.amount = money /\ row.tac = NoStamp
    BY DEF Transdtl
  <1> HIDE DEF row
  <1>5. /\ key \notin DOMAIN trans
        /\ DOMAIN trans' = DOMAIN trans \cup {key}
        /\ trans'[key] = row
        /\ \A k \in DOMAIN trans : trans'[k] = trans[k]
        /\ trans' \in [DOMAIN trans' -> Rows]
    BY <1>1, <1>2, InsertedRow DEF PurchaseInv, TypeOK, StoreTypeOK
  <1>6. TypeOK'
    BY <1>1, <1>3, <1>5
       DEF PurchaseInv, TypeOK, StoreTypeOK, PurchaseTypeOK, UploadTypeOK, MainPcs, ctxVars,
           cardVars, histVars, uploadVars, listVars, netVars
  <1>7. KeysPast'
    BY <1>1, <1>3, <1>5 DEF PurchaseInv, KeysPast, ctxVars, histVars, uploadVars
  <1>8. (PurchaseInHand /\ CardInHand /\ KeyUnused)'
    BY <1>1, <1>3
       DEF PurchaseInv, PurchaseInHand, CardInHand, KeyUnused, InHand, AtCard, AtDebit,
           ctxVars, cardVars, histVars
  <1>9. RowInHand' /\ CopyDescribes'
    BY <1>1, <1>4, <1>5
       DEF PurchaseInv, RowInHand, CopyDescribes, KeyUnused, ctxVars, uploadVars
  <1>10. TacsProved'
    BY <1>1, <1>4, <1>5
       DEF PurchaseInv, TacsProved, Proved, ctxVars, histVars, uploadVars
  <1>11. DebitsDescribed' /\ ListInHand'
    BY <1>1, <1>5
       DEF PurchaseInv, DebitsDescribed, Describes, KeyUnused, ListInHand, histVars,
           uploadVars, listVars
  <1> QED BY <1>6, <1>7, <1>8, <1>9, <1>10, <1>11 DEF PurchaseInv

\* A debit, answered or not, is the one its row describes, the first of its key,
\* and the only thing that makes a TAC (cardop.c:496-535).
LEMMA DebitKeepsInv ==
  ASSUME PurchaseInv, DebitAnswered \/ DebitUnanswered, UNCHANGED uploadVars
  PROVE  PurchaseInv'
  <1> DEFINE d == [key |-> p16card.term, card |-> field, amount |-> money,
                   befbal |-> balance[field]]
  <1>1. /\ CardDebits /\ mpc = "debit" /\ mpc' \in {"prove", "update"}
        /\ UNCHANGED <<money, clock, vetted, storeVars, uploadVars>>
        /\ \/ p16card' = p16card /\ write_card_ret' = write_card_ret
           \/ /\ p16card' = [p16card EXCEPT !.tac = p16card.term]
              /\ write_card_ret' = "WRITE_CARD_OK"
    BY DEF DebitAnswered, DebitUnanswered, Goto, ctxVars
  <1>2. /\ debits' = debits \cup {d} /\ d \in Debit /\ d.key = p16card.term
        /\ p16card.term \in DOMAIN trans /\ Describes(trans[p16card.term], d)
        /\ balance' \in [Cards -> Nat]
        /\ session' = "ready" /\ field' = field /\ field \in Cards
    BY <1>1, CardGivesUp
  <1> HIDE DEF d
  <1>3. /\ p16card' \in Ctx /\ p16card'.cardno = p16card.cardno
        /\ p16card'.cardbefbal = p16card.cardbefbal /\ p16card'.term = p16card.term
        /\ p16card'.tac \in {p16card.tac, p16card.term}
    BY <1>1 DEF PurchaseInv, TypeOK, PurchaseTypeOK, Ctx
  <1>4. p16card.term \in 1..clock
    BY <1>1 DEF PurchaseInv, PurchaseInHand, AtDebit
  <1>5. TypeOK'
    BY <1>1, <1>2, <1>3
       DEF PurchaseInv, TypeOK, StoreTypeOK, PurchaseTypeOK, UploadTypeOK, MainPcs, Sessions,
           TransFlags, storeVars, uploadVars, listVars, netVars
  <1>6. KeysPast'
    BY <1>1, <1>2, <1>4 DEF PurchaseInv, KeysPast, storeVars, uploadVars
  <1>7. (PurchaseInHand /\ CardInHand /\ KeyUnused)'
    BY <1>1, <1>2, <1>3, <1>4
       DEF PurchaseInv, PurchaseInHand, CardInHand, KeyUnused, InHand, AtCard, AtDebit
  <1>8. RowInHand' /\ CopyDescribes'
    BY <1>1, <1>3
       DEF PurchaseInv, RowInHand, CopyDescribes, AtDebit, storeVars, uploadVars
  <1>9. TacsProved'
    BY <1>1, <1>2, <1>3 DEF PurchaseInv, TacsProved, Proved, storeVars, uploadVars
  <1>10. DebitsDescribed' /\ ListInHand'
    BY <1>1, <1>2
       DEF PurchaseInv, DebitsDescribed, ListInHand, storeVars, uploadVars, listVars
  <1> QED BY <1>5, <1>6, <1>7, <1>8, <1>9, <1>10 DEF PurchaseInv

\* trans_update_record changes the result, the TAC and the mark of the row, not
\* what it says of the card (deposit.c:510-561).
LEMMA UpdateKeepsInv ==
  ASSUME PurchaseInv, TransUpdateRecord, UNCHANGED uploadVars
  PROVE  PurchaseInv'
  <1> DEFINE key == p16card.term
             row == Transdtl(write_card_ret, p16card.tac)
  <1>1. /\ UpdateRow(key, row) /\ ForgetPurchase /\ mpc = "update" /\ mpc' = "wait"
        /\ UNCHANGED <<black, dbVersion, clock, field, balance, debits>>
    BY DEF TransUpdateRecord, Goto
  <1>2. row \in Rows
    <2>1. mpc \in InHand /\ write_card_ret \in TransFlags /\ p16card.tac \in Stamps
      BY <1>1 DEF InHand, PurchaseInv, TypeOK, PurchaseTypeOK, Ctx
    <2> QED BY <2>1, TransdtlTyped
  <1>3. /\ row.cardno = p16card.cardno /\ row.cardbefbal = p16card.cardbefbal
        /\ row.amount = money /\ row.tac = p16card.tac
    BY DEF Transdtl
  <1>4. /\ key \in DOMAIN trans /\ trans[key].cardno = row.cardno
        /\ trans[key].cardbefbal = row.cardbefbal /\ trans[key].amount = row.amount
    BY <1>1, <1>3 DEF PurchaseInv, RowInHand, AtDebit
  <1> HIDE DEF row
  <1>5. /\ DOMAIN trans' = DOMAIN trans
        /\ trans'[key] = row
        /\ \A k \in DOMAIN trans \ {key} : trans'[k] = trans[k]
        /\ trans' \in [DOMAIN trans' -> Rows]
    BY <1>1, <1>2, <1>4, UpdatedRow DEF PurchaseInv, TypeOK, StoreTypeOK
  <1>6. \A k \in DOMAIN trans :
          /\ trans'[k].cardno = trans[k].cardno
          /\ trans'[k].cardbefbal = trans[k].cardbefbal
          /\ trans'[k].amount = trans[k].amount
    BY <1>4, <1>5
  <1>7. TypeOK'
    BY <1>1, <1>5, CardsAssumption
       DEF PurchaseInv, TypeOK, StoreTypeOK, PurchaseTypeOK, UploadTypeOK, MainPcs,
           ForgetPurchase, NoCtx, Ctx, Stamps, NoStamp, Sessions, TransFlags, NotVetted,
           CardFlags, uploadVars, listVars, netVars
  <1>8. KeysPast'
    BY <1>1, <1>5 DEF PurchaseInv, KeysPast, uploadVars
  <1>9. (PurchaseInHand /\ CardInHand /\ KeyUnused /\ RowInHand)'
    BY <1>1
       DEF PurchaseInHand, CardInHand, KeyUnused, RowInHand, InHand, AtCard, AtDebit,
           ForgetPurchase
  <1>10. CopyDescribes'
    BY <1>5, <1>6 DEF PurchaseInv, CopyDescribes, uploadVars
  <1>11. TacsProved'
    BY <1>1, <1>3, <1>5
       DEF PurchaseInv, TacsProved, Proved, ForgetPurchase, NoCtx, uploadVars
  <1>12. DebitsDescribed' /\ ListInHand'
    BY <1>1, <1>5, <1>6
       DEF PurchaseInv, DebitsDescribed, Describes, ListInHand, uploadVars, listVars
  <1> QED BY <1>7, <1>8, <1>9, <1>10, <1>11, <1>12 DEF PurchaseInv

\* The main thread, its operator and its card holders keep the invariant.
LEMMA MainKeepsInv ==
  ASSUME PurchaseInv, MainThread
  PROVE  PurchaseInv'
BY HolderKeepsInv, OperatorKeepsInv, QuietMainKeepsInv, AddKeepsInv, DebitKeepsInv,
   UpdateKeepsInv
   DEF MainThread, PurchaseNext, MainStep, QuietMainStep

-----------------------------------------------------------------------------
(* The upload thread: only its UPDATE writes the journal.                   *)

\* The SELECT takes a faithful copy, or the zeroed record (p16main.c:575-586).
LEMMA FetchKeepsInv ==
  ASSUME PurchaseInv, GetLastRecord, UNCHANGED mainVars
  PROVE  PurchaseInv'
  <1>1. /\ upc' \in {"mark", "heart"}
        /\ UNCHANGED <<listVars, netVars, storeVars, mainVars>>
        /\ \/ copy' = copy \/ copy' = ZeroCopy
           \/ \E k \in DOMAIN trans : copy' = [key |-> k, row |-> trans[k]]
    BY DEF GetLastRecord
  <1>2. /\ copy'.key = NoStamp \/ copy'.key = copy.key \/ copy'.key \in DOMAIN trans
        /\ copy' \in [key : Stamps \ {NoStamp}, row : Rows] \cup {ZeroCopy}
    BY <1>1 DEF ZeroCopy, PurchaseInv, TypeOK, StoreTypeOK, UploadTypeOK
  <1>3. TypeOK'
    BY <1>1, <1>2
       DEF PurchaseInv, TypeOK, StoreTypeOK, PurchaseTypeOK, UploadTypeOK, UploadPcs, mainVars,
           ctxVars, cardVars, histVars, storeVars, listVars, netVars
  <1>4. KeysPast'
    BY <1>1, <1>2
       DEF PurchaseInv, TypeOK, PurchaseTypeOK, KeysPast, NoStamp, mainVars, ctxVars,
           histVars, storeVars
  <1>5. (PurchaseInHand /\ CardInHand /\ RowInHand /\ DebitsDescribed /\ ListInHand)'
    BY <1>1
       DEF PurchaseInv, PurchaseInHand, CardInHand, RowInHand, DebitsDescribed, Describes,
           ListInHand, mainVars, ctxVars, cardVars, histVars, storeVars
  <1>6. KeyUnused'
    BY <1>1, <1>2
       DEF PurchaseInv, PurchaseInHand, KeyUnused, NoStamp, mainVars, ctxVars, histVars,
           storeVars
  <1>7. CopyDescribes' /\ TacsProved'
    BY <1>1
       DEF PurchaseInv, TypeOK, StoreTypeOK, CopyDescribes, TacsProved, Proved, ZeroCopy,
           ZeroRow, NoStamp, mainVars, ctxVars, histVars, storeVars
  <1> QED BY <1>3, <1>4, <1>5, <1>6, <1>7 DEF PurchaseInv

\* The UPDATE from that copy, however old it is, keeps card, balance and amount
\* of the row (p16main.c:586-593).
LEMMA MarkKeepsInv ==
  ASSUME PurchaseInv, MarkConfirm, UNCHANGED mainVars
  PROVE  PurchaseInv'
  <1> DEFINE row == [copy.row EXCEPT !.confirm = 1]
  <1>1. /\ UpdateRow(copy.key, row) /\ upc' = "send"
        /\ UNCHANGED <<copy, listVars, netVars, black, dbVersion, mainVars>>
    BY DEF MarkConfirm, Step
  <1>2. copy.key \in DOMAIN trans => copy.row \in Rows
    BY DEF PurchaseInv, TypeOK, StoreTypeOK, UploadTypeOK, ZeroCopy, NoStamp
  <1>3. copy.key \in DOMAIN trans =>
          /\ row \in Rows /\ row.cardno = copy.row.cardno
          /\ row.cardbefbal = copy.row.cardbefbal /\ row.amount = copy.row.amount
          /\ row.tac = copy.row.tac
    BY <1>2 DEF Rows
  <1> HIDE DEF row
  <1>4. /\ DOMAIN trans' = DOMAIN trans
        /\ copy.key \in DOMAIN trans => trans'[copy.key] = row
        /\ \A k \in DOMAIN trans \ {copy.key} : trans'[k] = trans[k]
        /\ trans' \in [DOMAIN trans' -> Rows]
    BY <1>1, <1>3, UpdatedRow DEF PurchaseInv, TypeOK, StoreTypeOK
  <1>5. \A k \in DOMAIN trans :
          /\ trans'[k].cardno = trans[k].cardno
          /\ trans'[k].cardbefbal = trans[k].cardbefbal
          /\ trans'[k].amount = trans[k].amount
    BY <1>3, <1>4 DEF PurchaseInv, CopyDescribes
  <1>6. TypeOK'
    BY <1>1, <1>4
       DEF PurchaseInv, TypeOK, StoreTypeOK, PurchaseTypeOK, UploadTypeOK, UploadPcs, mainVars,
           ctxVars, cardVars, histVars, listVars, netVars
  <1>7. (KeysPast /\ PurchaseInHand /\ CardInHand /\ KeyUnused)'
    BY <1>1, <1>4
       DEF PurchaseInv, KeysPast, PurchaseInHand, CardInHand, KeyUnused, mainVars, ctxVars,
           cardVars, histVars
  <1>8. (RowInHand /\ CopyDescribes /\ DebitsDescribed /\ ListInHand)'
    BY <1>1, <1>4, <1>5
       DEF PurchaseInv, ListInHand, RowInHand, CopyDescribes, DebitsDescribed, Describes, mainVars,
           ctxVars, histVars
  <1>9. TacsProved'
    BY <1>1, <1>3, <1>4
       DEF PurchaseInv, TacsProved, Proved, mainVars, ctxVars, histVars
  <1> QED BY <1>6, <1>7, <1>8, <1>9 DEF PurchaseInv

\* The changes after a version, and the rest of a list.
LEMMA ChangesAfter ==
  ASSUME NEW log \in Seq(ListEntries), NEW n \in Nat
  PROVE  /\ SubSeq(log, n + 1, Len(log)) \in Seq(ListEntries)
         /\ Len(log) > n => SubSeq(log, n + 1, Len(log)) # <<>>
  <1>1. Len(log) \in Nat /\ \A i \in n + 1 .. Len(log) : log[i] \in ListEntries
    OBVIOUS
  <1>2. /\ SubSeq(log, n + 1, Len(log)) \in Seq(ListEntries)
        /\ Len(log) > n => Len(SubSeq(log, n + 1, Len(log))) # 0
    BY <1>1, SubSeqProperties
  <1> QED BY <1>2, EmptySeq

\* What Head and Tail leave of a list that is being saved.
LEMMA RestOfList ==
  ASSUME NEW list \in Seq(ListEntries), list # <<>>
  PROVE  /\ Head(list) \in ListEntries /\ Tail(list) \in Seq(ListEntries)
         /\ Len(list) # 1 => Tail(list) # <<>>
  <1>1. /\ Head(list) \in ListEntries /\ Tail(list) \in Seq(ListEntries)
        /\ Len(Tail(list)) = Len(list) - 1 /\ Len(list) \in Nat
    BY HeadTailProperties
  <1>2. Len(list) # 1 => Len(Tail(list)) # 0
    BY <1>1
  <1> QED BY <1>1, <1>2, EmptySeq

\* The rest of the thread, and the server, as far as their own state goes.
LEMMA ForwardTyped ==
  ASSUME PurchaseInv, ThreadStep \/ HostStep, ~GetLastRecord, ~MarkConfirm
  PROVE  /\ UploadTypeOK' /\ ListInHand'
         /\ copy' = copy \/ copy' = ZeroCopy
         /\ trans' = trans
         /\ black' \in [Cards -> CardFlags \cup {"none"}] /\ dbVersion' \in Nat
  <1> USE DEF PurchaseInv, TypeOK, StoreTypeOK, UploadTypeOK, ListInHand, UploadPcs, Step
  <1>1. CASE MarkFails
    BY <1>1 DEF MarkFails, listVars, netVars, storeVars
  <1>2. CASE SendRt
    <2>1. Report \subseteq Reports
      BY DEF Report, Reports, Rows, ZeroCopy, Stamps
    <2> QED BY <1>2, <2>1 DEF SendRt, Received, listVars, storeVars
  <1>3. CASE SendRtLost
    BY <1>3 DEF SendRtLost, listVars, netVars, storeVars
  <1>4. CASE SendHeart
    BY <1>4 DEF SendHeart, listVars, netVars, storeVars
  <1>5. CASE NoAnswer
    BY <1>5 DEF NoAnswer, listVars, netVars, storeVars
  <1>6. CASE SendDownload
    <2> DEFINE changes == SubSeq(hostLog, posVersion + 1, Len(hostLog))
    <2>1. /\ hostLog \in Seq(ListEntries) /\ posVersion \in Nat /\ Len(hostLog) \in Nat
          /\ changes \in Seq(ListEntries)
          /\ Len(hostLog) > posVersion => changes # <<>>
      BY ChangesAfter
    <2> HIDE DEF changes
    <2>2. /\ recvList' = changes /\ recvVersion' = Len(hostLog)
          /\ upc' = IF Len(hostLog) > posVersion THEN "save" ELSE "fetch"
          /\ UNCHANGED <<copy, posVersion, netVars, storeVars>>
      BY <1>6 DEF SendDownload, changes
    <2> QED BY <2>1, <2>2 DEF netVars, storeVars
  <1>7. CASE SaveBlackcard
    <2>1. /\ recvList \in Seq(ListEntries) /\ recvList # <<>>
          /\ recvList' = Tail(recvList)
          /\ black' = [black EXCEPT ![Head(recvList).card] = Head(recvList).flag]
          /\ upc' = IF Len(recvList) = 1 THEN "version" ELSE "save"
          /\ UNCHANGED <<copy, posVersion, recvVersion, netVars, trans, dbVersion>>
      BY <1>7 DEF SaveBlackcard
    <2>2. /\ Head(recvList) \in ListEntries /\ Tail(recvList) \in Seq(ListEntries)
          /\ Len(recvList) # 1 => Tail(recvList) # <<>>
      BY <2>1, RestOfList
    <2> QED BY <2>1, <2>2 DEF ListEntries, netVars
  <1>8. CASE UpdateVersion
    BY <1>8 DEF UpdateVersion, netVars
  <1>9. CASE UploadDies
    BY <1>9 DEF UploadDies, listVars, netVars, storeVars
  <1>10. CASE HostStep
    <2>1. PICK c \in Cards, f \in CardFlags : HostChanges(c, f)
      BY <1>10 DEF HostStep
    <2>2. Append(hostLog, [card |-> c, flag |-> f]) \in Seq(ListEntries)
      BY DEF ListEntries
    <2> QED BY <2>1, <2>2 DEF HostChanges, listVars, storeVars
  <1> QED
    BY <1>1, <1>2, <1>3, <1>4, <1>5, <1>6, <1>7, <1>8, <1>9, <1>10 DEF ThreadStep

\* The upload thread and the server keep the invariant.
LEMMA ThreadKeepsInv ==
  ASSUME PurchaseInv, UploadThread
  PROVE  PurchaseInv'
  <1>1. UNCHANGED mainVars /\ (ThreadStep \/ HostStep)
    BY DEF UploadThread
  <1>2. CASE ~GetLastRecord /\ ~MarkConfirm
    <2>1. /\ UploadTypeOK' /\ ListInHand'
          /\ copy' = copy \/ copy' = ZeroCopy
          /\ trans' = trans
          /\ black' \in [Cards -> CardFlags \cup {"none"}] /\ dbVersion' \in Nat
      BY <1>1, <1>2, ForwardTyped
    <2>2. TypeOK'
      BY <1>1, <2>1
         DEF PurchaseInv, TypeOK, StoreTypeOK, PurchaseTypeOK, mainVars, ctxVars, cardVars,
             histVars
    <2>3. KeysPast' /\ KeyUnused' /\ CopyDescribes' /\ TacsProved'
      BY <1>1, <2>1
         DEF PurchaseInv, TypeOK, StoreTypeOK, PurchaseTypeOK, KeysPast, PurchaseInHand,
             KeyUnused, CopyDescribes, TacsProved, Proved, ZeroCopy, ZeroRow, NoStamp,
             mainVars, ctxVars, histVars
    <2>4. (PurchaseInHand /\ CardInHand /\ RowInHand /\ DebitsDescribed)'
      BY <1>1, <2>1
         DEF PurchaseInv, PurchaseInHand, CardInHand, RowInHand, DebitsDescribed, Describes,
             mainVars, ctxVars, cardVars, histVars
    <2> QED BY <2>1, <2>2, <2>3, <2>4 DEF PurchaseInv
  <1> QED BY <1>1, <1>2, FetchKeepsInv, MarkKeepsInv

-----------------------------------------------------------------------------
(* Loss and return of power.                                               *)

\* Losing the memory loses the purchase as a whole, and start-up deletes rows but
\* alters none (p16main.c:173-184, p16main.c:1106-1157).
LEMMA PowerKeepsInv ==
  ASSUME PurchaseInv, PowerCut \/ PowerOn
  PROVE  PurchaseInv'
  <1>1. CASE PowerCut
    BY <1>1, CardsAssumption
       DEF PowerCut, MainLosesPower, UploadLosesPower, PurchaseInv, TypeOK, StoreTypeOK,
           PurchaseTypeOK, UploadTypeOK, KeysPast, PurchaseInHand, CardInHand, KeyUnused,
           RowInHand, CopyDescribes, TacsProved, Proved, ListInHand, DebitsDescribed,
           Describes, InHand, AtDebit, AtCard, MainPcs, UploadPcs, Ctx, NoCtx, Stamps, NoStamp,
           Sessions, TransFlags, NotVetted, CardFlags, ZeroCopy, ZeroRow, storeVars, netVars
  <1>2. CASE PowerOn
    <2>1. /\ mpc = "off" /\ mpc' = "menu" /\ upc' = "fetch" /\ posVersion' = dbVersion
          /\ UNCHANGED <<ctxVars, cardVars, histVars, black, dbVersion>>
          /\ UNCHANGED <<copy, recvList, recvVersion, netVars>>
          /\ \E keys : DeleteRows(keys)
      BY <1>2 DEF PowerOn, MainBoots, UploadBoots, Goto, Step
    <2>2. /\ DOMAIN trans' \subseteq DOMAIN trans
          /\ \A k \in DOMAIN trans' : trans'[k] = trans[k]
          /\ trans' \in [DOMAIN trans' -> Rows]
      BY <2>1, DeletedRows DEF PurchaseInv, TypeOK, StoreTypeOK
    <2>3. TypeOK'
      BY <2>1, <2>2
         DEF PurchaseInv, TypeOK, StoreTypeOK, PurchaseTypeOK, UploadTypeOK, MainPcs,
             UploadPcs, ctxVars, cardVars, histVars, netVars
    <2>4. (KeysPast /\ PurchaseInHand /\ CardInHand /\ KeyUnused /\ RowInHand)'
      BY <2>1, <2>2
         DEF PurchaseInv, KeysPast, PurchaseInHand, CardInHand, KeyUnused, RowInHand, InHand,
             AtDebit, AtCard, ctxVars, cardVars, histVars
    <2>5. (CopyDescribes /\ TacsProved /\ ListInHand /\ DebitsDescribed)'
      BY <2>1, <2>2
         DEF PurchaseInv, CopyDescribes, TacsProved, Proved, ListInHand, DebitsDescribed,
             Describes, ctxVars, histVars
    <2> QED BY <2>3, <2>4, <2>5 DEF PurchaseInv
  <1> QED BY <1>1, <1>2

-----------------------------------------------------------------------------
\* The invariant is inductive: every step of the machine keeps it.
LEMMA NextKeepsInv == PurchaseInv /\ [Next]_vars => PurchaseInv'
  <1> SUFFICES ASSUME PurchaseInv, [Next]_vars PROVE PurchaseInv'
    OBVIOUS
  <1>1. CASE Next
    BY <1>1, MainKeepsInv, ThreadKeepsInv, PowerKeepsInv DEF Next
  <1>2. CASE UNCHANGED vars
    BY <1>2
       DEF vars, mainVars, ctxVars, cardVars, histVars, uploadVars, listVars, netVars,
           storeVars, PurchaseInv, TypeOK, StoreTypeOK, PurchaseTypeOK, UploadTypeOK,
           KeysPast, PurchaseInHand, CardInHand, KeyUnused, RowInHand, CopyDescribes,
           TacsProved, Proved, ListInHand, DebitsDescribed, Describes
  <1> QED BY <1>1, <1>2

\* Whatever the two threads, the card holders and the power supply do, each
\* step of a purchase finds what it relies on, and every debit the journal has
\* a row for is described by it (deposit.c:406-522, p16main.c:575-594).
THEOREM PurchaseInvariant == Spec => []PurchaseInv
  <1>1. Init => PurchaseInv
    BY InitInv
  <1>2. PurchaseInv /\ [Next]_vars => PurchaseInv'
    BY NextKeepsInv
  <1> QED BY <1>1, <1>2, PTL DEF Spec

\* Every variable of the two threads and of the store keeps its type.
THEOREM TypeCorrect == Spec => []TypeOK
  <1>1. PurchaseInv => TypeOK
    BY DEF PurchaseInv
  <1> QED BY <1>1, PurchaseInvariant, PTL

\* Every row that stands for a debit names its card, its amount and the balance
\* just before (deposit.c:479-492 against the card's own answer).
THEOREM RowsDescribeDebits == Spec => []DebitsDescribed
  <1>1. PurchaseInv => DebitsDescribed
    BY DEF PurchaseInv
  <1> QED BY <1>1, PurchaseInvariant, PTL

\* A row with the TAC of its own purchase proves a debit (deposit.c:519).
THEOREM TacIsProof == Spec => []TacProvesDebit
  <1>1. PurchaseInv => TacProvesDebit
    BY DEF PurchaseInv, TypeOK, StoreTypeOK, TacsProved, Proved, TacProvesDebit
  <1> QED BY <1>1, PurchaseInvariant, PTL

-----------------------------------------------------------------------------
(* What a step may do to a card.                                           *)

\* The balance of the card on the reader falls, and a debit is recorded, only
\* by the card's answer to the debit command; everything else that happens to a
\* balance happens away from the reader.
LEMMA OnlyDebitsTake ==
  ASSUME PurchaseInv, [Next]_vars
  PROVE  \/ mpc = "debit" /\ CardDebits
         \/ /\ debits' = debits
            /\ \A c \in Cards : field = c => balance'[c] = balance[c]
  <1> DEFINE Untouched == /\ debits' = debits
                          /\ \A c \in Cards : field = c => balance'[c] = balance[c]
  <1>1. CASE UNCHANGED mainVars \/ UNCHANGED vars
    BY <1>1 DEF vars, mainVars, cardVars, histVars
  <1>2. CASE PowerCut \/ PowerOn
    BY <1>2 DEF PowerCut, PowerOn, MainLosesPower, MainBoots, cardVars, histVars
  <1>3. CASE HolderStep
    <2>1. ASSUME NEW c \in Cards, UseElsewhere(c) PROVE Untouched
      BY <2>1 DEF UseElsewhere, histVars, PurchaseInv, TypeOK, PurchaseTypeOK
    <2>2. ASSUME NEW c \in Cards, PlaceCard(c) PROVE Untouched
      BY <2>2 DEF PlaceCard, histVars
    <2>3. CASE RemoveCard
      BY <2>3 DEF RemoveCard, histVars
    <2> QED BY <1>3, <2>1, <2>2, <2>3 DEF HolderStep
  <1>4. CASE OperatorStep
    BY <1>4
       DEF OperatorStep, EnterPurchase, LeavePurchase, ReadCard, InputMoney, CancelMoney,
           RequestSameCard, AbandonPurchase, ProveCard, CancelWrite, ClearTransdtl,
           FactoryReset, cardVars, histVars, mainVars
  <1>5. CASE MainStep
    BY <1>5
       DEF MainStep, CheckBlackcard, RefuseBlackcard, Init4Purchase, PsamPurchaseMac,
           TransAddRecord, TransAddFails, DebitAnswered, DebitUnanswered, DebitRefused,
           TransUpdateRecord, TransUpdateFails, Goto, cardVars, histVars
  <1> QED
    BY <1>1, <1>2, <1>3, <1>4, <1>5 DEF Next, MainThread, PurchaseNext, UploadThread

\* trans_add_record comes before the debit, and its row is still there and
\* right when the card gives up the amount (deposit.c:501-510).
THEOREM RowBeforeDebit == Spec => JournalBeforeDebit
  <1>1. ASSUME PurchaseInv, [Next]_vars
        PROVE  [\A d \in debits' \ debits :
                  d.key \in DOMAIN trans /\ Describes(trans[d.key], d)]_vars
    <2>1. CASE mpc = "debit" /\ CardDebits
      BY <1>1, <2>1, CardGivesUp
    <2> QED BY <1>1, <2>1, OnlyDebitsTake
  <1> QED BY <1>1, PurchaseInvariant, PTL DEF Spec, JournalBeforeDebit

\* However often a write is answered, interrupted or taken up again, a row is
\* debited once (deposit.c:291-341).
THEOREM DebitOnce == Spec => OneDebitPerRow
  <1>1. ASSUME PurchaseInv, [Next]_vars
        PROVE  [\A c \in Cards : field = c /\ balance'[c] # balance[c] =>
                  \A d \in debits : d.key # p16card.term]_vars
    <2>1. CASE mpc = "debit"
      BY <1>1, <2>1 DEF PurchaseInv, KeyUnused
    <2> QED BY <1>1, <2>1, OnlyDebitsTake
  <1> QED BY <1>1, PurchaseInvariant, PTL DEF Spec, OneDebitPerRow
=============================================================================
