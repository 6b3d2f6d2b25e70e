---------------------------- MODULE JournalProofs ----------------------------
(***************************************************************************)
(* The journal of the whole machine: it implements the write-ahead journal *)
(* of WriteAhead, and the server receives each state of a row at most once *)
(* and no result that does not stay in the journal.                        *)
(***************************************************************************)
EXTENDS PurchaseMachineProofs

-----------------------------------------------------------------------------
(* The write-ahead journal: each step records the one entry that           *)
(* trans_add_record inserts, takes the amount of an entry, forgets entries *)
(* or leaves journal and cards alone.                                      *)

\* The bounds are bounds: no balance, and no balance read from a card, passes
\* MaxBalance, and no key MaxStamp.
Bounded ==
  /\ clock <= MaxStamp
  /\ \A c \in Cards : balance[c] <= MaxBalance
  /\ p16card.cardbefbal <= MaxBalance

\* A step that deletes rows and does nothing else to the journal.
RowsForgotten ==
  /\ DOMAIN trans' \subseteq DOMAIN trans
  /\ \A k \in DOMAIN trans' : trans'[k] = trans[k]
  /\ debits' = debits

-----------------------------------------------------------------------------
\* A step writes TRANSDTL or takes money in one of five ways, or not at all.
LEMMA JournalSteps ==
  ASSUME PurchaseInv, [Next]_vars
  PROVE  \/ TransAddRecord
         \/ mpc = "debit" /\ CardDebits /\ trans' = trans
         \/ TransUpdateRecord
         \/ MarkConfirm /\ debits' = debits
         \/ RowsForgotten
         \/ UNCHANGED <<trans, debits>>
  <1>1. CASE UNCHANGED vars
    BY <1>1 DEF vars, mainVars, histVars, storeVars
  <1>2. CASE PowerCut
    BY <1>2 DEF PowerCut, MainLosesPower, storeVars
  <1>3. CASE PowerOn
    BY <1>3 DEF PowerOn, MainBoots, DeleteRows, RowsForgotten, histVars
  <1>4. CASE HolderStep
    BY <1>4 DEF HolderStep, PlaceCard, RemoveCard, UseElsewhere, histVars, storeVars
  <1>5. CASE OperatorStep
    BY <1>5
       DEF OperatorStep, EnterPurchase, LeavePurchase, ReadCard, InputMoney, CancelMoney,
           RequestSameCard, AbandonPurchase, ProveCard, CancelWrite, ClearTransdtl,
           FactoryReset, DeleteRows, RowsForgotten, histVars, mainVars, storeVars
  <1>6. CASE MainStep
    BY <1>6
       DEF MainStep, CheckBlackcard, RefuseBlackcard, Init4Purchase, PsamPurchaseMac,
           TransAddFails, DebitAnswered, DebitUnanswered, DebitRefused,
           TransUpdateFails, Goto, histVars, storeVars
  <1>7. CASE UploadThread
    BY <1>7
       DEF UploadThread, ThreadStep, HostStep, GetLastRecord, MarkFails, SendRt, SendRtLost,
           SendHeart, NoAnswer, SendDownload, SaveBlackcard, UpdateVersion, UploadDies,
           HostChanges, mainVars, histVars, storeVars
  <1> QED
    BY <1>1, <1>2, <1>3, <1>4, <1>5, <1>6, <1>7 DEF Next, MainThread, PurchaseNext

\* A balance that changes stays within the bound, and so does one that is read.
LEMMA BoundsKept ==
  ASSUME PurchaseInv, Bounded, [Next]_vars
  PROVE  Bounded'
  <1> USE BoundsAssumption DEF Bounded
  <1>1. CASE UNCHANGED mainVars \/ UNCHANGED vars
    BY <1>1 DEF vars, mainVars, cardVars, ctxVars
  <1>2. CASE PowerCut \/ PowerOn
    BY <1>2 DEF PowerCut, PowerOn, MainLosesPower, MainBoots, NoCtx, cardVars, ctxVars
  <1>3. CASE HolderStep
    <2>1. ASSUME NEW c \in Cards, UseElsewhere(c) PROVE Bounded'
      BY <2>1 DEF UseElsewhere, ctxVars, PurchaseInv, TypeOK, PurchaseTypeOK
    <2>2. ASSUME NEW c \in Cards, PlaceCard(c) PROVE Bounded'
      BY <2>2 DEF PlaceCard, ctxVars
    <2>3. CASE RemoveCard
      BY <2>3 DEF RemoveCard, ctxVars
    <2> QED BY <1>3, <2>1, <2>2, <2>3 DEF HolderStep
  <1>4. CASE OperatorStep
    <2>1. CASE ReadCard
      BY <2>1 DEF ReadCard, cardVars, PurchaseInv, TypeOK, PurchaseTypeOK, Ctx
    <2> QED
      BY <1>4, <2>1
         DEF OperatorStep, EnterPurchase, LeavePurchase, InputMoney, CancelMoney,
             RequestSameCard, AbandonPurchase, ProveCard, CancelWrite, ClearTransdtl,
             FactoryReset, ForgetPurchase, NoCtx, cardVars, ctxVars, mainVars
  <1>5. CASE MainStep
    <2>1. CASE Init4Purchase
      BY <2>1 DEF Init4Purchase, PurchaseInv, TypeOK, PurchaseTypeOK, CardInHand, Ctx
    <2>2. CASE PsamPurchaseMac
      BY <2>2 DEF PsamPurchaseMac, cardVars, PurchaseInv, TypeOK, PurchaseTypeOK, Ctx
    <2>3. CASE DebitAnswered \/ DebitUnanswered
      <3>1. /\ CardDebits /\ clock' = clock /\ mpc = "debit"
            /\ p16card' = p16card \/ p16card' = [p16card EXCEPT !.tac = p16card.term]
        BY <2>3 DEF DebitAnswered, DebitUnanswered, Goto, ctxVars
      <3>2. /\ balance \in [Cards -> Nat] /\ field \in Cards /\ money \in Nat
            /\ p16card'.cardbefbal = p16card.cardbefbal
        BY <3>1 DEF CardDebits, PurchaseInv, TypeOK, PurchaseTypeOK, CardInHand, Ctx
      <3> QED BY <3>1, <3>2 DEF CardDebits
    <2> QED
      BY <1>5, <2>1, <2>2, <2>3
         DEF MainStep, CheckBlackcard, RefuseBlackcard, TransAddRecord, TransAddFails,
             DebitRefused, TransUpdateRecord, TransUpdateFails, ForgetPurchase, NoCtx,
             cardVars, ctxVars
  <1> QED
    BY <1>1, <1>2, <1>3, <1>4, <1>5 DEF Next, MainThread, PurchaseNext, UploadThread

-----------------------------------------------------------------------------
\* trans_add_record records an entry whose key was never used.
LEMMA AddRecords ==
  ASSUME PurchaseInv, Bounded, TransAddRecord
  PROVE  WA!Next
  <1> DEFINE key == p16card.term
             row == Transdtl("INIT", NoStamp)
             e == [key |-> key, card |-> row.cardno, amount |-> row.amount,
                   befbal |-> row.cardbefbal]
  <1>1. /\ InsertRow(key, row) /\ mpc = "add" /\ debits' = debits
    BY DEF TransAddRecord, Goto, histVars
  <1>2. row \in Rows
    <2>1. mpc \in InHand /\ "INIT" \in TransFlags /\ NoStamp \in Stamps
      BY <1>1 DEF InHand, AtCard, TransFlags, Stamps, NoStamp
    <2> QED BY <2>1, TransdtlTyped
  <1>3. /\ key \in Stamps \ {NoStamp} /\ key \in 1..MaxStamp
        /\ \A d \in debits : d.key # key
    BY <1>1, BoundsAssumption
       DEF PurchaseInv, TypeOK, PurchaseTypeOK, PurchaseInHand, KeyUnused, Stamps, NoStamp,
           Bounded
  <1>4. row.cardbefbal \in 0..MaxBalance
    BY <1>2, BoundsAssumption DEF Transdtl, Rows, Bounded
  <1> HIDE DEF row
  <1>5. /\ key \notin DOMAIN trans
        /\ DOMAIN trans' = DOMAIN trans \cup {key}
        /\ trans'[key] = row
        /\ \A k \in DOMAIN trans : trans'[k] = trans[k]
    BY <1>1, <1>2, InsertedRow DEF PurchaseInv, TypeOK, StoreTypeOK
  <1>6. e \in Entries
    BY <1>2, <1>3, <1>4 DEF Entries, Rows
  <1>7. {EntryOf(k) : k \in DOMAIN trans}' = {EntryOf(k) : k \in DOMAIN trans} \cup {e}
    BY <1>5 DEF EntryOf
  <1>8. WA!Record(e)
    BY <1>1, <1>3, <1>5, <1>7 DEF WA!Record, WA!KeysOf, EntryOf
  <1> QED BY <1>6, <1>8 DEF WA!Next

\* A debit takes the amount of the entry in hand, once.
LEMMA DebitTakes ==
  ASSUME PurchaseInv, mpc = "debit", CardDebits, trans' = trans
  PROVE  WA!Next
  <1> DEFINE d == [key |-> p16card.term, card |-> field, amount |-> money,
                   befbal |-> balance[field]]
  <1>1. /\ debits' = debits \cup {d}
        /\ p16card.term \in DOMAIN trans /\ Describes(trans[p16card.term], d)
    BY CardGivesUp
  <1>2. d = EntryOf(p16card.term)
    BY <1>1 DEF Describes, EntryOf
  <1>3. d \in {EntryOf(k) : k \in DOMAIN trans}
    BY <1>1, <1>2
  <1>4. \A t \in debits : t.key # d.key
    BY DEF PurchaseInv, KeyUnused
  <1>5. {EntryOf(k) : k \in DOMAIN trans}' = {EntryOf(k) : k \in DOMAIN trans}
    BY DEF EntryOf
  <1>6. WA!Take(d)
    BY <1>1, <1>3, <1>4, <1>5 DEF WA!Take, WA!KeysOf
  <1> QED BY <1>3, <1>6 DEF WA!Next

\* DELETE forgets entries.
LEMMA DeleteForgets ==
  ASSUME RowsForgotten
  PROVE  WA!Next
  <1>1. {EntryOf(k) : k \in DOMAIN trans}' \subseteq {EntryOf(k) : k \in DOMAIN trans}
    BY DEF RowsForgotten, EntryOf
  <1>2. WA!Forget
    BY <1>1 DEF WA!Forget, RowsForgotten
  <1> QED BY <1>2 DEF WA!Next

\* The two UPDATEs alter neither card nor balance nor amount of a row, whatever
\* copy they are made from.
ColumnsKept ==
  /\ DOMAIN trans' = DOMAIN trans
  /\ \A k \in DOMAIN trans :
       /\ trans'[k].cardno = trans[k].cardno
       /\ trans'[k].cardbefbal = trans[k].cardbefbal
       /\ trans'[k].amount = trans[k].amount

LEMMA UpdatesKeep ==
  ASSUME PurchaseInv, TransUpdateRecord \/ (MarkConfirm /\ debits' = debits)
  PROVE  ColumnsKept /\ debits' = debits
  <1>1. CASE TransUpdateRecord
    <2> DEFINE key == p16card.term
               row == Transdtl(write_card_ret, p16card.tac)
    <2>1. UpdateRow(key, row) /\ mpc = "update" /\ debits' = debits
      BY <1>1 DEF TransUpdateRecord, Goto
    <2>2. /\ trans[key].cardno = row.cardno /\ trans[key].amount = row.amount
          /\ trans[key].cardbefbal = row.cardbefbal
      BY <2>1 DEF PurchaseInv, RowInHand, AtDebit, Transdtl
    <2> HIDE DEF row
    <2> QED BY <2>1, <2>2 DEF UpdateRow, ColumnsKept
  <1>2. CASE MarkConfirm /\ debits' = debits
    <2> DEFINE row == [copy.row EXCEPT !.confirm = 1]
    <2>1. UpdateRow(copy.key, row) /\ debits' = debits
      BY <1>2 DEF MarkConfirm
    <2>2. copy.row \in Rows \/ copy = ZeroCopy
      BY DEF PurchaseInv, TypeOK, UploadTypeOK
    <2>3. /\ row.cardno = copy.row.cardno /\ row.amount = copy.row.amount
          /\ row.cardbefbal = copy.row.cardbefbal
      BY <2>2 DEF Rows, ZeroCopy, ZeroRow
    <2> HIDE DEF row
    <2> QED BY <2>1, <2>3 DEF UpdateRow, ColumnsKept, PurchaseInv, CopyDescribes
  <1> QED BY <1>1, <1>2

\* Every step is one of the abstract journal's, or none.
LEMMA StepsRefine ==
  ASSUME PurchaseInv, Bounded, [Next]_vars
  PROVE  [WA!Next]_<<{EntryOf(k) : k \in DOMAIN trans}, debits>>
  <1>1. CASE UNCHANGED <<trans, debits>>
    BY <1>1 DEF EntryOf
  <1>2. CASE TransUpdateRecord \/ (MarkConfirm /\ debits' = debits)
    BY <1>2, UpdatesKeep DEF ColumnsKept, EntryOf
  <1>3. CASE TransAddRecord
    BY <1>3, AddRecords
  <1>4. CASE mpc = "debit" /\ CardDebits /\ trans' = trans
    BY <1>4, DebitTakes
  <1>5. CASE RowsForgotten
    BY <1>5, DeleteForgets
  <1> QED BY <1>1, <1>2, <1>3, <1>4, <1>5, JournalSteps

\* The machine implements the write-ahead journal: an entry comes before its
\* amount is taken, describes the card as it was, is never altered, and its
\* amount is taken once (trans_add_record, debit_4_purchase and
\* trans_update_record, against all that writes TRANSDTL).
THEOREM MachineRefinesWriteAhead == Spec => ImplementsWriteAhead
  <1>1. Init => PurchaseInv /\ Bounded
    BY InitInv, BoundsAssumption DEF Init, PurchaseInit, NoCtx, Bounded
  <1>2. Init => WA!Init
    BY DEF Init, StoreInit, PurchaseInit, WA!Init
  <1>3. PurchaseInv /\ Bounded /\ [Next]_vars => (PurchaseInv /\ Bounded)'
    BY NextKeepsInv, BoundsKept
  <1>4. PurchaseInv /\ Bounded /\ [Next]_vars
          => [WA!Next]_<<{EntryOf(k) : k \in DOMAIN trans}, debits>>
    BY StepsRefine
  <1> QED BY <1>1, <1>2, <1>3, <1>4, PTL DEF Spec, WA!Spec, ImplementsWriteAhead

-----------------------------------------------------------------------------
(* The server.  Both threads rewrite whole rows, so the argument relates   *)
(* the two copies in memory, the row and the reports.                      *)

\* The server has received a result of row k.
ResultSent(k) == \E r \in sent : r.key = k /\ r.flag # "INIT"

\* The row in hand has no result yet, in the journal, in the upload thread's
\* copy or at the server, and the update that is to come brings one.
ResultToCome ==
  /\ mpc \in AtDebit =>
       /\ trans[p16card.term].transflag = "INIT"
       /\ copy.key = p16card.term => copy.row.transflag = "INIT"
       /\ ~ResultSent(p16card.term)
  /\ mpc = "update" => write_card_ret # "INIT"
  /\ mpc = "add" => \A r \in sent : r.key # p16card.term

\* Reports are of keys that are over.
SentPast == \A r \in sent : r.key \in 1..clock

\* An unconfirmed row has not been received as it is.
UnsentRows ==
  \A k \in Unconfirmed : \A r \in sent : r.key = k => r.flag # trans[k].transflag

\* Neither has the copy that is being uploaded, and no result of its row has.
CopyUnsent ==
  upc \in {"mark", "send"} =>
    \A r \in sent : r.key = copy.key => r.flag = "INIT" /\ copy.row.transflag # "INIT"

\* A copy with a result is not behind the row, and once the copy is written
\* back, only the result of a purchase that was under way can come over it.
CopyStands ==
  copy.key \in DOMAIN trans =>
    /\ upc = "mark" /\ copy.row.transflag # "INIT" =>
         trans[copy.key].transflag = copy.row.transflag
    /\ upc = "send" =>
         \/ /\ trans[copy.key].transflag = copy.row.transflag
            /\ trans[copy.key].confirm = 1
         \/ copy.row.transflag = "INIT" /\ trans[copy.key].transflag # "INIT"

ReportsInv ==
  /\ ResultToCome /\ SentPast /\ UnsentRows /\ CopyUnsent /\ CopyStands
  /\ ReportedResultStands /\ NeverResent

-----------------------------------------------------------------------------
(* Steps that neither write a row nor send one.                            *)

\* What the proofs below use of the machine's other invariant.
LEMMA Basics ==
  ASSUME PurchaseInv
  PROVE  /\ trans \in [DOMAIN trans -> Rows] /\ DOMAIN trans \subseteq Nat \ {0}
         /\ clock \in Nat /\ sent \subseteq Reports
         /\ copy = ZeroCopy \/ (copy.key \in Nat \ {0} /\ copy.row \in Rows)
         /\ copy.key <= clock /\ copy.key \in Nat
         /\ mpc \in AtDebit \cup {"add"} => p16card.term \in 1..clock
         /\ mpc \in AtDebit => p16card.term \in DOMAIN trans
         /\ mpc = "add" => p16card.term \notin DOMAIN trans /\ copy.key # p16card.term
BY DEF PurchaseInv, TypeOK, StoreTypeOK, PurchaseTypeOK, UploadTypeOK, KeysPast,
       PurchaseInHand, RowInHand, KeyUnused, Stamps, NoStamp, ZeroCopy

\* The main thread stays where it is, or goes on with the row in hand, or has
\* no row in hand afterwards.
MainStays == UNCHANGED <<mpc, write_card_ret>> /\ p16card'.term = p16card.term
MainGoesOn ==
  /\ mpc \in AtDebit /\ mpc' \in AtDebit /\ p16card'.term = p16card.term
  /\ mpc' = "update" => write_card_ret' # "INIT"
MainLetsGo == mpc' \notin AtDebit \cup {"add"}

\* The upload thread stays where it is, or has no row in hand afterwards.
UploadStays == UNCHANGED <<upc, copy>>
UploadLetsGo == upc' \notin {"mark", "send"} /\ copy' \in {copy, ZeroCopy}

\* A step that at most deletes rows, and sends nothing, keeps the invariant.
LEMMA QuietKeepsReports ==
  ASSUME PurchaseInv, ReportsInv, UNCHANGED <<sent, resent, clock>>,
         DOMAIN trans' \subseteq DOMAIN trans,
         \A k \in DOMAIN trans' : trans'[k] = trans[k],
         MainLetsGo \/ (trans' = trans /\ (MainStays \/ MainGoesOn)),
         UploadStays \/ UploadLetsGo
  PROVE  ReportsInv'
  <1>1. ResultToCome'
    <2>1. CASE MainLetsGo
      BY <2>1 DEF MainLetsGo, ResultToCome, AtDebit
    <2>2. CASE trans' = trans /\ (MainStays \/ MainGoesOn)
      <3>1. (copy'.key = copy.key /\ copy'.row = copy.row) \/ copy'.key = 0
        BY DEF UploadStays, UploadLetsGo, ZeroCopy, NoStamp
      <3> QED
        BY <2>2, <3>1, Basics
           DEF MainStays, MainGoesOn, ReportsInv, ResultToCome, ResultSent, AtDebit
    <2> QED BY <2>1, <2>2
  <1>2. SentPast' /\ UnsentRows' /\ ReportedResultStands' /\ NeverResent'
    BY DEF ReportsInv, SentPast, UnsentRows, Unconfirmed, ReportedResultStands, NeverResent
  <1>3. CopyUnsent' /\ CopyStands'
    BY DEF ReportsInv, CopyUnsent, CopyStands, UploadStays, UploadLetsGo
  <1> QED BY <1>1, <1>2, <1>3 DEF ReportsInv

-----------------------------------------------------------------------------
(* The main thread.                                                        *)

\* psam_purchase_mac: the second it reads is later than every report.
LEMMA ClockKeepsReports ==
  ASSUME PurchaseInv, ReportsInv, PsamPurchaseMac, UNCHANGED uploadVars
  PROVE  ReportsInv'
  <1>1. /\ clock \in Nat /\ clock' = clock + 1 /\ p16card'.term = clock' /\ mpc' = "add"
        /\ UNCHANGED <<trans, sent, resent, copy, upc>>
    BY DEF PsamPurchaseMac, Goto, PurchaseInv, TypeOK, PurchaseTypeOK, Ctx, storeVars,
           uploadVars, netVars
  <1>2. ResultToCome' /\ SentPast'
    BY <1>1 DEF ReportsInv, ResultToCome, SentPast, AtDebit
  <1>3. (UnsentRows /\ CopyUnsent /\ CopyStands /\ ReportedResultStands /\ NeverResent)'
    BY <1>1
       DEF ReportsInv, UnsentRows, Unconfirmed, CopyUnsent, CopyStands,
           ReportedResultStands, NeverResent
  <1> QED BY <1>2, <1>3 DEF ReportsInv

\* trans_add_record: the new row is without a result, and nothing was sent of it.
LEMMA AddKeepsReports ==
  ASSUME PurchaseInv, ReportsInv, TransAddRecord, UNCHANGED uploadVars
  PROVE  ReportsInv'
  <1> DEFINE key == p16card.term
             row == Transdtl("INIT", NoStamp)
  <1>1. /\ InsertRow(key, row) /\ mpc = "add" /\ mpc' = "debit"
        /\ UNCHANGED <<sent, resent, copy, upc, clock, p16card, write_card_ret>>
    BY DEF TransAddRecord, Goto, ctxVars, uploadVars, netVars
  <1>2. row.transflag = "INIT" /\ row.confirm = 0
    BY DEF Transdtl
  <1> HIDE DEF row
  <1>3. /\ DOMAIN trans' = DOMAIN trans \cup {key} /\ key \notin DOMAIN trans
        /\ trans'[key] = row
        /\ \A k \in DOMAIN trans : trans'[k] = trans[k]
    BY <1>1 DEF InsertRow
  <1>4. copy.key # key /\ \A r \in sent : r.key # key
    BY <1>1, Basics DEF ReportsInv, ResultToCome
  <1>5. ResultToCome' /\ SentPast'
    BY <1>1, <1>2, <1>3, <1>4 DEF ReportsInv, ResultToCome, ResultSent, SentPast, AtDebit
  <1>6. UnsentRows'
    BY <1>1, <1>3, <1>4 DEF ReportsInv, UnsentRows, Unconfirmed
  <1>7. (CopyUnsent /\ CopyStands /\ ReportedResultStands /\ NeverResent)'
    BY <1>1, <1>3, <1>4
       DEF ReportsInv, CopyUnsent, CopyStands, ReportedResultStands, NeverResent
  <1> QED BY <1>5, <1>6, <1>7 DEF ReportsInv

\* trans_update_record: the first result of its row, which no one has sent.
LEMMA UpdateKeepsReports ==
  ASSUME PurchaseInv, ReportsInv, TransUpdateRecord, UNCHANGED uploadVars
  PROVE  ReportsInv'
  <1> DEFINE key == p16card.term
             row == Transdtl(write_card_ret, p16card.tac)
  <1>1. /\ UpdateRow(key, row) /\ mpc = "update" /\ mpc' = "wait"
        /\ UNCHANGED <<sent, resent, copy, upc, clock>>
    BY DEF TransUpdateRecord, Goto, uploadVars, netVars
  <1>2. row.transflag # "INIT" /\ row.confirm = 0
    BY <1>1 DEF Transdtl, ReportsInv, ResultToCome
  <1> HIDE DEF row
  <1>3. /\ DOMAIN trans' = DOMAIN trans /\ key \in DOMAIN trans
        /\ trans'[key] = row
        /\ \A k \in DOMAIN trans \ {key} : trans'[k] = trans[k]
    BY <1>1, Basics DEF UpdateRow, AtDebit
  <1>4. /\ ~ResultSent(key)
        /\ copy.key = key => copy.row.transflag = "INIT"
    BY <1>1 DEF ReportsInv, ResultToCome, AtDebit
  <1>5. ResultToCome' /\ SentPast'
    BY <1>1 DEF ReportsInv, ResultToCome, SentPast, AtDebit
  <1>6. UnsentRows' /\ ReportedResultStands' /\ NeverResent'
    BY <1>1, <1>2, <1>3, <1>4
       DEF ReportsInv, UnsentRows, Unconfirmed, ReportedResultStands, NeverResent, ResultSent
  <1>7. CopyUnsent' /\ CopyStands'
    BY <1>1, <1>2, <1>3, <1>4 DEF ReportsInv, CopyUnsent, CopyStands
  <1> QED BY <1>5, <1>6, <1>7 DEF ReportsInv

\* Every other step of the main thread, the operator and the holder is quiet.
LEMMA MainKeepsReports ==
  ASSUME PurchaseInv, ReportsInv, MainThread
  PROVE  ReportsInv'
  <1> USE DEF MainStays, MainGoesOn, MainLetsGo
  <1> DEFINE Still == UNCHANGED <<trans, clock>> /\ (MainLetsGo \/ MainStays \/ MainGoesOn)
  <1>1. UNCHANGED <<sent, resent>> /\ UploadStays /\ UNCHANGED uploadVars
    BY DEF MainThread, uploadVars, netVars, UploadStays
  <1>2. Still => ReportsInv'
    BY <1>1, QuietKeepsReports
  <1>3. CASE HolderStep
    <2>1. UNCHANGED <<trans, clock>> /\ MainStays
      BY <1>3 DEF HolderStep, PlaceCard, RemoveCard, UseElsewhere, ctxVars, storeVars
    <2> QED BY <1>2, <2>1
  <1>4. CASE ClearTransdtl
    <2>1. /\ DeleteRows(DOMAIN trans) /\ clock' = clock /\ mpc' = "menu"
      BY <1>4 DEF ClearTransdtl, mainVars, ctxVars
    <2>2. DOMAIN trans' = {}
      BY <2>1 DEF DeleteRows
    <2> QED BY <1>1, <2>1, <2>2, QuietKeepsReports DEF AtDebit
  <1>5. CASE OperatorStep /\ ~ClearTransdtl
    <2>1. Still
      BY <1>5
         DEF OperatorStep, EnterPurchase, LeavePurchase, ReadCard, InputMoney, CancelMoney,
             RequestSameCard, AbandonPurchase, ProveCard, CancelWrite, FactoryReset,
             Goto, AtDebit, mainVars, ctxVars, storeVars
    <2> QED BY <1>2, <2>1
  <1>6. CASE MainStep /\ ~PsamPurchaseMac /\ ~TransAddRecord /\ ~TransUpdateRecord
    <2>1. p16card \in Ctx
      BY DEF PurchaseInv, TypeOK, PurchaseTypeOK
    <2>2. Still
      BY <1>6, <2>1
         DEF MainStep, CheckBlackcard, RefuseBlackcard, Init4Purchase, TransAddFails,
             DebitAnswered, DebitUnanswered, DebitRefused, TransUpdateFails, Goto, AtDebit,
             Ctx, ctxVars, storeVars
    <2> QED BY <1>2, <2>2
  <1> QED
    BY <1>1, <1>3, <1>4, <1>5, <1>6, ClockKeepsReports, AddKeepsReports, UpdateKeepsReports
       DEF MainThread, PurchaseNext, MainStep

-----------------------------------------------------------------------------
(* The upload thread.                                                      *)

\* The SELECT finds a row that was not sent as it is, and none of whose results
\* was: those are marked.
LEMMA FetchKeepsReports ==
  ASSUME PurchaseInv, ReportsInv, GetLastRecord, UNCHANGED mainVars
  PROVE  ReportsInv'
  <1>1. UNCHANGED <<trans, sent, resent, clock, p16card, mpc, write_card_ret>>
    BY DEF GetLastRecord, mainVars, ctxVars, storeVars, netVars
  <1>2. CASE upc' = "heart" /\ copy' = copy
    BY <1>1, <1>2, QuietKeepsReports DEF MainStays, UploadLetsGo
  <1>3. CASE upc' = "mark" /\ copy' = ZeroCopy
    <2>1. copy'.key = 0 /\ 0 \notin DOMAIN trans /\ \A r \in sent : r.key # 0
      BY <1>3, Basics DEF ZeroCopy, NoStamp, ReportsInv, SentPast
    <2>2. ResultToCome'
      BY <1>1, <2>1, Basics DEF ReportsInv, ResultToCome, ResultSent
    <2>3. (SentPast /\ UnsentRows /\ ReportedResultStands /\ NeverResent)'
      BY <1>1
         DEF ReportsInv, SentPast, UnsentRows, Unconfirmed, ReportedResultStands, NeverResent
    <2>4. CopyUnsent' /\ CopyStands'
      BY <1>1, <1>3, <2>1 DEF CopyUnsent, CopyStands
    <2> QED BY <2>2, <2>3, <2>4 DEF ReportsInv
  <1>4. ASSUME NEW k \in Unconfirmed, upc' = "mark", copy' = [key |-> k, row |-> trans[k]]
        PROVE  ReportsInv'
    <2>1. /\ k \in DOMAIN trans /\ trans[k].confirm = 0
          /\ copy'.key = k /\ copy'.row = trans[k]
      BY <1>4 DEF Unconfirmed
    <2>2. ResultToCome'
      BY <1>1, <2>1, Basics DEF ReportsInv, ResultToCome, ResultSent
    <2>3. (SentPast /\ UnsentRows /\ ReportedResultStands /\ NeverResent)'
      BY <1>1
         DEF ReportsInv, SentPast, UnsentRows, Unconfirmed, ReportedResultStands, NeverResent
    <2>4. ASSUME NEW r \in sent, r.key = k
          PROVE  r.flag = "INIT" /\ trans[k].transflag # "INIT"
      <3>1. r.flag = "INIT"
        BY <2>1, <2>4 DEF ReportsInv, ReportedResultStands
      <3> QED BY <1>4, <2>4, <3>1 DEF ReportsInv, UnsentRows
    <2>5. CopyUnsent' /\ CopyStands'
      BY <1>1, <1>4, <2>1, <2>4 DEF CopyUnsent, CopyStands
    <2> QED BY <2>2, <2>3, <2>5 DEF ReportsInv
  <1> QED BY <1>2, <1>3, <1>4 DEF GetLastRecord, LastRecord

\* The UPDATE writes over no result that was sent, and the row is marked.
LEMMA MarkKeepsReports ==
  ASSUME PurchaseInv, ReportsInv, MarkConfirm, UNCHANGED mainVars
  PROVE  ReportsInv'
  <1> DEFINE row == [copy.row EXCEPT !.confirm = 1]
  <1>1. /\ UpdateRow(copy.key, row) /\ upc = "mark" /\ upc' = "send"
        /\ UNCHANGED <<copy, sent, resent, clock, p16card, mpc, write_card_ret>>
    BY DEF MarkConfirm, Step, mainVars, ctxVars, netVars
  <1>2. copy = ZeroCopy \/ copy.row \in Rows
    BY Basics
  <1>3. row.transflag = copy.row.transflag /\ row.confirm = 1
    BY <1>2 DEF Rows, ZeroCopy, ZeroRow
  <1> HIDE DEF row
  <1>4. /\ DOMAIN trans' = DOMAIN trans
        /\ copy.key \in DOMAIN trans => trans'[copy.key] = row
        /\ \A k \in DOMAIN trans \ {copy.key} : trans'[k] = trans[k]
    BY <1>1 DEF UpdateRow
  <1>5. \A r \in sent : r.key = copy.key => r.flag = "INIT"
    BY <1>1 DEF ReportsInv, CopyUnsent
  <1>6. ResultToCome' /\ SentPast'
    BY <1>1, <1>3, <1>4, Basics DEF ReportsInv, ResultToCome, ResultSent, SentPast, AtDebit
  <1>7. (UnsentRows /\ ReportedResultStands /\ NeverResent)'
    BY <1>1, <1>3, <1>4, <1>5
       DEF ReportsInv, UnsentRows, Unconfirmed, ReportedResultStands, NeverResent
  <1>8. CopyUnsent' /\ CopyStands'
    BY <1>1, <1>3, <1>4 DEF ReportsInv, CopyUnsent, CopyStands
  <1> QED BY <1>6, <1>7, <1>8 DEF ReportsInv

\* What is sent was not sent before, and if it is a result the row has it.
LEMMA SendKeepsReports ==
  ASSUME PurchaseInv, ReportsInv, SendRt, UNCHANGED mainVars
  PROVE  ReportsInv'
  <1>1. /\ upc = "send" /\ upc' = "fetch" /\ copy' = ZeroCopy
        /\ Received
        /\ UNCHANGED <<trans, clock, p16card, mpc, write_card_ret>>
    BY DEF SendRt, Step, mainVars, ctxVars, storeVars
  <1>2. CASE copy = ZeroCopy
    <2>1. UNCHANGED <<sent, resent>>
      BY <1>1, <1>2 DEF Received, Report
    <2> QED BY <1>1, <1>2, <2>1, QuietKeepsReports DEF MainStays, UploadLetsGo
  <1>3. CASE copy # ZeroCopy
    <2>1. PICK s :
            /\ s.key = copy.key /\ s.flag = copy.row.transflag
            /\ sent' = sent \cup {s}
            /\ resent' = resent \cup
                 {r \in {s} : \E q \in sent : q.key = r.key /\ q.flag = r.flag}
      BY <1>1, <1>3 DEF Received, Report
    <2>2. ~ \E q \in sent : q.key = s.key /\ q.flag = s.flag
      BY <1>1, <2>1 DEF ReportsInv, CopyUnsent
    <2>3. NeverResent'
      BY <2>1, <2>2 DEF ReportsInv, NeverResent
    <2>4. ResultToCome'
      <3>1. copy'.key = 0
        BY <1>1 DEF ZeroCopy, NoStamp
      <3> QED BY <1>1, <2>1, <3>1, Basics DEF ReportsInv, ResultToCome, ResultSent
    <2>5. SentPast'
      BY <1>1, <1>3, <2>1, Basics DEF ReportsInv, SentPast
    <2>6. UnsentRows' /\ ReportedResultStands'
      BY <1>1, <2>1
         DEF ReportsInv, UnsentRows, Unconfirmed, ReportedResultStands, CopyStands
    <2>7. CopyUnsent' /\ CopyStands'
      BY <1>1, Basics DEF CopyUnsent, CopyStands, ZeroCopy, NoStamp
    <2> QED BY <2>3, <2>4, <2>5, <2>6, <2>7 DEF ReportsInv
  <1> QED BY <1>2, <1>3

\* Everything else the thread or the server does is quiet.
LEMMA ThreadKeepsReports ==
  ASSUME PurchaseInv, ReportsInv, UploadThread
  PROVE  ReportsInv'
  <1>1. UNCHANGED mainVars /\ UNCHANGED clock /\ MainStays
    BY DEF UploadThread, mainVars, ctxVars, MainStays
  <1>2. CASE ~GetLastRecord /\ ~MarkConfirm /\ ~SendRt
    <2>1. /\ UNCHANGED <<trans, sent, resent>>
          /\ UploadStays \/ UploadLetsGo
      BY <1>2
         DEF UploadThread, ThreadStep, HostStep, MarkFails, SendRtLost, SendHeart, NoAnswer,
             SendDownload, SaveBlackcard, UpdateVersion, UploadDies, HostChanges, Step,
             UploadStays, UploadLetsGo, netVars, storeVars
    <2> QED BY <1>1, <2>1, QuietKeepsReports
  <1> QED
    BY <1>1, <1>2, FetchKeepsReports, MarkKeepsReports, SendKeepsReports
       DEF UploadThread, ThreadStep

-----------------------------------------------------------------------------
\* Nor does a loss of power, or start-up, write a row or send one.
LEMMA PowerKeepsReports ==
  ASSUME PurchaseInv, ReportsInv, PowerCut \/ PowerOn
  PROVE  ReportsInv'
  <1>1. CASE PowerCut
    <2>1. /\ UNCHANGED <<trans, sent, resent, clock>> /\ MainLetsGo /\ UploadLetsGo
      BY <1>1 DEF PowerCut, MainLosesPower, UploadLosesPower, MainLetsGo, UploadLetsGo,
                  AtDebit, netVars, storeVars
    <2> QED BY <2>1, QuietKeepsReports
  <1>2. CASE PowerOn
    <2>1. /\ UNCHANGED <<sent, resent, clock>> /\ MainLetsGo /\ UploadLetsGo
          /\ DOMAIN trans' \subseteq DOMAIN trans
          /\ \A k \in DOMAIN trans' : trans'[k] = trans[k]
      BY <1>2 DEF PowerOn, MainBoots, UploadBoots, DeleteRows, Goto, Step, MainLetsGo,
                  UploadLetsGo, AtDebit, netVars, ctxVars
    <2> QED BY <2>1, QuietKeepsReports
  <1> QED BY <1>1, <1>2

\* The invariant is inductive, given the machine's other one.
LEMMA NextKeepsReports == PurchaseInv /\ ReportsInv /\ [Next]_vars => ReportsInv'
  <1> SUFFICES ASSUME PurchaseInv, ReportsInv, [Next]_vars PROVE ReportsInv'
    OBVIOUS
  <1>1. CASE Next
    BY <1>1, MainKeepsReports, ThreadKeepsReports, PowerKeepsReports DEF Next
  <1>2. CASE UNCHANGED vars
    <2>1. UNCHANGED <<trans, sent, resent, clock>> /\ MainStays /\ UploadStays
      BY <1>2 DEF vars, mainVars, ctxVars, uploadVars, netVars, storeVars, MainStays,
                  UploadStays
    <2> QED BY <2>1, QuietKeepsReports
  <1> QED BY <1>1, <1>2

\* Nothing is sent before the first purchase.
LEMMA InitReports == Init => ReportsInv
BY DEF Init, StoreInit, PurchaseInit, UploadInit, ReportsInv, ResultToCome, ResultSent,
       SentPast, UnsentRows, Unconfirmed, CopyUnsent, CopyStands, ReportedResultStands,
       NeverResent, AtDebit

\* What the journal, the two threads' copies and the reports say of each other
\* holds at every step (p16main.c:575-594 against deposit.c:501-526).
THEOREM ReportsInvariant == Spec => []ReportsInv
  <1>1. Init => ReportsInv
    BY InitReports
  <1>2. PurchaseInv /\ ReportsInv /\ [Next]_vars => ReportsInv'
    BY NextKeepsReports
  <1> QED BY <1>1, <1>2, PurchaseInvariant, PTL DEF Spec

\* The server receives no state of a row twice, whatever is interrupted or lost
\* (p16main.c:586-593: the mark comes before the exchange).
THEOREM AtMostOnce == Spec => []NeverResent
  <1>1. ReportsInv => NeverResent
    BY DEF ReportsInv
  <1> QED BY <1>1, ReportsInvariant, PTL

\* A result the server has received is the one in the journal, and no UPDATE of
\* either thread undoes it (p16main.c:588, deposit.c:520).
THEOREM ReportedStands == Spec => []ReportedResultStands
  <1>1. ReportsInv => ReportedResultStands
    BY DEF ReportsInv
  <1> QED BY <1>1, ReportsInvariant, PTL

-----------------------------------------------------------------------------
(* The server's books and the cards.                                       *)

\* A row and a report of it have card, amount and balance in common, and the
\* upload thread's copy describes the debit of its row even when the row has
\* been deleted since.
ReportsFitRows ==
  \A r \in sent : r.key \in DOMAIN trans =>
    /\ trans[r.key].cardno = r.cardno
    /\ trans[r.key].cardbefbal = r.cardbefbal
    /\ trans[r.key].amount = r.amount

CopyFitsDebits ==
  copy # ZeroCopy => \A d \in debits : d.key = copy.key => Describes(copy.row, d)

BooksInv == ReportsFitRows /\ CopyFitsDebits /\ ReportsDescribeDebits

\* A step sends nothing and keeps or drops the copy, or it is the SELECT or the
\* exchange of the upload thread.
LEMMA CopySteps ==
  ASSUME [Next]_vars
  PROVE  \/ UNCHANGED sent /\ copy' \in {copy, ZeroCopy}
         \/ GetLastRecord /\ UNCHANGED <<trans, debits, sent>>
         \/ SendRt /\ UNCHANGED <<trans, debits>>
  <1>1. CASE UploadThread
    BY <1>1
       DEF UploadThread, ThreadStep, HostStep, GetLastRecord, MarkConfirm, MarkFails, SendRt,
           SendRtLost, SendHeart, NoAnswer, SendDownload, SaveBlackcard, UpdateVersion,
           UploadDies, HostChanges, mainVars, histVars, netVars, storeVars
  <1>2. CASE ~UploadThread
    BY <1>2
       DEF vars, Next, MainThread, PowerCut, PowerOn, UploadLosesPower, UploadBoots, uploadVars,
           netVars
  <1> QED BY <1>1, <1>2

\* The journal changes or a card is debited, and nothing is sent.
LEMMA JournalKeepsBooks ==
  ASSUME PurchaseInv, ReportsInv, BooksInv, [Next]_vars,
         UNCHANGED sent, copy' \in {copy, ZeroCopy}
  PROVE  BooksInv'
  <1> USE DEF BooksInv, ReportsFitRows, CopyFitsDebits, ReportsDescribeDebits, Describes
  <1>1. CASE TransAddRecord
    <2>1. /\ InsertRow(p16card.term, Transdtl("INIT", NoStamp)) /\ mpc = "add"
          /\ debits' = debits
      BY <1>1 DEF TransAddRecord, Goto, histVars
    <2>2. \A r \in sent : r.key # p16card.term
      BY <2>1 DEF ReportsInv, ResultToCome
    <2>3. \A r \in sent : r.key \in DOMAIN trans' =>
            r.key \in DOMAIN trans /\ trans'[r.key] = trans[r.key]
      BY <2>1, <2>2 DEF InsertRow
    <2> QED BY <2>1, <2>3
  <1>2. CASE mpc = "debit" /\ CardDebits /\ trans' = trans
    <2> DEFINE d == [key |-> p16card.term, card |-> field, amount |-> money,
                     befbal |-> balance[field]]
    <2>1. /\ debits' = debits \cup {d}
          /\ p16card.term \in DOMAIN trans /\ Describes(trans[p16card.term], d)
      BY <1>2, CardGivesUp
    <2>2. \A r \in sent : r.key = d.key => Describes(r, d)
      BY <2>1
    <2>3. copy.key = d.key => Describes(copy.row, d)
      BY <2>1 DEF PurchaseInv, CopyDescribes
    <2> QED BY <1>2, <2>1, <2>2, <2>3
  <1>3. CASE TransUpdateRecord \/ (MarkConfirm /\ debits' = debits)
    BY <1>3, UpdatesKeep DEF ColumnsKept
  <1>4. CASE RowsForgotten
    BY <1>4 DEF RowsForgotten
  <1>5. CASE UNCHANGED <<trans, debits>>
    BY <1>5
  <1> QED BY <1>1, <1>2, <1>3, <1>4, <1>5, JournalSteps

\* The upload thread takes its copy from a row, and its report from the copy.
LEMMA ThreadKeepsBooks ==
  ASSUME PurchaseInv, ReportsInv, BooksInv, UNCHANGED <<trans, debits>>,
         (GetLastRecord /\ UNCHANGED sent) \/ SendRt
  PROVE  BooksInv'
  <1> USE DEF BooksInv, ReportsFitRows, CopyFitsDebits, ReportsDescribeDebits, Describes
  <1>1. CASE GetLastRecord /\ UNCHANGED sent
    <2>1. \/ copy' \in {copy, ZeroCopy}
          \/ \E k \in DOMAIN trans : copy' = [key |-> k, row |-> trans[k]]
      BY <1>1 DEF GetLastRecord
    <2>2. \A d \in debits : d.key \in DOMAIN trans => Describes(trans[d.key], d)
      BY DEF PurchaseInv, DebitsDescribed
    <2> QED BY <1>1, <2>1, <2>2
  <1>2. CASE SendRt
    <2>1. copy' = ZeroCopy /\ sent' = sent \cup Report
      BY <1>2 DEF SendRt, Received
    <2>2. ASSUME NEW r \in Report
          PROVE  /\ copy # ZeroCopy /\ r.key = copy.key /\ r.cardno = copy.row.cardno
                 /\ r.amount = copy.row.amount /\ r.cardbefbal = copy.row.cardbefbal
      BY <2>2 DEF Report
    <2>3. \A r \in Report : \A d \in debits : r.key = d.key => Describes(r, d)
      BY <2>2
    <2>4. \A r \in Report : r.key \in DOMAIN trans =>
            /\ trans[r.key].cardno = r.cardno
            /\ trans[r.key].cardbefbal = r.cardbefbal
            /\ trans[r.key].amount = r.amount
      BY <2>2 DEF PurchaseInv, CopyDescribes
    <2> QED BY <2>1, <2>3, <2>4
  <1> QED BY <1>1, <1>2

LEMMA NextKeepsBooks ==
  ASSUME PurchaseInv, ReportsInv, BooksInv, [Next]_vars
  PROVE  BooksInv'
BY CopySteps, JournalKeepsBooks, ThreadKeepsBooks

\* Whatever the server was told of a purchase is what the card gave up, told
\* before the debit or after it, from a copy that is older than the row or of a
\* row that is gone (p16main.c:575-621 against deposit.c:406-522).
THEOREM BooksAgree == Spec => []ReportsDescribeDebits
  <1>1. Init => BooksInv
    BY DEF Init, UploadInit, PurchaseInit, BooksInv, ReportsFitRows, CopyFitsDebits,
           ReportsDescribeDebits
  <1>2. PurchaseInv /\ ReportsInv /\ BooksInv /\ [Next]_vars => BooksInv'
    BY NextKeepsBooks
  <1>3. BooksInv => ReportsDescribeDebits
    BY DEF BooksInv
  <1> QED BY <1>1, <1>2, <1>3, PurchaseInvariant, ReportsInvariant, PTL DEF Spec
=============================================================================
