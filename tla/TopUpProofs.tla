---------------------------- MODULE TopUpProofs ----------------------------
(***************************************************************************)
(* Theorems about the two top-up flows, for any number of cards and of     *)
(* transactions, whatever of a request is lost, late or refused and        *)
(* wherever the power goes.                                                *)
(***************************************************************************)
EXTENDS TopUp, SequenceTheorems, TLAPS

-----------------------------------------------------------------------------
(* The server.                                                             *)

\* What a request may do to the server, at once or later: the transaction it
\* names moves on by one status, and a confirmation is taken down.
Effect(r) ==
  /\ \/ booking' = booking
     \/ /\ r.op # "confirm" /\ booking[r.txn].status = "none"
        /\ booking' = [booking EXCEPT ![r.txn] = [status |-> "booked", card |-> r.card]]
     \/ /\ r.op = "confirm" /\ booking[r.txn].status = "booked"
        /\ booking' = [booking EXCEPT ![r.txn] =
                         [status |-> IF r.isok = 1 THEN "kept" ELSE "reversed", card |-> r.card]]
  /\ verdicts' \subseteq verdicts \cup (IF r.op = "confirm" THEN {<<r.txn, r.isok>>} ELSE {})
  /\ flight' \subseteq flight \cup {r}

Result(isok) == IF isok = 1 THEN "WRITE_CARD_OK" ELSE "WRITE_CARD_FAILED"

-----------------------------------------------------------------------------
(* The invariant of the deposit flow.                                      *)

\* The journal says of transaction t what a confirmation with isok says.
Agrees(t, isok) == t \in DOMAIN rows /\ rows[t].flag = Result(isok)

\* A request of the deposit flow is about a row, and a confirmation agrees
\* with it.
OfRow(r) ==
  /\ r.txn \in DOMAIN rows
  /\ r.op = "confirm" => Agrees(r.txn, r.isok)

\* Where the server may be with a transaction, by the flag of its row; without a
\* result it is confirmed on neither side.
FlagFits(t) ==
  /\ rows[t].flag \in {"INIT", "SYS_FAILED"} =>
       rows[t].confirm = 0 /\ booking[t].status \in {"none", "booked"}
  /\ rows[t].flag = "WRITE_CARD_OK" => booking[t].status \in {"booked", "kept"}
  /\ rows[t].flag = "WRITE_CARD_FAILED" => booking[t].status # "none"

JournalInv ==
  /\ \A r \in flight : OfRow(r)
  /\ \A v \in verdicts : Agrees(v[1], v[2])
  /\ \A t \in Txns : booking[t].status # "none" => t \in DOMAIN rows
  /\ \A t \in DOMAIN rows : t < next /\ FlagFits(t)

\* The row in hand, by where the flow is: before its result is written down it
\* is INIT, and nothing of it has been confirmed; from then on flag and row are
\* one.
Undecided == {"ask", "judged", "call", "write", "wait", "result", "failed"}
Decided == {"settle", "settled", "confirm", "confirmed"}

RowInHand ==
  /\ dpc \in {"amount", "again", "add", "call"} => dcard \in Cards
  /\ dpc = "add" => cur \in 1..(next - 1) /\ cur \notin DOMAIN rows /\ dflag = "INIT"
  /\ dpc \in Undecided \cup Decided => cur \in DOMAIN rows
  /\ dpc \in Undecided => rows[cur].flag = "INIT"
  /\ dpc \in {"write", "result"} => booking[cur].status # "none"
  /\ dpc = "judged" =>
       \/ dflag = "SYS_FAILED"
       \/ dflag = "WRITE_CARD_FAILED" /\ booking[cur].status # "none"
  /\ dpc = "failed" => dflag = "SYS_FAILED"
  /\ dpc \in {"result"} \cup Decided => dflag \in {"WRITE_CARD_OK", "WRITE_CARD_FAILED"}
  /\ dpc \in Decided => rows[cur].flag = dflag

DepositInv == mode = "deposit" => JournalInv /\ RowInHand

-----------------------------------------------------------------------------
(* The invariant of the allowance flow.                                    *)

\* A request of the allowance flow is for the card its transaction is booked
\* for, and tells of success only when the card was credited.
Proper(r) ==
  /\ r.txn < next
  /\ booking[r.txn].status # "none" => booking[r.txn].card = r.card
  /\ r.op = "confirm" /\ r.isok = 1 => credits[r.txn] # <<>>

CardInv ==
  /\ \A r \in flight : Proper(r)
  /\ \A r, s \in flight : r.txn = s.txn => r.card = s.card
  /\ \A t \in Txns : booking[t].status # "none" => t < next
  /\ \A t \in Txns : credits[t] # <<>> =>
       booking[t].status # "none" /\ credits[t] = <<booking[t].card>>
  /\ \A t \in Txns : booking[t].status = "kept" \/ <<t, 1>> \in verdicts => credits[t] # <<>>

\* The order in hand: all requests of its transaction are for its card, and
\* once it is credited the card has moved on from the order's count.
WithOrder == {"init", "get", "credit", "failed", "confirm", "done"}

OrderFits ==
  /\ order.txn \in 1..(next - 1) /\ order.card \in Cards
  /\ \A r \in flight : r.txn = order.txn => r.card = order.card
  /\ booking[order.txn].status # "none" => booking[order.txn].card = order.card
  /\ credits[order.txn] # <<>> => loads[order.card] > order.dpscnt
  /\ aflag = "WRITE_CARD_OK" => credits[order.txn] # <<>>

OrderInHand ==
  /\ apc \in {"ask", "offer"} => acard.card \in Cards
  /\ apc \in WithOrder => OrderFits
  /\ apc = "credit" => booking[order.txn].status # "none"

AllowanceInv ==
  IF mode = "allowance" THEN CardInv /\ OrderInHand
  ELSE \A t \in Txns : credits[t] = <<>>

TopUpInv ==
  /\ TypeOK
  /\ mode \in {"deposit", "allowance"}
  /\ DepositInv
  /\ AllowanceInv

-----------------------------------------------------------------------------
(* What a request does, stated once for the calls of both flows and for the *)
(* requests that are late.                                                 *)

LEMMA ServedEffect ==
  ASSUME OfficeTypeOK, NEW r \in Requests, Served(r), flight' \subseteq flight \cup {r}
  PROVE  Effect(r) /\ (r.op # "confirm" => booking'[r.txn].status # "none")
  <1>1. r.txn \in Txns /\ booking \in [Txns -> [status : Statuses, card : Cards \cup {NoCard}]]
    BY DEF OfficeTypeOK, Requests
  <1>2. CASE r.op = "confirm"
    BY <1>1, <1>2 DEF Served, Effect
  <1>3. CASE r.op # "confirm"
    BY <1>1, <1>3 DEF Served, Effect
  <1> QED BY <1>2, <1>3

\* The operators of the office are the same ones in both flows.
LEMMA DepositCall ==
  ASSUME OfficeTypeOK, NEW r \in Requests,
         D!Answered(r) \/ D!TimesOut(r) \/ D!FailsOrRefuses(r)
  PROVE  /\ Effect(r) /\ timedOut' \in {0, 1}
         /\ D!Answered(r) /\ r.op # "confirm" => booking'[r.txn].status # "none"
  <1>1. D!Served(r) = Served(r)
    BY DEF D!Served, Served, D!Accepts, Accepts, D!Txns, Txns
  <1>2. \/ Served(r) /\ UNCHANGED flight
        \/ flight' = flight \cup {r} /\ UNCHANGED <<booking, verdicts>>
    BY <1>1 DEF D!Answered, D!TimesOut, D!FailsOrRefuses, D!Arrives
  <1>3. Effect(r)
    BY <1>2, ServedEffect DEF Effect
  <1>4. D!Answered(r) => Served(r) /\ flight' \subseteq flight \cup {r}
    BY <1>1 DEF D!Answered
  <1>5. timedOut' \in {0, 1}
    BY DEF OfficeTypeOK, D!Answered, D!TimesOut, D!FailsOrRefuses
  <1> QED BY <1>3, <1>4, <1>5, ServedEffect

LEMMA AllowanceCall ==
  ASSUME OfficeTypeOK, NEW r \in Requests,
         A!Answered(r) \/ A!TimesOut(r) \/ A!FailsOrRefuses(r)
  PROVE  /\ Effect(r) /\ timedOut' \in {0, 1}
         /\ A!Answered(r) /\ r.op # "confirm" => booking'[r.txn].status # "none"
  <1>1. A!Served(r) = Served(r)
    BY DEF A!Served, Served, A!Accepts, Accepts, A!Txns, Txns
  <1>2. \/ Served(r) /\ UNCHANGED flight
        \/ flight' = flight \cup {r} /\ UNCHANGED <<booking, verdicts>>
    BY <1>1 DEF A!Answered, A!TimesOut, A!FailsOrRefuses, A!Arrives
  <1>3. Effect(r)
    BY <1>2, ServedEffect DEF Effect
  <1>4. A!Answered(r) => Served(r) /\ flight' \subseteq flight \cup {r}
    BY <1>1 DEF A!Answered
  <1>5. timedOut' \in {0, 1}
    BY DEF OfficeTypeOK, A!Answered, A!TimesOut, A!FailsOrRefuses
  <1> QED BY <1>3, <1>4, <1>5, ServedEffect

LEMMA LateCall ==
  ASSUME OfficeTypeOK, LateArrival
  PROVE  \E r \in flight : r \in Requests /\ Effect(r)
  <1>1. PICK r \in flight : Served(r) /\ flight' = flight \ {r}
    BY DEF LateArrival
  <1> QED BY <1>1, ServedEffect DEF OfficeTypeOK

\* A transaction keeps its type, a booking is never forgotten, and whoever is
\* booked keeps the card as long as the requests name it.
LEMMA EffectTypes ==
  ASSUME OfficeTypeOK, NEW r \in Requests, Effect(r)
  PROVE  /\ booking' \in [Txns -> [status : Statuses, card : Cards \cup {NoCard}]]
         /\ flight' \subseteq Requests
         /\ verdicts' \subseteq Txns \X {0, 1}
         /\ \A t \in Txns : booking[t].status # "none" => booking'[t].status # "none"
         /\ \A t \in Txns \ {r.txn} : booking'[t] = booking[t]
  <1>1. r.txn \in Txns /\ r.card \in Cards /\ r.isok \in {0, 1}
    BY DEF Requests
  <1>2. booking \in [Txns -> [status : Statuses, card : Cards \cup {NoCard}]]
    BY DEF OfficeTypeOK
  <1>3. flight' \subseteq Requests /\ verdicts' \subseteq Txns \X {0, 1}
    BY <1>1 DEF Effect, OfficeTypeOK
  <1>4. CASE booking' = booking
    BY <1>2, <1>3, <1>4
  <1>5. CASE booking' = [booking EXCEPT ![r.txn] = [status |-> "booked", card |-> r.card]]
    BY <1>1, <1>2, <1>3, <1>5 DEF Statuses
  <1>6. CASE booking' = [booking EXCEPT ![r.txn] =
                           [status |-> IF r.isok = 1 THEN "kept" ELSE "reversed", card |-> r.card]]
    <2>1. /\ (IF r.isok = 1 THEN "kept" ELSE "reversed") \in Statuses
          /\ (IF r.isok = 1 THEN "kept" ELSE "reversed") # "none"
      BY DEF Statuses
    <2> QED BY <1>1, <1>2, <1>3, <1>6, <2>1
  <1> QED BY <1>4, <1>5, <1>6 DEF Effect

-----------------------------------------------------------------------------
(* The journal and the server.                                             *)

\* What the proofs below use of the types.
LEMMA DepositTypes ==
  ASSUME TypeOK
  PROVE  /\ DOMAIN rows \subseteq Txns /\ Txns \subseteq Nat /\ next \in Nat /\ cur \in Nat
         /\ \A t \in DOMAIN rows : rows[t] \in [flag : D!TransFlags, confirm : {0, 1}, card : Cards]
         /\ booking \in [Txns -> [status : Statuses, card : Cards \cup {NoCard}]]
         /\ dflag \in D!TransFlags
BY BackOfficeAssumption
   DEF TypeOK, OfficeTypeOK, D!DepositTypeOK, Txns, D!Txns, D!NoTxn

\* A call, or a request that was late: the row says how far the server may go.
LEMMA JournalCall ==
  ASSUME TypeOK, JournalInv, NEW r \in Requests, OfRow(r), Effect(r), UNCHANGED <<rows, next>>
  PROVE  JournalInv'
  <1>1. r.txn \in Txns /\ r.isok \in {0, 1}
    BY DEF Requests
  <1>2. \A x \in flight' : OfRow(x)'
    BY DEF Effect, JournalInv, OfRow, Agrees
  <1>3. \A v \in verdicts' : Agrees(v[1], v[2])'
    BY DEF Effect, JournalInv, OfRow, Agrees
  <1>4. \A t \in Txns \ {r.txn} : booking'[t] = booking[t]
    BY EffectTypes DEF TypeOK
  <1>5. booking'[r.txn].status # "none" => r.txn \in DOMAIN rows
    BY DEF OfRow
  <1>6. FlagFits(r.txn)'
    <2>1. FlagFits(r.txn) /\ r.txn \in DOMAIN rows
      BY DEF JournalInv, OfRow
    <2>2. CASE booking' = booking
      BY <2>1, <2>2 DEF FlagFits
    <2>3. CASE /\ r.op # "confirm" /\ booking[r.txn].status = "none"
               /\ booking'[r.txn].status = "booked"
      BY <2>1, <2>3 DEF FlagFits
    <2>4. CASE /\ r.op = "confirm"
               /\ booking'[r.txn].status = IF r.isok = 1 THEN "kept" ELSE "reversed"
      BY <1>1, <2>1, <2>4 DEF FlagFits, OfRow, Agrees, Result
    <2> QED BY <1>1, <2>2, <2>3, <2>4, DepositTypes DEF Effect
  <1>7. \A t \in DOMAIN rows : FlagFits(t)'
    <2>1. \A t \in DOMAIN rows \ {r.txn} : FlagFits(t)'
      BY <1>4, DepositTypes DEF JournalInv, FlagFits
    <2> QED BY <1>6, <2>1
  <1> QED BY <1>2, <1>3, <1>4, <1>5, <1>7 DEF JournalInv

\* A step that neither calls nor writes.
LEMMA JournalQuiet ==
  ASSUME TypeOK, JournalInv, UNCHANGED <<rows, booking, flight, verdicts>>,
         next' \in {next, next + 1}
  PROVE  JournalInv'
  <1>1. \A t : FlagFits(t) => FlagFits(t)'
    BY DEF FlagFits
  <1>2. \A r : OfRow(r) => OfRow(r)'
    BY DEF OfRow, Agrees
  <1>3. \A t, isok : Agrees(t, isok) => Agrees(t, isok)'
    BY DEF Agrees
  <1>4. \A t \in DOMAIN rows : t \in Nat /\ t < next => t < next'
    BY DepositTypes
  <1> QED BY <1>1, <1>2, <1>3, <1>4, DepositTypes DEF JournalInv

\* The row in hand is written: it says what it said, or it was INIT, of which
\* nothing was confirmed.
LEMMA JournalRow ==
  ASSUME TypeOK, JournalInv, NEW confirm, D!UpdateRow(confirm), cur \in DOMAIN rows,
         UNCHANGED <<booking, flight, verdicts, next>>,
         \/ dflag = rows[cur].flag
         \/ rows[cur].flag = "INIT" /\ dflag = "SYS_FAILED"
         \/ /\ rows[cur].flag = "INIT" /\ booking[cur].status # "none"
            /\ dflag \in {"WRITE_CARD_OK", "WRITE_CARD_FAILED"},
         confirm = 0 \/ dflag \in {"WRITE_CARD_OK", "WRITE_CARD_FAILED"}
  PROVE  JournalInv'
  <1>1. /\ DOMAIN rows' = DOMAIN rows /\ rows'[cur].flag = dflag /\ rows'[cur].confirm = confirm
        /\ \A t \in DOMAIN rows \ {cur} : rows'[t] = rows[t]
    BY DEF D!UpdateRow
  <1>2. rows[cur].flag # "INIT" => \A t \in DOMAIN rows : rows'[t].flag = rows[t].flag
    BY <1>1
  <1>3. \A t, isok : Agrees(t, isok) => Agrees(t, isok)'
    BY <1>1, <1>2 DEF Agrees, Result
  <1>4. \A r \in flight' : OfRow(r)'
    BY <1>1, <1>3 DEF JournalInv, OfRow
  <1>5. ASSUME NEW t \in DOMAIN rows PROVE FlagFits(t)'
    <2>1. FlagFits(t) /\ booking' = booking
      BY DEF JournalInv
    <2>2. CASE t # cur
      BY <1>1, <2>1, <2>2 DEF FlagFits
    <2>3. CASE t = cur
      BY <1>1, <2>1, <2>3 DEF FlagFits
    <2> QED BY <2>2, <2>3
  <1> QED BY <1>1, <1>3, <1>4, <1>5 DEF JournalInv

\* A new row: nothing was sent for it yet.
LEMMA JournalAdd ==
  ASSUME TypeOK, JournalInv, RowInHand, D!TransAddRecord
  PROVE  JournalInv' /\ cur \in DOMAIN rows' /\ rows'[cur].flag = "INIT"
  <1>1. /\ cur \in 1..(next - 1) /\ cur \notin DOMAIN rows /\ dflag = "INIT"
        /\ UNCHANGED <<booking, flight, verdicts, next>>
    BY DEF D!TransAddRecord, D!Step, D!Local, D!officeVars, RowInHand
  <1>2. /\ DOMAIN rows' = DOMAIN rows \cup {cur} /\ rows'[cur].flag = "INIT" /\ rows'[cur].confirm = 0
        /\ \A t \in DOMAIN rows : rows'[t] = rows[t]
    BY <1>1 DEF D!TransAddRecord
  <1>3. \A t, isok : Agrees(t, isok) => Agrees(t, isok)'
    BY <1>2 DEF Agrees
  <1>4. \A r \in flight' : OfRow(r)'
    BY <1>1, <1>2, <1>3 DEF JournalInv, OfRow
  <1>5. cur \in Txns /\ cur < next'
    BY <1>1, BackOfficeAssumption DEF TypeOK, OfficeTypeOK, Txns
  <1>6. booking[cur].status = "none"
    BY <1>1, <1>5 DEF JournalInv
  <1>7. \A t \in {cur} : t < next' /\ FlagFits(t)'
    BY <1>1, <1>2, <1>5, <1>6 DEF FlagFits
  <1>8. \A t \in DOMAIN rows : t < next' /\ FlagFits(t)'
    BY <1>1, <1>2 DEF FlagFits, JournalInv
  <1>9. \A t \in DOMAIN rows' : t < next' /\ FlagFits(t)'
    BY <1>2, <1>7, <1>8
  <1> QED BY <1>1, <1>2, <1>3, <1>4, <1>9 DEF JournalInv

-----------------------------------------------------------------------------
(* The steps of the deposit flow.                                          *)

\* What every step of the flow does to the types, and what is left to show.
DepositGoesOn ==
  /\ D!DepositTypeOK' /\ RowInHand'
  /\ timedOut' \in {0, 1} /\ next' \in {next, next + 1} /\ next' \in 1..(MaxTrans + 1)
  /\ UNCHANGED field

Silent == UNCHANGED <<rows, booking, flight, verdicts>>

\* The steps that neither write nor ask the server.
LEMMA DepositRests ==
  ASSUME TypeOK, JournalInv, RowInHand,
         \/ D!DepositMain \/ D!CheckDone \/ D!CheckBreaks \/ D!CheckRow \/ D!CheckedSysFailed
         \/ D!CheckAgain \/ D!LeaveLoop \/ D!WaitingCard \/ D!InputMoney \/ D!NoAmount
         \/ D!ReadAgain \/ D!NotAgain \/ D!TransAddFails \/ D!WaitEnds \/ D!WriteCardOk
         \/ D!WriteCardCancelled \/ D!UpdateFails
  PROVE  Silent /\ DepositGoesOn
  <1> USE DEF D!Step, D!Local, D!officeVars, Undecided, Decided
  <1>1. /\ D!DepositTypeOK /\ timedOut \in {0, 1} /\ next \in 1..(MaxTrans + 1)
        /\ field \in Cards \cup {NoCard} /\ MaxTrans \in Nat
    BY BackOfficeAssumption DEF TypeOK, OfficeTypeOK
  <1>2. CASE \/ D!DepositMain \/ D!CheckDone \/ D!CheckBreaks \/ D!CheckedSysFailed
             \/ D!CheckAgain \/ D!LeaveLoop \/ D!NoAmount \/ D!NotAgain \/ D!TransAddFails
             \/ D!WaitEnds \/ D!UpdateFails
    <2>1. Silent /\ next' = next /\ timedOut' \in {0, 1} /\ field' = field
      BY <1>1, <1>2 DEF D!DepositMain, D!CheckDone, D!CheckBreaks, D!CheckedSysFailed,
         D!CheckAgain, D!LeaveLoop, D!NoAmount, D!NotAgain, D!TransAddFails, D!WaitEnds,
         D!UpdateFails, Silent
    <2>2. D!DepositTypeOK'
      BY <1>1, <1>2, <2>1 DEF D!DepositMain, D!CheckDone, D!CheckBreaks, D!CheckedSysFailed,
         D!CheckAgain, D!LeaveLoop, D!NoAmount, D!NotAgain, D!TransAddFails, D!WaitEnds,
         D!UpdateFails, D!Forget, D!DepositTypeOK, D!TransFlags, Silent
    <2>3. dpc' \in {"check", "top", "menu", "off"}
      BY <1>2 DEF D!DepositMain, D!CheckDone, D!CheckBreaks, D!CheckedSysFailed,
         D!CheckAgain, D!LeaveLoop, D!NoAmount, D!NotAgain, D!TransAddFails, D!WaitEnds,
         D!UpdateFails
    <2>4. RowInHand'
      BY <2>3 DEF RowInHand
    <2> QED BY <1>1, <2>1, <2>2, <2>4 DEF DepositGoesOn
  <1>3. CASE D!CheckRow
    <2>1. PICK t \in DOMAIN rows :
            /\ dpc = "check" /\ rows[t].flag # "SYS_FAILED"
            /\ cur' = t /\ dflag' = rows[t].flag
            /\ dpc' = IF rows[t].flag = "INIT" THEN "ask" ELSE "settle"
            /\ UNCHANGED <<back, dcard, rows, next, booking, flight, verdicts, timedOut, field>>
      BY <1>3 DEF D!CheckRow
    <2>2. rows[t].flag \in D!TransFlags /\ t \in D!Txns
      BY <1>1 DEF D!DepositTypeOK
    <2>3. D!DepositTypeOK'
      BY <1>1, <2>1, <2>2 DEF D!DepositTypeOK
    <2>4. RowInHand'
      BY <2>1, <2>2 DEF RowInHand, D!TransFlags
    <2> QED BY <1>1, <2>1, <2>3, <2>4 DEF DepositGoesOn, Silent
  <1>4. CASE D!WaitingCard \/ D!InputMoney
    <2>1. Silent /\ UNCHANGED <<back, cur, dflag, next, field, timedOut>>
      BY <1>4 DEF D!WaitingCard, D!InputMoney, Silent
    <2>2. dcard' \in Cards /\ dpc' \in {"amount", "again"}
      BY <1>1, <1>4 DEF D!WaitingCard, D!InputMoney, RowInHand
    <2>3. D!DepositTypeOK' /\ RowInHand'
      BY <1>1, <2>1, <2>2 DEF D!DepositTypeOK, RowInHand, Silent
    <2> QED BY <1>1, <2>1, <2>3 DEF DepositGoesOn
  <1>5. CASE D!ReadAgain
    <2>1. /\ dpc = "again" /\ dpc' = "add" /\ next <= MaxTrans
          /\ cur' = next /\ next' = next + 1 /\ dflag' = "INIT"
          /\ Silent /\ UNCHANGED <<back, dcard, field, timedOut>>
      BY <1>5 DEF D!ReadAgain, Silent
    <2>2. next \notin DOMAIN rows /\ next \in D!Txns
      BY <1>1, <2>1 DEF JournalInv, D!Txns
    <2>3. D!DepositTypeOK'
      BY <1>1, <2>1, <2>2 DEF D!DepositTypeOK, D!TransFlags, Silent
    <2>4. RowInHand'
      BY <1>1, <2>1, <2>2 DEF RowInHand, Silent
    <2> QED BY <1>1, <2>1, <2>3, <2>4 DEF DepositGoesOn
  <1>6. CASE D!WriteCardOk \/ D!WriteCardCancelled
    <2>1. /\ dpc = "write" /\ dpc' = "result"
          /\ dflag' \in {"WRITE_CARD_OK", "WRITE_CARD_FAILED"}
          /\ Silent /\ UNCHANGED <<back, cur, dcard, next, field, timedOut>>
      BY <1>6 DEF D!WriteCardOk, D!WriteCardCancelled, Silent
    <2>2. D!DepositTypeOK' /\ RowInHand'
      BY <1>1, <2>1 DEF D!DepositTypeOK, D!TransFlags, RowInHand, Silent
    <2> QED BY <1>1, <2>1, <2>2 DEF DepositGoesOn
  <1> QED BY <1>2, <1>3, <1>4, <1>5, <1>6

\* The queries.  What the answer says is so at the server.
LEMMA DepositAsks ==
  ASSUME TypeOK, JournalInv, RowInHand,
         D!AskBooked \/ D!AskFails \/ D!AskTimesOut \/ D!WaitAnswered \/ D!WaitGoesOn
  PROVE  Silent /\ DepositGoesOn
  <1> USE DEF D!Step, D!Call, D!QueryAnswered, D!QueryFails, D!QueryTimesOut, Undecided, Decided
  <1>1. D!DepositTypeOK /\ timedOut \in {0, 1} /\ next \in 1..(MaxTrans + 1)
    BY DEF TypeOK, OfficeTypeOK
  <1>2. /\ Silent /\ UNCHANGED <<back, cur, dcard, next, field>> /\ timedOut' \in {0, 1}
        /\ dpc \in {"ask", "wait"}
    BY <1>1 DEF D!AskBooked, D!AskFails, D!AskTimesOut, D!WaitAnswered, D!WaitGoesOn,
                D!flowVars, Silent
  <1>3. \/ dpc' = dpc /\ dflag' = dflag
        \/ dpc' = "judged" /\ dflag' = "SYS_FAILED"
        \/ dpc' = "judged" /\ dflag' = "WRITE_CARD_FAILED" /\ booking[cur].status # "none"
        \/ dpc' = "write" /\ dflag' = dflag /\ booking[cur].status # "none"
    BY DEF D!AskBooked, D!AskFails, D!AskTimesOut, D!WaitAnswered, D!WaitGoesOn, D!flowVars
  <1>4. D!DepositTypeOK'
    BY <1>1, <1>2, <1>3 DEF D!DepositTypeOK, D!TransFlags, Silent
  <1>5. RowInHand'
    BY <1>2, <1>3 DEF RowInHand, Silent
  <1> QED BY <1>1, <1>2, <1>4, <1>5 DEF DepositGoesOn

\* The request of a call is about the row in hand, and a confirmation says what
\* the row says.
LEMMA CallOfRow ==
  ASSUME TypeOK, RowInHand
  PROVE  /\ dpc = "call" => /\ D!Book("deposit", cur, dcard) \in Requests
                            /\ D!Book("deposit", cur, dcard).txn = cur
                            /\ D!Book("deposit", cur, dcard).op = "deposit"
                            /\ OfRow(D!Book("deposit", cur, dcard))
         /\ dpc \in Decided => /\ D!Confirmation \in Requests
                               /\ D!Confirmation.txn = cur
                               /\ OfRow(D!Confirmation)
  <1>1. dpc \in {"call"} \cup Decided => cur \in DOMAIN rows /\ cur \in Txns /\ rows[cur].card \in Cards
    BY DepositTypes DEF RowInHand, Undecided
  <1>2. ASSUME dpc = "call"
        PROVE  /\ D!Book("deposit", cur, dcard) \in Requests
               /\ D!Book("deposit", cur, dcard).txn = cur
               /\ D!Book("deposit", cur, dcard).op = "deposit"
               /\ OfRow(D!Book("deposit", cur, dcard))
    BY <1>1, <1>2 DEF RowInHand, D!Book, Requests, OfRow
  <1>3. ASSUME dpc \in Decided
        PROVE  /\ D!Confirmation \in Requests
               /\ D!Confirmation.txn = cur
               /\ OfRow(D!Confirmation)
    <2>1. /\ D!Isok \in {0, 1} /\ rows[cur].flag = Result(D!Isok)
      BY <1>3 DEF RowInHand, D!Isok, Result
    <2>2. D!Confirmation = [op |-> "confirm", txn |-> cur, card |-> rows[cur].card, isok |-> D!Isok]
      BY DEF D!Confirmation, D!Confirm
    <2> QED BY <1>1, <1>3, <2>1, <2>2 DEF Requests, OfRow, Agrees
  <1> QED BY <1>2, <1>3

\* The calls.
LEMMA DepositCalls ==
  ASSUME TypeOK, JournalInv, RowInHand,
         \/ D!SettleAnswered \/ D!SettleFails \/ D!ConfirmEnds \/ D!ConfirmTimesOut
         \/ D!DepositAnswered \/ D!DepositFails \/ D!DepositTimesOut
  PROVE  /\ DepositGoesOn /\ UNCHANGED <<rows, next>>
         /\ \E r \in Requests : OfRow(r) /\ Effect(r)
  <1> USE DEF D!Step, D!Call, Undecided, Decided
  <1>1. /\ D!DepositTypeOK /\ OfficeTypeOK /\ next \in 1..(MaxTrans + 1)
    BY DEF TypeOK, OfficeTypeOK
  <1>2. CASE D!SettleAnswered \/ D!SettleFails \/ D!ConfirmEnds \/ D!ConfirmTimesOut
    <2> DEFINE r == D!Confirmation
    <2>1. /\ dpc \in {"settle", "confirm"} /\ dpc' \in {"settle", "settled", "confirm", "confirmed"}
          /\ UNCHANGED <<back, cur, dflag, dcard, rows, next, field>>
          /\ D!Answered(r) \/ D!TimesOut(r) \/ D!FailsOrRefuses(r)
      BY <1>2 DEF D!SettleAnswered, D!SettleFails, D!ConfirmEnds, D!ConfirmTimesOut, D!flowVars
    <2>2. r \in Requests /\ OfRow(r) /\ r.txn = cur
      BY <2>1, CallOfRow
    <2> HIDE DEF r
    <2>3. Effect(r) /\ timedOut' \in {0, 1}
      BY <1>1, <2>1, <2>2, DepositCall
    <2>4. D!DepositTypeOK'
      BY <1>1, <2>1 DEF D!DepositTypeOK
    <2>5. RowInHand'
      BY <2>1 DEF RowInHand
    <2> QED BY <1>1, <2>1, <2>2, <2>3, <2>4, <2>5 DEF DepositGoesOn
  <1>3. CASE D!DepositAnswered \/ D!DepositFails \/ D!DepositTimesOut
    <2> DEFINE r == D!Book("deposit", cur, dcard)
    <2>1. /\ dpc = "call" /\ UNCHANGED <<back, cur, dcard, rows, next, field>>
          /\ \/ D!Answered(r) /\ dpc' = "write" /\ dflag' = dflag
             \/ D!FailsOrRefuses(r) /\ dpc' = "failed" /\ dflag' = "SYS_FAILED"
             \/ D!TimesOut(r) /\ dpc' = "wait" /\ dflag' = dflag
      BY <1>3 DEF D!DepositAnswered, D!DepositFails, D!DepositTimesOut
    <2>2. r \in Requests /\ OfRow(r) /\ r.txn = cur /\ r.op # "confirm"
      BY <2>1, CallOfRow
    <2> HIDE DEF r
    <2>3. /\ Effect(r) /\ timedOut' \in {0, 1}
          /\ D!Answered(r) => booking'[cur].status # "none"
      BY <1>1, <2>1, <2>2, DepositCall
    <2>4. D!DepositTypeOK'
      BY <1>1, <2>1 DEF D!DepositTypeOK, D!TransFlags
    <2>5. RowInHand'
      BY <2>1, <2>3 DEF RowInHand
    <2> QED BY <1>1, <2>1, <2>2, <2>3, <2>4, <2>5 DEF DepositGoesOn
  <1> QED BY <1>2, <1>3

\* The writes.
LEMMA DepositWrites ==
  ASSUME TypeOK, JournalInv, RowInHand,
         \/ D!WriteJudged \/ D!WriteSettled \/ D!UpdateResult \/ D!UpdateConfirmed
         \/ D!TransAddRecord
  PROVE  DepositGoesOn /\ JournalInv' /\ UNCHANGED <<booking, flight, verdicts>>
  <1> USE DEF D!Step, D!Local, D!officeVars, Undecided, Decided
  <1>1. /\ D!DepositTypeOK /\ timedOut \in {0, 1} /\ next \in 1..(MaxTrans + 1)
    BY DEF TypeOK, OfficeTypeOK
  <1>2. CASE D!TransAddRecord
    <2>1. /\ dpc = "add" /\ dpc' = "call"
          /\ UNCHANGED <<back, cur, dflag, dcard, next, booking, flight, verdicts, timedOut, field>>
      BY <1>2 DEF D!TransAddRecord
    <2>2. JournalInv' /\ cur \in DOMAIN rows' /\ rows'[cur].flag = "INIT"
      BY <1>2, JournalAdd
    <2>3. dcard \in Cards /\ cur \in D!Txns
      BY <1>1, <2>1, BackOfficeAssumption DEF RowInHand, D!Txns
    <2>4. rows' = [t \in DOMAIN rows \cup {cur} |->
                     IF t = cur THEN [flag |-> dflag, confirm |-> 0, card |-> dcard] ELSE rows[t]]
      BY <1>2 DEF D!TransAddRecord
    <2>5. \A t \in DOMAIN rows' : rows'[t] \in [flag : D!TransFlags, confirm : {0, 1}, card : Cards]
      BY <1>1, <2>3, <2>4 DEF D!DepositTypeOK
    <2>6. D!DepositTypeOK'
      BY <1>1, <2>1, <2>3, <2>4, <2>5 DEF D!DepositTypeOK
    <2>7. RowInHand'
      BY <2>1, <2>2, <2>3 DEF RowInHand
    <2> QED BY <1>1, <2>1, <2>2, <2>6, <2>7 DEF DepositGoesOn
  <1>3. CASE D!WriteJudged \/ D!WriteSettled \/ D!UpdateResult \/ D!UpdateConfirmed
    <2>1. PICK c \in {0, 1} :
             D!UpdateRow(c) /\ (c = 0 \/ dflag \in {"WRITE_CARD_OK", "WRITE_CARD_FAILED"})
      BY <1>3 DEF D!WriteJudged, D!WriteSettled, D!UpdateResult, D!UpdateConfirmed, D!Step,
                  RowInHand, Decided
    <2>2. UNCHANGED <<booking, flight, verdicts, timedOut, next, back, field>>
      BY <1>3 DEF D!WriteJudged, D!WriteSettled, D!UpdateResult, D!UpdateConfirmed
    <2>3. /\ dpc \in {"judged", "settled", "result", "failed", "confirmed"}
          /\ cur \in DOMAIN rows
      BY <1>3 DEF D!WriteJudged, D!WriteSettled, D!UpdateResult, D!UpdateConfirmed, RowInHand
    <2>4. \/ dflag = rows[cur].flag
          \/ rows[cur].flag = "INIT" /\ dflag = "SYS_FAILED"
          \/ /\ rows[cur].flag = "INIT" /\ booking[cur].status # "none"
             /\ dflag \in {"WRITE_CARD_OK", "WRITE_CARD_FAILED"}
      BY <2>3 DEF RowInHand
    <2>5. JournalInv'
      BY <2>1, <2>2, <2>3, <2>4, JournalRow
    <2>6. /\ DOMAIN rows' = DOMAIN rows
          /\ rows'[cur] = [flag |-> dflag, confirm |-> c, card |-> rows[cur].card]
          /\ \A t \in DOMAIN rows \ {cur} : rows'[t] = rows[t]
      BY <2>1, <2>3 DEF D!UpdateRow
    <2>7. \A t \in DOMAIN rows' : rows'[t] \in [flag : D!TransFlags, confirm : {0, 1}, card : Cards]
      BY <1>1, <2>1, <2>6 DEF D!DepositTypeOK
    <2>8. \/ dpc' \in {"check", "top", "checked"}
          \/ /\ dpc' \in {"settle", "confirm"} /\ UNCHANGED <<cur, dflag, dcard>>
             /\ dflag \in {"WRITE_CARD_OK", "WRITE_CARD_FAILED"}
      BY <1>3 DEF D!WriteJudged, D!WriteSettled, D!UpdateResult, D!UpdateConfirmed, RowInHand
    <2>9. RowInHand'
      BY <2>3, <2>6, <2>8 DEF RowInHand
    <2>10. cur' \in {cur, D!NoTxn} /\ dflag' \in {dflag, "INIT"} /\ dcard' \in {dcard, NoCard}
      BY <1>3 DEF D!WriteJudged, D!WriteSettled, D!UpdateResult, D!UpdateConfirmed, D!Forget
    <2>11. D!DepositTypeOK'
      BY <1>1, <2>2, <2>6, <2>7, <2>10 DEF D!DepositTypeOK, D!TransFlags
    <2> QED BY <1>1, <2>2, <2>5, <2>9, <2>11 DEF DepositGoesOn
  <1> QED BY <1>2, <1>3

\* A step of the deposit flow.
LEMMA DepositStepKeeps ==
  ASSUME TopUpInv, DepositStep
  PROVE  TopUpInv'
  <1>1. /\ TypeOK /\ mode = "deposit" /\ JournalInv /\ RowInHand
        /\ D!DepositNext /\ UNCHANGED <<mode, allowanceOnly>>
    BY DEF TopUpInv, DepositInv, DepositStep
  <1>2. /\ DepositGoesOn /\ JournalInv'
        /\ \/ UNCHANGED <<booking, flight, verdicts>>
           \/ \E r \in Requests : Effect(r)
    <2>1. CASE \/ D!DepositMain \/ D!CheckDone \/ D!CheckBreaks \/ D!CheckRow
               \/ D!CheckedSysFailed \/ D!CheckAgain \/ D!LeaveLoop \/ D!WaitingCard
               \/ D!InputMoney \/ D!NoAmount \/ D!ReadAgain \/ D!NotAgain \/ D!TransAddFails
               \/ D!WaitEnds \/ D!WriteCardOk \/ D!WriteCardCancelled \/ D!UpdateFails
               \/ D!AskBooked \/ D!AskFails \/ D!AskTimesOut \/ D!WaitAnswered \/ D!WaitGoesOn
      <3>1. Silent /\ DepositGoesOn
        BY <1>1, <2>1, DepositRests, DepositAsks
      <3> QED BY <1>1, <3>1, JournalQuiet DEF Silent, DepositGoesOn
    <2>2. CASE \/ D!SettleAnswered \/ D!SettleFails \/ D!ConfirmEnds \/ D!ConfirmTimesOut
               \/ D!DepositAnswered \/ D!DepositFails \/ D!DepositTimesOut
      <3>1. /\ DepositGoesOn /\ UNCHANGED <<rows, next>>
            /\ \E r \in Requests : OfRow(r) /\ Effect(r)
        BY <1>1, <2>2, DepositCalls
      <3> QED BY <1>1, <3>1, JournalCall
    <2>3. CASE \/ D!WriteJudged \/ D!WriteSettled \/ D!UpdateResult \/ D!UpdateConfirmed
               \/ D!TransAddRecord
      BY <1>1, <2>3, DepositWrites
    <2> QED BY <1>1, <2>1, <2>2, <2>3 DEF D!DepositNext, D!Recovery, D!DoCard
  <1>3. OfficeTypeOK'
    BY <1>1, <1>2, EffectTypes DEF TypeOK, OfficeTypeOK, DepositGoesOn
  <1>4. A!AllowanceTypeOK'
    BY <1>1 DEF TypeOK, A!AllowanceTypeOK, allowanceOnly
  <1>5. AllowanceInv'
    BY <1>1 DEF TopUpInv, AllowanceInv, allowanceOnly
  <1> QED BY <1>1, <1>2, <1>3, <1>4, <1>5 DEF TopUpInv, TypeOK, DepositInv, DepositGoesOn

-----------------------------------------------------------------------------
(* Card and server.                                                        *)

LEMMA AllowanceTypes ==
  ASSUME TypeOK
  PROVE  /\ Txns \subseteq Nat /\ next \in Nat /\ order.txn \in Nat /\ order.dpscnt \in Nat
         /\ flight \subseteq Requests
         /\ booking \in [Txns -> [status : Statuses, card : Cards \cup {NoCard}]]
         /\ loads \in [Cards -> Nat] /\ credits \in [Txns -> Seq(Cards)]
         /\ \A t \in 1..(next - 1) : t \in Txns
BY BackOfficeAssumption DEF TypeOK, OfficeTypeOK, A!AllowanceTypeOK, Txns, A!Txns

\* A call, or a request that was late.
LEMMA CardCall ==
  ASSUME TypeOK, CardInv, NEW r \in Requests, Proper(r), Effect(r),
         \A s \in flight : s.txn = r.txn => s.card = r.card,
         UNCHANGED <<credits, next>>
  PROVE  /\ CardInv'
         /\ booking'[r.txn].status # "none" => booking'[r.txn].card = r.card
  <1>1. r.txn \in Txns
    BY DEF Requests
  <1>2. \A t \in Txns \ {r.txn} : booking'[t] = booking[t]
    BY EffectTypes DEF TypeOK
  <1>3. /\ booking'[r.txn].status # "none" => booking'[r.txn].card = r.card
        /\ booking'[r.txn].status = "kept" =>
             booking[r.txn].status = "kept" \/ (r.op = "confirm" /\ r.isok = 1)
        /\ booking[r.txn].status # "none" => booking'[r.txn].status # "none"
    BY <1>1, AllowanceTypes DEF Effect, Proper
  <1>4. \A x \in flight' : x \in flight \cup {r} /\ x.txn \in Txns
    BY AllowanceTypes DEF Effect, Requests
  <1>5. ASSUME NEW x \in flight' PROVE Proper(x)'
    <2>1. Proper(x)
      BY <1>4 DEF CardInv
    <2>2. CASE x.txn # r.txn
      BY <1>2, <1>4, <2>1, <2>2 DEF Proper
    <2>3. CASE x.txn = r.txn
      <3>1. x.card = r.card
        BY <1>4, <2>3
      <3> QED BY <1>3, <2>1, <2>3, <3>1 DEF Proper
    <2> QED BY <2>2, <2>3
  <1>6. \A x, y \in flight' : x.txn = y.txn => x.card = y.card
    BY <1>4 DEF CardInv
  <1>7. ASSUME NEW t \in Txns
        PROVE  /\ booking'[t].status # "none" => t < next
               /\ credits[t] # <<>> => booking'[t].status # "none" /\ credits[t] = <<booking'[t].card>>
               /\ booking'[t].status = "kept" => credits[t] # <<>>
    <2>1. CASE t # r.txn
      BY <1>2, <2>1 DEF CardInv
    <2>2. CASE t = r.txn
      BY <1>3, <2>2 DEF CardInv, Proper
    <2> QED BY <2>1, <2>2
  <1>8. ASSUME NEW t \in Txns, <<t, 1>> \in verdicts' PROVE credits[t] # <<>>
    BY <1>8 DEF Effect, CardInv, Proper
  <1> QED BY <1>3, <1>5, <1>6, <1>7, <1>8 DEF CardInv

LEMMA CardQuiet ==
  ASSUME TypeOK, CardInv, UNCHANGED <<booking, flight, verdicts, credits>>,
         next' \in {next, next + 1}
  PROVE  CardInv'
  <1>1. \A t \in Nat : t < next => t < next'
    BY AllowanceTypes
  <1>2. \A r \in flight : Proper(r)'
    BY <1>1, AllowanceTypes DEF CardInv, Proper, Requests
  <1> QED BY <1>1, <1>2, AllowanceTypes DEF CardInv

-----------------------------------------------------------------------------
(* The steps of the allowance flow.                                        *)

AllowanceGoesOn ==
  /\ A!AllowanceTypeOK' /\ CardInv' /\ OrderInHand'
  /\ timedOut' \in {0, 1} /\ next' \in 1..(MaxTrans + 1)
  /\ UNCHANGED field

\* The steps that neither ask the server nor credit a card.
LEMMA AllowanceRests ==
  ASSUME TypeOK, CardInv, OrderInHand,
         \/ A!MachineLogin \/ A!LoginFails \/ A!IsCancel \/ A!ReadUserCard \/ A!AllowanceThere
         \/ A!NoAllowance \/ A!Accept \/ A!NotAccepted \/ A!Init4Load \/ A!Init4LoadFails
         \/ A!TryAgain \/ A!GiveUp \/ A!AllowanceDone \/ A!DebitRefused
  PROVE  AllowanceGoesOn /\ UNCHANGED <<booking, flight, verdicts>>
  <1> USE DEF A!Step, A!Local, A!Call, A!cardVars, A!officeVars, A!PowerOn
  <1>1. /\ A!AllowanceTypeOK /\ timedOut \in {0, 1} /\ next \in 1..(MaxTrans + 1)
        /\ field \in Cards \cup {NoCard} /\ MaxTrans \in Nat
    BY BackOfficeAssumption DEF TypeOK, OfficeTypeOK
  <1>2. CASE \/ A!MachineLogin \/ A!LoginFails \/ A!IsCancel \/ A!ReadUserCard
             \/ A!AllowanceThere \/ A!NoAllowance \/ A!NotAccepted \/ A!AllowanceDone
    <2>1. /\ UNCHANGED <<booking, flight, verdicts, credits, loads, field, next>>
          /\ timedOut' \in {0, 1} /\ armed' \in BOOLEAN
      BY <1>1, <1>2 DEF A!MachineLogin, A!LoginFails, A!IsCancel, A!ReadUserCard,
         A!AllowanceThere, A!NoAllowance, A!NotAccepted, A!AllowanceDone, A!QueryFails,
         A!QueryTimesOut, A!RequestCard, A!AllowanceTypeOK
    <2>2. /\ acard' \in [card : Cards \cup {NoCard}, dpscnt : Nat]
          /\ order' \in {order, A!NoOrder} /\ getFlag' \in {getFlag, "transaction"}
          /\ aflag' \in {aflag, "INIT"}
      BY <1>1, <1>2 DEF A!MachineLogin, A!LoginFails, A!IsCancel, A!ReadUserCard,
         A!AllowanceThere, A!NoAllowance, A!NotAccepted, A!AllowanceDone, A!Forget, A!flowVars,
         A!CpuReadCard, A!AllowanceTypeOK
    <2>3. A!AllowanceTypeOK'
      BY <1>1, <2>1, <2>2 DEF A!AllowanceTypeOK, A!NoOrder
    <2>4. \/ apc' \in {"menu", "login"}
          \/ apc' \in {"ask", "offer"} /\ acard'.card \in Cards
      BY <1>1, <1>2 DEF A!MachineLogin, A!LoginFails, A!IsCancel, A!ReadUserCard,
         A!AllowanceThere, A!NoAllowance, A!NotAccepted, A!AllowanceDone, A!RequestCard,
         A!CpuReadCard, A!flowVars, A!AllowanceTypeOK, OrderInHand
    <2>5. OrderInHand'
      BY <2>4 DEF OrderInHand, WithOrder
    <2> QED BY <1>1, <2>1, <2>3, <2>5, CardQuiet DEF AllowanceGoesOn
  <1>3. CASE A!Accept
    <2>1. /\ apc = "offer" /\ apc' = "init" /\ next <= MaxTrans
          /\ order' = [txn |-> next, card |-> acard.card, dpscnt |-> acard.dpscnt]
          /\ next' = next + 1 /\ getFlag' = "transaction" /\ aflag' = "INIT" /\ armed' = FALSE
          /\ UNCHANGED <<acard, field, loads, booking, flight, verdicts, timedOut, credits>>
      BY <1>3 DEF A!Accept
    <2>2. /\ acard.card \in Cards /\ acard.dpscnt \in Nat /\ next \in Txns
          /\ next \in 0..MaxTrans /\ next + 1 \in 1..(MaxTrans + 1)
      BY <1>1, <2>1 DEF OrderInHand, A!AllowanceTypeOK, Txns
    <2>3. A!AllowanceTypeOK'
      BY <1>1, <2>1, <2>2 DEF A!AllowanceTypeOK
    <2>4. /\ booking[next].status = "none" /\ credits[next] = <<>>
          /\ \A r \in flight : r.txn # next
      BY <2>2, AllowanceTypes DEF CardInv, Proper
    <2>5. OrderFits'
      BY <1>1, <2>1, <2>2, <2>4 DEF OrderFits
    <2>6. OrderInHand'
      BY <2>1, <2>5 DEF OrderInHand
    <2> QED BY <1>1, <2>1, <2>2, <2>3, <2>6, CardQuiet DEF AllowanceGoesOn
  <1>4. CASE A!Init4Load \/ A!Init4LoadFails \/ A!TryAgain \/ A!GiveUp \/ A!DebitRefused
    <2>1. /\ apc \in WithOrder /\ apc' \in {"get", "init", "confirm", "failed"}
          /\ UNCHANGED <<booking, flight, verdicts, timedOut, credits, loads, field, next, order,
                         getFlag>>
          /\ armed' \in BOOLEAN /\ aflag' \in {aflag, "WRITE_CARD_FAILED"}
      BY <1>4 DEF A!Init4Load, A!Init4LoadFails, A!TryAgain, A!GiveUp, A!DebitRefused, WithOrder
    <2>2. acard' \in [card : Cards \cup {NoCard}, dpscnt : Nat]
      BY <1>1, <1>4 DEF A!Init4Load, A!Init4LoadFails, A!TryAgain, A!GiveUp, A!DebitRefused,
         A!AllowanceTypeOK
    <2>3. A!AllowanceTypeOK'
      BY <1>1, <2>1, <2>2 DEF A!AllowanceTypeOK
    <2>4. OrderFits'
      BY <2>1 DEF OrderInHand, OrderFits
    <2>5. OrderInHand'
      BY <2>1, <2>4 DEF OrderInHand
    <2> QED BY <1>1, <2>1, <2>3, <2>5, CardQuiet DEF AllowanceGoesOn
  <1> QED BY <1>2, <1>3, <1>4

\* A request about the order leaves it in order.
LEMMA OrderCall ==
  ASSUME TypeOK, CardInv, OrderFits, NEW r \in Requests, Effect(r),
         r.txn = order.txn, r.card = order.card,
         r.op = "confirm" /\ r.isok = 1 => aflag = "WRITE_CARD_OK",
         UNCHANGED <<order, aflag, loads, credits, next>>
  PROVE  CardInv' /\ OrderFits'
  <1>1. Proper(r)
    BY AllowanceTypes DEF Proper, OrderFits
  <1>2. \A s \in flight : s.txn = r.txn => s.card = r.card
    BY DEF OrderFits
  <1>3. /\ CardInv'
        /\ booking'[r.txn].status # "none" => booking'[r.txn].card = r.card
    BY <1>1, <1>2, CardCall
  <1>4. \A s \in flight' : s.txn = order.txn => s.card = order.card
    BY <1>2 DEF Effect
  <1> QED BY <1>3, <1>4 DEF OrderFits

\* The calls for the MAC: a booking the first time, then queries.
LEMMA AllowanceGets ==
  ASSUME TypeOK, CardInv, OrderInHand,
         A!GetAnswered \/ A!GetTimesOut \/ A!GetFails
  PROVE  /\ AllowanceGoesOn
         /\ UNCHANGED <<booking, flight, verdicts>> \/ \E r \in Requests : Effect(r)
  <1> DEFINE r == A!Request
  <1>1. /\ A!AllowanceTypeOK /\ timedOut \in {0, 1} /\ next \in 1..(MaxTrans + 1) /\ OfficeTypeOK
    BY DEF TypeOK, OfficeTypeOK
  <1>2. /\ apc = "get" /\ apc' \in {"credit", "init", "done"} /\ getFlag' = "query"
        /\ UNCHANGED <<acard, order, aflag, field, loads, armed, credits, next>>
    BY DEF A!GetAnswered, A!GetTimesOut, A!GetFails, A!Step, A!Call, A!cardVars
  <1>3. A!AllowanceTypeOK' /\ OrderFits
    BY <1>1, <1>2 DEF A!AllowanceTypeOK, OrderInHand, WithOrder
  <1>4. /\ r \in Requests /\ r.txn = order.txn /\ r.card = order.card /\ r.op = "allowance"
    BY <1>3, AllowanceTypes DEF A!Request, A!Book, OrderFits, Requests
  <1>5. \/ /\ UNCHANGED <<booking, flight, verdicts>> /\ timedOut' \in {0, 1}
           /\ apc' = "credit" => booking[order.txn].status # "none"
        \/ /\ A!Answered(r) \/ A!TimesOut(r) \/ A!FailsOrRefuses(r)
           /\ apc' = "credit" => A!Answered(r)
    BY <1>1 DEF A!GetAnswered, A!GetTimesOut, A!GetFails, A!Step, A!QueryAnswered,
                A!QueryTimesOut, A!QueryFails
  <1> HIDE DEF r
  <1>6. CASE /\ UNCHANGED <<booking, flight, verdicts>> /\ timedOut' \in {0, 1}
             /\ apc' = "credit" => booking[order.txn].status # "none"
    <2>1. CardInv' /\ OrderFits'
      BY <1>2, <1>3, <1>6, CardQuiet DEF OrderFits
    <2>2. OrderInHand'
      BY <1>2, <1>6, <2>1 DEF OrderInHand
    <2> QED BY <1>1, <1>2, <1>3, <1>6, <2>1, <2>2 DEF AllowanceGoesOn
  <1>7. CASE /\ A!Answered(r) \/ A!TimesOut(r) \/ A!FailsOrRefuses(r)
             /\ apc' = "credit" => A!Answered(r)
    <2>1. /\ Effect(r) /\ timedOut' \in {0, 1}
          /\ A!Answered(r) => booking'[r.txn].status # "none"
      BY <1>1, <1>4, <1>7, AllowanceCall
    <2>2. CardInv' /\ OrderFits'
      BY <1>2, <1>3, <1>4, <2>1, OrderCall
    <2>3. OrderInHand'
      BY <1>2, <1>4, <1>7, <2>1, <2>2 DEF OrderInHand
    <2> QED BY <1>1, <1>2, <1>3, <1>4, <2>1, <2>2, <2>3 DEF AllowanceGoesOn
  <1> QED BY <1>5, <1>6, <1>7

\* The confirmation, which tells of success only when the flag does.
LEMMA AllowanceConfirms ==
  ASSUME TypeOK, CardInv, OrderInHand, A!ConfirmAllowance
  PROVE  AllowanceGoesOn /\ \E r \in Requests : Effect(r)
  <1> DEFINE r == A!Confirmation
  <1>1. /\ A!AllowanceTypeOK /\ next \in 1..(MaxTrans + 1) /\ OfficeTypeOK
    BY DEF TypeOK, OfficeTypeOK
  <1>2. /\ apc = "confirm" /\ apc' \in {"done", "init"}
        /\ UNCHANGED <<acard, order, getFlag, aflag, field, loads, armed, credits, next>>
        /\ A!Answered(r) \/ A!TimesOut(r) \/ A!FailsOrRefuses(r)
    BY DEF A!ConfirmAllowance, A!Call, A!cardVars
  <1>3. A!AllowanceTypeOK' /\ OrderFits
    BY <1>1, <1>2 DEF A!AllowanceTypeOK, OrderInHand, WithOrder
  <1>4. /\ r \in Requests /\ r.txn = order.txn /\ r.card = order.card
        /\ r.isok = 1 => aflag = "WRITE_CARD_OK"
    BY <1>3, AllowanceTypes DEF A!Confirmation, A!Confirm, OrderFits, Requests
  <1> HIDE DEF r
  <1>5. Effect(r) /\ timedOut' \in {0, 1}
    BY <1>1, <1>2, <1>4, AllowanceCall
  <1>6. CardInv' /\ OrderFits'
    BY <1>2, <1>3, <1>4, <1>5, OrderCall
  <1>7. OrderInHand'
    BY <1>2, <1>6 DEF OrderInHand
  <1> QED BY <1>1, <1>2, <1>3, <1>4, <1>5, <1>6, <1>7 DEF AllowanceGoesOn

\* The card is credited: it had the order's count, so it was not credited for
\* it, and from now on it has a later one.
LEMMA AllowanceDebits ==
  ASSUME TypeOK, CardInv, OrderInHand, A!DebitOk \/ A!DebitUnanswered
  PROVE  AllowanceGoesOn /\ UNCHANGED <<booking, flight, verdicts>>
  <1> DEFINE t == order.txn
  <1>1. /\ A!AllowanceTypeOK /\ timedOut \in {0, 1} /\ next \in 1..(MaxTrans + 1) /\ OfficeTypeOK
    BY DEF TypeOK, OfficeTypeOK
  <1>2. /\ apc = "credit" /\ apc' \in {"confirm", "failed"}
        /\ field = order.card /\ loads[field] = order.dpscnt
        /\ loads' = [loads EXCEPT ![field] = @ + 1]
        /\ credits' = [credits EXCEPT ![t] = Append(@, field)]
        /\ aflag' \in {"WRITE_CARD_OK", "WRITE_CARD_FAILED"} /\ armed' = FALSE
        /\ UNCHANGED <<acard, order, getFlag, field, next, booking, flight, verdicts, timedOut>>
    BY DEF A!DebitOk, A!DebitUnanswered, A!Step, A!MacFits, A!Credit, A!officeVars
  <1>3. OrderFits /\ booking[t].status # "none"
    BY <1>2 DEF OrderInHand, WithOrder
  <1>4. /\ t \in Txns /\ t \in A!Txns /\ field \in Cards /\ order.dpscnt \in Nat
        /\ credits \in [Txns -> Seq(Cards)] /\ loads \in [Cards -> Nat]
    BY <1>1, <1>2, <1>3, AllowanceTypes DEF OrderFits, Txns, A!Txns
  <1>5. credits[t] = <<>> /\ booking[t].card = field
    BY <1>2, <1>3, <1>4 DEF OrderFits
  <1>6. /\ credits'[t] = <<field>> /\ credits'[t] # <<>>
        /\ \A u \in Txns \ {t} : credits'[u] = credits[u]
        /\ credits' \in [Txns -> Seq(Cards)]
    BY <1>2, <1>4, <1>5, AppendProperties
  <1>7. loads'[field] = order.dpscnt + 1 /\ loads' \in [Cards -> Nat]
    BY <1>2, <1>4
  <1> HIDE DEF t
  <1>8. A!AllowanceTypeOK'
    BY <1>1, <1>2, <1>6, <1>7 DEF A!AllowanceTypeOK, Txns, A!Txns
  <1>9. CardInv'
    <2>1. \A r \in flight : Proper(r)'
      BY <1>2, <1>6, AllowanceTypes DEF CardInv, Proper, Requests
    <2>2. \A u \in Txns : credits'[u] # <<>> =>
            booking[u].status # "none" /\ credits'[u] = <<booking[u].card>>
      BY <1>3, <1>5, <1>6 DEF CardInv, t
    <2>3. \A u \in Txns : booking[u].status = "kept" \/ <<u, 1>> \in verdicts => credits'[u] # <<>>
      BY <1>6 DEF CardInv
    <2> QED BY <1>2, <2>1, <2>2, <2>3 DEF CardInv
  <1>10. OrderInHand'
    BY <1>2, <1>3, <1>4, <1>6, <1>7 DEF OrderInHand, OrderFits, t
  <1> QED BY <1>1, <1>2, <1>8, <1>9, <1>10 DEF AllowanceGoesOn

\* A step of the allowance flow.
LEMMA AllowanceStepKeeps ==
  ASSUME TopUpInv, AllowanceStep
  PROVE  TopUpInv'
  <1>1. /\ TypeOK /\ mode = "allowance" /\ CardInv /\ OrderInHand
        /\ A!AllowanceNext /\ UNCHANGED <<mode, depositOnly>>
    BY DEF TopUpInv, AllowanceInv, AllowanceStep
  <1>2. /\ AllowanceGoesOn
        /\ UNCHANGED <<booking, flight, verdicts>> \/ \E r \in Requests : Effect(r)
    BY <1>1, AllowanceRests, AllowanceGets, AllowanceConfirms, AllowanceDebits
       DEF A!AllowanceNext
  <1>3. OfficeTypeOK'
    BY <1>1, <1>2, EffectTypes DEF TypeOK, OfficeTypeOK, AllowanceGoesOn
  <1>4. D!DepositTypeOK'
    BY <1>1 DEF TypeOK, D!DepositTypeOK, depositOnly
  <1> QED BY <1>1, <1>2, <1>3, <1>4
          DEF TopUpInv, TypeOK, DepositInv, AllowanceInv, AllowanceGoesOn

-----------------------------------------------------------------------------
(* The card holder, the late requests and the power.                       *)

LEMMA MoveCardKeeps ==
  ASSUME TopUpInv, MoveCard
  PROVE  TopUpInv'
  <1>1. /\ UNCHANGED <<mode, depositOnly, apc, acard, order, getFlag, aflag, loads, credits,
                       officeVars, next>>
        /\ armed' \in BOOLEAN /\ field' \in Cards \cup {NoCard}
    BY DEF MoveCard
  <1>2. TypeOK'
    BY <1>1 DEF TopUpInv, TypeOK, OfficeTypeOK, D!DepositTypeOK, A!AllowanceTypeOK, depositOnly,
                officeVars
  <1>3. DepositInv'
    BY <1>1 DEF TopUpInv, DepositInv, JournalInv, OfRow, Agrees, FlagFits, RowInHand,
                depositOnly, officeVars
  <1>4. AllowanceInv'
    BY <1>1 DEF TopUpInv, AllowanceInv, CardInv, Proper, OrderInHand, OrderFits, officeVars
  <1> QED BY <1>1, <1>2, <1>3, <1>4 DEF TopUpInv

LEMMA RequestArrivesKeeps ==
  ASSUME TopUpInv, RequestArrives
  PROVE  TopUpInv'
  <1>1. /\ TypeOK /\ OfficeTypeOK /\ UNCHANGED <<mode, depositOnly, allowanceOnly, field, next>>
        /\ UNCHANGED timedOut
    BY DEF TopUpInv, TypeOK, RequestArrives, LateArrival
  <1>2. PICK r \in flight : r \in Requests /\ Effect(r)
    BY <1>1, LateCall DEF RequestArrives
  <1>3. TypeOK'
    BY <1>1, <1>2, EffectTypes DEF TypeOK, OfficeTypeOK, D!DepositTypeOK, A!AllowanceTypeOK,
                                   depositOnly, allowanceOnly
  <1>4. \A t \in Txns : booking[t].status # "none" => booking'[t].status # "none"
    BY <1>1, <1>2, EffectTypes
  <1>5. DepositInv'
    <2>1. SUFFICES ASSUME mode = "deposit" PROVE JournalInv' /\ RowInHand'
      BY <1>1 DEF DepositInv
    <2>2. JournalInv /\ RowInHand /\ OfRow(r) /\ UNCHANGED <<dpc, cur, dflag, dcard, rows>>
      BY <1>1, <1>2, <2>1 DEF TopUpInv, DepositInv, JournalInv, depositOnly
    <2>3. JournalInv'
      BY <1>1, <1>2, <2>2, JournalCall
    <2>4. dpc \in Undecided => cur \in Txns
      BY <1>1, <2>2, DepositTypes DEF RowInHand
    <2>5. RowInHand'
      BY <1>1, <1>4, <2>2, <2>4 DEF RowInHand, Undecided
    <2> QED BY <2>3, <2>5
  <1>6. AllowanceInv'
    <2>1. CASE mode = "allowance"
      <3>1. CardInv /\ OrderInHand
        BY <2>1 DEF TopUpInv, AllowanceInv
      <3>2. /\ Proper(r) /\ \A s \in flight : s.txn = r.txn => s.card = r.card
        BY <1>2, <3>1 DEF CardInv
      <3>3. /\ CardInv'
            /\ booking'[r.txn].status # "none" => booking'[r.txn].card = r.card
        BY <1>1, <1>2, <3>1, <3>2, CardCall DEF allowanceOnly
      <3>4. flight' \subseteq flight
        BY <1>2 DEF Effect
      <3>5. apc \in WithOrder => OrderFits'
        <4>1. SUFFICES ASSUME apc \in WithOrder PROVE OrderFits'
          OBVIOUS
        <4>2. OrderFits /\ order.txn \in Txns
          BY <1>1, <3>1, <4>1, AllowanceTypes DEF OrderInHand, OrderFits
        <4>3. booking'[order.txn].status # "none" => booking'[order.txn].card = order.card
          <5>1. CASE r.txn = order.txn
            BY <1>2, <3>3, <4>2, <5>1 DEF OrderFits
          <5>2. CASE r.txn # order.txn
            <6>1. booking'[order.txn] = booking[order.txn]
              BY <1>1, <1>2, <4>2, <5>2, EffectTypes
            <6> QED BY <4>2, <6>1 DEF OrderFits
          <5> QED BY <5>1, <5>2
        <4> QED BY <1>1, <3>4, <4>2, <4>3 DEF OrderFits, allowanceOnly
      <3>6. apc = "credit" => booking'[order.txn].status # "none"
        BY <1>1, <1>4, <3>1, AllowanceTypes DEF OrderInHand, OrderFits, WithOrder
      <3>7. OrderInHand'
        BY <1>1, <3>1, <3>5, <3>6 DEF OrderInHand, allowanceOnly
      <3> QED BY <1>1, <2>1, <3>3, <3>7 DEF AllowanceInv
    <2>2. CASE mode # "allowance"
      BY <1>1, <2>2 DEF TopUpInv, AllowanceInv, allowanceOnly
    <2> QED BY <2>1, <2>2
  <1> QED BY <1>1, <1>3, <1>5, <1>6 DEF TopUpInv

\* The machine forgets what it had in hand, and journal, cards and server do not.
LEMMA PowerKeeps ==
  ASSUME TopUpInv, LosePower \/ Boot
  PROVE  TopUpInv'
  <1>1. /\ UNCHANGED <<mode, rows, loads, credits, field, booking, flight, verdicts, next>>
        /\ timedOut' \in {0, timedOut}
    BY DEF TopUpInv, LosePower, Boot, D!DepositLosesPower, D!DepositBoots, A!AllowanceLosesPower,
           A!AllowanceBoots, allowanceOnly, depositOnly, officeVars, A!cardVars
  <1>2. CASE mode = "deposit"
    <2>1. /\ UNCHANGED allowanceOnly
          /\ dpc' \in {"off", "menu"}
          /\ back' \in {"main", back} /\ cur' \in {D!NoTxn, cur} /\ dflag' \in {"INIT", dflag}
          /\ dcard' \in {NoCard, dcard}
      BY <1>2 DEF LosePower, Boot, D!DepositLosesPower, D!DepositBoots, D!Forget, D!Step
    <2>2. TypeOK'
      BY <1>1, <2>1 DEF TopUpInv, TypeOK, OfficeTypeOK, D!DepositTypeOK, A!AllowanceTypeOK,
                        allowanceOnly, D!TransFlags
    <2>3. RowInHand'
      BY <2>1 DEF RowInHand, Undecided, Decided
    <2>4. JournalInv'
      BY <1>1, <1>2, JournalQuiet DEF TopUpInv, DepositInv
    <2>5. AllowanceInv'
      BY <1>1, <1>2 DEF TopUpInv, AllowanceInv
    <2> QED BY <1>1, <2>2, <2>3, <2>4, <2>5 DEF TopUpInv, DepositInv
  <1>3. CASE mode = "allowance"
    <2>1. /\ UNCHANGED depositOnly
          /\ apc' \in {"off", "login"} /\ armed' \in BOOLEAN
          /\ acard' \in {A!NoRead, acard} /\ order' \in {A!NoOrder, order}
          /\ getFlag' \in {"transaction", getFlag} /\ aflag' \in {"INIT", aflag}
      BY <1>3 DEF LosePower, Boot, A!AllowanceLosesPower, A!AllowanceBoots, A!Step, A!cardVars,
                  TopUpInv, TypeOK, A!AllowanceTypeOK
    <2>2. OfficeTypeOK' /\ D!DepositTypeOK'
      BY <1>1, <2>1 DEF TopUpInv, TypeOK, OfficeTypeOK, D!DepositTypeOK, depositOnly
    <2>3. A!AllowanceTypeOK'
      BY <1>1, <2>1, BackOfficeAssumption
         DEF TopUpInv, TypeOK, A!AllowanceTypeOK, A!NoRead, A!NoOrder
    <2>4. OrderInHand'
      BY <2>1 DEF OrderInHand, WithOrder
    <2>5. CardInv'
      BY <1>1, <1>3, CardQuiet DEF TopUpInv, AllowanceInv
    <2> QED BY <1>1, <1>3, <2>2, <2>3, <2>4, <2>5 DEF TopUpInv, TypeOK, DepositInv, AllowanceInv
  <1> QED BY <1>2, <1>3 DEF TopUpInv

-----------------------------------------------------------------------------
(* The theorems.                                                           *)

LEMMA InitTopUp == Init => TopUpInv
  <1> SUFFICES ASSUME Init PROVE TopUpInv
    OBVIOUS
  <1>1. /\ mode \in {"deposit", "allowance"}
        /\ dpc = IF mode = "deposit" THEN "menu" ELSE "off"
        /\ apc = IF mode = "allowance" THEN "login" ELSE "off"
    BY DEF Init
  <1>2. OfficeTypeOK
    BY BackOfficeAssumption DEF Init, OfficeInit, OfficeTypeOK, Statuses, Requests
  <1>3. D!DepositTypeOK /\ rows = <<>> /\ DOMAIN rows = {}
    BY DEF Init, D!DepositInit, D!DepositTypeOK, D!NoTxn, D!TransFlags
  <1>4. A!AllowanceTypeOK
    <2>1. [t \in A!Txns |-> <<>>] \in [A!Txns -> Seq(Cards)]
      OBVIOUS
    <2>2. /\ acard = [card |-> NoCard, dpscnt |-> 0]
          /\ order = [txn |-> 0, card |-> NoCard, dpscnt |-> 0]
          /\ getFlag = "transaction" /\ aflag = "INIT"
          /\ loads = [c \in Cards |-> 0] /\ credits = [t \in A!Txns |-> <<>>]
      BY DEF Init, A!AllowanceInit, A!NoRead, A!NoOrder
    <2>3. armed \in BOOLEAN
      BY DEF Init, A!AllowanceInit
    <2> QED BY <2>1, <2>2, <2>3, BackOfficeAssumption DEF A!AllowanceTypeOK
  <1>5. /\ flight = {} /\ verdicts = {} /\ \A t \in Txns : booking[t].status = "none"
        /\ \A t \in Txns : credits[t] = <<>>
    BY DEF Init, OfficeInit, A!AllowanceInit, Txns, A!Txns
  <1>6. DepositInv
    BY <1>1, <1>3, <1>5 DEF DepositInv, JournalInv, RowInHand, Undecided, Decided
  <1>7. AllowanceInv
    BY <1>1, <1>5 DEF AllowanceInv, CardInv, OrderInHand, WithOrder
  <1> QED BY <1>1, <1>2, <1>3, <1>4, <1>6, <1>7 DEF TopUpInv, TypeOK

LEMMA StutterKeeps == TopUpInv /\ UNCHANGED vars => TopUpInv'
BY DEF TopUpInv, vars, depositOnly, allowanceOnly, officeVars, TypeOK, OfficeTypeOK,
       D!DepositTypeOK, A!AllowanceTypeOK, DepositInv, JournalInv, OfRow, Agrees, FlagFits,
       RowInHand, AllowanceInv, CardInv, Proper, OrderInHand, OrderFits

\* The invariant is inductive: rows, requests and confirmations agree, and so do
\* cards, requests and orders (deposit.c, allowance.c).
THEOREM TopUpInvariant == Spec => []TopUpInv
  <1>1. TopUpInv /\ [Next]_vars => TopUpInv'
    BY DepositStepKeeps, AllowanceStepKeeps, MoveCardKeeps, RequestArrivesKeeps, PowerKeeps,
       StutterKeeps DEF Next
  <1> QED BY InitTopUp, <1>1, PTL DEF Spec

\* Every variable keeps its type (deposit.c, allowance.c).
THEOREM TopUpTypes == Spec => []TypeOK
  <1>1. TopUpInv => TypeOK
    BY DEF TopUpInv
  <1> QED BY TopUpInvariant, <1>1, PTL

\* Whatever the server books, early or late, is in the journal (deposit.c:655-662).
THEOREM BookedInJournal == Spec => []BookedHasRow
  <1>1. TopUpInv => BookedHasRow
    BY DEF TopUpInv, DepositInv, JournalInv, BookedHasRow, D!BookedHasRow, Txns, D!Txns
  <1> QED BY TopUpInvariant, <1>1, PTL

\* The server is never told of a transaction what the journal does not say
\* (deposit.c:714-756, 835-884).
THEOREM VerdictsInJournal == Spec => []VerdictsMatchRows
  <1>1. TopUpInv => VerdictsMatchRows
    <2>1. SUFFICES ASSUME TopUpInv, mode = "deposit" PROVE D!VerdictsMatchRows
      BY DEF VerdictsMatchRows
    <2>2. \A v \in verdicts : Agrees(v[1], v[2])
      BY <2>1 DEF TopUpInv, DepositInv, JournalInv
    <2>3. \A t, i : <<t, i>> \in verdicts => Agrees(t, i)
      BY <2>2
    <2> QED BY <2>3 DEF D!VerdictsMatchRows, Agrees, Result
  <1> QED BY TopUpInvariant, <1>1, PTL

\* What the day's report counts as success and what a receipt is printed for
\* was booked, and the last success was not taken back (syspara.c:611-745,
\* menu.c:877-1068).
THEOREM ReportsBooked == Spec => []ReportsWereBooked
  <1>1. TopUpInv => ReportsWereBooked
    <2>1. SUFFICES ASSUME TopUpInv, mode = "deposit" PROVE D!ReportsWereBooked
      BY DEF ReportsWereBooked
    <2>2. \A t \in DOMAIN rows : FlagFits(t) /\ rows[t].flag \in D!TransFlags
      BY <2>1, DepositTypes DEF TopUpInv, DepositInv, JournalInv
    <2>3. \A t \in D!Successful \cup D!Printable : booking[t].status # "none"
      BY <2>2 DEF D!Successful, D!Printable, FlagFits, D!TransFlags
    <2>4. \A t \in D!Txns : D!LastSucc(t) => booking[t].status \in {"booked", "kept"}
      BY <2>2 DEF D!LastSucc, FlagFits
    <2> QED BY <2>3, <2>4 DEF D!ReportsWereBooked
  <1> QED BY TopUpInvariant, <1>1, PTL

\* A row without a result, a wrong SYS_FAILED among them, is open on both sides:
\* not confirmed, and its booking neither kept nor reversed (deposit.c:657-694,
\* 840-878).
THEOREM UnjudgedIsOpen == Spec => []UnjudgedStaysOpen
  <1>1. TopUpInv => UnjudgedStaysOpen
    BY DEF TopUpInv, DepositInv, JournalInv, FlagFits, UnjudgedStaysOpen, D!UnjudgedStaysOpen
  <1> QED BY TopUpInvariant, <1>1, PTL

\* A card is credited at most once for a transaction, and only the card it was
\* booked for (allowance.c:166-269).
THEOREM CreditedOnce == Spec => []CreditOnce
  <1>1. TopUpInv => CreditOnce
    BY DEF TopUpInv, AllowanceInv, CardInv, CreditOnce, A!CreditOnce, Txns, A!Txns
  <1> QED BY TopUpInvariant, <1>1, PTL

\* The server is told of success only when the card was credited
\* (allowance.c:205-239).
THEOREM KeptIsCredited == Spec => []KeptMeansCredited
  <1>1. TopUpInv => KeptMeansCredited
    BY DEF TopUpInv, AllowanceInv, CardInv, KeptMeansCredited, A!KeptMeansCredited, Txns, A!Txns
  <1> QED BY TopUpInvariant, <1>1, PTL
=============================================================================
