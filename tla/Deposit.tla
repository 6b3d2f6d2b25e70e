------------------------------ MODULE Deposit ------------------------------
(***************************************************************************)
(* The deposit flow (deposit.c): a row in the journal, the booking by the  *)
(* server, the card, the result in the row, the confirmation to the        *)
(* server; and deposit_check_transdtl, which finishes what an earlier run  *)
(* or a time-out left behind.                                              *)
(***************************************************************************)
EXTENDS BackOffice

CONSTANT DbErrors \* which statements may fail: a subset of {"read", "write"}

VARIABLES
  dpc,     \* where the flow is
  back,    \* who called deposit_check_transdtl: "main" or "loop"
  cur,     \* transdtl: its key
  flag,    \* transdtl.transflag
  p16card, \* the card of the deposit
  rows     \* TRANSDTL: key to flag, confirmation and card

flowVars == <<dpc, back, cur, flag, p16card>>
depositVars == <<flowVars, rows, officeVars, next>>

-----------------------------------------------------------------------------
TransFlags == {"INIT", "WRITE_CARD_OK", "WRITE_CARD_FAILED", "SYS_FAILED"}
NoTxn == 0

Fails(kind) == kind \in DbErrors

Step(from, to) == dpc = from /\ dpc' = to

Unconfirmed == {t \in DOMAIN rows : rows[t].confirm = 0}
Oldest(t) == t \in Unconfirmed /\ \A u \in Unconfirmed : t <= u

\* trans_update_record: the whole row, from the copy in memory.
UpdateRow(confirm) ==
  rows' = [rows EXCEPT ![cur] = [flag |-> flag, confirm |-> confirm, card |-> @.card]]

Isok == IF flag = "WRITE_CARD_OK" THEN 1 ELSE 0
Confirmation == Confirm(cur, rows[cur].card, Isok)

\* transdtl is a local variable, and p16card is filled by the next card.
Forget == cur' = NoTxn /\ flag' = "INIT" /\ p16card' = NoCard

\* The calls of this flow.
Call == UNCHANGED <<rows, next, field>>
\* Steps without a call.
Local == UNCHANGED <<officeVars, field>>

-----------------------------------------------------------------------------
(* deposit_main, deposit_check_transdtl.                                   *)

\* check_oper_login succeeded.
DepositMain ==
  /\ Step("menu", "check")
  /\ back' = "main"
  /\ UNCHANGED <<cur, flag, p16card, rows, next>> /\ Local

\* Return 0.  From deposit_main and from the loop the flag is cleared.
CheckDone ==
  /\ Step("check", "top")
  /\ Unconfirmed = {} \/ Fails("read") \/ (\E t \in Unconfirmed : Oldest(t) /\ rows[t].flag = "SYS_FAILED")
  /\ timedOut' = 0
  /\ back' = "main" /\ Forget
  /\ UNCHANGED <<rows, next, booking, flight, verdicts, field>>

\* Return -1: deposit_main ends the program, the loop goes back to the menu.
CheckBreaks ==
  /\ \/ dpc = "check" /\ Fails("read")
     \/ dpc \in {"judged", "settled"} /\ Fails("write")
  /\ dpc' = IF back = "main" THEN "off" ELSE "menu"
  /\ back' = "main" /\ Forget
  /\ UNCHANGED <<rows, next>> /\ Local

\* trans_get_last_record.
CheckRow ==
  /\ dpc = "check"
  /\ \E t \in DOMAIN rows :
       /\ Oldest(t) /\ rows[t].flag # "SYS_FAILED"
       /\ cur' = t /\ flag' = rows[t].flag
       /\ dpc' = IF rows[t].flag = "INIT" THEN "ask" ELSE "settle"
  /\ UNCHANGED <<back, p16card, rows, next>> /\ Local

\* svc_deposit_query: booked, hence reversed, since nobody knows of the card.
AskBooked ==
  /\ Step("ask", "judged")
  /\ QueryAnswered(cur)
  /\ flag' = "WRITE_CARD_FAILED"
  /\ UNCHANGED <<back, cur, p16card>> /\ Call

AskFails ==
  /\ Step("ask", "judged")
  /\ QueryFails
  /\ flag' = "SYS_FAILED"
  /\ UNCHANGED <<back, cur, p16card>> /\ Call

AskTimesOut ==
  /\ dpc = "ask"
  /\ QueryTimesOut
  /\ UNCHANGED flowVars /\ Call

\* Mutant: what was judged is told the server although it was not written down.
JudgedUnwritten ==
  /\ dpc = "judged"
  /\ dpc' = IF flag = "SYS_FAILED" THEN "checked" ELSE "settle"
  /\ UpdateRow(0) \/ (Fails("write") /\ UNCHANGED rows)
  /\ UNCHANGED <<back, cur, flag, p16card, next>> /\ Local

WriteJudged ==
  /\ dpc = "judged"
  /\ dpc' = IF flag = "SYS_FAILED" THEN "checked" ELSE "settle"
  /\ UpdateRow(0)
  /\ UNCHANGED <<back, cur, flag, p16card, next>> /\ Local

\* A row that the server did not book: return 0, as CheckDone.
CheckedSysFailed ==
  /\ Step("checked", "top")
  /\ timedOut' = 0
  /\ back' = "main" /\ Forget
  /\ UNCHANGED <<rows, next, booking, flight, verdicts, field>>

\* svc_deposit_confirm, until it succeeds.
SettleAnswered ==
  /\ Step("settle", "settled")
  /\ Answered(Confirmation)
  /\ UNCHANGED <<back, cur, flag, p16card>> /\ Call

SettleFails ==
  /\ dpc = "settle"
  /\ TimesOut(Confirmation) \/ FailsOrRefuses(Confirmation)
  /\ UNCHANGED flowVars /\ Call

\* Mutant: CONFIRM stays as it was.
WriteSettledUnmarked ==
  /\ Step("settled", "check")
  /\ UpdateRow(0)
  /\ Forget
  /\ UNCHANGED <<back, next>> /\ Local

\* Return 1: look for another row.
WriteSettled ==
  /\ Step("settled", "check")
  /\ UpdateRow(1)
  /\ Forget
  /\ UNCHANGED <<back, next>> /\ Local

-----------------------------------------------------------------------------
(* do_main_loop, do_card.                                                  *)

CheckAgain ==
  /\ Step("top", "check")
  /\ timedOut = 1
  /\ back' = "loop"
  /\ UNCHANGED <<cur, flag, p16card, rows, next>> /\ Local

LeaveLoop ==
  /\ Step("top", "menu")
  /\ timedOut = 0
  /\ UNCHANGED <<back, cur, flag, p16card, rows, next>> /\ Local

\* do_waiting_card: a card that can be read, is not locked and not expired.
WaitingCard ==
  /\ Step("top", "amount")
  /\ timedOut = 0
  /\ field # NoCard
  /\ p16card' = field
  /\ UNCHANGED <<back, cur, flag, rows, next>> /\ Local

\* do_input_money: ENT, with the card still there at the last look, and an
\* amount that is allowed and, from 500 on, confirmed.
InputMoney ==
  /\ Step("amount", "again")
  /\ field = p16card
  /\ UNCHANGED <<back, cur, flag, p16card, rows, next>> /\ Local

\* The card is taken away or exchanged, the operator gives up, or the amount
\* is refused.
NoAmount ==
  /\ Step("amount", "top")
  /\ Forget
  /\ UNCHANGED <<back, rows, next>> /\ Local

\* do_card: the same card with the same balance, a fee rate for its type, the
\* time of the transaction, and the initialisation for the load.
ReadAgain ==
  /\ Step("again", "add")
  /\ field = p16card /\ next <= MaxTrans
  /\ cur' = next /\ next' = next + 1
  /\ flag' = "INIT"
  /\ UNCHANGED <<back, p16card, rows>> /\ Local

\* F1, another card, another balance, no rate, or no initialisation.
NotAgain ==
  /\ Step("again", "top")
  /\ Forget
  /\ UNCHANGED <<back, rows, next>> /\ Local

\* Mutant: the row is added after the call.
AddRecordLater ==
  /\ Step("add", "call")
  /\ UNCHANGED <<back, cur, flag, p16card, rows, next>> /\ Local

TransAddRecord ==
  /\ Step("add", "call")
  /\ rows' = [t \in DOMAIN rows \cup {cur} |->
                IF t = cur THEN [flag |-> flag, confirm |-> 0, card |-> p16card] ELSE rows[t]]
  /\ UNCHANGED <<back, cur, flag, p16card, next>> /\ Local

TransAddFails ==
  /\ Fails("write")
  /\ Step("add", "top")
  /\ Forget
  /\ UNCHANGED <<back, rows, next>> /\ Local

\* svc_deposit.
DepositAnswered ==
  /\ Step("call", "write")
  /\ Answered(Book("deposit", cur, p16card))
  /\ UNCHANGED <<back, cur, flag, p16card>> /\ Call

DepositFails ==
  /\ Step("call", "failed")
  /\ FailsOrRefuses(Book("deposit", cur, p16card))
  /\ flag' = "SYS_FAILED"
  /\ UNCHANGED <<back, cur, p16card>> /\ Call

\* Mutant: a time-out passes for a booking.
TimeoutGoesOn ==
  /\ Step("call", "write")
  /\ TimesOut(Book("deposit", cur, p16card))
  /\ UNCHANGED <<back, cur, flag, p16card>> /\ Call

DepositTimesOut ==
  /\ Step("call", "wait")
  /\ TimesOut(Book("deposit", cur, p16card))
  /\ UNCHANGED <<back, cur, flag, p16card>> /\ Call

\* on_deposit_timeout, called again and again for 30 seconds or until ESC.
WaitAnswered ==
  /\ Step("wait", "write")
  /\ QueryAnswered(cur)
  /\ UNCHANGED <<back, cur, flag, p16card>> /\ Call

WaitGoesOn ==
  /\ dpc = "wait"
  /\ QueryFails \/ QueryTimesOut
  /\ UNCHANGED flowVars /\ Call

WaitEnds ==
  /\ Step("wait", "top")
  /\ Forget
  /\ UNCHANGED <<back, rows, next>> /\ Local

\* write_card_timeout.  debit_4_purchase is refused by a card initialised for
\* a load, so do_write_card asks for the card again, and any CPU card then
\* passes for written.
WriteCardOk ==
  /\ Step("write", "result")
  /\ field = p16card
  /\ flag' = "WRITE_CARD_OK"
  /\ UNCHANGED <<back, cur, p16card, rows, next>> /\ Local

\* F1.
WriteCardCancelled ==
  /\ Step("write", "result")
  /\ flag' = "WRITE_CARD_FAILED"
  /\ UNCHANGED <<back, cur, p16card, rows, next>> /\ Local

\* trans_update_record after the write, or after SVC_FAILED.
UpdateResult ==
  /\ \/ Step("result", "confirm") /\ UNCHANGED <<cur, flag, p16card>>
     \/ Step("failed", "top") /\ Forget
  /\ UpdateRow(0)
  /\ UNCHANGED <<back, next>> /\ Local

\* Mutant: the result is confirmed although it was not written down.
UpdateFailureIgnored ==
  /\ Fails("write")
  /\ \/ Step("result", "confirm")
     \/ dpc \in {"failed", "confirmed"} /\ dpc' = "top"
  /\ UNCHANGED <<back, cur, flag, p16card, rows, next>> /\ Local

UpdateFails ==
  /\ Fails("write")
  /\ dpc \in {"result", "failed", "confirmed"} /\ dpc' = "top"
  /\ Forget
  /\ UNCHANGED <<back, rows, next>> /\ Local

\* svc_deposit_confirm.  A failure counts as confirmed, a time-out does not.
ConfirmEnds ==
  /\ Step("confirm", "confirmed")
  /\ Answered(Confirmation) \/ FailsOrRefuses(Confirmation)
  /\ UNCHANGED <<back, cur, flag, p16card>> /\ Call

ConfirmTimesOut ==
  /\ dpc = "confirm"
  /\ TimesOut(Confirmation)
  /\ UNCHANGED flowVars /\ Call

UpdateConfirmed ==
  /\ Step("confirmed", "top")
  /\ UpdateRow(1)
  /\ Forget
  /\ UNCHANGED <<back, next>> /\ Local

-----------------------------------------------------------------------------
DepositLosesPower ==
  /\ dpc # "off"
  /\ dpc' = "off"
  /\ back' = "main" /\ Forget
  /\ UNCHANGED <<rows, next>>

DepositBoots ==
  /\ Step("off", "menu")
  /\ UNCHANGED <<back, cur, flag, p16card, rows, next>>

DepositInit ==
  /\ back = "main" /\ cur = NoTxn /\ flag = "INIT" /\ p16card = NoCard
  /\ rows = <<>>

Recovery ==
  \/ CheckDone \/ CheckBreaks \/ CheckRow
  \/ AskBooked \/ AskFails \/ AskTimesOut
  \/ WriteJudged \/ CheckedSysFailed
  \/ SettleAnswered \/ SettleFails \/ WriteSettled

DoCard ==
  \/ WaitingCard \/ InputMoney \/ NoAmount \/ ReadAgain \/ NotAgain
  \/ TransAddRecord \/ TransAddFails
  \/ DepositAnswered \/ DepositFails \/ DepositTimesOut
  \/ WaitAnswered \/ WaitGoesOn \/ WaitEnds
  \/ WriteCardOk \/ WriteCardCancelled
  \/ UpdateResult \/ UpdateFails
  \/ ConfirmEnds \/ ConfirmTimesOut \/ UpdateConfirmed

DepositNext == DepositMain \/ Recovery \/ CheckAgain \/ LeaveLoop \/ DoCard

DepositTypeOK ==
  /\ back \in {"main", "loop"}
  /\ cur \in {NoTxn} \cup Txns
  /\ flag \in TransFlags
  /\ p16card \in Cards \cup {NoCard}
  /\ DOMAIN rows \subseteq Txns
  /\ \A t \in DOMAIN rows :
       rows[t] \in [flag : TransFlags, confirm : {0, 1}, card : Cards]

-----------------------------------------------------------------------------
(* What the operator is shown and given of the journal.                    *)

\* oper_get_trans: the rows it counts as successful; every other row counts
\* as failed.
Successful == {t \in DOMAIN rows : rows[t].flag \in {"WRITE_CARD_OK", "WRITE_CARD_FAILED"}}

\* trans_get_last_succ: what "print the last one" prints.
LastSucc(t) ==
  LET Written == {u \in DOMAIN rows : rows[u].flag = "WRITE_CARD_OK"}
  IN  t \in Written /\ \A u \in Written : u <= t

\* trans_get_oper_devseqno, oper_printer_by_devseqno: a receipt by number.
Printable == {t \in DOMAIN rows : rows[t].flag \notin {"SYS_FAILED", "INIT"}}

-----------------------------------------------------------------------------
\* Whatever the server books, early or late, is in the journal, so that the
\* recovery can find it (deposit.c:655-662).
BookedHasRow ==
  \A t \in Txns : booking[t].status # "none" => t \in DOMAIN rows

\* The server is never told of a transaction what the journal does not say:
\* not by a confirmation that was sent again after a time-out, not by one that
\* arrives late, and not by the recovery of a row whose result was already
\* sent (deposit.c:714-756, 835-884).
VerdictsMatchRows ==
  \A t \in Txns :
    /\ <<t, 1>> \in verdicts => t \in DOMAIN rows /\ rows[t].flag = "WRITE_CARD_OK"
    /\ <<t, 0>> \in verdicts => t \in DOMAIN rows /\ rows[t].flag = "WRITE_CARD_FAILED"

\* The operator's figures never run ahead of the server: what the day's report
\* counts as success, and what a receipt is printed for, was booked, and the
\* last success is not one that was taken back, whatever was late, lost, cut off
\* or recovered in between (syspara.c:611-745, menu.c:877-1068).
ReportsWereBooked ==
  /\ \A t \in Successful \cup Printable : booking[t].status # "none"
  /\ \A t \in Txns : LastSucc(t) => booking[t].status \in {"booked", "kept"}

\* What has no result is open on both sides: a row that says INIT, or SYS_FAILED
\* (perhaps wrongly, after a query that failed, or put in the way of the rows
\* behind it), is not confirmed, and the server has neither kept nor reversed
\* its booking, so that the administrator the operator is sent to can still
\* settle it, whatever arrived late, was cut off or was recovered in between
\* (deposit.c:657-694, 840-878).
UnjudgedStaysOpen ==
  \A t \in DOMAIN rows : rows[t].flag \in {"INIT", "SYS_FAILED"} =>
    rows[t].confirm = 0 /\ booking[t].status \in {"none", "booked"}

\* The recovery comes to an end, however many rows there are, if the server
\* answers again and again (deposit.c:812-887, 1339-1352).
CheckEnds == dpc = "check" ~> dpc \in {"top", "menu", "off"}
=============================================================================
