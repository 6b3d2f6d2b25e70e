----------------------------- MODULE Allowance -----------------------------
(***************************************************************************)
(* The allowance flow (allowance.c): a card is presented, the server says  *)
(* what it may collect, and do_write_card initialises the card, obtains a  *)
(* MAC and credits the card until it is through.  No journal is kept.      *)
(***************************************************************************)
EXTENDS BackOffice, Sequences

VARIABLES
  apc,     \* where the flow is
  p16card, \* the card read, and the count of loads read last
  order,   \* transdtl: key, card and count of loads (dpscnt) of the request
  getFlag, \* "transaction" or "query"
  flag,    \* transdtl.transflag
  loads,   \* each card's count of loads
  armed,   \* is the card on the reader initialised for a load?
  credits  \* history: which transactions credited which card, in order

flowVars == <<apc, p16card, order, getFlag, flag>>
cardVars == <<field, loads, armed>>
allowanceVars == <<flowVars, cardVars, credits, officeVars, next>>

-----------------------------------------------------------------------------
NoOrder == [txn |-> 0, card |-> NoCard, dpscnt |-> 0]
NoRead == [card |-> NoCard, dpscnt |-> 0]

Step(from, to) == apc = from /\ apc' = to

\* transdtl is a local variable, and the next card read takes p16card over
\* but for the count of loads.
Forget ==
  /\ order' = NoOrder /\ getFlag' = "transaction" /\ flag' = "INIT"
  /\ p16card' = [p16card EXCEPT !.card = NoCard]

Request == Book("allowance", order.txn, order.card)
Confirmation == Confirm(order.txn, order.card, IF flag = "WRITE_CARD_OK" THEN 1 ELSE 0)

Call == UNCHANGED <<cardVars, credits, next>>
Local == UNCHANGED <<officeVars, credits>>

\* request_card and request_card_and_poweron: a card that is powered on forgets
\* that it was initialised.
PowerOn == armed' = FALSE

\* do_request_card of allowance_menu: waits for a card.
RequestCard == field # NoCard /\ PowerOn

\* cpu_read_card: it does not read the count of loads, so that the one of the
\* card initialised last stays.
CpuReadCard == p16card' = [p16card EXCEPT !.card = field]

-----------------------------------------------------------------------------
(* allowance_menu, do_allowance.                                           *)

\* svc_app_login and svc_allowance_machine_login.
MachineLogin ==
  /\ Step("login", "menu")
  /\ timedOut' = 0
  /\ UNCHANGED <<p16card, order, getFlag, flag, booking, flight, verdicts>> /\ Call

\* Back in init_menu, from where the operator may try again.
LoginFails ==
  /\ apc = "login"
  /\ QueryFails \/ QueryTimesOut
  /\ UNCHANGED flowVars /\ Call

\* F1 and is_cancel: the length of what was typed starts from a variable that
\* is never set, so that any keys may or may not pass for the password.
IsCancel ==
  /\ Step("menu", "login")
  /\ UNCHANGED <<p16card, order, getFlag, flag, cardVars, next>> /\ Local

\* do_allowance: the locked and expired cards are turned away.
ReadUserCard ==
  /\ Step("menu", "ask")
  /\ RequestCard
  /\ CpuReadCard
  /\ UNCHANGED <<order, getFlag, flag, field, loads, next>> /\ Local

\* svc_query_allowance: there is an allowance.
AllowanceThere ==
  /\ Step("ask", "offer")
  /\ timedOut' = 0
  /\ UNCHANGED <<p16card, order, getFlag, flag, booking, flight, verdicts>> /\ Call

\* There is none, or the query failed.
NoAllowance ==
  /\ Step("ask", "menu")
  /\ QueryFails \/ QueryTimesOut
  /\ Forget /\ Call

\* ENT with the same card on the reader; do_write_allowance fills transdtl.
Accept ==
  /\ Step("offer", "init")
  /\ field = p16card.card /\ next <= MaxTrans
  /\ order' = [txn |-> next, card |-> p16card.card, dpscnt |-> p16card.dpscnt]
  /\ next' = next + 1
  /\ getFlag' = "transaction" /\ flag' = "INIT"
  /\ PowerOn
  /\ UNCHANGED <<p16card, field, loads>> /\ Local

\* The card is gone, or it is another one.
NotAccepted ==
  /\ Step("offer", "menu")
  /\ field # p16card.card
  /\ Forget
  /\ PowerOn
  /\ UNCHANGED <<field, loads, next>> /\ Local

-----------------------------------------------------------------------------
(* do_write_card.                                                          *)

\* Mutant: the request takes over what the card says.
InitTakesCount ==
  /\ Step("init", "get")
  /\ field # NoCard
  /\ armed' = TRUE
  /\ p16card' = [p16card EXCEPT !.dpscnt = loads[field]]
  /\ order' = [order EXCEPT !.dpscnt = loads[field]]
  /\ UNCHANGED <<getFlag, flag, field, loads, next>> /\ Local

\* Whatever card is on the reader is initialised and its count of loads read;
\* the request keeps the count it was filled with.
Init4Load ==
  /\ Step("init", "get")
  /\ field # NoCard
  /\ armed' = TRUE
  /\ p16card' = [p16card EXCEPT !.dpscnt = loads[field]]
  /\ UNCHANGED <<order, getFlag, flag, field, loads, next>> /\ Local

\* The initialisation failed, and the operator has put the card back and
\* pressed ENT: again.  (That is a stutter.)  Another card was put there: the
\* code goes on and asks the server all the same.
Init4LoadFails ==
  /\ Step("init", "get")
  /\ field \notin {order.card, NoCard}
  /\ armed' = FALSE
  /\ UNCHANGED <<p16card, order, getFlag, flag, field, loads, next>> /\ Local

\* svc_get_allowance: the first time the booking, then queries.
GetAnswered ==
  /\ Step("get", "credit")
  /\ getFlag' = "query"
  /\ \/ getFlag = "transaction" /\ Answered(Request)
     \/ getFlag = "query" /\ QueryAnswered(order.txn)
  /\ UNCHANGED <<p16card, order, flag>> /\ Call

GetTimesOut ==
  /\ Step("get", "init")
  /\ getFlag' = "query"
  /\ \/ getFlag = "transaction" /\ TimesOut(Request)
     \/ getFlag = "query" /\ QueryTimesOut
  /\ UNCHANGED <<p16card, order, flag>> /\ Call

\* break; the last flag stands.
GetFails ==
  /\ Step("get", "done")
  /\ getFlag' = "query"
  /\ \/ getFlag = "transaction" /\ FailsOrRefuses(Request)
     \/ getFlag = "query" /\ QueryFails
  /\ UNCHANGED <<p16card, order, flag>> /\ Call

\* The MAC fits the card, its count of loads and this initialisation.
MacFits == armed /\ field = order.card /\ loads[field] = order.dpscnt

Credit ==
  /\ loads' = [loads EXCEPT ![field] = @ + 1]
  /\ credits' = [credits EXCEPT ![order.txn] = Append(@, field)]

\* debit_4_load: credited, and answered.
DebitOk ==
  /\ Step("credit", "confirm")
  /\ MacFits /\ Credit
  /\ flag' = "WRITE_CARD_OK"
  /\ armed' = FALSE
  /\ UNCHANGED <<p16card, order, getFlag, field, next, officeVars>>

\* Mutant: no answer passes for success.
UnansweredIsOk ==
  /\ Step("credit", "confirm")
  /\ flag' = "WRITE_CARD_OK"
  /\ armed' = FALSE
  /\ UNCHANGED <<p16card, order, getFlag, loads, credits, field, next, officeVars>>

\* The card refuses or is gone.
DebitRefused ==
  /\ Step("credit", "failed")
  /\ flag' = "WRITE_CARD_FAILED"
  /\ armed' = FALSE
  /\ UNCHANGED <<p16card, order, getFlag, loads, credits, field, next, officeVars>>

\* Credited, but the answer does not come through: the same to the code.
DebitUnanswered ==
  /\ Step("credit", "failed")
  /\ MacFits /\ Credit
  /\ flag' = "WRITE_CARD_FAILED"
  /\ armed' = FALSE
  /\ UNCHANGED <<p16card, order, getFlag, field, next, officeVars>>

\* The same card and ENT: write again.
TryAgain ==
  /\ Step("failed", "init")
  /\ field = order.card
  /\ PowerOn
  /\ UNCHANGED <<p16card, order, getFlag, flag, field, loads, next>> /\ Local

\* Another card: the write is given up, and the server told.
GiveUp ==
  /\ Step("failed", "confirm")
  /\ field \notin {order.card, NoCard}
  /\ PowerOn
  /\ UNCHANGED <<p16card, order, getFlag, flag, field, loads, next>> /\ Local

\* svc_deposit_confirm, once, whatever comes of it; then out, or around again.
ConfirmAllowance ==
  /\ apc = "confirm"
  /\ apc' = IF flag = "WRITE_CARD_OK" THEN "done" ELSE "init"
  /\ Answered(Confirmation) \/ TimesOut(Confirmation) \/ FailsOrRefuses(Confirmation)
  /\ UNCHANGED <<p16card, order, getFlag, flag>> /\ Call

\* do_write_allowance returns: at once, or when the card is taken away.
AllowanceDone ==
  /\ Step("done", "menu")
  /\ flag = "WRITE_CARD_OK" \/ field # order.card
  /\ Forget
  /\ PowerOn
  /\ UNCHANGED <<field, loads, next>> /\ Local

-----------------------------------------------------------------------------
AllowanceLosesPower ==
  /\ apc # "off"
  /\ apc' = "off"
  /\ p16card' = NoRead /\ order' = NoOrder
  /\ getFlag' = "transaction" /\ flag' = "INIT"
  /\ armed' = FALSE
  /\ UNCHANGED <<field, loads, credits, next>>

AllowanceBoots ==
  /\ Step("off", "login")
  /\ UNCHANGED <<p16card, order, getFlag, flag, cardVars, credits, next>>

AllowanceInit ==
  /\ p16card = NoRead /\ order = NoOrder
  /\ getFlag = "transaction" /\ flag = "INIT"
  /\ loads = [c \in Cards |-> 0]
  /\ armed = FALSE
  /\ credits = [t \in Txns |-> <<>>]

AllowanceNext ==
  \/ MachineLogin \/ LoginFails \/ IsCancel
  \/ ReadUserCard \/ AllowanceThere \/ NoAllowance \/ Accept \/ NotAccepted
  \/ Init4Load \/ Init4LoadFails
  \/ GetAnswered \/ GetTimesOut \/ GetFails
  \/ DebitOk \/ DebitRefused \/ DebitUnanswered
  \/ TryAgain \/ GiveUp \/ ConfirmAllowance \/ AllowanceDone

AllowanceTypeOK ==
  /\ p16card \in [card : Cards \cup {NoCard}, dpscnt : Nat]
  /\ order \in [txn : 0..MaxTrans, card : Cards \cup {NoCard}, dpscnt : Nat]
  /\ getFlag \in {"transaction", "query"}
  /\ flag \in {"INIT", "WRITE_CARD_OK", "WRITE_CARD_FAILED"}
  /\ loads \in [Cards -> Nat]
  /\ armed \in BOOLEAN
  /\ credits \in [Txns -> Seq(Cards)]

-----------------------------------------------------------------------------
\* A card is credited at most once for a transaction, only the card it was
\* booked for, however often the write is tried again after an answer that was
\* lost: the count of loads in the request stays what it was, although the
\* initialisation reads a new one, and a card that has been credited no longer
\* has it (allowance.c:166-269).
CreditOnce ==
  \A t \in Txns :
    credits[t] # <<>> => credits[t] = <<booking[t].card>>

\* The server is told of success only when the card was credited
\* (allowance.c:205-239).
KeptMeansCredited ==
  \A t \in Txns :
    booking[t].status = "kept" \/ <<t, 1>> \in verdicts => credits[t] # <<>>
=============================================================================
