------------------------------ MODULE Purchase ------------------------------
(***************************************************************************)
(* The main thread in purchase mode: do_main_purchase_loop and             *)
(* do_card_purchase (deposit.c), the CPU card operations they call         *)
(* (cardop.c), and the card holder who puts cards on the reader.           *)
(*                                                                         *)
(* A step is what the thread does between two points where the holder, the *)
(* upload thread or a loss of power can come in: one card command or one   *)
(* SQL statement.  Cards are CPU cards; reading an M1 card always fails    *)
(* (read_user_purchase_card), so none gets past "wait".                    *)
(***************************************************************************)
EXTENDS PosStore

CONSTANTS
  Barred,     \* the cards whose status is locked or whose validity is over
  Roaming,    \* bound: the cards that are also used at other machines
  MaxBalance, \* bound: the largest balance a card ever holds
  MaxStamp    \* bound: the number of purchases that get as far as the clock

ASSUME CardSetsAssumption == Barred \subseteq Cards /\ Roaming \subseteq Cards
ASSUME BoundsAssumption == MaxBalance \in Nat /\ MaxStamp \in Nat

VARIABLES
  mpc,            \* where the main thread is
  p16card,        \* the global card context
  money,          \* the amount of do_main_purchase_loop, later p16card.payamt
  write_card_ret, \* the result of write_card_timeout, as the flag it becomes
  clock,          \* the last second at which a purchase read the clock
  field,          \* the card on the reader
  session,        \* what that card expects next
  balance,        \* the purse on each card
  debits,         \* history: every amount a card has given up
  vetted          \* history: the last card looked up in T_BLACKCARD, the answer

cardVars == <<field, session, balance>>
ctxVars == <<p16card, money, write_card_ret, clock>>
histVars == <<debits, vetted>>
mainVars == <<mpc, ctxVars, cardVars, histVars>>

-----------------------------------------------------------------------------
MainPcs == {"menu", "wait", "check", "input", "request", "init", "mac", "add",
            "debit", "prove", "update", "off"}

\* "off": not activated, no command works; "ready": activated and selected;
\* "armed": purchase initialised for the amount in payamt, ready to debit.
Sessions == {"off", "ready", "armed"}

Ctx == [cardno : Cards \cup {NoCard}, cardbefbal : Nat, term : Stamps, tac : Stamps]
NoCtx == [cardno |-> NoCard, cardbefbal |-> 0, term |-> NoStamp, tac |-> NoStamp]

Debit == [key : Stamps, card : Cards, amount : Amounts, befbal : Nat]

NotVetted == [card |-> NoCard, flag |-> "none"]

Goto(from, to) == mpc = from /\ mpc' = to

\* Back to the top of do_main_purchase_loop: money, transdtl and the result of
\* the write are gone; of p16card only the TAC is ever read again before it is
\* overwritten, so the model keeps that and forgets the rest.  The next request
\* for a card resets the reader, and with it what the card was told.
ForgetPurchase ==
  /\ session' = "off"
  /\ p16card' = [NoCtx EXCEPT !.tac = p16card.tac]
  /\ money' = 0
  /\ write_card_ret' = "INIT"
  /\ vetted' = NotVetted

\* The transdtl of do_card_purchase, with the result it has at this point.
Transdtl(flag, tac) ==
  [cardno |-> p16card.cardno, cardbefbal |-> p16card.cardbefbal,
   amount |-> money, transflag |-> flag, confirm |-> 0, tac |-> tac]

-----------------------------------------------------------------------------
(* The card holder.                                                        *)

PlaceCard(c) ==
  /\ field = NoCard
  /\ field' = c
  /\ session' = "off"
  /\ UNCHANGED <<balance, mpc, ctxVars, histVars, storeVars>>

RemoveCard ==
  /\ field # NoCard
  /\ field' = NoCard
  /\ session' = "off"
  /\ UNCHANGED <<balance, mpc, ctxVars, histVars, storeVars>>

\* The card is spent or loaded at another machine.
UseElsewhere(c) ==
  /\ c \in Roaming
  /\ field # c
  /\ \E b \in 0..MaxBalance \ {balance[c]} :
        balance' = [balance EXCEPT ![c] = b]
  /\ UNCHANGED <<field, session, mpc, ctxVars, histVars, storeVars>>

-----------------------------------------------------------------------------
(* do_main_purchase_loop.                                                  *)

EnterPurchase ==
  /\ Goto("menu", "wait")
  /\ UNCHANGED <<ctxVars, cardVars, histVars, storeVars>>

\* <ESC> while waiting for a card, and the question whether to leave.
LeavePurchase ==
  /\ Goto("wait", "menu")
  /\ UNCHANGED <<ctxVars, cardVars, histVars, storeVars>>

\* do_waiting_purchase_card: a barred card sends the loop back to waiting.
ReadCard ==
  /\ field \in Cards \ Barred
  /\ Goto("wait", "check")
  /\ p16card' = [p16card EXCEPT !.cardno = field, !.cardbefbal = balance[field]]
  /\ UNCHANGED <<cardVars, money, write_card_ret, clock, histVars, storeVars>>

\* Mutant: the flag of the row is not looked at.
CheckRowOnly ==
  /\ Goto("check", "input")
  /\ vetted' = [card |-> p16card.cardno, flag |-> black[p16card.cardno]]
  /\ UNCHANGED <<ctxVars, cardVars, debits, storeVars>>

\* check_blackcard.  A statement that cannot be prepared gives -2 and ends the
\* loop; one that fails when it is stepped reads as "no row".
CheckBlackcard ==
  /\ Goto("check", "input")
  /\ \/ /\ black[p16card.cardno] # "lost"
        /\ vetted' = [card |-> p16card.cardno, flag |-> black[p16card.cardno]]
     \/ /\ Fails("read")
        /\ vetted' = [card |-> p16card.cardno, flag |-> "unread"]
  /\ UNCHANGED <<ctxVars, cardVars, debits, storeVars>>

RefuseBlackcard ==
  /\ Goto("check", "menu")
  /\ black[p16card.cardno] = "lost" \/ Fails("read")
  /\ ForgetPurchase
  /\ UNCHANGED <<clock, field, balance, debits, storeVars>>

\* Mutant: 0 is let through.
InputAnyMoney(m) ==
  /\ m <= MaxMoney
  /\ Goto("input", "request")
  /\ money' = m
  /\ UNCHANGED <<p16card, write_card_ret, clock, cardVars, histVars, storeVars>>

\* do_input_money_ex, the check of the amount and the confirmation.
InputMoney(m) ==
  /\ m # 0 /\ m <= MaxMoney
  /\ Goto("input", "request")
  /\ money' = m
  /\ UNCHANGED <<p16card, write_card_ret, clock, cardVars, histVars, storeVars>>

\* <ESC>, an amount out of bounds, or a confirmation refused.
CancelMoney ==
  /\ Goto("input", "wait")
  /\ ForgetPurchase
  /\ UNCHANGED <<clock, field, balance, debits, storeVars>>

-----------------------------------------------------------------------------
(* do_card_purchase.                                                       *)

\* Mutant: the two cards are not compared, only their balances.
RequestAnyCard ==
  /\ field \in Cards
  /\ balance[field] = p16card.cardbefbal
  /\ Goto("request", "init")
  /\ session' = "ready"
  /\ UNCHANGED <<field, balance, ctxVars, histVars, storeVars>>

\* The card is asked for again: same card, same balance as displayed.
RequestSameCard ==
  /\ field \in Cards
  /\ field = p16card.cardno
  /\ balance[field] = p16card.cardbefbal
  /\ Goto("request", "init")
  /\ session' = "ready"
  /\ UNCHANGED <<field, balance, ctxVars, histVars, storeVars>>

\* Any return -1 before the row is written: <ESC>, another card, a different
\* balance, a failing card or SAM command.
AbandonPurchase ==
  /\ mpc \in {"request", "init", "mac"}
  /\ mpc' = "wait"
  /\ ForgetPurchase
  /\ UNCHANGED <<clock, field, balance, debits, storeVars>>

\* Mutant: the card's refusal (not enough money) is taken for its consent.
InitWithoutFunds ==
  /\ Goto("init", "mac")
  /\ session # "off"
  /\ p16card' = [p16card EXCEPT !.cardbefbal = balance[field]]
  /\ session' = "armed"
  /\ UNCHANGED <<field, balance, money, write_card_ret, clock, histVars, storeVars>>

\* init_4_purchase: answered by a card that covers the amount; the balance it
\* reports replaces the one read before.
Init4Purchase ==
  /\ Goto("init", "mac")
  /\ session # "off"
  /\ balance[field] >= money
  /\ p16card' = [p16card EXCEPT !.cardbefbal = balance[field]]
  /\ session' = "armed"
  /\ UNCHANGED <<field, balance, money, write_card_ret, clock, histVars, storeVars>>

\* psam_purchase_mac reads the clock, and MAC1 covers the date and the time.
PsamPurchaseMac ==
  /\ clock < MaxStamp
  /\ Goto("mac", "add")
  /\ clock' = clock + 1
  /\ p16card' = [p16card EXCEPT !.term = clock']
  /\ UNCHANGED <<money, write_card_ret, cardVars, histVars, storeVars>>

TransAddRecord ==
  /\ Goto("add", "debit")
  /\ InsertRow(p16card.term, Transdtl("INIT", NoStamp))
  /\ UNCHANGED <<black, dbVersion, ctxVars, cardVars, histVars>>

\* Mutant: the result of trans_add_record is not looked at.
AddFailureIgnored ==
  /\ Fails("write")
  /\ Goto("add", "debit")
  /\ UNCHANGED <<ctxVars, cardVars, histVars, storeVars>>

TransAddFails ==
  /\ Fails("write")
  /\ Goto("add", "wait")
  /\ ForgetPurchase
  /\ UNCHANGED <<clock, field, balance, debits, storeVars>>

\* The card's own side of the debit command.
CardDebits ==
  /\ session = "armed"
  /\ balance[field] >= money
  /\ balance' = [balance EXCEPT ![field] = @ - money]
  /\ debits' = debits \cup
       {[key |-> p16card.term, card |-> field, amount |-> money, befbal |-> balance[field]]}
  /\ session' = "ready"
  /\ UNCHANGED field

\* debit_4_purchase, answered: the TAC is kept and the write is a success.
DebitAnswered ==
  /\ Goto("debit", "update")
  /\ CardDebits
  /\ p16card' = [p16card EXCEPT !.tac = p16card.term]
  /\ write_card_ret' = "WRITE_CARD_OK"
  /\ UNCHANGED <<money, clock, vetted, storeVars>>

\* The card debits and leaves the field before its answer is received.
DebitUnanswered ==
  /\ Goto("debit", "prove")
  /\ CardDebits
  /\ UNCHANGED <<ctxVars, vetted, storeVars>>

\* Mutant: the TAC is copied before the status word is looked at.
RefusedWithTac ==
  /\ Goto("debit", "prove")
  /\ session' = IF session = "off" THEN "off" ELSE "ready"
  /\ p16card' = [p16card EXCEPT !.tac = p16card.term]
  /\ UNCHANGED <<money, write_card_ret, clock, field, balance, histVars, storeVars>>

\* The card is gone, or refuses.
DebitRefused ==
  /\ Goto("debit", "prove")
  /\ session' = IF session = "off" THEN "off" ELSE "ready"
  /\ UNCHANGED <<ctxVars, field, balance, histVars, storeVars>>

\* Mutant: the debit is tried again whenever its answer was lost.
ProveByRetry ==
  /\ field = p16card.cardno
  /\ Goto("prove", "debit")
  /\ session' = "armed"
  /\ UNCHANGED <<ctxVars, field, balance, histVars, storeVars>>

\* do_write_card: the same card is back, and get_purchase_card_prove returns 0
\* for every CPU card.  Another card keeps the loop asking: no step.
ProveCard ==
  /\ field = p16card.cardno
  /\ Goto("prove", "update")
  /\ session' = "ready"
  /\ write_card_ret' = "WRITE_CARD_OK"
  /\ UNCHANGED <<p16card, money, clock, field, balance, histVars, storeVars>>

\* do_write_card: <ESC>.
CancelWrite ==
  /\ Goto("prove", "update")
  /\ write_card_ret' = "WRITE_CARD_FAILED"
  /\ UNCHANGED <<p16card, money, clock, cardVars, histVars, storeVars>>

\* Mutant: the update may be done twice.
UpdateAgain ==
  /\ mpc = "update"
  /\ UpdateRow(p16card.term, Transdtl(write_card_ret, p16card.tac))
  /\ \/ mpc' = "wait" /\ ForgetPurchase
     \/ UNCHANGED <<mpc, session, p16card, money, write_card_ret, vetted>>
  /\ UNCHANGED <<black, dbVersion, clock, field, balance, debits>>

\* The whole row is written again, CONFIRM included, with the TAC that
\* p16card holds.
TransUpdateRecord ==
  /\ Goto("update", "wait")
  /\ UpdateRow(p16card.term, Transdtl(write_card_ret, p16card.tac))
  /\ ForgetPurchase
  /\ UNCHANGED <<black, dbVersion, clock, field, balance, debits>>

TransUpdateFails ==
  /\ Fails("write")
  /\ Goto("update", "wait")
  /\ ForgetPurchase
  /\ UNCHANGED <<clock, field, balance, debits, storeVars>>

-----------------------------------------------------------------------------
\* The settings menu: sys_cfg_clear_transdtl empties the journal.
ClearTransdtl ==
  /\ mpc = "menu"
  /\ trans # [k \in {} |-> 0]
  /\ DeleteRows(DOMAIN trans)
  /\ UNCHANGED <<black, dbVersion, mainVars>>

\* sys_cfg_reset, syspara_reset: the parameters go back to the factory's, the
\* version of the loss list included; the list itself and p16pos stay.
FactoryReset ==
  /\ mpc = "menu"
  /\ dbVersion # 0
  /\ dbVersion' = 0
  /\ UNCHANGED <<trans, black, mainVars>>

\* The power goes: the memory is lost, and a card on the reader is deselected.
MainLosesPower ==
  /\ mpc # "off"
  /\ mpc' = "off"
  /\ p16card' = NoCtx
  /\ money' = 0
  /\ write_card_ret' = "INIT"
  /\ session' = "off"
  /\ vetted' = NotVetted
  /\ UNCHANGED <<clock, field, balance, debits>>

\* main: clear_transdtl deletes the confirmed rows of more than 7 days ago
\* (key d is the first one it keeps), then the menu opens.
MainBoots ==
  /\ Goto("off", "menu")
  /\ \E d \in 0..clock + 1 :
        DeleteRows({k \in DOMAIN trans : k < d /\ trans[k].confirm = 1})
  /\ UNCHANGED <<ctxVars, cardVars, histVars>>

PurchaseInit ==
  /\ mpc = "menu"
  /\ p16card = NoCtx
  /\ money = 0
  /\ write_card_ret = "INIT"
  /\ clock = 0
  /\ field = NoCard
  /\ session = "off"
  /\ balance \in [Cards -> 0..MaxBalance]
  /\ debits = {}
  /\ vetted = NotVetted

\* What the thread does of its own accord, and what needs a person or a card.
MainStep ==
  \/ CheckBlackcard \/ RefuseBlackcard \/ Init4Purchase \/ PsamPurchaseMac
  \/ TransAddRecord \/ TransAddFails
  \/ DebitAnswered \/ DebitUnanswered \/ DebitRefused
  \/ TransUpdateRecord \/ TransUpdateFails

OperatorStep ==
  \/ EnterPurchase \/ LeavePurchase \/ ReadCard
  \/ \E m \in TypedIn : InputMoney(m)
  \/ CancelMoney \/ RequestSameCard \/ AbandonPurchase
  \/ ProveCard \/ CancelWrite \/ ClearTransdtl \/ FactoryReset

HolderStep ==
  \/ \E c \in Cards : PlaceCard(c)
  \/ RemoveCard
  \/ \E c \in Cards : UseElsewhere(c)

PurchaseNext == MainStep \/ OperatorStep \/ HolderStep

PurchaseTypeOK ==
  /\ mpc \in MainPcs
  /\ p16card \in Ctx
  /\ money \in Nat
  /\ write_card_ret \in TransFlags
  /\ clock \in Nat
  /\ field \in Cards \cup {NoCard}
  /\ session \in Sessions
  /\ balance \in [Cards -> Nat]
  /\ debits \subseteq Debit
  /\ vetted \in [card : Cards \cup {NoCard}, flag : CardFlags \cup {"none", "unread"}]
=============================================================================
