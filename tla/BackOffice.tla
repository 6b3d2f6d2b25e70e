----------------------------- MODULE BackOffice -----------------------------
(***************************************************************************)
(* The server that books top-ups, as the flows of deposit.c and            *)
(* allowance.c see it through svc_deposit, svc_get_allowance and           *)
(* svc_deposit_confirm (service.c), and the requests that are still on     *)
(* their way.  A call is atomic here (see AtomicCall and RpcCall), but a   *)
(* request whose call brought no answer may be served at any later time,   *)
(* or never.                                                               *)
(***************************************************************************)
EXTENDS Integers, FiniteSets

CONSTANTS
  Cards,
  NoCard,
  MaxTrans \* bound: how many transactions are ever begun

ASSUME BackOfficeAssumption ==
  /\ NoCard \notin Cards
  /\ MaxTrans \in Nat

VARIABLES
  booking,  \* the server: what it knows of each transaction
  flight,   \* requests whose caller has gone
  verdicts, \* the server: the confirmations it received
  timedOut, \* p16pos.last_trans_timeout
  field,    \* the card on the reader
  next      \* the transaction that the next date and time stand for

officeVars == <<booking, flight, verdicts, timedOut>>

-----------------------------------------------------------------------------
Txns == 1..MaxTrans

\* A transaction the server has not heard of; one it has booked and is to be
\* told the result of; one whose card was written; one taken back.
Statuses == {"none", "booked", "kept", "reversed"}

Requests ==
  [op : {"deposit", "allowance", "confirm"}, txn : Txns, card : Cards, isok : {0, 1}]

Book(op, t, c) == [op |-> op, txn |-> t, card |-> c, isok |-> 0]
Confirm(t, c, isok) == [op |-> "confirm", txn |-> t, card |-> c, isok |-> isok]

\* An allowance is given once: not while another transaction holds it.
Accepts(r) ==
  r.op = "allowance" =>
    \A t \in Txns \ {r.txn} :
      ~(booking[t].card = r.card /\ booking[t].status \in {"booked", "kept"})

Served(r) ==
  LET b == booking[r.txn]
      Becomes(s) == booking' = [booking EXCEPT ![r.txn] = [status |-> s, card |-> r.card]]
  IN  /\ Accepts(r)
      /\ IF r.op = "confirm"
         THEN /\ verdicts' = verdicts \cup {<<r.txn, r.isok>>}
              /\ IF b.status = "booked"
                 THEN Becomes(IF r.isok = 1 THEN "kept" ELSE "reversed")
                 ELSE UNCHANGED booking
         ELSE /\ UNCHANGED verdicts
              /\ IF b.status = "none" THEN Becomes("booked") ELSE UNCHANGED booking

Arrives(r) ==
  \/ Served(r) /\ UNCHANGED flight
  \/ flight' = flight \cup {r} /\ UNCHANGED <<booking, verdicts>>

\* SVC_OK.
Answered(r) == Served(r) /\ UNCHANGED flight /\ timedOut' = 0

\* SVC_TIMEOUT.
TimesOut(r) == Arrives(r) /\ timedOut' = 1

\* SVC_FAILED: the server refuses, or the connection fails.  The flag is
\* cleared unless curl_easy_getinfo failed.
FailsOrRefuses(r) == Arrives(r) /\ timedOut' \in {0, timedOut}

\* A query (reqflag Q) changes nothing at the server.  It brings the MAC of a
\* transaction that is booked.
QueryAnswered(t) ==
  /\ booking[t].status = "booked"
  /\ timedOut' = 0
  /\ UNCHANGED <<booking, flight, verdicts>>

QueryTimesOut ==
  /\ timedOut' = 1
  /\ UNCHANGED <<booking, flight, verdicts>>

QueryFails ==
  /\ timedOut' \in {0, timedOut}
  /\ UNCHANGED <<booking, flight, verdicts>>

\* A request arrives although its caller has given up.
LateArrival ==
  /\ \E r \in flight : Served(r) /\ flight' = flight \ {r}
  /\ UNCHANGED timedOut

-----------------------------------------------------------------------------
OfficeInit ==
  /\ booking = [t \in Txns |-> [status |-> "none", card |-> NoCard]]
  /\ flight = {} /\ verdicts = {}
  /\ timedOut = 0
  /\ field = NoCard
  /\ next = 1

OfficeTypeOK ==
  /\ booking \in [Txns -> [status : Statuses, card : Cards \cup {NoCard}]]
  /\ flight \subseteq Requests
  /\ verdicts \subseteq Txns \X {0, 1}
  /\ timedOut \in {0, 1}
  /\ field \in Cards \cup {NoCard}
  /\ next \in 1..(MaxTrans + 1)
=============================================================================
