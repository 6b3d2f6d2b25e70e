------------------------------- MODULE TopUp -------------------------------
(***************************************************************************)
(* A machine that tops cards up: init_menu offers the deposit or the       *)
(* allowance flow by its work mode (menu.c:1190-1228), over one server,    *)
(* card holders who come and go, late requests and loss of power.          *)
(***************************************************************************)
EXTENDS BackOffice

CONSTANT DbErrors \* which statements may fail

ASSUME TopUpAssumption == DbErrors \subseteq {"read", "write"}

VARIABLES
  mode,                                                   \* p16pos.work_mode
  dpc, back, cur, dflag, dcard, rows,                     \* Deposit
  apc, acard, order, getFlag, aflag, loads, armed, credits \* Allowance

D == INSTANCE Deposit WITH flag <- dflag, p16card <- dcard
A == INSTANCE Allowance WITH flag <- aflag, p16card <- acard

depositOnly == <<dpc, back, cur, dflag, dcard, rows>>
allowanceOnly == <<apc, acard, order, getFlag, aflag, loads, armed, credits>>
vars == <<mode, depositOnly, allowanceOnly, officeVars, field, next>>

-----------------------------------------------------------------------------
Init ==
  /\ OfficeInit /\ D!DepositInit /\ A!AllowanceInit
  /\ mode \in {"deposit", "allowance"}
  /\ dpc = IF mode = "deposit" THEN "menu" ELSE "off"
  /\ apc = IF mode = "allowance" THEN "login" ELSE "off"

DepositStep ==
  /\ mode = "deposit"
  /\ D!DepositNext
  /\ UNCHANGED <<mode, allowanceOnly>>

AllowanceStep ==
  /\ mode = "allowance"
  /\ A!AllowanceNext
  /\ UNCHANGED <<mode, depositOnly>>

\* The holder puts a card on the reader or takes it away.
MoveCard ==
  /\ field' \in (Cards \cup {NoCard}) \ {field}
  /\ field = NoCard \/ field' = NoCard
  /\ armed' = FALSE
  /\ UNCHANGED <<mode, depositOnly, apc, acard, order, getFlag, aflag, loads, credits,
                 officeVars, next>>

RequestArrives ==
  /\ LateArrival
  /\ UNCHANGED <<mode, depositOnly, allowanceOnly, field, next>>

LosePower ==
  /\ IF mode = "deposit"
     THEN D!DepositLosesPower /\ UNCHANGED <<allowanceOnly, field>>
     ELSE A!AllowanceLosesPower /\ UNCHANGED depositOnly
  /\ timedOut' = 0
  /\ UNCHANGED <<mode, booking, flight, verdicts>>

Boot ==
  /\ IF mode = "deposit"
     THEN D!DepositBoots /\ UNCHANGED <<allowanceOnly, field>>
     ELSE A!AllowanceBoots /\ UNCHANGED depositOnly
  /\ UNCHANGED <<mode, officeVars>>

Next ==
  \/ DepositStep \/ AllowanceStep
  \/ MoveCard \/ RequestArrives \/ LosePower \/ Boot

Spec == Init /\ [][Next]_vars

\* The recovery does not wait for anybody but the server, and the server
\* answers a query and a confirmation that is tried again and again.
Fairness ==
  /\ WF_vars(DepositStep /\ D!Recovery)
  /\ SF_vars(DepositStep /\ (D!AskBooked \/ D!AskFails))
  /\ SF_vars(DepositStep /\ D!SettleAnswered)

FairSpec == Spec /\ Fairness

-----------------------------------------------------------------------------
\* Every variable keeps its type (deposit.c, allowance.c).
TypeOK == OfficeTypeOK /\ D!DepositTypeOK /\ A!AllowanceTypeOK

\* See Deposit.
BookedHasRow == mode = "deposit" => D!BookedHasRow
VerdictsMatchRows == mode = "deposit" => D!VerdictsMatchRows
ReportsWereBooked == mode = "deposit" => D!ReportsWereBooked
UnjudgedStaysOpen == mode = "deposit" => D!UnjudgedStaysOpen
CheckEnds == D!CheckEnds

\* See Allowance.
CreditOnce == A!CreditOnce
KeptMeansCredited == mode = "allowance" => A!KeptMeansCredited
=============================================================================
