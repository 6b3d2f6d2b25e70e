---------------------------- MODULE AtomicPurse ----------------------------
(***************************************************************************)
(* What a purse promises to the machine that loads it: a load replaces the *)
(* balance by the one that was read plus the amount, as often as it is     *)
(* tried; an interrupted load leaves one of the balances before or after   *)
(* it.  Only a purse that an interruption has left hurt can be lost by     *)
(* another one.                                                            *)
(***************************************************************************)
EXTENDS Integers

CONSTANTS
  BalanceMod, \* the purse holds the balance modulo this number
  CountMod,   \* and its count of loads modulo this one
  Amounts

VARIABLES
  value,  \* what a reader finds, or Unreadable
  hurt,   \* has an interruption left it with one copy?
  seen,   \* what the machine last read, or Unreadable
  amount  \* what it is to load

vars == <<value, hurt, seen, amount>>

-----------------------------------------------------------------------------
Purses == [bal : 0..(BalanceMod - 1), cnt : 0..(CountMod - 1)]
Unreadable == [bal |-> 0, cnt |-> -1]

Loaded(p, a) == [bal |-> (p.bal + a) % BalanceMod, cnt |-> (p.cnt + 1) % CountMod]

Init ==
  /\ value \in Purses
  /\ hurt = FALSE
  /\ seen = Unreadable
  /\ amount \in Amounts

See ==
  /\ value # Unreadable
  /\ seen' = value
  /\ amount' \in Amounts
  /\ UNCHANGED <<value, hurt>>

Forget ==
  /\ seen' = Unreadable
  /\ UNCHANGED <<value, hurt, amount>>

Load ==
  /\ seen # Unreadable
  /\ value' = Loaded(seen, amount)
  /\ hurt' = FALSE
  /\ seen' = Unreadable
  /\ UNCHANGED amount

\* Before or after the load.  The balance before it is the one that was read,
\* which need not be the one on the card any more.
Interrupted ==
  /\ seen # Unreadable
  /\ value' \in {value, seen, Loaded(seen, amount)}
  /\ hurt' \in BOOLEAN
  /\ seen' \in {seen, Unreadable}
  /\ UNCHANGED amount

Lose ==
  /\ hurt /\ hurt'
  /\ value' = Unreadable
  /\ seen' \in {seen, Unreadable}
  /\ UNCHANGED amount

\* Another machine takes an amount from it.
SpentElsewhere ==
  /\ value # Unreadable
  /\ value' \in Purses
  /\ hurt' = FALSE
  /\ UNCHANGED <<seen, amount>>

Next == See \/ Forget \/ Load \/ Interrupted \/ Lose \/ SpentElsewhere

Spec == Init /\ [][Next]_vars
=============================================================================
