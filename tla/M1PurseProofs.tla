--------------------------- MODULE M1PurseProofs ---------------------------
(***************************************************************************)
(* Theorems about the purse of an M1 card, for purses and counts of any    *)
(* width: the second block holds what was read while the first is being    *)
(* written, and the two blocks implement the atomic purse.                 *)
(***************************************************************************)
EXTENDS M1Purse, TLAPS

\* A remainder is a number below the divisor.
LEMMA Remainder ==
  ASSUME NEW n \in Nat, NEW d \in Nat \ {0}
  PROVE  n % d \in 0..(d - 1)
  OBVIOUS

LEMMA LoadedIsPurse ==
  ASSUME NEW p \in Abstract!Purses, dpsamt \in Nat
  PROVE  Loaded(p) \in Abstract!Purses
<1>1. p.bal + dpsamt \in Nat /\ p.cnt + 1 \in Nat
  BY PurseAssumption DEF Abstract!Purses
<1>2. (p.bal + dpsamt) % BalanceMod \in 0..(BalanceMod - 1)
  BY <1>1, Remainder, PurseAssumption
<1>3. (p.cnt + 1) % CountMod \in 0..(CountMod - 1)
  BY <1>1, Remainder, PurseAssumption
<1> QED BY <1>2, <1>3 DEF Loaded, Abstract!Loaded, Abstract!Purses

\* A purse has a good checksum.
LEMMA PurseIsGood ==
  ASSUME NEW p \in Abstract!Purses
  PROVE  p # Bad
  BY PurseAssumption DEF Abstract!Purses, Bad

-----------------------------------------------------------------------------
(* The invariant.                                                          *)

LEMMA InitEstablishes == Init => PurseInv
  BY PurseIsGood DEF Init, PurseInv, TypeOK

\* The block that is being written keeps its type.
LEMMA TornKeepsType ==
  ASSUME TypeOK, buffer # Bad,
         Torn(2, buffer) \/ Torn(0, Loaded(buffer))
  PROVE  block' \in [{0, 2} -> Abstract!Purses \cup {Bad}]
<1>1. buffer \in Abstract!Purses /\ dpsamt \in Nat
  BY PurseAssumption DEF TypeOK
<1>2. Loaded(buffer) \in Abstract!Purses
  BY <1>1, LoadedIsPurse
<1> QED BY <1>1, <1>2 DEF TypeOK, Torn

\* What is spent elsewhere leaves two purses.
LEMMA SpentPurses ==
  ASSUME TypeOK, SpendElsewhere
  PROVE  /\ block' \in [{0, 2} -> Abstract!Purses]
         /\ Readable' \in Abstract!Purses
<1>1. Readable \in Abstract!Purses
  BY DEF SpendElsewhere, TypeOK, Readable
<1>2. (Readable.cnt + 1) % CountMod \in 0..(CountMod - 1)
  BY <1>1, Remainder, PurseAssumption DEF Abstract!Purses
<1>3. Readable.bal - 1 \in 0..(BalanceMod - 1)
  BY <1>1, PurseAssumption DEF SpendElsewhere, Abstract!Purses
<1> DEFINE spent == [bal |-> Readable.bal - 1, cnt |-> (Readable.cnt + 1) % CountMod]
<1>4. spent \in Abstract!Purses
  BY <1>2, <1>3 DEF Abstract!Purses
<1>5. block' = [b \in {0, 2} |-> IF b = 2 THEN Readable ELSE spent]
  BY DEF SpendElsewhere
<1> HIDE DEF spent
<1>6. block' \in [{0, 2} -> Abstract!Purses]
  BY <1>1, <1>4, <1>5
<1> QED BY <1>6, PurseIsGood DEF Readable

LEMMA StepKeeps ==
  ASSUME PurseInv, [Next]_vars
  PROVE  PurseInv'
<1> USE DEF PurseInv, TypeOK
<1>1. CASE ReadCard
  BY <1>1 DEF ReadCard, Readable
<1>2. CASE RequestCard
  BY <1>2 DEF RequestCard
<1>3. CASE DebitBegins
  BY <1>3 DEF DebitBegins
<1>4. CASE NotLoaded
  BY <1>4 DEF NotLoaded
<1>5. CASE WriteBackup
  BY <1>5 DEF WriteBackup
<1>6. CASE WritePurse
  <2>1. buffer \in Abstract!Purses /\ dpsamt \in Nat
    BY <1>6, PurseAssumption DEF WritePurse
  <2>2. Loaded(buffer) \in Abstract!Purses
    BY <2>1, LoadedIsPurse
  <2> QED BY <1>6, <2>2 DEF WritePurse
<1>7. CASE WriteFails
  <2>1. block' \in [{0, 2} -> Abstract!Purses \cup {Bad}]
    BY <1>7, TornKeepsType DEF WriteFails
  <2> QED BY <1>7, <2>1 DEF WriteFails
<1>8. CASE TryAgain
  BY <1>8 DEF TryAgain
<1>9. CASE GiveUp
  BY <1>9 DEF GiveUp
<1>10. CASE PowerLost
  <2>1. block' \in [{0, 2} -> Abstract!Purses \cup {Bad}]
    BY <1>10, TornKeepsType DEF PowerLost
  <2> QED BY <1>10, <2>1 DEF PowerLost
<1>11. CASE MoveCard
  BY <1>11 DEF MoveCard
<1>12. CASE SpendElsewhere
  BY <1>12, SpentPurses DEF SpendElsewhere
<1>13. CASE UNCHANGED vars
  BY <1>13 DEF vars
<1> QED
  BY <1>1, <1>2, <1>3, <1>4, <1>5, <1>6, <1>7, <1>8, <1>9, <1>10, <1>11, <1>12, <1>13 DEF Next

\* While the first block is being written, the second holds what was read, as
\* long as the card has stayed selected (cardop.c:803-815, 976-986).
THEOREM BackupHolds == Spec => []PurseInv
  BY InitEstablishes, StepKeeps, PTL DEF Spec

-----------------------------------------------------------------------------
(* The refinement.                                                         *)

LEMMA InitRefines == Init => Abstract!Init
  BY PurseIsGood DEF Init, Abstract!Init, Readable, Abstract!Unreadable, Bad

\* A torn block is an interrupted load, unless the purse was hurt before and
\* its only copy is the block that was torn.
LEMMA TornRefines ==
  ASSUME PurseInv, buffer # Bad,
         Torn(2, buffer) \/ (block[2] = buffer /\ Torn(0, Loaded(buffer))),
         buffer' \in {buffer, Bad}, dpsamt' = dpsamt
  PROVE  Abstract!Next
<1>1. (block[0] = Bad)' \in BOOLEAN
  OBVIOUS
<1>2. CASE Torn(2, buffer)
  <2>1. block'[0] = block[0] /\ block'[2] \in {block[2], buffer, Bad}
    BY <1>2 DEF PurseInv, TypeOK, Torn
  <2>2. CASE block[0] = Bad /\ block'[2] = Bad
    <3>1. Abstract!Lose
      BY <2>1, <2>2 DEF Abstract!Lose, Abstract!Unreadable, Readable, Bad
    <3> QED BY <3>1 DEF Abstract!Next
  <2>3. CASE block[0] # Bad \/ block'[2] # Bad
    <3>1. Abstract!Interrupted
      BY <1>1, <2>1, <2>3 DEF Abstract!Interrupted, Abstract!Unreadable, Readable, Bad
    <3> QED BY <3>1 DEF Abstract!Next
  <2> QED BY <2>2, <2>3
<1>3. CASE block[2] = buffer /\ Torn(0, Loaded(buffer))
  <2>1. block'[2] = buffer /\ block'[0] \in {block[0], Loaded(buffer), Bad}
    BY <1>3 DEF PurseInv, TypeOK, Torn
  <2>2. Readable' \in {Readable, buffer, Loaded(buffer)}
    BY <1>3, <2>1 DEF Readable
  <2>3. Abstract!Interrupted
    BY <1>1, <2>2 DEF Abstract!Interrupted, Abstract!Unreadable, Bad, Loaded
  <2> QED BY <2>3 DEF Abstract!Next
<1> QED BY <1>2, <1>3

LEMMA StepRefines ==
  ASSUME PurseInv, [Next]_vars
  PROVE  [Abstract!Next]_(Abstract!vars)
<1> USE DEF Abstract!vars, Abstract!Unreadable, Bad, Readable
<1>1. CASE ReadCard
  <2>1. Abstract!See
    BY <1>1 DEF ReadCard, Abstract!See
  <2> QED BY <2>1 DEF Abstract!Next
<1>2. CASE RequestCard \/ DebitBegins \/ MoveCard \/ TryAgain \/ UNCHANGED vars
  BY <1>2 DEF RequestCard, DebitBegins, MoveCard, TryAgain, vars
<1>3. CASE NotLoaded \/ GiveUp
  <2>1. Abstract!Forget
    BY <1>3 DEF NotLoaded, GiveUp, Abstract!Forget
  <2> QED BY <2>1 DEF Abstract!Next
<1>4. CASE WriteBackup
  <2>1. buffer # Bad /\ Torn(2, buffer) /\ buffer' = buffer /\ dpsamt' = dpsamt
    BY <1>4 DEF WriteBackup, Torn, PurseInv
  <2> QED BY <2>1, TornRefines
<1>5. CASE WritePurse
  <2>1. buffer \in Abstract!Purses /\ dpsamt \in Nat
    BY <1>5, PurseAssumption DEF WritePurse, PurseInv, TypeOK
  <2>2. Loaded(buffer) # Bad
    BY <2>1, LoadedIsPurse, PurseIsGood
  <2>3. Readable' = Loaded(buffer) /\ block'[0] # Bad
    BY <1>5, <2>2 DEF WritePurse, PurseInv, TypeOK
  <2>4. Abstract!Load
    BY <1>5, <2>1, <2>3, PurseIsGood DEF WritePurse, Abstract!Load, Loaded
  <2> QED BY <2>4 DEF Abstract!Next
<1>6. CASE WriteFails
  <2>1. CASE block' = block
    BY <1>6, <2>1 DEF WriteFails
  <2>2. CASE block' # block
    BY <1>6, <2>2, TornRefines DEF WriteFails, PurseInv
  <2> QED BY <2>1, <2>2
<1>7. CASE PowerLost
  <2>1. CASE block' = block
    <3>1. Abstract!Forget
      BY <1>7, <2>1 DEF PowerLost, Abstract!Forget
    <3> QED BY <3>1 DEF Abstract!Next
  <2>2. CASE block' # block
    BY <1>7, <2>2, TornRefines DEF PowerLost, PurseInv
  <2> QED BY <2>1, <2>2
<1>8. CASE SpendElsewhere
  <2>1. Abstract!SpentElsewhere
    BY <1>8, SpentPurses, PurseIsGood DEF SpendElsewhere, Abstract!SpentElsewhere, PurseInv
  <2> QED BY <2>1 DEF Abstract!Next
<1> QED BY <1>1, <1>2, <1>3, <1>4, <1>5, <1>6, <1>7, <1>8 DEF Next

\* Two blocks and a checksum make a purse that no single interruption loses and
\* no repetition loads twice (cardop.c:690-1019).
THEOREM BlocksMakeAPurse == Spec => ImplementsAtomicPurse
<1>1. PurseInv /\ [Next]_vars => [Abstract!Next]_(Abstract!vars)
  BY StepRefines
<1> QED
  BY InitRefines, BackupHolds, <1>1, PTL DEF Spec, ImplementsAtomicPurse, Abstract!Spec
=============================================================================
