------------------------------ MODULE M1Purse ------------------------------
(***************************************************************************)
(* The purse of an M1 card (cardop.c): two copies with a checksum each.  A *)
(* load writes what was read to the second block, then the new purse to    *)
(* the first; a reader falls back to the second.  A card that is pulled    *)
(* away, or a machine that loses power, leaves the block being written     *)
(* old, new or with a bad checksum.                                        *)
(***************************************************************************)
EXTENDS Integers

CONSTANTS
  BalanceMod, \* three bytes: 2^24
  CountMod,   \* two bytes: 2^16
  Amounts     \* what may be loaded at once

ASSUME PurseAssumption ==
  /\ BalanceMod \in Nat \ {0} /\ CountMod \in Nat \ {0}
  /\ Amounts \subseteq Nat

VARIABLES
  mpc,    \* "idle", "read", "backup", "purse", "failed"
  block,  \* the blocks 0 and 2 of the purse's sector
  card,   \* "away", on the reader but not "selected" ("there"), or selected
  buffer, \* cardctx->m1_card_buffer
  dpsamt  \* cardctx->dpsamt

vars == <<mpc, block, card, buffer, dpsamt>>

-----------------------------------------------------------------------------
\* A block whose checksum is wrong; also the buffer before anything was read.
Bad == [bal |-> 0, cnt |-> -1]

\* m1_read_card: the first block, or the second when the first is bad.
Readable == IF block[0] # Bad THEN block[0] ELSE block[2]

Abstract == INSTANCE AtomicPurse WITH
  value <- Readable, hurt <- block[0] = Bad, seen <- buffer, amount <- dpsamt

Loaded(p) == Abstract!Loaded(p, dpsamt)

\* What an interrupted write of a block may leave.
Torn(b, new) == \E left \in {block[b], new, Bad} : block' = [block EXCEPT ![b] = left]

-----------------------------------------------------------------------------
\* read_user_card; the count and the balance are those of the buffer.
ReadCard ==
  /\ mpc = "idle" /\ card # "away"
  /\ card' = "selected"
  /\ Readable # Bad
  /\ buffer' = Readable
  /\ dpsamt' \in Amounts
  /\ mpc' = "read"
  /\ UNCHANGED block

\* The card with that number is asked for again before ENT is accepted; the
\* buffer stays (do_disp_message_request_card).
RequestCard ==
  /\ mpc = "read" /\ card = "there"
  /\ card' = "selected"
  /\ UNCHANGED <<mpc, block, buffer, dpsamt>>

\* init_4_load computes in memory only.  Then the server sends MAC2, and the
\* balance and count compared with the buffer are the buffer's own.
DebitBegins ==
  /\ mpc = "read"
  /\ mpc' = "backup"
  /\ UNCHANGED <<block, card, buffer, dpsamt>>

\* The server refuses, or its MAC is wrong.
NotLoaded ==
  /\ mpc = "read"
  /\ mpc' = "idle"
  /\ buffer' = Bad
  /\ UNCHANGED <<block, card, dpsamt>>

\* Mutant: the second block is taken to hold what was read.
BackupSkipped ==
  /\ mpc = "backup" /\ card = "selected"
  /\ mpc' = "purse"
  /\ UNCHANGED <<block, card, buffer, dpsamt>>

WriteBackup ==
  /\ mpc = "backup" /\ card = "selected"
  /\ block' = [block EXCEPT ![2] = buffer]
  /\ mpc' = "purse"
  /\ UNCHANGED <<card, buffer, dpsamt>>

WritePurse ==
  /\ mpc = "purse" /\ card = "selected"
  /\ block' = [block EXCEPT ![0] = Loaded(buffer)]
  /\ mpc' = "idle"
  /\ buffer' = Bad
  /\ UNCHANGED <<card, dpsamt>>

\* m1_write_block fails: the card went away in the middle, or only its answer
\* did not come through.
WriteFails ==
  /\ \/ mpc = "backup" /\ card = "selected" /\ Torn(2, buffer)
     \/ mpc = "purse" /\ card = "selected" /\ Torn(0, Loaded(buffer))
     \/ mpc \in {"backup", "purse"} /\ card # "selected" /\ UNCHANGED block
  /\ mpc' = "failed"
  /\ card' \in {card, "away"}
  /\ UNCHANGED <<buffer, dpsamt>>

\* The same card, ENT: MAC2 is fetched again, the buffer is still the one read
\* at first (allowance.c:205-236).
TryAgain ==
  /\ mpc = "failed" /\ card # "away"
  /\ card' = "selected"
  /\ mpc' = "backup"
  /\ UNCHANGED <<block, buffer, dpsamt>>

GiveUp ==
  /\ mpc = "failed"
  /\ mpc' = "idle"
  /\ buffer' = Bad
  /\ UNCHANGED <<block, card, dpsamt>>

PowerLost ==
  /\ \/ mpc = "backup" /\ card = "selected" /\ Torn(2, buffer)
     \/ mpc = "purse" /\ card = "selected" /\ Torn(0, Loaded(buffer))
     \/ UNCHANGED block
  /\ mpc' = "idle"
  /\ buffer' = Bad
  /\ card' = IF card = "selected" THEN "there" ELSE card
  /\ UNCHANGED dpsamt

MoveCard ==
  /\ card' = IF card = "away" THEN "there" ELSE "away"
  /\ UNCHANGED <<mpc, block, buffer, dpsamt>>

\* Elsewhere the card is spent, in the same order of writes.
SpendElsewhere ==
  /\ card = "away"
  /\ Readable # Bad /\ Readable.bal > 0
  /\ block' = [b \in {0, 2} |->
                 IF b = 2 THEN Readable
                 ELSE [bal |-> Readable.bal - 1, cnt |-> (Readable.cnt + 1) % CountMod]]
  /\ UNCHANGED <<mpc, card, buffer, dpsamt>>

-----------------------------------------------------------------------------
Init ==
  /\ mpc = "idle"
  /\ \E p \in Abstract!Purses : block = [b \in {0, 2} |-> p]
  /\ card = "away"
  /\ buffer = Bad
  /\ dpsamt \in Amounts

Next ==
  \/ ReadCard \/ RequestCard \/ DebitBegins \/ NotLoaded
  \/ WriteBackup \/ WritePurse \/ WriteFails \/ TryAgain \/ GiveUp
  \/ PowerLost \/ MoveCard \/ SpendElsewhere

Spec == Init /\ [][Next]_vars

-----------------------------------------------------------------------------
TypeOK ==
  /\ mpc \in {"idle", "read", "backup", "purse", "failed"}
  /\ block \in [{0, 2} -> Abstract!Purses \cup {Bad}]
  /\ card \in {"away", "there", "selected"}
  /\ buffer \in Abstract!Purses \cup {Bad}
  /\ dpsamt \in Amounts

\* The first block is only written while the second holds what was read, as
\* long as the card has stayed selected (cardop.c:803-815, 976-986).
PurseInv ==
  /\ TypeOK
  /\ mpc \in {"read", "backup", "purse", "failed"} <=> buffer # Bad
  /\ mpc = "purse" /\ card = "selected" => block[2] = buffer

\* Two blocks and a checksum make a purse that no single interruption loses
\* and no repetition loads twice (cardop.c:690-1019).
ImplementsAtomicPurse == Abstract!Spec
=============================================================================
