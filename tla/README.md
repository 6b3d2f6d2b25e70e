# The purchase machine: models, checks and proofs

The program under `src/hw` is the firmware of a campus-card machine (a P16 terminal): an operator
types an amount, a card is presented, the amount is taken from it, and a thread in the background
uploads what happened and keeps a list of lost cards up to date. It is a C program of two threads over
one SQLite file. This directory holds TLA+ models of it, TLC runs on small instances and TLAPS proofs
for every instance.

## 1. The system

### Live path

`main` (p16main.c:1106-1157) opens the database, loads the parameters, deletes old journal rows, starts
the upload thread and shows `init_purchase_menu` (menu.c:1128-1175): purchase, settings, power off.
`init_menu`, `deposit_menu` and `allowance_menu` are compiled but nothing calls them from `main`;
`send_batch_transdtl_data`, `tcp_demo_send` and `get_card_prove` have no caller either. What is reachable
is modelled first and proved about most; the deposit and allowance flows are complete programs all the
same, and are modelled as `init_menu` would run them.

### Components

**Store** (syspara.c). *State*: the tables `TRANSDTL` (the journal: a row per purchase with key, card,
balance before, amount, `TRANSFLAG`, `CONFIRM`, TAC), `T_BLACKCARD` (lost cards), `SYSPARA` (parameters,
among them `dev.pos_blacklist_version`), and `OPERSTAT`, `DPSFEERATE`, `ALLOWANCEDETAIL` for the
unreachable flows. *Operations*: insert a row, update a whole row by its key, oldest unconfirmed row,
delete confirmed rows older than 7 days, empty the journal, insert or update a loss-list row, update a
parameter, factory reset. *Interaction*: both threads call it; there is no transaction over several
statements. *Hard*: whole-row updates from copies of different age; a failure of one statement of
several. *Correct when*: a row is inserted before it is needed, never altered in what it says of the
card, and never deleted before it was uploaded.

**Purchase loop** (deposit.c:889-1012, 1085-1157, 406-561). *State*: the global card context `p16card`,
the amount, the row under construction, the result of the write. *Operations*: wait for a card and read
it, look it up in the loss list, input and confirm an amount, ask for the card again and compare it,
initialise the purchase on the card, obtain MAC1 from the SAM, insert the row, debit, find out about an
unanswered debit, update the row. *Interaction*: the card through `cardop.c`, the store, the operator.
*Hard*: the card may leave, be swapped or be spent elsewhere at any point; the debit's answer may be lost
after the card has executed it; power may fail between any two steps. *Correct when*: nothing is taken
without a row that says so, a row is debited at most once, and it names the card, amount and balance.

**Card operations** (cardop.c). *State*: the card's session (selected, initialised for an amount) and
purse. *Correct when*: only an initialised card debits, and only the amount of the MAC.

**Upload thread** (`check_send_transdtl`, p16main.c:984-1080). *State*: a copy of the row being sent,
`p16pos.pos_blacklist_version`, the received list. *Operations*: take the oldest unconfirmed row, mark
it, send it; when none is left, heartbeat; when the server has a newer loss list, download it, save it
card by card, store the version, take it over in memory. *Interaction*: the store; the server through
`tcp_send_data`. *Hard*: it races the purchase loop for the row it copies; answers are lost; power fails
between the list and the version. *Correct when*: no state of a row is sent twice, every row gets its
turn, the version never claims changes the table lacks, and the list arrives.

**Host exchange** (service.c:317-402). *State*: the process's descriptors. A new socket for each request,
one read with a 5 s timeout taken for the whole answer; a failed `connect` returns without closing the
socket. *Hard*: the answer may come in pieces, and descriptors run out. *Correct when*: what was cut off is
not taken for an answer.

**Loss-list parsing** (p16main.c:824-921). A buffer of 5-byte entries walked with an 8-bit offset. *Correct
when*: it yields the cards and the version that were sent.

**Settings** (menu.c:199-842, syspara.c:84-373). *State*: `SYSPARA`, one row per parameter, and `p16pos`, its
copy in memory. *Operations*: the terminal number, the agent (two statements), the address (three), work
mode, password, clearing the journal, factory reset (a DELETE and a row of INSERTs). *Hard*: any of the
statements may fail and the power may go between any two. *Correct when*: the machine starts again, and what
it reported as set stays set. **Start-up and power** (p16main.c, menu.c:56-65) complete and load them.

**Operator login and fee rates** (deposit.c:1241-1310, service.c:906-1226, syspara.c:747-805). *State*:
`DPSFEERATE` and the version of the configuration, stored and in memory. A login that tells another version
empties the table and fills it row by row, then stores the version. *Correct when*: the rates fit the
version, wherever that was cut off.

**RPC** (service.c:405-755). *State*: a context on the caller's stack, which a worker thread writes and the
caller polls, without a lock. *Correct when*: the caller returns, after the worker and with its verdict.

**Deposit** (deposit.c:12-404, 563-887, 924-1083, 1157-1219, 1329-1362). *State*: the row, the booking at the
server, the card. *Operations*: journal, server call, card, confirmation; query after a time-out; recovery
of open rows at the next entry. *Hard*: each call may be lost, late or refused, each statement fail, the
power go. *Correct when*: what the server books is in the journal, what it is told agrees with the journal,
and the recovery ends.

**Allowance** (allowance.c). The same without a journal: the write is tried again and again, with a MAC for
one booking. *Correct when*: a card is credited once, and success is reported only of a credited card.

**M1 purse** (cardop.c:690-1019). Two copies in two blocks with checksums, repaired on read. *Correct when*:
a load cut off between them is all or nothing.

**Helpers**: `sw_string` and the message builders (message.c), digit-wise amount input (utils.c,
deposit.c), APDU transport (cardop.c:123-168), display, printer, keyboard, logging, and third-party code
(cJSON, MD5, SHA-1, HMAC, DES).

`PROJECT.json` lists each with its status, and under `hazards` the places where each can go wrong.

## 2. Modules

| Module | Models | Uses |
|---|---|---|
| `PosStore` | the tables and their statements | |
| `Purchase` | main thread in purchase mode, CPU card, card holder, the two settings that touch the store | `PosStore` |
| `Uploader` | upload thread and the server it talks to | `PosStore` |
| `PurchaseMachine` | both threads over one store, loss of power; the properties | `Purchase`, `Uploader` |
| `WriteAhead` | abstract: a journal whose entries are written before the amount is taken | |
| `MCPurchaseMachine`, `MCUploader` | instances for TLC | |
| `PurchaseMachineProofs` | theorems: the inductive invariant, journal against cards | `PurchaseMachine` |
| `JournalProofs` | theorems: the machine implements `WriteAhead`; journal against server | `PurchaseMachineProofs` |
| `LossListProofs` | theorems: the loss list and the lookup in it | `PurchaseMachineProofs` |
| `AtomicCall` | abstract: a call that is carried out at most once and returns one verdict | |
| `RpcCall` | the polling caller and its worker thread; it implements `AtomicCall` | `AtomicCall` |
| `RpcCallProofs` | theorems: the context, the verdict, the refinement | `RpcCall` |
| `HostLink` | `tcp_send_data`, the frames of the loss list as bytes, their parsers, the store of the list | |
| `HostLinkProofs` | theorems: what the machine takes from an answer cut off anywhere | `HostLink` |
| `BackOffice` | the server of the top-up flows: bookings, late requests, confirmations, queries | |
| `Deposit` | the deposit flow, its recovery, its report and receipts | `BackOffice` |
| `Allowance` | the allowance flow, on CPU cards | `BackOffice` |
| `TopUp` | a machine in either work mode, the card holders, loss of power | `Deposit`, `Allowance` |
| `TopUpProofs` | theorems: the deposit journal and the cards against the server | `TopUp` |
| `AtomicPurse` | abstract: a purse that is loaded all at once | |
| `M1Purse` | the two blocks of an M1 purse and the code that reads and loads it; it implements `AtomicPurse` | `AtomicPurse` |
| `M1PurseProofs` | theorems: the backup, the refinement | `M1Purse` |
| `Syspara` | `SYSPARA`: its parameters, defaults, the load into `p16pos` | |
| `FeeRates` | the operator's login and the download of fee rates | `Syspara` |
| `Settings` | start-up, menu, upload thread's version, login and factory reset over one database | `FeeRates` |
| `SettingsProofs` | theorems: start-up, settings, reset, fee rates | `Settings` |
| `MCHostLink`, `MCTopUp` | instances for TLC | |

`BackOffice` takes a call as one step with an outcome. That is what `AtomicCall` promises of `RpcCall`, and
the proof of `CallIsAtomic` is what the top-up flows rest on.

### State

- `trans` is `TRANSDTL` as a function from keys to rows. The primary key is date, time, card, operator,
  device and sequence number; only date, time and card vary, and two purchases never read the same second
  (each shows its result for 3 seconds), so a key is the reading `clock` of the clock in
  `psam_purchase_mac`. The columns kept are the ones a property looks at; `tac` is the key of the
  purchase whose card answered with it.
- `black` and `dbVersion` are `T_BLACKCARD` and `dev.pos_blacklist_version`.
- `mpc`/`upc` say where the threads are: between two values lies one SQL statement, one card command, one
  exchange with the server, or one decision of the operator.
- `p16card`, `money`, `write_card_ret` are the variables of the same names. When the loop starts over,
  `ForgetPurchase` drops what the code overwrites before it is read again, and keeps `p16card.tac`, which
  it does not.
- `field`, `session`, `balance` are the card on the reader, what it expects next, and each card's purse.
- `copy`, `posVersion`, `recvList`, `recvVersion` are the upload thread's; `hostLog` is the server's list
  of changes and a version is a length of it.
- `debits`, `vetted`, `sent`, `resent` are history variables: nothing in the model reads them, the
  properties do. A report in `sent` has the card, amount, balance and flag that `get_rt_transdtl_data` sends;
  its key is the row's, which is not sent (the date and time in the report are those of sending), and only
  says which purchase the report is about. A report of the zeroed record is of no purchase and not in `sent`.
- `RpcCall`: `cpc` and `wpc` for the two threads, `state` and `retcode` for the context they share, `ticks`
  for the countdown. Each write to the context is a step.
- `HostLink`: the database and memory of the loss list as card numbers and versions, the descriptors in
  use, and answers as sequences of bytes. `hostLog` is the server's list of changes, `versions` how many of
  them each of its versions has. The list travels in frames with a header and a six-byte version, as
  `p16main.c` parses them.
- `BackOffice`: `booking` is what the server knows of a transaction, `flight` the requests whose caller has
  given up and which may still arrive, `verdicts` the confirmations it has seen, `timedOut` the flag
  `last_trans_timeout`.
- `Deposit`: `rows` is `TRANSDTL` with `TRANSFLAG`, `CONFIRM` and the card; `dpc` says where the flow or the
  recovery is. `Allowance`: `loads` is each card's count of loads, `order` the request's copy of it, `armed`
  whether the card has been initialised, `credits` (history) what was credited.
- `M1Purse`: the two blocks, each a balance and a count or `Bad` (a wrong checksum), and the buffer they
  were read into.
- `Settings`: `stored` is `SYSPARA`, `p16pos` what was loaded of it. A value is the number of the entry that
  set it, so that a property can tell two settings apart whatever they say. `promise` (history) is the value
  last reported to the operator as set.

### Steps

Each action is named for the function (`TransAddRecord`, `Init4Purchase`, `PsamPurchaseMac`, ...) and its
comment says which early returns it stands for; `PROJECT.json` has the lines. Some decisions worth
knowing:

- `DebitUnanswered` and `DebitRefused` lead to the same place: the program cannot tell them apart.
  `ProveCard` then reports success for any CPU card, as `cpu_get_purchase_card_prove` does
  (cardop.c:656).
- `CheckBlackcard` lets a card through when the `SELECT` fails as it is stepped (it reads as "no row",
  syspara.c:419); one that cannot be prepared ends the loop.
- `GetLastRecord` hands on a zeroed record when the `SELECT` cannot be prepared (its result is not looked
  at, p16main.c:580-588); marking it changes nothing and its report is that of no row.
- `TransUpdateRecord` and `MarkConfirm` rewrite the whole row from the caller's copy, `CONFIRM` and
  `TRANSFLAG` included.
- `MainBoots` deletes confirmed rows older than 7 days. How long the machine was off is not known, so the
  first key kept is a choice.
- `UploadDies`: a failing statement while a list is saved leaves `check_send_transdtl`, and nobody
  restarts the thread.
- `RpcCall!HttpTimeout` notes the time-out in `last_trans_timeout` before it is in the context; a call whose
  `curl_easy_getinfo` fails leaves that flag as an earlier call set it (`InfoFails`).
- `HostLink!Received`: whatever one `read` returns is parsed; the rest of the buffer is zero.
- A booking that timed out may have been carried out, may be carried out later (`LateArrival`, also after a
  restart), or never.
- `Deposit!AskBooked` marks a booked row WRITE_CARD_FAILED, since nobody knows of the card, and so reverses
  it; `AskFails` marks a row SYS_FAILED on any failure that is not a time-out. Such a row, when it is the
  oldest, makes `CheckDone` return as if nothing were left, and the rows behind it are not recovered.
- `Deposit!WriteCardOk`: the flow sends `debit_4_purchase` to a card initialised for a load. The card
  refuses, the operator is asked for the card again, and any card put back passes. `p16card` is compared,
  the credit does not happen.
- `Allowance!Accept` fills the request's count of loads from `p16card`, which `cpu_read_card` does not set:
  it is the count of the card initialised last, perhaps another customer's. A card whose count differs
  refuses the load, and the next initialisation does not mend the request, so that the order stays open until
  another card is put on the reader.
- `Allowance!GiveUp`: after a load whose answer was lost, another card on the reader ends the flow with a
  report of failure, although the first card was credited.
- `Allowance!IsCancel`: `value_len` starts uninitialised (allowance.c:414), so the keys typed may or may not
  pass for the password.
- `M1Purse!DebitBegins` compares the balance in `p16card` with the buffer it was read into, not with the
  card (cardop.c:943): what was spent elsewhere between two tries is overwritten. `AtomicPurse` admits it.
- `Settings!ResetDone` shows "恢复出厂设置成功" exactly when `syspara_reset` failed (menu.c:834 has the test
  the wrong way round); `StoreNet` ignores three results and reports success.
- `Syspara!UpdateConfig` is an UPDATE: without the row it succeeds and stores nothing.
- `FeeRates!AddFeerateFails`: a rate whose INSERT fails is skipped, and the version is stored all the same.

## 3. What the runs check

| Run | Instance | Question |
|---|---|---|
| `PurchaseMachine` | 2 cards, 2 purchases, amount 1, balances to 2, failing writes | Journal against cards and against server: `PurchaseInv` (types, the inductive invariant, `DebitsDescribed`), `TacProvesDebit`, `NeverResent`, `ReportedResultStands`, `ReportsDescribeDebits` |
| `Roaming` | 2 cards that are also used elsewhere, amounts 1 and 2 (3 is refused) | A balance that changes between two steps: `DebitsDescribed`, `JournalBeforeDebit`, `OneDebitPerRow`; the machine implements `WriteAhead` (`ImplementsWriteAhead`) |
| `LossList` | 2 cards, 1 purchase, 1 change of the list, failing reads and writes | `TypeOK`, `TableCoversVersion`, `DebitsAreVetted` |
| `Uploader` | the thread alone, every journal of at most 2 rows, 2 changes, failing writes | with fairness: `EveryRowMarked`, `LossListArrives`, and `TableCoversVersion` across two changes |
| `RpcCall` | 2 ticks, one call after another | `RpcInv`, `ReturnsVerdict`; refinement `ImplementsAtomicCall`; with fairness `CallReturns` |
| `HostLink` | lists of 2 cards (2 and 258, which share their low byte), 2 versions, 2 descriptors, answers cut at every byte | `LostCardsKnown`, `VersionNotAhead`; with fairness `ListArrives` |
| `TopUp` | 2 cards, 2 transactions, failing reads and writes | deposit: `BookedHasRow`, `VerdictsMatchRows`, `ReportsWereBooked`, `UnjudgedStaysOpen`, with fairness `CheckEnds`; allowance: `CreditOnce`, `KeptMeansCredited` |
| `M1Purse` | balances modulo 4, counts modulo 3, amounts 1 and 2 | `PurseInv`; refinement `ImplementsAtomicPurse` |
| `Settings` | 2 entries, 2 fee types, 2 versions | `StartsAgain`, `AcceptedStays`, `NothingOlderThanReset`, `RatesFitVersion` |
| `WriteOk` | 1 purchase | violated: `WriteOkMeansDebited` |
| `StaleCopy` | 1 purchase | violated: `ResultNotForgotten` |
| `LongList` | a list of 50 cards | violated: `VersionNotAhead` |

Deadlock is checked in all of them: a machine can always lose or regain power, the thread alone always
has a next step, and a caller who has returned calls again.

**Bounds.** Two cards are enough for a swap, and symmetry makes them interchangeable. Two purchases are
what a stale TAC, a row of an earlier purchase still being uploaded, and a reordering of two uploads
need. One amount suffices where only its presence matters; `Roaming` has two so that a balance may cover
one and not the other. `MaxStamp` bounds the purchases that reach the clock, `MaxBalance` the purses,
`MaxVersion` the changes of the list. Nothing else is bounded: cards come and go, power fails and
returns, and exchanges fail without limit. `Barred` is empty in the runs, since a barred card is turned
away before anything happens to it; the proofs allow any set. The theorems of section 5 remove the
bounds for what they state.

In `RpcCall` two ticks let the countdown end before, between and after the worker's two writes; calls go on
for ever, so that a flag left by one is seen by the next. In `HostLink` two cards whose numbers share a byte
are what a cut inside an entry can confuse, and `ShortReads` is every length of the answer; two descriptors
are enough to run out of them. `MaxEntries` bounds all changes of the server's list together, since a
machine that has no version yet asks for the whole list and one answer must hold it. In `TopUp` two
transactions let one be recovered while a request of the other is still under way, and two cards let one be
taken for the other; late requests, losses of power and repeated queries are not bounded. In `M1Purse` the
widths are chosen so that balance and count both wrap. In `Settings` two entries are an older and a newer
value; statements fail and power goes without limit. `LongList` needs the 50 entries, the first number whose
last byte lies past 255.

**Fairness.** `Uploader` (`ThreadFairness`): the thread waits for nothing but the clock and a socket with a
5-second receive timeout, so as long as it lives it takes its next step: weak fairness. That a heartbeat and
a download which are tried again and again are answered again and again is an assumption on the network and
the server, stated as strong fairness of `SendHeart` and `SendDownload`; it includes that the machine has
not run out of sockets, which service.c:342-346 does not guarantee (that is what `HostLink` looks at). In
the same way `MarkConfirm` is not to fail for ever. The liveness properties speak of runs in which the power
finally stays on and the thread stays alive: a failing statement in the middle of a list ends it until the
next start. Nothing is assumed of operators or card holders.

`RpcCall`: weak fairness of the caller's own steps and of the worker's; `CURLOPT_TIMEOUT` ends the request,
so the server need not answer. `HostLink`: weak fairness of the thread's steps, and whole answers again and
again if tried again and again (strong); `ListArrives` holds under the premise `SocketsSuffice`, that power
and thread stay and fewer connects are refused than there are descriptors. `TopUp`: weak fairness of the
recovery's steps, which wait for nobody but the server, and strong fairness of an answer to a query and of
one to a confirmation that is tried again and again. Nothing is assumed of the operator or the cards.

**The three violations.**

- `WriteOk`: the debit is refused or the card is gone before it; the holder puts the card back;
  `get_purchase_card_prove` says 0 for every CPU card, and the row becomes `TRANS_WRITE_CARD_OK` although
  nothing was taken. The comment at cardop.c:1244 says what 0 is to mean.
- `StaleCopy`: the upload thread reads the row while it says INIT; the main thread finishes and updates
  it; the upload thread's UPDATE writes INIT back, with `CONFIRM = 1`. The result is lost and the row is
  never uploaded again. The comment at syspara.c:233 says what `TRANSFLAG` 0 is to mean.
- `LongList`: with 50 entries the offset of `parse_recv_blacklist` (p16main.c:894) wraps. The last card's
  flag and the list's version are read from the front of the frame; the machine stores the "version"
  <<218, 3, 1, 0, 0, 50>>, later than any the server has, and asks for no list again. config.h:30 allows 100
  entries.

The first two do not contradict the properties that hold: `DebitsDescribed` speaks of card, amount and
balance, and `ReportedResultStands` of results the server has received.

## 4. Assumptions of the models

- One SQL statement is atomic and durable (SQLite's own journal; one connection, serialized mode).
- The clock does not go back. `sys_cfg_set_time` (menu.c:471-523) can set it back, and with it repeat a key.
- In the purchase models cards are CPU cards: `read_user_purchase_card` refuses M1 cards, so an M1 card never
  gets past waiting. `Allowance` is about CPU cards, `M1Purse` about M1 cards.
- The server answers what it is asked, when it answers. It carries an allowance out once, and its versions
  only grow. A new machine's version of the fee rates is not the server's first.
- In `Uploader` a list arrives whole or not at all, and has at most 49 entries, what the 8-bit offset can
  walk; `HostLink` takes both back.
- `TopUp` runs without the upload thread. `main` always starts it, and it would mark deposit rows as
  confirmed, after which the recovery does not see them: the flows and the thread are not written for each
  other, another sign that they are not both live.
- MACs and checksums are not forged by chance: a MAC fits one card, count and initialisation; a torn block
  fails its checksum (the block of zeros, which passes it, is never written).
- A card executes a debit as a whole or not at all.

## 5. What is proved

For any set of cards, any amounts, and any values of the bounds, from the assumptions named in `PosStore`,
`Purchase`, `Uploader` and `BackOffice` (a card is not `NoCard`, amounts are natural numbers, roaming and
barred cards are cards), `RpcCall`, `M1Purse` and `Settings` (time-outs and bounds are natural numbers,
widths are not 0) and `HostLink` (card numbers have four bytes, at most 255 versions and 100 entries). The
theorems of `HostLinkProofs` have one hypothesis more, at most 49 changes in the server's list; run
`LongList` shows that with 50 they do not hold.

| Theorem | Module | What holds |
|---|---|---|
| `PurchaseInvariant` | `PurchaseMachineProofs` | `PurchaseInv` in every reachable state |
| `TypeCorrect`, `RowsDescribeDebits`, `TacIsProof` | same | `TypeOK`, `DebitsDescribed`, `TacProvesDebit` |
| `RowBeforeDebit`, `DebitOnce` | same | `JournalBeforeDebit`, `OneDebitPerRow` |
| `MachineRefinesWriteAhead` | `JournalProofs` | `ImplementsWriteAhead` |
| `ReportsInvariant`, `AtMostOnce`, `ReportedStands` | same | `NeverResent`, `ReportedResultStands` |
| `BooksAgree` | same | `ReportsDescribeDebits` |
| `VersionCovered`, `OnlyVettedDebits` | `LossListProofs` | `TableCoversVersion`, `DebitsAreVetted` |
| `ContextInvariant`, `VerdictReturned`, `CallIsAtomic` | `RpcCallProofs` | `RpcInv`, `ReturnsVerdict`, `ImplementsAtomicCall` |
| `BackupHolds`, `BlocksMakeAPurse` | `M1PurseProofs` | `PurseInv`, `ImplementsAtomicPurse` |
| `AlwaysStarts`, `SettingsKept`, `ResetComplete` | `SettingsProofs` | `StartsAgain`, `AcceptedStays`, `NothingOlderThanReset` |
| `RatesAreCurrent` | same | `RatesFitVersion` |
| `BookedInJournal`, `VerdictsInJournal`, `ReportsBooked` | `TopUpProofs` | `BookedHasRow`, `VerdictsMatchRows`, `ReportsWereBooked` |
| `UnjudgedIsOpen` | same | `UnjudgedStaysOpen` |
| `CreditedOnce`, `KeptIsCredited` | same | `CreditOnce`, `KeptMeansCredited` |
| `HostInvariant` | `HostLinkProofs` | `HostInv` in every reachable state, if `MaxEntries <= 49` |
| `VersionsReached`, `LostAreKnown` | same | `VersionNotAhead`, `LostCardsKnown`, if `MaxEntries <= 49` |

**Journal against cards.** That a row describes its debit cannot be shown by itself: one must know that the
armed card is the one in the context with the balance of the context (`CardInHand`), that the key is new
when the row is inserted (`KeyUnused`, from `KeysPast`), that the row in the journal is the one in hand
until the update (`RowInHand`), and that whatever copy the upload thread will write back agrees with the
row on card, amount and balance (`CopyDescribes`). The last one is why the stale copy does no worse than
it does. `PurchaseInv` is the conjunction, and each group of steps keeps it by a lemma of its own. The
three statements on `TRANSDTL` are lemmas on functions.

**Refinement.** The abstract journal is the set of entries (key, card, amount, balance before) of the rows.
Only three steps of the machine touch it: the insert records an entry, the debit takes one that is there
and was not taken, and deleting rows forgets entries. An update keeps the entries, because `RowInHand` and
`CopyDescribes` make the new row agree with the old one in the four columns. Balances and keys have to
stay within their bounds, a small invariant of its own (`Bounded`).

**Journal against server.** `ReportsInv` says where a result can be: in hand and not yet written
(`ResultToCome`), in a row not yet marked and never reported (`UnsentRows`), or in the upload thread's copy
and not yet sent (`CopyUnsent`), which agrees with the row unless the row has been updated since
(`CopyStands`). The mark before the exchange is what makes a report unique; that a purchase writes its
result once is what makes it final. `BooksInv` says what a report tells of the card, and a report may be out
before the debit, or after its row is gone: a report and its row, while there is one, agree
(`ReportsFitRows`), so a debit that follows the report is the one it described; and the copy to be sent
agrees with a debit that came after it was read (`CopyFitsDebits`), whether the operator has emptied the
journal or not.

**Loss list.** `ListInv`: the table covers a version when each card's flag is the one after some change not
before it. It covers the version in memory, and with every card saved one change more; the version is
stored when the list is empty. A loss of power falls back to the stored version, a factory reset to 0, and
both are covered because an older version claims less (`CoverWeakens`). The flag of a card is given by the
last change about it, so the proof needs that a non-empty set of indices has a last one (`LastIndex`, by
the well-founded order of the natural numbers).

**Call.** The invariant says what the context holds for each pair of places: the worker's verdict once its
result code is written, zeros before, and a worker that is through or never started when the caller has
returned. The join is why the poll's order of reads does not matter: the caller leaves its loop on a state
that is written before the code, but reads the code only after the worker has gone. The refinement maps the
call to one abstract step at the worker's note of the time-out, and the return to the caller's.

**M1 purse.** While the first block is written, the second holds what was read, which the buffer still holds
(`PurseInv`): a torn first block is read back from the second, and a torn second is not read while the first
is good. The abstract purse is the first block if it is good, else the second. It is lost only when both are
bad, which takes an interruption of a load that itself started from one good copy.

**Settings.** Three invariants of their own. `StartInv`: at start-up every parameter up to the one reached has
a row, and all of them when they are loaded, whatever gaps an earlier start or reset has left.
`AcceptedInv`: a promised value is in the row and in memory or will be loaded, and only a reset takes it
back. `ResetInv`: while the inserts of a reset go on, a parameter has no value or its default, or one
entered after it. **Fee rates** (`RatesInv`): while a login downloads, the version in memory is below the one
told, and the one stored no later than the one in memory, so that a download that was cut off is repeated;
rates only ever grow newer.

**Top-ups.** `TopUpInv` has a part for each flow, and both rest on one statement of what a request can do to
the server, at once or after the caller has given it up (`Effect`): its transaction moves on by one status
and a confirmation is taken down. *Deposit*: that every booking has a row is not inductive, for a late
request books long after the call; so `JournalInv` says that every request under way is about a row, and that
a confirmation under way agrees with it. The row stays INIT until its result is written, therefore nothing of
it was confirmed before (`RowInHand`), and from then on its flag and the one in hand are one; `FlagFits` says
for each flag where the server may be, which is what the report counts, and that a row without a result is
unconfirmed with its booking neither kept nor reversed (`UnjudgedStaysOpen`): no confirmation about it is
under way, for each is sent after the UPDATE of its result. *Allowance*: a transaction is booked
for the card its requests name (`Proper`). One credit follows from the card's count of loads: once the order
in hand is credited, the card's count has passed the one in the order (`OrderFits`), and a second write of
the same order is refused by the card.

**Loss list on the wire.** A read may return any prefix of a frame, zeros after it. `AnswerRead` says what is
at each offset of the buffer then, and `ParsedList` what the parser makes of it: each entry is the server's
or says "lost" (a flag that was not read is 0), and a version that is whole comes behind a list that is. Up
to 49 entries the 8-bit offset is the true one. A version cut off after one or two bytes is none of the
server's; it is earlier than all of them (`CutIsEarly`), so the machine that stores it asks for the whole list
again. `HostInv` keeps a position in the server's list: every card that is lost from there on is in the
table (`CoverFrom`). The stored version has such a position (`Upto`); a whole answer in hand has one of its
own, which advances with each entry saved (`SaveAdvances`) and is the version's when the list is empty; a
cut-off answer moves neither, because what it saves is "lost" or the server's (`SaveCovers`), and its version
falls back to the start of the list.

**Only model-checked**: the liveness properties `EveryRowMarked`, `LossListArrives`, `ListArrives`,
`CallReturns` and `CheckEnds` (temporal properties under fairness are out of the prover's reach), and the
three violations.

## 6. Not modelled, and the plan

What the models admit and no property catches, since no statement of the code contradicts it: an earlier
purchase's TAC in the row of one whose debit was not answered (`TransUpdateRecord`); a card listed as lost
between its lookup and the debit, and a card let through by a lookup that failed (`CheckBlackcard`); a
zeroed record sent as a report (`GetLastRecord`); an allowance credited but reported as failed (`GiveUp`),
or asked for with an earlier card's count of loads (`Accept`); a booked deposit marked SYS_FAILED after a
failed query, and counted as failed in the day's report (`AskFails`; `UnjudgedStaysOpen` shows that its row
and its booking stay open); a report that counts reversed rows as successes (syspara.c:627-634); rows behind
a SYS_FAILED one that nobody recovers (`CheckDone`; they stay open too); a card number nobody listed that is
barred by a list cut inside an entry; a purse lost by two interruptions, or overwritten by an old balance;
an agent whose name and port do not belong together after the second UPDATE failed; a setting made after a
reset that failed half-way, reported as a success and gone at the next start; values in memory that outlive
a factory reset until the next start; `feeflag`, which service.c:1212 always stores as 0 and
`do_calc_dpsamt` does not look at, although the comment at syspara.c:273 gives it a meaning.

Next, in this order:

1. The clock set back, composed with `Purchase`, to see which keys collide.
2. The upload thread next to the deposit flow.
3. Pure operators: `sw_string`, the message builder, the amount typed digit by digit, the APDU loop.

Left out for good: display, printer, status bar, logging (output only); the DNS server, set by an
external command; `get_card_prove` with its M1 and CPU parts, the batch upload and `tcp_demo_send`, which
nothing calls; third-party JSON and cryptography; vendor headers. The headers and third-party sources are
about half of the lines under `src/` (`sqlite3.h` and `curl.h` alone are a third), and nothing in them is
the machine's own behaviour.
