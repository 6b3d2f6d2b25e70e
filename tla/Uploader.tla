------------------------------ MODULE Uploader ------------------------------
(***************************************************************************)
(* The upload thread, check_send_transdtl of p16main.c: it sends the       *)
(* journal one row at a time and, when no row is left, asks the server     *)
(* with a heartbeat whether a newer loss list exists and downloads it.     *)
(*                                                                         *)
(* A step is one SQL statement or one exchange with the server             *)
(* (tcp_send_data).  An exchange may fail before or after the server       *)
(* received the request; the thread looks at no result of an upload, so    *)
(* only whether the request arrived is told apart there.                   *)
(***************************************************************************)
EXTENDS PosStore, Sequences

CONSTANT MaxVersion \* bound: how often the server's loss list changes

ASSUME MaxVersionAssumption == MaxVersion \in Nat

VARIABLES
  upc,         \* where the upload thread is
  copy,        \* its copy of the row it is uploading
  posVersion,  \* p16pos.pos_blacklist_version
  recvList,    \* what is still to be saved of a downloaded list
  recvVersion, \* the version that list brings
  hostLog,     \* the server: the changes of its loss list, oldest first
  sent,        \* history: the reports of rows that the server received
  resent       \* history: those it received more than once

netVars == <<hostLog, sent, resent>>
listVars == <<posVersion, recvList, recvVersion>>
uploadVars == <<upc, copy, listVars, netVars>>

-----------------------------------------------------------------------------
UploadPcs == {"fetch", "mark", "send", "heart", "download", "save", "version",
              "dead", "off"}

\* transdtl after its memset.
ZeroRow == [cardno |-> NoCard, cardbefbal |-> 0, amount |-> 0,
            transflag |-> "INIT", confirm |-> 0, tac |-> NoStamp]
ZeroCopy == [key |-> NoStamp, row |-> ZeroRow]

\* A report tells the server card, amount, balance and flag byte of a row: 0x81
\* for a written card, 0x83 for a failed one, 0 when the row still says INIT.
\* The key is not sent (the date and time in a report are those of sending it);
\* it is there for the properties to know the row by.
Reports == [key : Stamps, flag : TransFlags, cardno : Cards, amount : Amounts, cardbefbal : Nat]

\* The report made from the copy; a zeroed record is none of a row.
Report ==
  IF copy = ZeroCopy THEN {}
  ELSE {[key |-> copy.key, flag |-> copy.row.transflag, cardno |-> copy.row.cardno,
         amount |-> copy.row.amount, cardbefbal |-> copy.row.cardbefbal]}

\* The server receives the report, and may have been told of that state of the
\* row before.
Received ==
  /\ sent' = sent \cup Report
  /\ resent' = resent \cup {r \in Report : \E s \in sent : s.key = r.key /\ s.flag = r.flag}

ListEntries == [card : Cards, flag : CardFlags]

Step(from, to) == upc = from /\ upc' = to

-----------------------------------------------------------------------------
(* send_rt_transdtl_data.                                                  *)

\* get_rt_transdtl_data, its SELECT.  "No row" ends the upload; so does a
\* statement that fails when it is stepped, but one that cannot be prepared
\* (-1) is not looked at, and the zeroed record goes on as if it were a row.
GetLastRecord ==
  /\ upc = "fetch"
  /\ \/ \E k \in DOMAIN trans :
          /\ LastRecord(k)
          /\ copy' = [key |-> k, row |-> trans[k]]
          /\ upc' = "mark"
     \/ /\ Unconfirmed = {} \/ Fails("read")
        /\ upc' = "heart"
        /\ UNCHANGED copy
     \/ /\ Fails("read")
        /\ upc' = "mark"
        /\ copy' = ZeroCopy
  /\ UNCHANGED <<listVars, netVars, storeVars>>

\* Mutant: CONFIRM is not set.
MarkNothing ==
  /\ Step("mark", "send")
  /\ UpdateRow(copy.key, copy.row)
  /\ UNCHANGED <<copy, listVars, netVars, black, dbVersion>>

\* get_rt_transdtl_data, its UPDATE: the row is marked before it is sent, and
\* every column is written back from the copy.
MarkConfirm ==
  /\ Step("mark", "send")
  /\ UpdateRow(copy.key, [copy.row EXCEPT !.confirm = 1])
  /\ UNCHANGED <<copy, listVars, netVars, black, dbVersion>>

MarkFails ==
  /\ Fails("write")
  /\ Step("mark", "heart")
  /\ copy' = ZeroCopy
  /\ UNCHANGED <<listVars, netVars, storeVars>>

\* Mutant: an exchange whose answer was lost is tried again.
SendUntilAnswered ==
  /\ upc = "send"
  /\ Received
  /\ \/ upc' = "fetch" /\ copy' = ZeroCopy
     \/ UNCHANGED <<upc, copy>>
  /\ UNCHANGED <<hostLog, listVars, storeVars>>

\* The exchange: whatever comes of it, the thread sleeps and goes on.
SendRt ==
  /\ Step("send", "fetch")
  /\ Received
  /\ copy' = ZeroCopy
  /\ UNCHANGED <<hostLog, listVars, storeVars>>

SendRtLost ==
  /\ Step("send", "fetch")
  /\ copy' = ZeroCopy
  /\ UNCHANGED <<netVars, listVars, storeVars>>

-----------------------------------------------------------------------------
(* The loss list.                                                          *)

\* The heartbeat is answered with the server's version.
SendHeart ==
  /\ Step("heart", IF Len(hostLog) > posVersion THEN "download" ELSE "fetch")
  /\ UNCHANGED <<copy, listVars, netVars, storeVars>>

\* An exchange without an answer: wait, and start over.
NoAnswer ==
  /\ upc \in {"heart", "download"}
  /\ upc' = "fetch"
  /\ UNCHANGED <<copy, listVars, netVars, storeVars>>

\* Mutant: the version is stored before the list.
DownloadStoresVersion ==
  /\ Step("download", IF Len(hostLog) > posVersion THEN "save" ELSE "fetch")
  /\ recvList' = SubSeq(hostLog, posVersion + 1, Len(hostLog))
  /\ recvVersion' = Len(hostLog)
  /\ dbVersion' = Len(hostLog)
  /\ UNCHANGED <<copy, posVersion, netVars, trans, black>>

\* The server answers with the changes after the version it is told.
SendDownload ==
  /\ Step("download", IF Len(hostLog) > posVersion THEN "save" ELSE "fetch")
  /\ recvList' = SubSeq(hostLog, posVersion + 1, Len(hostLog))
  /\ recvVersion' = Len(hostLog)
  /\ UNCHANGED <<copy, posVersion, netVars, storeVars>>

\* Mutant: a card that already has a row keeps its flag.
SaveOnlyNew ==
  /\ upc = "save"
  /\ black' = [black EXCEPT ![Head(recvList).card] =
                 IF @ = "none" THEN Head(recvList).flag ELSE @]
  /\ recvList' = Tail(recvList)
  /\ upc' = IF Len(recvList) = 1 THEN "version" ELSE "save"
  /\ UNCHANGED <<copy, posVersion, recvVersion, netVars, trans, dbVersion>>

\* save_blackcard_record, one card: INSERT or UPDATE.
SaveBlackcard ==
  /\ upc = "save"
  /\ black' = [black EXCEPT ![Head(recvList).card] = Head(recvList).flag]
  /\ recvList' = Tail(recvList)
  /\ upc' = IF Len(recvList) = 1 THEN "version" ELSE "save"
  /\ UNCHANGED <<copy, posVersion, recvVersion, netVars, trans, dbVersion>>

\* update_config, then the version in memory.
UpdateVersion ==
  /\ Step("version", "fetch")
  /\ dbVersion' = recvVersion
  /\ posVersion' = recvVersion
  /\ recvVersion' = 0
  /\ UNCHANGED <<copy, recvList, netVars, trans, black>>

\* A statement of either fails: the thread ends for good (a failed lookup
\* reads as "no row", and the INSERT that follows is refused).
UploadDies ==
  /\ Fails("write") \/ (Fails("read") /\ upc = "save")
  /\ upc \in {"save", "version"}
  /\ upc' = "dead"
  /\ UNCHANGED <<copy, listVars, netVars, storeVars>>

\* The server's operators change the flag of a card.
HostChanges(c, f) ==
  /\ Len(hostLog) < MaxVersion
  /\ hostLog' = Append(hostLog, [card |-> c, flag |-> f])
  /\ UNCHANGED <<upc, copy, listVars, sent, resent, storeVars>>

-----------------------------------------------------------------------------
UploadLosesPower ==
  /\ upc # "off"
  /\ upc' = "off"
  /\ copy' = ZeroCopy
  /\ posVersion' = 0
  /\ recvList' = <<>>
  /\ recvVersion' = 0
  /\ UNCHANGED netVars

\* do_load_config, then open_send_transdtl_thread.
UploadBoots ==
  /\ Step("off", "fetch")
  /\ posVersion' = dbVersion
  /\ UNCHANGED <<copy, recvList, recvVersion, netVars>>

UploadInit ==
  /\ upc = "fetch"
  /\ copy = ZeroCopy
  /\ posVersion = 0
  /\ recvList = <<>>
  /\ recvVersion = 0
  /\ hostLog = <<>>
  /\ sent = {}
  /\ resent = {}

ThreadStep ==
  \/ GetLastRecord \/ MarkConfirm \/ MarkFails \/ SendRt \/ SendRtLost
  \/ SendHeart \/ NoAnswer \/ SendDownload
  \/ SaveBlackcard \/ UpdateVersion \/ UploadDies

HostStep == \E c \in Cards, f \in CardFlags : HostChanges(c, f)

UploadTypeOK ==
  /\ upc \in UploadPcs
  /\ copy \in [key : Stamps \ {NoStamp}, row : Rows] \cup {ZeroCopy}
  /\ posVersion \in Nat
  /\ recvList \in Seq(ListEntries)
  /\ recvVersion \in Nat
  /\ hostLog \in Seq(ListEntries)
  /\ sent \subseteq Reports
  /\ resent \subseteq Reports

-----------------------------------------------------------------------------
(* The thread by itself: a journal of rows that earlier purchases left (the *)
(* operator makes none), the server, and the power supply.                  *)

UploaderInit(journals) ==
  /\ trans \in journals
  /\ black = [c \in Cards |-> "none"]
  /\ dbVersion = 0
  /\ UploadInit

UploaderNext ==
  \/ ThreadStep
  \/ HostStep
  \/ (UploadLosesPower \/ UploadBoots) /\ UNCHANGED storeVars

uploaderVars == <<uploadVars, storeVars>>

\* The thread never waits for anything but the clock and a socket with a 5 s
\* timeout, so it goes on as long as it is alive; and an exchange with the
\* server, or an UPDATE, that is tried again and again succeeds again and again.
ThreadFairness ==
  /\ WF_uploaderVars(ThreadStep)
  /\ SF_uploaderVars(MarkConfirm)
  /\ SF_uploaderVars(SendHeart)
  /\ SF_uploaderVars(SendDownload)

\* In the end the power stays on, and the thread survives.
StaysUp == <>[](upc \notin {"off", "dead"})

\* The flag of card c after the first n changes of the server's list.
FlagAt(c, n) ==
  LET changes == {i \in 1..n : hostLog[i].card = c}
  IN  IF changes = {} THEN "none"
      ELSE hostLog[CHOOSE i \in changes : \A j \in changes : j <= i].flag

\* The table is never behind the version the machine will ask from after a
\* restart: a change that the version counts is in the table, or overtaken by a
\* later one that is (p16main.c:1048-1066).  Otherwise the server would not
\* send it again and a lost card would stay good.
TableCoversVersion ==
  \A c \in Cards :
    \E n \in dbVersion..Len(hostLog) : black[c] = FlagAt(c, n)

\* Once the server's list stops changing, the table comes to hold it and stays
\* that way, through lost answers, failing statements, and a restart in the middle of
\* a download (p16main.c:1034-1066).
LossListArrives ==
  StaysUp =>
    <>[](\A c \in Cards : black[c] = FlagAt(c, Len(hostLog)))
=============================================================================
