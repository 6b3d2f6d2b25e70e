------------------------------ MODULE HostLink ------------------------------
(***************************************************************************)
(* The loss list on the wire: the exchange with the server (tcp_send_data  *)
(* of service.c), the frames that carry a heartbeat's answer and a list,   *)
(* and the parser of p16main.c that walks them with an 8-bit offset.       *)
(* Uploader takes an answer as a list and a version; here it is bytes, one *)
(* read may return a part of it, and a failed connect costs a socket.      *)
(***************************************************************************)
EXTENDS Integers, Sequences, FiniteSetsExt

CONSTANTS
  Batches,    \* what one version of the server's list may change: sequences
              \* of entries [card |-> number, flag |-> 0 (lost) or 1]
  MaxVersion, \* bound: how often the server's list changes
  MaxEntries, \* bound: entries in the server's list of changes, all of which one
              \* answer may hold: a machine without a version asks for the whole
  MaxSockets, \* descriptors the process may have open
  ShortReads  \* how many bytes a read may return that does not return all

\* What a byte counts for, by its place in a number.
Weight == <<1, 256, 65536, 16777216>>

ASSUME HostLinkAssumption ==
  /\ MaxVersion \in 0..255
  /\ MaxEntries \in 0..100 \* MAX_RECV_BLACKLIST_CNT
  /\ MaxSockets \in Nat \ {0}
  /\ ShortReads \subseteq Nat
  /\ Batches \subseteq Seq([card : Nat, flag : {0, 1}])
  /\ \A batch \in Batches : \A j \in DOMAIN batch :
       batch[j].card \div Weight[4] < 256 \* four bytes

VARIABLES
  hpc,        \* the upload thread, as far as the list goes
  open,       \* its open descriptors
  posVersion, \* p16pos.pos_blacklist_version
  recv,       \* the parsed answer, less the entries already saved
  table,      \* T_BLACKCARD: card number to flag
  dbVersion,  \* dev.pos_blacklist_version
  hostLog,    \* the server: the changes of its list, in order
  versions,   \* the server: how many of them each of its versions has
  refused     \* history: connects that failed since the start

server == <<hostLog, versions>>
vars == <<hpc, open, posVersion, recv, table, dbVersion, hostLog, versions, refused>>

-----------------------------------------------------------------------------
(* Versions are six bytes, compared with memcmp.                           *)

Zeros == [i \in 1..6 |-> 0]

Version(n) == IF n = 0 THEN Zeros ELSE <<20, 4, n, 0, 0, 0>>

Earlier(v, w) ==
  \E i \in 1..6 : v[i] < w[i] /\ \A j \in 1..(i - 1) : v[j] = w[j]

\* The last of the server's versions that v is not earlier than.
Covered(v) ==
  Max({0} \cup {n \in 1..Len(versions) : ~Earlier(v, Version(n))})

-----------------------------------------------------------------------------
(* Frames.                                                                 *)

Bytes(n, width) == [i \in 1..width |-> (n \div Weight[i]) % 256]
Number(bytes) ==
  bytes[1] + Weight[2] * bytes[2] + Weight[3] * bytes[3] + Weight[4] * bytes[4]

\* "SLV", command, length, machine address.
Header(command, length) ==
  <<83, 76, 86, command>> \o Bytes(length, 2) \o <<0, 0>>

\* Result, version, the server's time and the number of its configuration.
HeartAnswer ==
  Header(213, 19) \o <<0>> \o Version(Len(versions))
    \o <<14, 4, 3, 11, 25, 25>> \o <<59, 0, 0, 0>> \o <<124>>

\* How many changes version n has, and those that came after it.
End(n) == IF n = 0 THEN 0 ELSE versions[n]
Changes(n) == SubSeq(hostLog, End(n) + 1, Len(hostLog))

\* Five bytes an entry.
Entries(list) ==
  [j \in 1..(5 * Len(list)) |->
     LET e == list[1 + ((j - 1) \div 5)]
         k == 1 + ((j - 1) % 5)
     IN  IF k = 5 THEN e.flag ELSE Bytes(e.card, 4)[k]]

\* The changes after the version asked from.
ListAnswer(v) ==
  LET list == Changes(Covered(v))
  IN  Header(218, 9 + 5 * Len(list)) \o <<Len(list)>> \o Entries(list)
        \o Version(Len(versions)) \o <<0>>

\* Mutant: what the read does not fill still is the heartbeat's answer.
ReceivedOver(bytes) ==
  bytes \o SubSeq(HeartAnswer, Len(bytes) + 1, Len(HeartAnswer))

\* The bytes in recv_buf: it was cleared before the read (memset).
Received(bytes) == bytes

At(buf, i) == IF i < Len(buf) THEN buf[i + 1] ELSE 0
Field(buf, from, length) == [i \in 1..length |-> At(buf, from + i - 1)]

\* One read: the whole frame, or the first n bytes of it.
Reads(frame) ==
  {Received(SubSeq(frame, 1, n)) : n \in {Len(frame)} \cup (ShortReads \cap 1..Len(frame))}

\* parse_recv_heart, as far as it is used.
HeartVersion(buf) == Field(buf, 9, 6)

\* parse_recv_blacklist: the offset is a uint8.
ParseList(buf) ==
  LET Offset(i) == (9 + 5 * (i - 1)) % 256
  IN  [list |-> [i \in 1..At(buf, 8) |->
                   [card |-> Number(Field(buf, Offset(i), 4)),
                    flag |-> At(buf, (Offset(i) + 4) % 256)]],
       version |-> Field(buf, Offset(At(buf, 8) + 1), 6)]

NoList == [list |-> <<>>, version |-> Zeros]

-----------------------------------------------------------------------------
(* tcp_send_data: a socket, a connect, a write whose result is ignored, one *)
(* read of at most 1024 bytes.                                             *)

Descriptor == open < MaxSockets

\* The exchange for a row of the journal (send_rt_transdtl_data), a heartbeat
\* or a list: its connect fails, and the descriptor is not closed.
ConnectFails ==
  /\ hpc \in {"heart", "download"} /\ Descriptor
  /\ open' = open + 1
  /\ refused' = refused + 1
  /\ hpc' = "heart"
  /\ UNCHANGED <<posVersion, recv, table, dbVersion, server>>

\* Mutant: the descriptor is not closed here either.
ReadFailsOpen ==
  /\ hpc \in {"heart", "download"} /\ Descriptor
  /\ open' = open + 1
  /\ hpc' = "heart"
  /\ UNCHANGED <<posVersion, recv, table, dbVersion, server, refused>>

\* read returns -1, after 5 seconds or at once.
ReadFails ==
  /\ hpc \in {"heart", "download"} /\ Descriptor
  /\ hpc' = "heart"
  /\ UNCHANGED <<open, posVersion, recv, table, dbVersion, server, refused>>

NoSocket ==
  /\ hpc \in {"heart", "download"} /\ ~Descriptor
  /\ hpc' = "heart"
  /\ UNCHANGED <<open, posVersion, recv, table, dbVersion, server, refused>>

-----------------------------------------------------------------------------
(* check_send_transdtl, from the heartbeat on.                             *)

HeartAnswered(reads) ==
  /\ hpc = "heart" /\ Descriptor
  /\ \E buf \in reads : Earlier(posVersion, HeartVersion(buf))
  /\ hpc' = "download"
  /\ UNCHANGED <<open, posVersion, recv, table, dbVersion, server, refused>>

\* Mutant: the version is the one the heartbeat told.
AnsweredForHeart(reads) ==
  /\ hpc = "download" /\ Descriptor
  /\ \E parsed \in {ParseList(buf) : buf \in reads} :
       IF parsed.list = <<>>
       THEN hpc' = "heart" /\ UNCHANGED recv
       ELSE hpc' = "save" /\ recv' = [parsed EXCEPT !.version = Version(Len(versions))]
  /\ UNCHANGED <<open, posVersion, table, dbVersion, server, refused>>

DownloadAnswered(reads) ==
  /\ hpc = "download" /\ Descriptor
  /\ \E parsed \in {ParseList(buf) : buf \in reads} :
       IF parsed.list = <<>>
       THEN hpc' = "heart" /\ UNCHANGED recv
       ELSE hpc' = "save" /\ recv' = parsed
  /\ UNCHANGED <<open, posVersion, table, dbVersion, server, refused>>

\* save_blackcard_record, one card: INSERT or UPDATE.
SaveBlackcard ==
  /\ hpc = "save" /\ recv.list # <<>>
  /\ LET entry == Head(recv.list)
     IN  table' = [c \in DOMAIN table \cup {entry.card} |->
                     IF c = entry.card THEN entry.flag ELSE table[c]]
  /\ recv' = [recv EXCEPT !.list = Tail(@)]
  /\ UNCHANGED <<hpc, open, posVersion, dbVersion, server, refused>>

\* update_config, then the version in memory.
UpdateVersion ==
  /\ hpc = "save" /\ recv.list = <<>>
  /\ dbVersion' = recv.version
  /\ posVersion' = recv.version
  /\ recv' = NoList
  /\ hpc' = "heart"
  /\ UNCHANGED <<open, table, server, refused>>

\* A statement fails: the thread returns, and nobody starts it again.
SaveFails ==
  /\ hpc = "save"
  /\ hpc' = "dead"
  /\ recv' = NoList
  /\ UNCHANGED <<open, posVersion, table, dbVersion, server, refused>>

HostChanges(batch) ==
  /\ Len(versions) < MaxVersion
  /\ Len(hostLog) + Len(batch) <= MaxEntries
  /\ hostLog' = hostLog \o batch
  /\ versions' = Append(versions, Len(hostLog'))
  /\ UNCHANGED <<hpc, open, posVersion, recv, table, dbVersion, refused>>

LosePower ==
  /\ hpc # "off"
  /\ hpc' = "off"
  /\ open' = 0 /\ refused' = 0
  /\ posVersion' = Zeros
  /\ recv' = NoList
  /\ UNCHANGED <<table, dbVersion, server>>

Boot ==
  /\ hpc = "off"
  /\ hpc' = "heart"
  /\ posVersion' = dbVersion
  /\ UNCHANGED <<open, recv, table, dbVersion, server, refused>>

-----------------------------------------------------------------------------
Init ==
  /\ hpc = "heart" /\ open = 0 /\ refused = 0
  /\ posVersion = Zeros /\ dbVersion = Zeros
  /\ recv = NoList
  /\ table = <<>>
  /\ hostLog = <<>> /\ versions = <<>>

HeartWhole == HeartAnswered({HeartAnswer})
ListWhole == hpc = "download" /\ DownloadAnswered({ListAnswer(posVersion)})

ThreadStep ==
  \/ ConnectFails \/ ReadFails \/ NoSocket
  \/ HeartAnswered(Reads(HeartAnswer))
  \/ DownloadAnswered(Reads(ListAnswer(posVersion)))
  \/ SaveBlackcard \/ UpdateVersion \/ SaveFails

Next ==
  \/ ThreadStep
  \/ \E batch \in Batches : HostChanges(batch)
  \/ LosePower \/ Boot

Spec == Init /\ [][Next]_vars

\* The thread goes on; with a socket, answers arrive whole again and again, and
\* statements succeed.
Fairness ==
  /\ WF_vars(ThreadStep)
  /\ WF_vars(SaveBlackcard) /\ WF_vars(UpdateVersion)
  /\ SF_vars(HeartWhole) /\ SF_vars(ListWhole)

FairSpec == Spec /\ Fairness

-----------------------------------------------------------------------------
\* Card c is lost after the first q changes of the server's list: one of them
\* says so, and no later one is about c.
LostAfter(c, q) ==
  \E i \in 1..q :
    /\ hostLog[i] = [card |-> c, flag |-> 0]
    /\ \A j \in (i + 1)..q : hostLog[j].card # c

\* A card that has been lost ever since the version the machine holds is in the
\* table as lost: an answer that was cut off in the read never makes the
\* machine believe it has entries that it has not (service.c:352,
\* p16main.c:892-921, 1036-1062).
LostCardsKnown ==
  \A i \in DOMAIN hostLog :
    LET c == hostLog[i].card
    IN  (\A q \in End(Covered(dbVersion))..Len(hostLog) : LostAfter(c, q))
          => c \in DOMAIN table /\ table[c] = 0

\* The stored version is no later than the server's, or the list would never be
\* downloaded again (p16main.c:1036, 1066).
VersionNotAhead == ~Earlier(Version(Len(versions)), dbVersion)

\* While the power stays on, the thread lives and fewer connects were refused
\* than there are descriptors, every version of the list arrives, whatever
\* else goes wrong with exchanges in between (service.c:342-357).
SocketsSuffice == <>[](hpc \notin {"off", "dead"} /\ refused < MaxSockets)
ListArrives ==
  SocketsSuffice =>
    \A n \in 1..MaxVersion : Len(versions) >= n ~> Covered(dbVersion) >= n
=============================================================================
