--------------------------- MODULE HostLinkProofs ---------------------------
(***************************************************************************)
(* Theorems about the loss list on the wire: wherever a read cuts an       *)
(* answer off, what the machine takes from it hides no lost card and is no *)
(* version that the server has not reached.                                *)
(***************************************************************************)
EXTENDS HostLink, SequenceTheorems, TLAPS

ListEntry ==
  {e \in [card : Nat, flag : {0, 1}] : e.card \div Weight[4] < 256}

HostTypeOK ==
  /\ hpc \in {"heart", "download", "save", "dead", "off"}
  /\ hostLog \in Seq(ListEntry) /\ Len(hostLog) <= MaxEntries
  /\ versions \in Seq(Nat) /\ Len(versions) <= MaxVersion
  /\ \A n \in 1..Len(versions) : versions[n] <= Len(hostLog)
  /\ End(Len(versions)) = Len(hostLog)

\* Versions that a short read makes up: the first one or two bytes of one of
\* the server's.
CutVersions == {<<20, 0, 0, 0, 0, 0>>, <<20, 4, 0, 0, 0, 0>>}

\* The versions the machine may hold.
KnownVersions ==
  {Version(n) : n \in 0..Len(versions)} \cup (IF versions = <<>> THEN {} ELSE CutVersions)

\* The change up to which a version has the list.
Upto(v) == End(Covered(v))

\* Every card that is lost from the first p changes on is in the table.
CoverFrom(p) ==
  \A c \in Nat :
    (\A q \in p..Len(hostLog) : LostAfter(c, q)) => c \in DOMAIN table /\ table[c] = 0

\* The answer came whole: what is still to be saved ends where its version does.
WholeInHand ==
  \E n \in 1..Len(versions) :
    LET p == End(n) - Len(recv.list)
    IN  /\ recv.version = Version(n)
        /\ Upto(dbVersion) <= p
        /\ \A j \in 1..Len(recv.list) : recv.list[j] = hostLog[p + j]
        /\ CoverFrom(p)

\* The answer was cut off: an entry is a change that the machine lacks, or it
\* says "lost" of some card.
CutInHand ==
  /\ recv.version \in {Zeros} \cup CutVersions
  /\ \A j \in 1..Len(recv.list) :
       \/ recv.list[j].flag = 0
       \/ \E q \in (Upto(dbVersion) + 1)..Len(hostLog) : recv.list[j] = hostLog[q]

VersionInv ==
  /\ dbVersion \in KnownVersions /\ recv.version \in KnownVersions
  /\ posVersion = IF hpc = "off" THEN Zeros ELSE dbVersion

ListInv ==
  /\ CoverFrom(Upto(dbVersion))
  /\ DOMAIN table \subseteq Nat
  /\ DOMAIN recv = {"list", "version"} /\ recv.list \in Seq([card : Nat, flag : {0, 1}])
  /\ hpc = "save" => WholeInHand \/ CutInHand

HostInv == HostTypeOK /\ VersionInv /\ ListInv
-----------------------------------------------------------------------------
(* Bytes.                                                                  *)

\* A function on 1..n is a sequence of length n.
LEMMA SequenceOf ==
  ASSUME NEW n \in Nat, NEW S, NEW f \in [1..n -> S]
  PROVE  f \in Seq(S) /\ Len(f) = n
  <1>1. f \in Seq(S)
    BY SeqDef
  <1>2. Len(f) \in Nat /\ DOMAIN f = 1..Len(f)
    BY <1>1, LenProperties
  <1>3. 1..n = 1..Len(f)
    BY <1>2
  <1>4. Len(f) = n
    BY <1>2, <1>3
  <1> QED BY <1>1, <1>4

\* A byte of two sequences joined, by where it is.
LEMMA Joined ==
  ASSUME NEW s \in Seq(Nat), NEW t \in Seq(Nat)
  PROVE  /\ s \o t \in Seq(Nat) /\ Len(s \o t) = Len(s) + Len(t)
         /\ \A i \in 1..Len(s) : (s \o t)[i] = s[i]
         /\ \A i \in 1..Len(t) : (s \o t)[Len(s) + i] = t[i]
  <1>1. /\ Len(s) \in Nat /\ Len(t) \in Nat
        /\ s \o t \in Seq(Nat) /\ Len(s \o t) = Len(s) + Len(t)
        /\ \A i \in 1 .. Len(s) + Len(t) :
             (s \o t)[i] = IF i <= Len(s) THEN s[i] ELSE t[i - Len(s)]
    BY ConcatProperties, LenProperties
  <1>2. ASSUME NEW i \in 1..Len(t) PROVE (s \o t)[Len(s) + i] = t[i]
    <2>1. /\ Len(s) + i \in 1 .. Len(s) + Len(t)
          /\ ~(Len(s) + i <= Len(s)) /\ Len(s) + i - Len(s) = i
      BY <1>1
    <2> QED BY <1>1, <2>1
  <1> QED BY <1>1, <1>2

\* The parser puts a number together again from its four bytes.
LEMMA NumberOfBytes ==
  ASSUME NEW n \in Nat, n \div Weight[4] < 256
  PROVE  Number(Bytes(n, 4)) = n
  <1>1. /\ Bytes(n, 4)[1] = (n \div 1) % 256
        /\ Bytes(n, 4)[2] = (n \div 256) % 256
        /\ Bytes(n, 4)[3] = (n \div 65536) % 256
        /\ Bytes(n, 4)[4] = (n \div 16777216) % 256
    BY DEF Bytes, Weight
  <1>2. n \div 16777216 < 256
    BY DEF Weight
  <1>3. /\ (n \div 1) % 256 = n - 256 * (n \div 256)
        /\ (n \div 256) % 256 = (n \div 256) - 256 * (n \div 65536)
        /\ (n \div 65536) % 256 = (n \div 65536) - 256 * (n \div 16777216)
        /\ (n \div 16777216) % 256 = n \div 16777216
    BY <1>2
  <1> QED BY <1>1, <1>3 DEF Number, Weight

LEMMA NumberIsNat ==
  ASSUME NEW b, \A k \in 1..4 : b[k] \in Nat
  PROVE  Number(b) \in Nat
  <1>1. b[1] \in Nat /\ b[2] \in Nat /\ b[3] \in Nat /\ b[4] \in Nat
    OBVIOUS
  <1> QED BY <1>1 DEF Number, Weight

\* Entry i of a list takes bytes 5 * (i - 1) + 1 to 5 * i.
LEMMA EntryBytes ==
  ASSUME NEW list \in Seq(ListEntry)
  PROVE  /\ Entries(list) \in Seq(Nat) /\ Len(Entries(list)) = 5 * Len(list)
         /\ \A i \in 1..Len(list) :
              /\ \A k \in 1..4 : Entries(list)[5 * (i - 1) + k] = Bytes(list[i].card, 4)[k]
              /\ Entries(list)[5 * (i - 1) + 5] = list[i].flag
  <1>1. Len(list) \in Nat /\ \A i \in 1..Len(list) : list[i] \in ListEntry
    BY LenProperties, ElementOfSeq
  <1> DEFINE place(j) == 1 + ((j - 1) \div 5)
             byte(j) == 1 + ((j - 1) % 5)
             value(j) == IF byte(j) = 5 THEN list[place(j)].flag
                         ELSE Bytes(list[place(j)].card, 4)[byte(j)]
  <1>2. Entries(list) = [j \in 1..(5 * Len(list)) |-> value(j)]
    BY DEF Entries
  <1>3. ASSUME NEW j \in 1..(5 * Len(list))
        PROVE  place(j) \in 1..Len(list) /\ byte(j) \in 1..5
    BY <1>1
  <1>4. ASSUME NEW e \in ListEntry, NEW k \in 1..4 PROVE Bytes(e.card, 4)[k] \in Nat
    <2>1. e.card \in Nat /\ Weight[k] \in {1, 256, 65536, 16777216}
      BY DEF ListEntry, Weight
    <2>2. (e.card \div Weight[k]) % 256 \in Nat
      BY <2>1
    <2> QED BY <2>2 DEF Bytes
  <1>5. ASSUME NEW j \in 1..(5 * Len(list)) PROVE value(j) \in Nat
    <2>1. list[place(j)] \in ListEntry /\ byte(j) \in 1..5
      BY <1>1, <1>3
    <2>2. CASE byte(j) = 5
      <3>1. list[place(j)].flag \in Nat
        BY <2>1 DEF ListEntry
      <3> QED BY <2>2, <3>1
    <2>3. CASE byte(j) # 5
      <3>1. byte(j) \in 1..4
        BY <2>1, <2>3
      <3> HIDE DEF byte, place
      <3> QED BY <1>4, <2>1, <2>3, <3>1
    <2> QED BY <2>2, <2>3
  <1>6. 5 * Len(list) \in Nat /\ Entries(list) \in [1..(5 * Len(list)) -> Nat]
    BY <1>1, <1>2, <1>5
  <1>7. Entries(list) \in Seq(Nat) /\ Len(Entries(list)) = 5 * Len(list)
    BY <1>6, SequenceOf
  <1>8. ASSUME NEW i \in 1..Len(list), NEW k \in 1..5
        PROVE  /\ 5 * (i - 1) + k \in 1..(5 * Len(list))
               /\ place(5 * (i - 1) + k) = i /\ byte(5 * (i - 1) + k) = k
    BY <1>1
  <1>9. ASSUME NEW i \in 1..Len(list), NEW k \in 1..5
        PROVE  Entries(list)[5 * (i - 1) + k] = IF k = 5 THEN list[i].flag
                                                ELSE Bytes(list[i].card, 4)[k]
    <2> HIDE DEF place, byte
    <2> QED BY <1>2, <1>8 DEF value
  <1>10. ASSUME NEW i \in 1..Len(list), NEW k \in 1..4
         PROVE  Entries(list)[5 * (i - 1) + k] = Bytes(list[i].card, 4)[k]
    <2>1. k \in 1..5 /\ k # 5
      OBVIOUS
    <2> QED BY <1>9, <2>1
  <1>11. ASSUME NEW i \in 1..Len(list) PROVE Entries(list)[5 * (i - 1) + 5] = list[i].flag
    <2>1. 5 \in 1..5
      OBVIOUS
    <2> QED BY <1>9, <2>1
  <1> QED BY <1>7, <1>10, <1>11

\* The changes after the first p of the server's list.
LEMMA ChangesAfter ==
  ASSUME HostTypeOK, NEW n \in 0..Len(versions), n = 0 \/ versions[n] \in Nat
  PROVE  /\ End(n) \in 0..Len(hostLog)
         /\ Changes(n) \in Seq(ListEntry) /\ Len(Changes(n)) = Len(hostLog) - End(n)
         /\ \A j \in 1..Len(Changes(n)) : Changes(n)[j] = hostLog[End(n) + j]
  <1>1. /\ Len(hostLog) \in Nat /\ Len(versions) \in Nat
        /\ \A i \in 1..Len(hostLog) : hostLog[i] \in ListEntry
    BY LenProperties, ElementOfSeq DEF HostTypeOK
  <1>2. End(n) \in 0..Len(hostLog)
    <2>1. CASE n = 0
      BY <1>1, <2>1 DEF End
    <2>2. CASE n # 0
      <3>1. n \in 1..Len(versions)
        BY <1>1, <2>2
      <3> QED BY <1>1, <2>2, <3>1 DEF End, HostTypeOK
    <2> QED BY <2>1, <2>2
  <1> DEFINE p == End(n)
             list == SubSeq(hostLog, p + 1, Len(hostLog))
  <1>3. Changes(n) = list
    BY DEF Changes
  <1>4. p \in 0..Len(hostLog)
    BY <1>2
  <1> HIDE DEF p
  <1>5. \A i \in p + 1 .. Len(hostLog) : hostLog[i] \in ListEntry
    BY <1>1, <1>4
  <1>6. /\ list \in Seq(ListEntry)
        /\ Len(list) = IF p + 1 <= Len(hostLog) THEN Len(hostLog) - (p + 1) + 1 ELSE 0
        /\ \A j \in 1 .. Len(hostLog) - (p + 1) + 1 : list[j] = hostLog[p + 1 + j - 1]
    BY <1>1, <1>4, <1>5, SubSeqProperties
  <1>7. Len(list) = Len(hostLog) - p
    BY <1>1, <1>4, <1>6
  <1>8. ASSUME NEW j \in 1..Len(list) PROVE list[j] = hostLog[p + j]
    <2>1. j \in 1 .. Len(hostLog) - (p + 1) + 1 /\ p + 1 + j - 1 = p + j
      BY <1>1, <1>4, <1>7
    <2> QED BY <1>6, <2>1
  <1> QED BY <1>2, <1>3, <1>6, <1>7, <1>8 DEF p

\* The answer to a download, byte by byte.
LEMMA AnswerBytes ==
  ASSUME NEW v, NEW list \in Seq(ListEntry), list = Changes(Covered(v)),
         NEW m \in Nat, Len(versions) = m
  PROVE  LET frame == ListAnswer(v)
         IN  /\ frame \in Seq(Nat) /\ Len(frame) = 16 + 5 * Len(list)
             /\ frame[9] = Len(list)
             /\ \A i \in 1..Len(list) :
                  /\ \A k \in 1..4 :
                       frame[9 + 5 * (i - 1) + k] = Bytes(list[i].card, 4)[k]
                  /\ frame[9 + 5 * (i - 1) + 5] = list[i].flag
             /\ \A k \in 1..6 : frame[9 + 5 * Len(list) + k] = Version(m)[k]
  <1> DEFINE size == 9 + 5 * Len(list)
             head == Header(218, size)
             front == head \o <<Len(list)>>
             most == front \o Entries(list)
             rest == most \o Version(m)
             frame == rest \o <<0>>
  <1>1. ListAnswer(v) = frame
    BY DEF ListAnswer
  <1>2. Len(list) \in Nat /\ size \in Nat
    BY LenProperties
  <1>3. head \in Seq(Nat) /\ Len(head) = 8
    <2>1. Bytes(size, 2) \in [1..2 -> Nat]
      <3> HIDE DEF size
      <3>1. \A k \in 1..2 : (size \div Weight[k]) % 256 \in Nat
        <4>1. \A k \in 1..2 : Weight[k] \in {1, 256}
          BY DEF Weight
        <4> QED BY <1>2, <4>1
      <3> QED BY <3>1 DEF Bytes
    <2>2. Bytes(size, 2) \in Seq(Nat) /\ Len(Bytes(size, 2)) = 2
      BY <2>1, SequenceOf
    <2>3. /\ <<83, 76, 86, 218>> \in Seq(Nat) /\ Len(<<83, 76, 86, 218>>) = 4
          /\ <<0, 0>> \in Seq(Nat) /\ Len(<<0, 0>>) = 2
      OBVIOUS
    <2> HIDE DEF size
    <2>4. /\ <<83, 76, 86, 218>> \o Bytes(size, 2) \in Seq(Nat)
          /\ Len(<<83, 76, 86, 218>> \o Bytes(size, 2)) = 6
      <3> DEFINE s == <<83, 76, 86, 218>>
                 t == Bytes(size, 2)
      <3>1. s \in Seq(Nat) /\ Len(s) = 4 /\ t \in Seq(Nat) /\ Len(t) = 2
        BY <2>2, <2>3
      <3> HIDE DEF s, t
      <3>2. s \o t \in Seq(Nat) /\ Len(s \o t) = Len(s) + Len(t)
        BY <3>1, Joined
      <3>3. Len(s \o t) = 6
        BY <3>1, <3>2
      <3> QED BY <3>2, <3>3 DEF s, t
    <2> QED BY <2>3, <2>4, Joined DEF Header
  <1> HIDE DEF head
  <1>4. front \in Seq(Nat) /\ Len(front) = 9 /\ front[9] = Len(list)
    <2>1. <<Len(list)>> \in Seq(Nat) /\ Len(<<Len(list)>>) = 1 /\ <<Len(list)>>[1] = Len(list)
      BY <1>2
    <2>2. 1 \in 1..Len(<<Len(list)>>)
      BY <2>1
    <2>3. /\ front \in Seq(Nat) /\ Len(front) = Len(head) + 1
          /\ front[Len(head) + 1] = <<Len(list)>>[1]
      BY <1>3, <2>1, <2>2, Joined
    <2> QED BY <1>3, <2>1, <2>3
  <1> HIDE DEF front
  <1>5. /\ most \in Seq(Nat) /\ Len(most) = size /\ most[9] = Len(list)
        /\ \A j \in 1..(5 * Len(list)) : most[9 + j] = Entries(list)[j]
    <2>1. Entries(list) \in Seq(Nat) /\ Len(Entries(list)) = 5 * Len(list)
      BY EntryBytes
    <2>2. /\ most \in Seq(Nat) /\ Len(most) = Len(front) + Len(Entries(list))
          /\ \A j \in 1..Len(front) : most[j] = front[j]
          /\ \A j \in 1..Len(Entries(list)) : most[Len(front) + j] = Entries(list)[j]
      BY <1>4, <2>1, Joined
    <2>3. 9 \in 1..Len(front)
      BY <1>4
    <2> QED BY <1>2, <1>4, <2>1, <2>2, <2>3
  <1> HIDE DEF most
  <1>6. Version(m) \in Seq(Nat) /\ Len(Version(m)) = 6
    <2>1. Zeros \in [1..6 -> Nat]
      BY DEF Zeros
    <2>2. Zeros \in Seq(Nat) /\ Len(Zeros) = 6
      BY <2>1, SequenceOf
    <2>3. <<20, 4, m, 0, 0, 0>> \in Seq(Nat) /\ Len(<<20, 4, m, 0, 0, 0>>) = 6
      OBVIOUS
    <2> QED BY <2>2, <2>3 DEF Version
  <1>7. /\ rest \in Seq(Nat) /\ Len(rest) = size + 6
        /\ \A i \in 1..size : rest[i] = most[i]
        /\ \A k \in 1..6 : rest[size + k] = Version(m)[k]
    <2>1. /\ rest \in Seq(Nat) /\ Len(rest) = Len(most) + Len(Version(m))
          /\ \A i \in 1..Len(most) : rest[i] = most[i]
          /\ \A k \in 1..Len(Version(m)) : rest[Len(most) + k] = Version(m)[k]
      BY <1>5, <1>6, Joined
    <2> QED BY <1>5, <1>6, <2>1
  <1> HIDE DEF rest
  <1>8. /\ frame \in Seq(Nat) /\ Len(frame) = size + 7
        /\ \A i \in 1..(size + 6) : frame[i] = rest[i]
    <2>1. <<0>> \in Seq(Nat) /\ Len(<<0>>) = 1
      OBVIOUS
    <2>2. /\ frame \in Seq(Nat) /\ Len(frame) = Len(rest) + Len(<<0>>)
          /\ \A i \in 1..Len(rest) : frame[i] = rest[i]
      BY <1>7, <2>1, Joined
    <2>3. Len(rest) = size + 6 /\ Len(frame) = size + 6 + 1
      BY <1>7, <2>1, <2>2
    <2> QED BY <1>2, <2>2, <2>3
  <1> HIDE DEF frame
  <1>9. /\ \A i \in 1..size : frame[i] = most[i]
        /\ \A k \in 1..6 : frame[size + k] = Version(m)[k]
    <2>1. ASSUME NEW i \in 1..size PROVE frame[i] = most[i]
      <3>1. i \in 1..(size + 6)
        BY <1>2
      <3> QED BY <1>7, <1>8, <3>1
    <2>2. ASSUME NEW k \in 1..6 PROVE frame[size + k] = Version(m)[k]
      <3>1. size + k \in 1..(size + 6)
        BY <1>2
      <3> QED BY <1>7, <1>8, <3>1
    <2> QED BY <2>1, <2>2
  <1>10. ASSUME NEW i \in 1..Len(list), NEW k \in 1..5
         PROVE  frame[9 + 5 * (i - 1) + k] = Entries(list)[5 * (i - 1) + k]
    <2>1. /\ 5 * (i - 1) + k \in 1..(5 * Len(list))
          /\ 9 + 5 * (i - 1) + k = 9 + (5 * (i - 1) + k)
          /\ 9 + 5 * (i - 1) + k \in 1..size
      BY <1>2
    <2>2. frame[9 + 5 * (i - 1) + k] = most[9 + 5 * (i - 1) + k]
      BY <1>9, <2>1
    <2>3. most[9 + (5 * (i - 1) + k)] = Entries(list)[5 * (i - 1) + k]
      BY <1>5, <2>1
    <2> QED BY <2>1, <2>2, <2>3
  <1>11. ASSUME NEW i \in 1..Len(list)
         PROVE  /\ \A k \in 1..4 : frame[9 + 5 * (i - 1) + k] = Bytes(list[i].card, 4)[k]
                /\ frame[9 + 5 * (i - 1) + 5] = list[i].flag
    <2>1. /\ \A k \in 1..4 : Entries(list)[5 * (i - 1) + k] = Bytes(list[i].card, 4)[k]
          /\ Entries(list)[5 * (i - 1) + 5] = list[i].flag
      BY EntryBytes
    <2>2. \A k \in 1..4 : k \in 1..5
      OBVIOUS
    <2>3. frame[9 + 5 * (i - 1) + 5] = Entries(list)[5 * (i - 1) + 5]
      BY <1>10
    <2>4. \A k \in 1..4 : frame[9 + 5 * (i - 1) + k] = Entries(list)[5 * (i - 1) + k]
      BY <1>10, <2>2
    <2> QED BY <2>1, <2>3, <2>4
  <1>12. frame[9] = Len(list) /\ Len(frame) = 16 + 5 * Len(list)
    <2>1. 9 \in 1..size /\ size + 7 = 16 + 5 * Len(list)
      BY <1>2
    <2> QED BY <1>5, <1>8, <1>9, <2>1
  <1> QED BY <1>1, <1>8, <1>9, <1>11, <1>12

\* One read returns the first bytes of a frame, and the rest of the buffer is 0.
LEMMA ReadBytes ==
  ASSUME NEW frame \in Seq(Nat), Len(frame) # 0, NEW buf \in Reads(frame)
  PROVE  \E n \in 1..Len(frame) :
           \A i \in Nat : At(buf, i) \in Nat /\ At(buf, i) = IF i < n THEN frame[i + 1] ELSE 0
  <1>1. Len(frame) \in Nat /\ \A i \in 1..Len(frame) : frame[i] \in Nat
    BY LenProperties, ElementOfSeq
  <1>2. PICK n \in {Len(frame)} \cup (ShortReads \cap 1..Len(frame)) : buf = SubSeq(frame, 1, n)
    BY DEF Reads, Received
  <1>3. n \in 1..Len(frame)
    BY <1>1, <1>2
  <1>4. \A i \in 1..n : frame[i] \in Nat
    BY <1>1, <1>3
  <1>5. /\ Len(buf) = IF 1 <= n THEN n - 1 + 1 ELSE 0
        /\ \A i \in 1 .. n - 1 + 1 : buf[i] = frame[1 + i - 1]
    BY <1>1, <1>2, <1>3, <1>4, SubSeqProperties
  <1>6. Len(buf) = n
    BY <1>3, <1>5
  <1>7. ASSUME NEW i \in Nat, i < n PROVE buf[i + 1] = frame[i + 1]
    <2>1. i + 1 \in 1 .. n - 1 + 1 /\ 1 + (i + 1) - 1 = i + 1
      BY <1>3, <1>7
    <2> QED BY <1>5, <2>1
  <1>8. ASSUME NEW i \in Nat PROVE At(buf, i) = IF i < n THEN frame[i + 1] ELSE 0
    BY <1>6, <1>7 DEF At
  <1>9. \A i \in Nat : i < n => frame[i + 1] \in Nat
    BY <1>3, <1>4
  <1>10. \A i \in Nat : At(buf, i) \in Nat
    BY <1>8, <1>9
  <1> QED BY <1>3, <1>8, <1>10

\* The first n bytes of an answer are in the buffer, with the list and version m.
HoldsAnswer(buf, list, m, n) ==
  /\ \A i \in Nat : At(buf, i) \in Nat
  /\ At(buf, 8) \in {0, Len(list)}
  /\ \A i \in 1..Len(list) :
       LET o == 9 + 5 * (i - 1)
       IN  /\ \A k \in 1..4 :
                At(buf, o + k - 1) = IF o + k - 1 < n THEN Bytes(list[i].card, 4)[k] ELSE 0
           /\ At(buf, o + 4) = IF o + 4 < n THEN list[i].flag ELSE 0
  /\ \A k \in 1..6 :
       LET o == 9 + 5 * Len(list)
       IN  At(buf, o + k - 1) = IF o + k - 1 < n THEN Version(m)[k] ELSE 0

LEMMA AnswerRead ==
  ASSUME NEW v, NEW list \in Seq(ListEntry), list = Changes(Covered(v)),
         NEW m \in Nat, Len(versions) = m,
         NEW buf \in Reads(ListAnswer(v))
  PROVE  \E n \in Nat : HoldsAnswer(buf, list, m, n)
  <1> DEFINE frame == ListAnswer(v)
             size == Len(list)
  <1>1. /\ frame \in Seq(Nat) /\ Len(frame) = 16 + 5 * size
        /\ frame[9] = size
        /\ \A i \in 1..size :
             /\ \A k \in 1..4 : frame[9 + 5 * (i - 1) + k] = Bytes(list[i].card, 4)[k]
             /\ frame[9 + 5 * (i - 1) + 5] = list[i].flag
        /\ \A k \in 1..6 : frame[9 + 5 * size + k] = Version(m)[k]
    BY AnswerBytes
  <1>2. size \in Nat
    BY LenProperties
  <1> HIDE DEF frame, size
  <1>3. Len(frame) # 0
    BY <1>1, <1>2
  <1>4. buf \in Reads(frame)
    BY DEF frame
  <1>5. PICK n \in 1..Len(frame) :
          \A i \in Nat : At(buf, i) \in Nat /\ At(buf, i) = IF i < n THEN frame[i + 1] ELSE 0
    BY <1>1, <1>3, <1>4, ReadBytes
  <1>6. n \in Nat
    BY <1>1, <1>2, <1>5
  <1>7. At(buf, 8) \in {0, size}
    <2>1. 8 \in Nat /\ 8 + 1 = 9
      OBVIOUS
    <2> QED BY <1>1, <1>5, <2>1
  <1>8. ASSUME NEW o \in Nat, NEW k \in Nat \ {0}
        PROVE  At(buf, o + k - 1) = IF o + k - 1 < n THEN frame[o + k] ELSE 0
    <2>1. o + k - 1 \in Nat /\ o + k - 1 + 1 = o + k
      OBVIOUS
    <2> QED BY <1>5, <2>1
  <1>9. ASSUME NEW i \in 1..size, NEW o, o = 9 + 5 * (i - 1)
        PROVE  /\ \A k \in 1..4 :
                    At(buf, o + k - 1) = IF o + k - 1 < n THEN Bytes(list[i].card, 4)[k] ELSE 0
               /\ At(buf, o + 4) = IF o + 4 < n THEN list[i].flag ELSE 0
    <2>1. o \in Nat
      BY <1>2, <1>9
    <2>2. /\ \A k \in 1..4 : frame[o + k] = Bytes(list[i].card, 4)[k]
          /\ frame[o + 5] = list[i].flag
      BY <1>1, <1>9
    <2>3. 5 \in Nat \ {0} /\ o + 5 - 1 = o + 4 /\ \A k \in 1..4 : k \in Nat \ {0}
      BY <2>1
    <2>4. At(buf, o + 5 - 1) = IF o + 5 - 1 < n THEN frame[o + 5] ELSE 0
      BY <1>8, <2>1, <2>3
    <2>5. ASSUME NEW k \in 1..4
          PROVE  At(buf, o + k - 1) = IF o + k - 1 < n THEN Bytes(list[i].card, 4)[k] ELSE 0
      BY <1>8, <2>1, <2>2, <2>3
    <2> QED BY <2>2, <2>3, <2>4, <2>5
  <1>10. ASSUME NEW k \in 1..6, NEW o, o = 9 + 5 * size
         PROVE  At(buf, o + k - 1) = IF o + k - 1 < n THEN Version(m)[k] ELSE 0
    <2>1. o \in Nat /\ k \in Nat \ {0}
      BY <1>2, <1>10
    <2>2. frame[o + k] = Version(m)[k]
      BY <1>1, <1>10
    <2> QED BY <1>8, <2>1, <2>2
  <1> QED BY <1>5, <1>6, <1>7, <1>9, <1>10 DEF size, HoldsAnswer

\* An entry that was read in part says "lost" of some card.
LEMMA ParsedEntry ==
  ASSUME NEW e \in ListEntry, NEW buf, NEW o \in Nat, NEW n \in Nat,
         \A i \in Nat : At(buf, i) \in Nat,
         \A k \in 1..4 :
           At(buf, o + k - 1) = IF o + k - 1 < n THEN Bytes(e.card, 4)[k] ELSE 0,
         At(buf, o + 4) = IF o + 4 < n THEN e.flag ELSE 0
  PROVE  LET x == [card |-> Number(Field(buf, o, 4)), flag |-> At(buf, o + 4)]
         IN  x \in [card : Nat, flag : {0, 1}] /\ (IF o + 4 < n THEN x = e ELSE x.flag = 0)
  <1>1. e.card \in Nat /\ e.card \div Weight[4] < 256 /\ e.flag \in {0, 1}
        /\ e = [card |-> e.card, flag |-> e.flag]
    BY DEF ListEntry
  <1>2. Field(buf, o, 4) = [k \in 1..4 |-> At(buf, o + k - 1)]
    BY DEF Field
  <1>3. Number(Field(buf, o, 4)) \in Nat
    <2>1. \A k \in 1..4 : o + k - 1 \in Nat
      OBVIOUS
    <2>2. \A k \in 1..4 : Field(buf, o, 4)[k] \in Nat
      BY <1>2, <2>1
    <2> QED BY <2>2, NumberIsNat
  <1>4. CASE o + 4 < n
    <2>1. \A k \in 1..4 : o + k - 1 < n
      BY <1>4
    <2>2. Field(buf, o, 4) = [k \in 1..4 |-> Bytes(e.card, 4)[k]]
      BY <1>2, <2>1
    <2>3. Field(buf, o, 4) = Bytes(e.card, 4)
      BY <2>2 DEF Bytes
    <2>4. Number(Field(buf, o, 4)) = e.card
      BY <1>1, <2>3, NumberOfBytes
    <2> QED BY <1>1, <1>4, <2>4
  <1>5. CASE ~(o + 4 < n)
    BY <1>3, <1>5
  <1> QED BY <1>4, <1>5

\* A version that was read in part is one that no server has, or none.
LEMMA ParsedVersion ==
  ASSUME NEW m \in 1..255, NEW buf, NEW o \in Nat, NEW n \in Nat,
         \A k \in 1..6 : At(buf, o + k - 1) = IF o + k - 1 < n THEN Version(m)[k] ELSE 0
  PROVE  IF o + 2 < n THEN Field(buf, o, 6) = Version(m)
         ELSE Field(buf, o, 6) \in {Zeros} \cup CutVersions
  <1> DEFINE w == Field(buf, o, 6)
  <1>1. Version(m) = <<20, 4, m, 0, 0, 0>>
    BY DEF Version
  <1>2. w = [k \in 1..6 |-> At(buf, o + k - 1)]
    BY DEF Field
  <1>3. \A k \in 1..6 : w[k] = IF o + k - 1 < n THEN <<20, 4, m, 0, 0, 0>>[k] ELSE 0
    BY <1>1, <1>2
  <1>4. /\ w[1] = IF o < n THEN 20 ELSE 0
        /\ w[2] = IF o + 1 < n THEN 4 ELSE 0
        /\ w[3] = IF o + 2 < n THEN m ELSE 0
        /\ w[4] = 0 /\ w[5] = 0 /\ w[6] = 0
    BY <1>3
  <1>5. w = <<w[1], w[2], w[3], w[4], w[5], w[6]>>
    BY <1>2
  <1> HIDE DEF w
  <1>6. CASE o + 2 < n
    <2>1. o < n /\ o + 1 < n
      BY <1>6
    <2>2. w = <<20, 4, m, 0, 0, 0>>
      BY <1>4, <1>5, <1>6, <2>1
    <2> QED BY <1>1, <1>6, <2>2 DEF w
  <1>7. CASE ~(o + 2 < n)
    <2>1. (w[1] = 0 /\ w[2] = 0) \/ (w[1] = 20 /\ w[2] \in {0, 4})
      <3>1. o + 1 < n => o < n
        OBVIOUS
      <3> QED BY <1>4, <3>1
    <2>2. w[3] = 0
      BY <1>4, <1>7
    <2>3. Zeros = <<0, 0, 0, 0, 0, 0>>
      BY DEF Zeros
    <2>4. w \in {Zeros} \cup CutVersions
      BY <1>4, <1>5, <2>1, <2>2, <2>3 DEF CutVersions
    <2> QED BY <1>7, <2>4 DEF w
  <1> QED BY <1>6, <1>7

\* What the parser makes of a list that was read in part: an entry is the
\* server's or says "lost", and a version that is whole comes behind a list that
\* is. Up to 49 entries the 8-bit offset does not wrap.
LEMMA ParsedList ==
  ASSUME NEW v, NEW list \in Seq(ListEntry), list = Changes(Covered(v)), Len(list) <= 49,
         NEW m \in 1..255, Len(versions) = m,
         NEW buf \in Reads(ListAnswer(v))
  PROVE  LET parsed == ParseList(buf)
         IN  \/ parsed.list = <<>>
             \/ /\ parsed.list \in Seq([card : Nat, flag : {0, 1}])
                /\ Len(parsed.list) = Len(list)
                /\ \A i \in 1..Len(list) : parsed.list[i] = list[i] \/ parsed.list[i].flag = 0
                /\ \/ parsed.list = list /\ parsed.version = Version(m)
                   \/ parsed.version \in {Zeros} \cup CutVersions
  <1> DEFINE size == Len(list)
             o(i) == 9 + 5 * (i - 1)
             entry(i) == [card |-> Number(Field(buf, o(i), 4)), flag |-> At(buf, o(i) + 4)]
  <1>1. size \in 0..49 /\ size \in Nat /\ \A i \in 1..size : list[i] \in ListEntry
    <2>1. size \in Nat /\ \A i \in 1..size : list[i] \in ListEntry
      BY LenProperties, ElementOfSeq
    <2>2. size <= 49
      OBVIOUS
    <2> HIDE DEF size
    <2> QED BY <2>1, <2>2
  <1>2. PICK n \in Nat : HoldsAnswer(buf, list, m, n)
    BY AnswerRead
  <1>3. DOMAIN list = 1..size /\ list = [i \in DOMAIN list |-> list[i]]
    BY LenProperties
  <1>4. /\ At(buf, 8) \in {0, size}
        /\ \A k \in 1..6 : At(buf, 9 + 5 * size + k - 1) =
             IF 9 + 5 * size + k - 1 < n THEN Version(m)[k] ELSE 0
    BY <1>2 DEF HoldsAnswer
  <1> HIDE DEF size
  <1>5. \A i \in 1..(size + 1) : o(i) \in Nat /\ o(i) % 256 = o(i)
    BY <1>1
  <1>6. \A i \in 1..size : i \in 1..(size + 1) /\ (o(i) + 4) % 256 = o(i) + 4
    BY <1>1
  <1>7. o(size + 1) = 9 + 5 * size /\ size + 1 \in 1..(size + 1) /\ 9 + 5 * size \in Nat
    BY <1>1
  <1>8. \A i \in 1..size :
          /\ entry(i) \in [card : Nat, flag : {0, 1}]
          /\ IF o(i) + 4 < n THEN entry(i) = list[i] ELSE entry(i).flag = 0
    <2> TAKE i \in 1..size
    <2>1. list[i] \in ListEntry /\ o(i) \in Nat
      BY <1>1, <1>5, <1>6
    <2>2. /\ \A k \in 1..4 : At(buf, o(i) + k - 1) =
               IF o(i) + k - 1 < n THEN Bytes(list[i].card, 4)[k] ELSE 0
          /\ At(buf, o(i) + 4) = IF o(i) + 4 < n THEN list[i].flag ELSE 0
      BY <1>2 DEF HoldsAnswer, size
    <2>3. \A j \in Nat : At(buf, j) \in Nat
      BY <1>2 DEF HoldsAnswer
    <2> HIDE DEF o
    <2>4. entry(i) \in [card : Nat, flag : {0, 1}] /\ (IF o(i) + 4 < n THEN entry(i) = list[i] ELSE entry(i).flag = 0)
      BY <2>1, <2>2, <2>3, ParsedEntry
    <2> QED BY <2>4
  <1>9. IF 9 + 5 * size + 2 < n THEN Field(buf, 9 + 5 * size, 6) = Version(m)
        ELSE Field(buf, 9 + 5 * size, 6) \in {Zeros} \cup CutVersions
    BY <1>4, <1>7, ParsedVersion
  <1>10. CASE At(buf, 8) = 0
    BY <1>10 DEF ParseList
  <1>11. CASE At(buf, 8) = size
    <2> DEFINE parsed == ParseList(buf)
    <2>1. /\ parsed.list = [i \in 1..size |-> entry(i)]
          /\ parsed.version = Field(buf, 9 + 5 * size, 6)
      <3>1. parsed.list = [i \in 1..size |-> [card |-> Number(Field(buf, o(i) % 256, 4)),
                                              flag |-> At(buf, ((o(i) % 256) + 4) % 256)]]
        BY <1>11 DEF ParseList
      <3>2. parsed.version = Field(buf, o(size + 1) % 256, 6)
        BY <1>11 DEF ParseList
      <3>3. \A i \in 1..size : o(i) % 256 = o(i) /\ ((o(i) % 256) + 4) % 256 = o(i) + 4
        BY <1>5, <1>6
      <3>4. o(size + 1) % 256 = 9 + 5 * size
        BY <1>5, <1>7
      <3> HIDE DEF o, parsed
      <3> QED BY <3>1, <3>2, <3>3, <3>4
    <2> HIDE DEF parsed, entry
    <2>2. parsed.list \in [1..size -> [card : Nat, flag : {0, 1}]]
      BY <1>8, <2>1
    <2>3. parsed.list \in Seq([card : Nat, flag : {0, 1}]) /\ Len(parsed.list) = size
      BY <1>1, <2>2, SequenceOf
    <2>4. \A i \in 1..size : parsed.list[i] = list[i] \/ parsed.list[i].flag = 0
      BY <1>8, <2>1
    <2>5. 9 + 5 * size + 2 < n => parsed.list = list
      <3>1. SUFFICES ASSUME 9 + 5 * size + 2 < n PROVE parsed.list = list
        OBVIOUS
      <3>2. \A i \in 1..size : o(i) + 4 < n
        BY <1>1, <3>1
      <3>3. \A i \in 1..size : entry(i) = list[i]
        BY <1>8, <3>2
      <3> QED BY <1>3, <2>1, <3>3
    <2> QED BY <1>9, <2>1, <2>3, <2>4, <2>5 DEF parsed, size
  <1> QED BY <1>4, <1>10, <1>11

-----------------------------------------------------------------------------
(* Versions.                                                               *)

LEMMA Within255 == \A n \in Nat : n <= MaxVersion => n \in 0..255
  <1>1. MaxVersion \in 0..255
    BY HostLinkAssumption
  <1> QED BY <1>1

LEMMA VersionOrder ==
  ASSUME NEW n \in 0..255, NEW k \in 0..255
  PROVE  Earlier(Version(n), Version(k)) <=> n < k
  <1>1. /\ n = 0 => \A i \in 1..6 : Version(n)[i] = 0
        /\ k = 0 => \A i \in 1..6 : Version(k)[i] = 0
    BY DEF Version, Zeros
  <1>2. /\ n # 0 => Version(n) = <<20, 4, n, 0, 0, 0>>
        /\ k # 0 => Version(k) = <<20, 4, k, 0, 0, 0>>
    BY DEF Version
  <1>3. CASE n # 0 /\ k # 0
    <2> DEFINE x == Version(n)
               y == Version(k)
    <2>1. /\ x[1] = y[1] /\ x[2] = y[2] /\ x[3] = n /\ y[3] = k
          /\ \A i \in 4..6 : ~(x[i] < y[i])
          /\ ~(x[1] < y[1]) /\ ~(x[2] < y[2])
      BY <1>2, <1>3
    <2> HIDE DEF x, y
    <2>2. n < k => 3 \in 1..6 /\ x[3] < y[3] /\ \A j \in 1..(3 - 1) : x[j] = y[j]
      BY <2>1
    <2>3. ASSUME NEW i \in 1..6, x[i] < y[i] PROVE i = 3
      BY <2>1, <2>3
    <2>4. Earlier(x, y) <=> n < k
      BY <2>1, <2>2, <2>3 DEF Earlier
    <2> QED BY <2>4 DEF x, y
  <1>4. CASE k = 0
    <2>1. \A i \in 1..6 : ~(Version(n)[i] < 0)
      BY <1>1, <1>2
    <2> QED BY <1>1, <1>4, <2>1 DEF Earlier
  <1>5. CASE n = 0 /\ k # 0
    <2>1. Version(n)[1] = 0 /\ Version(k)[1] = 20 /\ 1 \in 1..6
      BY <1>1, <1>2, <1>5
    <2>2. Version(n)[1] < Version(k)[1] /\ \A j \in 1..(1 - 1) : Version(n)[j] = Version(k)[j]
      BY <2>1
    <2> QED BY <1>5, <2>1, <2>2 DEF Earlier
  <1> QED BY <1>3, <1>4, <1>5

\* A version cut off is earlier than all of the server's.
LEMMA CutIsEarly ==
  ASSUME NEW v \in CutVersions, NEW k \in 1..255
  PROVE  Earlier(v, Version(k)) /\ ~Earlier(Version(k), v)
  <1>1. Version(k) = <<20, 4, k, 0, 0, 0>>
    BY DEF Version
  <1>2. /\ v[1] = 20 /\ v[2] \in {0, 4} /\ v[3] = 0
        /\ \A i \in 4..6 : v[i] = 0 /\ Version(k)[i] = 0
        /\ Version(k)[1] = 20 /\ Version(k)[2] = 4 /\ Version(k)[3] = k
    BY <1>1 DEF CutVersions
  <1> DEFINE w == Version(k)
  <1> HIDE DEF w
  <1>3. Earlier(v, w)
    <2>1. \/ 2 \in 1..6 /\ v[2] < w[2] /\ \A j \in 1..(2 - 1) : v[j] = w[j]
          \/ 3 \in 1..6 /\ v[3] < w[3] /\ \A j \in 1..(3 - 1) : v[j] = w[j]
      BY <1>2 DEF w
    <2> QED BY <2>1 DEF Earlier
  <1>4. \A i \in 1..6 : ~(w[i] < v[i])
    BY <1>2 DEF w
  <1> QED BY <1>3, <1>4 DEF Earlier, w

\* The last of the first l versions of the server that v is not earlier than.
LEMMA CoveredAmong ==
  ASSUME NEW l \in 0..255
  PROVE  LET last(v) == Max({0} \cup {k \in 1..l : ~Earlier(v, Version(k))})
         IN  /\ \A n \in 0..l : last(Version(n)) = n
             /\ \A v \in CutVersions : last(v) = 0
  <1> DEFINE S(v) == {0} \cup {k \in 1..l : ~Earlier(v, Version(k))}
  <1>1. ASSUME NEW v, NEW n \in 0..l, \A k \in 1..l : Earlier(v, Version(k)) <=> n < k
        PROVE  Max(S(v)) = n
    <2>1. n \in S(v) /\ \A k \in S(v) : k \in Int /\ n >= k
      BY <1>1
    <2>2. \A x \in S(v) : (\A y \in S(v) : x >= y) => x = n
      BY <2>1
    <2> HIDE DEF S
    <2> QED BY <2>1, <2>2 DEF Max
  <1>2. ASSUME NEW n \in 0..l PROVE Max(S(Version(n))) = n
    <2>1. n \in 0..255 /\ \A k \in 1..l : k \in 0..255
      OBVIOUS
    <2>2. \A k \in 1..l : Earlier(Version(n), Version(k)) <=> n < k
      BY <2>1, VersionOrder
    <2> QED BY <1>1, <2>2
  <1>3. ASSUME NEW v \in CutVersions PROVE Max(S(v)) = 0
    <2>1. 0 \in 0..l /\ \A k \in 1..l : k \in 1..255 /\ 0 < k
      OBVIOUS
    <2>2. \A k \in 1..l : Earlier(v, Version(k)) <=> 0 < k
      BY <2>1, CutIsEarly
    <2> QED BY <1>1, <2>1, <2>2
  <1> QED BY <1>2, <1>3

\* How much of the list a version has: stated for a step's two states.
LEMMA CoveredBy ==
  /\ HostTypeOK =>
       /\ \A n \in 0..Len(versions) : Covered(Version(n)) = n
       /\ \A v \in CutVersions : Covered(v) = 0
  /\ HostTypeOK' =>
       /\ \A n \in 0..Len(versions') : Covered(Version(n))' = n
       /\ \A v \in CutVersions : Covered(v)' = 0
  <1>1. ASSUME HostTypeOK PROVE Len(versions) \in 0..255
    <2>1. Len(versions) \in Nat /\ Len(versions) <= MaxVersion
      BY <1>1, LenProperties DEF HostTypeOK
    <2> QED BY <2>1, Within255
  <1>2. ASSUME HostTypeOK' PROVE Len(versions') \in 0..255
    <2>1. Len(versions') \in Nat /\ Len(versions') <= MaxVersion
      BY <1>2, LenProperties DEF HostTypeOK
    <2> QED BY <2>1, Within255
  <1>3. /\ \A n : Version(n)' = Version(n)
        /\ \A v, w : Earlier(v, w)' = Earlier(v, w)
    BY DEF Version, Zeros, Earlier
  <1> DEFINE last(v, l) == Max({0} \cup {k \in 1..l : ~Earlier(v, Version(k))})
  <1>4. \A v : Covered(v) = last(v, Len(versions)) /\ Covered(v)' = last(v, Len(versions'))
    BY <1>3 DEF Covered
  <1>5. \A l \in 0..255 : /\ \A n \in 0..l : last(Version(n), l) = n
                          /\ \A v \in CutVersions : last(v, l) = 0
    BY CoveredAmong
  <1> HIDE DEF last
  <1> QED BY <1>1, <1>2, <1>3, <1>4, <1>5

\* A version the machine may hold stays one, and has what it had.
LEMMA KnownStays ==
  ASSUME HostTypeOK, HostTypeOK', Len(versions) <= Len(versions'),
         \A n \in 1..Len(versions) : versions'[n] = versions[n],
         NEW v \in KnownVersions
  PROVE  /\ v \in KnownVersions'
         /\ Covered(v) \in 0..Len(versions) /\ Covered(v)' = Covered(v) /\ Upto(v)' = Upto(v)
  <1>1. Len(versions) \in Nat /\ Len(versions') \in Nat
    BY LenProperties DEF HostTypeOK
  <1>2. KnownVersions' = {Version(n) : n \in 0..Len(versions')}
                           \cup (IF versions' = <<>> THEN {} ELSE CutVersions)
    BY DEF KnownVersions, Version, Zeros, CutVersions
  <1>3. /\ v \in KnownVersions' /\ Covered(v) \in 0..Len(versions) /\ Covered(v)' = Covered(v)
    <2>1. CASE v \in {Version(n) : n \in 0..Len(versions)}
      <3>1. PICK n \in 0..Len(versions) : v = Version(n)
        BY <2>1
      <3>2. n \in 0..Len(versions')
        BY <1>1
      <3> QED BY <1>2, <3>1, <3>2, CoveredBy
    <2>2. CASE versions # <<>> /\ v \in CutVersions
      <3>1. versions' # <<>>
        BY <1>1, <2>2, EmptySeq DEF HostTypeOK
      <3> QED BY <1>1, <1>2, <2>2, <3>1, CoveredBy
    <2> QED BY <2>1, <2>2 DEF KnownVersions
  <1>4. \A n \in 0..Len(versions) : End(n)' = End(n)
    BY <1>1 DEF End
  <1> QED BY <1>3, <1>4 DEF Upto
-----------------------------------------------------------------------------
(* The server's list, and what the table covers of it.                     *)

\* A list that grew: what was there is still there.
Grown ==
  /\ Len(hostLog) <= Len(hostLog')
  /\ \A i \in 1..Len(hostLog) : hostLog'[i] = hostLog[i]
  /\ Len(versions) <= Len(versions')
  /\ \A n \in 1..Len(versions) : versions'[n] = versions[n]

LEMMA BatchEntries ==
  ASSUME NEW batch \in Batches
  PROVE  batch \in Seq(ListEntry)
  <1>1. /\ batch \in Seq([card : Nat, flag : {0, 1}])
        /\ \A j \in DOMAIN batch : batch[j].card \div Weight[4] < 256
    BY HostLinkAssumption
  <1>2. /\ Len(batch) \in Nat /\ DOMAIN batch = 1..Len(batch)
        /\ batch \in [1..Len(batch) -> [card : Nat, flag : {0, 1}]]
    BY <1>1, LenProperties
  <1>3. \A j \in 1..Len(batch) : batch[j] \in ListEntry
    BY <1>1, <1>2 DEF ListEntry
  <1>4. batch \in [1..Len(batch) -> ListEntry]
    BY <1>2, <1>3
  <1> QED BY <1>2, <1>4, SequenceOf

LEMMA ServerGrows ==
  ASSUME HostTypeOK, NEW batch \in Batches, HostChanges(batch)
  PROVE  HostTypeOK' /\ Grown
  <1>1. /\ hostLog \in Seq(ListEntry) /\ Len(hostLog) \in Nat
        /\ versions \in Seq(Nat) /\ Len(versions) \in Nat
    BY LenProperties DEF HostTypeOK
  <1>2. batch \in Seq(ListEntry) /\ Len(batch) \in Nat
    BY BatchEntries, LenProperties
  <1>3. /\ hostLog' = hostLog \o batch /\ versions' = Append(versions, Len(hostLog'))
        /\ Len(versions) < MaxVersion /\ Len(hostLog) + Len(batch) <= MaxEntries /\ hpc' = hpc
    BY DEF HostChanges
  <1>4. /\ hostLog' \in Seq(ListEntry) /\ Len(hostLog') = Len(hostLog) + Len(batch)
        /\ \A i \in 1 .. Len(hostLog) + Len(batch) :
             hostLog'[i] = IF i <= Len(hostLog) THEN hostLog[i] ELSE batch[i - Len(hostLog)]
    BY <1>1, <1>2, <1>3, ConcatProperties
  <1>5. \A i \in 1..Len(hostLog) : hostLog'[i] = hostLog[i]
    BY <1>1, <1>2, <1>4
  <1>6. Len(hostLog') \in Nat
    BY <1>1, <1>2, <1>4
  <1>7. /\ versions' \in Seq(Nat) /\ Len(versions') = Len(versions) + 1
        /\ \A n \in 1..Len(versions) : versions'[n] = versions[n]
        /\ versions'[Len(versions) + 1] = Len(hostLog')
    BY <1>1, <1>3, <1>6, AppendProperties
  <1>8. \A n \in 1..Len(versions') : versions'[n] <= Len(hostLog')
    <2>1. \A n \in 1..Len(versions) : versions[n] \in Nat /\ versions[n] <= Len(hostLog)
      BY <1>1, ElementOfSeq DEF HostTypeOK
    <2>2. ASSUME NEW n \in 1..Len(versions) PROVE versions'[n] <= Len(hostLog')
      <3>1. versions'[n] = versions[n] /\ versions[n] \in Nat /\ versions[n] <= Len(hostLog)
        BY <1>7, <2>1
      <3>2. Len(hostLog) <= Len(hostLog')
        BY <1>1, <1>2, <1>4
      <3> QED BY <1>1, <1>6, <3>1, <3>2
    <2> QED BY <1>1, <1>6, <1>7, <2>2
  <1>9. End(Len(versions))' = Len(hostLog')
    BY <1>1, <1>7 DEF End
  <1>10. Len(hostLog') <= MaxEntries /\ Len(versions') <= MaxVersion
    <2>1. MaxVersion \in 0..255
      BY HostLinkAssumption
    <2>2. \A n \in Nat : n < MaxVersion => n + 1 <= MaxVersion
      BY <2>1
    <2> QED BY <1>1, <1>3, <1>4, <1>7, <2>2
  <1> QED BY <1>1, <1>2, <1>3, <1>4, <1>5, <1>7, <1>8, <1>9, <1>10 DEF HostTypeOK, Grown

\* One change further: the card it is about is lost if it says so, the others
\* are what they were.
LEMMA NextLost ==
  ASSUME NEW c, NEW q \in Nat
  PROVE  IF hostLog[q + 1].card = c
         THEN LostAfter(c, q + 1) => hostLog[q + 1] = [card |-> c, flag |-> 0]
         ELSE LostAfter(c, q + 1) => LostAfter(c, q)
  <1>1. SUFFICES ASSUME LostAfter(c, q + 1)
                 PROVE  IF hostLog[q + 1].card = c
                        THEN hostLog[q + 1] = [card |-> c, flag |-> 0]
                        ELSE LostAfter(c, q)
    OBVIOUS
  <1>2. PICK i \in 1..(q + 1) : /\ hostLog[i] = [card |-> c, flag |-> 0]
                                /\ \A j \in (i + 1)..(q + 1) : hostLog[j].card # c
    BY <1>1 DEF LostAfter
  <1>3. CASE i = q + 1
    BY <1>2, <1>3
  <1>4. CASE i # q + 1
    <2>1. i \in 1..q /\ q + 1 \in (i + 1)..(q + 1)
      BY <1>4
    <2>2. \A j \in (i + 1)..q : j \in (i + 1)..(q + 1)
      OBVIOUS
    <2> QED BY <1>2, <2>1, <2>2 DEF LostAfter
  <1> QED BY <1>3, <1>4

\* A card that a change is about is lost after it only if the change says so.
LEMMA LostBy ==
  ASSUME NEW q \in Nat \ {0}, LostAfter(hostLog[q].card, q)
  PROVE  hostLog[q].flag = 0
  <1> DEFINE c == hostLog[q].card
  <1>1. PICK i \in 1..q : /\ hostLog[i] = [card |-> c, flag |-> 0]
                          /\ \A j \in (i + 1)..q : hostLog[j].card # c
    BY DEF LostAfter
  <1>2. i = q
    <2>1. i # q => q \in (i + 1)..q
      OBVIOUS
    <2> QED BY <1>1, <2>1
  <1> QED BY <1>1, <1>2

\* What is lost after a change stays so when later ones are added.
LEMMA EarlierLost ==
  ASSUME HostTypeOK, Grown, NEW c, NEW q \in 0..Len(hostLog)
  PROVE  LostAfter(c, q)' = LostAfter(c, q)
  <1>1. Len(hostLog) \in Nat
    BY LenProperties DEF HostTypeOK
  <1>2. \A i \in 1..q : i \in 1..Len(hostLog)
    BY <1>1
  <1>3. \A i \in 1..q : hostLog'[i] = hostLog[i]
    BY <1>2 DEF Grown
  <1>4. \A i \in 1..q : \A j \in (i + 1)..q : j \in 1..q
    OBVIOUS
  <1> QED BY <1>3, <1>4 DEF LostAfter

\* The table covers what it covered when the list grows.
LEMMA CoverGrows ==
  ASSUME HostTypeOK, Grown, Len(hostLog') \in Nat, table' = table,
         NEW p \in 0..Len(hostLog), CoverFrom(p)
  PROVE  \A c \in Nat :
           (\A q \in p..Len(hostLog') : LostAfter(c, q)') => c \in DOMAIN table' /\ table'[c] = 0
  <1> TAKE c \in Nat
  <1>1. SUFFICES ASSUME \A q \in p..Len(hostLog') : LostAfter(c, q)'
                 PROVE  c \in DOMAIN table /\ table[c] = 0
    OBVIOUS
  <1>2. Len(hostLog) \in Nat
    BY LenProperties DEF HostTypeOK
  <1>3. \A q \in p..Len(hostLog) : q \in 0..Len(hostLog) /\ q \in p..Len(hostLog')
    BY <1>2 DEF Grown
  <1>4. \A q \in p..Len(hostLog) : LostAfter(c, q)
    BY <1>1, <1>3, EarlierLost
  <1> QED BY <1>4 DEF CoverFrom

LEMMA CoverWeakens ==
  ASSUME NEW p \in Nat, NEW r \in Nat, r <= p, CoverFrom(p), Len(hostLog) \in Nat
  PROVE  CoverFrom(r)
  <1>1. p..Len(hostLog) \subseteq r..Len(hostLog)
    OBVIOUS
  <1> QED BY <1>1 DEF CoverFrom
-----------------------------------------------------------------------------
(* The steps.                                                              *)

\* What the proofs below use of the types.
LEMMA HostTypes ==
  ASSUME HostTypeOK
  PROVE  /\ Len(hostLog) \in Nat /\ Len(versions) \in Nat
         /\ \A i \in 1..Len(hostLog) : hostLog[i] \in ListEntry
         /\ \A n \in 0..Len(versions) : End(n) \in 0..Len(hostLog)
         /\ \A v \in KnownVersions : Covered(v) \in 0..Len(versions) /\ Upto(v) \in 0..Len(hostLog)
         /\ Zeros \in KnownVersions /\ Version(0) = Zeros /\ Covered(Zeros) = 0
  <1>1. /\ Len(hostLog) \in Nat /\ Len(versions) \in Nat
        /\ \A i \in 1..Len(hostLog) : hostLog[i] \in ListEntry
    BY LenProperties, ElementOfSeq DEF HostTypeOK
  <1>2. ASSUME NEW n \in 0..Len(versions) PROVE End(n) \in 0..Len(hostLog)
    <2>1. n = 0 \/ n \in 1..Len(versions)
      BY <1>1
    <2>2. n \in 1..Len(versions) => versions[n] \in Nat
      BY ElementOfSeq DEF HostTypeOK
    <2> QED BY <1>2, <2>1, <2>2, ChangesAfter
  <1>3. Zeros \in KnownVersions /\ Version(0) = Zeros /\ Covered(Zeros) = 0
    <2>1. Version(0) = Zeros /\ 0 \in 0..Len(versions)
      BY <1>1 DEF Version
    <2> QED BY <2>1, CoveredBy DEF KnownVersions
  <1>4. \A v \in KnownVersions : Covered(v) \in 0..Len(versions)
    BY <1>1, CoveredBy DEF KnownVersions
  <1> QED BY <1>1, <1>2, <1>3, <1>4 DEF Upto

\* A step that saves nothing, while the server's list may grow.
LEMMA RestKeeps ==
  ASSUME HostInv, HostTypeOK', Grown, UNCHANGED <<table, dbVersion>>,
         recv' \in {recv, NoList}, hpc' = "save" => hpc = "save" /\ recv' = recv,
         posVersion' = IF hpc' = "off" THEN Zeros ELSE dbVersion
  PROVE  HostInv'
  <1>1. /\ HostTypeOK /\ dbVersion \in KnownVersions /\ recv.version \in KnownVersions
        /\ CoverFrom(Upto(dbVersion)) /\ DOMAIN table \subseteq Nat
        /\ DOMAIN recv = {"list", "version"} /\ recv.list \in Seq([card : Nat, flag : {0, 1}])
    BY DEF HostInv, VersionInv, ListInv
  <1>2. Len(hostLog') \in Nat /\ Len(versions') \in Nat
    BY LenProperties DEF HostTypeOK
  <1>3. \A v \in KnownVersions : v \in KnownVersions' /\ Upto(v)' = Upto(v)
    BY <1>1, KnownStays DEF Grown
  <1>4. VersionInv'
    <2>1. recv'.version \in KnownVersions
      BY <1>1, HostTypes DEF NoList
    <2> QED BY <1>1, <1>3, <2>1 DEF VersionInv, Zeros
  <1>5. Upto(dbVersion)' = Upto(dbVersion) /\ Upto(dbVersion) \in 0..Len(hostLog)
    BY <1>1, <1>3, HostTypes
  <1>6. ASSUME NEW p \in 0..Len(hostLog), CoverFrom(p) PROVE
          \A c \in Nat :
            (\A q \in p..Len(hostLog') : LostAfter(c, q)') => c \in DOMAIN table' /\ table'[c] = 0
    BY <1>1, <1>2, <1>6, CoverGrows
  <1>7. CoverFrom(Upto(dbVersion))'
    BY <1>1, <1>5, <1>6 DEF CoverFrom
  <1>8. DOMAIN recv' = {"list", "version"} /\ recv'.list \in Seq([card : Nat, flag : {0, 1}])
    <2>1. DOMAIN NoList = {"list", "version"} /\ NoList.list = <<>> /\ <<>> \in Seq([card : Nat, flag : {0, 1}])
      BY DEF NoList
    <2> QED BY <1>1, <2>1
  <1>9. ASSUME hpc' = "save" PROVE (WholeInHand \/ CutInHand)'
    <2>1. hpc = "save" /\ recv' = recv /\ Len(recv.list) \in Nat
      BY <1>1, <1>9, LenProperties
    <2>2. CASE WholeInHand
      <3>1. PICK n \in 1..Len(versions) :
              /\ recv.version = Version(n)
              /\ Upto(dbVersion) <= End(n) - Len(recv.list)
              /\ \A j \in 1..Len(recv.list) :
                   recv.list[j] = hostLog[End(n) - Len(recv.list) + j]
              /\ CoverFrom(End(n) - Len(recv.list))
        BY <2>2 DEF WholeInHand
      <3> DEFINE p == End(n) - Len(recv.list)
      <3>2. n \in 1..Len(versions') /\ End(n)' = End(n) /\ End(n) \in 0..Len(hostLog)
        <4>1. n \in 0..Len(versions) /\ n # 0 /\ n \in 1..Len(versions')
          BY <1>1, <1>2, HostTypes DEF Grown
        <4> QED BY <1>1, <4>1, HostTypes DEF Grown, End
      <3>3. p \in 0..Len(hostLog) /\ \A j \in 1..Len(recv.list) : p + j \in 1..Len(hostLog)
        <4>1. Upto(dbVersion) <= p /\ Len(hostLog) \in Nat
          BY <1>1, <3>1, HostTypes
        <4>2. p \in 0..Len(hostLog) /\ p + Len(recv.list) = End(n)
          BY <1>5, <2>1, <3>2, <4>1
        <4> HIDE DEF p
        <4> QED BY <2>1, <3>2, <4>1, <4>2
      <3>4. \A j \in 1..Len(recv.list) : recv.list[j] = hostLog'[p + j]
        BY <3>1, <3>3 DEF Grown
      <3> HIDE DEF p
      <3>5. \A c \in Nat :
              (\A q \in p..Len(hostLog') : LostAfter(c, q)') => c \in DOMAIN table' /\ table'[c] = 0
        BY <1>6, <3>1, <3>3 DEF p
      <3>6. p' = p /\ recv'.version = Version(n)' /\ Upto(dbVersion)' <= p
        BY <1>5, <2>1, <3>1, <3>2 DEF p, Version, Zeros
      <3>7. CoverFrom(p)'
        BY <3>5, <3>6 DEF CoverFrom
      <3>8. WholeInHand'
        BY <2>1, <3>2, <3>4, <3>6, <3>7 DEF WholeInHand, p
      <3> QED BY <3>8
    <2>3. CASE CutInHand
      <3>1. recv'.version \in ({Zeros} \cup CutVersions)'
        BY <2>1, <2>3 DEF CutInHand, Zeros, CutVersions
      <3>2. ASSUME NEW j \in 1..Len(recv.list),
                   NEW q \in (Upto(dbVersion) + 1)..Len(hostLog), recv.list[j] = hostLog[q]
            PROVE  \E x \in (Upto(dbVersion)' + 1)..Len(hostLog') : recv.list[j] = hostLog'[x]
        <4>1. q \in 1..Len(hostLog) /\ q \in (Upto(dbVersion)' + 1)..Len(hostLog')
          BY <1>1, <1>2, <1>5, HostTypes DEF Grown
        <4> QED BY <3>2, <4>1 DEF Grown
      <3>3. CutInHand'
        BY <2>1, <2>3, <3>1, <3>2 DEF CutInHand
      <3> QED BY <3>3
    <2> QED BY <2>1, <2>2, <2>3 DEF HostInv, ListInv
  <1> QED BY <1>1, <1>4, <1>7, <1>8, <1>9 DEF HostInv, ListInv

\* A server that stays as it is has grown by nothing.
LEMMA SameServer ==
  ASSUME HostTypeOK, UNCHANGED server, hpc' \in {"heart", "download", "save", "dead", "off"}
  PROVE  /\ HostTypeOK' /\ Grown
         /\ KnownVersions' = KnownVersions
         /\ \A v : Covered(v)' = Covered(v) /\ Upto(v)' = Upto(v)
         /\ \A n : End(n)' = End(n)
         /\ \A c, q : LostAfter(c, q)' = LostAfter(c, q)
  <1>1. hostLog' = hostLog /\ versions' = versions
    BY DEF server
  <1>2. Len(hostLog) \in Nat /\ Len(versions) \in Nat
    BY HostTypes
  <1>3. HostTypeOK' /\ Grown
    BY <1>1, <1>2 DEF HostTypeOK, Grown, End
  <1> QED BY <1>1, <1>3 DEF KnownVersions, Version, Zeros, CutVersions, Covered, Earlier, Upto, End,
                            LostAfter

\* The formulas about the list in the next state, when the server's is as it was.
LEMMA NextInHand ==
  ASSUME HostTypeOK, UNCHANGED server, hpc' \in {"heart", "download", "save", "dead", "off"}
  PROVE  LET Covers(r) == \A c \in Nat :
               (\A q \in r..Len(hostLog) : LostAfter(c, q)) => c \in DOMAIN table' /\ table'[c] = 0
         IN  /\ CoverFrom(Upto(dbVersion))' <=> Covers(Upto(dbVersion'))
             /\ WholeInHand' <=>
                  \E n \in 1..Len(versions) :
                    LET r == End(n) - Len(recv'.list)
                    IN  /\ recv'.version = Version(n)
                        /\ Upto(dbVersion') <= r
                        /\ \A j \in 1..Len(recv'.list) : recv'.list[j] = hostLog[r + j]
                        /\ Covers(r)
             /\ CutInHand' <=>
                  /\ recv'.version \in {Zeros} \cup CutVersions
                  /\ \A j \in 1..Len(recv'.list) :
                       \/ recv'.list[j].flag = 0
                       \/ \E q \in (Upto(dbVersion') + 1)..Len(hostLog) : recv'.list[j] = hostLog[q]
             /\ VersionInv' <=>
                  /\ dbVersion' \in KnownVersions /\ recv'.version \in KnownVersions
                  /\ posVersion' = IF hpc' = "off" THEN Zeros ELSE dbVersion'
  <1>1. hostLog' = hostLog /\ versions' = versions
    BY DEF server
  <1>2. Upto(dbVersion)' = Upto(dbVersion')
    BY <1>1 DEF Upto, End, Covered, Earlier, Version, Zeros
  <1>3. /\ \A n : End(n)' = End(n)
        /\ \A c, q : LostAfter(c, q)' = LostAfter(c, q)
        /\ KnownVersions' = KnownVersions
    BY SameServer
  <1>4. Zeros' = Zeros /\ CutVersions' = CutVersions /\ \A n : Version(n)' = Version(n)
    BY DEF Zeros, CutVersions, Version
  <1>5. CoverFrom(Upto(dbVersion))' <=>
          \A c \in Nat :
            (\A q \in Upto(dbVersion')..Len(hostLog) : LostAfter(c, q))
              => c \in DOMAIN table' /\ table'[c] = 0
    BY <1>1, <1>2, <1>3 DEF CoverFrom
  <1>6. WholeInHand' <=>
          \E n \in 1..Len(versions) :
            LET r == End(n) - Len(recv'.list)
            IN  /\ recv'.version = Version(n)
                /\ Upto(dbVersion') <= r
                /\ \A j \in 1..Len(recv'.list) : recv'.list[j] = hostLog[r + j]
                /\ \A c \in Nat :
                     (\A q \in r..Len(hostLog) : LostAfter(c, q))
                       => c \in DOMAIN table' /\ table'[c] = 0
    BY <1>1, <1>2, <1>3, <1>4 DEF WholeInHand, CoverFrom
  <1>7. CutInHand' <=>
          /\ recv'.version \in {Zeros} \cup CutVersions
          /\ \A j \in 1..Len(recv'.list) :
               \/ recv'.list[j].flag = 0
               \/ \E q \in (Upto(dbVersion') + 1)..Len(hostLog) : recv'.list[j] = hostLog[q]
    BY <1>1, <1>2, <1>4 DEF CutInHand
  <1>8. VersionInv' <=>
          /\ dbVersion' \in KnownVersions /\ recv'.version \in KnownVersions
          /\ posVersion' = IF hpc' = "off" THEN Zeros ELSE dbVersion'
    BY <1>3, <1>4 DEF VersionInv
  <1> QED BY <1>5, <1>6, <1>7, <1>8

\* The answer to a download, whole or cut off.
LEMMA DownloadKeeps ==
  ASSUME MaxEntries <= 49, HostInv, DownloadAnswered(Reads(ListAnswer(posVersion)))
  PROVE  HostInv'
  <1>1. /\ hpc = "download" /\ HostTypeOK /\ dbVersion \in KnownVersions /\ posVersion = dbVersion
        /\ UNCHANGED <<posVersion, table, dbVersion>> /\ UNCHANGED server
        /\ CoverFrom(Upto(dbVersion)) /\ DOMAIN table \subseteq Nat
    BY DEF HostInv, VersionInv, ListInv, DownloadAnswered
  <1>2. PICK m, p, list : m = Len(versions) /\ p = Upto(dbVersion) /\ list = Changes(Covered(dbVersion))
    OBVIOUS
  <1>3. PICK buf \in Reads(ListAnswer(dbVersion)) :
          IF ParseList(buf).list = <<>>
          THEN hpc' = "heart" /\ UNCHANGED recv
          ELSE hpc' = "save" /\ recv' = ParseList(buf)
    BY <1>1 DEF DownloadAnswered
  <1>4. hpc' \in {"heart", "save"}
    BY <1>3
  <1>5. HostTypeOK' /\ Grown
    BY <1>1, <1>4, SameServer
  <1>6. /\ Covered(dbVersion) \in 0..m /\ m \in Nat /\ m <= MaxVersion
        /\ Len(hostLog) \in Nat /\ Len(hostLog) <= MaxEntries
    BY <1>1, <1>2, HostTypes DEF HostTypeOK
  <1>7. /\ p \in 0..Len(hostLog)
        /\ list \in Seq(ListEntry) /\ Len(list) = Len(hostLog) - p
        /\ \A j \in 1..Len(list) : list[j] = hostLog[p + j]
    <2>1. Covered(dbVersion) = 0 \/ versions[Covered(dbVersion)] \in Nat
      <3>1. Covered(dbVersion) # 0 => Covered(dbVersion) \in 1..m
        BY <1>6
      <3> QED BY <1>1, <1>2, <3>1, ElementOfSeq DEF HostTypeOK
    <2> QED BY <1>1, <1>2, <1>6, <2>1, ChangesAfter DEF Upto
  <1>8. Len(list) \in 0..49
    <2>1. \A a \in 0..100 : a <= 49 => \A b \in Nat : b <= a => b <= 49
      OBVIOUS
    <2>2. MaxEntries \in 0..100
      BY HostLinkAssumption
    <2>3. Len(list) \in Nat /\ Len(list) <= Len(hostLog)
      BY <1>6, <1>7
    <2>4. Len(hostLog) <= 49
      BY <1>6, <2>1, <2>2
    <2>5. \A a, b \in Nat : a <= 49 /\ b <= a => b \in 0..49
      OBVIOUS
    <2> QED BY <1>6, <2>3, <2>4, <2>5
  <1>9. CASE ParseList(buf).list = <<>>
    <2>1. hpc' = "heart" /\ recv' = recv
      BY <1>3, <1>9
    <2> QED BY <1>1, <1>5, <2>1, RestKeeps
  <1>10. CASE ParseList(buf).list # <<>>
    <2>1. hpc' = "save" /\ recv' = ParseList(buf)
      BY <1>3, <1>10
    <2>2. m \in 1..255
      <3>1. m # 0
        <4>1. SUFFICES ASSUME m = 0 PROVE FALSE
          OBVIOUS
        <4>2. Len(hostLog) = 0
          BY <1>1, <1>2, <4>1 DEF HostTypeOK, End
        <4>3. Len(list) = 0
          <5>1. p \in Nat /\ Len(list) \in Nat /\ p + Len(list) = 0
            BY <1>6, <1>7, <4>2
          <5>2. \A a, b \in Nat : a + b = 0 => b = 0
            OBVIOUS
          <5> QED BY <5>1, <5>2
        <4>4. PICK n \in Nat : HoldsAnswer(buf, list, m, n)
          BY <1>2, <1>6, <1>7, AnswerRead
        <4>5. At(buf, 8) = 0
          BY <4>3, <4>4 DEF HoldsAnswer
        <4>6. ParseList(buf).list = <<>>
          BY <4>5 DEF ParseList
        <4> QED BY <1>10, <4>6
      <3>2. m \in 0..255
        BY <1>6, Within255
      <3> QED BY <3>1, <3>2
    <2>3. /\ recv'.list \in Seq([card : Nat, flag : {0, 1}]) /\ Len(recv'.list) = Len(list)
          /\ \A i \in 1..Len(list) : recv'.list[i] = list[i] \/ recv'.list[i].flag = 0
          /\ \/ recv'.list = list /\ recv'.version = Version(m)
             \/ recv'.version \in {Zeros} \cup CutVersions
      <3>1. Len(list) <= 49 /\ Len(versions) = m /\ list = Changes(Covered(dbVersion))
        <4>1. \A a \in 0..49 : a <= 49
          OBVIOUS
        <4> QED BY <1>2, <1>8, <4>1
      <3>2. LET parsed == ParseList(buf)
            IN  \/ parsed.list = <<>>
                \/ /\ parsed.list \in Seq([card : Nat, flag : {0, 1}])
                   /\ Len(parsed.list) = Len(list)
                   /\ \A i \in 1..Len(list) : parsed.list[i] = list[i] \/ parsed.list[i].flag = 0
                   /\ \/ parsed.list = list /\ parsed.version = Version(m)
                      \/ parsed.version \in {Zeros} \cup CutVersions
        BY <1>7, <2>2, <3>1, ParsedList, ZenonT(60)
      <3> QED BY <1>10, <2>1, <3>2
    <2>4. recv'.version \in KnownVersions
      <3>1. versions # <<>>
        BY <1>1, <1>2, <2>2, EmptySeq DEF HostTypeOK
      <3>2. m \in 0..Len(versions)
        BY <1>2, <2>2
      <3>3. Zeros \in KnownVersions
        BY <1>1, HostTypes
      <3>4. Version(m) \in KnownVersions /\ CutVersions \subseteq KnownVersions
        BY <3>1, <3>2 DEF KnownVersions
      <3> QED BY <2>3, <3>3, <3>4
    <2>5. VersionInv'
      BY <1>1, <1>4, <2>1, <2>4, NextInHand
    <2>6. /\ \A c \in Nat :
               (\A q \in p..Len(hostLog) : LostAfter(c, q)) => c \in DOMAIN table' /\ table'[c] = 0
          /\ Upto(dbVersion') = p
      BY <1>1, <1>2 DEF CoverFrom
    <2>7. CoverFrom(Upto(dbVersion))'
      BY <1>1, <1>2, <1>4, <2>6, NextInHand
    <2>8. DOMAIN recv' = {"list", "version"}
      BY <2>1 DEF ParseList
    <2>9. CASE recv'.list = list /\ recv'.version = Version(m)
      <3>1. End(m) = Len(hostLog) /\ m \in 1..Len(versions)
        BY <1>1, <1>2, <2>2 DEF HostTypeOK
      <3>2. End(m) - Len(recv'.list) = p
        BY <1>6, <1>7, <2>9, <3>1
      <3>3. \A j \in 1..Len(recv'.list) : recv'.list[j] = hostLog[p + j]
        BY <1>7, <2>9
      <3>4. p <= p
        BY <1>7
      <3>5. WholeInHand'
        BY <1>1, <1>4, <2>6, <2>9, <3>1, <3>2, <3>3, <3>4, NextInHand
      <3> QED BY <1>1, <1>5, <2>3, <2>5, <2>7, <2>8, <3>5 DEF HostInv, ListInv
    <2>10. CASE recv'.version \in {Zeros} \cup CutVersions
      <3>1. ASSUME NEW j \in 1..Len(recv'.list), recv'.list[j] = list[j]
            PROVE  \E q \in (p + 1)..Len(hostLog) : recv'.list[j] = hostLog[q]
        <4>1. p + j \in (p + 1)..Len(hostLog)
          BY <1>6, <1>7, <2>3
        <4> QED BY <1>7, <2>3, <3>1, <4>1
      <3>2. CutInHand'
        BY <1>1, <1>4, <2>3, <2>6, <2>10, <3>1, NextInHand
      <3> QED BY <1>1, <1>5, <2>3, <2>5, <2>7, <2>8, <3>2 DEF HostInv, ListInv
    <2> QED BY <2>3, <2>9, <2>10
  <1> QED BY <1>9, <1>10

\* Saving an entry uncovers nothing from a change r on, if it says "lost" or is a
\* change after r.
LEMMA SaveCovers ==
  ASSUME HostTypeOK, NEW e \in [card : Nat, flag : {0, 1}],
         table' = [c \in DOMAIN table \cup {e.card} |-> IF c = e.card THEN e.flag ELSE table[c]],
         NEW r \in 0..Len(hostLog), CoverFrom(r),
         e.flag = 0 \/ \E q \in (r + 1)..Len(hostLog) : e = hostLog[q]
  PROVE  \A c \in Nat :
           (\A q \in r..Len(hostLog) : LostAfter(c, q)) => c \in DOMAIN table' /\ table'[c] = 0
  <1> TAKE c \in Nat
  <1>1. SUFFICES ASSUME \A q \in r..Len(hostLog) : LostAfter(c, q)
                 PROVE  c \in DOMAIN table' /\ table'[c] = 0
    OBVIOUS
  <1>2. c \in DOMAIN table /\ table[c] = 0
    BY <1>1 DEF CoverFrom
  <1>3. c = e.card => e.flag = 0
    <2>1. SUFFICES ASSUME c = e.card, NEW q \in (r + 1)..Len(hostLog), e = hostLog[q]
                   PROVE  e.flag = 0
      OBVIOUS
    <2>2. Len(hostLog) \in Nat
      BY HostTypes
    <2>3. q \in Nat \ {0} /\ q \in r..Len(hostLog)
      BY <2>2
    <2> QED BY <1>1, <2>1, <2>3, LostBy
  <1> QED BY <1>2, <1>3

\* Saving the next change covers the cards that are lost from it on.
LEMMA SaveAdvances ==
  ASSUME HostTypeOK, NEW e,
         table' = [c \in DOMAIN table \cup {e.card} |-> IF c = e.card THEN e.flag ELSE table[c]],
         NEW p \in Nat, p < Len(hostLog), CoverFrom(p), e = hostLog[p + 1]
  PROVE  \A c \in Nat :
           (\A q \in (p + 1)..Len(hostLog) : LostAfter(c, q)) => c \in DOMAIN table' /\ table'[c] = 0
  <1> TAKE c \in Nat
  <1>1. SUFFICES ASSUME \A q \in (p + 1)..Len(hostLog) : LostAfter(c, q)
                 PROVE  c \in DOMAIN table' /\ table'[c] = 0
    OBVIOUS
  <1>2. Len(hostLog) \in Nat
    BY HostTypes
  <1>3. LostAfter(c, p + 1)
    BY <1>1, <1>2
  <1>4. CASE e.card = c
    <2>1. hostLog[p + 1] = [card |-> c, flag |-> 0]
      BY <1>3, <1>4, NextLost
    <2> QED BY <1>4, <2>1
  <1>5. CASE e.card # c
    <2>1. LostAfter(c, p)
      BY <1>3, <1>5, NextLost
    <2>2. \A q \in p..Len(hostLog) : q = p \/ q \in (p + 1)..Len(hostLog)
      BY <1>2
    <2>3. c \in DOMAIN table /\ table[c] = 0
      BY <1>1, <2>1, <2>2 DEF CoverFrom
    <2> QED BY <1>5, <2>3
  <1> QED BY <1>4, <1>5

LEMMA SaveKeeps ==
  ASSUME HostInv, SaveBlackcard
  PROVE  HostInv'
  <1>1. /\ HostTypeOK /\ VersionInv /\ dbVersion \in KnownVersions /\ recv.version \in KnownVersions
        /\ posVersion = IF hpc = "off" THEN Zeros ELSE dbVersion
        /\ CoverFrom(Upto(dbVersion)) /\ DOMAIN table \subseteq Nat
        /\ DOMAIN recv = {"list", "version"} /\ recv.list \in Seq([card : Nat, flag : {0, 1}])
        /\ (WholeInHand \/ CutInHand)
        /\ hpc = "save" /\ recv.list # <<>>
        /\ UNCHANGED <<hpc, posVersion, dbVersion>> /\ UNCHANGED server
    BY DEF HostInv, VersionInv, ListInv, SaveBlackcard
  <1>2. PICK r, l, e : r = Upto(dbVersion) /\ l = recv.list /\ e = Head(recv.list)
    OBVIOUS
  <1>3. /\ table' = [c \in DOMAIN table \cup {e.card} |-> IF c = e.card THEN e.flag ELSE table[c]]
        /\ recv' = [recv EXCEPT !.list = Tail(recv.list)]
    BY <1>2 DEF SaveBlackcard
  <1>4. /\ l \in Seq([card : Nat, flag : {0, 1}]) /\ l # <<>>
        /\ Tail(l) \in Seq([card : Nat, flag : {0, 1}])
        /\ Len(l) \in Nat \ {0} /\ Len(Tail(l)) = Len(l) - 1
        /\ \A j \in 1..Len(Tail(l)) : Tail(l)[j] = l[j + 1]
        /\ e = l[1] /\ e \in [card : Nat, flag : {0, 1}]
    <2>1. l \in Seq([card : Nat, flag : {0, 1}]) /\ l # <<>> /\ e = Head(l)
      BY <1>1, <1>2
    <2>2. Len(l) \in Nat \ {0}
      BY <2>1, LenProperties, EmptySeq
    <2>3. /\ Tail(l) \in Seq([card : Nat, flag : {0, 1}]) /\ Len(Tail(l)) = Len(l) - 1
          /\ \A j \in 1..Len(Tail(l)) : Tail(l)[j] = l[j + 1]
          /\ Head(l) \in [card : Nat, flag : {0, 1}]
      BY <2>1, HeadTailProperties
    <2> QED BY <2>1, <2>2, <2>3
  <1>5. HostTypeOK' /\ Grown
    BY <1>1, SameServer
  <1>6. r \in 0..Len(hostLog) /\ Len(hostLog) \in Nat /\ Upto(dbVersion') = r
    BY <1>1, <1>2, HostTypes
  <1>7. recv'.list = Tail(l) /\ recv'.version = recv.version /\ DOMAIN recv' = {"list", "version"}
    BY <1>1, <1>2, <1>3
  <1>8. VersionInv' /\ DOMAIN table' \subseteq Nat
    <2>1. VersionInv'
      BY <1>1, <1>7, NextInHand
    <2> QED BY <1>1, <1>3, <1>4, <2>1
  <1>9. ASSUME e.flag = 0 \/ \E q \in (r + 1)..Len(hostLog) : e = hostLog[q],
               (WholeInHand \/ CutInHand)'
        PROVE  HostInv'
    <2>1. \A c \in Nat :
            (\A q \in r..Len(hostLog) : LostAfter(c, q)) => c \in DOMAIN table' /\ table'[c] = 0
      <3>1. HostTypeOK /\ e \in [card : Nat, flag : {0, 1}] /\ CoverFrom(r)
        BY <1>1, <1>2, <1>4
      <3> QED BY <1>3, <1>6, <1>9, <3>1, SaveCovers, ZenonT(60)
    <2>2. CoverFrom(Upto(dbVersion))'
      BY <1>1, <1>6, <2>1, NextInHand
    <2> QED BY <1>4, <1>5, <1>7, <1>8, <1>9, <2>2 DEF HostInv, ListInv
  <1>10. CASE WholeInHand
    <2> PICK n \in 1..Len(versions) :
          /\ recv.version = Version(n) /\ r <= End(n) - Len(l)
          /\ \A j \in 1..Len(l) : l[j] = hostLog[End(n) - Len(l) + j]
          /\ CoverFrom(End(n) - Len(l))
      BY <1>2, <1>10 DEF WholeInHand
    <2> PICK p : p = End(n) - Len(l)
      OBVIOUS
    <2>1. /\ p = End(n) - Len(l) /\ recv.version = Version(n) /\ r <= p
          /\ \A j \in 1..Len(l) : l[j] = hostLog[p + j]
          /\ CoverFrom(p)
      OBVIOUS
    <2>2. End(n) \in 0..Len(hostLog)
      BY <1>1, HostTypes
    <2>3. /\ p \in Nat /\ p < Len(hostLog) /\ p + 1 \in (r + 1)..Len(hostLog)
          /\ End(n) - Len(Tail(l)) = p + 1
      BY <1>4, <1>6, <2>1, <2>2
    <2>4. e = hostLog[p + 1]
      BY <1>4, <2>1
    <2>5. \A c \in Nat :
            (\A q \in (p + 1)..Len(hostLog) : LostAfter(c, q)) => c \in DOMAIN table' /\ table'[c] = 0
      BY <1>1, <1>3, <2>1, <2>3, <2>4, SaveAdvances
    <2>6. \A j \in 1..Len(Tail(l)) : Tail(l)[j] = hostLog[p + 1 + j]
      <3>1. \A j \in 1..Len(Tail(l)) : j + 1 \in 1..Len(l) /\ p + (j + 1) = p + 1 + j
        BY <1>4, <2>3
      <3> QED BY <1>4, <2>1, <3>1
    <2>7. r <= p + 1
      BY <1>6, <2>1, <2>3
    <2>8. WholeInHand'
      <3>1. /\ recv'.version = Version(n) /\ Upto(dbVersion') <= p + 1
            /\ End(n) - Len(recv'.list) = p + 1
            /\ \A j \in 1..Len(recv'.list) : recv'.list[j] = hostLog[p + 1 + j]
        BY <1>6, <1>7, <2>1, <2>3, <2>6, <2>7
      <3>2. HostTypeOK /\ UNCHANGED server /\ hpc' = "save"
        BY <1>1
      <3> QED BY <2>5, <3>1, <3>2, NextInHand
    <2> QED BY <1>9, <2>3, <2>4, <2>8
  <1>11. CASE CutInHand
    <2>1. /\ recv.version \in {Zeros} \cup CutVersions
          /\ \A j \in 1..Len(l) :
               l[j].flag = 0 \/ \E q \in (r + 1)..Len(hostLog) : l[j] = hostLog[q]
      BY <1>2, <1>11 DEF CutInHand
    <2>2. \A j \in 1..Len(Tail(l)) : j + 1 \in 1..Len(l)
      BY <1>4
    <2>3. CutInHand'
      <3>1. \A j \in 1..Len(Tail(l)) :
              \/ Tail(l)[j].flag = 0
              \/ \E q \in (r + 1)..Len(hostLog) : Tail(l)[j] = hostLog[q]
        BY <1>4, <2>1, <2>2
      <3>2. /\ recv'.version \in {Zeros} \cup CutVersions
            /\ \A j \in 1..Len(recv'.list) :
                 \/ recv'.list[j].flag = 0
                 \/ \E q \in (Upto(dbVersion') + 1)..Len(hostLog) : recv'.list[j] = hostLog[q]
        BY <1>6, <1>7, <2>1, <3>1
      <3>3. HostTypeOK /\ UNCHANGED server /\ hpc' = "save"
        BY <1>1
      <3> QED BY <3>2, <3>3, NextInHand
    <2>4. 1 \in 1..Len(l)
      BY <1>4
    <2> QED BY <1>4, <1>9, <2>1, <2>3, <2>4
  <1> QED BY <1>1, <1>10, <1>11

\* The version is stored when its list is: all of it, or none of a made-up one.
LEMMA UpdateKeeps ==
  ASSUME HostInv, UpdateVersion
  PROVE  HostInv'
  <1>1. /\ HostTypeOK /\ dbVersion \in KnownVersions /\ recv.version \in KnownVersions
        /\ CoverFrom(Upto(dbVersion)) /\ DOMAIN table \subseteq Nat
        /\ (WholeInHand \/ CutInHand) /\ recv.list = <<>>
        /\ dbVersion' = recv.version /\ posVersion' = recv.version /\ recv' = NoList
        /\ hpc' = "heart" /\ table' = table /\ UNCHANGED server
    BY DEF HostInv, VersionInv, ListInv, UpdateVersion
  <1>2. HostTypeOK'
    BY <1>1, SameServer
  <1>3. /\ recv'.version = Zeros /\ recv'.list = <<>> /\ Zeros \in KnownVersions
        /\ DOMAIN recv' = {"list", "version"} /\ <<>> \in Seq([card : Nat, flag : {0, 1}])
    BY <1>1, HostTypes DEF NoList
  <1>4. VersionInv'
    BY <1>1, <1>3, NextInHand
  <1>5. CoverFrom(Upto(recv.version))
    <2>1. CASE WholeInHand
      <3>1. PICK n \in 1..Len(versions) :
              recv.version = Version(n) /\ CoverFrom(End(n) - Len(recv.list))
        BY <2>1 DEF WholeInHand
      <3>2. n \in 0..Len(versions)
        BY <1>1, HostTypes
      <3>3. End(n) - Len(recv.list) = End(n)
        <4>1. End(n) \in Nat /\ Len(recv.list) = 0
          BY <1>1, <3>2, HostTypes
        <4> QED BY <4>1
      <3>4. Upto(recv.version) = End(n)
        BY <1>1, <3>1, <3>2, CoveredBy DEF Upto
      <3> QED BY <3>1, <3>3, <3>4
    <2>2. CASE CutInHand
      <3>1. Covered(recv.version) = 0
        BY <1>1, <2>2, CoveredBy, HostTypes DEF CutInHand
      <3>2. Upto(recv.version) = 0
        BY <3>1 DEF Upto, End
      <3>3. PICK r \in Nat : r = Upto(dbVersion) /\ CoverFrom(r)
        BY <1>1, HostTypes
      <3>4. Len(hostLog) \in Nat
        BY <1>1, HostTypes
      <3>5. 0 <= r /\ 0 \in Nat
        BY <3>3
      <3> QED BY <3>2, <3>3, <3>4, <3>5, CoverWeakens
    <2> QED BY <1>1, <2>1, <2>2
  <1>6. CoverFrom(Upto(dbVersion))'
    BY <1>1, <1>5, NextInHand DEF CoverFrom
  <1> QED BY <1>1, <1>2, <1>3, <1>4, <1>6 DEF HostInv, ListInv

LEMMA HostStep ==
  ASSUME MaxEntries <= 49, HostInv, [Next]_vars
  PROVE  HostInv'
  <1> DEFINE Kept == /\ UNCHANGED <<table, dbVersion>>
                     /\ recv' \in {recv, NoList} /\ (hpc' = "save" => hpc = "save" /\ recv' = recv)
                     /\ posVersion' = IF hpc' = "off" THEN Zeros ELSE dbVersion'
  <1>1. HostTypeOK /\ posVersion = IF hpc = "off" THEN Zeros ELSE dbVersion
    BY DEF HostInv, VersionInv
  <1>2. ASSUME Kept, UNCHANGED server, hpc' \in {"heart", "download", "save", "dead", "off"}
        PROVE  HostInv'
    BY <1>1, <1>2, SameServer, RestKeeps
  <1>3. CASE ConnectFails
    BY <1>1, <1>2, <1>3 DEF ConnectFails
  <1>4. CASE ReadFails
    BY <1>1, <1>2, <1>4 DEF ReadFails
  <1>5. CASE NoSocket
    BY <1>1, <1>2, <1>5 DEF NoSocket
  <1>6. CASE HeartAnswered(Reads(HeartAnswer))
    BY <1>1, <1>2, <1>6 DEF HeartAnswered
  <1>7. CASE SaveFails
    BY <1>1, <1>2, <1>7 DEF SaveFails
  <1>8. CASE LosePower
    BY <1>1, <1>2, <1>8 DEF LosePower
  <1>9. CASE Boot
    BY <1>1, <1>2, <1>9 DEF Boot
  <1>10. CASE UNCHANGED vars
    BY <1>1, <1>2, <1>10 DEF vars, server, HostTypeOK
  <1>11. ASSUME NEW batch \in Batches, HostChanges(batch) PROVE HostInv'
    <2>1. Kept
      BY <1>1, <1>11 DEF HostChanges
    <2> QED BY <1>1, <1>11, <2>1, ServerGrows, RestKeeps
  <1>12. CASE DownloadAnswered(Reads(ListAnswer(posVersion)))
    BY <1>12, DownloadKeeps
  <1>13. CASE SaveBlackcard
    BY <1>13, SaveKeeps
  <1>14. CASE UpdateVersion
    BY <1>14, UpdateKeeps
  <1> QED BY <1>3, <1>4, <1>5, <1>6, <1>7, <1>8, <1>9, <1>10, <1>11, <1>12, <1>13, <1>14
          DEF Next, ThreadStep

LEMMA HostInit == Init => HostInv
  <1> SUFFICES ASSUME Init PROVE HostInv
    OBVIOUS
  <1>1. /\ hpc = "heart" /\ hostLog = <<>> /\ versions = <<>> /\ table = <<>>
        /\ posVersion = Zeros /\ dbVersion = Zeros /\ recv = NoList
    BY DEF Init
  <1>2. Len(hostLog) = 0 /\ Len(versions) = 0 /\ 0 <= MaxEntries /\ 0 <= MaxVersion
    <2>1. MaxEntries \in 0..100 /\ MaxVersion \in 0..255
      BY HostLinkAssumption
    <2> QED BY <1>1, <2>1
  <1>3. HostTypeOK
    <2>1. hostLog \in Seq(ListEntry) /\ versions \in Seq(Nat) /\ 1..0 = {}
      BY <1>1
    <2> QED BY <1>1, <1>2, <2>1 DEF HostTypeOK, End
  <1>4. Zeros \in KnownVersions /\ Upto(Zeros) = 0
    BY <1>3, HostTypes DEF Upto, End
  <1>5. CoverFrom(0)
    <2>1. ASSUME NEW c \in Nat PROVE ~LostAfter(c, 0) /\ 0 \in 0..0
      <3>1. 1..0 = {}
        OBVIOUS
      <3> QED BY <3>1 DEF LostAfter
    <2> QED BY <1>2, <2>1 DEF CoverFrom
  <1>6. VersionInv
    BY <1>1, <1>4 DEF VersionInv, NoList
  <1>7. DOMAIN table \subseteq Nat /\ DOMAIN recv = {"list", "version"} /\ recv.list = <<>>
        /\ <<>> \in Seq([card : Nat, flag : {0, 1}])
    BY <1>1 DEF NoList
  <1> QED BY <1>1, <1>3, <1>4, <1>5, <1>6, <1>7 DEF HostInv, ListInv
-----------------------------------------------------------------------------
(* Theorems.                                                               *)

\* While the server's list has at most 49 changes, so that no answer holds more
\* entries, the machine's table and versions are what HostInv says, wherever the
\* reads are cut off and the power is lost
\* (service.c:352, p16main.c:892-921, 1036-1066).
THEOREM HostInvariant ==
  ASSUME MaxEntries <= 49
  PROVE  Spec => []HostInv
  <1>1. HostInv /\ [Next]_vars => HostInv'
    BY HostStep
  <1> QED BY <1>1, HostInit, PTL DEF Spec

\* The stored version is never later than the server's, although a cut-off read
\* makes versions up (p16main.c:1036, 1066).
THEOREM VersionsReached ==
  ASSUME MaxEntries <= 49
  PROVE  Spec => []VersionNotAhead
  <1>1. ASSUME HostInv PROVE VersionNotAhead
    <2>1. HostTypeOK /\ dbVersion \in KnownVersions /\ Len(versions) \in Nat
      BY <1>1, HostTypes DEF HostInv, VersionInv
    <2>2. PICK m : m = Len(versions)
      OBVIOUS
    <2>3. m \in 0..255
      BY <2>1, <2>2, Within255 DEF HostTypeOK
    <2>4. ASSUME NEW n \in 0..m, dbVersion = Version(n) PROVE VersionNotAhead
      <3>1. n \in 0..255 /\ ~(m < n)
        BY <2>3
      <3> QED BY <2>2, <2>3, <2>4, <3>1, VersionOrder DEF VersionNotAhead
    <2>5. ASSUME versions # <<>>, dbVersion \in CutVersions PROVE VersionNotAhead
      <3>1. m # 0
        BY <2>1, <2>2, <2>5, EmptySeq DEF HostTypeOK
      <3>2. m \in 1..255
        BY <2>3, <3>1
      <3> QED BY <2>2, <2>5, <3>2, CutIsEarly DEF VersionNotAhead
    <2> QED BY <2>1, <2>2, <2>4, <2>5 DEF KnownVersions
  <1> QED BY <1>1, HostInvariant, PTL

\* A card that has been lost ever since the version the machine stores is in its
\* table as lost.
THEOREM LostAreKnown ==
  ASSUME MaxEntries <= 49
  PROVE  Spec => []LostCardsKnown
  <1>1. ASSUME HostInv PROVE LostCardsKnown
    <2>1. HostTypeOK /\ CoverFrom(Upto(dbVersion))
      BY <1>1 DEF HostInv, ListInv
    <2>2. \A i \in DOMAIN hostLog : hostLog[i].card \in Nat
      <3>1. DOMAIN hostLog = 1..Len(hostLog)
        BY <2>1, LenProperties DEF HostTypeOK
      <3> QED BY <2>1, <3>1, HostTypes DEF ListEntry
    <2> QED BY <2>1, <2>2 DEF LostCardsKnown, CoverFrom, Upto
  <1> QED BY <1>1, HostInvariant, PTL
=============================================================================
