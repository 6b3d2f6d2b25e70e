--------------------------- MODULE LossListProofs ---------------------------
(***************************************************************************)
(* The loss list: the version in the database never claims a change that   *)
(* the table lacks, and a card that gives up an amount was looked up.      *)
(***************************************************************************)
EXTENDS PurchaseMachineProofs, WellFoundedInduction

\* Each card's flag in the table is the one after some change that is not
\* before version v.
CoverFrom(v) == \A c \in Cards : \E n \in v..Len(hostLog) : black[c] = FlagAt(c, n)

\* The change up to which a list under way is saved.
Saved == recvVersion - Len(recvList)

\* The table covers the version in memory, which is not behind the one in the
\* database; without power, the one in the database.  What is still to be saved
\* are the changes between Saved and the version that the list brings.
ListInv ==
  /\ dbVersion <= Len(hostLog) /\ posVersion <= Len(hostLog)
  /\ IF upc = "off" THEN CoverFrom(dbVersion)
     ELSE dbVersion <= posVersion /\ CoverFrom(posVersion)
  /\ upc \in {"save", "version"} =>
       /\ posVersion <= Saved /\ recvVersion <= Len(hostLog)
       /\ \A j \in 1..Len(recvList) : recvList[j] = hostLog[Saved + j]
       /\ CoverFrom(Saved)
  /\ upc = "version" => recvList = <<>>

-----------------------------------------------------------------------------
(* The flag of a card after a number of changes.                           *)

\* A set of indices has a last one.
LEMMA LastIndex ==
  ASSUME NEW n \in Nat, NEW S, S \subseteq 1..n, S # {}
  PROVE  \E m \in S : \A j \in S : j <= m
  <1> DEFINE T == {n - i : i \in S}
             R == {p \in Nat \X Nat : p[1] < p[2]}
  <1>1. \A i \in S : i \in Nat /\ n - i \in Nat
    OBVIOUS
  <1>2. T \subseteq Nat /\ T # {}
    BY <1>1
  <1>3. IsWellFoundedOn(R, Nat)
    BY NatLessThanWellFounded DEF OpToRel
  <1> HIDE DEF R
  <1>4. PICK t \in T : \A u \in T : <<u, t>> \notin R
    BY <1>2, <1>3, WFMin
  <1>5. PICK m \in S : t = n - m
    BY <1>4
  <1>6. ASSUME NEW j \in S PROVE j <= m
    <2>1. n - j \in T /\ n - j \in Nat /\ n - m \in Nat
      BY <1>1
    <2>2. ~(n - j < n - m)
      BY <1>4, <1>5, <2>1 DEF R
    <2> QED BY <1>1, <2>2
  <1> QED BY <1>6

\* A change that comes later does not alter the flags before it.
LEMMA EarlierFlags ==
  ASSUME hostLog \in Seq(ListEntries), NEW e \in ListEntries,
         hostLog' = Append(hostLog, e), NEW c, NEW n \in 0..Len(hostLog)
  PROVE  FlagAt(c, n)' = FlagAt(c, n)
  <1> DEFINE changes == {i \in 1..n : hostLog[i].card = c}
             last == CHOOSE i \in changes : \A j \in changes : j <= i
  <1>1. \A i \in 1..n : hostLog'[i] = hostLog[i]
    BY AppendProperties
  <1>2. {i \in 1..n : hostLog'[i].card = c} = changes
    BY <1>1
  <1>3. ASSUME changes # {} PROVE last \in 1..n
    <2>1. n \in Nat /\ changes \subseteq 1..n
      OBVIOUS
    <2>2. \E i \in changes : \A j \in changes : j <= i
      BY <1>3, <2>1, LastIndex
    <2>3. last \in changes
      BY <2>2
    <2> QED BY <2>1, <2>3
  <1>4. CASE changes = {}
    BY <1>2, <1>4 DEF FlagAt
  <1>5. CASE changes # {}
    <2>1. hostLog'[last] = hostLog[last]
      BY <1>1, <1>3, <1>5
    <2>2. FlagAt(c, n) = hostLog[last].flag
      BY <1>5 DEF FlagAt
    <2>3. FlagAt(c, n)' = hostLog'[last].flag
      BY <1>2, <1>5 DEF FlagAt
    <2> QED BY <2>1, <2>2, <2>3
  <1> QED BY <1>4, <1>5

\* One change further, the card it is about has its flag, the others keep theirs.
LEMMA NextFlag ==
  ASSUME NEW c, NEW n \in Nat
  PROVE  FlagAt(c, n + 1) =
           IF hostLog[n + 1].card = c THEN hostLog[n + 1].flag ELSE FlagAt(c, n)
  <1> DEFINE changes(m) == {i \in 1..m : hostLog[i].card = c}
             last(S) == CHOOSE i \in S : \A j \in S : j <= i
  <1>1. \A m \in Nat : FlagAt(c, m) = IF changes(m) = {} THEN "none"
                                      ELSE hostLog[last(changes(m))].flag
    BY DEF FlagAt
  <1>2. CASE hostLog[n + 1].card = c
    <2>1. n + 1 \in changes(n + 1) /\ \A j \in changes(n + 1) : j \in Int /\ j <= n + 1
      BY <1>2
    <2>2. last(changes(n + 1)) = n + 1
      BY <2>1
    <2> HIDE DEF changes, last
    <2> QED BY <1>1, <1>2, <2>1, <2>2
  <1>3. CASE hostLog[n + 1].card # c
    <2>1. changes(n + 1) = changes(n)
      BY <1>3
    <2> HIDE DEF changes, last
    <2> QED BY <1>1, <1>3, <2>1
  <1> QED BY <1>2, <1>3

\* A step that leaves the server's list alone leaves the flags alone.
LEMMA SameFlags ==
  ASSUME hostLog' = hostLog
  PROVE  \A c, n : FlagAt(c, n)' = FlagAt(c, n)
BY DEF FlagAt

\* A step that touches neither table nor list covers what it covered.
LEMMA CoverStays ==
  ASSUME hostLog' = hostLog, black' = black, NEW v, CoverFrom(v)
  PROVE  \A c \in Cards : \E n \in v..Len(hostLog') : black'[c] = FlagAt(c, n)'
  <1>1. \A c, n : FlagAt(c, n)' = FlagAt(c, n)
    BY SameFlags
  <1>2. \A c \in Cards : \E n \in v..Len(hostLog) : black[c] = FlagAt(c, n)
    BY DEF CoverFrom
  <1> QED BY <1>1, <1>2

-----------------------------------------------------------------------------
(* The download of a list.                                                 *)

\* What the proofs below use of the machine's other invariant.
LEMMA ListBasics ==
  ASSUME PurchaseInv
  PROVE  /\ dbVersion \in Nat /\ posVersion \in Nat /\ recvVersion \in Nat
         /\ hostLog \in Seq(ListEntries) /\ Len(hostLog) \in Nat
         /\ recvList \in Seq(ListEntries) /\ Len(recvList) \in Nat
         /\ upc = "save" => recvList # <<>>
         /\ black \in [Cards -> CardFlags \cup {"none"}]
BY DEF PurchaseInv, TypeOK, StoreTypeOK, UploadTypeOK, ListInHand

\* A table that covers a version covers the ones before it.
LEMMA CoverWeakens ==
  ASSUME NEW v \in Nat, NEW w \in Nat, w <= v, CoverFrom(v), Len(hostLog) \in Nat
  PROVE  CoverFrom(w)
  <1>1. v..Len(hostLog) \subseteq w..Len(hostLog)
    OBVIOUS
  <1> QED BY <1>1 DEF CoverFrom

\* The server's answer brings the changes after the version in memory.
LEMMA DownloadKeepsList ==
  ASSUME PurchaseInv, ListInv, SendDownload, UNCHANGED mainVars
  PROVE  ListInv'
  <1>1. /\ upc = "download" /\ upc' = IF Len(hostLog) > posVersion THEN "save" ELSE "fetch"
        /\ recvList' = SubSeq(hostLog, posVersion + 1, Len(hostLog))
        /\ recvVersion' = Len(hostLog)
        /\ UNCHANGED <<posVersion, hostLog, black, dbVersion>>
    BY DEF SendDownload, Step, netVars, storeVars
  <1>2. /\ posVersion \in Nat /\ Len(hostLog) \in Nat /\ posVersion <= Len(hostLog)
        /\ dbVersion <= posVersion /\ CoverFrom(posVersion) /\ dbVersion \in Nat
    BY <1>1, ListBasics DEF ListInv
  <1>3. /\ Len(recvList') = Len(hostLog) - posVersion
        /\ \A j \in 1..Len(recvList') : recvList'[j] = hostLog[posVersion + j]
    <2>1. \A i \in posVersion + 1 .. Len(hostLog) : hostLog[i] \in ListEntries
      BY <1>2, ListBasics
    <2>2. /\ Len(recvList') = IF posVersion + 1 <= Len(hostLog)
                              THEN Len(hostLog) - (posVersion + 1) + 1 ELSE 0
          /\ \A j \in 1 .. Len(hostLog) - (posVersion + 1) + 1 :
               recvList'[j] = hostLog[posVersion + 1 + j - 1]
      BY <1>1, <1>2, <2>1, SubSeqProperties
    <2>3. Len(recvList') = Len(hostLog) - posVersion
      BY <1>2, <2>2
    <2>4. ASSUME NEW j \in 1..Len(recvList') PROVE recvList'[j] = hostLog[posVersion + j]
      <3>1. j \in 1 .. Len(hostLog) - (posVersion + 1) + 1 /\ posVersion + 1 + j - 1 = posVersion + j
        BY <1>2, <2>3
      <3> QED BY <2>2, <3>1
    <2> QED BY <2>3, <2>4
  <1>4. Saved' = posVersion
    BY <1>1, <1>2, <1>3 DEF Saved
  <1>5. \A c \in Cards : \E n \in posVersion..Len(hostLog') : black'[c] = FlagAt(c, n)'
    BY <1>1, <1>2, CoverStays
  <1>6. CoverFrom(posVersion)' /\ CoverFrom(Saved)'
    BY <1>1, <1>4, <1>5 DEF CoverFrom
  <1> QED BY <1>1, <1>2, <1>3, <1>4, <1>5, <1>6 DEF ListInv

\* One card saved: the table covers one change more.
LEMMA SaveKeepsList ==
  ASSUME PurchaseInv, ListInv, SaveBlackcard, UNCHANGED mainVars
  PROVE  ListInv'
  <1> DEFINE e == Head(recvList)
             n == Saved
  <1>1. /\ upc = "save" /\ upc' = IF Len(recvList) = 1 THEN "version" ELSE "save"
        /\ black' = [black EXCEPT ![e.card] = e.flag] /\ recvList' = Tail(recvList)
        /\ UNCHANGED <<posVersion, recvVersion, hostLog, dbVersion>>
    BY DEF SaveBlackcard, netVars
  <1>2. /\ recvVersion \in Nat /\ posVersion \in Nat /\ dbVersion \in Nat
        /\ Len(hostLog) \in Nat /\ Len(recvList) \in Nat \ {0}
        /\ posVersion <= n /\ recvVersion <= Len(hostLog)
        /\ dbVersion <= posVersion /\ dbVersion <= Len(hostLog) /\ posVersion <= Len(hostLog)
        /\ CoverFrom(n)
        /\ black \in [Cards -> CardFlags \cup {"none"}]
    BY <1>1, ListBasics, EmptySeq DEF ListInv
  <1>3. /\ e = recvList[1] /\ Len(recvList') = Len(recvList) - 1
        /\ \A j \in 1..Len(recvList') : recvList'[j] = recvList[j + 1]
    BY <1>1, ListBasics, HeadTailProperties
  <1>4. n \in Nat /\ n + 1 <= Len(hostLog) /\ Saved' = n + 1
    BY <1>1, <1>2, <1>3 DEF Saved
  <1>5. /\ e = hostLog[n + 1]
        /\ \A j \in 1..Len(recvList') : recvList'[j] = hostLog[n + 1 + j]
    <2>1. \A j \in 1..Len(recvList) : recvList[j] = hostLog[n + j]
      BY <1>1 DEF ListInv
    <2>2. ASSUME NEW j \in 1..Len(recvList') PROVE recvList'[j] = hostLog[n + 1 + j]
      <3>1. j + 1 \in 1..Len(recvList) /\ n + (j + 1) = n + 1 + j
        BY <1>2, <1>3, <1>4
      <3> QED BY <1>3, <2>1, <3>1
    <2>3. 1 \in 1..Len(recvList)
      BY <1>2
    <2> QED BY <1>3, <2>1, <2>2, <2>3
  <1> HIDE DEF e, n
  <1>6. ASSUME NEW c \in Cards
        PROVE  \E m \in n + 1 .. Len(hostLog) : black'[c] = FlagAt(c, m)
    <2>1. PICK m \in n..Len(hostLog) : black[c] = FlagAt(c, m)
      BY <1>2 DEF CoverFrom
    <2>2. FlagAt(c, n + 1) = IF e.card = c THEN e.flag ELSE FlagAt(c, n)
      BY <1>4, <1>5, NextFlag
    <2>3. CASE e.card = c
      BY <1>1, <1>2, <1>4, <2>2, <2>3
    <2>4. CASE e.card # c /\ m = n
      BY <1>1, <1>2, <1>4, <2>1, <2>2, <2>4
    <2>5. CASE e.card # c /\ m # n
      <3>1. black'[c] = black[c] /\ m \in n + 1 .. Len(hostLog)
        BY <1>1, <1>2, <1>4, <2>1, <2>5
      <3> QED BY <2>1, <3>1
    <2> QED BY <2>3, <2>4, <2>5
  <1>7. CoverFrom(Saved)'
    <2>1. \A c \in Cards : \E m \in n + 1 .. Len(hostLog') : black'[c] = FlagAt(c, m)'
      BY <1>1, <1>6, SameFlags
    <2> QED BY <1>4, <2>1 DEF CoverFrom
  <1>8. CoverFrom(posVersion)'
    <2>1. n + 1 \in Nat /\ posVersion <= n + 1 /\ Len(hostLog') \in Nat
      BY <1>1, <1>2, <1>4
    <2>2. n + 1 .. Len(hostLog') \subseteq posVersion' .. Len(hostLog')
      BY <1>1, <1>2, <2>1
    <2> QED BY <1>1, <1>4, <1>7, <2>2 DEF CoverFrom
  <1>9. upc' = "version" => recvList' = <<>>
    BY <1>1, <1>2, <1>3, ListBasics, HeadTailProperties, EmptySeq
  <1> QED BY <1>1, <1>2, <1>4, <1>5, <1>7, <1>8, <1>9 DEF ListInv

\* The version goes to the database when the whole list is in the table.
LEMMA VersionKeepsList ==
  ASSUME PurchaseInv, ListInv, UpdateVersion, UNCHANGED mainVars
  PROVE  ListInv'
  <1>1. /\ upc = "version" /\ upc' = "fetch"
        /\ dbVersion' = recvVersion /\ posVersion' = recvVersion
        /\ UNCHANGED <<hostLog, black>>
    BY DEF UpdateVersion, Step, netVars
  <1>2. Saved = recvVersion /\ recvVersion \in Nat
    BY <1>1, ListBasics, EmptySeq DEF ListInv, Saved
  <1>3. recvVersion <= Len(hostLog) /\ CoverFrom(recvVersion)
    BY <1>1, <1>2 DEF ListInv
  <1>4. \A c \in Cards : \E n \in recvVersion..Len(hostLog') : black'[c] = FlagAt(c, n)'
    BY <1>1, <1>3, CoverStays
  <1>5. CoverFrom(posVersion)'
    BY <1>1, <1>4 DEF CoverFrom
  <1> QED BY <1>1, <1>2, <1>3, <1>5 DEF ListInv

\* The server's list grows at its end.
LEMMA HostKeepsList ==
  ASSUME PurchaseInv, ListInv, HostStep, UNCHANGED mainVars
  PROVE  ListInv'
  <1> DEFINE n == Len(hostLog)
  <1>1. PICK c \in Cards, f \in CardFlags : HostChanges(c, f)
    BY DEF HostStep
  <1> DEFINE e == [card |-> c, flag |-> f]
  <1>2. /\ hostLog' = Append(hostLog, e) /\ e \in ListEntries
        /\ UNCHANGED <<upc, posVersion, recvList, recvVersion, black, dbVersion>>
    BY <1>1 DEF HostChanges, ListEntries, listVars, storeVars
  <1> HIDE DEF e
  <1>3. /\ n \in Nat /\ Len(hostLog') = n + 1
        /\ \A i \in 1..n : hostLog'[i] = hostLog[i]
    BY <1>2, ListBasics, AppendProperties
  <1>4. \A d : \A m \in 0..n : FlagAt(d, m)' = FlagAt(d, m)
    BY <1>2, ListBasics, EarlierFlags
  <1> HIDE DEF n
  <1>5. ASSUME NEW v \in Nat, CoverFrom(v)
        PROVE  \A d \in Cards : \E m \in v..Len(hostLog') : black'[d] = FlagAt(d, m)'
    <2> TAKE d \in Cards
    <2>1. PICK m \in v..n : black[d] = FlagAt(d, m)
      BY <1>5 DEF CoverFrom, n
    <2>2. m \in 0..n /\ m \in v..Len(hostLog')
      BY <1>3
    <2> QED BY <1>2, <1>4, <2>1, <2>2
  <1>6. dbVersion' <= Len(hostLog') /\ posVersion' <= Len(hostLog')
    BY <1>2, <1>3, ListBasics DEF ListInv, n
  <1>7. upc = "off" => CoverFrom(dbVersion)'
    <2>1. SUFFICES ASSUME upc = "off" PROVE CoverFrom(dbVersion)'
      OBVIOUS
    <2>2. \A d \in Cards : \E m \in dbVersion..Len(hostLog') : black'[d] = FlagAt(d, m)'
      BY <1>5, <2>1, ListBasics DEF ListInv
    <2> QED BY <1>2, <2>2 DEF CoverFrom
  <1>8. upc # "off" => dbVersion' <= posVersion' /\ CoverFrom(posVersion)'
    <2>1. SUFFICES ASSUME upc # "off"
                   PROVE  dbVersion <= posVersion /\ CoverFrom(posVersion)'
      BY <1>2
    <2>2. \A d \in Cards : \E m \in posVersion..Len(hostLog') : black'[d] = FlagAt(d, m)'
      BY <1>5, <2>1, ListBasics DEF ListInv
    <2> QED BY <1>2, <2>1, <2>2 DEF CoverFrom, ListInv
  <1>9. ASSUME upc \in {"save", "version"}
        PROVE  /\ posVersion' <= Saved' /\ recvVersion' <= Len(hostLog')
               /\ \A j \in 1..Len(recvList') : recvList'[j] = hostLog'[Saved' + j]
               /\ CoverFrom(Saved)'
    <2>1. /\ Saved' = Saved /\ Saved \in Nat /\ posVersion <= Saved
          /\ recvVersion <= n /\ recvVersion \in Nat
      BY <1>2, <1>9, ListBasics DEF ListInv, Saved, n
    <2>2. ASSUME NEW j \in 1..Len(recvList) PROVE recvList[j] = hostLog'[Saved + j]
      <3>1. Saved + j \in 1..n
        BY <1>3, <2>1, ListBasics DEF Saved
      <3> QED BY <1>3, <1>9, <3>1 DEF ListInv
    <2>3. \A d \in Cards : \E m \in Saved..Len(hostLog') : black'[d] = FlagAt(d, m)'
      BY <1>5, <1>9, <2>1 DEF ListInv
    <2>4. CoverFrom(Saved)'
      BY <2>1, <2>3 DEF CoverFrom
    <2>5. posVersion' <= Saved' /\ recvVersion' <= Len(hostLog')
      BY <1>2, <1>3, <2>1
    <2>6. \A j \in 1..Len(recvList') : recvList'[j] = hostLog'[Saved' + j]
      <3>1. Saved' = Saved /\ recvList' = recvList
        BY <1>2, <2>1
      <3> QED BY <2>2, <3>1
    <2> QED BY <2>4, <2>5, <2>6
  <1> QED BY <1>2, <1>6, <1>7, <1>8, <1>9 DEF ListInv

-----------------------------------------------------------------------------
(* The other steps.                                                        *)

\* No version goes up, and no download starts.
QuietForList ==
  /\ UNCHANGED <<hostLog, black, posVersion, dbVersion, recvList, recvVersion>>
  /\ upc' = "off" <=> upc = "off"
  /\ upc' \in {"save", "version"} => upc' = upc

LEMMA QuietKeepsList ==
  ASSUME PurchaseInv, ListInv, QuietForList
  PROVE  ListInv'
  <1>1. Saved' = Saved
    BY DEF Saved, QuietForList
  <1>2. \A v : CoverFrom(v) => \A c \in Cards : \E n \in v..Len(hostLog') : black'[c] = FlagAt(c, n)'
    BY CoverStays DEF QuietForList
  <1>3. /\ CoverFrom(dbVersion) => CoverFrom(dbVersion)'
        /\ CoverFrom(posVersion) => CoverFrom(posVersion)'
        /\ CoverFrom(Saved) => CoverFrom(Saved)'
    BY <1>1, <1>2 DEF CoverFrom, QuietForList
  <1> QED BY <1>1, <1>3 DEF ListInv, QuietForList

LEMMA ThreadKeepsList ==
  ASSUME PurchaseInv, ListInv, UploadThread
  PROVE  ListInv'
  <1>1. UNCHANGED mainVars
    BY DEF UploadThread
  <1>2. CASE \/ GetLastRecord \/ MarkConfirm \/ MarkFails \/ SendRt \/ SendRtLost
             \/ SendHeart \/ NoAnswer \/ UploadDies
    <2>1. QuietForList
      BY <1>2 DEF GetLastRecord, MarkConfirm, MarkFails, SendRt, SendRtLost, SendHeart, NoAnswer,
                  UploadDies, Step, listVars, netVars, storeVars, QuietForList
    <2> QED BY <2>1, QuietKeepsList
  <1> QED
    BY <1>1, <1>2, DownloadKeepsList, SaveKeepsList, VersionKeepsList, HostKeepsList
       DEF UploadThread, ThreadStep

\* A reset of the parameters asks for the whole list again.
LEMMA ResetKeepsList ==
  ASSUME PurchaseInv, ListInv, FactoryReset, UNCHANGED uploadVars
  PROVE  ListInv'
  <1>1. /\ dbVersion' = 0
        /\ UNCHANGED <<hostLog, black, posVersion, recvList, recvVersion, upc>>
    BY DEF FactoryReset, uploadVars, listVars, netVars
  <1>2. Saved' = Saved
    BY <1>1 DEF Saved
  <1>3. \A v : CoverFrom(v) => \A c \in Cards : \E n \in v..Len(hostLog') : black'[c] = FlagAt(c, n)'
    BY <1>1, CoverStays
  <1>4. CoverFrom(dbVersion) => CoverFrom(0)
    BY ListBasics, CoverWeakens
  <1>5. /\ CoverFrom(dbVersion) => CoverFrom(dbVersion)'
        /\ CoverFrom(posVersion) => CoverFrom(posVersion)'
        /\ CoverFrom(Saved) => CoverFrom(Saved)'
    BY <1>1, <1>2, <1>3, <1>4 DEF CoverFrom
  <1>6. 0 <= Len(hostLog) /\ 0 <= posVersion
    BY ListBasics
  <1> QED BY <1>1, <1>2, <1>5, <1>6 DEF ListInv

LEMMA MainKeepsList ==
  ASSUME PurchaseInv, ListInv, MainThread
  PROVE  ListInv'
  <1>1. CASE FactoryReset
    BY <1>1, ResetKeepsList DEF MainThread
  <1>2. CASE ~FactoryReset
    <2>1. UNCHANGED <<black, dbVersion>>
      BY <1>2 DEF MainThread, PurchaseNext, MainStep, OperatorStep, HolderStep, CheckBlackcard,
         RefuseBlackcard, Init4Purchase, PsamPurchaseMac, TransAddRecord, TransAddFails,
         DebitAnswered, DebitUnanswered, DebitRefused, TransUpdateRecord, TransUpdateFails,
         EnterPurchase, LeavePurchase, ReadCard, InputMoney, CancelMoney, RequestSameCard,
         AbandonPurchase, ProveCard, CancelWrite, ClearTransdtl, PlaceCard, RemoveCard,
         UseElsewhere, storeVars
    <2>2. QuietForList
      BY <2>1 DEF MainThread, uploadVars, listVars, netVars, QuietForList
    <2> QED BY <2>2, QuietKeepsList
  <1> QED BY <1>1, <1>2

\* After a loss of power the machine goes on from the version in the database.
LEMMA PowerKeepsList ==
  ASSUME PurchaseInv, ListInv, PowerCut \/ PowerOn
  PROVE  ListInv'
  <1>1. CASE PowerCut
    <2>1. /\ upc # "off" /\ upc' = "off" /\ posVersion' = 0
          /\ UNCHANGED <<hostLog, black, dbVersion>>
      BY <1>1 DEF PowerCut, UploadLosesPower, netVars, storeVars
    <2>2. CoverFrom(dbVersion) /\ dbVersion <= Len(hostLog) /\ 0 <= Len(hostLog)
      BY <2>1, ListBasics, CoverWeakens DEF ListInv
    <2>3. \A c \in Cards : \E n \in dbVersion..Len(hostLog') : black'[c] = FlagAt(c, n)'
      BY <2>1, <2>2, CoverStays
    <2>4. CoverFrom(dbVersion)'
      BY <2>1, <2>3 DEF CoverFrom
    <2> QED BY <2>1, <2>2, <2>4 DEF ListInv
  <1>2. CASE PowerOn
    <2>1. /\ upc = "off" /\ upc' = "fetch" /\ posVersion' = dbVersion
          /\ UNCHANGED <<hostLog, black, dbVersion>>
      BY <1>2 DEF PowerOn, UploadBoots, Step, netVars
    <2>2. CoverFrom(dbVersion) /\ dbVersion <= Len(hostLog) /\ dbVersion <= dbVersion
      BY <2>1, ListBasics DEF ListInv
    <2>3. \A c \in Cards : \E n \in dbVersion..Len(hostLog') : black'[c] = FlagAt(c, n)'
      BY <2>1, <2>2, CoverStays
    <2>4. CoverFrom(posVersion)'
      BY <2>1, <2>3 DEF CoverFrom
    <2> QED BY <2>1, <2>2, <2>4 DEF ListInv
  <1> QED BY <1>1, <1>2

\* The invariant is inductive, given the machine's other one.
LEMMA NextKeepsList == PurchaseInv /\ ListInv /\ [Next]_vars => ListInv'
  <1> SUFFICES ASSUME PurchaseInv, ListInv, [Next]_vars PROVE ListInv'
    OBVIOUS
  <1>1. CASE Next
    BY <1>1, MainKeepsList, ThreadKeepsList, PowerKeepsList DEF Next
  <1>2. CASE UNCHANGED vars
    <2>1. QuietForList
      BY <1>2 DEF vars, uploadVars, listVars, netVars, storeVars, QuietForList
    <2> QED BY <2>1, QuietKeepsList
  <1> QED BY <1>1, <1>2

\* No list, no version and an empty table agree.
LEMMA InitList == Init => ListInv
  <1> SUFFICES ASSUME Init PROVE ListInv
    OBVIOUS
  <1>1. /\ hostLog = <<>> /\ dbVersion = 0 /\ posVersion = 0 /\ upc = "fetch"
        /\ \A c \in Cards : black[c] = "none"
    BY DEF Init, StoreInit, UploadInit
  <1>2. Len(hostLog) = 0 /\ 0..0 = {0}
    BY <1>1
  <1>3. \A c : FlagAt(c, 0) = "none"
    <2>1. 1..0 = {}
      OBVIOUS
    <2> QED BY <2>1 DEF FlagAt
  <1>4. CoverFrom(posVersion)
    BY <1>1, <1>2, <1>3 DEF CoverFrom
  <1> QED BY <1>1, <1>2, <1>4 DEF ListInv

\* The version in the database never gets ahead of the table, whatever statement
\* fails and wherever the power goes (p16main.c:1048-1066).
THEOREM VersionCovered == Spec => []TableCoversVersion
  <1>1. PurchaseInv /\ ListInv => TableCoversVersion
    BY ListBasics, CoverWeakens DEF ListInv, CoverFrom, TableCoversVersion
  <1>2. Init => ListInv
    BY InitList
  <1>3. PurchaseInv /\ ListInv /\ [Next]_vars => ListInv'
    BY NextKeepsList
  <1> QED BY <1>1, <1>2, <1>3, PurchaseInvariant, PTL DEF Spec

-----------------------------------------------------------------------------
(* The purchase.                                                           *)

\* From the lookup on, the card in the context is the one that was looked up.
VettedInHand ==
  mpc \in {"input"} \cup InHand => vetted.card = p16card.cardno /\ vetted.flag # "lost"

\* A step that takes the purchase further keeps card and answer, one that ends
\* it needs neither.
LEMMA NextKeepsVetted == PurchaseInv /\ VettedInHand /\ [Next]_vars => VettedInHand'
  <1> SUFFICES ASSUME PurchaseInv, VettedInHand, [Next]_vars PROVE VettedInHand'
    OBVIOUS
  <1> DEFINE Stays == /\ vetted' = vetted /\ p16card'.cardno = p16card.cardno
                      /\ mpc' \in {"input"} \cup InHand => mpc \in {"input"} \cup InHand
             Ends == mpc' \notin {"input"} \cup InHand
  <1>1. Stays \/ Ends => VettedInHand'
    BY DEF VettedInHand, InHand, AtCard
  <1>2. CASE CheckBlackcard
    BY <1>2 DEF CheckBlackcard, Goto, ctxVars, VettedInHand
  <1>3. CASE MainThread /\ ~CheckBlackcard
    <2>1. CASE Init4Purchase \/ PsamPurchaseMac \/ DebitAnswered
      <3>1. /\ \E b, t, r : p16card' = [cardno |-> p16card.cardno, cardbefbal |-> b,
                                         term |-> t, tac |-> r]
            /\ vetted' = vetted /\ mpc \in InHand
        BY <2>1 DEF Init4Purchase, PsamPurchaseMac, DebitAnswered, PurchaseInv, TypeOK,
                    PurchaseTypeOK, Ctx, Goto, histVars, InHand, AtCard
      <3> QED BY <1>1, <3>1
    <2>2. CASE MainStep /\ ~(Init4Purchase \/ PsamPurchaseMac \/ DebitAnswered)
      BY <1>1, <1>3, <2>2
         DEF MainStep, RefuseBlackcard, TransAddRecord, TransAddFails, DebitUnanswered,
             DebitRefused, TransUpdateRecord, TransUpdateFails, Goto, ForgetPurchase, ctxVars,
             histVars, InHand, AtCard
    <2>3. CASE OperatorStep
      BY <1>1, <2>3
         DEF OperatorStep, EnterPurchase, LeavePurchase, ReadCard, InputMoney, CancelMoney,
             RequestSameCard, AbandonPurchase, ProveCard, CancelWrite, ClearTransdtl,
             FactoryReset, Goto, ForgetPurchase, mainVars, ctxVars, histVars, InHand, AtCard
    <2>4. CASE HolderStep
      BY <1>1, <2>4
         DEF HolderStep, PlaceCard, RemoveCard, UseElsewhere, ctxVars, histVars
    <2> QED BY <1>3, <2>1, <2>2, <2>3, <2>4 DEF MainThread, PurchaseNext
  <1>4. CASE UploadThread
    BY <1>1, <1>4 DEF UploadThread, mainVars, ctxVars, histVars
  <1>5. CASE PowerCut \/ PowerOn
    BY <1>1, <1>5
       DEF PowerCut, PowerOn, MainLosesPower, MainBoots, Goto, InHand, AtCard
  <1>6. CASE UNCHANGED vars
    BY <1>1, <1>6 DEF vars, mainVars, ctxVars, histVars
  <1> QED BY <1>2, <1>3, <1>4, <1>5, <1>6 DEF Next

\* Only the two debits add to the history, and they take from the card on the
\* reader, which is the one in the context.
LEMMA VettedDebits ==
  PurchaseInv /\ VettedInHand /\ [Next]_vars =>
    \A d \in debits' \ debits : vetted.card = d.card /\ vetted.flag # "lost"
  <1> SUFFICES ASSUME PurchaseInv, VettedInHand, [Next]_vars, NEW d \in debits' \ debits
               PROVE  vetted.card = d.card /\ vetted.flag # "lost"
    OBVIOUS
  <1>1. DebitAnswered \/ DebitUnanswered
    BY DEF vars, Next, MainThread, UploadThread, PowerCut, PowerOn, MainLosesPower, MainBoots,
       PurchaseNext, MainStep, OperatorStep, HolderStep, CheckBlackcard, RefuseBlackcard,
       Init4Purchase, PsamPurchaseMac, TransAddRecord, TransAddFails, DebitRefused,
       TransUpdateRecord, TransUpdateFails, EnterPurchase, LeavePurchase, ReadCard,
       InputMoney, CancelMoney, RequestSameCard, AbandonPurchase, ProveCard, CancelWrite,
       ClearTransdtl, FactoryReset, PlaceCard, RemoveCard, UseElsewhere, mainVars, histVars
  <1>2. mpc = "debit" /\ session = "armed" /\ d.card = field
    BY <1>1 DEF DebitAnswered, DebitUnanswered, CardDebits, Goto
  <1>3. field = p16card.cardno
    BY <1>2 DEF PurchaseInv, CardInHand, AtCard
  <1> QED BY <1>2, <1>3 DEF VettedInHand, InHand, AtCard

\* No card is debited that was not looked up in this purchase, nor one that the
\* table calls lost (deposit.c:1111-1123, against the swap of cards before the
\* second request).
THEOREM OnlyVettedDebits == Spec => DebitsAreVetted
  <1>1. Init => VettedInHand
    BY DEF Init, PurchaseInit, VettedInHand, InHand, AtCard
  <1>2. PurchaseInv /\ VettedInHand /\ [Next]_vars => VettedInHand'
    BY NextKeepsVetted
  <1>3. PurchaseInv /\ VettedInHand /\ [Next]_vars =>
          [\A d \in debits' \ debits : vetted.card = d.card /\ vetted.flag # "lost"]_vars
    BY VettedDebits
  <1> QED BY <1>1, <1>2, <1>3, PurchaseInvariant, PTL DEF Spec, DebitsAreVetted
=============================================================================
