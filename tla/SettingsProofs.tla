--------------------------- MODULE SettingsProofs ---------------------------
(***************************************************************************)
(* Theorems about parameters and fee rates, for any number of entries, fee *)
(* types and versions.                                                     *)
(***************************************************************************)
EXTENDS Settings, TLAPS

-----------------------------------------------------------------------------
(* The names.                                                              *)

Cfgverno == "sys.cfgverno"

LEMMA ParamsSeq ==
  /\ Len(Params) = 13
  /\ \A i \in 1..13 : Params[i] \in Names
  /\ \A p \in Names : \E i \in 1..13 : Params[i] = p
<1>1. Len(Params) = 13 /\ DOMAIN Params = 1..13
  BY DEF Params
<1> QED BY <1>1 DEF Names

LEMMA NamesKnown ==
  /\ {"sys.password", "dev.devphyid", "dev.ip", "dev.netmask", "dev.gateway", "sys.appid",
      "svc.remotename", "svc.remoteport", "sys.printerpages", Cfgverno, "sys.workmode",
      "sys.heartbeatminutes", "dev.pos_blacklist_version"} \subseteq Names
<1>1. /\ Params[1] = "sys.password" /\ Params[2] = "dev.devphyid" /\ Params[3] = "dev.ip"
      /\ Params[4] = "dev.netmask" /\ Params[5] = "dev.gateway" /\ Params[6] = "sys.appid"
      /\ Params[7] = "svc.remotename" /\ Params[8] = "svc.remoteport"
      /\ Params[9] = "sys.printerpages" /\ Params[10] = Cfgverno
      /\ Params[11] = "sys.workmode" /\ Params[12] = "sys.heartbeatminutes"
      /\ Params[13] = "dev.pos_blacklist_version"
  BY DEF Params, Cfgverno
<1> QED BY <1>1, ParamsSeq

LEMMA CopiedKnown ==
  /\ Required \subseteq Copied /\ Copied \subseteq Names
  /\ {"dev.devphyid", "svc.remotename", "svc.remoteport", "sys.printerpages", Cfgverno,
      "sys.workmode", "sys.heartbeatminutes", "dev.pos_blacklist_version"} \subseteq Copied
  /\ "sys.password" \notin Copied
  BY NamesKnown DEF Copied, Required, Cfgverno

LEMMA NetKnown ==
  /\ Len(Net) = 3
  /\ \A i \in 1..3 : Net[i] \in {"dev.ip", "dev.netmask", "dev.gateway"}
  /\ \A i \in 1..3 : Net[i] \in Names \ Copied /\ Net[i] # Cfgverno
  /\ {Net[i] : i \in DOMAIN Net} = {"dev.ip", "dev.netmask", "dev.gateway"}
<1>1. Len(Net) = 3 /\ DOMAIN Net = 1..3
  BY DEF Net
<1>2. Net[1] = "dev.ip" /\ Net[2] = "dev.netmask" /\ Net[3] = "dev.gateway"
  BY DEF Net
<1>3. \A i \in 1..3 : Net[i] \in {"dev.ip", "dev.netmask", "dev.gateway"}
  BY <1>2
<1>4. {Net[i] : i \in DOMAIN Net} = {"dev.ip", "dev.netmask", "dev.gateway"}
  BY <1>1, <1>2, <1>3
<1> QED BY <1>1, <1>3, <1>4, NamesKnown DEF Copied, Cfgverno

LEMMA Lengths == Len(Params) = 13 /\ Len(Net) = 3
  BY ParamsSeq, NetKnown

\* update_config changes one row, if it is there.
LEMMA RowUpdated ==
  ASSUME stored \in [Names -> Int], NEW p \in Names, NEW v \in Int, UpdateConfig(p, v)
  PROVE  /\ stored' \in [Names -> Int]
         /\ \A q \in Names \ {p} : stored'[q] = stored[q]
         /\ stored'[p] = IF stored[p] = Missing THEN Missing ELSE v
  BY DEF UpdateConfig

LEMMA Reports ==
  ASSUME NEW S \in SUBSET Names, NEW v, Reported(S, v)
  PROVE  /\ DOMAIN promise' = Names
         /\ \A p \in Names :
              promise'[p] = IF p \in S /\ stored[p] # Missing THEN v ELSE promise[p]
  BY DEF Reported

-----------------------------------------------------------------------------
(* Types.                                                                  *)

LEMMA Numbers ==
  ASSUME TypeOK
  PROVE  /\ entries \in Nat /\ entered \in 0..entries /\ since \in 0..entries
         /\ hostVersion \in Nat \ {0} /\ told \in 0..hostVersion /\ download \in 0..hostVersion
  BY SettingsAssumption DEF TypeOK, MenuTypeOK, FeeTypeOK

LEMMA InitTypes == Init => TypeOK
<1> SUFFICES ASSUME Init
             PROVE  TypeOK
  OBVIOUS
<1> USE SettingsAssumption DEF Init, FeeInit
<1>1. /\ stored = [p \in Names |-> -1] /\ p16pos = [p \in Copied |-> -1]
      /\ promise = [p \in Names |-> -1] /\ rates = [t \in FeeTypes |-> -1]
  BY DEF Nothing, Missing
<1>2. StoredOK /\ LoadedOK
  BY <1>1 DEF StoredOK, LoadedOK, ValueOK, Missing
<1>3. promise \in [Names -> Missing..entries] /\ rates \in [FeeTypes -> Missing..hostVersion]
  BY <1>1 DEF Missing
<1>4. todo \in 1..(Len(Params) + 1)
  BY Lengths
<1>5. FeeTypeOK
  BY <1>3 DEF FeeTypeOK
<1>6. MenuTypeOK
  <2>1. entries \in 0..MaxEntries /\ entered \in 0..entries /\ since \in 0..entries
    OBVIOUS
  <2>2. resetOk \in BOOLEAN
    OBVIOUS
  <2>3. spc = "off"
    OBVIOUS
  <2> QED BY <1>3, <1>4, <2>1, <2>2, <2>3, Zenon DEF MenuTypeOK
<1> QED BY <1>2, <1>5, <1>6 DEF TypeOK

\* Rows keep their type when the entry stored in one is not a new one, or new.
LEMMA EntryStored ==
  ASSUME TypeOK, NEW p \in Names \ {Cfgverno}, NEW v \in 0..entries', UpdateConfig(p, v),
         entries' \in {entries, entries + 1}, hostVersion' = hostVersion
  PROVE  StoredOK'
<1>1. entries \in Nat /\ entries' \in Nat /\ entries <= entries' /\ hostVersion \in Nat
  BY Numbers
<1>2. stored \in [Names -> Int] /\ \A q \in Names : ValueOK(q, stored[q])
  BY DEF TypeOK, StoredOK
<1>3. /\ stored' \in [Names -> Int]
      /\ \A q \in Names : stored'[q] \in {v, stored[q]}
      /\ \A q \in Names \ {p} : stored'[q] = stored[q]
  BY <1>1, <1>2, RowUpdated DEF Missing
<1>4. \A q \in Names : ValueOK(q, stored[q])'
  BY <1>1, <1>2, <1>3 DEF ValueOK, Missing, Cfgverno
<1> QED BY <1>3, <1>4 DEF StoredOK

\* So do the copies when one is changed.
LEMMA EntryLoaded ==
  ASSUME TypeOK, NEW S \in SUBSET (Copied \ {Cfgverno}), NEW v \in 0..entries',
         p16pos' = [q \in Copied |-> IF q \in S THEN v ELSE p16pos[q]],
         entries' \in {entries, entries + 1}, hostVersion' = hostVersion
  PROVE  LoadedOK'
<1>1. entries \in Nat /\ entries' \in Nat /\ entries <= entries' /\ hostVersion \in Nat
  BY Numbers
<1>2. p16pos \in [Copied -> Int] /\ \A q \in Copied : ValueOK(q, p16pos[q])
  BY DEF TypeOK, LoadedOK
<1>3. p16pos' \in [Copied -> Int] /\ \A q \in Copied : ValueOK(q, p16pos[q])'
  BY <1>1, <1>2 DEF ValueOK, Missing, Cfgverno
<1> QED BY <1>3 DEF LoadedOK

LEMMA EntriesGrow ==
  ASSUME TypeOK, entries' \in {entries, entries + 1}, hostVersion' \in {hostVersion, hostVersion + 1}
  PROVE  /\ UNCHANGED stored => StoredOK'
         /\ UNCHANGED p16pos => LoadedOK'
<1>1. entries \in Nat /\ entries' \in Nat /\ entries <= entries'
  BY Numbers
<1>2. hostVersion \in Nat /\ hostVersion' \in Nat /\ hostVersion <= hostVersion'
  BY Numbers
<1>3. ASSUME UNCHANGED stored
      PROVE  StoredOK'
  <2>1. stored \in [Names -> Int] /\ \A q \in Names : ValueOK(q, stored[q])
    BY DEF TypeOK, StoredOK
  <2>2. \A q \in Names : ValueOK(q, stored[q])'
    BY <1>1, <1>2, <1>3, <2>1 DEF ValueOK, Missing
  <2> QED BY <1>3, <2>1, <2>2 DEF StoredOK
<1>4. ASSUME UNCHANGED p16pos
      PROVE  LoadedOK'
  <2>1. p16pos \in [Copied -> Int] /\ \A q \in Copied : ValueOK(q, p16pos[q])
    BY DEF TypeOK, LoadedOK
  <2>2. \A q \in Copied : ValueOK(q, p16pos[q])'
    BY <1>1, <1>2, <1>4, <2>1 DEF ValueOK, Missing
  <2> QED BY <1>4, <2>1, <2>2 DEF LoadedOK
<1> QED BY <1>3, <1>4

\* What was reported is a value that was entered.
LEMMA ReportTyped ==
  ASSUME TypeOK, NEW S \in SUBSET Names, NEW v \in 0..entries', Reported(S, v),
         entries' \in {entries, entries + 1}
  PROVE  promise' \in [Names -> Missing..entries']
<1>1. entries \in Nat /\ entries' \in Nat /\ entries <= entries'
  BY Numbers
<1>2. \A p \in Names : promise[p] \in -1..entries'
  BY <1>1 DEF TypeOK, MenuTypeOK, Missing
<1>3. \A p \in Names : promise'[p] \in {v, promise[p]}
  BY Reports
<1>4. v \in -1..entries'
  BY <1>1
<1>5. \A p \in Names : promise'[p] \in Missing..entries'
  BY <1>2, <1>3, <1>4 DEF Missing
<1>6. promise' = [p \in Names |-> promise'[p]]
  BY DEF Reported
<1> QED BY <1>5, <1>6

LEMMA WithdrawnTyped ==
  ASSUME TypeOK, NEW S, promise' = Without(S), entries' \in {entries, entries + 1}
  PROVE  promise' \in [Names -> Missing..entries']
<1>1. entries \in Nat /\ entries' \in Nat /\ entries <= entries'
  BY Numbers
<1>2. \A p \in Names : promise[p] \in -1..entries'
  BY <1>1 DEF TypeOK, MenuTypeOK, Missing
<1>3. \A p \in Names : Without(S)[p] \in -1..entries'
  BY <1>1, <1>2 DEF Without, Missing
<1> QED BY <1>3 DEF Without, Missing

LEMMA FeeKept == FeeTypeOK /\ UNCHANGED feeVars => FeeTypeOK'
  BY DEF FeeTypeOK, feeVars, loginVars

LEMMA StartTypes ==
  ASSUME TypeOK,
         CheckConfigDb \/ InitialSyspara \/ InitialFails \/ InitialDone \/ LoadSysConfig
           \/ StartFails
  PROVE  TypeOK'
<1>1. FeeTypeOK'
  BY FeeKept
  DEF TypeOK, CheckConfigDb, InitialSyspara, InitialFails, InitialDone, LoadSysConfig, StartFails
<1>2. entries' = entries /\ hostVersion' = hostVersion
  BY DEF CheckConfigDb, InitialSyspara, InitialFails, InitialDone, LoadSysConfig, StartFails,
         feeVars, loginVars
<1>3. MenuTypeOK'
  BY Lengths, SettingsAssumption
  DEF TypeOK, MenuTypeOK, CheckConfigDb, InitialSyspara, InitialFails, InitialDone,
      LoadSysConfig, StartFails
<1>4. StoredOK'
  <2>1. CASE UNCHANGED stored
    BY <1>2, <2>1, EntriesGrow
  <2>2. CASE InitialSyspara /\ stored' = [stored EXCEPT ![Params[todo]] = 0]
    <3>1. Params[todo] \in Names
      <4>1. todo \in 1..14 /\ todo <= 13
        BY <2>2, Lengths DEF InitialSyspara, TypeOK, MenuTypeOK
      <4> QED BY <4>1, ParamsSeq
    <3>2. stored \in [Names -> Int] /\ \A q \in Names : ValueOK(q, stored[q])
      BY DEF TypeOK, StoredOK
    <3>3. \A q \in Names : stored'[q] \in {0, stored[q]}
      BY <2>2, <3>1, <3>2
    <3>4. \A q \in Names : ValueOK(q, stored[q])'
      BY <1>2, <3>2, <3>3, Numbers DEF ValueOK, Missing
    <3> QED BY <2>2, <3>1, <3>2, <3>4 DEF StoredOK
  <2> QED
    BY <2>1, <2>2
    DEF CheckConfigDb, InitialSyspara, InitialFails, InitialDone, LoadSysConfig, StartFails,
        Default
<1>5. LoadedOK'
  <2>1. CASE UNCHANGED p16pos
    BY <1>2, <2>1, EntriesGrow
  <2>2. CASE p16pos' = Loaded
    <3>1. \A q \in Copied : stored[q] \in Int /\ ValueOK(q, stored[q])
      BY CopiedKnown DEF TypeOK, StoredOK
    <3>2. \A q \in Copied : Loaded[q] \in {0, stored[q]}
      BY DEF Loaded, Default
    <3>3. \A q \in Copied : ValueOK(q, p16pos[q])'
      BY <1>2, <2>2, <3>1, <3>2, Numbers DEF ValueOK, Missing
    <3>4. p16pos' \in [Copied -> Int]
      BY <2>2, <3>1 DEF Loaded, Default
    <3> QED BY <3>3, <3>4 DEF LoadedOK
  <2> QED
    BY <2>1, <2>2
    DEF CheckConfigDb, InitialSyspara, InitialFails, InitialDone, LoadSysConfig, StartFails
<1> QED BY <1>1, <1>3, <1>4, <1>5 DEF TypeOK

LEMMA PowerTypes ==
  ASSUME TypeOK, PowerLost
  PROVE  TypeOK'
<1>1. entries' = entries /\ hostVersion' = hostVersion /\ UNCHANGED stored
  BY DEF PowerLost, LoginForgotten
<1>2. FeeTypeOK'
  BY Numbers DEF PowerLost, LoginForgotten, TypeOK, FeeTypeOK
<1>3. MenuTypeOK'
  BY Lengths, Numbers DEF PowerLost, TypeOK, MenuTypeOK
<1>4. StoredOK'
  BY <1>1, EntriesGrow
<1>5. LoadedOK'
  <2>1. p16pos' = [q \in Copied |-> -1]
    BY DEF PowerLost, Nothing, Missing
  <2> QED BY <1>1, <2>1, Numbers DEF LoadedOK, ValueOK, Missing
<1> QED BY <1>2, <1>3, <1>4, <1>5 DEF TypeOK

LEMMA SettingTypes ==
  ASSUME TypeOK,
         SetPassword \/ SetDevphyid \/ SetPrinterpages \/ SetWorkmode \/ SetHeartbeat
           \/ UpdateVersion
  PROVE  TypeOK'
<1>1. entries' = entries + 1 /\ entries' \in 1..MaxEntries /\ hostVersion' = hostVersion
  BY Numbers, SettingsAssumption
  DEF SetPassword, SetDevphyid, SetPrinterpages, SetWorkmode, SetHeartbeat, SetOne,
      UpdateVersion, Enter, feeVars, loginVars
<1>2. FeeTypeOK'
  BY FeeKept
  DEF TypeOK, SetPassword, SetDevphyid, SetPrinterpages, SetWorkmode, SetHeartbeat, SetOne,
      UpdateVersion
<1>3. PICK p \in Names \ {Cfgverno} :
        /\ UpdateConfig(p, entries') /\ Reported({p}, entries')
        /\ IF p \in Copied THEN p16pos' = [p16pos EXCEPT ![p] = entries'] ELSE UNCHANGED p16pos
  BY NamesKnown, CopiedKnown
  DEF SetPassword, SetDevphyid, SetPrinterpages, SetWorkmode, SetHeartbeat, SetOne,
      UpdateVersion, Cfgverno
<1>4. promise' \in [Names -> Missing..entries']
  BY <1>1, <1>3, ReportTyped
<1>5. MenuTypeOK'
  <2>1. UNCHANGED <<spc, todo, entered, since, resetOk>>
    BY DEF SetPassword, SetDevphyid, SetPrinterpages, SetWorkmode, SetHeartbeat, SetOne,
           UpdateVersion
  <2>2. MenuTypeOK
    BY DEF TypeOK
  <2> QED BY <1>1, <1>4, <2>1, <2>2, Numbers DEF MenuTypeOK
<1>6. StoredOK'
  BY <1>1, <1>3, EntryStored
<1>7. LoadedOK'
  <2>1. CASE p \in Copied
    <3>1. p16pos' = [q \in Copied |-> IF q \in {p} THEN entries' ELSE p16pos[q]]
      BY <1>3, <2>1 DEF TypeOK, LoadedOK
    <3>2. {p} \in SUBSET (Copied \ {Cfgverno}) /\ entries' \in 0..entries'
      BY <1>1, <2>1, Numbers
    <3> QED BY <1>1, <3>1, <3>2, EntryLoaded
  <2>2. CASE p \notin Copied
    BY <1>1, <1>3, <2>2, EntriesGrow
  <2> QED BY <2>1, <2>2
<1> QED BY <1>2, <1>5, <1>6, <1>7 DEF TypeOK

LEMMA PairTypes ==
  ASSUME TypeOK,
         SetAgentName \/ SetAgentPort \/ SetAgentPortFails \/ SetLocalNetwork \/ StoreNet
  PROVE  TypeOK'
<1>1. /\ entries' \in {entries, entries + 1} /\ entries' \in 0..MaxEntries
      /\ entered' \in 0..entries' /\ hostVersion' = hostVersion
  BY Numbers, SettingsAssumption
  DEF SetAgentName, SetAgentPort, SetAgentPortFails, SetLocalNetwork, StoreNet, Enter, feeVars,
      loginVars, TypeOK, MenuTypeOK
<1>2. FeeTypeOK'
  BY FeeKept
  DEF TypeOK, SetAgentName, SetAgentPort, SetAgentPortFails, SetLocalNetwork, StoreNet
<1>3. promise' \in [Names -> Missing..entries']
  <2>1. CASE SetAgentName \/ SetLocalNetwork
    BY <1>1, <2>1, WithdrawnTyped DEF SetAgentName, SetLocalNetwork
  <2>2. CASE SetAgentPort
    <3>1. Agent \subseteq Names /\ entered \in 0..entries'
      BY <1>1, NamesKnown, Numbers DEF Agent
    <3> QED BY <1>1, <2>2, <3>1, ReportTyped DEF SetAgentPort
  <2>3. CASE SetAgentPortFails \/ StoreNet
    BY <2>3 DEF SetAgentPortFails, StoreNet, TypeOK, MenuTypeOK
  <2> QED BY <2>1, <2>2, <2>3
<1>4. MenuTypeOK'
  <2>1. todo' \in 1..(Len(Params) + 1) /\ (spc' = "net" => todo' <= Len(Net))
    BY Lengths
    DEF TypeOK, MenuTypeOK, SetAgentName, SetAgentPort, SetAgentPortFails, SetLocalNetwork,
        StoreNet
  <2>2. spc' \in {"menu", "port", "net"} /\ UNCHANGED <<since, resetOk>>
    BY DEF SetAgentName, SetAgentPort, SetAgentPortFails, SetLocalNetwork, StoreNet
  <2> QED BY <1>1, <1>3, <2>1, <2>2, Numbers DEF TypeOK, MenuTypeOK
<1>5. StoredOK'
  <2>1. CASE UNCHANGED stored
    BY <1>1, <2>1, EntriesGrow
  <2>2. CASE SetAgentName
    BY <1>1, <2>2, EntryStored, NamesKnown, Numbers DEF SetAgentName, Cfgverno
  <2>3. CASE SetAgentPort
    BY <1>1, <2>3, EntryStored, NamesKnown, Numbers DEF SetAgentPort, Cfgverno
  <2>4. CASE StoreNet /\ UpdateConfig(Net[todo], entered)
    <3>1. todo \in 1..3
      <4>1. todo \in 1..14 /\ todo <= 3
        BY <2>4, Lengths DEF StoreNet, TypeOK, MenuTypeOK
      <4> QED BY <4>1
    <3>2. Net[todo] \in Names \ {Cfgverno}
      BY <3>1, NetKnown
    <3>3. entered \in 0..entries'
      BY <2>4, Numbers DEF StoreNet
    <3> QED BY <1>1, <2>4, <3>2, <3>3, EntryStored
  <2> QED
    BY <2>1, <2>2, <2>3, <2>4
    DEF SetAgentName, SetAgentPort, SetAgentPortFails, SetLocalNetwork, StoreNet
<1>6. LoadedOK'
  <2>1. CASE UNCHANGED p16pos
    BY <1>1, <2>1, EntriesGrow
  <2>2. CASE SetAgentPort
    <3>1. Agent \in SUBSET (Copied \ {Cfgverno}) /\ entered \in 0..entries'
      BY <1>1, CopiedKnown, Numbers DEF Agent, Cfgverno
    <3> QED BY <1>1, <2>2, <3>1, EntryLoaded DEF SetAgentPort
  <2> QED
    BY <2>1, <2>2
    DEF SetAgentName, SetAgentPort, SetAgentPortFails, SetLocalNetwork, StoreNet
<1> QED BY <1>2, <1>4, <1>5, <1>6 DEF TypeOK

LEMMA ResetTypes ==
  ASSUME TypeOK, ResetSyspara \/ DeleteFails \/ ResetDone
  PROVE  TypeOK'
<1>1. entries' = entries /\ hostVersion' = hostVersion /\ UNCHANGED p16pos
  BY DEF ResetSyspara, DeleteFails, ResetDone, feeVars, loginVars
<1>2. FeeTypeOK'
  BY FeeKept DEF TypeOK, ResetSyspara, DeleteFails, ResetDone
<1>3. stored' = stored \/ stored' = [p \in Names |-> -1]
  BY DEF ResetSyspara, DeleteFails, ResetDone, Nothing, Missing
<1>4. StoredOK'
  <2>1. CASE stored' = [p \in Names |-> -1]
    BY <1>1, <2>1, Numbers DEF StoredOK, ValueOK, Missing
  <2> QED BY <1>1, <1>3, <2>1, EntriesGrow
<1>5. LoadedOK'
  BY <1>1, EntriesGrow
<1>6. promise' \in [Names -> Missing..entries']
  <2>1. CASE UNCHANGED promise
    BY <1>1, <2>1 DEF TypeOK, MenuTypeOK
  <2>2. CASE promise' = [p \in Names |-> -1]
    BY <1>1, <2>2, Numbers DEF Missing
  <2> QED
    BY <2>1, <2>2 DEF ResetSyspara, DeleteFails, ResetDone, Nothing, Missing
<1>7. MenuTypeOK'
  <2>1. spc' \in {"menu", "reset"} /\ todo' \in 1..(Len(Params) + 1)
    BY Lengths DEF TypeOK, MenuTypeOK, ResetSyspara, DeleteFails, ResetDone, Admin
  <2>2. since' \in 0..entries' /\ entered' = entered
    BY <1>1, Numbers DEF ResetSyspara, DeleteFails, ResetDone, TypeOK, MenuTypeOK
  <2>3. resetOk' \in BOOLEAN
    BY DEF ResetSyspara, DeleteFails, ResetDone
  <2>4. entries' \in 0..MaxEntries /\ entered' \in 0..entries'
    BY <1>1, <2>2 DEF TypeOK, MenuTypeOK
  <2>5. spc' # "net"
    BY <2>1
  <2> QED BY <1>6, <2>1, <2>2, <2>3, <2>4, <2>5, Zenon DEF MenuTypeOK
<1> QED BY <1>2, <1>4, <1>5, <1>7 DEF TypeOK

LEMMA LoginTypes ==
  ASSUME TypeOK, Login \/ HostStep
  PROVE  TypeOK'
<1>1. entries' = entries /\ UNCHANGED menuVars
  BY DEF Login, HostStep, menuVars
<1>2. MenuTypeOK'
  BY <1>1 DEF TypeOK, MenuTypeOK, menuVars
<1>3. hostVersion' \in {hostVersion, hostVersion + 1}
  <2>1. CASE HostStep
    BY <2>1 DEF HostStep, HostChangesRates
  <2>2. CASE Login
    BY <2>2
    DEF Login, LoginStep, OperLogin, LoginFails, ClearFeerate, AddFeerate,
        AddFeerateFails, AddDone, UpdateCfgverno, OperLogout
  <2> QED BY <2>1, <2>2
<1>4. FeeTypeOK'
  <2> USE Numbers, SettingsAssumption DEF TypeOK, FeeTypeOK
  <2>1. CASE OperLogin \/ LoginFails \/ OperLogout \/ UpdateCfgverno
    BY <2>1 DEF OperLogin, LoginFails, OperLogout, UpdateCfgverno, LoggedIn
  <2>2. CASE ClearFeerate
    <3>1. rates' \in [FeeTypes -> Missing..hostVersion]
      BY <2>2 DEF ClearFeerate, Nothing, Missing
    <3> QED BY <2>2, <3>1 DEF ClearFeerate
  <2>3. CASE AddFeerate
    <3>1. rates' \in [FeeTypes -> Missing..hostVersion]
      BY <2>3 DEF AddFeerate, Missing
    <3> QED BY <2>3, <3>1 DEF AddFeerate
  <2>4. CASE AddFeerateFails \/ AddDone
    BY <2>4 DEF AddFeerateFails, AddDone
  <2>5. CASE HostStep
    <3>1. rates' \in [FeeTypes -> Missing..hostVersion']
      BY <2>5 DEF HostStep, HostChangesRates, Missing
    <3> QED BY <2>5, <3>1 DEF HostStep, HostChangesRates, loginVars
  <2> QED BY <2>1, <2>2, <2>3, <2>4, <2>5 DEF Login, LoginStep
<1>5. CASE UNCHANGED <<stored, p16pos>>
  <2>1. StoredOK' /\ LoadedOK'
    BY <1>1, <1>3, <1>5, EntriesGrow
  <2> QED BY <1>2, <1>4, <2>1 DEF TypeOK
<1>6. CASE UpdateCfgverno
  <2>1. hostVersion' = hostVersion /\ told \in Int /\ told >= -1 /\ told <= hostVersion
    BY <1>6, Numbers DEF UpdateCfgverno
  <2>2. stored \in [Names -> Int] /\ \A q \in Names : ValueOK(q, stored[q])
    BY DEF TypeOK, StoredOK
  <2>3. /\ stored' \in [Names -> Int]
        /\ \A q \in Names \ {Cfgverno} : stored'[q] = stored[q]
        /\ stored'[Cfgverno] \in {stored[Cfgverno], told}
    BY <1>6, <2>1, <2>2, RowUpdated, NamesKnown DEF UpdateCfgverno, Missing, Cfgverno
  <2>4. StoredOK'
    BY <1>1, <2>1, <2>2, <2>3, NamesKnown DEF StoredOK, ValueOK, Missing, Cfgverno
  <2>5. p16pos \in [Copied -> Int] /\ \A q \in Copied : ValueOK(q, p16pos[q])
    BY DEF TypeOK, LoadedOK
  <2>6. p16pos' = [p16pos EXCEPT ![Cfgverno] = told]
    BY <1>6 DEF UpdateCfgverno, Cfgverno
  <2>7. LoadedOK'
    BY <1>1, <2>1, <2>5, <2>6, CopiedKnown DEF LoadedOK, ValueOK, Missing, Cfgverno
  <2> QED BY <1>2, <1>4, <2>4, <2>7 DEF TypeOK
<1> QED
  BY <1>5, <1>6
  DEF Login, HostStep, LoginStep, OperLogin, LoginFails, ClearFeerate, AddFeerate,
      AddFeerateFails, AddDone, OperLogout

LEMMA TypesKept ==
  ASSUME TypeOK, [Next]_vars
  PROVE  TypeOK'
<1>1. CASE UNCHANGED vars
  BY <1>1
  DEF vars, menuVars, feeVars, loginVars, TypeOK, MenuTypeOK, FeeTypeOK, StoredOK, LoadedOK,
      ValueOK
<1> QED
  BY <1>1, StartTypes, PowerTypes, SettingTypes, PairTypes, ResetTypes, LoginTypes DEF Next

\* Types of parameters, rates and of what the menu and the login are doing.
THEOREM TypeCorrect == Spec => []TypeOK
  BY InitTypes, TypesKept, PTL DEF Spec

-----------------------------------------------------------------------------
(* Start-up.                                                               *)

\* While defaults are inserted at start-up, those before the next are there.
StartInv ==
  /\ spc = "boot" => \A i \in 1..(todo - 1) : stored[Params[i]] # Missing
  /\ spc = "load" => \A p \in Names : stored[p] # Missing
  /\ StartsAgain

LEMMA StartKept ==
  ASSUME TypeOK, StartInv, [Next]_vars
  PROVE  StartInv'
<1>1. CASE CheckConfigDb
  BY <1>1 DEF CheckConfigDb, StartInv, StartsAgain
<1>2. CASE InitialSyspara
  <2>1. todo \in 1..14 /\ todo <= 13
    BY <1>2, Lengths DEF InitialSyspara, TypeOK, MenuTypeOK
  <2>2. Params[todo] \in Names /\ stored \in [Names -> Int]
    BY <2>1, ParamsSeq DEF TypeOK, StoredOK
  <2>3. stored'[Params[todo]] # Missing
    BY <1>2, <2>2 DEF InitialSyspara, Missing, Default
  <2>4. \A q \in Names : stored[q] # Missing => stored'[q] # Missing
    BY <1>2, <2>2 DEF InitialSyspara, Missing, Default
  <2>5. todo' = todo + 1 /\ spc' = spc /\ spc \in {"boot", "reset"}
    BY <1>2 DEF InitialSyspara
  <2>6. ASSUME spc = "boot", NEW i \in 1..(todo' - 1)
        PROVE  stored'[Params[i]] # Missing
    <3>1. CASE i = todo
      BY <2>3, <3>1
    <3>2. CASE i \in 1..(todo - 1)
      <4>1. Params[i] \in Names
        BY <2>1, <3>2, ParamsSeq
      <4> QED BY <2>4, <2>6, <3>2, <4>1 DEF StartInv
    <3> QED BY <2>1, <2>5, <2>6, <3>1, <3>2
  <2> QED BY <2>5, <2>6 DEF StartInv, StartsAgain
<1>3. CASE InitialDone
  <2>1. todo = 14 /\ spc = "boot" /\ spc' = "load" /\ stored' = stored
    BY <1>3, Lengths DEF InitialDone, TypeOK, MenuTypeOK
  <2>2. \A i \in 1..13 : stored[Params[i]] # Missing
    BY <2>1 DEF StartInv
  <2>3. \A p \in Names : stored[p] # Missing
    BY <2>2, ParamsSeq
  <2> QED BY <2>1, <2>3 DEF StartInv, StartsAgain
<1>4. CASE LoadSysConfig
  <2>1. \A p \in Required : stored[p] # Missing
    BY <1>4, CopiedKnown DEF LoadSysConfig, StartInv
  <2> QED BY <1>4, <2>1 DEF LoadSysConfig, StartInv, StartsAgain
<1>5. CASE PowerLost \/ StartFails \/ InitialFails
  BY <1>5 DEF PowerLost, StartFails, InitialFails, StartInv, StartsAgain
<1>6. CASE SetPassword \/ SetDevphyid \/ SetPrinterpages \/ SetWorkmode \/ SetHeartbeat
             \/ UpdateVersion
  <2>1. spc' = spc /\ spc \in {"menu", "port", "net", "reset"}
    BY <1>6
    DEF SetPassword, SetDevphyid, SetPrinterpages, SetWorkmode, SetHeartbeat, SetOne,
        UpdateVersion, Admin, Running
  <2> QED BY <2>1 DEF StartInv, StartsAgain
<1>7. CASE SetAgentName \/ SetAgentPort \/ SetAgentPortFails \/ SetLocalNetwork \/ StoreNet
             \/ ResetSyspara \/ DeleteFails \/ ResetDone \/ Login
  <2>1. spc' \in {"menu", "port", "net", "reset"}
    BY <1>7
    DEF SetAgentName, SetAgentPort, SetAgentPortFails, SetLocalNetwork, StoreNet, ResetSyspara,
        DeleteFails, ResetDone, Login, Admin, menuVars
  <2> QED BY <2>1 DEF StartInv, StartsAgain
<1>8. CASE HostStep \/ UNCHANGED vars
  BY <1>8 DEF HostStep, vars, menuVars, StartInv, StartsAgain
<1> QED BY <1>1, <1>2, <1>3, <1>4, <1>5, <1>6, <1>7, <1>8 DEF Next

\* However often a start-up or a factory reset is cut off, load_sys_config never
\* misses a parameter (syspara.c:105-171, p16main.c:113-170).
THEOREM AlwaysStarts == Spec => []StartsAgain
<1>1. Init => StartInv
  BY DEF Init, StartInv, StartsAgain
<1>2. TypeOK /\ StartInv /\ [Next]_vars => StartInv'
  BY StartKept
<1>3. StartInv => StartsAgain
  BY DEF StartInv
<1> QED BY TypeCorrect, <1>1, <1>2, <1>3, PTL DEF Spec

-----------------------------------------------------------------------------
(* Settings that were reported.                                            *)

\* What was reported is stored, and in memory on a running machine.
Holds(p) ==
  promise[p] # Missing =>
    /\ stored[p] = promise[p]
    /\ Running /\ p \in Copied => p16pos[p] = promise[p]

\* Nothing is promised of the parameters of the network and of the agent while
\* they are being stored, nor of the version of the rates.
AcceptedInv ==
  /\ \A p \in Names : Holds(p)
  /\ promise[Cfgverno] = Missing
  /\ spc = "net" => \A i \in 1..3 : promise[Net[i]] = Missing
  /\ spc = "port" =>
       /\ \A p \in Agent : promise[p] = Missing
       /\ stored["svc.remotename"] \in {Missing, entered}

LEMMA AcceptedAtStart ==
  ASSUME TypeOK, AcceptedInv,
         CheckConfigDb \/ InitialSyspara \/ InitialFails \/ InitialDone \/ LoadSysConfig
           \/ StartFails \/ PowerLost
  PROVE  AcceptedInv'
<1>1. promise' = promise /\ spc' \notin {"net", "port"}
  BY DEF CheckConfigDb, InitialSyspara, InitialFails, InitialDone, LoadSysConfig, StartFails,
         PowerLost
<1>2. ASSUME NEW p \in Names
      PROVE  Holds(p)'
  <2>1. Holds(p)
    BY DEF AcceptedInv
  <2>2. CASE CheckConfigDb \/ InitialDone \/ StartFails \/ PowerLost
    BY <1>1, <2>1, <2>2
    DEF CheckConfigDb, InitialDone, StartFails, PowerLost, Holds, Running
  <2>3. CASE InitialFails
    BY <1>1, <2>1, <2>3 DEF InitialFails, Holds, Running
  <2>4. CASE InitialSyspara
    <3>1. stored[p] # Missing => stored'[p] = stored[p]
      BY <2>4 DEF InitialSyspara, TypeOK, StoredOK
    <3> QED BY <1>1, <2>1, <2>4, <3>1 DEF InitialSyspara, Holds, Running
  <2>5. CASE LoadSysConfig
    <3>1. stored' = stored /\ (spc' = "unloadable" \/ p16pos' = Loaded)
      BY <2>5 DEF LoadSysConfig
    <3>2. p \in Copied /\ stored[p] # Missing => Loaded[p] = stored[p]
      BY DEF Loaded
    <3> QED BY <1>1, <2>1, <2>5, <3>1, <3>2 DEF Holds, Running
  <2> QED BY <2>2, <2>3, <2>4, <2>5
<1> QED BY <1>1, <1>2 DEF AcceptedInv

LEMMA AcceptedAtEntry ==
  ASSUME TypeOK, AcceptedInv,
         SetPassword \/ SetDevphyid \/ SetPrinterpages \/ SetWorkmode \/ SetHeartbeat
           \/ UpdateVersion
  PROVE  AcceptedInv'
<1>1. PICK q \in Names \ ({Cfgverno} \cup Agent) :
        /\ UpdateConfig(q, entries') /\ Reported({q}, entries')
        /\ IF q \in Copied THEN p16pos' = [p16pos EXCEPT ![q] = entries'] ELSE UNCHANGED p16pos
        /\ \A i \in 1..3 : Net[i] # q
  BY NamesKnown, CopiedKnown, NetKnown
  DEF SetPassword, SetDevphyid, SetPrinterpages, SetWorkmode, SetHeartbeat, SetOne,
      UpdateVersion, Cfgverno, Agent
<1>2. spc' = spc /\ entered' = entered /\ entries' \in Int
  BY Numbers
  DEF SetPassword, SetDevphyid, SetPrinterpages, SetWorkmode, SetHeartbeat, SetOne,
      UpdateVersion, Enter
<1>3. /\ \A r \in Names \ {q} : stored'[r] = stored[r]
      /\ stored'[q] = IF stored[q] = Missing THEN Missing ELSE entries'
  BY <1>1, <1>2, RowUpdated DEF TypeOK, StoredOK
<1>4. \A r \in Names :
        promise'[r] = IF r \in {q} /\ stored[r] # Missing THEN entries' ELSE promise[r]
  BY <1>1, Reports
<1>5. ASSUME NEW p \in Names
      PROVE  Holds(p)'
  <2>1. Holds(p)
    BY DEF AcceptedInv
  <2>2. CASE p = q /\ stored[q] # Missing
    <3>1. q \in Copied => p16pos'[q] = entries'
      BY <1>1 DEF TypeOK, LoadedOK
    <3> QED BY <1>3, <1>4, <2>2, <3>1 DEF Holds
  <2>3. CASE p = q /\ stored[q] = Missing
    BY <1>3, <1>4, <2>1, <2>3 DEF Holds
  <2>4. CASE p # q
    <3>1. p \in Copied => p16pos'[p] = p16pos[p]
      BY <1>1, <2>4 DEF TypeOK, LoadedOK
    <3> QED BY <1>2, <1>3, <1>4, <2>1, <2>4, <3>1 DEF Holds, Running
  <2> QED BY <2>2, <2>3, <2>4
<1>6. promise'[Cfgverno] = Missing
  BY <1>1, <1>4, NamesKnown DEF AcceptedInv
<1>7. spc' = "net" => \A i \in 1..3 : promise'[Net[i]] = Missing
  BY <1>1, <1>2, <1>4, NetKnown DEF AcceptedInv
<1>8. spc' = "port" =>
        /\ \A p \in Agent : promise'[p] = Missing
        /\ stored'["svc.remotename"] \in {Missing, entered'}
  BY <1>1, <1>2, <1>3, <1>4, NamesKnown DEF AcceptedInv, Agent
<1> QED BY <1>5, <1>6, <1>7, <1>8 DEF AcceptedInv

LEMMA AcceptedAtAgent ==
  ASSUME TypeOK, AcceptedInv, SetAgentName \/ SetAgentPort \/ SetAgentPortFails
  PROVE  AcceptedInv'
<1> USE DEF Agent
<1>1. {"svc.remotename", "svc.remoteport", Cfgverno} \subseteq Names
  BY NamesKnown
<1>2. CASE SetAgentName
  <2>1. entries' \in Int
    BY <1>2, Numbers DEF SetAgentName, Enter
  <2>2. /\ \A r \in Names \ {"svc.remotename"} : stored'[r] = stored[r]
        /\ stored'["svc.remotename"] \in {Missing, entries'}
    BY <1>1, <1>2, <2>1, RowUpdated DEF SetAgentName, TypeOK, StoredOK
  <2>3. \A r \in Names : promise'[r] = IF r \in Agent THEN Missing ELSE promise[r]
    BY <1>2 DEF SetAgentName, Without
  <2>4. ASSUME NEW p \in Names
        PROVE  Holds(p)'
    BY <1>2, <2>2, <2>3 DEF SetAgentName, AcceptedInv, Holds, Running, Admin
  <2> QED
    BY <1>1, <1>2, <2>2, <2>3, <2>4 DEF SetAgentName, AcceptedInv, Cfgverno
<1>3. CASE SetAgentPort
  <2>1. entered \in Int
    BY Numbers
  <2>2. /\ \A r \in Names \ {"svc.remoteport"} : stored'[r] = stored[r]
        /\ stored'["svc.remoteport"] =
             IF stored["svc.remoteport"] = Missing THEN Missing ELSE entered
    BY <1>1, <1>3, <2>1, RowUpdated DEF SetAgentPort, TypeOK, StoredOK
  <2>3. \A r \in Names :
          promise'[r] = IF r \in Agent /\ stored[r] # Missing THEN entered ELSE promise[r]
    BY <1>1, <1>3, Reports DEF SetAgentPort
  <2>4. \A r \in Copied : p16pos'[r] = IF r \in Agent THEN entered ELSE p16pos[r]
    BY <1>3 DEF SetAgentPort
  <2>5. stored["svc.remotename"] \in {Missing, entered} /\ spc = "port"
    BY <1>3 DEF SetAgentPort, AcceptedInv
  <2>6. ASSUME NEW p \in Names
        PROVE  Holds(p)'
    BY <1>1, <1>3, <2>2, <2>3, <2>4, <2>5 DEF SetAgentPort, AcceptedInv, Holds, Running
  <2> QED
    BY <1>1, <1>3, <2>3, <2>6 DEF SetAgentPort, AcceptedInv, Cfgverno
<1>4. CASE SetAgentPortFails
  BY <1>4 DEF SetAgentPortFails, AcceptedInv, Holds, Running
<1> QED BY <1>2, <1>3, <1>4

LEMMA AcceptedAtNetwork ==
  ASSUME TypeOK, AcceptedInv, SetLocalNetwork \/ StoreNet
  PROVE  AcceptedInv'
<1>1. CASE SetLocalNetwork
  <2>1. \A r \in Names : promise'[r] = IF \E i \in 1..3 : r = Net[i] THEN Missing ELSE promise[r]
    BY <1>1, NetKnown DEF SetLocalNetwork, Without
  <2>2. ASSUME NEW p \in Names
        PROVE  Holds(p)'
    BY <1>1, <2>1 DEF SetLocalNetwork, AcceptedInv, Holds, Running, Admin
  <2> QED
    BY <1>1, <2>1, <2>2, NetKnown, NamesKnown DEF SetLocalNetwork, AcceptedInv
<1>2. CASE StoreNet
  <2>1. todo \in 1..3
    <3>1. todo \in 1..14 /\ todo <= 3
      BY <1>2, Lengths DEF StoreNet, TypeOK, MenuTypeOK
    <3> QED BY <3>1
  <2>2. \A r \in Names \ {Net[todo]} : stored'[r] = stored[r]
    BY <1>2, <2>1, NetKnown, RowUpdated, Numbers DEF StoreNet, TypeOK, StoredOK
  <2>3. promise[Net[todo]] = Missing
    BY <1>2, <2>1 DEF StoreNet, AcceptedInv
  <2>4. UNCHANGED <<p16pos, promise>> /\ spc = "net" /\ spc' \in {"net", "menu"}
    BY <1>2 DEF StoreNet
  <2>5. ASSUME NEW p \in Names
        PROVE  Holds(p)'
    BY <2>2, <2>3, <2>4 DEF AcceptedInv, Holds, Running
  <2> QED BY <2>4, <2>5 DEF AcceptedInv
<1> QED BY <1>1, <1>2

LEMMA AcceptedAtReset ==
  ASSUME TypeOK, AcceptedInv, ResetSyspara \/ DeleteFails \/ ResetDone
  PROVE  AcceptedInv'
<1>1. CASE ResetSyspara
  BY <1>1, NamesKnown DEF ResetSyspara, AcceptedInv, Holds, Nothing, Missing
<1>2. CASE DeleteFails \/ ResetDone
  BY <1>2 DEF DeleteFails, ResetDone, AcceptedInv, Holds, Running, Admin
<1> QED BY <1>1, <1>2

LEMMA AcceptedAtLogin ==
  ASSUME TypeOK, AcceptedInv, Login \/ HostStep \/ UNCHANGED vars
  PROVE  AcceptedInv'
<1>1. spc' = spc /\ entered' = entered /\ promise' = promise
  BY DEF Login, HostStep, vars, menuVars
<1>2. CASE UNCHANGED <<stored, p16pos>>
  BY <1>1, <1>2 DEF AcceptedInv, Holds, Running
<1>3. CASE spc = "menu" /\ UpdateCfgverno
  <2>1. \A r \in Names \ {Cfgverno} : stored'[r] = stored[r]
    BY <1>3, RowUpdated, NamesKnown, Numbers
    DEF UpdateCfgverno, TypeOK, StoredOK, Cfgverno
  <2>2. \A r \in Copied \ {Cfgverno} : p16pos'[r] = p16pos[r]
    BY <1>3 DEF UpdateCfgverno, TypeOK, LoadedOK, Cfgverno
  <2>3. ASSUME NEW p \in Names
        PROVE  Holds(p)'
    BY <1>1, <2>1, <2>2 DEF AcceptedInv, Holds, Running
  <2> QED BY <1>1, <1>3, <2>3 DEF AcceptedInv
<1> QED
  BY <1>2, <1>3
  DEF Login, HostStep, vars, LoginStep, OperLogin, LoginFails, ClearFeerate, AddFeerate,
      AddFeerateFails, AddDone, OperLogout

\* A setting that was reported as made stays stored and in use, whatever fails or
\* is cut off (menu.c, check_config_db, load_sys_config).
THEOREM SettingsKept == Spec => []AcceptedStays
<1>1. Init => AcceptedInv
  BY NamesKnown DEF Init, AcceptedInv, Holds, Nothing
<1>2. TypeOK /\ AcceptedInv /\ [Next]_vars => AcceptedInv'
  BY AcceptedAtStart, AcceptedAtEntry, AcceptedAtAgent, AcceptedAtNetwork, AcceptedAtReset,
     AcceptedAtLogin
  DEF Next
<1>3. AcceptedInv => AcceptedStays
  BY DEF AcceptedInv, Holds, AcceptedStays
<1> QED BY TypeCorrect, <1>1, <1>2, <1>3, PTL DEF Spec

-----------------------------------------------------------------------------
(* The factory reset.                                                      *)

\* A value that is a default, or was entered after the last reset.
Fresh(value) == value <= Default \/ value > since

OldGone == \A p \in Names \ {Cfgverno} : Fresh(stored[p])

\* What is being entered will be fresh, too.
ResetInv ==
  /\ spc = "reset" \/ resetOk => OldGone
  /\ spc \in {"port", "net"} /\ resetOk => entered > since

LEMMA ResetAtStart ==
  ASSUME TypeOK, ResetInv,
         CheckConfigDb \/ InitialSyspara \/ InitialFails \/ InitialDone \/ LoadSysConfig
           \/ StartFails \/ PowerLost
  PROVE  ResetInv'
<1>1. resetOk' = resetOk /\ spc' \notin {"net", "port"}
  BY DEF CheckConfigDb, InitialSyspara, InitialFails, InitialDone, LoadSysConfig, StartFails,
         PowerLost
<1>2. CASE CheckConfigDb \/ InitialDone \/ StartFails \/ PowerLost \/ LoadSysConfig
  BY <1>1, <1>2
  DEF CheckConfigDb, InitialDone, StartFails, PowerLost, LoadSysConfig, ResetInv, OldGone, Fresh
<1>3. CASE InitialSyspara
  <2>1. \A p \in Names : stored'[p] \in {0, stored[p]}
    BY <1>3 DEF InitialSyspara, Default, TypeOK, StoredOK
  <2>2. OldGone => OldGone'
    BY <1>3, <2>1 DEF InitialSyspara, OldGone, Fresh, Default
  <2> QED BY <1>1, <1>3, <2>2 DEF InitialSyspara, ResetInv
<1>4. CASE InitialFails
  <2>1. spc' # "reset" /\ stored' = stored /\ since' \in {since, 0}
    BY <1>4 DEF InitialFails
  <2>2. OldGone => OldGone'
    BY <2>1, Numbers DEF OldGone, Fresh, Default, TypeOK, StoredOK
  <2> QED BY <1>1, <2>1, <2>2 DEF ResetInv
<1> QED BY <1>2, <1>3, <1>4

LEMMA ResetAtEntry ==
  ASSUME TypeOK, ResetInv,
         SetPassword \/ SetDevphyid \/ SetPrinterpages \/ SetWorkmode \/ SetHeartbeat
           \/ UpdateVersion \/ SetAgentName
  PROVE  ResetInv'
<1>1. PICK q \in Names \ {Cfgverno} : UpdateConfig(q, entries')
  BY NamesKnown
  DEF SetPassword, SetDevphyid, SetPrinterpages, SetWorkmode, SetHeartbeat, SetOne,
      UpdateVersion, SetAgentName, Cfgverno
<1>2. entries' \in Int /\ entries' > since /\ since' = since /\ resetOk' = resetOk
  BY Numbers
  DEF SetPassword, SetDevphyid, SetPrinterpages, SetWorkmode, SetHeartbeat, SetOne,
      UpdateVersion, SetAgentName, Enter
<1>3. \A r \in Names : stored'[r] \in {stored[r], entries'}
  BY <1>1, <1>2, RowUpdated DEF TypeOK, StoredOK
<1>4. OldGone => OldGone'
  BY <1>2, <1>3 DEF OldGone, Fresh
<1>5. /\ spc' = "reset" => spc = "reset"
      /\ spc' \in {"port", "net"} => entered' = entries' \/ (spc' = spc /\ entered' = entered)
  BY DEF SetPassword, SetDevphyid, SetPrinterpages, SetWorkmode, SetHeartbeat, SetOne,
         UpdateVersion, SetAgentName
<1> QED BY <1>2, <1>4, <1>5 DEF ResetInv

LEMMA ResetAtPair ==
  ASSUME TypeOK, ResetInv, SetAgentPort \/ SetAgentPortFails \/ SetLocalNetwork \/ StoreNet
  PROVE  ResetInv'
<1>1. since' = since /\ resetOk' = resetOk /\ spc' # "reset" /\ spc # "reset"
  BY DEF SetAgentPort, SetAgentPortFails, SetLocalNetwork, StoreNet, Admin
<1>2. CASE SetAgentPortFails \/ SetLocalNetwork
  <2>1. spc' \in {"port", "net"} => entered' > since
    BY <1>2, Numbers DEF SetAgentPortFails, SetLocalNetwork, Enter
  <2> QED
    BY <1>1, <1>2, <2>1
    DEF SetAgentPortFails, SetLocalNetwork, ResetInv, OldGone, Fresh
<1>3. CASE SetAgentPort \/ StoreNet
  <2>1. spc \in {"port", "net"} /\ (spc' = "menu" \/ (spc' = spc /\ entered' = entered))
    BY <1>3 DEF SetAgentPort, StoreNet
  <2>2. \A r \in Names \ {Cfgverno} : stored'[r] \in {stored[r], entered}
    <3>1. entered \in Int /\ stored \in [Names -> Int]
      BY Numbers DEF TypeOK, StoredOK
    <3>2. CASE SetAgentPort
      BY <3>1, <3>2, RowUpdated, NamesKnown DEF SetAgentPort
    <3>3. CASE StoreNet /\ UpdateConfig(Net[todo], entered)
      <4>1. todo \in 1..14 /\ todo <= 3
        BY <3>3, Lengths DEF StoreNet, TypeOK, MenuTypeOK
      <4>2. Net[todo] \in Names
        BY <4>1, NetKnown
      <4> QED BY <3>1, <3>3, <4>2, RowUpdated
    <3> QED BY <1>3, <3>2, <3>3 DEF StoreNet
  <2>3. OldGone /\ entered > since => OldGone'
    BY <1>1, <2>2 DEF OldGone, Fresh
  <2> QED BY <1>1, <2>1, <2>3 DEF ResetInv
<1> QED BY <1>2, <1>3

LEMMA ResetAtReset ==
  ASSUME TypeOK, ResetInv, ResetSyspara \/ DeleteFails \/ ResetDone
  PROVE  ResetInv'
<1>1. CASE ResetSyspara
  <2>1. \A p \in Names : stored'[p] = -1
    BY <1>1 DEF ResetSyspara, Nothing, Missing
  <2> QED BY <1>1, <2>1 DEF ResetSyspara, ResetInv, OldGone, Fresh, Default
<1>2. CASE DeleteFails
  BY <1>2 DEF DeleteFails, Admin, ResetInv
<1>3. CASE ResetDone
  BY <1>3 DEF ResetDone, ResetInv, OldGone, Fresh
<1> QED BY <1>1, <1>2, <1>3

LEMMA ResetAtLogin ==
  ASSUME TypeOK, ResetInv, Login \/ HostStep \/ UNCHANGED vars
  PROVE  ResetInv'
<1>1. UNCHANGED <<spc, entered, since, resetOk>>
  BY DEF Login, HostStep, vars, menuVars
<1>2. \A r \in Names \ {Cfgverno} : stored'[r] = stored[r]
  <2>1. CASE UNCHANGED stored
    BY <2>1
  <2>2. CASE UpdateCfgverno
    BY <2>2, RowUpdated, NamesKnown, Numbers
    DEF UpdateCfgverno, TypeOK, StoredOK, Cfgverno
  <2> QED
    BY <2>1, <2>2
    DEF Login, HostStep, vars, LoginStep, OperLogin, LoginFails, ClearFeerate, AddFeerate,
        AddFeerateFails, AddDone, OperLogout
<1> QED BY <1>1, <1>2 DEF ResetInv, OldGone, Fresh

\* A factory reset that succeeded leaves nothing that was entered before it
\* (syspara.c:162-171).
THEOREM ResetComplete == Spec => []NothingOlderThanReset
<1>1. Init => ResetInv
  BY DEF Init, ResetInv
<1>2. TypeOK /\ ResetInv /\ [Next]_vars => ResetInv'
  BY ResetAtStart, ResetAtEntry, ResetAtPair, ResetAtReset, ResetAtLogin DEF Next
<1>3. ResetInv => NothingOlderThanReset
  BY DEF ResetInv, OldGone, Fresh, NothingOlderThanReset, Cfgverno
<1> QED BY TypeCorrect, <1>1, <1>2, <1>3, PTL DEF Spec

-----------------------------------------------------------------------------
(* The fee rates: while an operator is logged in, they are at least as new  *)
(* as the version the machine claims.                                       *)

\* Each type has a rate at least that new, unless its row could not be added.
Fit(version) == \A t \in FeeTypes \ failed : rates[t] >= version

\* A login downloads when the version in memory is older than the server's, so
\* until it has stored the new one no restart can take it for the server's.
RatesInv ==
  /\ login_flag = 1 => lpc = "idle" /\ Running /\ Fit(p16pos[Cfgverno])
  /\ lpc # "idle" => spc = "menu" /\ p16pos[Cfgverno] < told
  /\ Running => 0 <= p16pos[Cfgverno] /\ stored[Cfgverno] <= p16pos[Cfgverno]
  /\ lpc = "add" =>
       download >= told /\ \A t \in FeeTypes \ (failed \cup pending) : rates[t] >= download
  /\ lpc = "version" => Fit(told)
  /\ lpc = "idle" /\ Running /\ p16pos[Cfgverno] = hostVersion => Fit(hostVersion)
  /\ stored[Cfgverno] = hostVersion => Fit(hostVersion)

\* The versions are numbers.
LEMMA Versions ==
  ASSUME TypeOK
  PROVE  /\ stored[Cfgverno] \in Int /\ stored[Cfgverno] <= hostVersion
         /\ p16pos[Cfgverno] \in Int /\ p16pos[Cfgverno] <= hostVersion
         /\ told \in Nat /\ told <= hostVersion
         /\ download \in Nat /\ download <= hostVersion
         /\ hostVersion \in Nat /\ hostVersion >= 1
         /\ \A t \in FeeTypes : rates[t] \in Int
<1>1. ValueOK(Cfgverno, stored[Cfgverno]) /\ ValueOK(Cfgverno, p16pos[Cfgverno])
  BY NamesKnown, CopiedKnown DEF TypeOK, StoredOK, LoadedOK
<1>2. stored[Cfgverno] \in Int /\ p16pos[Cfgverno] \in Int
  BY NamesKnown, CopiedKnown DEF TypeOK, StoredOK, LoadedOK
<1>3. \A t \in FeeTypes : rates[t] \in Int
  BY Numbers DEF TypeOK, FeeTypeOK, Missing
<1> QED BY <1>1, <1>2, <1>3, Numbers DEF ValueOK, Cfgverno

\* A step that leaves the version and the rates alone keeps the invariant.
LEMMA SameVersion ==
  ASSUME RatesInv, UNCHANGED feeVars,
         stored'[Cfgverno] = stored[Cfgverno], p16pos'[Cfgverno] = p16pos[Cfgverno],
         Running' = Running, lpc # "idle" => spc' = "menu"
  PROVE  RatesInv'
  BY DEF RatesInv, feeVars, loginVars, Fit

\* The steps of start-up.
LEMMA RatesAtStart ==
  ASSUME TypeOK, RatesInv,
         CheckConfigDb \/ InitialSyspara \/ InitialFails \/ InitialDone \/ LoadSysConfig
           \/ StartFails \/ PowerLost
  PROVE  RatesInv'
<1>1. CASE CheckConfigDb \/ InitialFails \/ InitialDone \/ StartFails
  <2>1. UNCHANGED <<stored, p16pos>> /\ UNCHANGED feeVars /\ spc # "menu"
    BY <1>1 DEF CheckConfigDb, InitialFails, InitialDone, StartFails
  <2>2. Running' <=> Running
    BY <1>1 DEF CheckConfigDb, InitialFails, InitialDone, StartFails, Running
  <2>3. lpc = "idle"
    BY <2>1 DEF RatesInv
  <2> QED BY <2>1, <2>2, <2>3 DEF RatesInv, feeVars, loginVars, Fit
<1>2. CASE InitialSyspara
  <2>1. stored'[Cfgverno] \in {0, stored[Cfgverno]}
    BY <1>2, NamesKnown DEF InitialSyspara, Default, TypeOK, StoredOK
  <2>2. UNCHANGED p16pos /\ UNCHANGED feeVars /\ spc' = spc /\ spc # "menu"
    BY <1>2 DEF InitialSyspara
  <2>3. lpc = "idle"
    BY <2>2 DEF RatesInv
  <2> QED BY <2>1, <2>2, <2>3, Versions DEF RatesInv, feeVars, loginVars, Fit, Running
<1>3. CASE LoadSysConfig
  <2>1. UNCHANGED <<stored>> /\ UNCHANGED feeVars /\ spc = "load" /\ ~Running
    BY <1>3 DEF LoadSysConfig, Running
  <2>2. lpc = "idle" /\ login_flag # 1
    BY <2>1 DEF RatesInv
  <2>3. Running' => p16pos'[Cfgverno] = IF stored[Cfgverno] = Missing THEN 0 ELSE stored[Cfgverno]
    BY <1>3, CopiedKnown DEF LoadSysConfig, Running, Loaded, Default
  <2>4. stored[Cfgverno] >= -1
    BY NamesKnown DEF TypeOK, StoredOK, ValueOK, Missing
  <2> QED
    BY <2>1, <2>2, <2>3, <2>4, Versions DEF RatesInv, feeVars, loginVars, Fit, Missing
<1>4. CASE PowerLost
  BY <1>4 DEF PowerLost, LoginForgotten, RatesInv, Running, Fit
<1> QED BY <1>1, <1>2, <1>3, <1>4

\* The steps of the menu, and the version that the upload thread stores.
LEMMA RatesAtEntry ==
  ASSUME TypeOK, RatesInv,
         SetPassword \/ SetDevphyid \/ SetPrinterpages \/ SetWorkmode \/ SetHeartbeat
           \/ UpdateVersion \/ SetAgentName \/ SetAgentPort \/ SetAgentPortFails
           \/ SetLocalNetwork \/ StoreNet
  PROVE  RatesInv'
<1>1. UNCHANGED feeVars
  BY DEF SetPassword, SetDevphyid, SetPrinterpages, SetWorkmode, SetHeartbeat, SetOne,
         UpdateVersion, SetAgentName, SetAgentPort, SetAgentPortFails, SetLocalNetwork, StoreNet
<1>2. Running /\ Running'
  BY DEF SetPassword, SetDevphyid, SetPrinterpages, SetWorkmode, SetHeartbeat, SetOne,
         UpdateVersion, SetAgentName, SetAgentPort, SetAgentPortFails, SetLocalNetwork, StoreNet,
         Running, Admin
<1>3. lpc # "idle" => spc' = "menu"
  BY DEF SetPassword, SetDevphyid, SetPrinterpages, SetWorkmode, SetHeartbeat, SetOne,
         UpdateVersion, SetAgentName, SetAgentPort, SetAgentPortFails, SetLocalNetwork, StoreNet,
         Admin, RatesInv
<1>4. stored'[Cfgverno] = stored[Cfgverno]
  <2>1. CASE UNCHANGED stored
    BY <2>1
  <2>2. ASSUME NEW q \in Names \ {Cfgverno}, NEW v \in Int, UpdateConfig(q, v)
        PROVE  stored'[Cfgverno] = stored[Cfgverno]
    BY <2>2, RowUpdated, NamesKnown DEF TypeOK, StoredOK
  <2>3. CASE StoreNet /\ UpdateConfig(Net[todo], entered)
    <3>1. todo \in 1..14 /\ todo <= 3
      BY <2>3, Lengths DEF StoreNet, TypeOK, MenuTypeOK
    <3>2. Net[todo] \in Names \ {Cfgverno}
      BY <3>1, NetKnown
    <3> QED BY <2>2, <2>3, <3>2, Numbers
  <2>4. CASE SetAgentPort
    BY <2>2, <2>4, NamesKnown, Numbers DEF SetAgentPort, Cfgverno
  <2>5. CASE SetPassword \/ SetDevphyid \/ SetPrinterpages \/ SetWorkmode \/ SetHeartbeat
               \/ UpdateVersion \/ SetAgentName
    <3>1. entries' \in Int
      BY <2>5, Numbers
      DEF SetPassword, SetDevphyid, SetPrinterpages, SetWorkmode, SetHeartbeat, SetOne,
          UpdateVersion, SetAgentName, Enter
    <3> QED
      BY <2>2, <2>5, <3>1, NamesKnown
      DEF SetPassword, SetDevphyid, SetPrinterpages, SetWorkmode, SetHeartbeat, SetOne,
          UpdateVersion, SetAgentName, Cfgverno
  <2> QED
    BY <2>1, <2>3, <2>4, <2>5 DEF SetAgentPortFails, SetLocalNetwork, StoreNet
<1>5. p16pos'[Cfgverno] = p16pos[Cfgverno]
  BY CopiedKnown
  DEF SetPassword, SetDevphyid, SetPrinterpages, SetWorkmode, SetHeartbeat, SetOne,
      UpdateVersion, SetAgentName, SetAgentPort, SetAgentPortFails, SetLocalNetwork, StoreNet,
      Agent, Cfgverno, TypeOK, LoadedOK
<1> QED BY <1>1, <1>2, <1>3, <1>4, <1>5 DEF RatesInv, feeVars, loginVars, Fit

\* The factory reset sets the stored version back, not the one in memory.
LEMMA RatesAtReset ==
  ASSUME TypeOK, RatesInv, ResetSyspara \/ DeleteFails \/ ResetDone
  PROVE  RatesInv'
<1>1. UNCHANGED feeVars /\ UNCHANGED p16pos
  BY DEF ResetSyspara, DeleteFails, ResetDone
<1>2. Running /\ Running' /\ lpc = "idle"
  BY DEF ResetSyspara, DeleteFails, ResetDone, Running, Admin, RatesInv
<1>3. stored'[Cfgverno] \in {-1, stored[Cfgverno]}
  BY NamesKnown DEF ResetSyspara, DeleteFails, ResetDone, Nothing, Missing
<1> QED BY <1>1, <1>2, <1>3, Versions DEF RatesInv, feeVars, loginVars, Fit

\* The login.
LEMMA RatesAtLogin ==
  ASSUME TypeOK, RatesInv, Login
  PROVE  RatesInv'
<1> USE Versions
<1>1. spc = "menu" /\ spc' = "menu" /\ Running /\ Running'
  BY DEF Login, menuVars, Running
<1>2. CASE OperLogin
  BY <1>1, <1>2 DEF OperLogin, LoggedIn, RatesInv, Fit, Cfgverno
<1>3. CASE LoginFails \/ OperLogout
  BY <1>1, <1>3 DEF LoginFails, OperLogout, RatesInv, Fit
<1>4. CASE ClearFeerate
  BY <1>1, <1>4 DEF ClearFeerate, RatesInv, Fit
<1>5. CASE AddFeerate
  <2>1. PICK t \in pending :
          /\ pending' = pending \ {t} /\ failed' = failed \ {t}
          /\ rates' = [rates EXCEPT ![t] = download]
    BY <1>5 DEF AddFeerate
  <2>2. /\ rates'[t] = download
        /\ \A u \in FeeTypes \ {t} : rates'[u] = rates[u]
    BY <2>1 DEF TypeOK, FeeTypeOK
  <2>3. \A u \in FeeTypes \ (failed' \cup pending') : rates'[u] >= download
    BY <1>5, <2>1, <2>2 DEF AddFeerate, RatesInv
  <2> QED BY <1>1, <1>5, <2>3 DEF AddFeerate, RatesInv
<1>6. CASE AddFeerateFails
  <2>1. \A u \in FeeTypes \ (failed' \cup pending') : rates'[u] >= download
    BY <1>6 DEF AddFeerateFails, RatesInv
  <2> QED BY <1>1, <1>6, <2>1 DEF AddFeerateFails, RatesInv
<1>7. CASE AddDone
  <2>1. Fit(told)
    BY <1>7 DEF AddDone, RatesInv, Fit
  <2> QED BY <1>1, <1>7, <2>1 DEF AddDone, RatesInv, Fit
<1>8. CASE UpdateCfgverno
  <2>1. stored'[Cfgverno] \in {-1, told} /\ p16pos'[Cfgverno] = told
    BY <1>8, RowUpdated, NamesKnown, CopiedKnown
    DEF UpdateCfgverno, TypeOK, StoredOK, LoadedOK, Missing, Cfgverno
  <2>2. Fit(told)
    BY <1>8 DEF UpdateCfgverno, RatesInv
  <2> QED BY <1>1, <1>8, <2>1, <2>2 DEF UpdateCfgverno, LoggedIn, RatesInv, Fit
<1> QED BY <1>2, <1>3, <1>4, <1>5, <1>6, <1>7, <1>8 DEF Login, LoginStep

LEMMA RatesAtHost ==
  ASSUME TypeOK, RatesInv, HostStep
  PROVE  RatesInv'
<1>1. hostVersion' = hostVersion + 1 /\ UNCHANGED <<loginVars, rates, failed, spc, stored, p16pos>>
  BY DEF HostStep, HostChangesRates, menuVars
<1> QED BY <1>1, Versions DEF RatesInv, loginVars, Fit, Running

\* Wherever an earlier download was cut off, the rates of an operator who is
\* logged in are those of the version in memory or newer (deposit.c:1286,
\* service.c:1205-1219).
THEOREM RatesAreCurrent == Spec => []RatesFitVersion
<1>1. Init => RatesInv
  BY NamesKnown, CopiedKnown DEF Init, FeeInit, RatesInv, Running, Nothing, Missing
<1>2. TypeOK /\ RatesInv /\ [Next]_vars => RatesInv'
  <2>1. TypeOK /\ RatesInv /\ UNCHANGED vars => RatesInv'
    BY SameVersion DEF vars, menuVars, Running, RatesInv
  <2> QED
    BY <2>1, RatesAtStart, RatesAtEntry, RatesAtReset, RatesAtLogin, RatesAtHost DEF Next
<1>3. TypeOK /\ RatesInv => RatesFitVersion
  BY DEF RatesInv, Fit, RatesFitVersion, Cfgverno
<1> QED BY TypeCorrect, <1>1, <1>2, <1>3, PTL DEF Spec
=============================================================================
