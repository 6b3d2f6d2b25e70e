------------------------------ MODULE Settings ------------------------------
(***************************************************************************)
(* The parameters (table SYSPARA): created and completed at start-up,      *)
(* loaded into p16pos, changed from the menu and by the upload thread,     *)
(* deleted and inserted again by the factory reset.  Each statement is a   *)
(* transaction of its own; any of them may fail and the power may go       *)
(* between any two.  A value is the number of the entry that set it.       *)
(***************************************************************************)
EXTENDS FeeRates

CONSTANT MaxEntries \* bound: values entered or received

ASSUME SettingsAssumption == MaxEntries \in Nat /\ MaxRates \in Nat \ {0}

VARIABLES
  spc,     \* the main thread
  todo,    \* do_initial_syspara, sys_cfg_set_local_network: next parameter
  entered, \* the value the menu is storing
  entries, \* values entered so far
  promise, \* history: the value last reported as set, Missing: none is
  since,   \* history: entries made before the last factory reset that emptied the table
  resetOk  \* history: the last factory reset returned 0

menuVars == <<spc, todo, entered, entries, promise, since, resetOk>>
vars == <<menuVars, stored, p16pos, feeVars>>

-----------------------------------------------------------------------------
Net == <<"dev.ip", "dev.netmask", "dev.gateway">>
Agent == {"svc.remotename", "svc.remoteport"}

Without(S) == [p \in Names |-> IF p \in S THEN Missing ELSE promise[p]]

\* The upload thread runs from the end of the start-up on.
Running == spc \in {"menu", "port", "net", "reset"}

\* check_admin_pswd: without a stored password no menu opens.
Admin == spc = "menu" /\ lpc = "idle" /\ stored["sys.password"] # Missing

Reported(S, value) ==
  promise' = [p \in Names |-> IF p \in S /\ stored[p] # Missing THEN value ELSE promise[p]]

Enter == entries < MaxEntries /\ entries' = entries + 1

-----------------------------------------------------------------------------
(* Start-up.                                                               *)

\* Mutant: the defaults are inserted only into a table that was created now.
CreatesOnly ==
  /\ spc = "off"
  /\ spc' = IF stored = Nothing(Names) THEN "boot" ELSE "load"
  /\ todo' = 1
  /\ UNCHANGED <<entered, stored, p16pos, entries, promise, since, resetOk, feeVars>>

\* check_config_db up to do_initial_syspara.
CheckConfigDb ==
  /\ spc = "off"
  /\ spc' = "boot"
  /\ todo' = 1
  /\ UNCHANGED <<entered, stored, p16pos, entries, promise, since, resetOk, feeVars>>

\* Mutant: every parameter is inserted, over the one that is there.
InsertsAll ==
  /\ spc \in {"boot", "reset"} /\ todo <= Len(Params)
  /\ stored' = [stored EXCEPT ![Params[todo]] = Default]
  /\ todo' = todo + 1
  /\ UNCHANGED <<entered, spc, p16pos, entries, promise, since, resetOk, feeVars>>

\* do_initial_syspara: a parameter that is there is left alone.
InitialSyspara ==
  /\ spc \in {"boot", "reset"} /\ todo <= Len(Params)
  /\ stored' = IF stored[Params[todo]] = Missing
                 THEN [stored EXCEPT ![Params[todo]] = Default] ELSE stored
  /\ todo' = todo + 1
  /\ UNCHANGED <<entered, spc, p16pos, entries, promise, since, resetOk, feeVars>>

\* A failed INSERT ends it: at start-up the program exits, after a DELETE the
\* menu goes on with what is left.  A read that fails leads here as well: the
\* INSERT then finds the key taken.
InitialFails ==
  /\ spc \in {"boot", "reset"} /\ todo <= Len(Params)
  /\ spc' = IF spc = "boot" THEN "exited" ELSE "menu"
  /\ todo' = 1 /\ since' = IF spc = "boot" THEN since ELSE 0
  /\ UNCHANGED <<entered, stored, p16pos, entries, promise, resetOk, feeVars>>

InitialDone ==
  /\ spc = "boot" /\ todo > Len(Params)
  /\ spc' = "load" /\ todo' = 1
  /\ UNCHANGED <<entered, stored, p16pos, entries, promise, since, resetOk, feeVars>>

\* load_sys_config: a required parameter that is not there ends the program.
LoadSysConfig ==
  /\ spc = "load"
  /\ IF \E p \in Required : stored[p] = Missing
       THEN spc' = "unloadable" /\ UNCHANGED p16pos
       ELSE spc' = "menu" /\ p16pos' = Loaded
  /\ UNCHANGED <<todo, entered, stored, entries, promise, since, resetOk, feeVars>>

\* One of the other tables cannot be created, or a SELECT fails.
StartFails ==
  /\ spc \in {"boot", "load"}
  /\ spc' = "exited" /\ todo' = 1
  /\ UNCHANGED <<entered, stored, p16pos, entries, promise, since, resetOk, feeVars>>

PowerLost ==
  /\ spc # "off"
  /\ spc' = "off"
  /\ todo' = 1 /\ entered' = 0
  /\ p16pos' = Nothing(Copied)
  /\ LoginForgotten
  /\ since' = IF resetOk THEN since ELSE 0
  /\ UNCHANGED <<stored, entries, promise, resetOk>>

-----------------------------------------------------------------------------
(* The menu.  A value that is refused, or a single statement that fails,   *)
(* changes nothing.                                                        *)

SetPassword ==
  /\ Admin /\ Enter
  /\ UpdateConfig("sys.password", entries')
  /\ Reported({"sys.password"}, entries')
  /\ UNCHANGED <<spc, todo, entered, p16pos, since, resetOk, feeVars>>

SetOne(p) ==
  /\ Admin /\ Enter
  /\ UpdateConfig(p, entries')
  /\ p16pos' = [p16pos EXCEPT ![p] = entries']
  /\ Reported({p}, entries')
  /\ UNCHANGED <<spc, todo, entered, since, resetOk, feeVars>>

SetDevphyid == SetOne("dev.devphyid")
SetPrinterpages == SetOne("sys.printerpages")
SetWorkmode == SetOne("sys.workmode")
SetHeartbeat == SetOne("sys.heartbeatminutes")

\* sys_cfg_set_agent: the address is stored; if that fails nothing is.
SetAgentName ==
  /\ Admin /\ Enter
  /\ UpdateConfig("svc.remotename", entries')
  /\ promise' = Without(Agent)
  /\ entered' = entries'
  /\ spc' = "port"
  /\ UNCHANGED <<todo, p16pos, since, resetOk, feeVars>>

\* Then the port, and only then both are used.
SetAgentPort ==
  /\ spc = "port"
  /\ UpdateConfig("svc.remoteport", entered)
  /\ p16pos' = [p \in Copied |-> IF p \in Agent THEN entered ELSE p16pos[p]]
  /\ spc' = "menu" /\ entered' = 0
  /\ Reported(Agent, entered)
  /\ UNCHANGED <<todo, entries, since, resetOk, feeVars>>

\* "failed" is reported and the address stays stored.
SetAgentPortFails ==
  /\ spc = "port"
  /\ spc' = "menu" /\ entered' = 0
  /\ UNCHANGED <<todo, stored, p16pos, entries, promise, since, resetOk, feeVars>>

\* sys_cfg_set_local_network: the interface is set, then three statements
\* whose results are not looked at.
SetLocalNetwork ==
  /\ Admin /\ Enter
  /\ promise' = Without({Net[i] : i \in DOMAIN Net})
  /\ entered' = entries'
  /\ spc' = "net" /\ todo' = 1
  /\ UNCHANGED <<stored, p16pos, since, resetOk, feeVars>>

StoreNet ==
  /\ spc = "net"
  /\ UpdateConfig(Net[todo], entered) \/ UNCHANGED stored
  /\ IF todo < Len(Net)
       THEN todo' = todo + 1 /\ UNCHANGED <<spc, entered>>
       ELSE todo' = 1 /\ spc' = "menu" /\ entered' = 0
  /\ UNCHANGED <<p16pos, entries, promise, since, resetOk, feeVars>>

\* The upload thread stores the version of the loss list it has saved.
UpdateVersion ==
  /\ Running /\ Enter
  /\ UpdateConfig("dev.pos_blacklist_version", entries')
  /\ p16pos' = [p16pos EXCEPT !["dev.pos_blacklist_version"] = entries']
  /\ Reported({"dev.pos_blacklist_version"}, entries')
  /\ UNCHANGED <<spc, todo, entered, since, resetOk, feeVars>>

-----------------------------------------------------------------------------
(* syspara_reset.  What it returns is shown the wrong way round.           *)

ResetSyspara ==
  /\ Admin
  /\ stored' = Nothing(Names)
  /\ promise' = Nothing(Names)
  /\ since' = entries /\ resetOk' = FALSE
  /\ spc' = "reset" /\ todo' = 1
  /\ UNCHANGED <<entered, p16pos, entries, feeVars>>

\* Mutant: the result of the DELETE is not looked at.
DeleteFailureIgnored ==
  /\ Admin
  /\ since' = entries /\ resetOk' = FALSE
  /\ spc' = "reset" /\ todo' = 1
  /\ UNCHANGED <<entered, stored, p16pos, entries, promise, feeVars>>

DeleteFails ==
  /\ Admin
  /\ since' = 0 /\ resetOk' = FALSE
  /\ UNCHANGED <<spc, todo, entered, stored, p16pos, entries, promise, feeVars>>

ResetDone ==
  /\ spc = "reset" /\ todo > Len(Params)
  /\ spc' = "menu" /\ todo' = 1
  /\ resetOk' = TRUE
  /\ UNCHANGED <<entered, stored, p16pos, entries, promise, since, feeVars>>

-----------------------------------------------------------------------------
\* A machine that was never started: the database file is empty.
Init ==
  /\ spc = "off" /\ todo = 1
  /\ stored = Nothing(Names) /\ p16pos = Nothing(Copied)
  /\ entries = 0 /\ entered = 0
  /\ promise = Nothing(Names) /\ since = 0 /\ resetOk = FALSE
  /\ FeeInit

\* Settings and login are both on the main thread.
Login == spc = "menu" /\ LoginStep /\ UNCHANGED menuVars

HostStep == HostChangesRates /\ UNCHANGED <<menuVars, stored, p16pos>>

Next ==
  \/ CheckConfigDb \/ InitialSyspara \/ InitialFails \/ InitialDone
  \/ LoadSysConfig \/ StartFails \/ PowerLost
  \/ SetPassword \/ SetDevphyid \/ SetPrinterpages \/ SetWorkmode \/ SetHeartbeat
  \/ SetAgentName \/ SetAgentPort \/ SetAgentPortFails
  \/ SetLocalNetwork \/ StoreNet \/ UpdateVersion
  \/ ResetSyspara \/ DeleteFails \/ ResetDone
  \/ Login \/ HostStep

Spec == Init /\ [][Next]_vars

-----------------------------------------------------------------------------
\* Values, the defaults among them, come from the reset or from an entry, and
\* sys.cfgverno is a version of the server.
ValueOK(p, value) ==
  value >= Missing /\ value <= IF p = "sys.cfgverno" THEN hostVersion ELSE entries

StoredOK == stored \in [Names -> Int] /\ \A p \in Names : ValueOK(p, stored[p])
LoadedOK == p16pos \in [Copied -> Int] /\ \A p \in Copied : ValueOK(p, p16pos[p])

MenuTypeOK ==
  /\ spc \in {"off", "exited", "boot", "load", "unloadable", "menu", "port", "net", "reset"}
  /\ todo \in 1..(Len(Params) + 1) /\ (spc = "net" => todo <= Len(Net))
  /\ entries \in 0..MaxEntries /\ entered \in 0..entries
  /\ promise \in [Names -> Missing..entries]
  /\ since \in 0..entries /\ resetOk \in BOOLEAN

TypeOK == FeeTypeOK /\ MenuTypeOK /\ StoredOK /\ LoadedOK

\* Wherever a factory reset or a start-up was cut off, at the next start-up
\* load_sys_config does not miss a parameter (main, do_initial_syspara).
StartsAgain == spc # "unloadable"

\* A setting that was reported as made, its row being there, stays stored over
\* failures, restarts and start-ups until it is entered again or reset, and a
\* running machine works with it (menu.c, check_config_db, load_sys_config).
AcceptedStays ==
  \A p \in Names : promise[p] # Missing =>
    /\ stored[p] = promise[p]
    /\ Running /\ p \in Copied => p16pos[p] = promise[p]

\* After a factory reset that succeeded nothing is stored that was entered
\* before it (syspara_reset), whatever failed on the way before.
NothingOlderThanReset ==
  resetOk => \A p \in Names \ {"sys.cfgverno"} : stored[p] <= Default \/ stored[p] > since

=============================================================================
