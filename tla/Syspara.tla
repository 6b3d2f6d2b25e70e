------------------------------- MODULE Syspara -------------------------------
(***************************************************************************)
(* The table of parameters (SYSPARA) and the copies of it in memory.  A    *)
(* value is the number of the entry or of the version that it stands for.  *)
(***************************************************************************)
EXTENDS Integers, Sequences

VARIABLES
  stored, \* SYSPARA
  p16pos  \* the copies in memory

\* In the order of init_para, less those that nothing changes but the reset.
Params == <<"sys.password", "dev.devphyid", "dev.ip", "dev.netmask", "dev.gateway",
            "sys.appid", "svc.remotename", "svc.remoteport", "sys.printerpages",
            "sys.cfgverno", "sys.workmode", "sys.heartbeatminutes",
            "dev.pos_blacklist_version">>
Names == {Params[i] : i \in DOMAIN Params}

\* load_sys_config: the copies, and those without which it fails.
Copied == Names \ {"sys.password", "dev.ip", "dev.netmask", "dev.gateway"}
Required == Copied \ {"sys.cfgverno", "sys.workmode", "sys.heartbeatminutes"}

Missing == -1
Default == 0
Nothing(S) == [p \in S |-> Missing]

\* update_config: an UPDATE that finds no row succeeds, too.
UpdateConfig(p, value) ==
  stored' = IF stored[p] = Missing THEN stored ELSE [stored EXCEPT ![p] = value]

\* load_sys_config; a missing cfgverno, workmode or heartbeat reads as 0.
Loaded == [p \in Copied |-> IF stored[p] = Missing THEN Default ELSE stored[p]]
=============================================================================
