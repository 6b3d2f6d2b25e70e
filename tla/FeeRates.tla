------------------------------ MODULE FeeRates ------------------------------
(***************************************************************************)
(* The operator's login (check_oper_login of deposit.c) and the fee rates: *)
(* when the server tells another version of its configuration than the one *)
(* in memory, DPSFEERATE is emptied and filled again row by row, and only  *)
(* then the version is stored.                                             *)
(***************************************************************************)
EXTENDS Syspara

CONSTANTS
  FeeTypes, \* the fee types of cards
  MaxRates  \* bound: versions of the server's rates

VARIABLES
  lpc,         \* where the login is
  told,        \* the version the login brought
  login_flag,  \* p16pos.login_flag
  rates,       \* DPSFEERATE: the version a row comes from, or Missing
  download,    \* the version of the rates being stored
  pending,     \* the types whose row is still to be added
  failed,      \* history: types whose row could not be added
  hostVersion  \* the server's version

loginVars == <<lpc, told, login_flag, download, pending>>
feeVars == <<loginVars, rates, failed, hostVersion>>

-----------------------------------------------------------------------------
LoggedIn ==
  /\ lpc' = "idle" /\ login_flag' = 1
  /\ told' = 0 /\ download' = 0 /\ pending' = {}

\* svc_oper_login; a login that fails changes nothing.
OperLogin ==
  /\ lpc = "idle" /\ login_flag = 0
  /\ IF p16pos["sys.cfgverno"] = hostVersion
       THEN LoggedIn
       ELSE lpc' = "download" /\ told' = hostVersion
              /\ UNCHANGED <<login_flag, download, pending>>
  /\ UNCHANGED <<stored, p16pos, rates, failed, hostVersion>>

\* A download or an UPDATE of the version that fails ends the login; a login
\* that the server does not answer changes nothing.
LoginFails ==
  /\ lpc \in {"download", "version"}
  /\ lpc' = "idle"
  /\ told' = 0 /\ download' = 0 /\ pending' = {}
  /\ UNCHANGED <<login_flag, stored, p16pos, rates, failed, hostVersion>>

\* Mutant: the version is stored before the rates.
VersionBeforeRates ==
  /\ lpc = "download"
  /\ lpc' = "add" /\ download' = hostVersion /\ pending' = FeeTypes
  /\ rates' \in {Nothing(FeeTypes), rates}
  /\ UpdateConfig("sys.cfgverno", told)
  /\ UNCHANGED <<told, login_flag, p16pos, failed, hostVersion>>

\* svc_get_download_dps_para: the answer, which may be newer than the login's,
\* and syspara_clear_feerate, whose result is not looked at.
ClearFeerate ==
  /\ lpc = "download"
  /\ lpc' = "add" /\ download' = hostVersion /\ pending' = FeeTypes
  /\ rates' \in {Nothing(FeeTypes), rates}
  /\ UNCHANGED <<told, login_flag, stored, p16pos, failed, hostVersion>>

\* syspara_add_feerate; the key of a row that was not cleared is taken.
AddFeerate ==
  /\ lpc = "add"
  /\ \E t \in pending :
       /\ pending' = pending \ {t}
       /\ rates[t] = Missing
       /\ rates' = [rates EXCEPT ![t] = download]
       /\ failed' = failed \ {t}
  /\ UNCHANGED <<lpc, told, login_flag, download, stored, p16pos, hostVersion>>

\* "saving the rates failed" is shown, and the loop goes on.
AddFeerateFails ==
  /\ lpc = "add"
  /\ \E t \in pending : pending' = pending \ {t} /\ failed' = failed \cup {t}
  /\ UNCHANGED <<lpc, told, login_flag, download, stored, p16pos, rates, hostVersion>>

\* svc_get_download_dps_para returns SVC_OK whatever became of the rows.
AddDone ==
  /\ lpc = "add" /\ pending = {}
  /\ lpc' = "version" /\ download' = 0
  /\ UNCHANGED <<told, login_flag, pending, stored, p16pos, rates, failed, hostVersion>>

UpdateCfgverno ==
  /\ lpc = "version"
  /\ UpdateConfig("sys.cfgverno", told)
  /\ p16pos' = [p16pos EXCEPT !["sys.cfgverno"] = told]
  /\ LoggedIn
  /\ UNCHANGED <<rates, failed, hostVersion>>

OperLogout ==
  /\ lpc = "idle" /\ login_flag = 1
  /\ login_flag' = 0
  /\ UNCHANGED <<lpc, told, download, pending, stored, p16pos, rates, failed, hostVersion>>

\* The operators of the server change its rates.
HostChangesRates ==
  /\ hostVersion < MaxRates
  /\ hostVersion' = hostVersion + 1
  /\ UNCHANGED <<loginVars, rates, failed>>

LoginForgotten ==
  /\ lpc' = "idle" /\ told' = 0 /\ login_flag' = 0
  /\ download' = 0 /\ pending' = {}
  /\ UNCHANGED <<rates, failed, hostVersion>>

\* The server's first version is not the default of a new machine.
FeeInit ==
  /\ lpc = "idle" /\ told = 0 /\ login_flag = 0 /\ download = 0 /\ pending = {}
  /\ rates = Nothing(FeeTypes) /\ failed = {}
  /\ hostVersion = 1

LoginStep ==
  \/ OperLogin \/ LoginFails \/ ClearFeerate \/ AddFeerate \/ AddFeerateFails
  \/ AddDone \/ UpdateCfgverno \/ OperLogout

FeeTypeOK ==
  /\ lpc \in {"idle", "download", "add", "version"}
  /\ told \in 0..hostVersion /\ download \in 0..hostVersion
  /\ login_flag \in {0, 1}
  /\ rates \in [FeeTypes -> Missing..hostVersion]
  /\ pending \subseteq FeeTypes /\ failed \subseteq FeeTypes
  /\ hostVersion \in 1..MaxRates

-----------------------------------------------------------------------------
\* While an operator is logged in, each fee type has a rate at least as new as
\* the version the machine claims and the login brought, wherever an earlier
\* download was cut off, unless its own row could not be added (deposit.c:1286,
\* service.c:1205-1219).
RatesFitVersion ==
  login_flag = 1 =>
    \A t \in FeeTypes \ failed : rates[t] >= p16pos["sys.cfgverno"]
=============================================================================
