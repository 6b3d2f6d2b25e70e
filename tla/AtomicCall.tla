----------------------------- MODULE AtomicCall -----------------------------
(***************************************************************************)
(* What a call to the server looks like to the flows that make one: it     *)
(* either was carried out or not, its result comes once, SVC_OK only of a  *)
(* request the server carried out, and after it last_trans_timeout tells   *)
(* at least a time-out (set) from a success (clear).                       *)
(***************************************************************************)
CONSTANT Codes \* the results a call can have

VARIABLES
  phase,  \* "idle", "called" or "returned"
  result, \* what the call returned
  served, \* has the server carried out the request of this call?
  flag    \* last_trans_timeout

vars == <<phase, result, served, flag>>

Init ==
  /\ phase = "idle"
  /\ result \in Codes
  /\ served = FALSE
  /\ flag \in {0, 1}

Call ==
  /\ phase = "idle"
  /\ phase' = "called"
  /\ served' = FALSE
  /\ UNCHANGED <<result, flag>>

\* The server may carry a request out when nobody waits for it any more.
Serve ==
  /\ ~served
  /\ served' = TRUE
  /\ UNCHANGED <<phase, result, flag>>

Note ==
  /\ phase = "called"
  /\ flag' \in {0, 1}
  /\ UNCHANGED <<phase, result, served>>

Return(code) ==
  /\ phase = "called"
  /\ code = "SVC_OK" => served /\ flag = 0
  /\ code = "SVC_TIMEOUT" => flag = 1
  /\ phase' = "returned"
  /\ result' = code
  /\ UNCHANGED <<served, flag>>

Forget ==
  /\ phase = "returned"
  /\ phase' = "idle"
  /\ UNCHANGED <<result, served, flag>>

Next == Call \/ Serve \/ Note \/ (\E code \in Codes : Return(code)) \/ Forget

Spec == Init /\ [][Next]_vars
=============================================================================
