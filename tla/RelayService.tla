---------------------------- MODULE RelayService ----------------------------
(***************************************************************************)
(* What the relay promises the callers of send_command, without sockets,   *)
(* futures or locks.  A request that was submitted may be run by the       *)
(* add-in, once, before or after the caller has its outcome; the caller    *)
(* gets exactly one outcome, it never changes, and it is the result only   *)
(* of a request that was run.                                              *)
(***************************************************************************)
CONSTANTS
  Requests,  \* calls of send_command
  Outcomes   \* how a call can end, "result" being the reply of the add-in

VARIABLES
  status,    \* of each request: "new", "open" or "closed"
  outcome,   \* what the caller of a closed request got, else "none"
  executed   \* the requests the add-in has run

serviceVars == <<status, outcome, executed>>

Init ==
  /\ status = [r \in Requests |-> "new"]
  /\ outcome = [r \in Requests |-> "none"]
  /\ executed = {}

Submit(r) ==
  /\ status[r] = "new"
  /\ status' = [status EXCEPT ![r] = "open"]
  /\ UNCHANGED <<outcome, executed>>

\* The request is never run twice, and never before it was submitted.
Execute(r) ==
  /\ status[r] # "new"
  /\ r \notin executed
  /\ executed' = executed \union {r}
  /\ UNCHANGED <<status, outcome>>

\* A request can end as it is submitted: nothing is connected.
Finish(r, o) ==
  /\ status[r] # "closed"
  /\ o = "result" => r \in executed
  /\ status' = [status EXCEPT ![r] = "closed"]
  /\ outcome' = [outcome EXCEPT ![r] = o]
  /\ UNCHANGED executed

Next ==
  \E r \in Requests :
    Submit(r) \/ Execute(r) \/ \E o \in Outcomes : Finish(r, o)

Spec == Init /\ [][Next]_serviceVars

=============================================================================
