-------------------------- MODULE PayoutLifecycle ---------------------------
(***************************************************************************)
(* What field payments promise about one request, whatever the handlers    *)
(* behind it do: the money of a request is in one place at a time, it      *)
(* leaves the company only after an approval, a request is PAID only once  *)
(* its money is expensed, FAILED only once its money is back, and both     *)
(* PAID and REJECTED are final.  This is the lifecycle drawn in            *)
(* apps/payments/README.md and the money flow of                           *)
(* apps/api/src/field-payments/README.md, stated as a state machine.       *)
(***************************************************************************)
CONSTANTS Requests, Refs

VARIABLES
    phase,     \* where the request stands
    held,      \* payouts of the request whose money is in clearing
    spent,     \* payouts of the request whose money is expensed
    returned   \* payouts of the request whose money went back

vars == <<phase, held, spent, returned>>

Init ==
    /\ phase = [r \in Requests |-> "PENDING"]
    /\ held = [r \in Requests |-> {}]
    /\ spent = [r \in Requests |-> {}]
    /\ returned = [r \in Requests |-> {}]

Decide(r, verdict) ==
    /\ phase[r] = "PENDING"
    /\ phase' = [phase EXCEPT ![r] = verdict]
    /\ UNCHANGED <<held, spent, returned>>

Disburse(r, x) ==
    /\ phase[r] \in {"APPROVED", "FAILED"}
    /\ held[r] = {} /\ spent[r] = {}
    /\ x \notin returned[r]
    /\ held' = [held EXCEPT ![r] = {x}]
    /\ UNCHANGED <<phase, spent, returned>>

Record(r) ==
    /\ phase[r] \in {"APPROVED", "FAILED"}
    /\ held[r] # {}
    /\ phase' = [phase EXCEPT ![r] = "DISBURSING"]
    /\ UNCHANGED <<held, spent, returned>>

Expense(r) ==
    /\ phase[r] = "DISBURSING"
    /\ held[r] # {}
    /\ spent' = [spent EXCEPT ![r] = held[r]]
    /\ held' = [held EXCEPT ![r] = {}]
    /\ UNCHANGED <<phase, returned>>

Return(r) ==
    /\ phase[r] = "DISBURSING"
    /\ held[r] # {}
    /\ returned' = [returned EXCEPT ![r] = @ \cup held[r]]
    /\ held' = [held EXCEPT ![r] = {}]
    /\ UNCHANGED <<phase, spent>>

Close(r) ==
    /\ phase[r] = "DISBURSING"
    /\ held[r] = {}
    /\ phase' = [phase EXCEPT ![r] = IF spent[r] # {} THEN "PAID" ELSE "FAILED"]
    /\ UNCHANGED <<held, spent, returned>>

Next ==
    \E r \in Requests :
       \/ \E verdict \in {"APPROVED", "REJECTED"} : Decide(r, verdict)
       \/ \E x \in Refs : Disburse(r, x)
       \/ Record(r) \/ Expense(r) \/ Return(r) \/ Close(r)

Spec == Init /\ [][Next]_vars
=============================================================================
