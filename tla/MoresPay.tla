------------------------------ MODULE MoresPay ------------------------------
(***************************************************************************)
(* apps/payments (MORES PAY): agents submit reimbursements and payment     *)
(* orders and pay QRIS codes, finance decides and retries, the gateway     *)
(* settles.  server.py over one SQLite database.                           *)
(*                                                                         *)
(* Python's sqlite3 runs a SELECT in autocommit and opens a transaction,   *)
(* which takes SQLite's single write lock, at the first INSERT or UPDATE.  *)
(* A handler is therefore one action per check it reads, then one atomic   *)
(* action for all it writes: what it read may be stale by then.  Only      *)
(* start_disbursement() calls out: retry calls it before its first write,  *)
(* decide() after it.  The model holds no lock during the call, for both:  *)
(* it lets more interleave than decide() does.                             *)
(*                                                                         *)
(* Every client serves one request at a time; a handler may die at any     *)
(* step (a lock timeout, an exception), and the process may restart.       *)
(*                                                                         *)
(* Bounds: Refs bounds the payouts, MaxTopUps the top-ups; one month.      *)
(***************************************************************************)
EXTENDS Integers, FiniteSets, Functions

CONSTANTS
    Txns,          \* rows of transactions
    Refs,          \* gateway references
    Sessions,      \* browsers of one agent
    Finance,       \* finance and admin users
    Threads,       \* threads that settle: a mock timer's, a webhook call's
    Serial,        \* TRUE: a payout's notifications come one after the other
    Amount,        \* of each transaction
    BadAccount,    \* transactions whose bank account starts with 000
    MonthlyQuota, PerTxnLimit,
    MaxTopUps, TopUpAmount,
    NoTxn, NoRef

Clients == Sessions \cup Finance \cup Threads

ASSUME ClientAssumption ==
    /\ Sessions \cap Finance = {} /\ (Sessions \cup Finance) \cap Threads = {}
    /\ Serial \in BOOLEAN
ASSUME RowAssumption == NoTxn \notin Txns /\ NoRef \notin Refs /\ BadAccount \subseteq Txns
ASSUME FiniteAssumption == IsFiniteSet(Txns) /\ IsFiniteSet(Sessions) /\ Sessions # {}
ASSUME AmountAssumption ==
    /\ Amount \in [Txns -> Nat \ {0}]
    /\ {MonthlyQuota, PerTxnLimit, MaxTopUps, TopUpAmount} \subseteq Nat

VARIABLES
    mock,       \* the deployment: MockProvider and its timers, or a gateway
    kind,       \* transactions.type, "none" while there is no row
    status,     \* transactions.status
    payout,     \* gateway_payouts: the transaction and its status
    legs,       \* ledger postings of a payout: started, expensed, reversed
    verdict,    \* what the gateway will say of a reference it was handed
    timers,     \* references whose settlement timer is running
    topups,     \* top-ups of the agent's wallet
    answered,   \* submissions answered 201
    task        \* the request each client is waiting for

vars == <<mock, kind, status, payout, legs, verdict, timers, topups, answered, task>>

Kind == {"reimbursement", "direct_payment", "qris"}
Status == {"none", "pending", "disbursing", "paid", "rejected", "failed"}
PayoutStatus == {"none", "pending", "settled", "failed"}
Step == {"idle", "order", "balance", "charge", "reject", "approve", "retry",
         "commit", "settle"}

Idle == [pc |-> "idle", txn |-> NoTxn, ref |-> NoRef]
Task(pc, t, r) == [pc |-> pc, txn |-> t, ref |-> r]
Do(c, pc, t, r) == task' = [task EXCEPT ![c] = Task(pc, t, r)]
Done(c) == task' = [task EXCEPT ![c] = Idle]
At(c, pc) == task[c].pc = pc

Total(S) == SumFunctionOnSet(Amount, S)

\* month_spend(): what counts against the agent's monthly quota.
CountsAsSpend(t) ==
    kind[t] \in {"qris", "direct_payment"} /\ status[t] \notin {"rejected", "failed"}

MonthSpend == Total({t \in Txns : CountsAsSpend(t)})

\* account_balance() of the agent's wallet.
WalletBalance == topups * TopUpAmount - Total({t \in Txns : kind[t] = "qris"})

NoLegs == [started |-> 0, expensed |-> 0, reversed |-> 0]

Init ==
    /\ mock \in BOOLEAN
    /\ kind = [t \in Txns |-> "none"]
    /\ status = [t \in Txns |-> "none"]
    /\ payout = [r \in Refs |-> [txn |-> NoTxn, status |-> "none"]]
    /\ legs = [r \in Refs |-> NoLegs]
    /\ verdict = [r \in Refs |-> "none"]
    /\ timers = {}
    /\ topups = 0
    /\ answered = {}
    /\ task = [c \in Clients |-> Idle]

\* A row that no request in flight is about to insert.
Free(t) == kind[t] = "none" /\ t \notin answered /\ \A c \in Clients : task[c].txn # t

InsertTxn(t, k, s) ==
    /\ kind' = [kind EXCEPT ![t] = k]
    /\ status' = [status EXCEPT ![t] = s]

-----------------------------------------------------------------------------
(* The agent.                                                              *)

\* create_reimbursement(): the per-transaction cap only.
CreateReimbursement(s, t) ==
    /\ At(s, "idle") /\ Free(t)
    /\ Amount[t] <= PerTxnLimit
    /\ InsertTxn(t, "reimbursement", "pending")
    /\ answered' = answered \cup {t}
    /\ UNCHANGED <<mock, payout, legs, verdict, timers, topups, task>>

\* check_limits(), as create_payment_order() and qris_pay() call it.
CheckLimits(s, t) ==
    /\ At(s, "idle") /\ Free(t)
    /\ Amount[t] <= PerTxnLimit
    /\ MonthSpend + Amount[t] <= MonthlyQuota
    /\ \E pc \in {"order", "balance"} : Do(s, pc, t, NoRef)
    /\ UNCHANGED <<mock, kind, status, payout, legs, verdict, timers, topups, answered>>

\* create_payment_order() when the vendor is to be remembered: committed.
CreateOrderSavingVendor(s) ==
    /\ At(s, "order")
    /\ InsertTxn(task[s].txn, "direct_payment", "pending")
    /\ answered' = answered \cup {task[s].txn}
    /\ Done(s)
    /\ UNCHANGED <<mock, payout, legs, verdict, timers, topups>>

\* create_payment_order() otherwise: the row is inserted, the request is
\* answered, and closing the connection rolls the transaction back.
CreateOrder(s) ==
    /\ At(s, "order")
    /\ answered' = answered \cup {task[s].txn}
    /\ Done(s)
    /\ UNCHANGED <<mock, kind, status, payout, legs, verdict, timers, topups>>

\* Mutant: the wallet's balance is not checked.
CheckBalanceNot(s) ==
    /\ At(s, "balance")
    /\ Do(s, "charge", task[s].txn, NoRef)
    /\ UNCHANGED <<mock, kind, status, payout, legs, verdict, timers, topups, answered>>

CheckBalance(s) ==
    /\ At(s, "balance")
    /\ Amount[task[s].txn] <= WalletBalance
    /\ Do(s, "charge", task[s].txn, NoRef)
    /\ UNCHANGED <<mock, kind, status, payout, legs, verdict, timers, topups, answered>>

\* qris_pay(): the charge succeeds at once and is written as paid.
PayQris(s) ==
    /\ At(s, "charge")
    /\ InsertTxn(task[s].txn, "qris", "paid")
    /\ answered' = answered \cup {task[s].txn}
    /\ Done(s)
    /\ UNCHANGED <<mock, payout, legs, verdict, timers, topups>>

TopUp(f) ==
    /\ At(f, "idle")
    /\ topups < MaxTopUps
    /\ topups' = topups + 1
    /\ UNCHANGED <<mock, kind, status, payout, legs, verdict, timers, answered, task>>

-----------------------------------------------------------------------------
(* Finance.                                                                *)

\* decide() reads the transaction and refuses one that is not pending.
ReadForDecision(f, t) ==
    /\ At(f, "idle")
    /\ status[t] = "pending"
    /\ \E pc \in {"approve", "reject"} : Do(f, pc, t, NoRef)
    /\ UNCHANGED <<mock, kind, status, payout, legs, verdict, timers, topups, answered>>

Reject(f) ==
    /\ At(f, "reject")
    /\ status' = [status EXCEPT ![task[f].txn] = "rejected"]
    /\ Done(f)
    /\ UNCHANGED <<mock, kind, payout, legs, verdict, timers, topups, answered>>

\* retry_disbursement() refuses what has not failed, and a bank account the
\* mock provider would fail again; nothing changes a bank account.
ReadForRetry(f, t) ==
    /\ At(f, "idle")
    /\ status[t] = "failed"
    /\ t \notin BadAccount
    /\ Do(f, "retry", t, NoRef)
    /\ UNCHANGED <<mock, kind, status, payout, legs, verdict, timers, topups, answered>>

\* What the provider will report: the mock one fails an account starting with
\* 000 and arms a timer, any other decides for itself and calls the webhook.
Verdicts(t) ==
    IF mock THEN {IF t \in BadAccount THEN "failed" ELSE "settled"}
            ELSE {"settled", "failed"}

\* start_disbursement() hands the payout to the provider.
CreateDisbursement(f, r) ==
    /\ At(f, "approve") \/ At(f, "retry")
    /\ verdict[r] = "none"
    /\ \E v \in Verdicts(task[f].txn) : verdict' = [verdict EXCEPT ![r] = v]
    /\ timers' = IF mock THEN timers \cup {r} ELSE timers
    /\ Do(f, "commit", task[f].txn, r)
    /\ UNCHANGED <<mock, kind, status, payout, legs, topups, answered>>

\* Mutant: the status is written and the money is not moved.
CommitDisbursementNoLegs(f) ==
    /\ At(f, "commit")
    /\ payout' = [payout EXCEPT ![task[f].ref] = [txn |-> task[f].txn, status |-> "pending"]]
    /\ status' = [status EXCEPT ![task[f].txn] = "disbursing"]
    /\ Done(f)
    /\ UNCHANGED <<mock, kind, legs, verdict, timers, topups, answered>>

\* The payout row, the posting to clearing, the status and (in decide()) the
\* decision, committed together.
CommitDisbursement(f) ==
    /\ At(f, "commit")
    /\ payout' = [payout EXCEPT ![task[f].ref] = [txn |-> task[f].txn, status |-> "pending"]]
    /\ legs' = [legs EXCEPT ![task[f].ref].started = @ + 1]
    /\ status' = [status EXCEPT ![task[f].txn] = "disbursing"]
    /\ Done(f)
    /\ UNCHANGED <<mock, kind, verdict, timers, topups, answered>>

-----------------------------------------------------------------------------
(* The gateway: settle_disbursement(), on a timer or from the webhook.     *)

\* A timer fires once; the webhook may be called any number of times.
Notifies(r) ==
    /\ verdict[r] # "none"
    /\ mock => r \in timers
    /\ Serial => \A c \in Threads : task[c].ref # r

Consume(r) == timers' = timers \ {r}

\* The payout is unknown or not pending: ignored.
IgnoreNotification(c, r) ==
    /\ At(c, "idle") /\ Notifies(r)
    /\ payout[r].status # "pending"
    /\ Consume(r)
    /\ UNCHANGED <<mock, kind, status, payout, legs, verdict, topups, answered, task>>

ReadPayout(c, r) ==
    /\ At(c, "idle") /\ Notifies(r)
    /\ payout[r].status = "pending"
    /\ Consume(r)
    /\ Do(c, "settle", payout[r].txn, r)
    /\ UNCHANGED <<mock, kind, status, payout, legs, verdict, topups, answered>>

SettledAs(r) == IF verdict[r] = "settled" THEN "paid" ELSE "failed"

\* Mutant: a failed payout is not reversed.
SettleNoReversal(c) ==
    /\ At(c, "settle")
    /\ LET r == task[c].ref IN
         /\ payout' = [payout EXCEPT ![r].status = verdict[r]]
         /\ \/ /\ verdict[r] = "settled"
               /\ legs' = [legs EXCEPT ![r].expensed = @ + 1]
            \/ /\ verdict[r] = "failed"
               /\ legs' = legs
         /\ status' = [status EXCEPT ![task[c].txn] = SettledAs(r)]
    /\ Done(c)
    /\ UNCHANGED <<mock, kind, verdict, timers, topups, answered>>

\* Mutant: the transaction is paid, whatever the gateway said.
SettleAlwaysPaid(c) ==
    /\ At(c, "settle")
    /\ LET r == task[c].ref IN
         /\ payout' = [payout EXCEPT ![r].status = verdict[r]]
         /\ \/ /\ verdict[r] = "settled"
               /\ legs' = [legs EXCEPT ![r].expensed = @ + 1]
            \/ /\ verdict[r] = "failed"
               /\ legs' = [legs EXCEPT ![r].reversed = @ + 1]
         /\ status' = [status EXCEPT ![task[c].txn] = "paid"]
    /\ Done(c)
    /\ UNCHANGED <<mock, kind, verdict, timers, topups, answered>>

\* The payout, the postings and the status, by id: the payout's status is not
\* looked at again.
Settle(c) ==
    /\ At(c, "settle")
    /\ LET r == task[c].ref IN
         /\ payout' = [payout EXCEPT ![r].status = verdict[r]]
         /\ \/ /\ verdict[r] = "settled"
               /\ legs' = [legs EXCEPT ![r].expensed = @ + 1]
            \/ /\ verdict[r] = "failed"
               /\ legs' = [legs EXCEPT ![r].reversed = @ + 1]
         /\ status' = [status EXCEPT ![task[c].txn] = SettledAs(r)]
    /\ Done(c)
    /\ UNCHANGED <<mock, kind, verdict, timers, topups, answered>>

-----------------------------------------------------------------------------
\* A handler raises; its connection is closed and nothing it wrote stays.
Abort(c) ==
    /\ ~At(c, "idle")
    /\ Done(c)
    /\ UNCHANGED <<mock, kind, status, payout, legs, verdict, timers, topups, answered>>

\* The process restarts: timers live in memory only.
Restart ==
    /\ timers' = {}
    /\ task' = [c \in Clients |-> Idle]
    /\ UNCHANGED <<mock, kind, status, payout, legs, verdict, topups, answered>>

Next ==
    \/ \E s \in Sessions :
         \/ \E t \in Txns : CreateReimbursement(s, t) \/ CheckLimits(s, t)
         \/ CreateOrderSavingVendor(s) \/ CreateOrder(s)
         \/ CheckBalance(s) \/ PayQris(s)
    \/ \E f \in Finance :
         \/ TopUp(f) \/ Reject(f) \/ CommitDisbursement(f)
         \/ \E t \in Txns : ReadForDecision(f, t) \/ ReadForRetry(f, t)
         \/ \E r \in Refs : CreateDisbursement(f, r)
    \/ \E c \in Threads :
         \/ \E r \in Refs : ReadPayout(c, r) \/ IgnoreNotification(c, r)
         \/ Settle(c)
    \/ \E c \in Clients : Abort(c)
    \/ Restart

Spec == Init /\ [][Next]_vars

-----------------------------------------------------------------------------
(* Properties.                                                             *)

RowTypes ==
    /\ kind \in [Txns -> Kind \cup {"none"}]
    /\ status \in [Txns -> Status]
    /\ \A t \in Txns : kind[t] = "none" <=> status[t] = "none"
    /\ payout \in [Refs -> [txn : Txns \cup {NoTxn}, status : PayoutStatus]]
    /\ legs \in [Refs -> [started : Nat, expensed : Nat, reversed : Nat]]
    /\ verdict \in [Refs -> {"none", "settled", "failed"}]

TaskTypes ==
    /\ task \in [Clients -> [pc : Step, txn : Txns \cup {NoTxn}, ref : Refs \cup {NoRef}]]
    /\ \A c \in Clients : task[c].pc # "idle" => task[c].txn \in Txns

\* What every row and request can be; a row has a type and a status together.
TypeOK ==
    /\ RowTypes /\ TaskTypes
    /\ mock \in BOOLEAN /\ timers \subseteq Refs /\ topups \in 0 .. MaxTopUps /\ answered \subseteq Txns

\* The clearing account holds exactly the payouts still pending: one posting
\* into it for each payout, and one out of it, of the right kind, for each
\* that ended.  Two notifications of one payout must not post twice
\* ("double-settlement must be impossible", docs/FRAMEWORK-REVIEW.md:80).
LegsOf(s) ==
    CASE s = "none" -> NoLegs
      [] s = "pending" -> [NoLegs EXCEPT !.started = 1]
      [] s = "settled" -> [NoLegs EXCEPT !.started = 1, !.expensed = 1]
      [] s = "failed" -> [NoLegs EXCEPT !.started = 1, !.reversed = 1]

ClearingIsInFlight == \A r \in Refs : legs[r] = LegsOf(payout[r].status)

Backed(s, p) ==
    \A t \in Txns : kind[t] \in {"reimbursement", "direct_payment"} /\ status[t] = s =>
        \E r \in Refs : payout[r].txn = t /\ payout[r].status = p

\* What a bank transfer's status says is true of one of its payouts, however
\* finance's decisions and the settlements interleave.
StatusIsBacked ==
    Backed("disbursing", "pending") /\ Backed("paid", "settled") /\ Backed("failed", "failed")

\* qris_pay() refuses to overdraw the wallet; requests that run at once can,
\* by no more than the other ones' amounts.
Charging == {s \in Sessions : task[s].pc = "charge"}

Charges == SumFunctionOnSet([s \in Charging |-> Amount[task[s].txn]], Charging)

WalletIsBounded == WalletBalance - Charges >= -(Cardinality(Sessions) - 1) * PerTxnLimit

\* The agent was told the submission is pending: it is on file
\* (server.py:640 answers 201 with "status": "pending").
\* The code does not keep it; the README tells how it fails.
AnsweredIsFiled == \A t \in answered : status[t] # "none"
=============================================================================
