-------------------------------- MODULE Hub ---------------------------------
(***************************************************************************)
(* What moves money in apps/api outside field payments, composed with the  *)
(* ledger it posts to (module Ledger):                                     *)
(*   - payments between wallets: WalletsService.transfer, QrisService.pay, *)
(*     CardsService.authorize, FieldPaymentsService.topup;                 *)
(*   - top-ups: TopupService.createOrder and settleByProviderRef;          *)
(*   - administration: AdminService.freezeWallet, requestLedgerAdjustment  *)
(*     and approveDualAction, each with the audit row it ends on.          *)
(*                                                                         *)
(* A request is a job: it awaits post() as Ledger describes it, then goes  *)
(* on.  A job may die at any await.  dualApproval.requiredCount is always  *)
(* its default, 2, so the second approver always executes.                 *)
(*                                                                         *)
(* Bound: MaxExecutions limits how often one approval is executed.         *)
(***************************************************************************)
EXTENDS Ledger

CONSTANTS
    Orders,       \* TopupOrder rows; an order is its own external reference
    OrderWallet, OrderAmount,
    Large,        \* orders at or above the LTKT threshold
    CashIn,       \* SYSTEM:CASH_IN
    Approvals,    \* DualApproval rows
    Adjustment,   \* payload of each: from, to, amount
    Admins,
    Routes,       \* <<from, to>> of the payments users and admins make
    Suspects,     \* wallets an admin freezes
    PayAmounts,
    MaxExecutions

ASSUME HubAssumption ==
    /\ Orders = Keys
    /\ CashIn \in System
    /\ OrderWallet \in [Orders -> Wallets]
    /\ OrderAmount \in [Orders -> 1 .. MaxAmount]
    /\ Large \subseteq Orders
    /\ Adjustment \in [Approvals -> [from : Wallets, to : Wallets, amount : 1 .. MaxAmount]]
    /\ Routes \subseteq Wallets \X Wallets
    /\ Suspects \subseteq Wallets
    /\ PayAmounts \subseteq 1 .. MaxAmount

VARIABLES
    order,      \* TopupOrder.status; INSERTED while its vaNumber is 'pending'
    flagged,    \* SuspiciousActivity rows per order
    approval,   \* DualApproval.status and approvals
    executed,   \* adjustments posted for an approval
    audited,    \* AuditLog rows
    job         \* what each request is doing

hubVars == <<order, flagged, approval, executed, audited, job>>
vars == <<ledgerVars, hubVars>>

OrderStatus == {"NONE", "INSERTED", "AWAITING_PAYMENT", "PAID"}
ApprovalStatus == {"NONE", "PENDING", "EXECUTED"}
JobStep == {"idle", "va", "post", "report", "mark", "audit"}

\* what: the order, approval or wallet the job is about; seen: the approvers
\* it read and will write back.
IdleJob == [step |-> "idle", op |-> "none", what |-> NoKey, seen |-> {}]
Job(step, op, what, seen) == [step |-> step, op |-> op, what |-> what, seen |-> seen]

Init ==
    /\ LedgerInit
    /\ order = [o \in Orders |-> "NONE"]
    /\ flagged = [o \in Orders |-> 0]
    /\ approval = [a \in Approvals |-> [status |-> "NONE", by |-> {}]]
    /\ executed = [a \in Approvals |-> 0]
    /\ audited = {}
    /\ job = [p \in Posters |-> IdleJob]

IsIdle(p) == job[p].step = "idle"

Finish(p) == job' = [job EXCEPT ![p] = IdleJob]

-----------------------------------------------------------------------------
(* Payments: one post() and nothing after it, or for an adjustment below   *)
(* the dual-approval threshold an audit row.  assertCanSpend() looks at    *)
(* the freeze flag first; post() looks again, so it refuses nothing more.  *)

Pay(p, from, to, amount, op) ==
    /\ IsIdle(p)
    /\ CallPost(p, from, to, amount, NoKey)
    /\ job' = [job EXCEPT ![p] = Job("post", op, NoKey, {})]
    /\ UNCHANGED <<order, flagged, approval, executed, audited>>

PayReturns(p) ==
    /\ job[p].step = "post" /\ post[p].pc = "done"
    /\ job[p].op = "pay"
    /\ LeavePost(p)
    /\ Finish(p)
    /\ UNCHANGED <<order, flagged, approval, executed, audited>>

AdjustReturns(p) ==
    /\ job[p].step = "post" /\ post[p].pc = "done"
    /\ job[p].op = "adjust"
    /\ LeavePost(p)
    /\ job' = [job EXCEPT ![p].step = "audit"]
    /\ UNCHANGED <<order, flagged, approval, executed, audited>>

-----------------------------------------------------------------------------
(* Top-ups.                                                                *)

\* createOrder(): the row is inserted with vaNumber 'pending', and vaNumber is
\* unique.
InsertOrder(p, o) ==
    /\ IsIdle(p)
    /\ order[o] = "NONE"
    /\ \A x \in Orders : order[x] # "INSERTED"
    /\ order' = [order EXCEPT ![o] = "INSERTED"]
    /\ job' = [job EXCEPT ![p] = Job("va", "order", o, {})]
    /\ UNCHANGED <<ledgerVars, flagged, approval, executed, audited>>

\* createOrder(): the provider answered.
AssignVa(p) ==
    /\ job[p].step = "va"
    /\ order' = [order EXCEPT ![job[p].what] = "AWAITING_PAYMENT"]
    /\ Finish(p)
    /\ UNCHANGED <<ledgerVars, flagged, approval, executed, audited>>

\* settleByProviderRef(): the order is read, and seen to be unpaid.
SettleTopup(p, o) ==
    /\ IsIdle(p)
    /\ order[o] = "AWAITING_PAYMENT"
    /\ CallPost(p, CashIn, OrderWallet[o], OrderAmount[o], o)
    /\ job' = [job EXCEPT ![p] = Job("post", "topup", o, {})]
    /\ UNCHANGED <<order, flagged, approval, executed, audited>>

TopupPosted(p) ==
    /\ job[p].step = "post" /\ post[p].pc = "done"
    /\ job[p].op = "topup"
    /\ LeavePost(p)
    /\ job' = [job EXCEPT ![p].step = "report"]
    /\ UNCHANGED <<order, flagged, approval, executed, audited>>

\* Mutant: the check for large amounts is left out.
CheckLtktNever(p) ==
    /\ job[p].step = "report"
    /\ job' = [job EXCEPT ![p].step = "mark"]
    /\ UNCHANGED <<ledgerVars, order, flagged, approval, executed, audited>>

\* checkLtkt(): a large top-up is written up for PPATK.
CheckLtkt(p) ==
    /\ job[p].step = "report"
    /\ flagged' = [o \in Orders |->
                     IF o = job[p].what /\ o \in Large THEN flagged[o] + 1 ELSE flagged[o]]
    /\ job' = [job EXCEPT ![p].step = "mark"]
    /\ UNCHANGED <<ledgerVars, order, approval, executed, audited>>

MarkPaid(p) ==
    /\ job[p].step = "mark" /\ job[p].op = "topup"
    /\ order' = [order EXCEPT ![job[p].what] = "PAID"]
    /\ Finish(p)
    /\ UNCHANGED <<ledgerVars, flagged, approval, executed, audited>>

-----------------------------------------------------------------------------
(* Administration.                                                         *)

FreezeWallet(p, w) ==
    /\ IsIdle(p)
    /\ Freeze(w)
    /\ job' = [job EXCEPT ![p] = Job("audit", "freeze", w, {})]
    /\ UNCHANGED <<order, flagged, approval, executed, audited>>

RequestDual(p, m, a) ==
    /\ IsIdle(p)
    /\ approval[a].status = "NONE"
    /\ approval' = [approval EXCEPT ![a] = [status |-> "PENDING", by |-> {m}]]
    /\ job' = [job EXCEPT ![p] = Job("audit", "request", a, {})]
    /\ UNCHANGED <<ledgerVars, order, flagged, executed, audited>>

\* approveDualAction(): the row is read, the checks pass, and with two
\* approvers the adjustment is posted.
ApproveDual(p, m, a) ==
    /\ IsIdle(p)
    /\ approval[a].status = "PENDING"
    /\ m \notin approval[a].by
    /\ executed[a] < MaxExecutions
    /\ CallPost(p, Adjustment[a].from, Adjustment[a].to, Adjustment[a].amount, NoKey)
    /\ job' = [job EXCEPT ![p] = Job("post", "dual", a, approval[a].by \cup {m})]
    /\ UNCHANGED <<order, flagged, approval, executed, audited>>

\* Mutant: the audit row is written before the approval is marked.
DualPostedAuditFirst(p) ==
    /\ job[p].step = "post" /\ job[p].op = "dual"
    /\ post[p].pc # "done"
    /\ audited' = audited \cup {<<"dual", job[p].what>>}
    /\ UNCHANGED <<ledgerVars, order, flagged, approval, executed, job>>

DualPosted(p) ==
    /\ job[p].step = "post" /\ post[p].pc = "done"
    /\ job[p].op = "dual"
    /\ LeavePost(p)
    /\ job' = [job EXCEPT ![p].step = "mark"]
    /\ UNCHANGED <<order, flagged, approval, executed, audited>>

MarkExecuted(p) ==
    /\ job[p].step = "mark" /\ job[p].op = "dual"
    /\ approval' = [approval EXCEPT ![job[p].what] =
                      [status |-> "EXECUTED", by |-> job[p].seen]]
    /\ job' = [job EXCEPT ![p].step = "audit"]
    /\ UNCHANGED <<ledgerVars, order, flagged, executed, audited>>

Audit(p) ==
    /\ job[p].step = "audit"
    /\ audited' = audited \cup {<<job[p].op, job[p].what>>}
    /\ Finish(p)
    /\ UNCHANGED <<ledgerVars, order, flagged, approval, executed>>

-----------------------------------------------------------------------------
\* The job awaits post(), which checks and commits.
AwaitPost(p) ==
    /\ job[p].step = "post"
    /\ CheckSource(p) \/ CheckDest(p)
    /\ UNCHANGED hubVars

CommitPost(p) ==
    /\ job[p].step = "post"
    /\ Commit(p)
    /\ executed' = [a \in Approvals |->
                      IF job[p].op = "dual" /\ a = job[p].what THEN executed[a] + 1
                                                              ELSE executed[a]]
    /\ UNCHANGED <<order, flagged, approval, audited, job>>

\* post() refuses, and the request ends with an error.
PostThrows(p) ==
    /\ job[p].step = "post"
    /\ Refused(p)
    /\ LeavePost(p)
    /\ Finish(p)
    /\ UNCHANGED <<order, flagged, approval, executed, audited>>

\* Any other await throws, or the process dies.
Dies(p) ==
    /\ ~IsIdle(p)
    /\ LeavePost(p) \/ (post[p].pc = "idle" /\ UNCHANGED ledgerVars)
    /\ Finish(p)
    /\ UNCHANGED <<order, flagged, approval, executed, audited>>

Next ==
    \E p \in Posters :
       \/ \E r \in Routes, amount \in PayAmounts, op \in {"pay", "adjust"} :
            Pay(p, r[1], r[2], amount, op)
       \/ PayReturns(p) \/ AdjustReturns(p)
       \/ \E o \in Orders : InsertOrder(p, o) \/ SettleTopup(p, o)
       \/ AssignVa(p) \/ TopupPosted(p) \/ CheckLtkt(p) \/ MarkPaid(p)
       \/ \E w \in Suspects : FreezeWallet(p, w)
       \/ \E m \in Admins, a \in Approvals : RequestDual(p, m, a) \/ ApproveDual(p, m, a)
       \/ DualPosted(p) \/ MarkExecuted(p) \/ Audit(p)
       \/ AwaitPost(p) \/ CommitPost(p) \/ PostThrows(p) \/ Dies(p)

Spec == Init /\ [][Next]_vars

-----------------------------------------------------------------------------
(* Properties.                                                             *)

JobTypes ==
    job \in [Posters -> [step : JobStep,
                         op : {"none", "pay", "adjust", "order", "topup", "freeze",
                               "request", "dual"},
                         what : Orders \cup Approvals \cup Wallets \cup {NoKey},
                         seen : SUBSET Admins]]

RowTypes ==
    /\ order \in [Orders -> OrderStatus]
    /\ flagged \in [Orders -> Nat]
    /\ approval \in [Approvals -> [status : ApprovalStatus, by : SUBSET Admins]]
    /\ executed \in [Approvals -> Nat]

\* A request has a ledger transaction open exactly while it awaits post().
OpenTransactions == \A p \in Posters : (job[p].step = "post") <=> (post[p].pc # "idle")

\* What every row, request and transaction can be.
TypeOK == LedgerTypeOK /\ RowTypes /\ JobTypes /\ OpenTransactions

\* A top-up the user sees as PAID has been credited once, and a large one is
\* in the compliance queue once, whatever notifications were repeated, ran at
\* once or died between the posting and the update of the order.
PaidIsComplete ==
    \A o \in Orders : order[o] = "PAID" =>
        /\ posted[o] = 1
        /\ o \in Large => flagged[o] = 1

TwoOf(S) == \E m, n \in S : m # n

\* An adjustment above the threshold moves money only for two different
\* people, and an approval is EXECUTED only if its money moved.
TwoPeople ==
    /\ \A a \in Approvals : approval[a].status = "EXECUTED" =>
         executed[a] > 0 /\ TwoOf(approval[a].by)
    /\ \A p \in Posters : job[p].op = "dual" => TwoOf(job[p].seen)

\* The audit log never claims what did not happen.
AuditIsTrue ==
    /\ \A a \in Approvals : <<"dual", a>> \in audited => executed[a] > 0
    /\ \A w \in Wallets : <<"freeze", w>> \in audited => frozen[w]

\* An approved adjustment is executed once: approveDualAction() refuses an
\* approval that is "Already resolved" (admin.service.ts:120-121).
\* The code does not keep it; the README tells how it fails.
ExecutedOnce == \A a \in Approvals : executed[a] <= 1
=============================================================================
