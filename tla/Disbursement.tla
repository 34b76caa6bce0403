---------------------------- MODULE Disbursement ----------------------------
(***************************************************************************)
(* The payout lifecycle of apps/api/src/field-payments: the Finance        *)
(* decision (FieldPaymentsService.decide), the payout it starts            *)
(* (DisbursementService.start), the retry of a failed payout, the gateway  *)
(* notification that settles it (DisbursementService.settle) and the       *)
(* nightly ReconciliationService.run.                                      *)
(*                                                                         *)
(* Every handler is an async function of one Node process.  Each `await`   *)
(* on the database or on the provider is a point where every other handler *)
(* may run, so a handler is a task with a program counter and one action   *)
(* per awaited call.  A single Prisma statement, and LedgerService.post    *)
(* (one $transaction on SYSTEM wallets, which are never refused for lack   *)
(* of funds), are atomic.                                                  *)
(*                                                                         *)
(* Bounds: Refs bounds how many payouts the provider ever issues; FinTasks *)
(* and HookTasks bound how many handlers are in flight at once.            *)
(***************************************************************************)
EXTENDS Integers, FiniteSets, Functions

CONSTANTS
    Requests,   \* PaymentRequest rows, all created PENDING
    Refs,       \* gateway references (and, one for one, idempotency keys)
    FinTasks,   \* handlers of Finance calls: decide, retry
    HookTasks,  \* handlers of gateway notifications: webhook, mock timer
    Amount,     \* amount of each request
    NoReq, NoRef,
    Slow,       \* TRUE: no notification overtakes the handler that started it
    Faults      \* TRUE: a handler may die at any await

ASSUME RowsAssumption == NoReq \notin Requests /\ NoRef \notin Refs
ASSUME PayoutAmountAssumption == Amount \in [Requests -> Nat \ {0}]
ASSUME FiniteAssumption == IsFiniteSet(Refs)
ASSUME FlagAssumption == Slow \in BOOLEAN /\ Faults \in BOOLEAN

VARIABLES
    status,    \* PaymentRequest.status
    owner,     \* request a gateway reference was issued for, NoReq if unissued
    outcome,   \* whether the gateway will report the payout settled
    payout,    \* GatewayPayout.status, "NONE" while there is no row
    legs,      \* ledger transactions posted for a reference, per kind of leg
    fin,       \* Finance handlers in flight
    hook,      \* notification handlers in flight
    acked,     \* references whose notification was answered 2xx
    recon,     \* the reconciliation run in progress
    lastRun    \* ok flag of the last ReconciliationRun row

payoutVars == <<status, owner, outcome, payout, legs, fin, hook, acked, recon, lastRun>>

RequestStatus == {"PENDING", "APPROVED", "DISBURSING", "PAID", "REJECTED", "FAILED"}
PayoutStatus  == {"PENDING", "SETTLED", "FAILED"}
FinStep  == {"idle", "reject", "approve", "create", "post", "payout", "mark"}
HookStep == {"idle", "post", "mark"}

\* start: CORPORATE_MAIN -> CLEARING_GATEWAY; expense: CLEARING_GATEWAY ->
\* EXPENSE:<category>; refund: CLEARING_GATEWAY -> CORPORATE_MAIN.
NoLegs == [start |-> 0, expense |-> 0, refund |-> 0]

IdleFin  == [pc |-> "idle", req |-> NoReq, ref |-> NoRef]
IdleHook == [pc |-> "idle", ref |-> NoRef]

Issued == {x \in Refs : owner[x] # NoReq}

\* Units of a payout still in the clearing wallet.
InClearing(x) == legs[x].start - legs[x].expense - legs[x].refund

ClearingBalance ==
    SumFunctionOnSet([x \in Issued |-> Amount[owner[x]] * InClearing(x)], Issued)

PendingPayouts == {x \in Issued : payout[x] = "PENDING"}

PendingAmount == SumFunctionOnSet([x \in Issued |-> Amount[owner[x]]], PendingPayouts)

-----------------------------------------------------------------------------
PayoutInit ==
    /\ status = [r \in Requests |-> "PENDING"]
    /\ owner = [x \in Refs |-> NoReq]
    /\ outcome = [x \in Refs |-> FALSE]
    /\ payout = [x \in Refs |-> "NONE"]
    /\ legs = [x \in Refs |-> NoLegs]
    /\ fin = [f \in FinTasks |-> IdleFin]
    /\ hook = [h \in HookTasks |-> IdleHook]
    /\ acked = {}
    /\ recon = [pc |-> "idle", clearing |-> 0]
    /\ lastRun = "none"

-----------------------------------------------------------------------------
(* Finance: decide and retry.                                              *)

\* decide() reads the request and refuses one that is not PENDING; what it
\* goes on to write depends on the action in the body.
ReadForDecision(f, r) ==
    /\ fin[f].pc = "idle"
    /\ status[r] = "PENDING"
    /\ \E step \in {"approve", "reject"} :
         fin' = [fin EXCEPT ![f] = [pc |-> step, req |-> r, ref |-> NoRef]]
    /\ UNCHANGED <<status, owner, outcome, payout, legs, hook, acked, recon, lastRun>>

Reject(f) ==
    /\ fin[f].pc = "reject"
    /\ status' = [status EXCEPT ![fin[f].req] = "REJECTED"]
    /\ fin' = [fin EXCEPT ![f] = IdleFin]
    /\ UNCHANGED <<owner, outcome, payout, legs, hook, acked, recon, lastRun>>

Approve(f) ==
    /\ fin[f].pc = "approve"
    /\ status' = [status EXCEPT ![fin[f].req] = "APPROVED"]
    /\ fin' = [fin EXCEPT ![f].pc = "create"]
    /\ UNCHANGED <<owner, outcome, payout, legs, hook, acked, recon, lastRun>>

\* Mutant: retry() forgets to look at the status.
RetryAnything(f, r) ==
    /\ fin[f].pc = "idle"
    /\ fin' = [fin EXCEPT ![f] = [pc |-> "create", req |-> r, ref |-> NoRef]]
    /\ UNCHANGED <<status, owner, outcome, payout, legs, hook, acked, recon, lastRun>>

\* retry() reads the request and refuses one that is not FAILED.
ReadForRetry(f, r) ==
    /\ fin[f].pc = "idle"
    /\ status[r] = "FAILED"
    /\ fin' = [fin EXCEPT ![f] = [pc |-> "create", req |-> r, ref |-> NoRef]]
    /\ UNCHANGED <<status, owner, outcome, payout, legs, hook, acked, recon, lastRun>>

\* start(), first await: the provider issues a reference.  The idempotency
\* key is new on every call, so the provider never finds it already used.
CreateDisbursement(f) ==
    /\ fin[f].pc = "create"
    /\ \E x \in Refs \ Issued, ok \in BOOLEAN :
         /\ owner' = [owner EXCEPT ![x] = fin[f].req]
         /\ outcome' = [outcome EXCEPT ![x] = ok]
         /\ fin' = [fin EXCEPT ![f] = [pc |-> "post", req |-> fin[f].req, ref |-> x]]
    /\ UNCHANGED <<status, payout, legs, hook, acked, recon, lastRun>>

\* start(): ledger.post CORPORATE_MAIN -> CLEARING_GATEWAY.
PostStart(f) ==
    /\ fin[f].pc = "post"
    /\ legs' = [legs EXCEPT ![fin[f].ref].start = @ + 1]
    /\ fin' = [fin EXCEPT ![f].pc = "payout"]
    /\ UNCHANGED <<status, owner, outcome, payout, hook, acked, recon, lastRun>>

\* start(): gatewayPayout.create.
CreatePayout(f) ==
    /\ fin[f].pc = "payout"
    /\ payout' = [payout EXCEPT ![fin[f].ref] = "PENDING"]
    /\ fin' = [fin EXCEPT ![f].pc = "mark"]
    /\ UNCHANGED <<status, owner, outcome, legs, hook, acked, recon, lastRun>>

\* start(), last await: the request becomes DISBURSING, whatever it was.
MarkDisbursing(f) ==
    /\ fin[f].pc = "mark"
    /\ status' = [status EXCEPT ![fin[f].req] = "DISBURSING"]
    /\ fin' = [fin EXCEPT ![f] = IdleFin]
    /\ UNCHANGED <<owner, outcome, payout, legs, hook, acked, recon, lastRun>>

\* An await throws, or the process dies: the writes already made stay.
FinDies(f) ==
    /\ Faults
    /\ fin[f].pc # "idle"
    /\ fin' = [fin EXCEPT ![f] = IdleFin]
    /\ UNCHANGED <<status, owner, outcome, payout, legs, hook, acked, recon, lastRun>>

-----------------------------------------------------------------------------
(* Gateway notifications.                                                  *)

\* A notification for an issued reference may arrive at any time and any
\* number of times (provider retries, the mock timer and the webhook share
\* settle()).  Under Slow it arrives only once start() has returned, as with
\* the mock's 4 second timer.
Arrives(x) ==
    /\ x \in Issued
    /\ Slow => \A f \in FinTasks : fin[f].ref # x

\* Mutant: update by reference alone, as apps/payments does.
SettleFlipUnguarded(h, x) ==
    /\ hook[h].pc = "idle"
    /\ Arrives(x)
    /\ payout[x] # "NONE"
    /\ payout' = [payout EXCEPT ![x] = IF outcome[x] THEN "SETTLED" ELSE "FAILED"]
    /\ hook' = [hook EXCEPT ![h] = [pc |-> "post", ref |-> x]]
    /\ UNCHANGED <<status, owner, outcome, legs, fin, acked, recon, lastRun>>

\* Mutant: only successful payouts are acted on.
SettleFlipSuccessOnly(h, x) ==
    /\ hook[h].pc = "idle"
    /\ Arrives(x)
    /\ payout[x] = "PENDING" /\ outcome[x]
    /\ payout' = [payout EXCEPT ![x] = "SETTLED"]
    /\ hook' = [hook EXCEPT ![h] = [pc |-> "post", ref |-> x]]
    /\ UNCHANGED <<status, owner, outcome, legs, fin, acked, recon, lastRun>>

\* settle(), first await: updateMany where status is PENDING.
SettleFlip(h, x) ==
    /\ hook[h].pc = "idle"
    /\ Arrives(x)
    /\ payout[x] = "PENDING"
    /\ payout' = [payout EXCEPT ![x] = IF outcome[x] THEN "SETTLED" ELSE "FAILED"]
    /\ hook' = [hook EXCEPT ![h] = [pc |-> "post", ref |-> x]]
    /\ UNCHANGED <<status, owner, outcome, legs, fin, acked, recon, lastRun>>

\* settle() matched no row: {handled: false}, answered 2xx all the same.
SettleIgnored(h, x) ==
    /\ hook[h].pc = "idle"
    /\ Arrives(x)
    /\ payout[x] # "PENDING"
    /\ acked' = acked \cup {x}
    /\ UNCHANGED <<status, owner, outcome, payout, legs, fin, hook, recon, lastRun>>

\* settle(): the expense leg or the reversal.
SettlePost(h) ==
    /\ hook[h].pc = "post"
    /\ LET x == hook[h].ref IN
         \/ outcome[x] /\ legs' = [legs EXCEPT ![x].expense = @ + 1]
         \/ ~outcome[x] /\ legs' = [legs EXCEPT ![x].refund = @ + 1]
    /\ hook' = [hook EXCEPT ![h].pc = "mark"]
    /\ UNCHANGED <<status, owner, outcome, payout, fin, acked, recon, lastRun>>

\* settle(), last await: the request becomes PAID or FAILED, whatever it was.
SettleMark(h) ==
    /\ hook[h].pc = "mark"
    /\ LET x == hook[h].ref IN
         /\ status' = [status EXCEPT ![owner[x]] = IF outcome[x] THEN "PAID" ELSE "FAILED"]
         /\ acked' = acked \cup {x}
    /\ hook' = [hook EXCEPT ![h] = IdleHook]
    /\ UNCHANGED <<owner, outcome, payout, legs, fin, recon, lastRun>>

HookDies(h) ==
    /\ Faults
    /\ hook[h].pc # "idle"
    /\ hook' = [hook EXCEPT ![h] = IdleHook]
    /\ UNCHANGED <<status, owner, outcome, payout, legs, fin, acked, recon, lastRun>>

-----------------------------------------------------------------------------
(* Reconciliation: the clearing balance and the pending payouts are two    *)
(* separate reads.  The first two checks of run() compare debits with      *)
(* credits; post() writes them in pairs, so they are left out.             *)

ReconReadClearing ==
    /\ recon.pc = "idle"
    /\ recon' = [pc |-> "pending", clearing |-> ClearingBalance]
    /\ UNCHANGED <<status, owner, outcome, payout, legs, fin, hook, acked, lastRun>>

\* Mutant: only a shortfall raises the alarm.
ReconFinishShortfall ==
    /\ recon.pc = "pending"
    /\ lastRun' = IF recon.clearing >= PendingAmount THEN "ok" ELSE "failed"
    /\ recon' = [pc |-> "idle", clearing |-> 0]
    /\ UNCHANGED <<status, owner, outcome, payout, legs, fin, hook, acked>>

ReconFinish ==
    /\ recon.pc = "pending"
    /\ lastRun' = IF recon.clearing = PendingAmount THEN "ok" ELSE "failed"
    /\ recon' = [pc |-> "idle", clearing |-> 0]
    /\ UNCHANGED <<status, owner, outcome, payout, legs, fin, hook, acked>>

-----------------------------------------------------------------------------
\* Mutant: start() writes the payout row before it moves the money.
FinStepRowFirst(f) ==
    \/ Reject(f) \/ Approve(f) \/ CreateDisbursement(f) \/ MarkDisbursing(f)
    \/ /\ fin[f].pc = "post"
       /\ payout' = [payout EXCEPT ![fin[f].ref] = "PENDING"]
       /\ fin' = [fin EXCEPT ![f].pc = "payout"]
       /\ UNCHANGED <<status, owner, outcome, legs, hook, acked, recon, lastRun>>
    \/ /\ fin[f].pc = "payout"
       /\ legs' = [legs EXCEPT ![fin[f].ref].start = @ + 1]
       /\ fin' = [fin EXCEPT ![f].pc = "mark"]
       /\ UNCHANGED <<status, owner, outcome, payout, hook, acked, recon, lastRun>>

FinStepOf(f) ==
    \/ Reject(f) \/ Approve(f)
    \/ CreateDisbursement(f) \/ PostStart(f) \/ CreatePayout(f) \/ MarkDisbursing(f)

\* Mutant: settle() reports the request before it posts the leg.
HookStepMarkFirst(h) ==
    LET x == hook[h].ref IN
    \/ /\ hook[h].pc = "post"
       /\ status' = [status EXCEPT ![owner[x]] = IF outcome[x] THEN "PAID" ELSE "FAILED"]
       /\ hook' = [hook EXCEPT ![h].pc = "mark"]
       /\ UNCHANGED <<owner, outcome, payout, legs, fin, acked, recon, lastRun>>
    \/ /\ hook[h].pc = "mark"
       /\ \/ outcome[x] /\ legs' = [legs EXCEPT ![x].expense = @ + 1]
          \/ ~outcome[x] /\ legs' = [legs EXCEPT ![x].refund = @ + 1]
       /\ acked' = acked \cup {x}
       /\ hook' = [hook EXCEPT ![h] = IdleHook]
       /\ UNCHANGED <<status, owner, outcome, payout, fin, recon, lastRun>>

HookStepOf(h) == SettlePost(h) \/ SettleMark(h)

Notify(x) == \E h \in HookTasks : SettleFlip(h, x) \/ SettleIgnored(h, x)

PayoutNext ==
    \/ \E f \in FinTasks :
         \/ \E r \in Requests : ReadForDecision(f, r) \/ ReadForRetry(f, r)
         \/ FinStepOf(f)
         \/ FinDies(f)
    \/ \E h \in HookTasks : HookStepOf(h) \/ HookDies(h)
    \/ \E x \in Refs : Notify(x)
    \/ ReconReadClearing
    \/ ReconFinish

PayoutSpec == PayoutInit /\ [][PayoutNext]_payoutVars

\* A handler that was called runs on (the event loop is fair), and the
\* provider repeats a notification until it is answered 2xx.  People are not
\* obliged to decide or to retry.
FairSpec ==
    /\ PayoutSpec
    /\ \A f \in FinTasks : WF_payoutVars(FinStepOf(f))
    /\ \A h \in HookTasks : WF_payoutVars(HookStepOf(h))
    /\ \A x \in Refs : WF_payoutVars(x \notin acked /\ Notify(x))

-----------------------------------------------------------------------------
(* Properties.                                                             *)

PayoutRowTypes ==
    /\ status \in [Requests -> RequestStatus]
    /\ owner \in [Refs -> Requests \cup {NoReq}]
    /\ outcome \in [Refs -> BOOLEAN]
    /\ payout \in [Refs -> PayoutStatus \cup {"NONE"}]
    /\ legs \in [Refs -> [start : Nat, expense : Nat, refund : Nat]]

TaskTypes ==
    /\ fin \in [FinTasks -> [pc : FinStep, req : Requests \cup {NoReq}, ref : Refs \cup {NoRef}]]
    /\ hook \in [HookTasks -> [pc : HookStep, ref : Refs \cup {NoRef}]]

\* The rows and the handlers keep the types the schema and the code give them.
PayoutTypeOK ==
    /\ PayoutRowTypes
    /\ TaskTypes
    /\ acked \subseteq Refs
    /\ recon \in [pc : {"idle", "pending"}, clearing : Int]
    /\ lastRun \in {"none", "ok", "failed"}

\* No payout is settled twice: of the expense leg and the reversal at most
\* one is ever posted, and once, whatever notifications are repeated, raced
\* or cut short ("double-settlement is impossible",
\* disbursement.service.ts:27-28).
SettledOnce == \A x \in Refs : legs[x].expense + legs[x].refund <= 1

\* Money leaves the clearing wallet only after it entered it, and a payout
\* that the database shows in flight has its money there, at every await of
\* every handler: the clearing balance always covers the pending payouts.
InFlightIsBacked ==
    \A x \in Refs : /\ InClearing(x) >= 0
                    /\ payout[x] = "PENDING" => InClearing(x) = 1

\* A request the agent sees as PAID has been recognised as an expense, though
\* settle() writes the two in different awaits and start() may overwrite the
\* status of a request whose payout it lost track of.
PaidIsExpensed ==
    \A r \in Requests : status[r] = "PAID" =>
        \E x \in Refs : owner[x] = r /\ legs[x].expense > 0

Idle == /\ \A f \in FinTasks : fin[f].pc = "idle"
        /\ \A h \in HookTasks : hook[h].pc = "idle"

\* Payouts whose handler died: their money is in clearing and the gateway's
\* notifications will not move it.
Stranded == {x \in Refs : InClearing(x) > 0 /\ payout[x] # "PENDING"}

\* A reconciliation that reads one consistent picture, with no handler in
\* flight, tells the truth: it fails exactly if some payout is stranded,
\* however the amounts of the stranded and the pending ones add up.
ReconciliationTells ==
    [][ReconFinish /\ Idle /\ recon.clearing = ClearingBalance =>
        (lastRun' = "failed" <=> Stranded # {})]_payoutVars

\* A request never has two payouts out at once, in clearing or expensed: the
\* guards of decide() and retry() and the idempotency key ("provider dedupes
\* retries on this", disbursement.provider.ts:5) are there for it.
LivePayouts(r) == {x \in Refs : owner[x] = r /\ legs[x].start > legs[x].refund}
OneLivePayout == \A r \in Requests : Cardinality(LivePayouts(r)) <= 1

\* Every payout handed to the gateway is settled, its row and the ledger
\* agreeing: "settlement arrives later via webhook"
\* (disbursement.provider.ts:14).
EverySettlementLands ==
    \A x \in Refs : x \in Issued ~>
        /\ legs[x].expense + legs[x].refund = 1
        /\ payout[x] \in {"SETTLED", "FAILED"}

\* One Finance handler at a time and notifications that arrive after the
\* handler that started the payout returned: then the handlers implement the
\* lifecycle the documentation draws (PayoutLifecycle).
Life == INSTANCE PayoutLifecycle WITH
    phase <- status,
    held <- [r \in Requests |-> {x \in Refs : owner[x] = r /\ InClearing(x) > 0}],
    spent <- [r \in Requests |-> {x \in Refs : owner[x] = r /\ legs[x].expense > 0}],
    returned <- [r \in Requests |-> {x \in Refs : owner[x] = r /\ legs[x].refund > 0}]
LifecycleSpec == Life!Spec
=============================================================================
