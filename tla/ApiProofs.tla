----------------------------- MODULE ApiProofs ------------------------------
(***************************************************************************)
(* Proofs about the API: Ledger and Hub, for any wallets, requests,        *)
(* orders, approvals and administrators; and Disbursement, for any         *)
(* requests, references and handlers, with or without faults and early     *)
(* notifications (its last two theorems suppose less: OneFinance,          *)
(* OneAtATime).                                                            *)
(*                                                                         *)
(* The ledger is proved about alone, for callers that do whatever post()   *)
(* lets them; Hub is then shown to be such a caller (Refinement), so what  *)
(* holds of the ledger holds of the whole.  The argument for top-ups: the  *)
(* unique key lets one request past the commit of an order's posting, ever *)
(* (TopupInv), so the steps after the commit, which check nothing, are     *)
(* taken once.                                                             *)
(*                                                                         *)
(* The argument for payouts: the handler that was given a reference is the *)
(* only one that works on it until the payout row exists (FinInv); the     *)
(* flip out of PENDING hands the reference to exactly one notification     *)
(* handler (HookInv); so the legs of a reference are posted in a fixed     *)
(* order, each at most once (RefInv).                                      *)
(***************************************************************************)
EXTENDS Hub, Disbursement, SumTheorems, TLAPS

-----------------------------------------------------------------------------
(* The ledger alone.                                                       *)

LEMMA LedgerTypes == ASSUME LedgerTypeOK, [LedgerNext]_ledgerVars PROVE LedgerTypeOK'
<1>. USE WalletAssumption, KeyAssumption, AmountAssumption
     DEF LedgerTypeOK, PostTypes, PostStep, NoPost
<1>1. ASSUME NEW p \in Posters, NEW from \in Wallets, NEW to \in Wallets,
             NEW amount \in 1 .. MaxAmount, NEW key \in Keys \cup {NoKey},
             CallPost(p, from, to, amount, key)
      PROVE  LedgerTypeOK'
  BY <1>1 DEF CallPost
<1>2. ASSUME NEW p \in Posters, CheckSource(p) \/ CheckDest(p) PROVE LedgerTypeOK'
  BY <1>2 DEF CheckSource, CheckDest
<1>3. ASSUME NEW p \in Posters, Commit(p) PROVE LedgerTypeOK'
  <2>1. balance' \in [Wallets -> Int] BY <1>3 DEF Commit, Moved
  <2>2. posted' \in [Keys -> Nat] BY <1>3 DEF Commit, CountKey
  <2>. QED BY <2>1, <2>2, <1>3 DEF Commit
<1>4. ASSUME NEW p \in Posters, LeavePost(p) PROVE LedgerTypeOK'
  BY <1>4 DEF LeavePost
<1>5. ASSUME NEW w \in Wallets, Freeze(w) PROVE LedgerTypeOK'
  BY <1>5 DEF Freeze
<1>6. CASE UNCHANGED ledgerVars
  BY <1>6 DEF ledgerVars
<1>. QED BY <1>1, <1>2, <1>3, <1>4, <1>5, <1>6 DEF LedgerNext, PostStepOf

LEMMA LedgerKeys == ASSUME LedgerTypeOK, KeyOnce, [LedgerNext]_ledgerVars PROVE KeyOnce'
<1>1. ASSUME NEW p \in Posters, Commit(p) PROVE KeyOnce'
  BY <1>1 DEF Commit, CountKey, KeyFree, KeyOnce, LedgerTypeOK, PostTypes
<1>2. ASSUME UNCHANGED posted PROVE KeyOnce'
  BY <1>2 DEF KeyOnce
<1>. QED BY <1>1, <1>2 DEF LedgerNext, PostStepOf, CallPost, CheckSource, CheckDest,
                           LeavePost, Freeze, ledgerVars

LEMMA LedgerStart == ASSUME LedgerInit PROVE LedgerTypeOK /\ KeyOnce
BY WalletAssumption, AmountAssumption
   DEF LedgerInit, LedgerTypeOK, PostTypes, PostStep, NoPost, KeyOnce

\* LedgerService.post commits an external reference once, and every row keeps
\* its type, whatever the callers do.
THEOREM LedgerInvariance == LedgerSpec => [](LedgerTypeOK /\ KeyOnce)
<1>1. LedgerInit => LedgerTypeOK /\ KeyOnce BY LedgerStart
<1>2. LedgerTypeOK /\ KeyOnce /\ [LedgerNext]_ledgerVars => (LedgerTypeOK /\ KeyOnce)'
  BY LedgerTypes, LedgerKeys
<1>. QED BY <1>1, <1>2, PTL DEF LedgerSpec

\* What FreezeHolds says of a step.
RestKept == \A w \in Wallets : AtRest(w) => AtRest(w)' /\ balance'[w] = balance[w]

LEMMA FreezeStep == ASSUME LedgerTypeOK, [LedgerNext]_ledgerVars PROVE RestKept
<1>. USE WalletAssumption DEF LedgerTypeOK, PostTypes, PostStep, AtRest, RestKept
<1>1. ASSUME NEW p \in Posters, NEW from \in Wallets, NEW to \in Wallets,
             NEW amount \in 1 .. MaxAmount, NEW key \in Keys \cup {NoKey},
             CallPost(p, from, to, amount, key)
      PROVE  RestKept
  BY <1>1 DEF CallPost
<1>2. ASSUME NEW p \in Posters, CheckSource(p) \/ CheckDest(p) PROVE RestKept
  BY <1>2 DEF CheckSource, CheckDest
<1>3. ASSUME NEW p \in Posters, Commit(p) PROVE RestKept
  <2>1. ASSUME NEW w \in Wallets, AtRest(w) PROVE w # post[p].from /\ w # post[p].to
    BY <2>1, <1>3 DEF Commit
  <2>2. ASSUME NEW w \in Wallets, AtRest(w) PROVE balance'[w] = balance[w]
    BY <2>1, <2>2, <1>3 DEF Commit, Moved
  <2>3. ASSUME NEW w \in Wallets, AtRest(w) PROVE AtRest(w)'
    BY <2>3, <1>3 DEF Commit
  <2>. QED BY <2>2, <2>3
<1>4. ASSUME NEW p \in Posters, LeavePost(p) PROVE RestKept
  BY <1>4 DEF LeavePost, NoPost
<1>5. ASSUME NEW w \in Wallets, Freeze(w) PROVE RestKept
  BY <1>5 DEF Freeze
<1>6. CASE UNCHANGED ledgerVars
  BY <1>6 DEF ledgerVars
<1>. QED BY <1>1, <1>2, <1>3, <1>4, <1>5, <1>6 DEF LedgerNext, PostStepOf

\* A frozen wallet that has come to rest keeps its balance for ever
\* (AdminService.freezeWallet, and both isFrozen checks of post()).
THEOREM LedgerFreeze == LedgerSpec => FreezeHolds
<1>1. LedgerTypeOK /\ [LedgerNext]_ledgerVars => [RestKept]_ledgerVars
  BY FreezeStep
<1>. QED BY <1>1, LedgerInvariance, PTL DEF LedgerSpec, FreezeHolds, RestKept

-----------------------------------------------------------------------------
(* How far posts that run at once can overdraw a wallet.                   *)

Amounts == [p \in Posters |-> post[p].amount]
Others == (Cardinality(Posters) - 1) * MaxAmount

\* The amounts of any posts are bounded one by one.
LEMMA InFlightSum ==
  ASSUME LedgerTypeOK, NEW P \in SUBSET Posters
  PROVE  /\ IsFiniteSet(P)
         /\ \A p \in P : Amounts[p] \in 0 .. MaxAmount
         /\ SumFunctionOnSet(Amounts, P) \in Nat
<1>1. IsFiniteSet(P)
  BY PosterAssumption, FS_Subset
<1>2. \A p \in P : Amounts[p] \in 0 .. MaxAmount
  BY DEF Amounts, LedgerTypeOK, PostTypes
<1>. QED BY <1>1, <1>2, AmountAssumption, SumNat

\* A step that starts no post out of w and takes nothing from it keeps the bound.
LEMMA LessInFlight ==
  ASSUME LedgerTypeOK, LedgerTypeOK', NEW w \in Wallets,
         balance[w] - InFlight(w) >= -Others, balance'[w] >= balance[w],
         InFlightFrom(w)' \subseteq InFlightFrom(w),
         \A p \in InFlightFrom(w)' : post'[p] = post[p]
  PROVE  (balance[w] - InFlight(w))' >= -Others
<1>1. InFlight(w)' = SumFunctionOnSet(Amounts, InFlightFrom(w)')
  <2>1. \A p \in InFlightFrom(w)' : Amounts'[p] = Amounts[p]
    BY DEF InFlightFrom, Amounts
  <2>2. InFlight(w)' = SumFunctionOnSet(Amounts', InFlightFrom(w)')
    BY DEF InFlight, Amounts
  <2>3. IsFiniteSet(InFlightFrom(w)')
    BY InFlightSum DEF InFlightFrom
  <2>. QED BY <2>1, <2>2, <2>3, SumSame
<1>2. InFlight(w)' <= InFlight(w)
  <2>1. InFlightFrom(w) \in SUBSET Posters
    BY DEF InFlightFrom
  <2>2. SumFunctionOnSet(Amounts, InFlightFrom(w)') <= SumFunctionOnSet(Amounts, InFlightFrom(w))
    BY <2>1, InFlightSum, SumPart
  <2>. QED BY <1>1, <2>2 DEF InFlight, Amounts
<1>3. InFlight(w) \in Int /\ InFlight(w)' \in Int
  BY <1>1, InFlightSum DEF InFlightFrom, InFlight, Amounts
<1>4. Others \in Int
  BY PosterAssumption, AmountAssumption, FS_CardinalityType DEF Others
<1>5. balance[w] \in Int /\ balance'[w] \in Int
  BY DEF LedgerTypeOK
<1>. QED BY <1>2, <1>3, <1>4, <1>5

Bound(w) == balance[w] - InFlight(w) >= -Others

\* post() looks at the balance, so that one more post in flight is covered, and
\* the posts beside it are one fewer than the requests.
LEMMA OneMoreInFlight ==
  ASSUME LedgerTypeOK, LedgerTypeOK', NEW w \in Wallets, NEW p \in Posters,
         post[p].from = w, w \notin System, CheckSource(p)
  PROVE  Bound(w)'
<1>. DEFINE S == InFlightFrom(w)' \ {p}
<1>1. /\ balance[w] >= post[p].amount /\ balance' = balance
      /\ post' = [post EXCEPT ![p].pc = "dest"]
  BY DEF CheckSource, Covered
<1>2. Amounts' = Amounts
  BY <1>1 DEF Amounts, LedgerTypeOK, PostTypes
<1>3. S \in SUBSET Posters /\ p \notin S /\ InFlightFrom(w)' = S \cup {p}
  BY <1>1 DEF InFlightFrom, LedgerTypeOK, PostTypes
<1>4. InFlight(w)' = Amounts[p] + SumFunctionOnSet(Amounts, S)
  <2>1. InFlight(w)' = SumFunctionOnSet(Amounts, S \cup {p})
    BY <1>2, <1>3 DEF InFlight, Amounts
  <2>. QED BY <1>3, <2>1, InFlightSum, SumRemove
<1>5. SumFunctionOnSet(Amounts, S) <= Others
  <2>1. IsFiniteSet(Posters \ {p}) /\ Cardinality(Posters \ {p}) = Cardinality(Posters) - 1
    BY PosterAssumption, FS_RemoveElement
  <2>2. SumFunctionOnSet(Amounts, Posters \ {p}) <= Others
    BY <2>1, InFlightSum, SumAtMost, AmountAssumption DEF Others
  <2>3. SumFunctionOnSet(Amounts, S) <= SumFunctionOnSet(Amounts, Posters \ {p})
    BY <1>3, <2>1, InFlightSum, SumPart
  <2>4. Others \in Int
    BY PosterAssumption, AmountAssumption, FS_CardinalityType DEF Others
  <2>. QED BY <1>3, <2>1, <2>2, <2>3, <2>4, InFlightSum
<1>6. /\ SumFunctionOnSet(Amounts, S) \in Int /\ Amounts[p] = post[p].amount
      /\ post[p].amount \in Int /\ balance[w] \in Int
  BY <1>3, InFlightSum DEF Amounts, LedgerTypeOK, PostTypes
<1>7. Others \in Int
  BY PosterAssumption, AmountAssumption, FS_CardinalityType DEF Others
<1>. HIDE DEF S
<1>. QED BY <1>1, <1>4, <1>5, <1>6, <1>7 DEF Bound

\* A commit takes from the wallet what its post had in flight.
LEMMA OneFewerInFlight ==
  ASSUME LedgerTypeOK, LedgerTypeOK', NEW w \in Wallets, NEW p \in Posters,
         post[p].from = w, Commit(p), Bound(w)
  PROVE  Bound(w)'
<1>. DEFINE S == InFlightFrom(w)'
<1>1. /\ post[p].pc = "commit" /\ balance' = Moved(p)
      /\ post' = [post EXCEPT ![p].pc = "done"]
  BY DEF Commit
<1>2. Amounts' = Amounts
  BY <1>1 DEF Amounts, LedgerTypeOK, PostTypes
<1>3. S = InFlightFrom(w) \ {p} /\ p \in InFlightFrom(w) /\ InFlightFrom(w) \in SUBSET Posters
  BY <1>1 DEF InFlightFrom, LedgerTypeOK, PostTypes
<1>4. InFlight(w) = Amounts[p] + InFlight(w)'
  <2>1. InFlight(w)' = SumFunctionOnSet(Amounts, S)
    BY <1>2 DEF InFlight, Amounts
  <2>2. InFlight(w) = SumFunctionOnSet(Amounts, InFlightFrom(w))
    BY DEF InFlight, Amounts
  <2>. QED BY <1>3, <2>1, <2>2, InFlightSum, SumRemove
<1>5. balance'[w] >= balance[w] - post[p].amount
  BY <1>1 DEF Moved, LedgerTypeOK, PostTypes
<1>6. /\ InFlight(w)' \in Int /\ Amounts[p] = post[p].amount /\ post[p].amount \in Int
      /\ balance[w] \in Int /\ balance'[w] \in Int
  <2>1. InFlight(w)' = SumFunctionOnSet(Amounts, S)
    BY <1>2 DEF InFlight, Amounts
  <2>2. S \in SUBSET Posters
    BY <1>3
  <2>. QED BY <2>1, <2>2, InFlightSum DEF Amounts, LedgerTypeOK, PostTypes
<1>7. Others \in Int
  BY PosterAssumption, AmountAssumption, FS_CardinalityType DEF Others
<1>. HIDE DEF S
<1>. QED BY <1>4, <1>5, <1>6, <1>7 DEF Bound

LEMMA BoundKept ==
  ASSUME LedgerTypeOK, [LedgerNext]_ledgerVars, NEW w \in Wallets \ System, Bound(w)
  PROVE  Bound(w)'
<1>0. LedgerTypeOK'
  BY LedgerTypes
<1>. DEFINE Fewer == /\ balance'[w] >= balance[w]
                     /\ InFlightFrom(w)' \subseteq InFlightFrom(w)
                     /\ \A p \in InFlightFrom(w)' : post'[p] = post[p]
<1>1. ASSUME Fewer PROVE Bound(w)'
  BY <1>0, <1>1, LessInFlight DEF Bound
<1>. USE DEF LedgerTypeOK, PostTypes, InFlightFrom
<1>2. ASSUME NEW p \in Posters, NEW from \in Wallets, NEW to \in Wallets,
             NEW amount \in 1 .. MaxAmount, NEW key \in Keys \cup {NoKey},
             CallPost(p, from, to, amount, key)
      PROVE  Fewer
  BY <1>2 DEF CallPost
<1>3. ASSUME NEW p \in Posters, CheckSource(p), post[p].from # w PROVE Fewer
  BY <1>3 DEF CheckSource
<1>4. ASSUME NEW p \in Posters, Commit(p), post[p].from # w PROVE Fewer
  BY <1>4 DEF Commit, Moved
<1>5. ASSUME NEW p \in Posters, LeavePost(p) PROVE Fewer
  BY <1>5, WalletAssumption DEF LeavePost, NoPost
<1>6. ASSUME NEW v \in Wallets, Freeze(v) PROVE Fewer
  BY <1>6 DEF Freeze
<1>7. CASE UNCHANGED ledgerVars
  BY <1>7, <1>1 DEF ledgerVars
<1>8. ASSUME NEW p \in Posters, CheckDest(p) PROVE Bound(w)'
  <2>1. /\ balance' = balance /\ InFlightFrom(w)' = InFlightFrom(w)
        /\ post' = [post EXCEPT ![p].pc = "commit"]
    BY <1>8 DEF CheckDest
  <2>2. InFlight(w)' = InFlight(w)
    BY <2>1 DEF InFlight
  <2>. QED BY <2>1, <2>2 DEF Bound, Others
<1>. HIDE DEF Fewer, LedgerTypeOK, PostTypes, InFlightFrom
<1>9. ASSUME NEW p \in Posters, PostStepOf(p) PROVE Bound(w)'
  BY <1>0, <1>1, <1>3, <1>4, <1>8, <1>9, OneMoreInFlight, OneFewerInFlight DEF PostStepOf
<1>. QED BY <1>1, <1>2, <1>5, <1>6, <1>7, <1>9 DEF LedgerNext

\* However many posts race, a wallet is overdrawn by at most one maximal amount
\* for each other request (LedgerService.post under READ COMMITTED).
THEOREM LedgerOverdraft == LedgerSpec => []OverdraftIsBounded
<1>1. -(Cardinality(Posters) - 1) * MaxAmount = -Others /\ Others \in Nat
  <2>1. Cardinality(Posters) \in Nat \ {0}
    BY PosterAssumption, FS_CardinalityType, FS_EmptySet
  <2>. QED BY <2>1, AmountAssumption DEF Others
<1>2. LedgerInit => OverdraftIsBounded
  <2>. SUFFICES ASSUME LedgerInit, NEW w \in Wallets \ System
                PROVE  balance[w] - InFlight(w) >= -Others
    BY <1>1 DEF OverdraftIsBounded
  <2>1. InFlightFrom(w) = {}
    BY DEF LedgerInit, InFlightFrom, NoPost
  <2>2. InFlight(w) = 0
    BY <2>1, SumEmpty DEF InFlight
  <2>. QED BY <1>1, <2>2 DEF LedgerInit
<1>3. LedgerTypeOK /\ OverdraftIsBounded /\ [LedgerNext]_ledgerVars => OverdraftIsBounded'
  BY <1>1, BoundKept DEF OverdraftIsBounded, Bound
<1>. QED BY <1>2, <1>3, LedgerInvariance, PTL DEF LedgerSpec

-----------------------------------------------------------------------------
(* The inductive invariant of Hub.                                         *)

\* What a request works on, and the post() call that belongs to it.
JobInv ==
    \A p \in Posters :
      /\ job[p].step = "idle" <=> job[p].op = "none"
      /\ job[p].op = "order" <=> job[p].step = "va"
      /\ job[p].step = "report" => job[p].op = "topup"
      /\ job[p].step = "mark" => job[p].op \in {"topup", "dual"}
      /\ job[p].step = "audit" => job[p].op \notin {"topup", "pay"}
      /\ job[p].op \in {"topup", "order"} => job[p].what \in Orders
      /\ job[p].op \in {"dual", "request"} => job[p].what \in Approvals
      /\ job[p].op = "freeze" => job[p].what \in Wallets
      /\ job[p].step = "post" =>
           /\ post[p].pc # "idle"
           /\ post[p].key = IF job[p].op = "topup" THEN job[p].what ELSE NoKey

\* The request has committed the posting of order o.
PastCommit(p, o) ==
    /\ job[p].op = "topup" /\ job[p].what = o
    /\ \/ job[p].step = "post" /\ post[p].pc = "done"
       \/ job[p].step \in {"report", "mark"}

TopupInv ==
    /\ \A p \in Posters, o \in Orders : PastCommit(p, o) =>
         /\ posted[o] = 1
         /\ order[o] # "PAID"
         /\ job[p].step # "mark" => flagged[o] = 0
         /\ job[p].step = "mark" /\ o \in Large => flagged[o] = 1
    /\ \A p, q \in Posters, o \in Orders : PastCommit(p, o) /\ PastCommit(q, o) => p = q
    /\ \A o \in Orders : posted[o] = 0 => flagged[o] = 0 /\ order[o] # "PAID"

\* An approval in progress has a first approver, an executing request two,
\* and what follows the posting follows it.
DualInv ==
    /\ \A a \in Approvals : approval[a].status = "PENDING" => approval[a].by # {}
    /\ \A p \in Posters :
         /\ job[p].op = "dual" =>
              \/ job[p].step = "post" /\ post[p].pc # "done"
              \/ executed[job[p].what] > 0
         /\ job[p].op = "freeze" => frozen[job[p].what]

IInv ==
    /\ TypeOK /\ JobInv /\ TopupInv /\ DualInv /\ KeyOnce
    /\ PaidIsComplete /\ TwoPeople /\ AuditIsTrue

\* A step of Hub with respect to the ledger keeps the ledger's types.
LEMMA HubLedgerStep == ASSUME TypeOK, [LedgerNext]_ledgerVars PROVE LedgerTypeOK'
BY LedgerTypes DEF TypeOK

\* A request that goes on to its next step keeps its type.
LEMMA StepTypes ==
  ASSUME JobTypes, NEW p \in Posters, NEW s \in JobStep,
         job' = [job EXCEPT ![p].step = s]
  PROVE  JobTypes'
BY DEF JobTypes

-----------------------------------------------------------------------------
(* One lemma per action, one step per conjunct of the invariant.           *)

\* A payment carries no key, so it cannot be taken for a top-up.
LEMMA PayKeeps ==
  ASSUME IInv, NEW p \in Posters, NEW from \in Wallets, NEW to \in Wallets,
         NEW amount \in PayAmounts, NEW op \in {"pay", "adjust"}, Pay(p, from, to, amount, op)
  PROVE  IInv' /\ [LedgerNext]_ledgerVars
<1>. USE HubAssumption, WalletAssumption, KeyAssumption
     DEF IInv, Pay, CallPost, IsIdle, Job, IdleJob, Finish, NoPost,
         ledgerVars, hubVars
<1>1. [LedgerNext]_ledgerVars
  BY DEF LedgerNext, PostStepOf, ledgerVars, TypeOK, LedgerTypeOK, PostTypes
<1>2. LedgerTypeOK'
  BY <1>1, HubLedgerStep
<1>3. RowTypes' /\ JobTypes' /\ OpenTransactions'
  BY DEF TypeOK, OpenTransactions, JobTypes, RowTypes, LedgerTypeOK, PostTypes, JobInv, OrderStatus, ApprovalStatus, JobStep
<1>4. JobInv'
  BY DEF JobInv, TypeOK, OpenTransactions, JobTypes, RowTypes, LedgerTypeOK, PostTypes
<1>5. TopupInv'
  BY DEF TopupInv, PastCommit, JobInv, KeyOnce, PaidIsComplete, TypeOK, OpenTransactions, JobTypes, RowTypes, LedgerTypeOK, PostTypes
<1>6. DualInv'
  BY DEF DualInv, JobInv, TypeOK, OpenTransactions, JobTypes, RowTypes, LedgerTypeOK, PostTypes
<1>7. KeyOnce'
  BY <1>1, LedgerKeys DEF TypeOK
<1>8. PaidIsComplete'
  BY DEF PaidIsComplete, TopupInv, PastCommit, JobInv, TypeOK, OpenTransactions, JobTypes, RowTypes, LedgerTypeOK, PostTypes
<1>9. TwoPeople'
  BY DEF TwoPeople, TwoOf, DualInv, JobInv, TypeOK, OpenTransactions, JobTypes, RowTypes, LedgerTypeOK, PostTypes
<1>10. AuditIsTrue'
  BY DEF AuditIsTrue, DualInv, JobInv, TypeOK, OpenTransactions, JobTypes, RowTypes, LedgerTypeOK, PostTypes
<1>. QED BY <1>1, <1>2, <1>3, <1>4, <1>5, <1>6, <1>7, <1>8, <1>9, <1>10 DEF TypeOK

LEMMA PayReturnsKeeps ==
  ASSUME IInv, NEW p \in Posters, PayReturns(p)
  PROVE  IInv' /\ [LedgerNext]_ledgerVars
<1>. USE HubAssumption, WalletAssumption, KeyAssumption
     DEF IInv, PayReturns, LeavePost, IsIdle, Job, IdleJob, Finish, NoPost,
         ledgerVars, hubVars
<1>1. [LedgerNext]_ledgerVars
  BY DEF LedgerNext, PostStepOf, ledgerVars, TypeOK, LedgerTypeOK, PostTypes
<1>2. LedgerTypeOK'
  BY <1>1, HubLedgerStep
<1>3. RowTypes' /\ JobTypes' /\ OpenTransactions'
  BY DEF TypeOK, OpenTransactions, JobTypes, RowTypes, LedgerTypeOK, PostTypes, JobInv, OrderStatus, ApprovalStatus, JobStep
<1>4. JobInv'
  BY DEF JobInv, TypeOK, OpenTransactions, JobTypes, RowTypes, LedgerTypeOK, PostTypes
<1>5. TopupInv'
  BY DEF TopupInv, PastCommit, JobInv, KeyOnce, PaidIsComplete, TypeOK, OpenTransactions, JobTypes, RowTypes, LedgerTypeOK, PostTypes
<1>6. DualInv'
  BY DEF DualInv, JobInv, TypeOK, OpenTransactions, JobTypes, RowTypes, LedgerTypeOK, PostTypes
<1>7. KeyOnce'
  BY <1>1, LedgerKeys DEF TypeOK
<1>8. PaidIsComplete'
  BY DEF PaidIsComplete, TopupInv, PastCommit, JobInv, TypeOK, OpenTransactions, JobTypes, RowTypes, LedgerTypeOK, PostTypes
<1>9. TwoPeople'
  BY DEF TwoPeople, TwoOf, DualInv, JobInv, TypeOK, OpenTransactions, JobTypes, RowTypes, LedgerTypeOK, PostTypes
<1>10. AuditIsTrue'
  BY DEF AuditIsTrue, DualInv, JobInv, TypeOK, OpenTransactions, JobTypes, RowTypes, LedgerTypeOK, PostTypes
<1>. QED BY <1>1, <1>2, <1>3, <1>4, <1>5, <1>6, <1>7, <1>8, <1>9, <1>10 DEF TypeOK

LEMMA AdjustReturnsKeeps ==
  ASSUME IInv, NEW p \in Posters, AdjustReturns(p)
  PROVE  IInv' /\ [LedgerNext]_ledgerVars
<1>. USE HubAssumption, WalletAssumption, KeyAssumption
     DEF IInv, AdjustReturns, LeavePost, IsIdle, Job, IdleJob, Finish, NoPost,
         ledgerVars, hubVars
<1>1. [LedgerNext]_ledgerVars
  BY DEF LedgerNext, PostStepOf, ledgerVars, TypeOK, LedgerTypeOK, PostTypes
<1>2. LedgerTypeOK'
  BY <1>1, HubLedgerStep
<1>3. RowTypes' /\ JobTypes' /\ OpenTransactions'
  <2>1. RowTypes'
    BY DEF TypeOK, RowTypes, JobTypes, JobInv, OrderStatus, ApprovalStatus
  <2>2. JobTypes'
    <3>1. job' = [job EXCEPT ![p].step = "audit"] /\ "audit" \in JobStep
      BY DEF JobStep
    <3>. QED BY <3>1, StepTypes DEF TypeOK
  <2>3. OpenTransactions'
    BY DEF TypeOK, OpenTransactions, JobTypes, LedgerTypeOK, PostTypes
  <2>. QED BY <2>1, <2>2, <2>3
<1>4. JobInv'
  BY DEF JobInv, TypeOK, OpenTransactions, JobTypes, RowTypes, LedgerTypeOK, PostTypes
<1>5. TopupInv'
  BY DEF TopupInv, PastCommit, JobInv, KeyOnce, PaidIsComplete, TypeOK, OpenTransactions, JobTypes, RowTypes, LedgerTypeOK, PostTypes
<1>6. DualInv'
  BY DEF DualInv, JobInv, TypeOK, OpenTransactions, JobTypes, RowTypes, LedgerTypeOK, PostTypes
<1>7. KeyOnce'
  BY <1>1, LedgerKeys DEF TypeOK
<1>8. PaidIsComplete'
  BY DEF PaidIsComplete, TopupInv, PastCommit, JobInv, TypeOK, OpenTransactions, JobTypes, RowTypes, LedgerTypeOK, PostTypes
<1>9. TwoPeople'
  BY DEF TwoPeople, TwoOf, DualInv, JobInv, TypeOK, OpenTransactions, JobTypes, RowTypes, LedgerTypeOK, PostTypes
<1>10. AuditIsTrue'
  BY DEF AuditIsTrue, DualInv, JobInv, TypeOK, OpenTransactions, JobTypes, RowTypes, LedgerTypeOK, PostTypes
<1>. QED BY <1>1, <1>2, <1>3, <1>4, <1>5, <1>6, <1>7, <1>8, <1>9, <1>10 DEF TypeOK

LEMMA InsertOrderKeeps ==
  ASSUME IInv, NEW p \in Posters, NEW o \in Orders, InsertOrder(p, o)
  PROVE  IInv' /\ [LedgerNext]_ledgerVars
<1>. USE HubAssumption, WalletAssumption, KeyAssumption
     DEF IInv, InsertOrder, IsIdle, Job, IdleJob, Finish, NoPost,
         ledgerVars, hubVars
<1>1. [LedgerNext]_ledgerVars
  BY DEF LedgerNext, PostStepOf, ledgerVars, TypeOK, LedgerTypeOK, PostTypes
<1>2. LedgerTypeOK'
  BY <1>1, HubLedgerStep
<1>3. RowTypes' /\ JobTypes' /\ OpenTransactions'
  BY DEF TypeOK, OpenTransactions, JobTypes, RowTypes, LedgerTypeOK, PostTypes, JobInv, OrderStatus, ApprovalStatus, JobStep
<1>4. JobInv'
  BY DEF JobInv, TypeOK, OpenTransactions, JobTypes, RowTypes, LedgerTypeOK, PostTypes
<1>5. TopupInv'
  BY DEF TopupInv, PastCommit, JobInv, KeyOnce, PaidIsComplete, TypeOK, OpenTransactions, JobTypes, RowTypes, LedgerTypeOK, PostTypes
<1>6. DualInv'
  BY DEF DualInv, JobInv, TypeOK, OpenTransactions, JobTypes, RowTypes, LedgerTypeOK, PostTypes
<1>7. KeyOnce'
  BY <1>1, LedgerKeys DEF TypeOK
<1>8. PaidIsComplete'
  BY DEF PaidIsComplete, TopupInv, PastCommit, JobInv, TypeOK, OpenTransactions, JobTypes, RowTypes, LedgerTypeOK, PostTypes
<1>9. TwoPeople'
  BY DEF TwoPeople, TwoOf, DualInv, JobInv, TypeOK, OpenTransactions, JobTypes, RowTypes, LedgerTypeOK, PostTypes
<1>10. AuditIsTrue'
  BY DEF AuditIsTrue, DualInv, JobInv, TypeOK, OpenTransactions, JobTypes, RowTypes, LedgerTypeOK, PostTypes
<1>. QED BY <1>1, <1>2, <1>3, <1>4, <1>5, <1>6, <1>7, <1>8, <1>9, <1>10 DEF TypeOK

LEMMA SettleTopupKeeps ==
  ASSUME IInv, NEW p \in Posters, NEW o \in Orders, SettleTopup(p, o)
  PROVE  IInv' /\ [LedgerNext]_ledgerVars
<1>. USE HubAssumption, WalletAssumption, KeyAssumption
     DEF IInv, SettleTopup, CallPost, IsIdle, Job, IdleJob, Finish, NoPost,
         ledgerVars, hubVars
<1>1. [LedgerNext]_ledgerVars
  BY DEF LedgerNext, PostStepOf, ledgerVars, TypeOK, LedgerTypeOK, PostTypes
<1>2. LedgerTypeOK'
  BY <1>1, HubLedgerStep
<1>3. RowTypes' /\ JobTypes' /\ OpenTransactions'
  BY DEF TypeOK, OpenTransactions, JobTypes, RowTypes, LedgerTypeOK, PostTypes, JobInv, OrderStatus, ApprovalStatus, JobStep
<1>4. JobInv'
  BY DEF JobInv, TypeOK, OpenTransactions, JobTypes, RowTypes, LedgerTypeOK, PostTypes
<1>5. TopupInv'
  BY DEF TopupInv, PastCommit, JobInv, KeyOnce, PaidIsComplete, TypeOK, OpenTransactions, JobTypes, RowTypes, LedgerTypeOK, PostTypes
<1>6. DualInv'
  BY DEF DualInv, JobInv, TypeOK, OpenTransactions, JobTypes, RowTypes, LedgerTypeOK, PostTypes
<1>7. KeyOnce'
  BY <1>1, LedgerKeys DEF TypeOK
<1>8. PaidIsComplete'
  BY DEF PaidIsComplete, TopupInv, PastCommit, JobInv, TypeOK, OpenTransactions, JobTypes, RowTypes, LedgerTypeOK, PostTypes
<1>9. TwoPeople'
  BY DEF TwoPeople, TwoOf, DualInv, JobInv, TypeOK, OpenTransactions, JobTypes, RowTypes, LedgerTypeOK, PostTypes
<1>10. AuditIsTrue'
  BY DEF AuditIsTrue, DualInv, JobInv, TypeOK, OpenTransactions, JobTypes, RowTypes, LedgerTypeOK, PostTypes
<1>. QED BY <1>1, <1>2, <1>3, <1>4, <1>5, <1>6, <1>7, <1>8, <1>9, <1>10 DEF TypeOK

LEMMA AssignVaKeeps ==
  ASSUME IInv, NEW p \in Posters, AssignVa(p)
  PROVE  IInv' /\ [LedgerNext]_ledgerVars
<1>. USE HubAssumption, WalletAssumption, KeyAssumption
     DEF IInv, AssignVa, IsIdle, Job, IdleJob, Finish, NoPost,
         ledgerVars, hubVars
<1>1. [LedgerNext]_ledgerVars
  BY DEF LedgerNext, PostStepOf, ledgerVars, TypeOK, LedgerTypeOK, PostTypes
<1>2. LedgerTypeOK'
  BY <1>1, HubLedgerStep
<1>3. RowTypes' /\ JobTypes' /\ OpenTransactions'
  BY DEF TypeOK, OpenTransactions, JobTypes, RowTypes, LedgerTypeOK, PostTypes, JobInv, OrderStatus, ApprovalStatus, JobStep
<1>4. JobInv'
  BY DEF JobInv, TypeOK, OpenTransactions, JobTypes, RowTypes, LedgerTypeOK, PostTypes
<1>5. TopupInv'
  BY DEF TopupInv, PastCommit, JobInv, KeyOnce, PaidIsComplete, TypeOK, OpenTransactions, JobTypes, RowTypes, LedgerTypeOK, PostTypes
<1>6. DualInv'
  BY DEF DualInv, JobInv, TypeOK, OpenTransactions, JobTypes, RowTypes, LedgerTypeOK, PostTypes
<1>7. KeyOnce'
  BY <1>1, LedgerKeys DEF TypeOK
<1>8. PaidIsComplete'
  BY DEF PaidIsComplete, TopupInv, PastCommit, JobInv, TypeOK, OpenTransactions, JobTypes, RowTypes, LedgerTypeOK, PostTypes
<1>9. TwoPeople'
  BY DEF TwoPeople, TwoOf, DualInv, JobInv, TypeOK, OpenTransactions, JobTypes, RowTypes, LedgerTypeOK, PostTypes
<1>10. AuditIsTrue'
  BY DEF AuditIsTrue, DualInv, JobInv, TypeOK, OpenTransactions, JobTypes, RowTypes, LedgerTypeOK, PostTypes
<1>. QED BY <1>1, <1>2, <1>3, <1>4, <1>5, <1>6, <1>7, <1>8, <1>9, <1>10 DEF TypeOK

LEMMA TopupPostedKeeps ==
  ASSUME IInv, NEW p \in Posters, TopupPosted(p)
  PROVE  IInv' /\ [LedgerNext]_ledgerVars
<1>. USE HubAssumption, WalletAssumption, KeyAssumption
     DEF IInv, TopupPosted, LeavePost, IsIdle, Job, IdleJob, Finish, NoPost,
         ledgerVars, hubVars
<1>1. [LedgerNext]_ledgerVars
  BY DEF LedgerNext, PostStepOf, ledgerVars, TypeOK, LedgerTypeOK, PostTypes
<1>2. LedgerTypeOK'
  BY <1>1, HubLedgerStep
<1>3. RowTypes' /\ JobTypes' /\ OpenTransactions'
  <2>1. RowTypes'
    BY DEF TypeOK, RowTypes, JobTypes, JobInv, OrderStatus, ApprovalStatus
  <2>2. JobTypes'
    <3>1. job' = [job EXCEPT ![p].step = "report"] /\ "report" \in JobStep
      BY DEF JobStep
    <3>. QED BY <3>1, StepTypes DEF TypeOK
  <2>3. OpenTransactions'
    BY DEF TypeOK, OpenTransactions, JobTypes, LedgerTypeOK, PostTypes
  <2>. QED BY <2>1, <2>2, <2>3
<1>4. JobInv'
  BY DEF JobInv, TypeOK, OpenTransactions, JobTypes, RowTypes, LedgerTypeOK, PostTypes
<1>5. TopupInv'
  BY DEF TopupInv, PastCommit, JobInv, KeyOnce, PaidIsComplete, TypeOK, OpenTransactions, JobTypes, RowTypes, LedgerTypeOK, PostTypes
<1>6. DualInv'
  BY DEF DualInv, JobInv, TypeOK, OpenTransactions, JobTypes, RowTypes, LedgerTypeOK, PostTypes
<1>7. KeyOnce'
  BY <1>1, LedgerKeys DEF TypeOK
<1>8. PaidIsComplete'
  BY DEF PaidIsComplete, TopupInv, PastCommit, JobInv, TypeOK, OpenTransactions, JobTypes, RowTypes, LedgerTypeOK, PostTypes
<1>9. TwoPeople'
  BY DEF TwoPeople, TwoOf, DualInv, JobInv, TypeOK, OpenTransactions, JobTypes, RowTypes, LedgerTypeOK, PostTypes
<1>10. AuditIsTrue'
  BY DEF AuditIsTrue, DualInv, JobInv, TypeOK, OpenTransactions, JobTypes, RowTypes, LedgerTypeOK, PostTypes
<1>. QED BY <1>1, <1>2, <1>3, <1>4, <1>5, <1>6, <1>7, <1>8, <1>9, <1>10 DEF TypeOK

\* Only the request that committed the posting reports it.
LEMMA CheckLtktKeeps ==
  ASSUME IInv, NEW p \in Posters, CheckLtkt(p)
  PROVE  IInv' /\ [LedgerNext]_ledgerVars
<1>. USE HubAssumption, WalletAssumption, KeyAssumption
     DEF IInv, CheckLtkt, IsIdle, Job, IdleJob, Finish, NoPost,
         ledgerVars, hubVars
<1>1. [LedgerNext]_ledgerVars
  BY DEF LedgerNext, PostStepOf, ledgerVars, TypeOK, LedgerTypeOK, PostTypes
<1>2. LedgerTypeOK'
  BY <1>1, HubLedgerStep
<1>3. RowTypes' /\ JobTypes' /\ OpenTransactions'
  <2>1. RowTypes'
    BY DEF TypeOK, RowTypes, JobTypes, JobInv, OrderStatus, ApprovalStatus
  <2>2. JobTypes'
    <3>1. job' = [job EXCEPT ![p].step = "mark"] /\ "mark" \in JobStep
      BY DEF JobStep
    <3>. QED BY <3>1, StepTypes DEF TypeOK
  <2>3. OpenTransactions'
    BY DEF TypeOK, OpenTransactions, JobTypes, LedgerTypeOK, PostTypes
  <2>. QED BY <2>1, <2>2, <2>3
<1>4. JobInv'
  BY DEF JobInv, TypeOK, OpenTransactions, JobTypes, RowTypes, LedgerTypeOK, PostTypes
<1>a. /\ job[p].step = "report" /\ job[p].op = "topup"
      /\ job[p].what \in Orders
      /\ job'[p].step = "mark" /\ job'[p].op = "topup" /\ job'[p].what = job[p].what
      /\ \A q \in Posters : q # p => job'[q] = job[q]
      /\ \A o \in Orders :
           flagged'[o] = IF o = job[p].what /\ o \in Large THEN flagged[o] + 1 ELSE flagged[o]
      /\ UNCHANGED <<ledgerVars, order>>
  BY DEF JobInv, TypeOK, JobTypes
<1>b. PastCommit(p, job[p].what) /\ order[job[p].what] # "PAID" /\ flagged[job[p].what] = 0
  BY <1>a DEF TopupInv, PastCommit
<1>c. \A q \in Posters, o \in Orders : PastCommit(q, o)' <=> PastCommit(q, o)
  BY <1>a DEF PastCommit
<1>5. TopupInv'
  <2>. HIDE DEF CheckLtkt
  <2>1. \A q \in Posters : PastCommit(q, job[p].what) => q = p
    BY <1>a, <1>b DEF TopupInv
  <2>2. \A o \in Orders : PastCommit(p, o) => o = job[p].what
    BY DEF PastCommit
  <2>3. ASSUME NEW q \in Posters, NEW o \in Orders, PastCommit(q, o)
        PROVE  /\ posted'[o] = 1 /\ order'[o] # "PAID"
               /\ job'[q].step # "mark" => flagged'[o] = 0
               /\ job'[q].step = "mark" /\ o \in Large => flagged'[o] = 1
    <3>1. CASE q = p
      BY <2>2, <2>3, <3>1, <1>a, <1>b DEF TopupInv
    <3>2. CASE q # p
      BY <2>1, <2>3, <3>2, <1>a DEF TopupInv
    <3>. QED BY <3>1, <3>2
  <2>4. \A o \in Orders : posted'[o] = 0 => flagged'[o] = 0 /\ order'[o] # "PAID"
    BY <1>a, <1>b DEF TopupInv
  <2>. QED BY <1>c, <2>3, <2>4 DEF TopupInv
<1>6. DualInv'
  BY DEF DualInv, JobInv, TypeOK, OpenTransactions, JobTypes, RowTypes, LedgerTypeOK, PostTypes
<1>7. KeyOnce'
  BY <1>1, LedgerKeys DEF TypeOK
<1>8. PaidIsComplete'
  <2>. HIDE DEF CheckLtkt
  <2>. QED BY <1>a, <1>b DEF PaidIsComplete
<1>9. TwoPeople'
  BY DEF TwoPeople, TwoOf, DualInv, JobInv, TypeOK, OpenTransactions, JobTypes, RowTypes, LedgerTypeOK, PostTypes
<1>10. AuditIsTrue'
  BY DEF AuditIsTrue, DualInv, JobInv, TypeOK, OpenTransactions, JobTypes, RowTypes, LedgerTypeOK, PostTypes
<1>. QED BY <1>1, <1>2, <1>3, <1>4, <1>5, <1>6, <1>7, <1>8, <1>9, <1>10 DEF TypeOK

LEMMA MarkPaidKeeps ==
  ASSUME IInv, NEW p \in Posters, MarkPaid(p)
  PROVE  IInv' /\ [LedgerNext]_ledgerVars
<1>. USE HubAssumption, WalletAssumption, KeyAssumption
     DEF IInv, MarkPaid, IsIdle, Job, IdleJob, Finish, NoPost,
         ledgerVars, hubVars
<1>1. [LedgerNext]_ledgerVars
  BY DEF LedgerNext, PostStepOf, ledgerVars, TypeOK, LedgerTypeOK, PostTypes
<1>2. LedgerTypeOK'
  BY <1>1, HubLedgerStep
<1>3. RowTypes' /\ JobTypes' /\ OpenTransactions'
  BY DEF TypeOK, OpenTransactions, JobTypes, RowTypes, LedgerTypeOK, PostTypes, JobInv, OrderStatus, ApprovalStatus, JobStep
<1>4. JobInv'
  BY DEF JobInv, TypeOK, OpenTransactions, JobTypes, RowTypes, LedgerTypeOK, PostTypes
<1>5. TopupInv'
  BY DEF TopupInv, PastCommit, JobInv, KeyOnce, PaidIsComplete, TypeOK, OpenTransactions, JobTypes, RowTypes, LedgerTypeOK, PostTypes
<1>6. DualInv'
  BY DEF DualInv, JobInv, TypeOK, OpenTransactions, JobTypes, RowTypes, LedgerTypeOK, PostTypes
<1>7. KeyOnce'
  BY <1>1, LedgerKeys DEF TypeOK
<1>8. PaidIsComplete'
  BY DEF PaidIsComplete, TopupInv, PastCommit, JobInv, TypeOK, OpenTransactions, JobTypes, RowTypes, LedgerTypeOK, PostTypes
<1>9. TwoPeople'
  BY DEF TwoPeople, TwoOf, DualInv, JobInv, TypeOK, OpenTransactions, JobTypes, RowTypes, LedgerTypeOK, PostTypes
<1>10. AuditIsTrue'
  BY DEF AuditIsTrue, DualInv, JobInv, TypeOK, OpenTransactions, JobTypes, RowTypes, LedgerTypeOK, PostTypes
<1>. QED BY <1>1, <1>2, <1>3, <1>4, <1>5, <1>6, <1>7, <1>8, <1>9, <1>10 DEF TypeOK

LEMMA FreezeWalletKeeps ==
  ASSUME IInv, NEW p \in Posters, NEW w \in Suspects, FreezeWallet(p, w)
  PROVE  IInv' /\ [LedgerNext]_ledgerVars
<1>. USE HubAssumption, WalletAssumption, KeyAssumption
     DEF IInv, FreezeWallet, Freeze, IsIdle, Job, IdleJob, Finish, NoPost,
         ledgerVars, hubVars
<1>1. [LedgerNext]_ledgerVars
  BY DEF LedgerNext, PostStepOf, ledgerVars, TypeOK, LedgerTypeOK, PostTypes
<1>2. LedgerTypeOK'
  BY <1>1, HubLedgerStep
<1>3. RowTypes' /\ JobTypes' /\ OpenTransactions'
  BY DEF TypeOK, OpenTransactions, JobTypes, RowTypes, LedgerTypeOK, PostTypes, JobInv, OrderStatus, ApprovalStatus, JobStep
<1>4. JobInv'
  BY DEF JobInv, TypeOK, OpenTransactions, JobTypes, RowTypes, LedgerTypeOK, PostTypes
<1>5. TopupInv'
  BY DEF TopupInv, PastCommit, JobInv, KeyOnce, PaidIsComplete, TypeOK, OpenTransactions, JobTypes, RowTypes, LedgerTypeOK, PostTypes
<1>6. DualInv'
  BY DEF DualInv, JobInv, TypeOK, OpenTransactions, JobTypes, RowTypes, LedgerTypeOK, PostTypes
<1>7. KeyOnce'
  BY <1>1, LedgerKeys DEF TypeOK
<1>8. PaidIsComplete'
  BY DEF PaidIsComplete, TopupInv, PastCommit, JobInv, TypeOK, OpenTransactions, JobTypes, RowTypes, LedgerTypeOK, PostTypes
<1>9. TwoPeople'
  BY DEF TwoPeople, TwoOf, DualInv, JobInv, TypeOK, OpenTransactions, JobTypes, RowTypes, LedgerTypeOK, PostTypes
<1>10. AuditIsTrue'
  BY DEF AuditIsTrue, DualInv, JobInv, TypeOK, OpenTransactions, JobTypes, RowTypes, LedgerTypeOK, PostTypes
<1>. QED BY <1>1, <1>2, <1>3, <1>4, <1>5, <1>6, <1>7, <1>8, <1>9, <1>10 DEF TypeOK

LEMMA RequestDualKeeps ==
  ASSUME IInv, NEW p \in Posters, NEW m \in Admins, NEW a \in Approvals, RequestDual(p, m, a)
  PROVE  IInv' /\ [LedgerNext]_ledgerVars
<1>. USE HubAssumption, WalletAssumption, KeyAssumption
     DEF IInv, RequestDual, IsIdle, Job, IdleJob, Finish, NoPost,
         ledgerVars, hubVars
<1>1. [LedgerNext]_ledgerVars
  BY DEF LedgerNext, PostStepOf, ledgerVars, TypeOK, LedgerTypeOK, PostTypes
<1>2. LedgerTypeOK'
  BY <1>1, HubLedgerStep
<1>3. RowTypes' /\ JobTypes' /\ OpenTransactions'
  BY DEF TypeOK, OpenTransactions, JobTypes, RowTypes, LedgerTypeOK, PostTypes, JobInv, OrderStatus, ApprovalStatus, JobStep
<1>4. JobInv'
  BY DEF JobInv, TypeOK, OpenTransactions, JobTypes, RowTypes, LedgerTypeOK, PostTypes
<1>5. TopupInv'
  BY DEF TopupInv, PastCommit, JobInv, KeyOnce, PaidIsComplete, TypeOK, OpenTransactions, JobTypes, RowTypes, LedgerTypeOK, PostTypes
<1>6. DualInv'
  <2>1. /\ approval'[a].by = {m} /\ \A b \in Approvals \ {a} : approval'[b] = approval[b]
        /\ job'[p].op = "request" /\ \A q \in Posters \ {p} : job'[q] = job[q]
        /\ UNCHANGED <<ledgerVars, executed>>
    BY DEF TypeOK, RowTypes, JobTypes
  <2>. HIDE DEF RequestDual
  <2>. QED BY <2>1 DEF DualInv
<1>7. KeyOnce'
  BY <1>1, LedgerKeys DEF TypeOK
<1>8. PaidIsComplete'
  BY DEF PaidIsComplete, TopupInv, PastCommit, JobInv, TypeOK, OpenTransactions, JobTypes, RowTypes, LedgerTypeOK, PostTypes
<1>9. TwoPeople'
  BY DEF TwoPeople, TwoOf, DualInv, JobInv, TypeOK, OpenTransactions, JobTypes, RowTypes, LedgerTypeOK, PostTypes
<1>10. AuditIsTrue'
  BY DEF AuditIsTrue, DualInv, JobInv, TypeOK, OpenTransactions, JobTypes, RowTypes, LedgerTypeOK, PostTypes
<1>. QED BY <1>1, <1>2, <1>3, <1>4, <1>5, <1>6, <1>7, <1>8, <1>9, <1>10 DEF TypeOK

\* The approver is not among those who approved before.
LEMMA ApproveDualKeeps ==
  ASSUME IInv, NEW p \in Posters, NEW m \in Admins, NEW a \in Approvals, ApproveDual(p, m, a)
  PROVE  IInv' /\ [LedgerNext]_ledgerVars
<1>. USE HubAssumption, WalletAssumption, KeyAssumption
     DEF IInv, ApproveDual, CallPost, IsIdle, Job, IdleJob, Finish, NoPost,
         ledgerVars, hubVars
<1>1. [LedgerNext]_ledgerVars
  BY DEF LedgerNext, PostStepOf, ledgerVars, TypeOK, LedgerTypeOK, PostTypes
<1>2. LedgerTypeOK'
  BY <1>1, HubLedgerStep
<1>3. RowTypes' /\ JobTypes' /\ OpenTransactions'
  BY DEF TypeOK, OpenTransactions, JobTypes, RowTypes, LedgerTypeOK, PostTypes, JobInv, OrderStatus, ApprovalStatus, JobStep
<1>4. JobInv'
  BY DEF JobInv, TypeOK, OpenTransactions, JobTypes, RowTypes, LedgerTypeOK, PostTypes
<1>5. TopupInv'
  BY DEF TopupInv, PastCommit, JobInv, KeyOnce, PaidIsComplete, TypeOK, OpenTransactions, JobTypes, RowTypes, LedgerTypeOK, PostTypes
<1>6. DualInv'
  BY DEF DualInv, JobInv, TypeOK, OpenTransactions, JobTypes, RowTypes, LedgerTypeOK, PostTypes
<1>7. KeyOnce'
  BY <1>1, LedgerKeys DEF TypeOK
<1>8. PaidIsComplete'
  BY DEF PaidIsComplete, TopupInv, PastCommit, JobInv, TypeOK, OpenTransactions, JobTypes, RowTypes, LedgerTypeOK, PostTypes
<1>9. TwoPeople'
  BY DEF TwoPeople, TwoOf, DualInv, JobInv, TypeOK, OpenTransactions, JobTypes, RowTypes, LedgerTypeOK, PostTypes
<1>10. AuditIsTrue'
  BY DEF AuditIsTrue, DualInv, JobInv, TypeOK, OpenTransactions, JobTypes, RowTypes, LedgerTypeOK, PostTypes
<1>. QED BY <1>1, <1>2, <1>3, <1>4, <1>5, <1>6, <1>7, <1>8, <1>9, <1>10 DEF TypeOK

LEMMA DualPostedKeeps ==
  ASSUME IInv, NEW p \in Posters, DualPosted(p)
  PROVE  IInv' /\ [LedgerNext]_ledgerVars
<1>. USE HubAssumption, WalletAssumption, KeyAssumption
     DEF IInv, DualPosted, LeavePost, IsIdle, Job, IdleJob, Finish, NoPost,
         ledgerVars, hubVars
<1>1. [LedgerNext]_ledgerVars
  BY DEF LedgerNext, PostStepOf, ledgerVars, TypeOK, LedgerTypeOK, PostTypes
<1>2. LedgerTypeOK'
  BY <1>1, HubLedgerStep
<1>3. RowTypes' /\ JobTypes' /\ OpenTransactions'
  <2>1. RowTypes'
    BY DEF TypeOK, RowTypes, JobTypes, JobInv, OrderStatus, ApprovalStatus
  <2>2. JobTypes'
    <3>1. job' = [job EXCEPT ![p].step = "mark"] /\ "mark" \in JobStep
      BY DEF JobStep
    <3>. QED BY <3>1, StepTypes DEF TypeOK
  <2>3. OpenTransactions'
    BY DEF TypeOK, OpenTransactions, JobTypes, LedgerTypeOK, PostTypes
  <2>. QED BY <2>1, <2>2, <2>3
<1>4. JobInv'
  BY DEF JobInv, TypeOK, OpenTransactions, JobTypes, RowTypes, LedgerTypeOK, PostTypes
<1>5. TopupInv'
  BY DEF TopupInv, PastCommit, JobInv, KeyOnce, PaidIsComplete, TypeOK, OpenTransactions, JobTypes, RowTypes, LedgerTypeOK, PostTypes
<1>6. DualInv'
  BY DEF DualInv, JobInv, TypeOK, OpenTransactions, JobTypes, RowTypes, LedgerTypeOK, PostTypes
<1>7. KeyOnce'
  BY <1>1, LedgerKeys DEF TypeOK
<1>8. PaidIsComplete'
  BY DEF PaidIsComplete, TopupInv, PastCommit, JobInv, TypeOK, OpenTransactions, JobTypes, RowTypes, LedgerTypeOK, PostTypes
<1>9. TwoPeople'
  BY DEF TwoPeople, TwoOf, DualInv, JobInv, TypeOK, OpenTransactions, JobTypes, RowTypes, LedgerTypeOK, PostTypes
<1>10. AuditIsTrue'
  BY DEF AuditIsTrue, DualInv, JobInv, TypeOK, OpenTransactions, JobTypes, RowTypes, LedgerTypeOK, PostTypes
<1>. QED BY <1>1, <1>2, <1>3, <1>4, <1>5, <1>6, <1>7, <1>8, <1>9, <1>10 DEF TypeOK

LEMMA MarkExecutedKeeps ==
  ASSUME IInv, NEW p \in Posters, MarkExecuted(p)
  PROVE  IInv' /\ [LedgerNext]_ledgerVars
<1>. USE HubAssumption, WalletAssumption, KeyAssumption
     DEF IInv, MarkExecuted, IsIdle, Job, IdleJob, Finish, NoPost,
         ledgerVars, hubVars
<1>1. [LedgerNext]_ledgerVars
  BY DEF LedgerNext, PostStepOf, ledgerVars, TypeOK, LedgerTypeOK, PostTypes
<1>2. LedgerTypeOK'
  BY <1>1, HubLedgerStep
<1>3. RowTypes' /\ JobTypes' /\ OpenTransactions'
  <2>1. RowTypes'
    BY DEF TypeOK, RowTypes, JobTypes, JobInv, OrderStatus, ApprovalStatus
  <2>2. JobTypes'
    <3>1. job' = [job EXCEPT ![p].step = "audit"] /\ "audit" \in JobStep
      BY DEF JobStep
    <3>. QED BY <3>1, StepTypes DEF TypeOK
  <2>3. OpenTransactions'
    BY DEF TypeOK, OpenTransactions, JobTypes, LedgerTypeOK, PostTypes
  <2>. QED BY <2>1, <2>2, <2>3
<1>4. JobInv'
  BY DEF JobInv, TypeOK, OpenTransactions, JobTypes, RowTypes, LedgerTypeOK, PostTypes
<1>5. TopupInv'
  BY DEF TopupInv, PastCommit, JobInv, KeyOnce, PaidIsComplete, TypeOK, OpenTransactions, JobTypes, RowTypes, LedgerTypeOK, PostTypes
<1>6. DualInv'
  BY DEF DualInv, JobInv, TypeOK, OpenTransactions, JobTypes, RowTypes, LedgerTypeOK, PostTypes
<1>7. KeyOnce'
  BY <1>1, LedgerKeys DEF TypeOK
<1>8. PaidIsComplete'
  BY DEF PaidIsComplete, TopupInv, PastCommit, JobInv, TypeOK, OpenTransactions, JobTypes, RowTypes, LedgerTypeOK, PostTypes
<1>9. TwoPeople'
  <2>. DEFINE x == job[p].what
  <2>1. x \in Approvals /\ executed[x] > 0 /\ TwoOf(job[p].seen)
    BY DEF JobInv, DualInv, TwoPeople
  <2>2. /\ approval'[x] = [status |-> "EXECUTED", by |-> job[p].seen]
        /\ \A a \in Approvals : a # x => approval'[a] = approval[a]
        /\ \A q \in Posters : job'[q].op = job[q].op /\ job'[q].seen = job[q].seen
    BY <2>1 DEF TypeOK, RowTypes, JobTypes
  <2>. QED BY <2>1, <2>2 DEF TwoPeople, TwoOf
<1>10. AuditIsTrue'
  BY DEF AuditIsTrue, DualInv, JobInv, TypeOK, OpenTransactions, JobTypes, RowTypes, LedgerTypeOK, PostTypes
<1>. QED BY <1>1, <1>2, <1>3, <1>4, <1>5, <1>6, <1>7, <1>8, <1>9, <1>10 DEF TypeOK

LEMMA AuditKeeps ==
  ASSUME IInv, NEW p \in Posters, Audit(p)
  PROVE  IInv' /\ [LedgerNext]_ledgerVars
<1>. USE HubAssumption, WalletAssumption, KeyAssumption
     DEF IInv, Audit, IsIdle, Job, IdleJob, Finish, NoPost,
         ledgerVars, hubVars
<1>1. [LedgerNext]_ledgerVars
  BY DEF LedgerNext, PostStepOf, ledgerVars, TypeOK, LedgerTypeOK, PostTypes
<1>2. LedgerTypeOK'
  BY <1>1, HubLedgerStep
<1>3. RowTypes' /\ JobTypes' /\ OpenTransactions'
  BY DEF TypeOK, OpenTransactions, JobTypes, RowTypes, LedgerTypeOK, PostTypes, JobInv, OrderStatus, ApprovalStatus, JobStep
<1>4. JobInv'
  BY DEF JobInv, TypeOK, OpenTransactions, JobTypes, RowTypes, LedgerTypeOK, PostTypes
<1>5. TopupInv'
  BY DEF TopupInv, PastCommit, JobInv, KeyOnce, PaidIsComplete, TypeOK, OpenTransactions, JobTypes, RowTypes, LedgerTypeOK, PostTypes
<1>6. DualInv'
  BY DEF DualInv, JobInv, TypeOK, OpenTransactions, JobTypes, RowTypes, LedgerTypeOK, PostTypes
<1>7. KeyOnce'
  BY <1>1, LedgerKeys DEF TypeOK
<1>8. PaidIsComplete'
  BY DEF PaidIsComplete, TopupInv, PastCommit, JobInv, TypeOK, OpenTransactions, JobTypes, RowTypes, LedgerTypeOK, PostTypes
<1>9. TwoPeople'
  BY DEF TwoPeople, TwoOf, DualInv, JobInv, TypeOK, OpenTransactions, JobTypes, RowTypes, LedgerTypeOK, PostTypes
<1>10. AuditIsTrue'
  BY DEF AuditIsTrue, DualInv, JobInv, TypeOK, OpenTransactions, JobTypes, RowTypes, LedgerTypeOK, PostTypes
<1>. QED BY <1>1, <1>2, <1>3, <1>4, <1>5, <1>6, <1>7, <1>8, <1>9, <1>10 DEF TypeOK

LEMMA AwaitPostKeeps ==
  ASSUME IInv, NEW p \in Posters, AwaitPost(p)
  PROVE  IInv' /\ [LedgerNext]_ledgerVars
<1>. USE HubAssumption, WalletAssumption, KeyAssumption
     DEF IInv, AwaitPost, CheckSource, CheckDest, IsIdle, Job, IdleJob, Finish, NoPost,
         ledgerVars, hubVars
<1>1. [LedgerNext]_ledgerVars
  BY DEF LedgerNext, PostStepOf, ledgerVars, TypeOK, LedgerTypeOK, PostTypes
<1>a. /\ post[p].pc \in {"source", "dest"} /\ post'[p].pc \in {"dest", "commit"}
      /\ post'[p].key = post[p].key
      /\ \A q \in Posters : q # p => post'[q] = post[q]
      /\ UNCHANGED <<hubVars, balance, frozen, posted>>
  BY DEF TypeOK, LedgerTypeOK, PostTypes
<1>. HIDE DEF AwaitPost, CheckSource, CheckDest
<1>2. LedgerTypeOK'
  BY <1>1, HubLedgerStep
<1>3. RowTypes' /\ JobTypes' /\ OpenTransactions'
  BY <1>a DEF TypeOK, OpenTransactions, JobTypes, RowTypes
<1>4. JobInv'
  BY <1>a DEF JobInv
<1>5. TopupInv'
  <2>1. \A q \in Posters, o \in Orders : PastCommit(q, o)' <=> PastCommit(q, o)
    BY <1>a DEF PastCommit
  <2>. QED BY <1>a, <2>1 DEF TopupInv
<1>6. DualInv'
  BY <1>a DEF DualInv
<1>7. KeyOnce'
  BY <1>1, LedgerKeys DEF TypeOK
<1>8. PaidIsComplete'
  BY <1>a DEF PaidIsComplete
<1>9. TwoPeople'
  BY <1>a DEF TwoPeople
<1>10. AuditIsTrue'
  BY <1>a DEF AuditIsTrue
<1>. QED BY <1>1, <1>2, <1>3, <1>4, <1>5, <1>6, <1>7, <1>8, <1>9, <1>10 DEF TypeOK

\* The unique index lets the posting of an order through once.
LEMMA CommitPostKeeps ==
  ASSUME IInv, NEW p \in Posters, CommitPost(p)
  PROVE  IInv' /\ [LedgerNext]_ledgerVars
<1>. USE HubAssumption, WalletAssumption, KeyAssumption
     DEF IInv, CommitPost, Commit, CountKey, KeyFree, IsIdle, Job, IdleJob, Finish, NoPost,
         ledgerVars, hubVars
<1>1. [LedgerNext]_ledgerVars
  BY DEF LedgerNext, PostStepOf, ledgerVars, TypeOK, LedgerTypeOK, PostTypes
<1>2. LedgerTypeOK'
  BY <1>1, HubLedgerStep
<1>3. RowTypes' /\ JobTypes' /\ OpenTransactions'
  BY DEF TypeOK, OpenTransactions, JobTypes, RowTypes, LedgerTypeOK, PostTypes, JobInv, OrderStatus, ApprovalStatus, JobStep
<1>4. JobInv'
  BY DEF JobInv, TypeOK, OpenTransactions, JobTypes, RowTypes, LedgerTypeOK, PostTypes
<1>5. TopupInv'
  BY DEF TopupInv, PastCommit, JobInv, KeyOnce, PaidIsComplete, TypeOK, OpenTransactions, JobTypes, RowTypes, LedgerTypeOK, PostTypes
<1>6. DualInv'
  BY DEF DualInv, JobInv, TypeOK, OpenTransactions, JobTypes, RowTypes, LedgerTypeOK, PostTypes
<1>7. KeyOnce'
  BY <1>1, LedgerKeys DEF TypeOK
<1>8. PaidIsComplete'
  BY DEF PaidIsComplete, TopupInv, PastCommit, JobInv, TypeOK, OpenTransactions, JobTypes, RowTypes, LedgerTypeOK, PostTypes
<1>9. TwoPeople'
  BY DEF TwoPeople, TwoOf, DualInv, JobInv, TypeOK, OpenTransactions, JobTypes, RowTypes, LedgerTypeOK, PostTypes
<1>10. AuditIsTrue'
  BY DEF AuditIsTrue, DualInv, JobInv, TypeOK, OpenTransactions, JobTypes, RowTypes, LedgerTypeOK, PostTypes
<1>. QED BY <1>1, <1>2, <1>3, <1>4, <1>5, <1>6, <1>7, <1>8, <1>9, <1>10 DEF TypeOK

LEMMA PostThrowsKeeps ==
  ASSUME IInv, NEW p \in Posters, PostThrows(p)
  PROVE  IInv' /\ [LedgerNext]_ledgerVars
<1>. USE HubAssumption, WalletAssumption, KeyAssumption
     DEF IInv, PostThrows, Refused, LeavePost, IsIdle, Job, IdleJob, Finish, NoPost,
         ledgerVars, hubVars
<1>1. [LedgerNext]_ledgerVars
  BY DEF LedgerNext, PostStepOf, ledgerVars, TypeOK, LedgerTypeOK, PostTypes
<1>2. LedgerTypeOK'
  BY <1>1, HubLedgerStep
<1>3. RowTypes' /\ JobTypes' /\ OpenTransactions'
  BY DEF TypeOK, OpenTransactions, JobTypes, RowTypes, LedgerTypeOK, PostTypes, JobInv, OrderStatus, ApprovalStatus, JobStep
<1>4. JobInv'
  BY DEF JobInv, TypeOK, OpenTransactions, JobTypes, RowTypes, LedgerTypeOK, PostTypes
<1>5. TopupInv'
  BY DEF TopupInv, PastCommit, JobInv, KeyOnce, PaidIsComplete, TypeOK, OpenTransactions, JobTypes, RowTypes, LedgerTypeOK, PostTypes
<1>6. DualInv'
  BY DEF DualInv, JobInv, TypeOK, OpenTransactions, JobTypes, RowTypes, LedgerTypeOK, PostTypes
<1>7. KeyOnce'
  BY <1>1, LedgerKeys DEF TypeOK
<1>8. PaidIsComplete'
  BY DEF PaidIsComplete, TopupInv, PastCommit, JobInv, TypeOK, OpenTransactions, JobTypes, RowTypes, LedgerTypeOK, PostTypes
<1>9. TwoPeople'
  BY DEF TwoPeople, TwoOf, DualInv, JobInv, TypeOK, OpenTransactions, JobTypes, RowTypes, LedgerTypeOK, PostTypes
<1>10. AuditIsTrue'
  BY DEF AuditIsTrue, DualInv, JobInv, TypeOK, OpenTransactions, JobTypes, RowTypes, LedgerTypeOK, PostTypes
<1>. QED BY <1>1, <1>2, <1>3, <1>4, <1>5, <1>6, <1>7, <1>8, <1>9, <1>10 DEF TypeOK

\* A dead request leaves behind only what it committed.
LEMMA DiesKeeps ==
  ASSUME IInv, NEW p \in Posters, Dies(p)
  PROVE  IInv' /\ [LedgerNext]_ledgerVars
<1>. USE HubAssumption, WalletAssumption, KeyAssumption
     DEF IInv, Dies, LeavePost, IsIdle, Job, IdleJob, Finish, NoPost,
         ledgerVars, hubVars
<1>1. [LedgerNext]_ledgerVars
  BY DEF LedgerNext, PostStepOf, ledgerVars, TypeOK, LedgerTypeOK, PostTypes
<1>2. LedgerTypeOK'
  BY <1>1, HubLedgerStep
<1>3. RowTypes' /\ JobTypes' /\ OpenTransactions'
  BY DEF TypeOK, OpenTransactions, JobTypes, RowTypes, LedgerTypeOK, PostTypes, JobInv, OrderStatus, ApprovalStatus, JobStep
<1>4. JobInv'
  BY DEF JobInv, TypeOK, OpenTransactions, JobTypes, RowTypes, LedgerTypeOK, PostTypes
<1>5. TopupInv'
  BY DEF TopupInv, PastCommit, JobInv, KeyOnce, PaidIsComplete, TypeOK, OpenTransactions, JobTypes, RowTypes, LedgerTypeOK, PostTypes
<1>6. DualInv'
  BY DEF DualInv, JobInv, TypeOK, OpenTransactions, JobTypes, RowTypes, LedgerTypeOK, PostTypes
<1>7. KeyOnce'
  BY <1>1, LedgerKeys DEF TypeOK
<1>8. PaidIsComplete'
  BY DEF PaidIsComplete, TopupInv, PastCommit, JobInv, TypeOK, OpenTransactions, JobTypes, RowTypes, LedgerTypeOK, PostTypes
<1>9. TwoPeople'
  BY DEF TwoPeople, TwoOf, DualInv, JobInv, TypeOK, OpenTransactions, JobTypes, RowTypes, LedgerTypeOK, PostTypes
<1>10. AuditIsTrue'
  BY DEF AuditIsTrue, DualInv, JobInv, TypeOK, OpenTransactions, JobTypes, RowTypes, LedgerTypeOK, PostTypes
<1>. QED BY <1>1, <1>2, <1>3, <1>4, <1>5, <1>6, <1>7, <1>8, <1>9, <1>10 DEF TypeOK

-----------------------------------------------------------------------------
LEMMA HubStart == ASSUME Init PROVE IInv
<1>. USE HubAssumption, WalletAssumption, KeyAssumption, AmountAssumption
     DEF Init, LedgerInit, IdleJob, NoPost
<1>1. TypeOK
  BY LedgerStart DEF TypeOK, RowTypes, JobTypes, OpenTransactions, OrderStatus, ApprovalStatus, JobStep
<1>2. JobInv /\ TopupInv /\ DualInv
  BY DEF JobInv, TopupInv, PastCommit, DualInv
<1>3. KeyOnce /\ PaidIsComplete /\ TwoPeople /\ AuditIsTrue
  BY DEF KeyOnce, PaidIsComplete, TwoPeople, AuditIsTrue
<1>. QED BY <1>1, <1>2, <1>3 DEF IInv

LEMMA HubStutter == ASSUME IInv, UNCHANGED vars PROVE IInv' /\ [LedgerNext]_ledgerVars
<1>. USE DEF IInv, vars, hubVars, ledgerVars
<1>1. TypeOK'
  BY DEF TypeOK, LedgerTypeOK, PostTypes, RowTypes, JobTypes, OpenTransactions
<1>2. JobInv' /\ TopupInv' /\ DualInv'
  BY DEF JobInv, TopupInv, PastCommit, DualInv
<1>3. KeyOnce' /\ PaidIsComplete' /\ TwoPeople' /\ AuditIsTrue'
  BY DEF KeyOnce, PaidIsComplete, TwoPeople, AuditIsTrue
<1>. QED BY <1>1, <1>2, <1>3

LEMMA HubNext == ASSUME IInv, [Next]_vars PROVE IInv' /\ [LedgerNext]_ledgerVars
<1>1. ASSUME NEW p \in Posters, NEW r \in Routes, NEW amount \in PayAmounts,
             NEW op \in {"pay", "adjust"}, Pay(p, r[1], r[2], amount, op)
      PROVE  IInv' /\ [LedgerNext]_ledgerVars
  <2>1. r[1] \in Wallets /\ r[2] \in Wallets BY HubAssumption
  <2>. QED BY <1>1, <2>1, PayKeeps
<1>2. ASSUME NEW p \in Posters,
             \/ PayReturns(p) \/ AdjustReturns(p)
             \/ \E o \in Orders : InsertOrder(p, o) \/ SettleTopup(p, o)
             \/ AssignVa(p) \/ TopupPosted(p) \/ CheckLtkt(p) \/ MarkPaid(p)
      PROVE  IInv' /\ [LedgerNext]_ledgerVars
  BY <1>2, PayReturnsKeeps, AdjustReturnsKeeps, InsertOrderKeeps, SettleTopupKeeps,
     AssignVaKeeps, TopupPostedKeeps, CheckLtktKeeps, MarkPaidKeeps
<1>3. ASSUME NEW p \in Posters,
             \/ \E w \in Suspects : FreezeWallet(p, w)
             \/ \E m \in Admins, a \in Approvals : RequestDual(p, m, a) \/ ApproveDual(p, m, a)
             \/ DualPosted(p) \/ MarkExecuted(p) \/ Audit(p)
      PROVE  IInv' /\ [LedgerNext]_ledgerVars
  BY <1>3, FreezeWalletKeeps, RequestDualKeeps, ApproveDualKeeps, DualPostedKeeps,
     MarkExecutedKeeps, AuditKeeps
<1>4. ASSUME NEW p \in Posters,
             AwaitPost(p) \/ CommitPost(p) \/ PostThrows(p) \/ Dies(p)
      PROVE  IInv' /\ [LedgerNext]_ledgerVars
  BY <1>4, AwaitPostKeeps, CommitPostKeeps, PostThrowsKeeps, DiesKeeps
<1>5. CASE UNCHANGED vars
  BY <1>5, HubStutter
<1>. QED BY <1>1, <1>2, <1>3, <1>4, <1>5 DEF Next

\* The inductive invariant holds in every reachable state.
THEOREM Invariance == Spec => []IInv
<1>1. Init => IInv BY HubStart
<1>2. IInv /\ [Next]_vars => IInv' BY HubNext
<1>. QED BY <1>1, <1>2, PTL DEF Spec

\* Every row, request and transaction keeps its type; a transaction is open
\* exactly while its request awaits it.
THEOREM Typing == Spec => []TypeOK
<1>1. IInv => TypeOK BY DEF IInv
<1>. QED BY <1>1, Invariance, PTL

\* A PAID top-up was credited once and, if large, reported once
\* (TopupService.settleByProviderRef).
THEOREM Topups == Spec => []PaidIsComplete
<1>1. IInv => PaidIsComplete BY DEF IInv
<1>. QED BY <1>1, Invariance, PTL

\* An executed adjustment had two approvers (AdminService.approveDualAction).
THEOREM TwoApprovers == Spec => []TwoPeople
<1>1. IInv => TwoPeople BY DEF IInv
<1>. QED BY <1>1, Invariance, PTL

\* The audit log records nothing that did not happen (AuditService.record is
\* called last).
THEOREM Auditing == Spec => []AuditIsTrue
<1>1. IInv => AuditIsTrue BY DEF IInv
<1>. QED BY <1>1, Invariance, PTL

-----------------------------------------------------------------------------
\* Every step of Hub is a step of the ledger or leaves it alone: no service
\* writes a balance, a freeze flag or a posting but through post() and
\* freezeWallet().
THEOREM Refinement == Spec => LedgerSpec
<1>1. Init => LedgerInit BY DEF Init
<1>2. IInv /\ [Next]_vars => [LedgerNext]_ledgerVars BY HubNext
<1>. QED BY <1>1, <1>2, Invariance, PTL DEF Spec, LedgerSpec

\* So an external reference is posted once in the whole system,
THEOREM OneKey == Spec => []KeyOnce
BY Refinement, LedgerInvariance, PTL

\* and a frozen wallet that has come to rest keeps its balance.
THEOREM Freezing == Spec => FreezeHolds
BY Refinement, LedgerFreeze

\* Whoever pays, tops up or adjusts at once, no wallet is overdrawn by more than
\* one maximal amount for each other request.
THEOREM Overdrafts == Spec => []OverdraftIsBounded
BY Refinement, LedgerOverdraft

-----------------------------------------------------------------------------
(* Payouts.                                                                *)


Starting(f) == fin[f].pc \in {"post", "payout"}
Settling(h) == hook[h].pc \in {"post", "mark"}
Terminal(x) == payout[x] \in {"SETTLED", "FAILED"}

FinInv ==
    /\ \A f \in FinTasks :
         /\ fin[f].pc # "idle" => fin[f].req \in Requests
         /\ Starting(f) => /\ fin[f].ref \in Refs
                           /\ owner[fin[f].ref] = fin[f].req
                           /\ payout[fin[f].ref] = "NONE"
                           /\ legs[fin[f].ref].start = IF fin[f].pc = "post" THEN 0 ELSE 1
    /\ \A f, g \in FinTasks :
         f # g /\ Starting(f) /\ Starting(g) => fin[f].ref # fin[g].ref

HookInv ==
    /\ \A h \in HookTasks : Settling(h) =>
         /\ hook[h].ref \in Refs
         /\ owner[hook[h].ref] \in Requests
         /\ Terminal(hook[h].ref)
         /\ hook[h].pc = "post" =>
              legs[hook[h].ref].expense = 0 /\ legs[hook[h].ref].refund = 0
         /\ hook[h].pc = "mark" /\ outcome[hook[h].ref] =>
              legs[hook[h].ref].expense = 1
    /\ \A h, k \in HookTasks :
         h # k /\ Settling(h) /\ Settling(k) => hook[h].ref # hook[k].ref

RefInv ==
    \A x \in Refs :
      /\ legs[x].start <= 1
      /\ legs[x].expense + legs[x].refund <= 1
      /\ owner[x] = NoReq => legs[x].start = 0 /\ payout[x] = "NONE"
      /\ Terminal(x) => legs[x].start = 1
      /\ payout[x] = "PENDING" => legs[x].start = 1
      /\ ~Terminal(x) => legs[x].expense = 0 /\ legs[x].refund = 0

\* The inductive invariant.
PayoutIInv == PayoutRowTypes /\ TaskTypes /\ FinInv /\ HookInv /\ RefInv /\ PaidIsExpensed

-----------------------------------------------------------------------------
(* One lemma per action, one step per conjunct of the invariant.           *)

\* decide() and retry() only read, and work on no reference yet.
LEMMA ReadForDecisionKeeps ==
  ASSUME PayoutIInv, NEW f \in FinTasks, NEW r \in Requests, ReadForDecision(f, r)
  PROVE  PayoutIInv'
<1>. USE RowsAssumption DEF PayoutIInv, ReadForDecision, Starting, Settling, Terminal,
        FinStep, HookStep, PayoutStatus, RequestStatus, IdleFin, IdleHook
<1>1. PayoutRowTypes' BY DEF PayoutRowTypes, TaskTypes, FinInv, HookInv
<1>2. TaskTypes' BY DEF PayoutRowTypes, TaskTypes
<1>3. FinInv' BY DEF FinInv, PayoutRowTypes, TaskTypes, RefInv
<1>4. HookInv' BY DEF HookInv, FinInv, PayoutRowTypes, TaskTypes, RefInv
<1>5. RefInv' BY DEF RefInv, FinInv, HookInv, PayoutRowTypes, TaskTypes
<1>6. PaidIsExpensed' BY DEF PaidIsExpensed, PayoutRowTypes, TaskTypes, RefInv, HookInv, FinInv
<1>. QED BY <1>1, <1>2, <1>3, <1>4, <1>5, <1>6

LEMMA ReadForRetryKeeps ==
  ASSUME PayoutIInv, NEW f \in FinTasks, NEW r \in Requests, ReadForRetry(f, r)
  PROVE  PayoutIInv'
<1>. USE RowsAssumption DEF PayoutIInv, ReadForRetry, Starting, Settling, Terminal,
        FinStep, HookStep, PayoutStatus, RequestStatus, IdleFin, IdleHook
<1>1. PayoutRowTypes' BY DEF PayoutRowTypes, TaskTypes, FinInv, HookInv
<1>2. TaskTypes' BY DEF PayoutRowTypes, TaskTypes
<1>3. FinInv' BY DEF FinInv, PayoutRowTypes, TaskTypes, RefInv
<1>4. HookInv' BY DEF HookInv, FinInv, PayoutRowTypes, TaskTypes, RefInv
<1>5. RefInv' BY DEF RefInv, FinInv, HookInv, PayoutRowTypes, TaskTypes
<1>6. PaidIsExpensed' BY DEF PaidIsExpensed, PayoutRowTypes, TaskTypes, RefInv, HookInv, FinInv
<1>. QED BY <1>1, <1>2, <1>3, <1>4, <1>5, <1>6

\* A decision sets a status that is not PAID.
LEMMA RejectKeeps ==
  ASSUME PayoutIInv, NEW f \in FinTasks, Reject(f)
  PROVE  PayoutIInv'
<1>. USE RowsAssumption DEF PayoutIInv, Reject, Starting, Settling, Terminal,
        FinStep, HookStep, PayoutStatus, RequestStatus, IdleFin, IdleHook
<1>1. PayoutRowTypes' BY DEF PayoutRowTypes, TaskTypes, FinInv, HookInv
<1>2. TaskTypes' BY DEF PayoutRowTypes, TaskTypes
<1>3. FinInv' BY DEF FinInv, PayoutRowTypes, TaskTypes, RefInv
<1>4. HookInv' BY DEF HookInv, FinInv, PayoutRowTypes, TaskTypes, RefInv
<1>5. RefInv' BY DEF RefInv, FinInv, HookInv, PayoutRowTypes, TaskTypes
<1>6. PaidIsExpensed' BY DEF PaidIsExpensed, PayoutRowTypes, TaskTypes, RefInv, HookInv, FinInv
<1>. QED BY <1>1, <1>2, <1>3, <1>4, <1>5, <1>6

LEMMA ApproveKeeps ==
  ASSUME PayoutIInv, NEW f \in FinTasks, Approve(f)
  PROVE  PayoutIInv'
<1>. USE RowsAssumption DEF PayoutIInv, Approve, Starting, Settling, Terminal,
        FinStep, HookStep, PayoutStatus, RequestStatus, IdleFin, IdleHook
<1>1. PayoutRowTypes' BY DEF PayoutRowTypes, TaskTypes, FinInv, HookInv
<1>2. TaskTypes' BY DEF PayoutRowTypes, TaskTypes
<1>3. FinInv' BY DEF FinInv, PayoutRowTypes, TaskTypes, RefInv
<1>4. HookInv' BY DEF HookInv, FinInv, PayoutRowTypes, TaskTypes, RefInv
<1>5. RefInv' BY DEF RefInv, FinInv, HookInv, PayoutRowTypes, TaskTypes
<1>6. PaidIsExpensed' BY DEF PaidIsExpensed, PayoutRowTypes, TaskTypes, RefInv, HookInv, FinInv
<1>. QED BY <1>1, <1>2, <1>3, <1>4, <1>5, <1>6

\* A new reference is one that no handler and no row knows.
LEMMA CreateDisbursementKeeps ==
  ASSUME PayoutIInv, NEW f \in FinTasks, CreateDisbursement(f)
  PROVE  PayoutIInv'
<1>. USE RowsAssumption DEF PayoutIInv, CreateDisbursement, Starting, Settling, Terminal,
        FinStep, HookStep, PayoutStatus, RequestStatus, IdleFin, IdleHook
<1>a. PICK x \in Refs, ok \in BOOLEAN :
        /\ owner[x] = NoReq
        /\ owner' = [owner EXCEPT ![x] = fin[f].req]
        /\ outcome' = [outcome EXCEPT ![x] = ok]
        /\ fin' = [fin EXCEPT ![f] = [pc |-> "post", req |-> fin[f].req, ref |-> x]]
  BY DEF Issued
<1>b. fin[f].req \in Requests /\ fin[f].req # NoReq
  BY DEF FinInv
<1>1. PayoutRowTypes' BY <1>a, <1>b DEF PayoutRowTypes, TaskTypes
<1>2. TaskTypes' BY <1>a DEF TaskTypes
<1>3. FinInv' BY <1>a, <1>b DEF FinInv, PayoutRowTypes, TaskTypes, RefInv
<1>4. HookInv' BY <1>a, <1>b DEF HookInv, PayoutRowTypes, TaskTypes, RefInv
<1>5. RefInv' BY <1>a, <1>b DEF RefInv, PayoutRowTypes
<1>6. PaidIsExpensed' BY <1>a, <1>b DEF PaidIsExpensed, PayoutRowTypes
<1>. QED BY <1>1, <1>2, <1>3, <1>4, <1>5, <1>6

\* The start leg is posted once: the handler has not posted it yet, and it is
\* the only one on this reference.
LEMMA PostStartKeeps ==
  ASSUME PayoutIInv, NEW f \in FinTasks, PostStart(f)
  PROVE  PayoutIInv'
<1>. USE RowsAssumption DEF PayoutIInv, PostStart, Starting, Settling, Terminal,
        FinStep, HookStep, PayoutStatus, RequestStatus, IdleFin, IdleHook
<1>. DEFINE x == fin[f].ref
<1>a. /\ x \in Refs
      /\ owner[x] \in Requests
      /\ payout[x] = "NONE"
      /\ legs[x].start = 0 /\ legs[x].expense = 0 /\ legs[x].refund = 0
  BY DEF FinInv, RefInv
<1>b. /\ legs' \in [Refs -> [start : Nat, expense : Nat, refund : Nat]]
      /\ legs'[x].start = 1
      /\ \A y \in Refs : legs'[y].expense = legs[y].expense /\ legs'[y].refund = legs[y].refund
      /\ \A y \in Refs \ {x} : legs'[y] = legs[y]
  BY <1>a DEF PayoutRowTypes
<1>c. fin' = [fin EXCEPT ![f].pc = "payout"]
  OBVIOUS
<1>. HIDE DEF PostStart
<1>d. UNCHANGED <<status, owner, outcome, payout, hook>> /\ fin[f].pc = "post"
  BY DEF PostStart
<1>1. PayoutRowTypes' BY <1>a, <1>b, <1>c, <1>d DEF PayoutRowTypes, TaskTypes
<1>2. TaskTypes' BY <1>c, <1>d DEF TaskTypes
<1>3. FinInv' BY <1>a, <1>b, <1>c, <1>d DEF FinInv, PayoutRowTypes, TaskTypes, RefInv
<1>4. HookInv' BY <1>a, <1>b, <1>c, <1>d DEF HookInv, PayoutRowTypes, TaskTypes, RefInv
<1>5. RefInv'
  <2> SUFFICES ASSUME NEW y \in Refs
               PROVE  RefInv!(y)'
    BY DEF RefInv
  <2>1. CASE y = x
    BY <2>1, <1>a, <1>b, <1>d
  <2>2. CASE y # x
    BY <2>2, <1>b, <1>d DEF RefInv
  <2>. QED BY <2>1, <2>2
<1>6. PaidIsExpensed' BY <1>a, <1>b, <1>c, <1>d DEF PaidIsExpensed, PayoutRowTypes
<1>. QED BY <1>1, <1>2, <1>3, <1>4, <1>5, <1>6

LEMMA CreatePayoutKeeps ==
  ASSUME PayoutIInv, NEW f \in FinTasks, CreatePayout(f)
  PROVE  PayoutIInv'
<1>. USE RowsAssumption DEF PayoutIInv, CreatePayout, Starting, Settling, Terminal,
        FinStep, HookStep, PayoutStatus, RequestStatus, IdleFin, IdleHook
<1>1. PayoutRowTypes' BY DEF PayoutRowTypes, TaskTypes, FinInv, HookInv
<1>2. TaskTypes' BY DEF PayoutRowTypes, TaskTypes
<1>3. FinInv' BY DEF FinInv, PayoutRowTypes, TaskTypes, RefInv
<1>4. HookInv' BY DEF HookInv, FinInv, PayoutRowTypes, TaskTypes, RefInv
<1>5. RefInv' BY DEF RefInv, FinInv, HookInv, PayoutRowTypes, TaskTypes
<1>6. PaidIsExpensed' BY DEF PaidIsExpensed, PayoutRowTypes, TaskTypes, RefInv, HookInv, FinInv
<1>. QED BY <1>1, <1>2, <1>3, <1>4, <1>5, <1>6

LEMMA MarkDisbursingKeeps ==
  ASSUME PayoutIInv, NEW f \in FinTasks, MarkDisbursing(f)
  PROVE  PayoutIInv'
<1>. USE RowsAssumption DEF PayoutIInv, MarkDisbursing, Starting, Settling, Terminal,
        FinStep, HookStep, PayoutStatus, RequestStatus, IdleFin, IdleHook
<1>1. PayoutRowTypes' BY DEF PayoutRowTypes, TaskTypes, FinInv, HookInv
<1>2. TaskTypes' BY DEF PayoutRowTypes, TaskTypes
<1>3. FinInv' BY DEF FinInv, PayoutRowTypes, TaskTypes, RefInv
<1>4. HookInv' BY DEF HookInv, FinInv, PayoutRowTypes, TaskTypes, RefInv
<1>5. RefInv' BY DEF RefInv, FinInv, HookInv, PayoutRowTypes, TaskTypes
<1>6. PaidIsExpensed' BY DEF PaidIsExpensed, PayoutRowTypes, TaskTypes, RefInv, HookInv, FinInv
<1>. QED BY <1>1, <1>2, <1>3, <1>4, <1>5, <1>6

\* A handler that dies leaves the rows as they are.
LEMMA FinDiesKeeps ==
  ASSUME PayoutIInv, NEW f \in FinTasks, FinDies(f)
  PROVE  PayoutIInv'
<1>. USE RowsAssumption DEF PayoutIInv, FinDies, Starting, Settling, Terminal,
        FinStep, HookStep, PayoutStatus, RequestStatus, IdleFin, IdleHook
<1>1. PayoutRowTypes' BY DEF PayoutRowTypes, TaskTypes, FinInv, HookInv
<1>2. TaskTypes' BY DEF PayoutRowTypes, TaskTypes
<1>3. FinInv' BY DEF FinInv, PayoutRowTypes, TaskTypes, RefInv
<1>4. HookInv' BY DEF HookInv, FinInv, PayoutRowTypes, TaskTypes, RefInv
<1>5. RefInv' BY DEF RefInv, FinInv, HookInv, PayoutRowTypes, TaskTypes
<1>6. PaidIsExpensed' BY DEF PaidIsExpensed, PayoutRowTypes, TaskTypes, RefInv, HookInv, FinInv
<1>. QED BY <1>1, <1>2, <1>3, <1>4, <1>5, <1>6

\* The flip out of PENDING gives the reference to one handler: every other one
\* works on a reference whose payout is terminal already.
LEMMA SettleFlipKeeps ==
  ASSUME PayoutIInv, NEW h \in HookTasks, NEW x \in Refs, SettleFlip(h, x)
  PROVE  PayoutIInv'
<1>. USE RowsAssumption DEF PayoutIInv, SettleFlip, Starting, Settling, Terminal,
        FinStep, HookStep, PayoutStatus, RequestStatus, IdleFin, IdleHook
<1>a. /\ payout[x] = "PENDING"
      /\ payout'[x] \in {"SETTLED", "FAILED"}
      /\ \A y \in Refs \ {x} : payout'[y] = payout[y]
  BY DEF PayoutRowTypes
<1>b. owner[x] \in Requests /\ legs[x].expense = 0 /\ legs[x].refund = 0
  BY <1>a DEF RefInv, PayoutRowTypes
<1>c. \A k \in HookTasks : Settling(k) => hook[k].ref # x
  BY <1>a DEF HookInv
<1>d. /\ ~Settling(h)
      /\ hook'[h] = [pc |-> "post", ref |-> x]
      /\ \A k \in HookTasks \ {h} : hook'[k] = hook[k]
  BY DEF TaskTypes
<1>1. PayoutRowTypes' BY DEF PayoutRowTypes, TaskTypes, FinInv, HookInv
<1>2. TaskTypes' BY DEF PayoutRowTypes, TaskTypes
<1>3. FinInv' BY DEF FinInv, PayoutRowTypes, TaskTypes, RefInv
<1>4. HookInv' BY <1>a, <1>b, <1>c, <1>d DEF HookInv
<1>5. RefInv' BY DEF RefInv, FinInv, HookInv, PayoutRowTypes, TaskTypes
<1>6. PaidIsExpensed' BY DEF PaidIsExpensed, PayoutRowTypes, TaskTypes, RefInv, HookInv, FinInv
<1>. QED BY <1>1, <1>2, <1>3, <1>4, <1>5, <1>6

\* The handler that flipped the payout posts its one leg.
LEMMA SettlePostKeeps ==
  ASSUME PayoutIInv, NEW h \in HookTasks, SettlePost(h)
  PROVE  PayoutIInv'
<1>. USE RowsAssumption DEF PayoutIInv, SettlePost, Starting, Settling, Terminal,
        FinStep, HookStep, PayoutStatus, RequestStatus, IdleFin, IdleHook
<1>. DEFINE x == hook[h].ref
<1>a. /\ x \in Refs
      /\ Terminal(x)
      /\ legs[x].expense = 0 /\ legs[x].refund = 0
  BY DEF HookInv
<1>b. /\ legs' \in [Refs -> [start : Nat, expense : Nat, refund : Nat]]
      /\ legs'[x].expense + legs'[x].refund = 1
      /\ outcome[x] => legs'[x].expense = 1
      /\ \A y \in Refs : legs'[y].start = legs[y].start
      /\ \A y \in Refs \ {x} : legs'[y] = legs[y]
  <2>1. CASE outcome[x]
    <3>1. legs' = [legs EXCEPT ![x].expense = @ + 1]
      BY <2>1
    <3>. HIDE DEF SettlePost
    <3>. QED BY <3>1, <2>1, <1>a DEF PayoutRowTypes
  <2>2. CASE ~outcome[x]
    <3>1. legs' = [legs EXCEPT ![x].refund = @ + 1]
      BY <2>2
    <3>. HIDE DEF SettlePost
    <3>. QED BY <3>1, <2>2, <1>a DEF PayoutRowTypes
  <2>. QED BY <2>1, <2>2, <1>a DEF PayoutRowTypes
<1>c. /\ hook' = [hook EXCEPT ![h].pc = "mark"]
      /\ hook[h].pc = "post"
      /\ UNCHANGED <<status, owner, outcome, payout, fin>>
  OBVIOUS
<1>. HIDE DEF SettlePost
<1>1. PayoutRowTypes' BY <1>a, <1>b, <1>c DEF PayoutRowTypes
<1>2. TaskTypes' BY <1>a, <1>b, <1>c DEF TaskTypes
<1>3. FinInv' BY <1>a, <1>b, <1>c DEF FinInv, PayoutRowTypes, RefInv
<1>4. HookInv' BY <1>a, <1>b, <1>c DEF HookInv, PayoutRowTypes, TaskTypes
<1>5. RefInv' BY <1>a, <1>b, <1>c DEF RefInv, PayoutRowTypes
<1>6. PaidIsExpensed' BY <1>a, <1>b, <1>c DEF PaidIsExpensed, PayoutRowTypes
<1>. QED BY <1>1, <1>2, <1>3, <1>4, <1>5, <1>6

\* PAID is written after the expense leg was posted.
LEMMA SettleMarkKeeps ==
  ASSUME PayoutIInv, NEW h \in HookTasks, SettleMark(h)
  PROVE  PayoutIInv'
<1>. USE RowsAssumption DEF PayoutIInv, SettleMark, Starting, Settling, Terminal,
        FinStep, HookStep, PayoutStatus, RequestStatus, IdleFin, IdleHook
<1>1. PayoutRowTypes' BY DEF PayoutRowTypes, TaskTypes, FinInv, HookInv
<1>2. TaskTypes' BY DEF PayoutRowTypes, TaskTypes
<1>3. FinInv' BY DEF FinInv, PayoutRowTypes, TaskTypes, RefInv
<1>4. HookInv' BY DEF HookInv, FinInv, PayoutRowTypes, TaskTypes, RefInv
<1>5. RefInv' BY DEF RefInv, FinInv, HookInv, PayoutRowTypes, TaskTypes
<1>6. PaidIsExpensed' BY DEF PaidIsExpensed, PayoutRowTypes, TaskTypes, RefInv, HookInv, FinInv
<1>. QED BY <1>1, <1>2, <1>3, <1>4, <1>5, <1>6

LEMMA HookDiesKeeps ==
  ASSUME PayoutIInv, NEW h \in HookTasks, HookDies(h)
  PROVE  PayoutIInv'
<1>. USE RowsAssumption DEF PayoutIInv, HookDies, Starting, Settling, Terminal,
        FinStep, HookStep, PayoutStatus, RequestStatus, IdleFin, IdleHook
<1>1. PayoutRowTypes' BY DEF PayoutRowTypes, TaskTypes, FinInv, HookInv
<1>2. TaskTypes' BY DEF PayoutRowTypes, TaskTypes
<1>3. FinInv' BY DEF FinInv, PayoutRowTypes, TaskTypes, RefInv
<1>4. HookInv' BY DEF HookInv, FinInv, PayoutRowTypes, TaskTypes, RefInv
<1>5. RefInv' BY DEF RefInv, FinInv, HookInv, PayoutRowTypes, TaskTypes
<1>6. PaidIsExpensed' BY DEF PaidIsExpensed, PayoutRowTypes, TaskTypes, RefInv, HookInv, FinInv
<1>. QED BY <1>1, <1>2, <1>3, <1>4, <1>5, <1>6

-----------------------------------------------------------------------------
\* The steps that change neither rows nor handlers.
LEMMA OthersKeep ==
  ASSUME PayoutIInv, UNCHANGED <<status, owner, outcome, payout, legs, fin, hook>>
  PROVE  PayoutIInv'
BY DEF PayoutIInv, PayoutRowTypes, TaskTypes, FinInv, HookInv, RefInv, PaidIsExpensed,
       Starting, Settling, Terminal

LEMMA InitIInv == PayoutInit => PayoutIInv
BY RowsAssumption
   DEF PayoutInit, PayoutIInv, PayoutRowTypes, TaskTypes, FinInv, HookInv, RefInv, PaidIsExpensed,
       Starting, Settling, Terminal, NoLegs, IdleFin, IdleHook,
       RequestStatus, PayoutStatus, FinStep, HookStep

LEMMA NextIInv == PayoutIInv /\ [PayoutNext]_payoutVars => PayoutIInv'
<1> SUFFICES ASSUME PayoutIInv, [PayoutNext]_payoutVars PROVE PayoutIInv'
  OBVIOUS
<1>1. ASSUME NEW f \in FinTasks, NEW r \in Requests,
             ReadForDecision(f, r) \/ ReadForRetry(f, r)
      PROVE  PayoutIInv'
  BY <1>1, ReadForDecisionKeeps, ReadForRetryKeeps
<1>2. ASSUME NEW f \in FinTasks, FinStepOf(f)
      PROVE  PayoutIInv'
  BY <1>2, RejectKeeps, ApproveKeeps, CreateDisbursementKeeps, PostStartKeeps,
     CreatePayoutKeeps, MarkDisbursingKeeps DEF FinStepOf
<1>3. ASSUME NEW f \in FinTasks, FinDies(f)
      PROVE  PayoutIInv'
  BY <1>3, FinDiesKeeps
<1>4. ASSUME NEW h \in HookTasks, HookStepOf(h) \/ HookDies(h)
      PROVE  PayoutIInv'
  BY <1>4, SettlePostKeeps, SettleMarkKeeps, HookDiesKeeps DEF HookStepOf
<1>5. ASSUME NEW h \in HookTasks, NEW x \in Refs, SettleFlip(h, x)
      PROVE  PayoutIInv'
  BY <1>5, SettleFlipKeeps
<1>6. ASSUME NEW h \in HookTasks, NEW x \in Refs, SettleIgnored(h, x)
      PROVE  PayoutIInv'
  BY <1>6, OthersKeep DEF SettleIgnored
<1>7. CASE ReconReadClearing \/ ReconFinish
  BY <1>7, OthersKeep DEF ReconReadClearing, ReconFinish
<1>8. CASE UNCHANGED payoutVars
  BY <1>8, OthersKeep DEF payoutVars
<1>. QED
  BY <1>1, <1>2, <1>3, <1>4, <1>5, <1>6, <1>7, <1>8 DEF PayoutNext, Notify

\* The invariant holds in every reachable state, whatever dies, arrives early
\* or arrives twice.
THEOREM PayoutInvariance == PayoutSpec => []PayoutIInv
BY InitIInv, NextIInv, PTL DEF PayoutSpec

\* The rows of PaymentRequest, GatewayPayout and the ledger, and the handlers
\* in flight, keep their types.
THEOREM PayoutTyping == PayoutSpec => [](PayoutRowTypes /\ TaskTypes)
<1>1. PayoutIInv => PayoutRowTypes /\ TaskTypes
  BY DEF PayoutIInv
<1>. QED BY <1>1, PayoutInvariance, PTL

\* settle() never posts two legs for one payout, for any number of payouts and
\* of concurrent, repeated or interrupted notifications.
THEOREM NoDoubleSettlement == PayoutSpec => []SettledOnce
<1>1. PayoutIInv => SettledOnce
  BY DEF PayoutIInv, RefInv, SettledOnce
<1>. QED BY <1>1, PayoutInvariance, PTL

\* The clearing wallet always holds what the pending payouts say it holds.
THEOREM Backing == PayoutSpec => []InFlightIsBacked
<1>1. PayoutIInv => InFlightIsBacked
  <2> SUFFICES ASSUME PayoutIInv, NEW x \in Refs
               PROVE  InClearing(x) >= 0 /\ (payout[x] = "PENDING" => InClearing(x) = 1)
    BY DEF InFlightIsBacked
  <2>1. /\ legs[x].start \in Nat /\ legs[x].expense \in Nat /\ legs[x].refund \in Nat
        /\ payout[x] \in {"PENDING", "SETTLED", "FAILED", "NONE"}
    BY DEF PayoutIInv, PayoutRowTypes, PayoutStatus
  <2>. QED BY <2>1 DEF PayoutIInv, RefInv, Terminal, InClearing
<1>. QED BY <1>1, PayoutInvariance, PTL

\* A request is PAID only with its money expensed.
THEOREM Expensing == PayoutSpec => []PaidIsExpensed
<1>1. PayoutIInv => PaidIsExpensed
  BY DEF PayoutIInv
<1>. QED BY <1>1, PayoutInvariance, PTL

-----------------------------------------------------------------------------
(* The nightly reconciliation.                                             *)

\* A payout has its whole amount in clearing or nothing, and a pending one has it.
LEMMA OneUnit ==
  ASSUME PayoutIInv, NEW x \in Refs
  PROVE  /\ InClearing(x) \in {0, 1}
         /\ payout[x] = "PENDING" => InClearing(x) = 1
         /\ owner[x] = NoReq => InClearing(x) = 0
<1>1. /\ legs[x].start \in Nat /\ legs[x].expense \in Nat /\ legs[x].refund \in Nat
      /\ payout[x] \in {"PENDING", "SETTLED", "FAILED", "NONE"}
  BY DEF PayoutIInv, PayoutRowTypes, PayoutStatus
<1>2. /\ legs[x].start <= 1
      /\ legs[x].expense + legs[x].refund <= 1
      /\ owner[x] = NoReq => legs[x].start = 0 /\ payout[x] = "NONE"
      /\ Terminal(x) => legs[x].start = 1
      /\ payout[x] = "PENDING" => legs[x].start = 1
      /\ ~Terminal(x) => legs[x].expense = 0 /\ legs[x].refund = 0
  BY DEF PayoutIInv, RefInv
<1>. QED BY <1>1, <1>2 DEF Terminal, InClearing

\* The clearing balance is the pending amount and what is stranded on top of it.
LEMMA ClearingIsPendingAndStranded ==
  ASSUME PayoutIInv
  PROVE  ClearingBalance = PendingAmount <=> Stranded = {}
<1>. DEFINE f == [x \in Issued |-> Amount[owner[x]] * InClearing(x)]
            g == [x \in Issued |-> Amount[owner[x]]]
            Rest == Issued \ PendingPayouts
<1>1. \A x \in Issued : x \in Refs /\ Amount[owner[x]] \in Nat \ {0}
  BY PayoutAmountAssumption DEF Issued, PayoutIInv, PayoutRowTypes
<1>2. \A x \in Issued : f[x] = IF InClearing(x) = 1 THEN g[x] ELSE 0
  BY <1>1, OneUnit
<1>3. \A x \in Issued : f[x] \in Nat /\ g[x] \in Nat \ {0}
  BY <1>1, <1>2
<1>4. /\ IsFiniteSet(Issued) /\ IsFiniteSet(Rest) /\ IsFiniteSet(PendingPayouts)
      /\ PendingPayouts \in SUBSET Issued
  BY FiniteAssumption, FS_Subset DEF Issued, PendingPayouts
<1>5. \A x \in PendingPayouts : f[x] = g[x]
  BY <1>1, <1>2, OneUnit DEF PendingPayouts
<1>6. \A x \in Rest : f[x] # 0 <=> x \in Stranded
  BY <1>1, <1>2, <1>3, OneUnit DEF Stranded, PendingPayouts
<1>7. Stranded \subseteq Rest
  BY OneUnit DEF Stranded, PendingPayouts, Issued
<1>8. ClearingBalance = SumFunctionOnSet(f, Issued) /\ PendingAmount = SumFunctionOnSet(g, PendingPayouts)
  BY DEF ClearingBalance, PendingAmount
<1>. HIDE DEF f, g, Rest
<1>9. ClearingBalance = PendingAmount + SumFunctionOnSet(f, Rest)
  <2>1. SumFunctionOnSet(f, Issued) = SumFunctionOnSet(f, PendingPayouts) + SumFunctionOnSet(f, Rest)
    BY <1>3, <1>4, SumSplit DEF Rest
  <2>2. SumFunctionOnSet(f, PendingPayouts) = SumFunctionOnSet(g, PendingPayouts)
    BY <1>4, <1>5, SumSame
  <2>. QED BY <1>8, <2>1, <2>2
<1>10. SumFunctionOnSet(f, Rest) \in Nat /\ PendingAmount \in Nat
  BY <1>3, <1>4, <1>8, SumNat DEF Rest
<1>11. CASE Stranded = {}
  <2>1. SumFunctionOnSet(f, Rest) = 0
    BY <1>4, <1>6, <1>11, SumZero
  <2>. QED BY <1>9, <1>10, <1>11, <2>1
<1>12. ASSUME Stranded # {} PROVE ClearingBalance # PendingAmount
  <2>1. PICK x \in Stranded : TRUE
    BY <1>12
  <2>2. x \in Rest /\ f[x] # 0 /\ \A y \in Rest : f[y] \in Nat
    BY <1>3, <1>6, <1>7 DEF Rest
  <2>3. SumFunctionOnSet(f, Rest) > 0
    BY <1>4, <2>2, SumPositive
  <2>. QED BY <1>9, <1>10, <2>3
<1>. QED BY <1>11, <1>12

\* A reconciliation that read one picture fails exactly if some payout is
\* stranded, whatever the amounts and however many payouts there are.
THEOREM Reconciling == PayoutSpec => ReconciliationTells
<1>1. ASSUME PayoutIInv, [PayoutNext]_payoutVars
      PROVE  [ReconFinish /\ Idle /\ recon.clearing = ClearingBalance =>
                (lastRun' = "failed" <=> Stranded # {})]_payoutVars
  BY <1>1, ClearingIsPendingAndStranded DEF ReconFinish
<1>2. PayoutIInv /\ [PayoutNext]_payoutVars =>
        [ReconFinish /\ Idle /\ recon.clearing = ClearingBalance =>
           (lastRun' = "failed" <=> Stranded # {})]_payoutVars
  BY <1>1
<1>. QED BY <1>2, PayoutInvariance, PTL DEF PayoutSpec, ReconciliationTells

-----------------------------------------------------------------------------
(* One live payout of a request: one Finance handler at a time and no      *)
(* handler that dies, however early the notifications arrive.              *)

OneFinance == ~Faults /\ \A f, g \in FinTasks : f = g

\* A payout of the request that came back is of no more concern.
Returned(x) ==
    /\ payout[x] = "FAILED"
    /\ ~outcome[x]
    /\ legs[x].start = 1 /\ legs[x].expense = 0 /\ legs[x].refund = 1
    /\ \A h \in HookTasks : hook[h].ref # x

BeingStarted(x) == \E f \in FinTasks : fin[f].ref = x

\* A payout that did not come back bars a further one: its handler is still
\* running, or the status is one that decide() and retry() refuse.
Barred ==
    \A x \in Issued :
        Returned(x) \/ BeingStarted(x) \/ status[owner[x]] \in {"DISBURSING", "PAID"}

PayoutsOf(r) == {x \in Refs : owner[x] = r}

\* The idempotency of decide() and retry(): one payout of a request at a time.
OneOpen ==
    \A x, y \in Issued : x # y /\ owner[x] = owner[y] => Returned(x) \/ Returned(y)

Untouched ==
    \A r \in Requests : status[r] \in {"PENDING", "REJECTED"} => PayoutsOf(r) = {}

FinStage ==
    \A f \in FinTasks :
      LET r == fin[f].req
          x == fin[f].ref IN
        /\ fin[f].pc \in {"idle", "approve", "reject", "create"} => x = NoRef
        /\ fin[f].pc \in {"approve", "reject"} => status[r] = "PENDING"
        /\ fin[f].pc = "create" =>
             /\ status[r] \in {"APPROVED", "FAILED"}
             /\ \A y \in PayoutsOf(r) : Returned(y)
        /\ fin[f].pc \in {"post", "payout", "mark"} => x \in Refs /\ owner[x] = r
        /\ fin[f].pc \in {"post", "payout"} => payout[x] = "NONE"

HookStage ==
    /\ \A h \in HookTasks :
      /\ hook[h].pc = "idle" <=> hook[h].ref = NoRef
      /\ hook[h].pc = "mark" /\ ~outcome[hook[h].ref] =>
           legs[hook[h].ref].refund = 1
    /\ \A x \in Refs : Terminal(x) => (payout[x] = "SETTLED" <=> outcome[x])

PayInv == Barred /\ OneOpen /\ Untouched /\ FinStage /\ HookStage

\* What the invariant of all handlers says of the rows and the tasks.
LEMMA Rows ==
  ASSUME PayoutIInv
  PROVE  /\ status \in [Requests -> RequestStatus]
         /\ owner \in [Refs -> Requests \cup {NoReq}]
         /\ outcome \in [Refs -> BOOLEAN]
         /\ payout \in [Refs -> PayoutStatus \cup {"NONE"}]
         /\ legs \in [Refs -> [start : Nat, expense : Nat, refund : Nat]]
         /\ fin \in [FinTasks -> [pc : FinStep, req : Requests \cup {NoReq}, ref : Refs \cup {NoRef}]]
         /\ hook \in [HookTasks -> [pc : HookStep, ref : Refs \cup {NoRef}]]
         /\ \A f \in FinTasks : fin[f].pc # "idle" => fin[f].req \in Requests
         /\ \A x \in Refs : owner[x] = NoReq => payout[x] = "NONE"
BY DEF PayoutIInv, PayoutRowTypes, TaskTypes, FinInv, RefInv

LEMMA ReadForDecisionPays ==
  ASSUME OneFinance, PayoutIInv, PayInv, NEW f \in FinTasks, NEW r \in Requests, ReadForDecision(f, r)
  PROVE  PayInv'
<1>. USE RowsAssumption, Rows DEF PayInv, OneFinance, ReadForDecision, Issued, IdleFin, IdleHook
<1>1. Barred'
  BY DEF Barred, Returned, BeingStarted, FinStage, Untouched, PayoutsOf
<1>2. OneOpen'
  BY DEF OneOpen, Returned, FinStage, PayoutsOf
<1>3. Untouched'
  BY DEF Untouched, PayoutsOf, FinStage
<1>4. FinStage'
  BY DEF FinStage, Untouched, PayoutsOf, Returned, Barred, BeingStarted
<1>5. HookStage'
  BY DEF HookStage, Terminal
<1>. QED BY <1>1, <1>2, <1>3, <1>4, <1>5

LEMMA ReadForRetryPays ==
  ASSUME OneFinance, PayoutIInv, PayInv, NEW f \in FinTasks, NEW r \in Requests, ReadForRetry(f, r)
  PROVE  PayInv'
<1>. USE RowsAssumption, Rows DEF PayInv, OneFinance, ReadForRetry, Issued, IdleFin, IdleHook
<1>1. Barred'
  BY DEF Barred, Returned, BeingStarted, FinStage, Untouched, PayoutsOf
<1>2. OneOpen'
  BY DEF OneOpen, Returned, FinStage, PayoutsOf
<1>3. Untouched'
  BY DEF Untouched, PayoutsOf, FinStage
<1>4. FinStage'
  BY DEF FinStage, Untouched, PayoutsOf, Returned, Barred, BeingStarted
<1>5. HookStage'
  BY DEF HookStage, Terminal
<1>. QED BY <1>1, <1>2, <1>3, <1>4, <1>5

LEMMA RejectPays ==
  ASSUME OneFinance, PayoutIInv, PayInv, NEW f \in FinTasks, Reject(f)
  PROVE  PayInv'
<1>. USE RowsAssumption, Rows DEF PayInv, OneFinance, Reject, Issued, IdleFin, IdleHook
<1>1. Barred'
  BY DEF Barred, Returned, BeingStarted, FinStage, Untouched, PayoutsOf
<1>2. OneOpen'
  BY DEF OneOpen, Returned, FinStage, PayoutsOf
<1>3. Untouched'
  BY DEF Untouched, PayoutsOf, FinStage
<1>4. FinStage'
  BY DEF FinStage, Untouched, PayoutsOf, Returned, Barred, BeingStarted
<1>5. HookStage'
  BY DEF HookStage, Terminal
<1>. QED BY <1>1, <1>2, <1>3, <1>4, <1>5

LEMMA ApprovePays ==
  ASSUME OneFinance, PayoutIInv, PayInv, NEW f \in FinTasks, Approve(f)
  PROVE  PayInv'
<1>. USE RowsAssumption, Rows DEF PayInv, OneFinance, Approve, Issued, IdleFin, IdleHook
<1>1. Barred'
  BY DEF Barred, Returned, BeingStarted, FinStage, Untouched, PayoutsOf
<1>2. OneOpen'
  BY DEF OneOpen, Returned, FinStage, PayoutsOf
<1>3. Untouched'
  BY DEF Untouched, PayoutsOf, FinStage
<1>4. FinStage'
  BY DEF FinStage, Untouched, PayoutsOf, Returned, Barred, BeingStarted
<1>5. HookStage'
  BY DEF HookStage, Terminal
<1>. QED BY <1>1, <1>2, <1>3, <1>4, <1>5

LEMMA CreateDisbursementPays ==
  ASSUME OneFinance, PayoutIInv, PayInv, NEW f \in FinTasks, CreateDisbursement(f)
  PROVE  PayInv'
<1>. USE RowsAssumption, Rows DEF PayInv, OneFinance
<1>0. PICK x \in Refs, ok \in BOOLEAN :
        /\ owner[x] = NoReq
        /\ owner' = [owner EXCEPT ![x] = fin[f].req]
        /\ outcome' = [outcome EXCEPT ![x] = ok]
        /\ fin' = [fin EXCEPT ![f] = [pc |-> "post", req |-> fin[f].req, ref |-> x]]
  BY DEF CreateDisbursement, Issued
<1>1. fin[f].pc = "create" /\ UNCHANGED <<status, payout, legs, hook>>
  BY DEF CreateDisbursement
<1>2. \A h \in HookTasks : hook[h].ref # x
  BY <1>0 DEF HookStage, PayoutIInv, HookInv, Settling, HookStep
<1>3. Barred'
  <2>. SUFFICES ASSUME NEW y \in Issued', y # x PROVE Returned(y)' \/ status'[owner'[y]] \in {"DISBURSING", "PAID"}
    BY <1>0 DEF Barred, BeingStarted
  <2>1. y \in Issued /\ owner'[y] = owner[y] /\ outcome'[y] = outcome[y]
    BY <1>0 DEF Issued
  <2>2. ~BeingStarted(y)
    BY <1>1, <2>1 DEF BeingStarted, FinStage, Issued
  <2>. QED BY <1>1, <2>1, <2>2 DEF Barred, Returned
<1>4. OneOpen'
  BY <1>0, <1>1 DEF OneOpen, Returned, FinStage, PayoutsOf, Issued
<1>5. Untouched'
  BY <1>0, <1>1 DEF Untouched, PayoutsOf, FinStage
<1>6. FinStage'
  BY <1>0, <1>1 DEF FinStage, PayoutsOf, Returned
<1>7. HookStage'
  <2>1. \A h \in HookTasks : outcome'[hook[h].ref] = outcome[hook[h].ref]
    BY <1>0, <1>2
  <2>2. \A y \in Refs : Terminal(y) => outcome'[y] = outcome[y]
    BY <1>0 DEF Terminal
  <2>. QED BY <1>1, <2>1, <2>2 DEF HookStage, Terminal
<1>. QED BY <1>3, <1>4, <1>5, <1>6, <1>7

LEMMA PostStartPays ==
  ASSUME OneFinance, PayoutIInv, PayInv, NEW f \in FinTasks, PostStart(f)
  PROVE  PayInv'
<1>. USE RowsAssumption, Rows DEF PayInv, OneFinance, PostStart, Issued, IdleFin, IdleHook
<1>1. Barred'
  BY DEF Barred, Returned, BeingStarted, FinStage, Untouched, PayoutsOf
<1>2. OneOpen'
  BY DEF OneOpen, Returned, FinStage, PayoutsOf
<1>3. Untouched'
  BY DEF Untouched, PayoutsOf, FinStage
<1>4. FinStage'
  BY DEF FinStage, Untouched, PayoutsOf, Returned, Barred, BeingStarted
<1>5. HookStage'
  BY DEF HookStage, Terminal
<1>. QED BY <1>1, <1>2, <1>3, <1>4, <1>5

LEMMA CreatePayoutPays ==
  ASSUME OneFinance, PayoutIInv, PayInv, NEW f \in FinTasks, CreatePayout(f)
  PROVE  PayInv'
<1>. USE RowsAssumption, Rows DEF PayInv, OneFinance, CreatePayout, Issued, IdleFin, IdleHook
<1>1. Barred'
  BY DEF Barred, Returned, BeingStarted, FinStage, Untouched, PayoutsOf
<1>2. OneOpen'
  BY DEF OneOpen, Returned, FinStage, PayoutsOf
<1>3. Untouched'
  BY DEF Untouched, PayoutsOf, FinStage
<1>4. FinStage'
  BY DEF FinStage, Untouched, PayoutsOf, Returned, Barred, BeingStarted
<1>5. HookStage'
  BY DEF HookStage, Terminal
<1>. QED BY <1>1, <1>2, <1>3, <1>4, <1>5

LEMMA MarkDisbursingPays ==
  ASSUME OneFinance, PayoutIInv, PayInv, NEW f \in FinTasks, MarkDisbursing(f)
  PROVE  PayInv'
<1>. USE RowsAssumption, Rows DEF PayInv, OneFinance, MarkDisbursing, Issued, IdleFin, IdleHook
<1>1. Barred'
  BY DEF Barred, Returned, BeingStarted, FinStage, Untouched, PayoutsOf
<1>2. OneOpen'
  BY DEF OneOpen, Returned, FinStage, PayoutsOf
<1>3. Untouched'
  BY DEF Untouched, PayoutsOf, FinStage
<1>4. FinStage'
  BY DEF FinStage, Untouched, PayoutsOf, Returned, Barred, BeingStarted
<1>5. HookStage'
  BY DEF HookStage, Terminal
<1>. QED BY <1>1, <1>2, <1>3, <1>4, <1>5

LEMMA SettleFlipPays ==
  ASSUME OneFinance, PayoutIInv, PayInv, NEW h \in HookTasks, NEW x \in Refs, SettleFlip(h, x)
  PROVE  PayInv'
<1>. USE RowsAssumption, Rows DEF PayInv, OneFinance
<1>1. /\ hook[h].pc = "idle" /\ payout[x] = "PENDING" /\ x \in Issued
      /\ payout' = [payout EXCEPT ![x] = IF outcome[x] THEN "SETTLED" ELSE "FAILED"]
      /\ hook' = [hook EXCEPT ![h] = [pc |-> "post", ref |-> x]]
      /\ UNCHANGED <<status, owner, outcome, legs, fin>>
  BY DEF SettleFlip, Arrives
<1>2. hook[h].ref = NoRef
  BY <1>1 DEF HookStage
<1>3. Issued' = Issued /\ \A y \in Refs \ {x} :
        payout'[y] = payout[y] /\ (BeingStarted(y)' <=> BeingStarted(y))
  BY <1>1 DEF Issued, BeingStarted
<1>4. \A y \in Refs : Returned(y) => y # x /\ Returned(y)'
  BY <1>1, <1>2, <1>3 DEF Returned
<1>5. Barred'
  BY <1>1, <1>4 DEF Barred, BeingStarted, Issued
<1>6. OneOpen'
  BY <1>1, <1>3, <1>4 DEF OneOpen, Issued
<1>7. Untouched'
  BY <1>1 DEF Untouched, PayoutsOf
<1>8. FinStage'
  BY <1>1, <1>3, <1>4 DEF FinStage, PayoutsOf
<1>9. HookStage'
  BY <1>1 DEF HookStage, Terminal, PayoutStatus
<1>. QED BY <1>5, <1>6, <1>7, <1>8, <1>9

LEMMA SettlePostPays ==
  ASSUME OneFinance, PayoutIInv, PayInv, NEW h \in HookTasks, SettlePost(h)
  PROVE  PayInv'
<1>. USE RowsAssumption, Rows DEF PayInv, OneFinance, Issued
<1>. DEFINE x == hook[h].ref
<1>0. /\ x \in Refs /\ legs[x].expense = 0 /\ legs[x].refund = 0
      /\ \A k \in HookTasks \ {h} : Settling(k) => hook[k].ref # x
  BY DEF SettlePost, PayoutIInv, HookInv, Settling
<1>1. Barred'
  BY DEF SettlePost, Barred, Returned, BeingStarted
<1>2. OneOpen'
  BY DEF SettlePost, OneOpen, Returned
<1>3. Untouched'
  BY DEF SettlePost, Untouched, PayoutsOf
<1>4. FinStage'
  BY DEF SettlePost, FinStage, PayoutsOf, Returned
<1>5. HookStage'
  <2>1. /\ hook[h].pc = "post" /\ hook' = [hook EXCEPT ![h].pc = "mark"]
        /\ UNCHANGED <<outcome, payout>>
        /\ \A y \in Refs \ {x} : legs'[y] = legs[y]
        /\ ~outcome[x] => legs'[x].refund = 1
    BY <1>0 DEF SettlePost
  <2>2. ASSUME NEW k \in HookTasks, hook'[k].pc = "mark", ~outcome[hook'[k].ref]
        PROVE  legs'[hook'[k].ref].refund = 1
    <3>1. CASE k = h  BY <2>1, <2>2, <3>1
    <3>2. CASE k # h
      <4>1. hook'[k] = hook[k] /\ Settling(k) /\ hook[k].ref # x
        BY <1>0, <2>1, <2>2, <3>2 DEF Settling
      <4>2. hook[k].ref \in Refs
        BY <4>1 DEF PayoutIInv, HookInv
      <4>. QED BY <2>1, <2>2, <4>1, <4>2 DEF HookStage
    <3>. QED BY <3>1, <3>2
  <2>3. \A k \in HookTasks : hook'[k].pc = "idle" <=> hook'[k].ref = NoRef
    BY <1>0, <2>1 DEF HookStage
  <2>. QED BY <2>1, <2>2, <2>3 DEF HookStage, Terminal
<1>. QED BY <1>1, <1>2, <1>3, <1>4, <1>5

LEMMA SettleMarkPays ==
  ASSUME OneFinance, PayoutIInv, PayInv, NEW h \in HookTasks, SettleMark(h)
  PROVE  PayInv'
<1>. USE RowsAssumption, Rows DEF PayInv, OneFinance
<1>0. PICK x \in Refs : x = hook[h].ref
  BY DEF SettleMark, PayoutIInv, HookInv, Settling
<1>. DEFINE r == owner[x]
<1>1. /\ hook[h].pc = "mark"
      /\ status' = [status EXCEPT ![r] = IF outcome[x] THEN "PAID" ELSE "FAILED"]
      /\ hook' = [hook EXCEPT ![h] = IdleHook]
      /\ UNCHANGED <<owner, outcome, payout, legs, fin>>
  BY <1>0 DEF SettleMark
<1>2. /\ x \in Refs /\ r \in Requests /\ Terminal(x) /\ x \in Issued
      /\ outcome[x] => legs[x].expense = 1
      /\ \A k \in HookTasks \ {h} : hook[k].ref # x
  BY <1>0, <1>1 DEF PayoutIInv, HookInv, Settling, HookStage, Issued, HookStep
<1>3. ~Returned(x)
  BY <1>0 DEF Returned
<1>4. \A y \in Refs : Returned(y) => Returned(y)'
  BY <1>1 DEF Returned, IdleHook
<1>5. Issued' = Issued
  BY <1>1 DEF Issued
<1>6. Barred'
  <2>1. ASSUME ~outcome[x] PROVE Returned(x)'
    <3>1. legs[x].refund = 1 /\ legs[x].start = 1 /\ legs[x].expense = 0 /\ payout[x] = "FAILED"
      BY <1>0, <1>1, <1>2, <2>1 DEF HookStage, Terminal, PayoutIInv, RefInv
    <3>. QED BY <1>0, <1>1, <1>2, <2>1, <3>1 DEF Returned, IdleHook
  <2>2. ASSUME outcome[x] PROVE status'[r] = "PAID"
    BY <1>1, <1>2, <2>2
  <2>3. ASSUME NEW y \in Issued, y # x
        PROVE  Returned(y)' \/ BeingStarted(y)' \/ status'[owner[y]] \in {"DISBURSING", "PAID"}
    <3>1. CASE owner[y] = r
      BY <1>2, <1>3, <1>4, <2>3, <3>1 DEF OneOpen, Issued
    <3>2. CASE owner[y] # r
      BY <1>1, <1>4, <2>3, <3>2 DEF Barred, BeingStarted, Issued
    <3>. QED BY <3>1, <3>2
  <2>. QED BY <1>1, <1>5, <2>1, <2>2, <2>3 DEF Barred
<1>7. OneOpen'
  BY <1>1, <1>4, <1>5 DEF OneOpen, Issued
<1>8. Untouched'
  BY <1>1, <1>2 DEF Untouched, PayoutsOf
<1>9. FinStage'
  <2>1. \A g \in FinTasks : fin[g].pc \in {"approve", "reject", "create"} => fin[g].req # r
    BY <1>2, <1>3 DEF FinStage, Untouched, PayoutsOf
  <2>. QED BY <1>1, <1>2, <1>4, <2>1 DEF FinStage, PayoutsOf
<1>10. HookStage'
  BY <1>1 DEF HookStage, Terminal, IdleHook
<1>. QED BY <1>6, <1>7, <1>8, <1>9, <1>10

LEMMA InitPays == ASSUME PayoutInit PROVE PayInv
BY RowsAssumption
   DEF PayoutInit, PayInv, Barred, OneOpen, Untouched, PayoutsOf, FinStage, HookStage, Terminal,
       Issued, IdleFin, IdleHook

\* The invariant of one Finance handler is kept by every step.
LEMMA NextPays ==
  ASSUME OneFinance, PayoutIInv, PayInv, [PayoutNext]_payoutVars
  PROVE  PayInv'
<1>1. ASSUME UNCHANGED <<status, owner, outcome, payout, legs, fin, hook>> PROVE PayInv'
  BY <1>1 DEF PayInv, Barred, BeingStarted, Returned, OneOpen, Untouched,
              PayoutsOf, FinStage, HookStage, Terminal, Issued
<1>2. ASSUME NEW f \in FinTasks, NEW r \in Requests,
             ReadForDecision(f, r) \/ ReadForRetry(f, r)
      PROVE  PayInv'
  BY <1>2, ReadForDecisionPays, ReadForRetryPays
<1>3. ASSUME NEW f \in FinTasks, FinStepOf(f) PROVE PayInv'
  BY <1>3, RejectPays, ApprovePays, CreateDisbursementPays, PostStartPays,
     CreatePayoutPays, MarkDisbursingPays DEF FinStepOf
<1>4. ASSUME NEW h \in HookTasks, HookStepOf(h) PROVE PayInv'
  BY <1>4, SettlePostPays, SettleMarkPays DEF HookStepOf
<1>5. ASSUME NEW h \in HookTasks, NEW x \in Refs, SettleFlip(h, x) PROVE PayInv'
  BY <1>5, SettleFlipPays
<1>6. ASSUME NEW h \in HookTasks, NEW x \in Refs, SettleIgnored(h, x) PROVE PayInv'
  BY <1>1, <1>6 DEF SettleIgnored
<1>7. CASE ReconReadClearing \/ ReconFinish
  BY <1>1, <1>7 DEF ReconReadClearing, ReconFinish
<1>8. CASE UNCHANGED payoutVars
  BY <1>1, <1>8 DEF payoutVars
<1>9. /\ \A f \in FinTasks : ~FinDies(f)
      /\ \A h \in HookTasks : ~HookDies(h)
  BY DEF OneFinance, FinDies, HookDies
<1>. QED BY <1>2, <1>3, <1>4, <1>5, <1>6, <1>7, <1>8, <1>9 DEF PayoutNext, Notify

\* What a request has out is what did not come back, so at most one payout.
THEOREM AtMostOneLive == ASSUME OneFinance PROVE PayoutSpec => []OneLivePayout
<1>1. ASSUME PayoutIInv, PayInv PROVE OneLivePayout
  <2>. SUFFICES ASSUME NEW r \in Requests PROVE Cardinality(LivePayouts(r)) <= 1
    BY DEF OneLivePayout
  <2>1. \A x \in LivePayouts(r) : x \in Issued /\ owner[x] = r /\ ~Returned(x)
    BY <1>1, RowsAssumption DEF LivePayouts, Issued, Returned
  <2>2. \A x, y \in LivePayouts(r) : x = y
    BY <1>1, <2>1 DEF PayInv, OneOpen
  <2>3. CASE LivePayouts(r) = {}
    BY <2>3, FS_EmptySet
  <2>4. ASSUME NEW x \in LivePayouts(r) PROVE Cardinality(LivePayouts(r)) <= 1
    <3>1. LivePayouts(r) = {x}
      BY <2>2, <2>4
    <3>2. Cardinality({x}) = 1
      BY FS_Singleton
    <3>. QED BY <3>1, <3>2
  <2>. QED BY <2>3, <2>4
<1>2. PayoutIInv /\ PayInv => OneLivePayout
  BY <1>1
<1>3. PayoutInit => PayoutIInv /\ PayInv
  BY InitIInv, InitPays
<1>4. PayoutIInv /\ PayInv /\ [PayoutNext]_payoutVars => (PayoutIInv /\ PayInv)'
  BY NextIInv, NextPays
<1>. QED BY <1>2, <1>3, <1>4, PTL DEF PayoutSpec

-----------------------------------------------------------------------------
(* The lifecycle: besides, notifications arrive only after the handler that *)
(* started the payout returned.                                             *)

OneAtATime == Slow /\ OneFinance

\* Where a payout that did not come back stands, and its request with it.
BeingSettled(x) == \E h \in HookTasks : hook[h].ref = x

Stage(x) ==
    \/ BeingStarted(x) /\ ~BeingSettled(x)
    \/ payout[x] = "PENDING" /\ ~BeingSettled(x) /\ status[owner[x]] = "DISBURSING"
    \/ BeingSettled(x) /\ status[owner[x]] = "DISBURSING"
    \/ ~BeingSettled(x) /\ legs[x].expense = 1 /\ status[owner[x]] = "PAID"

Staged == \A x \in Issued : Returned(x) \/ Stage(x)

\* Nothing overtook the handler that is starting a payout.
NotOvertaken ==
    \A f \in FinTasks :
        /\ fin[f].pc \in {"post", "payout", "mark"} => status[fin[f].req] \in {"APPROVED", "FAILED"}
        /\ fin[f].pc = "mark" => payout[fin[f].ref] = "PENDING"

LifeInv == PayInv /\ Staged /\ NotOvertaken

LEMMA ReadForDecisionStages ==
  ASSUME OneAtATime, PayoutIInv, LifeInv, NEW f \in FinTasks, NEW r \in Requests, ReadForDecision(f, r)
  PROVE  LifeInv'
<1>. USE RowsAssumption, Rows DEF LifeInv, PayInv, OneAtATime, OneFinance, ReadForDecision, Issued, IdleFin, IdleHook
<1>1. Staged'
  BY DEF Staged, Stage, Returned, BeingStarted, BeingSettled, FinStage, NotOvertaken, Untouched
<1>2. NotOvertaken'
  BY DEF NotOvertaken, FinStage
<1>. QED BY ONLY <1>1, <1>2, ReadForDecisionPays, OneAtATime, PayoutIInv, LifeInv, ReadForDecision(f, r) DEF LifeInv, OneAtATime

LEMMA ReadForRetryStages ==
  ASSUME OneAtATime, PayoutIInv, LifeInv, NEW f \in FinTasks, NEW r \in Requests, ReadForRetry(f, r)
  PROVE  LifeInv'
<1>. USE RowsAssumption, Rows DEF LifeInv, PayInv, OneAtATime, OneFinance, ReadForRetry, Issued, IdleFin, IdleHook
<1>1. Staged'
  BY DEF Staged, Stage, Returned, BeingStarted, BeingSettled, FinStage, NotOvertaken, Untouched
<1>2. NotOvertaken'
  BY DEF NotOvertaken, FinStage
<1>. QED BY ONLY <1>1, <1>2, ReadForRetryPays, OneAtATime, PayoutIInv, LifeInv, ReadForRetry(f, r) DEF LifeInv, OneAtATime

LEMMA RejectStages ==
  ASSUME OneAtATime, PayoutIInv, LifeInv, NEW f \in FinTasks, Reject(f)
  PROVE  LifeInv'
<1>. USE RowsAssumption, Rows DEF LifeInv, PayInv, OneAtATime, OneFinance, Reject, Issued, IdleFin, IdleHook
<1>1. Staged'
  BY DEF Staged, Stage, Returned, BeingStarted, BeingSettled, FinStage, NotOvertaken, Untouched
<1>2. NotOvertaken'
  BY DEF NotOvertaken, FinStage
<1>. QED BY ONLY <1>1, <1>2, RejectPays, OneAtATime, PayoutIInv, LifeInv, Reject(f) DEF LifeInv, OneAtATime

LEMMA ApproveStages ==
  ASSUME OneAtATime, PayoutIInv, LifeInv, NEW f \in FinTasks, Approve(f)
  PROVE  LifeInv'
<1>. USE RowsAssumption, Rows DEF LifeInv, PayInv, OneAtATime, OneFinance, Approve, Issued, IdleFin, IdleHook
<1>1. Staged'
  BY DEF Staged, Stage, Returned, BeingStarted, BeingSettled, FinStage, NotOvertaken, Untouched
<1>2. NotOvertaken'
  BY DEF NotOvertaken, FinStage
<1>. QED BY ONLY <1>1, <1>2, ApprovePays, OneAtATime, PayoutIInv, LifeInv, Approve(f) DEF LifeInv, OneAtATime

LEMMA CreateDisbursementStages ==
  ASSUME OneAtATime, PayoutIInv, LifeInv, NEW f \in FinTasks, CreateDisbursement(f)
  PROVE  LifeInv'
<1>. USE RowsAssumption, Rows DEF LifeInv, OneAtATime, OneFinance, PayInv
<1>0. PICK x \in Refs, ok \in BOOLEAN :
        /\ owner[x] = NoReq
        /\ owner' = [owner EXCEPT ![x] = fin[f].req]
        /\ outcome' = [outcome EXCEPT ![x] = ok]
        /\ fin' = [fin EXCEPT ![f] = [pc |-> "post", req |-> fin[f].req, ref |-> x]]
  BY DEF CreateDisbursement, Issued
<1>1. fin[f].pc = "create" /\ UNCHANGED <<status, payout, legs, hook>>
  BY DEF CreateDisbursement
<1>2. \A h \in HookTasks : hook[h].ref # x
  BY <1>0 DEF HookStage, PayoutIInv, HookInv, Settling, HookStep
<1>3. Staged'
  <2>. SUFFICES ASSUME NEW y \in Issued' PROVE Returned(y)' \/ Stage(y)'
    BY DEF Staged
  <2>1. CASE y = x
    BY <1>0, <1>1, <1>2, <2>1 DEF Stage, BeingStarted, BeingSettled
  <2>2. CASE y # x
    <3>1. y \in Issued /\ owner'[y] = owner[y] /\ outcome'[y] = outcome[y]
      BY <1>0, <2>2 DEF Issued
    <3>2. ~BeingStarted(y)
      BY <1>1, <3>1 DEF BeingStarted, FinStage, Issued
    <3>. QED BY <1>1, <3>1, <3>2 DEF Staged, Stage, Returned, BeingSettled
  <2>. QED BY <2>1, <2>2
<1>4. NotOvertaken'
  BY <1>0, <1>1 DEF NotOvertaken, FinStage
<1>. QED BY <1>3, <1>4, CreateDisbursementPays

LEMMA PostStartStages ==
  ASSUME OneAtATime, PayoutIInv, LifeInv, NEW f \in FinTasks, PostStart(f)
  PROVE  LifeInv'
<1>. USE RowsAssumption, Rows DEF LifeInv, PayInv, OneAtATime, OneFinance, PostStart, Issued, IdleFin, IdleHook
<1>1. Staged'
  BY DEF Staged, Stage, Returned, BeingStarted, BeingSettled, FinStage, NotOvertaken, Untouched
<1>2. NotOvertaken'
  BY DEF NotOvertaken, FinStage
<1>. QED BY ONLY <1>1, <1>2, PostStartPays, OneAtATime, PayoutIInv, LifeInv, PostStart(f) DEF LifeInv, OneAtATime

LEMMA CreatePayoutStages ==
  ASSUME OneAtATime, PayoutIInv, LifeInv, NEW f \in FinTasks, CreatePayout(f)
  PROVE  LifeInv'
<1>. USE RowsAssumption, Rows DEF LifeInv, PayInv, OneAtATime, OneFinance, CreatePayout, Issued, IdleFin, IdleHook
<1>1. Staged'
  BY DEF Staged, Stage, Returned, BeingStarted, BeingSettled, FinStage, NotOvertaken, Untouched
<1>2. NotOvertaken'
  BY DEF NotOvertaken, FinStage
<1>. QED BY ONLY <1>1, <1>2, CreatePayoutPays, OneAtATime, PayoutIInv, LifeInv, CreatePayout(f) DEF LifeInv, OneAtATime

LEMMA MarkDisbursingStages ==
  ASSUME OneAtATime, PayoutIInv, LifeInv, NEW f \in FinTasks, MarkDisbursing(f)
  PROVE  LifeInv'
<1>. USE RowsAssumption, Rows DEF LifeInv, PayInv, OneAtATime, OneFinance, MarkDisbursing, Issued, IdleFin, IdleHook
<1>1. Staged'
  BY DEF Staged, Stage, Returned, BeingStarted, BeingSettled, FinStage, NotOvertaken, Untouched
<1>2. NotOvertaken'
  BY DEF NotOvertaken, FinStage
<1>. QED BY ONLY <1>1, <1>2, MarkDisbursingPays, OneAtATime, PayoutIInv, LifeInv, MarkDisbursing(f) DEF LifeInv, OneAtATime

LEMMA SettleFlipStages ==
  ASSUME OneAtATime, PayoutIInv, LifeInv, NEW h \in HookTasks, NEW x \in Refs, SettleFlip(h, x)
  PROVE  LifeInv'
<1>. USE RowsAssumption, Rows DEF LifeInv, PayInv, OneAtATime, OneFinance
<1>1. /\ hook[h].pc = "idle" /\ payout[x] = "PENDING" /\ x \in Issued
      /\ \A f \in FinTasks : fin[f].ref # x
      /\ payout' = [payout EXCEPT ![x] = IF outcome[x] THEN "SETTLED" ELSE "FAILED"]
      /\ hook' = [hook EXCEPT ![h] = [pc |-> "post", ref |-> x]]
      /\ UNCHANGED <<status, owner, outcome, legs, fin>>
  BY DEF SettleFlip, Arrives
<1>2. hook[h].ref = NoRef
  BY <1>1 DEF HookStage
<1>3. status[owner[x]] = "DISBURSING"
  BY <1>1 DEF Staged, Stage, Returned, BeingStarted, PayoutIInv, RefInv, Terminal
<1>4. Issued' = Issued /\ \A y \in Refs \ {x} :
        payout'[y] = payout[y] /\ (BeingSettled(y)' <=> BeingSettled(y)) /\ (BeingStarted(y)' <=> BeingStarted(y))
  BY <1>1, <1>2 DEF Issued, BeingSettled, BeingStarted
<1>5. \A y \in Refs : Returned(y) => y # x /\ Returned(y)'
  BY <1>1, <1>4 DEF Returned
<1>6. Staged'
  <2>1. Stage(x)'
    BY <1>1, <1>3 DEF Stage, BeingSettled
  <2>2. ASSUME NEW y \in Issued, y # x PROVE Returned(y)' \/ Stage(y)'
    <3>1. y \in Refs \ {x}
      BY <2>2 DEF Issued
    <3>2. CASE Returned(y)
      BY <1>5, <3>1, <3>2
    <3>3. CASE Stage(y)
      BY <1>1, <1>4, <3>1, <3>3 DEF Stage
    <3>. QED BY <2>2, <3>2, <3>3 DEF Staged
  <2>. QED BY <1>4, <2>1, <2>2 DEF Staged
<1>7. NotOvertaken'
  BY <1>1, <1>4 DEF NotOvertaken, FinStage
<1>. QED BY <1>6, <1>7, SettleFlipPays

LEMMA SettlePostStages ==
  ASSUME OneAtATime, PayoutIInv, LifeInv, NEW h \in HookTasks, SettlePost(h)
  PROVE  LifeInv'
<1>. USE RowsAssumption, Rows DEF LifeInv, OneAtATime, Issued
<1>1. Staged'
  BY DEF SettlePost, Staged, Stage, Returned, BeingStarted, BeingSettled
<1>2. NotOvertaken'
  BY DEF SettlePost, NotOvertaken
<1>. QED BY <1>1, <1>2, SettlePostPays

LEMMA SettleMarkStages ==
  ASSUME OneAtATime, PayoutIInv, LifeInv, NEW h \in HookTasks, SettleMark(h)
  PROVE  LifeInv'
<1>. USE RowsAssumption, Rows DEF LifeInv, PayInv, OneAtATime, OneFinance
<1>0. PICK x \in Refs : x = hook[h].ref
  BY DEF SettleMark, PayoutIInv, HookInv, Settling
<1>. DEFINE r == owner[x]
<1>1. /\ hook[h].pc = "mark"
      /\ status' = [status EXCEPT ![r] = IF outcome[x] THEN "PAID" ELSE "FAILED"]
      /\ hook' = [hook EXCEPT ![h] = IdleHook]
      /\ UNCHANGED <<owner, outcome, payout, legs, fin>>
  BY <1>0 DEF SettleMark
<1>2. /\ x \in Refs /\ r \in Requests /\ Terminal(x) /\ x \in Issued
      /\ outcome[x] => legs[x].expense = 1
      /\ \A k \in HookTasks \ {h} : hook[k].ref # x
  BY <1>0, <1>1 DEF PayoutIInv, HookInv, Settling, HookStage, Issued, HookStep
<1>3. ~Returned(x) /\ status[r] = "DISBURSING"
  <2>1. BeingSettled(x) /\ ~Returned(x)
    BY <1>0, <1>1, <1>2 DEF BeingSettled, Returned
  <2>. QED BY <1>2, <2>1 DEF Staged, Stage
<1>4. \A y \in Refs \ {x} :
        (BeingSettled(y)' <=> BeingSettled(y)) /\ (BeingStarted(y)' <=> BeingStarted(y))
  BY <1>0, <1>1 DEF BeingSettled, BeingStarted, IdleHook
<1>5. \A y \in Refs : Returned(y) => Returned(y)'
  BY <1>1 DEF Returned, IdleHook
<1>6. ~BeingSettled(x)'
  BY <1>0, <1>1, <1>2 DEF BeingSettled, IdleHook
<1>7. Issued' = Issued
  BY <1>1 DEF Issued
<1>8. Staged'
  <2>1. ASSUME outcome[x] PROVE Stage(x)'
    BY <1>1, <1>2, <1>6, <2>1 DEF Stage
  <2>2. ASSUME ~outcome[x] PROVE Returned(x)'
    <3>1. legs[x].refund = 1 /\ legs[x].start = 1 /\ legs[x].expense = 0 /\ payout[x] = "FAILED"
      BY <1>0, <1>1, <1>2, <2>2 DEF HookStage, Terminal, PayoutIInv, RefInv
    <3>. QED BY <1>1, <1>6, <2>2, <3>1 DEF Returned, BeingSettled
  <2>3. ASSUME NEW y \in Issued, y # x PROVE Returned(y)' \/ Stage(y)'
    <3>1. y \in Refs \ {x}
      BY <2>3 DEF Issued
    <3>2. CASE Returned(y)
      BY <1>5, <3>1, <3>2
    <3>3. CASE ~Returned(y)
      <4>1. owner[y] # r
        BY <1>2, <1>3, <2>3, <3>3 DEF OneOpen
      <4>2. Stage(y) /\ status'[owner[y]] = status[owner[y]]
        BY <1>1, <3>3, <4>1 DEF Staged
      <4>. QED BY <1>1, <1>4, <3>1, <4>2 DEF Stage
    <3>. QED BY <3>2, <3>3
  <2>. QED BY <1>2, <1>7, <2>1, <2>2, <2>3 DEF Staged
<1>9. NotOvertaken'
  BY <1>1, <1>2, <1>3 DEF NotOvertaken
<1>. QED BY <1>8, <1>9, SettleMarkPays

\* The lifecycle's invariant holds for as long as the three hypotheses do.
LEMMA LifeInvariance == ASSUME OneAtATime PROVE PayoutSpec => [](PayoutIInv /\ LifeInv)
<1>1. PayoutInit => PayoutIInv /\ LifeInv
  <2>. SUFFICES ASSUME PayoutInit PROVE LifeInv
    BY InitIInv
  <2>1. PayInv
    BY InitPays
  <2>. QED BY <2>1, RowsAssumption DEF PayoutInit, LifeInv, Staged, NotOvertaken, Issued, IdleFin
<1>2. PayoutIInv /\ LifeInv /\ [PayoutNext]_payoutVars => (PayoutIInv /\ LifeInv)'
  <2>. SUFFICES ASSUME PayoutIInv, LifeInv, [PayoutNext]_payoutVars PROVE LifeInv'
    BY NextIInv
  <2>. USE OneAtATime
  <2>1. ASSUME UNCHANGED <<status, owner, outcome, payout, legs, fin, hook>> PROVE LifeInv'
    <3>1. PayInv'
      BY NextPays DEF LifeInv, OneAtATime
    <3>. QED BY <2>1, <3>1 DEF LifeInv, Staged, Stage, BeingStarted, BeingSettled, Returned,
                               NotOvertaken, Issued
  <2>2. ASSUME NEW f \in FinTasks, NEW r \in Requests,
               ReadForDecision(f, r) \/ ReadForRetry(f, r)
        PROVE  LifeInv'
    BY <2>2, ReadForDecisionStages, ReadForRetryStages
  <2>3. ASSUME NEW f \in FinTasks, FinStepOf(f) PROVE LifeInv'
    BY <2>3, RejectStages, ApproveStages, CreateDisbursementStages, PostStartStages,
       CreatePayoutStages, MarkDisbursingStages DEF FinStepOf
  <2>4. ASSUME NEW h \in HookTasks, HookStepOf(h) PROVE LifeInv'
    BY <2>4, SettlePostStages, SettleMarkStages DEF HookStepOf
  <2>5. ASSUME NEW h \in HookTasks, NEW x \in Refs, SettleFlip(h, x) PROVE LifeInv'
    BY <2>5, SettleFlipStages
  <2>6. ASSUME NEW h \in HookTasks, NEW x \in Refs, SettleIgnored(h, x) PROVE LifeInv'
    BY <2>1, <2>6 DEF SettleIgnored
  <2>7. CASE ReconReadClearing \/ ReconFinish
    BY <2>1, <2>7 DEF ReconReadClearing, ReconFinish
  <2>8. CASE UNCHANGED payoutVars
    BY <2>1, <2>8 DEF payoutVars
  <2>9. /\ \A f \in FinTasks : ~FinDies(f)
        /\ \A h \in HookTasks : ~HookDies(h)
    BY DEF OneAtATime, OneFinance, FinDies, HookDies
  <2>. QED BY <2>2, <2>3, <2>4, <2>5, <2>6, <2>7, <2>8, <2>9 DEF PayoutNext, Notify
<1>. QED BY <1>1, <1>2, PTL DEF PayoutSpec

-----------------------------------------------------------------------------
(* Under the same hypotheses the handlers implement PayoutLifecycle.       *)

Held == [r \in Requests |-> {x \in Refs : owner[x] = r /\ InClearing(x) > 0}]
Spent == [r \in Requests |-> {x \in Refs : owner[x] = r /\ legs[x].expense > 0}]
GivenBack == [r \in Requests |-> {x \in Refs : owner[x] = r /\ legs[x].refund > 0}]

Same == UNCHANGED <<status, Held, Spent, GivenBack>>

LEMMA Stuttering == ASSUME Same PROVE UNCHANGED Life!vars
BY DEF Same, Held, Spent, GivenBack, Life!vars

LEMMA LegTypes ==
  ASSUME PayoutIInv
  PROVE  \A x \in Refs :
           /\ legs[x].start \in 0 .. 1 /\ legs[x].expense \in 0 .. 1 /\ legs[x].refund \in 0 .. 1
           /\ InClearing(x) \in 0 .. 1 /\ legs[x].start = InClearing(x) + legs[x].expense + legs[x].refund
<1>. SUFFICES ASSUME NEW x \in Refs
              PROVE  /\ legs[x].start \in 0 .. 1 /\ legs[x].expense \in 0 .. 1
                     /\ legs[x].refund \in 0 .. 1 /\ InClearing(x) \in 0 .. 1
                     /\ legs[x].start = InClearing(x) + legs[x].expense + legs[x].refund
  OBVIOUS
<1>1. legs[x].start \in Nat /\ legs[x].expense \in Nat /\ legs[x].refund \in Nat
  BY DEF PayoutIInv, PayoutRowTypes
<1>2. legs[x].start <= 1 /\ legs[x].expense + legs[x].refund <= 1
  BY DEF PayoutIInv, RefInv
<1>3. InClearing(x) \in 0 .. 1
  BY OneUnit
<1>4. legs[x].expense \in 0 .. 1 /\ legs[x].refund \in 0 .. 1 /\ legs[x].start \in 0 .. 1
  BY <1>1, <1>2
<1>5. legs[x].start = InClearing(x) + legs[x].expense + legs[x].refund
  BY <1>1 DEF InClearing
<1>. QED BY <1>3, <1>4, <1>5

\* All that a request has in clearing or expensed is its one open payout.
LEMMA OpenAlone ==
  ASSUME PayoutIInv, LifeInv, NEW x \in Issued, ~Returned(x), NEW r \in Requests, owner[x] = r
  PROVE  /\ Held[r] = IF InClearing(x) > 0 THEN {x} ELSE {}
         /\ Spent[r] = IF legs[x].expense > 0 THEN {x} ELSE {}
<1>1. \A y \in Refs : owner[y] = r /\ y # x => Returned(y)
  BY RowsAssumption DEF LifeInv, PayInv, OneOpen, Issued
<1>2. \A y \in Refs : Returned(y) => ~(InClearing(y) > 0) /\ ~(legs[y].expense > 0)
  BY DEF Returned, InClearing
<1>. QED BY <1>1, <1>2 DEF Held, Spent, Issued

LEMMA PayoutSets ==
  /\ Held \in [Requests -> SUBSET Refs] /\ Held' \in [Requests -> SUBSET Refs]
  /\ Spent \in [Requests -> SUBSET Refs] /\ Spent' \in [Requests -> SUBSET Refs]
  /\ GivenBack \in [Requests -> SUBSET Refs] /\ GivenBack' \in [Requests -> SUBSET Refs]
BY DEF Held, Spent, GivenBack

\* A leg posted for x is seen in the money of its request only.
With(S, x, in) == IF in THEN S \cup {x} ELSE S \ {x}

LEMMA LegPosted ==
  ASSUME NEW x \in Refs, NEW r \in Requests, owner[x] = r, owner' = owner,
         \A y \in Refs \ {x} : legs'[y] = legs[y]
  PROVE  /\ Held' = [Held EXCEPT ![r] = With(@, x, InClearing(x)' > 0)]
         /\ Spent' = [Spent EXCEPT ![r] = With(@, x, legs'[x].expense > 0)]
         /\ GivenBack' = [GivenBack EXCEPT ![r] = With(@, x, legs'[x].refund > 0)]
<1>. USE DEF With
<1>1. Held' = [Held EXCEPT ![r] = With(@, x, InClearing(x)' > 0)]
  <2>1. \A y \in Refs \ {x} : InClearing(y)' = InClearing(y)
    BY DEF InClearing
  <2>2. ASSUME NEW q \in Requests
        PROVE  Held'[q] = IF q = r THEN With(Held[r], x, InClearing(x)' > 0) ELSE Held[q]
    BY <2>1 DEF Held
  <2>. QED BY <2>2, PayoutSets
<1>2. Spent' = [Spent EXCEPT ![r] = With(@, x, legs'[x].expense > 0)]
  <2>1. ASSUME NEW q \in Requests
        PROVE  Spent'[q] = IF q = r THEN With(Spent[r], x, legs'[x].expense > 0) ELSE Spent[q]
    BY DEF Spent
  <2>. QED BY <2>1, PayoutSets
<1>3. GivenBack' = [GivenBack EXCEPT ![r] = With(@, x, legs'[x].refund > 0)]
  <2>1. ASSUME NEW q \in Requests
        PROVE  GivenBack'[q] = IF q = r THEN With(GivenBack[r], x, legs'[x].refund > 0)
                               ELSE GivenBack[q]
    BY DEF GivenBack
  <2>. QED BY <2>1, PayoutSets
<1>. QED BY <1>1, <1>2, <1>3

LEMMA DecideRefines ==
  ASSUME PayoutIInv, LifeInv, NEW f \in FinTasks, Reject(f) \/ Approve(f)
  PROVE  Life!Next
<1>. DEFINE r == fin[f].req
            v == IF fin[f].pc = "reject" THEN "REJECTED" ELSE "APPROVED"
<1>1. r \in Requests /\ status[r] = "PENDING" /\ status' = [status EXCEPT ![r] = v]
      /\ UNCHANGED <<owner, legs>>
  BY Rows DEF LifeInv, PayInv, FinStage, NotOvertaken, Reject, Approve
<1>2. UNCHANGED <<Held, Spent, GivenBack>>
  BY <1>1 DEF Held, Spent, GivenBack, InClearing
<1>3. Life!Decide(r, v)
  BY <1>1, <1>2 DEF Life!Decide, Held, Spent, GivenBack
<1>. QED BY <1>1, <1>3 DEF Life!Next

LEMMA CreateRefines ==
  ASSUME PayoutIInv, NEW f \in FinTasks, CreateDisbursement(f)
  PROVE  Same
<1>0. PICK x \in Refs :
        /\ owner[x] = NoReq
        /\ owner' = [owner EXCEPT ![x] = fin[f].req]
  BY DEF CreateDisbursement, Issued
<1>1. UNCHANGED <<status, legs>>
  BY DEF CreateDisbursement
<1>2. legs[x].start = 0 /\ legs[x].expense = 0 /\ legs[x].refund = 0
  BY <1>0, LegTypes DEF PayoutIInv, RefInv, Terminal
<1>3. \A y \in Refs : (owner'[y] = owner[y]) \/ ~(legs[y].start > 0 \/ legs[y].expense > 0 \/ legs[y].refund > 0)
  BY <1>0, <1>2, Rows
<1>. QED BY <1>0, <1>1, <1>2, Rows, RowsAssumption DEF Same, Held, Spent, GivenBack, InClearing

LEMMA PostStartRefines ==
  ASSUME PayoutIInv, LifeInv, NEW f \in FinTasks, PostStart(f)
  PROVE  Life!Next
<1>0. PICK x \in Refs, r \in Requests : x = fin[f].ref /\ r = fin[f].req
  BY Rows DEF LifeInv, PayInv, FinStage, NotOvertaken, PostStart
<1>1. /\ x \in Issued /\ owner[x] = r /\ ~Returned(x)
      /\ status[r] \in {"APPROVED", "FAILED"}
      /\ UNCHANGED <<status, owner>>
      /\ legs' = [legs EXCEPT ![x].start = @ + 1]
      /\ legs[x].start = 0
  BY <1>0, Rows, RowsAssumption
     DEF LifeInv, PayInv, FinStage, NotOvertaken, PostStart, Issued, Returned, PayoutIInv, FinInv, Starting
<1>2. InClearing(x) = 0 /\ legs[x].expense = 0 /\ legs[x].refund = 0
  BY <1>1, LegTypes
<1>3. /\ legs'[x].start = 1 /\ legs'[x].expense = 0 /\ legs'[x].refund = 0
      /\ \A y \in Refs \ {x} : legs'[y] = legs[y]
  BY <1>1, <1>2, Rows
<1>4. Held[r] = {} /\ Spent[r] = {} /\ x \notin GivenBack[r]
  <2>1. ~(InClearing(x) > 0) /\ ~(legs[x].expense > 0) /\ ~(legs[x].refund > 0)
    BY <1>2
  <2>2. /\ Held[r] = IF InClearing(x) > 0 THEN {x} ELSE {}
        /\ Spent[r] = IF legs[x].expense > 0 THEN {x} ELSE {}
    BY <1>1, OpenAlone
  <2>. QED BY <2>1, <2>2 DEF GivenBack
<1>5. Held' = [Held EXCEPT ![r] = {x}] /\ Spent' = Spent /\ GivenBack' = GivenBack
  <2>1. InClearing(x)' > 0 /\ ~(legs'[x].expense > 0) /\ ~(legs'[x].refund > 0)
    BY <1>3 DEF InClearing
  <2>2. /\ Held' = [Held EXCEPT ![r] = @ \cup {x}]
        /\ Spent' = [Spent EXCEPT ![r] = @ \ {x}]
        /\ GivenBack' = [GivenBack EXCEPT ![r] = @ \ {x}]
    BY <1>1, <1>3, <2>1, LegPosted DEF With
  <2>. QED BY <1>4, <2>2, PayoutSets
<1>6. Life!Disburse(r, x)
  BY <1>1, <1>4, <1>5 DEF Life!Disburse, Held, Spent, GivenBack
<1>. QED BY <1>6 DEF Life!Next

LEMMA MarkRefines ==
  ASSUME PayoutIInv, LifeInv, NEW f \in FinTasks, MarkDisbursing(f)
  PROVE  Life!Next
<1>. DEFINE r == fin[f].req
            x == fin[f].ref
<1>1. /\ r \in Requests /\ x \in Refs /\ owner[x] = r /\ payout[x] = "PENDING"
      /\ status[r] \in {"APPROVED", "FAILED"}
      /\ UNCHANGED <<owner, legs>>
      /\ status' = [status EXCEPT ![r] = "DISBURSING"]
  BY Rows DEF LifeInv, PayInv, FinStage, NotOvertaken, MarkDisbursing
<1>2. Held[r] # {}
  <2>1. InClearing(x) > 0
    BY <1>1, OneUnit
  <2>. QED BY <1>1, <2>1 DEF Held
<1>3. UNCHANGED <<Held, Spent, GivenBack>>
  BY <1>1 DEF Held, Spent, GivenBack, InClearing
<1>4. Life!Record(r)
  BY <1>1, <1>2, <1>3 DEF Life!Record, Held, Spent, GivenBack
<1>. QED BY <1>1, <1>4 DEF Life!Next

LEMMA SettlePostRefines ==
  ASSUME PayoutIInv, LifeInv, NEW h \in HookTasks, SettlePost(h)
  PROVE  Life!Next
<1>0. PICK x \in Refs, r \in Requests : x = hook[h].ref /\ r = owner[x]
  BY DEF SettlePost, PayoutIInv, HookInv, Settling
<1>1. /\ x \in Issued /\ ~Returned(x) /\ BeingSettled(x)
      /\ UNCHANGED <<status, owner>>
      /\ legs[x].start = 1 /\ legs[x].expense = 0 /\ legs[x].refund = 0
  BY <1>0, RowsAssumption
     DEF SettlePost, PayoutIInv, HookInv, RefInv, Settling, Issued, Returned, BeingSettled
<1>2. status[r] = "DISBURSING"
  BY <1>0, <1>1 DEF LifeInv, Staged, Stage
<1>3. Held[r] = {x} /\ Spent[r] = {}
  <2>1. InClearing(x) > 0 /\ ~(legs[x].expense > 0)
    BY <1>1 DEF InClearing
  <2>2. /\ Held[r] = IF InClearing(x) > 0 THEN {x} ELSE {}
        /\ Spent[r] = IF legs[x].expense > 0 THEN {x} ELSE {}
    BY <1>0, <1>1, OpenAlone
  <2>. QED BY <2>1, <2>2
<1>4. \A y \in Refs \ {x} : legs'[y] = legs[y]
  BY <1>0, <1>1, Rows DEF SettlePost
<1>5. CASE legs' = [legs EXCEPT ![x].expense = @ + 1]
  <2>1. ~(InClearing(x)' > 0) /\ legs'[x].expense > 0 /\ ~(legs'[x].refund > 0)
    BY <1>1, <1>5, Rows DEF InClearing
  <2>2. /\ Held' = [Held EXCEPT ![r] = @ \ {x}]
        /\ Spent' = [Spent EXCEPT ![r] = @ \cup {x}]
        /\ GivenBack' = [GivenBack EXCEPT ![r] = @ \ {x}]
    BY <1>0, <1>1, <1>4, <2>1, LegPosted DEF With
  <2>3. x \notin GivenBack[r]
    BY <1>1 DEF GivenBack
  <2>4. /\ Held' = [Held EXCEPT ![r] = {}] /\ Spent' = [Spent EXCEPT ![r] = Held[r]]
        /\ GivenBack' = GivenBack
    <3>1. GivenBack[r] \ {x} = GivenBack[r] /\ Spent[r] \cup {x} = Held[r] /\ Held[r] \ {x} = {}
      BY <1>3, <2>3
    <3>. QED BY <2>2, <3>1, PayoutSets
  <2>5. Life!Expense(r)
    BY <1>1, <1>2, <1>3, <2>4 DEF Life!Expense, Held, Spent, GivenBack
  <2>. QED BY <2>5 DEF Life!Next
<1>6. CASE legs' = [legs EXCEPT ![x].refund = @ + 1]
  <2>1. ~(InClearing(x)' > 0) /\ ~(legs'[x].expense > 0) /\ legs'[x].refund > 0
    BY <1>1, <1>6, Rows DEF InClearing
  <2>2. /\ Held' = [Held EXCEPT ![r] = @ \ {x}]
        /\ Spent' = [Spent EXCEPT ![r] = @ \ {x}]
        /\ GivenBack' = [GivenBack EXCEPT ![r] = @ \cup {x}]
    BY <1>0, <1>1, <1>4, <2>1, LegPosted DEF With
  <2>3. /\ Held' = [Held EXCEPT ![r] = {}] /\ Spent' = Spent
        /\ GivenBack' = [GivenBack EXCEPT ![r] = @ \cup Held[r]]
    BY <1>3, <2>2, PayoutSets
  <2>4. Life!Return(r)
    BY <1>1, <1>2, <1>3, <2>3 DEF Life!Return, Held, Spent, GivenBack
  <2>. QED BY <2>4 DEF Life!Next
<1>. QED BY <1>0, <1>5, <1>6 DEF SettlePost

LEMMA SettleMarkRefines ==
  ASSUME PayoutIInv, LifeInv, NEW h \in HookTasks, SettleMark(h)
  PROVE  Life!Next
<1>0. PICK x \in Refs, r \in Requests : x = hook[h].ref /\ r = owner[x]
  BY DEF SettleMark, PayoutIInv, HookInv, Settling
<1>1. /\ x \in Issued /\ ~Returned(x) /\ BeingSettled(x)
      /\ UNCHANGED <<owner, legs>>
      /\ status' = [status EXCEPT ![r] = IF outcome[x] THEN "PAID" ELSE "FAILED"]
      /\ legs[x].start = 1
      /\ outcome[x] => legs[x].expense = 1
      /\ ~outcome[x] => legs[x].refund = 1
  BY <1>0, RowsAssumption
     DEF SettleMark, PayoutIInv, HookInv, RefInv, Settling, Issued, Returned, BeingSettled,
         LifeInv, PayInv, HookStage
<1>2. status[r] = "DISBURSING"
  BY <1>0, <1>1 DEF LifeInv, Staged, Stage
<1>3. ~(InClearing(x) > 0) /\ (legs[x].expense > 0 <=> outcome[x])
  BY <1>1, LegTypes, Rows
<1>4. Held[r] = {} /\ (Spent[r] # {} <=> outcome[x])
  <2>1. /\ Held[r] = IF InClearing(x) > 0 THEN {x} ELSE {}
        /\ Spent[r] = IF legs[x].expense > 0 THEN {x} ELSE {}
    BY <1>0, <1>1, OpenAlone
  <2>. QED BY <1>3, <2>1
<1>5. UNCHANGED <<Held, Spent, GivenBack>>
  BY <1>1 DEF Held, Spent, GivenBack, InClearing
<1>6. Life!Close(r)
  BY <1>1, <1>2, <1>4, <1>5 DEF Life!Close, Held, Spent, GivenBack
<1>. QED BY <1>6 DEF Life!Next

\* One Finance handler at a time and notifications after it returned: then the
\* handlers, await by await, implement the lifecycle the documentation draws.
THEOREM PayoutRefinement == ASSUME OneAtATime PROVE PayoutSpec => LifecycleSpec
<1>1. PayoutInit => Life!Init
  BY DEF PayoutInit, Life!Init, NoLegs, InClearing
<1>2. PayoutIInv /\ LifeInv /\ (PayoutIInv /\ LifeInv)' /\ [PayoutNext]_payoutVars => [Life!Next]_(Life!vars)
  <2>. SUFFICES ASSUME PayoutIInv, LifeInv, [PayoutNext]_payoutVars PROVE Life!Next \/ UNCHANGED Life!vars
    OBVIOUS
  <2>1. ASSUME UNCHANGED <<status, owner, legs>> PROVE UNCHANGED Life!vars
    BY <2>1, Stuttering DEF Same, Held, Spent, GivenBack, InClearing
  <2>2. ASSUME NEW f \in FinTasks, NEW r \in Requests,
               ReadForDecision(f, r) \/ ReadForRetry(f, r)
        PROVE  UNCHANGED Life!vars
    BY <2>1, <2>2 DEF ReadForDecision, ReadForRetry
  <2>3. ASSUME NEW f \in FinTasks, FinStepOf(f) PROVE Life!Next \/ UNCHANGED Life!vars
    <3>1. CreatePayout(f) => UNCHANGED Life!vars
      BY <2>1 DEF CreatePayout
    <3>. QED BY <2>3, <3>1, DecideRefines, CreateRefines, Stuttering, PostStartRefines, MarkRefines
             DEF FinStepOf
  <2>4. ASSUME NEW h \in HookTasks, HookStepOf(h) PROVE Life!Next
    BY <2>4, SettlePostRefines, SettleMarkRefines DEF HookStepOf
  <2>5. ASSUME NEW x \in Refs, Notify(x) PROVE UNCHANGED Life!vars
    BY <2>1, <2>5 DEF Notify, SettleFlip, SettleIgnored
  <2>6. ASSUME ReconReadClearing \/ ReconFinish \/ UNCHANGED payoutVars PROVE UNCHANGED Life!vars
    BY <2>1, <2>6 DEF ReconReadClearing, ReconFinish, payoutVars
  <2>7. /\ \A f \in FinTasks : FinDies(f) => UNCHANGED Life!vars
        /\ \A h \in HookTasks : HookDies(h) => UNCHANGED Life!vars
    BY <2>1 DEF FinDies, HookDies
  <2>. QED BY <2>2, <2>3, <2>4, <2>5, <2>6, <2>7 DEF PayoutNext
<1>. QED BY <1>1, <1>2, LifeInvariance, PTL DEF PayoutSpec, LifecycleSpec, Life!Spec
=============================================================================
