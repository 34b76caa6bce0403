--------------------------- MODULE MoresPayProofs ---------------------------
(***************************************************************************)
(* Proofs about MoresPay, for any number of agents' browsers, finance      *)
(* users, threads, transactions and references, either provider, aborts    *)
(* and restarts included.  Only what is proved of the clearing account     *)
(* supposes that the notifications of one payout do not overlap (Serial).  *)
(*                                                                         *)
(* The argument: a reference the provider returned belongs to one request  *)
(* until its payout row is committed (OneStarts), and what a thread that   *)
(* settles read of the row stays true (Settlers): two of them that settle  *)
(* one payout write the same status.  They post twice, though, unless a    *)
(* pending payout belongs to one thread (OneSettles), as with Serial.      *)
(***************************************************************************)
EXTENDS MoresPay, SumTheorems, TLAPS

OneStarts ==
    /\ \A c \in Clients : task[c].pc = "commit" =>
         /\ task[c].ref \in Refs
         /\ verdict[task[c].ref] # "none"
         /\ payout[task[c].ref].status = "none"
    /\ \A c, d \in Clients :
         c # d /\ task[c].pc = "commit" /\ task[d].pc = "commit" => task[c].ref # task[d].ref

\* A thread that settles read a payout row, and the row's reference and
\* transaction are written once.
Settlers ==
    /\ \A c \in Threads : task[c].pc = "settle" \/ task[c] = Idle
    /\ \A c \in Clients : task[c].pc = "settle" =>
         /\ c \in Threads
         /\ task[c].ref \in Refs
         /\ verdict[task[c].ref] # "none"
         /\ payout[task[c].ref].status # "none"
         /\ payout[task[c].ref].txn = task[c].txn

\* Whatever finance or the gateway works on has a row.
OnFile ==
    /\ \A c \in Clients : task[c].pc \in {"reject", "approve", "retry", "commit", "settle"} =>
         status[task[c].txn] # "none"
    /\ \A r \in Refs :
         /\ verdict[r] = "none" => payout[r].status = "none"
         /\ payout[r].status # "none" =>
              payout[r].txn \in Txns /\ status[payout[r].txn] # "none"

\* The inductive invariant.
IInv == TypeOK /\ OneStarts /\ Settlers /\ OnFile /\ StatusIsBacked

-----------------------------------------------------------------------------
(* One lemma per action, one step per conjunct of the invariant.           *)

\* A submission takes a row of its own and no payout.
LEMMA CreateReimbursementKeeps ==
  ASSUME IInv, NEW s \in Sessions, NEW t \in Txns, CreateReimbursement(s, t)
  PROVE  IInv'
<1>. USE ClientAssumption, RowAssumption
     DEF CreateReimbursement, IInv, Clients, Kind, Status, PayoutStatus, Step, Idle, Task, Do, Done, At
<1>1. TypeOK'
  BY DEF TypeOK, RowTypes, TaskTypes, OneStarts, Settlers, OnFile, InsertTxn, Free
<1>2. OneStarts'
  BY DEF OneStarts, Settlers, TypeOK, RowTypes, TaskTypes, InsertTxn, Free
<1>3. Settlers'
  BY DEF Settlers, OneStarts, TypeOK, RowTypes, TaskTypes, InsertTxn, Free
<1>4. OnFile'
  BY DEF OnFile, OneStarts, Settlers, TypeOK, RowTypes, TaskTypes, InsertTxn, Free
<1>5. StatusIsBacked'
  BY DEF StatusIsBacked, Backed, OneStarts, Settlers, OnFile, TypeOK, RowTypes, TaskTypes, InsertTxn, Free
<1>. QED BY <1>1, <1>2, <1>3, <1>4, <1>5

LEMMA CheckLimitsKeeps ==
  ASSUME IInv, NEW s \in Sessions, NEW t \in Txns, CheckLimits(s, t)
  PROVE  IInv'
<1>. USE ClientAssumption, RowAssumption
     DEF CheckLimits, IInv, Clients, Kind, Status, PayoutStatus, Step, Idle, Task, Do, Done, At
<1>1. TypeOK'
  BY DEF TypeOK, RowTypes, TaskTypes, OneStarts, Settlers, OnFile, Free
<1>2. OneStarts'
  BY DEF OneStarts, Settlers, TypeOK, RowTypes, TaskTypes, Free
<1>3. Settlers'
  BY DEF Settlers, OneStarts, TypeOK, RowTypes, TaskTypes, Free
<1>4. OnFile'
  BY DEF OnFile, OneStarts, Settlers, TypeOK, RowTypes, TaskTypes, Free
<1>5. StatusIsBacked'
  BY DEF StatusIsBacked, Backed, OneStarts, Settlers, OnFile, TypeOK, RowTypes, TaskTypes, Free
<1>. QED BY <1>1, <1>2, <1>3, <1>4, <1>5

LEMMA CreateOrderSavingVendorKeeps ==
  ASSUME IInv, NEW s \in Sessions, CreateOrderSavingVendor(s)
  PROVE  IInv'
<1>. USE ClientAssumption, RowAssumption
     DEF CreateOrderSavingVendor, IInv, Clients, Kind, Status, PayoutStatus, Step, Idle, Task, Do, Done, At
<1>1. TypeOK'
  BY DEF TypeOK, RowTypes, TaskTypes, OneStarts, Settlers, OnFile, InsertTxn
<1>2. OneStarts'
  BY DEF OneStarts, Settlers, TypeOK, RowTypes, TaskTypes, InsertTxn
<1>3. Settlers'
  BY DEF Settlers, OneStarts, TypeOK, RowTypes, TaskTypes, InsertTxn
<1>4. OnFile'
  BY DEF OnFile, OneStarts, Settlers, TypeOK, RowTypes, TaskTypes, InsertTxn
<1>5. StatusIsBacked'
  BY DEF StatusIsBacked, Backed, OneStarts, Settlers, OnFile, TypeOK, RowTypes, TaskTypes, InsertTxn
<1>. QED BY <1>1, <1>2, <1>3, <1>4, <1>5

LEMMA CreateOrderKeeps ==
  ASSUME IInv, NEW s \in Sessions, CreateOrder(s)
  PROVE  IInv'
<1>. USE ClientAssumption, RowAssumption
     DEF CreateOrder, IInv, Clients, Kind, Status, PayoutStatus, Step, Idle, Task, Do, Done, At
<1>1. TypeOK'
  BY DEF TypeOK, RowTypes, TaskTypes, OneStarts, Settlers, OnFile
<1>2. OneStarts'
  BY DEF OneStarts, Settlers, TypeOK, RowTypes, TaskTypes
<1>3. Settlers'
  BY DEF Settlers, OneStarts, TypeOK, RowTypes, TaskTypes
<1>4. OnFile'
  BY DEF OnFile, OneStarts, Settlers, TypeOK, RowTypes, TaskTypes
<1>5. StatusIsBacked'
  BY DEF StatusIsBacked, Backed, OneStarts, Settlers, OnFile, TypeOK, RowTypes, TaskTypes
<1>. QED BY <1>1, <1>2, <1>3, <1>4, <1>5

LEMMA CheckBalanceKeeps ==
  ASSUME IInv, NEW s \in Sessions, CheckBalance(s)
  PROVE  IInv'
<1>. USE ClientAssumption, RowAssumption
     DEF CheckBalance, IInv, Clients, Kind, Status, PayoutStatus, Step, Idle, Task, Do, Done, At
<1>1. TypeOK'
  BY DEF TypeOK, RowTypes, TaskTypes, OneStarts, Settlers, OnFile
<1>2. OneStarts'
  BY DEF OneStarts, Settlers, TypeOK, RowTypes, TaskTypes
<1>3. Settlers'
  BY DEF Settlers, OneStarts, TypeOK, RowTypes, TaskTypes
<1>4. OnFile'
  BY DEF OnFile, OneStarts, Settlers, TypeOK, RowTypes, TaskTypes
<1>5. StatusIsBacked'
  BY DEF StatusIsBacked, Backed, OneStarts, Settlers, OnFile, TypeOK, RowTypes, TaskTypes
<1>. QED BY <1>1, <1>2, <1>3, <1>4, <1>5

\* A QRIS payment is paid without a payout; only bank transfers need one.
LEMMA PayQrisKeeps ==
  ASSUME IInv, NEW s \in Sessions, PayQris(s)
  PROVE  IInv'
<1>. USE ClientAssumption, RowAssumption
     DEF PayQris, IInv, Clients, Kind, Status, PayoutStatus, Step, Idle, Task, Do, Done, At
<1>1. TypeOK'
  BY DEF TypeOK, RowTypes, TaskTypes, OneStarts, Settlers, OnFile, InsertTxn
<1>2. OneStarts'
  BY DEF OneStarts, Settlers, TypeOK, RowTypes, TaskTypes, InsertTxn
<1>3. Settlers'
  BY DEF Settlers, OneStarts, TypeOK, RowTypes, TaskTypes, InsertTxn
<1>4. OnFile'
  BY DEF OnFile, OneStarts, Settlers, TypeOK, RowTypes, TaskTypes, InsertTxn
<1>5. StatusIsBacked'
  BY DEF StatusIsBacked, Backed, OneStarts, Settlers, OnFile, TypeOK, RowTypes, TaskTypes, InsertTxn
<1>. QED BY <1>1, <1>2, <1>3, <1>4, <1>5

LEMMA TopUpKeeps ==
  ASSUME IInv, NEW f \in Finance, TopUp(f)
  PROVE  IInv'
<1>. USE ClientAssumption, RowAssumption
     DEF TopUp, IInv, Clients, Kind, Status, PayoutStatus, Step, Idle, Task, Do, Done, At
<1>1. TypeOK'
  BY AmountAssumption DEF TypeOK, RowTypes, TaskTypes, OneStarts, Settlers, OnFile
<1>2. OneStarts'
  BY DEF OneStarts, Settlers, TypeOK, RowTypes, TaskTypes
<1>3. Settlers'
  BY DEF Settlers, OneStarts, TypeOK, RowTypes, TaskTypes
<1>4. OnFile'
  BY DEF OnFile, OneStarts, Settlers, TypeOK, RowTypes, TaskTypes
<1>5. StatusIsBacked'
  BY DEF StatusIsBacked, Backed, OneStarts, Settlers, OnFile, TypeOK, RowTypes, TaskTypes
<1>. QED BY <1>1, <1>2, <1>3, <1>4, <1>5

\* What finance reads has a row, and rows are never deleted.
LEMMA ReadForDecisionKeeps ==
  ASSUME IInv, NEW f \in Finance, NEW t \in Txns, ReadForDecision(f, t)
  PROVE  IInv'
<1>. USE ClientAssumption, RowAssumption
     DEF ReadForDecision, IInv, Clients, Kind, Status, PayoutStatus, Step, Idle, Task, Do, Done, At
<1>1. TypeOK'
  BY DEF TypeOK, RowTypes, TaskTypes, OneStarts, Settlers, OnFile
<1>2. OneStarts'
  BY DEF OneStarts, Settlers, TypeOK, RowTypes, TaskTypes
<1>3. Settlers'
  BY DEF Settlers, OneStarts, TypeOK, RowTypes, TaskTypes
<1>4. OnFile'
  BY DEF OnFile, OneStarts, Settlers, TypeOK, RowTypes, TaskTypes
<1>5. StatusIsBacked'
  BY DEF StatusIsBacked, Backed, OneStarts, Settlers, OnFile, TypeOK, RowTypes, TaskTypes
<1>. QED BY <1>1, <1>2, <1>3, <1>4, <1>5

LEMMA RejectKeeps ==
  ASSUME IInv, NEW f \in Finance, Reject(f)
  PROVE  IInv'
<1>. USE ClientAssumption, RowAssumption
     DEF Reject, IInv, Clients, Kind, Status, PayoutStatus, Step, Idle, Task, Do, Done, At
<1>1. TypeOK'
  BY DEF TypeOK, RowTypes, TaskTypes, OneStarts, Settlers, OnFile
<1>2. OneStarts'
  BY DEF OneStarts, Settlers, TypeOK, RowTypes, TaskTypes
<1>3. Settlers'
  BY DEF Settlers, OneStarts, TypeOK, RowTypes, TaskTypes
<1>4. OnFile'
  BY DEF OnFile, OneStarts, Settlers, TypeOK, RowTypes, TaskTypes
<1>5. StatusIsBacked'
  BY DEF StatusIsBacked, Backed, OneStarts, Settlers, OnFile, TypeOK, RowTypes, TaskTypes
<1>. QED BY <1>1, <1>2, <1>3, <1>4, <1>5

LEMMA ReadForRetryKeeps ==
  ASSUME IInv, NEW f \in Finance, NEW t \in Txns, ReadForRetry(f, t)
  PROVE  IInv'
<1>. USE ClientAssumption, RowAssumption
     DEF ReadForRetry, IInv, Clients, Kind, Status, PayoutStatus, Step, Idle, Task, Do, Done, At
<1>1. TypeOK'
  BY DEF TypeOK, RowTypes, TaskTypes, OneStarts, Settlers, OnFile
<1>2. OneStarts'
  BY DEF OneStarts, Settlers, TypeOK, RowTypes, TaskTypes
<1>3. Settlers'
  BY DEF Settlers, OneStarts, TypeOK, RowTypes, TaskTypes
<1>4. OnFile'
  BY DEF OnFile, OneStarts, Settlers, TypeOK, RowTypes, TaskTypes
<1>5. StatusIsBacked'
  BY DEF StatusIsBacked, Backed, OneStarts, Settlers, OnFile, TypeOK, RowTypes, TaskTypes
<1>. QED BY <1>1, <1>2, <1>3, <1>4, <1>5

\* The provider's reference is new, so no other request works on it.
LEMMA CreateDisbursementKeeps ==
  ASSUME IInv, NEW f \in Finance, NEW r \in Refs, CreateDisbursement(f, r)
  PROVE  IInv'
<1>. USE ClientAssumption, RowAssumption
     DEF CreateDisbursement, IInv, Clients, Kind, Status, PayoutStatus, Step, Idle, Task, Do, Done, At
<1>1. TypeOK'
  BY DEF TypeOK, RowTypes, TaskTypes, OneStarts, Settlers, OnFile, Verdicts
<1>2. OneStarts'
  <2>1. \A c \in Clients : task[c].pc = "commit" => task[c].ref # r
    BY DEF OneStarts
  <2>2. verdict'[r] # "none" /\ \A q \in Refs : q # r => verdict'[q] = verdict[q]
    BY DEF Verdicts, TypeOK, RowTypes
  <2>3. task'[f].ref = r /\ \A c \in Clients : c # f => task'[c] = task[c]
    BY DEF TypeOK, TaskTypes
  <2>. QED BY <2>1, <2>2, <2>3 DEF OneStarts, OnFile, TypeOK, TaskTypes
<1>3. Settlers'
  BY DEF Settlers, OneStarts, TypeOK, RowTypes, TaskTypes, Verdicts
<1>4. OnFile'
  BY DEF OnFile, OneStarts, Settlers, TypeOK, RowTypes, TaskTypes, Verdicts
<1>5. StatusIsBacked'
  BY DEF StatusIsBacked, Backed, OneStarts, Settlers, OnFile, TypeOK, RowTypes, TaskTypes, Verdicts
<1>. QED BY <1>1, <1>2, <1>3, <1>4, <1>5

\* The row is inserted once: nobody else was given the reference.
LEMMA CommitDisbursementKeeps ==
  ASSUME IInv, NEW f \in Finance, CommitDisbursement(f)
  PROVE  IInv'
<1>. USE ClientAssumption, RowAssumption
     DEF CommitDisbursement, IInv, Clients, Kind, Status, PayoutStatus, Step, Idle, Task, Do, Done, At
<1>1. TypeOK'
  <2>. DEFINE q == task[f].ref
              u == task[f].txn
  <2>1. q \in Refs /\ u \in Txns /\ status[u] # "none"
    BY DEF OneStarts, OnFile, TypeOK, TaskTypes
  <2>2. /\ payout' = [payout EXCEPT ![q] = [txn |-> u, status |-> "pending"]]
        /\ legs' = [legs EXCEPT ![q].started = @ + 1]
        /\ status' = [status EXCEPT ![u] = "disbursing"]
        /\ task' = [task EXCEPT ![f] = Idle]
        /\ UNCHANGED <<mock, kind, verdict, timers, topups, answered>>
    OBVIOUS
  <2>. HIDE DEF q, u, CommitDisbursement
  <2>3. payout' \in [Refs -> [txn : Txns \cup {NoTxn}, status : PayoutStatus]]
    BY <2>1, <2>2 DEF TypeOK, RowTypes
  <2>4. legs' \in [Refs -> [started : Nat, expensed : Nat, reversed : Nat]]
    BY <2>1, <2>2 DEF TypeOK, RowTypes
  <2>5. status' \in [Txns -> Status] /\ \A t \in Txns : kind[t] = "none" <=> status'[t] = "none"
    BY <2>1, <2>2 DEF TypeOK, RowTypes
  <2>6. TaskTypes'
    BY <2>1, <2>2 DEF TypeOK, TaskTypes
  <2>. QED BY <2>2, <2>3, <2>4, <2>5, <2>6 DEF TypeOK, RowTypes
<1>2. OneStarts'
  BY DEF OneStarts, Settlers, TypeOK, RowTypes, TaskTypes
<1>3. Settlers'
  BY DEF Settlers, OneStarts, TypeOK, RowTypes, TaskTypes
<1>4. OnFile'
  BY DEF OnFile, OneStarts, Settlers, TypeOK, RowTypes, TaskTypes
<1>5. StatusIsBacked'
  <2>. DEFINE q == task[f].ref
              u == task[f].txn
  <2>1. q \in Refs /\ u \in Txns /\ payout[q].status = "none"
    BY DEF OneStarts, TypeOK, TaskTypes
  <2>2. /\ payout'[q].txn = u /\ payout'[q].status = "pending"
        /\ \A r \in Refs : r # q => payout'[r] = payout[r]
    BY <2>1 DEF TypeOK, RowTypes
  <2>3. status'[u] = "disbursing" /\ \A t \in Txns : t # u => status'[t] = status[t]
    BY <2>1 DEF TypeOK, RowTypes
  <2>. QED BY <2>1, <2>2, <2>3 DEF StatusIsBacked, Backed
<1>. QED BY <1>1, <1>2, <1>3, <1>4, <1>5

LEMMA IgnoreNotificationKeeps ==
  ASSUME IInv, NEW c \in Threads, NEW r \in Refs, IgnoreNotification(c, r)
  PROVE  IInv'
<1>. USE ClientAssumption, RowAssumption
     DEF IgnoreNotification, IInv, Clients, Kind, Status, PayoutStatus, Step, Idle, Task, Do, Done, At
<1>1. TypeOK'
  BY DEF TypeOK, RowTypes, TaskTypes, OneStarts, Settlers, OnFile, Notifies, Consume
<1>2. OneStarts'
  BY DEF OneStarts, Settlers, TypeOK, RowTypes, TaskTypes, Notifies, Consume
<1>3. Settlers'
  BY DEF Settlers, OneStarts, TypeOK, RowTypes, TaskTypes, Notifies, Consume
<1>4. OnFile'
  BY DEF OnFile, OneStarts, Settlers, TypeOK, RowTypes, TaskTypes, Notifies, Consume
<1>5. StatusIsBacked'
  BY DEF StatusIsBacked, Backed, OneStarts, Settlers, OnFile, TypeOK, RowTypes, TaskTypes, Notifies, Consume
<1>. QED BY <1>1, <1>2, <1>3, <1>4, <1>5

\* The thread reads a row that is there.
LEMMA ReadPayoutKeeps ==
  ASSUME IInv, NEW c \in Threads, NEW r \in Refs, ReadPayout(c, r)
  PROVE  IInv'
<1>. USE ClientAssumption, RowAssumption
     DEF ReadPayout, IInv, Clients, Kind, Status, PayoutStatus, Step, Idle, Task, Do, Done, At
<1>1. TypeOK'
  BY DEF TypeOK, RowTypes, TaskTypes, OneStarts, Settlers, OnFile, Notifies, Consume
<1>2. OneStarts'
  BY DEF OneStarts, Settlers, TypeOK, RowTypes, TaskTypes, Notifies, Consume
<1>3. Settlers'
  BY DEF Settlers, OneStarts, TypeOK, RowTypes, TaskTypes, Notifies, Consume
<1>4. OnFile'
  BY DEF OnFile, OneStarts, Settlers, TypeOK, RowTypes, TaskTypes, Notifies, Consume
<1>5. StatusIsBacked'
  BY DEF StatusIsBacked, Backed, OneStarts, Settlers, OnFile, TypeOK, RowTypes, TaskTypes, Notifies, Consume
<1>. QED BY <1>1, <1>2, <1>3, <1>4, <1>5

\* The payout's row still names the transaction the thread read, and both are
\* written; a thread that comes second writes what the first one wrote.
LEMMA SettleKeeps ==
  ASSUME IInv, NEW c \in Threads, Settle(c)
  PROVE  IInv'
<1>. USE ClientAssumption, RowAssumption
     DEF IInv, Clients, Kind, Status, PayoutStatus, Step, Idle, Done, At
<1>. DEFINE q == task[c].ref
            u == task[c].txn
            v == verdict[q]
<1>0. /\ c \in Clients /\ q \in Refs /\ u \in Txns /\ v \in {"settled", "failed"}
      /\ payout[q].status # "none" /\ payout[q].txn = u /\ status[u] # "none"
  BY DEF Settle, Settlers, OnFile, TypeOK, RowTypes, TaskTypes
<1>1. /\ payout'[q].txn = u /\ payout'[q].status = v
      /\ \A r \in Refs : r # q => payout'[r] = payout[r]
      /\ payout' \in [Refs -> [txn : Txns \cup {NoTxn}, status : PayoutStatus]]
  <2>1. payout' = [payout EXCEPT ![q].status = v]
    BY DEF Settle
  <2>2. /\ payout'[q].txn = u /\ payout'[q].status = v
        /\ \A r \in Refs : r # q => payout'[r] = payout[r]
    BY <2>1, <1>0 DEF TypeOK, RowTypes
  <2>3. payout' \in [Refs -> [txn : Txns \cup {NoTxn}, status : PayoutStatus]]
    BY <2>1, <1>0 DEF TypeOK, RowTypes
  <2>. QED BY <2>2, <2>3
<1>2. /\ status'[u] = IF v = "settled" THEN "paid" ELSE "failed"
      /\ \A t \in Txns : t # u => status'[t] = status[t]
      /\ status' \in [Txns -> Status]
  BY <1>0 DEF Settle, SettledAs, TypeOK, RowTypes
<1>3. /\ task'[c] = Idle /\ \A d \in Clients : d # c => task'[d] = task[d]
      /\ TaskTypes'
  BY <1>0 DEF Settle, TypeOK, TaskTypes
<1>4. legs' \in [Refs -> [started : Nat, expensed : Nat, reversed : Nat]]
  <2>1. legs \in [Refs -> [started : Nat, expensed : Nat, reversed : Nat]] /\ q \in Refs
    BY <1>0 DEF TypeOK, RowTypes
  <2>2. \/ legs' = [legs EXCEPT ![q].expensed = @ + 1]
        \/ legs' = [legs EXCEPT ![q].reversed = @ + 1]
    BY DEF Settle
  <2>. HIDE DEF q, IInv
  <2>. QED BY <2>1, <2>2
<1>5. UNCHANGED <<mock, kind, verdict, timers, topups, answered>>
  BY DEF Settle
<1>6. TypeOK'
  BY <1>0, <1>1, <1>2, <1>3, <1>4, <1>5 DEF TypeOK, RowTypes
<1>7. OneStarts'
  BY <1>0, <1>1, <1>3, <1>5 DEF OneStarts
<1>8. Settlers'
  BY <1>0, <1>1, <1>3, <1>5 DEF Settlers
<1>9. OnFile'
  <2>1. \A t \in Txns : status[t] # "none" => status'[t] # "none"
    BY <1>0, <1>2
  <2>2. \A d \in Clients : task[d].pc # "idle" => task[d].txn \in Txns
    BY DEF TypeOK, TaskTypes
  <2>3. \A r \in Refs : payout'[r].txn = payout[r].txn
    BY <1>0, <1>1
  <2>4. \A r \in Refs : verdict[r] = "none" => payout'[r].status = "none"
    BY <1>0, <1>1 DEF OnFile
  <2>5. \A r \in Refs : payout'[r].status # "none" => payout[r].status # "none"
    BY <1>0, <1>1
  <2>. HIDE DEF q, u, v
  <2>. QED BY <1>3, <1>5, <2>1, <2>2, <2>3, <2>4, <2>5 DEF OnFile
<1>10. StatusIsBacked'
  BY <1>0, <1>1, <1>2, <1>5 DEF StatusIsBacked, Backed
<1>. QED BY <1>6, <1>7, <1>8, <1>9, <1>10

LEMMA AbortKeeps ==
  ASSUME IInv, NEW c \in Clients, Abort(c)
  PROVE  IInv'
<1>. USE ClientAssumption, RowAssumption
     DEF Abort, IInv, Clients, Kind, Status, PayoutStatus, Step, Idle, Task, Do, Done, At
<1>1. TypeOK'
  BY DEF TypeOK, RowTypes, TaskTypes, OneStarts, Settlers, OnFile
<1>2. OneStarts'
  BY DEF OneStarts, Settlers, TypeOK, RowTypes, TaskTypes
<1>3. Settlers'
  BY DEF Settlers, OneStarts, TypeOK, RowTypes, TaskTypes
<1>4. OnFile'
  BY DEF OnFile, OneStarts, Settlers, TypeOK, RowTypes, TaskTypes
<1>5. StatusIsBacked'
  BY DEF StatusIsBacked, Backed, OneStarts, Settlers, OnFile, TypeOK, RowTypes, TaskTypes
<1>. QED BY <1>1, <1>2, <1>3, <1>4, <1>5

LEMMA RestartKeeps ==
  ASSUME IInv, Restart
  PROVE  IInv'
<1>. USE ClientAssumption, RowAssumption
     DEF Restart, IInv, Clients, Kind, Status, PayoutStatus, Step, Idle, Task, Do, Done, At
<1>1. TypeOK'
  BY DEF TypeOK, RowTypes, TaskTypes, OneStarts, Settlers, OnFile
<1>2. OneStarts'
  BY DEF OneStarts, Settlers, TypeOK, RowTypes, TaskTypes
<1>3. Settlers'
  BY DEF Settlers, OneStarts, TypeOK, RowTypes, TaskTypes
<1>4. OnFile'
  BY DEF OnFile, OneStarts, Settlers, TypeOK, RowTypes, TaskTypes
<1>5. StatusIsBacked'
  BY DEF StatusIsBacked, Backed, OneStarts, Settlers, OnFile, TypeOK, RowTypes, TaskTypes
<1>. QED BY <1>1, <1>2, <1>3, <1>4, <1>5

-----------------------------------------------------------------------------
LEMMA Start == ASSUME Init PROVE IInv
<1>. USE RowAssumption DEF Init, Clients, Kind, Status, PayoutStatus, Step, Idle
<1>1. TypeOK
  BY AmountAssumption DEF TypeOK, RowTypes, TaskTypes, NoLegs
<1>2. OneStarts /\ Settlers /\ OnFile
  BY DEF OneStarts, Settlers, OnFile
<1>3. StatusIsBacked
  BY DEF StatusIsBacked, Backed
<1>. QED BY <1>1, <1>2, <1>3 DEF IInv

LEMMA Stutter == ASSUME IInv, UNCHANGED vars PROVE IInv'
<1>. USE DEF IInv, vars
<1>1. TypeOK' /\ OneStarts' /\ Settlers' /\ OnFile'
  BY DEF TypeOK, RowTypes, TaskTypes, OneStarts, Settlers, OnFile
<1>2. StatusIsBacked'
  BY DEF StatusIsBacked, Backed
<1>. QED BY <1>1, <1>2

LEMMA NextKeeps == ASSUME IInv, [Next]_vars PROVE IInv'
<1>1. ASSUME NEW s \in Sessions,
             \/ \E t \in Txns : CreateReimbursement(s, t) \/ CheckLimits(s, t)
             \/ CreateOrderSavingVendor(s) \/ CreateOrder(s)
             \/ CheckBalance(s) \/ PayQris(s)
      PROVE  IInv'
  BY <1>1, CreateReimbursementKeeps, CheckLimitsKeeps, CreateOrderSavingVendorKeeps, CreateOrderKeeps, CheckBalanceKeeps, PayQrisKeeps
<1>2. ASSUME NEW f \in Finance,
             \/ TopUp(f) \/ Reject(f) \/ CommitDisbursement(f)
             \/ \E t \in Txns : ReadForDecision(f, t) \/ ReadForRetry(f, t)
             \/ \E r \in Refs : CreateDisbursement(f, r)
      PROVE  IInv'
  BY <1>2, TopUpKeeps, ReadForDecisionKeeps, RejectKeeps, ReadForRetryKeeps, CreateDisbursementKeeps, CommitDisbursementKeeps
<1>3. ASSUME NEW c \in Threads,
             \/ \E r \in Refs : ReadPayout(c, r) \/ IgnoreNotification(c, r)
             \/ Settle(c)
      PROVE  IInv'
  BY <1>3, IgnoreNotificationKeeps, ReadPayoutKeeps, SettleKeeps
<1>4. CASE (\E c \in Clients : Abort(c)) \/ Restart
  BY <1>4, AbortKeeps, RestartKeeps
<1>5. CASE UNCHANGED vars
  BY <1>5, Stutter
<1>. QED BY <1>1, <1>2, <1>3, <1>4, <1>5 DEF Next

\* The inductive invariant holds in every reachable state.
THEOREM Invariance == Spec => []IInv
<1>1. Init => IInv BY Start
<1>2. IInv /\ [Next]_vars => IInv' BY NextKeeps
<1>. QED BY <1>1, <1>2, PTL DEF Spec

\* Every row and request keeps its type (server.py, all handlers).
THEOREM Typing == Spec => []TypeOK
<1>1. IInv => TypeOK BY DEF IInv
<1>. QED BY <1>1, Invariance, PTL

\* A bank transfer's status is always the status of one of its payouts, for
\* decisions and settlements that overwrite each other, two settlements of
\* one payout included.
THEOREM Backing == Spec => []StatusIsBacked
<1>1. IInv => StatusIsBacked BY DEF IInv
<1>. QED BY <1>1, Invariance, PTL

-----------------------------------------------------------------------------
(* The clearing account, when the notifications of a payout do not overlap.*)

\* A pending payout belongs to at most one thread until it is settled.
OneSettles ==
    /\ \A c \in Threads : task[c].pc = "settle" => payout[task[c].ref].status = "pending"
    /\ \A c, d \in Threads :
         c # d /\ task[c].pc = "settle" /\ task[d].pc = "settle" => task[c].ref # task[d].ref

\* Most steps write neither payouts nor postings and give no thread a task.
NoSettlement ==
    /\ UNCHANGED <<payout, legs>>
    /\ \A c \in Threads : task'[c] = task[c] \/ task'[c] = Idle

LEMMA SettlingSteps ==
  ASSUME IInv, [Next]_vars
  PROVE  \/ NoSettlement
         \/ \E f \in Finance : CommitDisbursement(f)
         \/ \E c \in Threads : (\E r \in Refs : ReadPayout(c, r)) \/ Settle(c)
<1>. USE ClientAssumption DEF NoSettlement, Do, Done, Clients, IInv, TypeOK, TaskTypes
<1>1. ASSUME NEW s \in Sessions, NEW t \in Txns, CreateReimbursement(s, t) \/ CheckLimits(s, t)
      PROVE  NoSettlement
  BY <1>1 DEF CreateReimbursement, CheckLimits
<1>2. ASSUME NEW s \in Sessions,
             CreateOrderSavingVendor(s) \/ CreateOrder(s) \/ CheckBalance(s) \/ PayQris(s)
      PROVE  NoSettlement
  BY <1>2 DEF CreateOrderSavingVendor, CreateOrder, CheckBalance, PayQris
<1>3. ASSUME NEW f \in Finance, TopUp(f) \/ Reject(f) PROVE NoSettlement
  BY <1>3 DEF TopUp, Reject
<1>4. ASSUME NEW f \in Finance, NEW t \in Txns, ReadForDecision(f, t) \/ ReadForRetry(f, t)
      PROVE  NoSettlement
  BY <1>4 DEF ReadForDecision, ReadForRetry
<1>5. ASSUME NEW f \in Finance, NEW r \in Refs, CreateDisbursement(f, r) PROVE NoSettlement
  BY <1>5 DEF CreateDisbursement
<1>6. ASSUME NEW c \in Threads, NEW r \in Refs, IgnoreNotification(c, r) PROVE NoSettlement
  BY <1>6 DEF IgnoreNotification
<1>7. ASSUME NEW c \in Clients, Abort(c) PROVE NoSettlement
  BY <1>7 DEF Abort
<1>8. CASE Restart
  BY <1>8 DEF Restart
<1>9. CASE UNCHANGED vars
  BY <1>9 DEF vars
<1>. HIDE DEF NoSettlement, Do, Done, Clients, IInv, TypeOK, TaskTypes
<1>. QED BY <1>1, <1>2, <1>3, <1>4, <1>5, <1>6, <1>7, <1>8, <1>9 DEF Next

LEMMA OneSettlesKept ==
  ASSUME Serial, IInv, OneSettles, [Next]_vars
  PROVE  OneSettles'
<1>. USE ClientAssumption DEF OneSettles, Clients, Idle
<1>1. CASE NoSettlement
  BY <1>1 DEF NoSettlement
<1>2. ASSUME NEW f \in Finance, CommitDisbursement(f) PROVE OneSettles'
  <2>. DEFINE q == task[f].ref
  <2>1. payout[q].status = "none" /\ \A c \in Threads : c \in Clients /\ task'[c] = task[c]
    BY <1>2 DEF CommitDisbursement, At, Done, IInv, OneStarts, TypeOK, TaskTypes
  <2>2. \A r \in Refs \ {q} : payout'[r] = payout[r]
    BY <1>2 DEF CommitDisbursement, IInv, TypeOK, RowTypes
  <2>3. \A c \in Threads : task[c].pc = "settle" => task[c].ref \in Refs
    BY DEF IInv, Settlers
  <2>. QED BY <2>1, <2>2, <2>3
<1>3. ASSUME NEW c \in Threads, NEW r \in Refs, ReadPayout(c, r) PROVE OneSettles'
  <2>1. /\ payout' = payout /\ payout[r].status = "pending"
        /\ task'[c].ref = r /\ \A d \in Threads \ {c} : task'[d] = task[d] /\ task[d].ref # r
    BY <1>3 DEF ReadPayout, Notifies, Do, Task, IInv, TypeOK, TaskTypes
  <2>. QED BY <2>1
<1>4. ASSUME NEW c \in Threads, Settle(c) PROVE OneSettles'
  <2>. DEFINE q == task[c].ref
  <2>1. task'[c] = Idle /\ \A d \in Threads \ {c} : task'[d] = task[d]
    BY <1>4 DEF Settle, Done, IInv, TypeOK, TaskTypes
  <2>2. \A r \in Refs \ {q} : payout'[r] = payout[r]
    BY <1>4 DEF Settle, IInv, TypeOK, RowTypes
  <2>3. task[c].pc = "settle" /\ \A d \in Threads : task[d].pc = "settle" => task[d].ref \in Refs
    BY <1>4 DEF Settle, At, IInv, Settlers
  <2>. QED BY <2>1, <2>2, <2>3
<1>. QED BY <1>1, <1>2, <1>3, <1>4, SettlingSteps

\* start_disbursement() posts into clearing with the row, and the one thread
\* that has the payout posts out of it.
LEMMA ClearingKept ==
  ASSUME IInv, OneSettles, ClearingIsInFlight, [Next]_vars
  PROVE  ClearingIsInFlight'
<1>1. CASE NoSettlement
  BY <1>1 DEF NoSettlement, ClearingIsInFlight
<1>2. ASSUME NEW f \in Finance, CommitDisbursement(f) PROVE ClearingIsInFlight'
  <2>. DEFINE q == task[f].ref
  <2>1. q \in Refs /\ payout[q].status = "none"
    BY <1>2, ClientAssumption DEF CommitDisbursement, At, Clients, IInv, OneStarts
  <2>2. payout'[q].status = "pending" /\ \A r \in Refs \ {q} : payout'[r] = payout[r]
    BY <1>2, <2>1 DEF CommitDisbursement, IInv, TypeOK, RowTypes
  <2>3. legs' = [legs EXCEPT ![q].started = @ + 1] /\ legs[q] = NoLegs
    BY <1>2, <2>1 DEF CommitDisbursement, ClearingIsInFlight, LegsOf
  <2>4. legs'[q] = LegsOf("pending") /\ \A r \in Refs \ {q} : legs'[r] = legs[r]
    BY <2>1, <2>3 DEF NoLegs, LegsOf, IInv, TypeOK, RowTypes
  <2>. QED BY <2>2, <2>4 DEF ClearingIsInFlight
<1>3. ASSUME NEW c \in Threads, NEW r \in Refs, ReadPayout(c, r) PROVE ClearingIsInFlight'
  BY <1>3 DEF ReadPayout, ClearingIsInFlight
<1>4. ASSUME NEW c \in Threads, Settle(c) PROVE ClearingIsInFlight'
  <2>. DEFINE q == task[c].ref
              v == verdict[q]
  <2>1. q \in Refs /\ payout[q].status = "pending" /\ v \in {"settled", "failed"}
    BY <1>4, ClientAssumption
       DEF Settle, At, Clients, OneSettles, IInv, Settlers, TypeOK, RowTypes
  <2>2. payout'[q].status = v /\ \A r \in Refs \ {q} : payout'[r] = payout[r]
    <3>1. payout' = [payout EXCEPT ![q].status = v]
      BY <1>4 DEF Settle
    <3>. QED BY <2>1, <3>1 DEF IInv, TypeOK, RowTypes
  <2>3. /\ legs[q] = [started |-> 1, expensed |-> 0, reversed |-> 0]
        /\ legs \in [Refs -> [started : Nat, expensed : Nat, reversed : Nat]]
        /\ LegsOf("settled") = [started |-> 1, expensed |-> 1, reversed |-> 0]
        /\ LegsOf("failed") = [started |-> 1, expensed |-> 0, reversed |-> 1]
    BY <2>1 DEF ClearingIsInFlight, LegsOf, NoLegs, IInv, TypeOK, RowTypes
  <2>4. legs'[q] = LegsOf(v) /\ \A r \in Refs \ {q} : legs'[r] = legs[r]
    <3>1. CASE v = "settled"
      <4>1. legs' = [legs EXCEPT ![q].expensed = @ + 1]
        BY <1>4, <3>1 DEF Settle
      <4>. HIDE DEF q, v
      <4>. QED BY <2>1, <2>3, <3>1, <4>1
    <3>2. CASE v = "failed"
      <4>1. legs' = [legs EXCEPT ![q].reversed = @ + 1]
        BY <1>4, <3>2 DEF Settle
      <4>. HIDE DEF q, v
      <4>. QED BY <2>1, <2>3, <3>2, <4>1
    <3>. QED BY <2>1, <3>1, <3>2
  <2>. QED BY <2>2, <2>4 DEF ClearingIsInFlight
<1>. QED BY <1>1, <1>2, <1>3, <1>4, SettlingSteps

\* settle_disbursement() posts each payout out of clearing once and start_
\* disbursement() into it once, whoever decides at once with whom.
THEOREM Clearing == ASSUME Serial PROVE Spec => []ClearingIsInFlight
<1>1. Init => OneSettles /\ ClearingIsInFlight
  BY ClientAssumption DEF Init, OneSettles, ClearingIsInFlight, LegsOf, Clients, Idle
<1>2. IInv /\ OneSettles /\ ClearingIsInFlight /\ [Next]_vars => (OneSettles /\ ClearingIsInFlight)'
  BY OneSettlesKept, ClearingKept
<1>. QED BY <1>1, <1>2, Invariance, PTL DEF Spec

-----------------------------------------------------------------------------
(* The agent's wallet.                                                     *)

Submitting(s) == task[s].pc \in {"order", "balance", "charge"}

\* A submission in progress has a row of its own, which is not filed yet, and
\* an amount that passed the limit of one transaction.
SubmitInv ==
    /\ kind \in [Txns -> Kind \cup {"none"}]
    /\ topups \in Nat
    /\ task = [c \in Clients |-> task[c]]
    /\ \A s \in Sessions : Submitting(s) =>
         /\ task[s].txn \in Txns
         /\ kind[task[s].txn] = "none"
         /\ Amount[task[s].txn] <= PerTxnLimit
    /\ \A s, r \in Sessions :
         s # r /\ Submitting(s) /\ Submitting(r) => task[s].txn # task[r].txn

\* Most steps write neither the kind of a row nor what a browser waits for.
Quiet ==
    /\ kind' = kind
    /\ task' = [c \in Clients |-> task'[c]]
    /\ \A s \in Sessions : task'[s] = task[s] \/ task'[s] = Idle

LEMMA QuietSteps ==
  ASSUME SubmitInv, [Next]_vars
  PROVE  \/ Quiet /\ topups' = topups
         \/ \E f \in Finance : TopUp(f)
         \/ \E s \in Sessions :
              \/ \E t \in Txns : CreateReimbursement(s, t) \/ CheckLimits(s, t)
              \/ CreateOrderSavingVendor(s) \/ CheckBalance(s) \/ PayQris(s)
<1>. USE ClientAssumption DEF SubmitInv, Quiet, Clients, Idle, Task, Do, Done
<1>1. ASSUME NEW s \in Sessions, CreateOrder(s) PROVE Quiet /\ topups' = topups
  BY <1>1 DEF CreateOrder
<1>2. ASSUME NEW f \in Finance, Reject(f) \/ CommitDisbursement(f) PROVE Quiet /\ topups' = topups
  BY <1>2 DEF Reject, CommitDisbursement
<1>3. ASSUME NEW f \in Finance, NEW t \in Txns, ReadForDecision(f, t) PROVE Quiet /\ topups' = topups
  <2>1. PICK pc : task' = [task EXCEPT ![f] = Task(pc, t, NoRef)]
    BY <1>3 DEF ReadForDecision
  <2>. QED BY <1>3, <2>1 DEF ReadForDecision
<1>4. ASSUME NEW f \in Finance, NEW t \in Txns, ReadForRetry(f, t) PROVE Quiet /\ topups' = topups
  BY <1>4 DEF ReadForRetry
<1>5. ASSUME NEW f \in Finance, NEW r \in Refs, CreateDisbursement(f, r)
      PROVE  Quiet /\ topups' = topups
  BY <1>5 DEF CreateDisbursement
<1>6. ASSUME NEW c \in Threads, NEW r \in Refs, ReadPayout(c, r) PROVE Quiet /\ topups' = topups
  BY <1>6 DEF ReadPayout
<1>7. ASSUME NEW c \in Threads, NEW r \in Refs, IgnoreNotification(c, r)
      PROVE  Quiet /\ topups' = topups
  BY <1>7 DEF IgnoreNotification
<1>8. ASSUME NEW c \in Threads, Settle(c) PROVE Quiet /\ topups' = topups
  BY <1>8 DEF Settle
<1>9. ASSUME NEW c \in Clients, Abort(c) PROVE Quiet /\ topups' = topups
  BY <1>9 DEF Abort
<1>10. ASSUME Restart PROVE Quiet /\ topups' = topups
  BY <1>10 DEF Restart
<1>11. ASSUME UNCHANGED vars PROVE Quiet /\ topups' = topups
  BY <1>11 DEF vars
<1>. HIDE DEF SubmitInv, Quiet, Do, Done
<1>. QED BY <1>1, <1>2, <1>3, <1>4, <1>5, <1>6, <1>7, <1>8, <1>9, <1>10, <1>11 DEF Next

LEMMA SubmitKept == ASSUME SubmitInv, [Next]_vars PROVE SubmitInv'
<1>. USE ClientAssumption, RowAssumption DEF SubmitInv, Submitting, Clients, Kind, Idle, Task, At
<1>1. ASSUME Quiet, topups' = topups PROVE SubmitInv'
  BY <1>1 DEF Quiet
<1>2. ASSUME NEW f \in Finance, TopUp(f) PROVE SubmitInv'
  BY <1>2 DEF TopUp
<1>3. ASSUME NEW s \in Sessions, NEW t \in Txns, CreateReimbursement(s, t) PROVE SubmitInv'
  BY <1>3 DEF CreateReimbursement, InsertTxn, Free
<1>4. ASSUME NEW s \in Sessions, NEW t \in Txns, CheckLimits(s, t) PROVE SubmitInv'
  <2>1. PICK pc : task' = [task EXCEPT ![s] = Task(pc, t, NoRef)]
    BY <1>4 DEF CheckLimits, Do
  <2>2. task'[s].txn = t /\ task' = [c \in Clients |-> task'[c]]
        /\ \A c \in Clients \ {s} : task'[c] = task[c]
    BY <2>1
  <2>3. kind' = kind /\ topups' = topups /\ kind[t] = "none" /\ Amount[t] <= PerTxnLimit
        /\ \A c \in Clients : task[c].txn # t
    BY <1>4 DEF CheckLimits, Free
  <2>4. ASSUME NEW r \in Sessions, Submitting(r)'
        PROVE  task'[r].txn \in Txns /\ kind[task'[r].txn] = "none"
               /\ Amount[task'[r].txn] <= PerTxnLimit
    <3>1. CASE r = s
      BY <2>2, <2>3, <3>1
    <3>2. CASE r # s
      <4>1. task'[r] = task[r]  BY <2>2, <3>2
      <4>. QED BY <2>4, <4>1
    <3>. QED BY <3>1, <3>2
  <2>5. ASSUME NEW r \in Sessions, NEW q \in Sessions, r # q, Submitting(r)', Submitting(q)'
        PROVE  task'[r].txn # task'[q].txn
    <3>1. CASE r = s
      <4>1. q \in Clients \ {s}  BY <2>5, <3>1
      <4>2. task'[q] = task[q]  BY <2>2, <4>1
      <4>. QED BY <2>2, <2>3, <3>1, <4>1, <4>2
    <3>2. CASE q = s
      <4>1. r \in Clients \ {s}  BY <2>5, <3>2
      <4>2. task'[r] = task[r]  BY <2>2, <4>1
      <4>. QED BY <2>2, <2>3, <3>2, <4>1, <4>2
    <3>3. CASE r # s /\ q # s
      <4>1. task'[r] = task[r] /\ task'[q] = task[q]  BY <2>2, <3>3
      <4>. QED BY <2>5, <4>1
    <3>. QED BY <3>1, <3>2, <3>3
  <2>. QED BY <2>2, <2>3, <2>4, <2>5
<1>5. ASSUME NEW s \in Sessions, CreateOrderSavingVendor(s) \/ PayQris(s) PROVE SubmitInv'
  <2>1. task'[s] = Idle /\ task' = [c \in Clients |-> task'[c]]
        /\ \A c \in Clients \ {s} : task'[c] = task[c]
    BY <1>5 DEF CreateOrderSavingVendor, PayQris, Done
  <2>2. Submitting(s) /\ topups' = topups
    BY <1>5 DEF CreateOrderSavingVendor, PayQris
  <2>3. PICK k \in Kind : kind' = [kind EXCEPT ![task[s].txn] = k]
    BY <1>5 DEF CreateOrderSavingVendor, PayQris, InsertTxn
  <2>4. ASSUME NEW r \in Sessions, Submitting(r)'
        PROVE  r # s /\ Submitting(r) /\ task'[r] = task[r] /\ task[r].txn # task[s].txn
    <3>1. r # s  BY <2>1, <2>4
    <3>2. task'[r] = task[r]  BY <2>1, <3>1
    <3>. QED BY <2>2, <2>4, <3>1, <3>2
  <2>5. kind' \in [Txns -> Kind \cup {"none"}]
        /\ \A t \in Txns \ {task[s].txn} : kind'[t] = kind[t]
    BY <2>2, <2>3
  <2>. QED BY <2>1, <2>2, <2>4, <2>5
<1>6. ASSUME NEW s \in Sessions, CheckBalance(s) PROVE SubmitInv'
  <2>1. /\ kind' = kind /\ topups' = topups /\ task' = [c \in Clients |-> task'[c]]
        /\ \A r \in Sessions : task'[r].txn = task[r].txn
        /\ \A r \in Sessions : Submitting(r)' => Submitting(r)
    BY <1>6 DEF CheckBalance, Do
  <2>. HIDE DEF Submitting, Clients
  <2>. QED BY <2>1
<1>. HIDE DEF SubmitInv
<1>. QED BY <1>1, <1>2, <1>3, <1>4, <1>5, <1>6, QuietSteps

\* What a charge in progress will take, and what the charges made have taken.
ChargeOf == [s \in Charging |-> Amount[task[s].txn]]

Bought == {t \in Txns : kind[t] = "qris"}

LEMMA ChargesTyped ==
  ASSUME SubmitInv
  PROVE  /\ IsFiniteSet(Charging) /\ IsFiniteSet(Bought)
         /\ \A s \in Charging : ChargeOf[s] \in Nat /\ ChargeOf[s] <= PerTxnLimit
         /\ \A t \in Bought : Amount[t] \in Nat
         /\ Charges \in Nat /\ Total(Bought) \in Nat
         /\ WalletBalance = topups * TopUpAmount - Total(Bought) /\ WalletBalance \in Int
         /\ PerTxnLimit \in Nat
<1>. USE AmountAssumption DEF SubmitInv
<1>1. IsFiniteSet(Charging) /\ IsFiniteSet(Bought)
  BY FiniteAssumption, FS_Subset DEF Charging, Bought
<1>2. \A s \in Charging : ChargeOf[s] \in Nat /\ ChargeOf[s] <= PerTxnLimit
  BY DEF Charging, Submitting, ChargeOf
<1>3. \A t \in Bought : Amount[t] \in Nat
  BY DEF Bought
<1>4. Charges \in Nat /\ Total(Bought) \in Nat
  BY <1>1, <1>2, <1>3, SumNat DEF Charges, ChargeOf, Total
<1>5. WalletBalance = topups * TopUpAmount - Total(Bought)
  BY DEF WalletBalance, Bought
<1>6. topups * TopUpAmount \in Nat
  OBVIOUS
<1>. QED BY <1>1, <1>2, <1>3, <1>4, <1>5, <1>6

\* A step that starts no charge adds none to the charges in progress.
LEMMA FewerCharges ==
  ASSUME SubmitInv, SubmitInv',
         \A s \in Sessions : task'[s].pc = "charge" => task'[s] = task[s]
  PROVE  Charges' <= Charges
<1>1. Charging' \in SUBSET Charging /\ \A s \in Charging' : ChargeOf'[s] = ChargeOf[s]
  BY DEF Charging, ChargeOf
<1>2. IsFiniteSet(Charging') /\ IsFiniteSet(Charging) /\ \A s \in Charging : ChargeOf[s] \in Nat
  BY <1>1, ChargesTyped, FS_Subset
<1>3. SumFunctionOnSet(ChargeOf', Charging') = SumFunctionOnSet(ChargeOf, Charging')
  BY <1>1, <1>2, SumSame
<1>4. SumFunctionOnSet(ChargeOf, Charging') <= SumFunctionOnSet(ChargeOf, Charging)
  BY <1>1, <1>2, SumPart
<1>. QED BY <1>3, <1>4 DEF Charges, ChargeOf

\* A step that buys nothing leaves at least what there was.
LEMMA NothingBought ==
  ASSUME SubmitInv, SubmitInv', topups' >= topups,
         \A t \in Txns : kind'[t] = "qris" => kind[t] = "qris"
  PROVE  WalletBalance' >= WalletBalance
<1>. USE AmountAssumption
<1>1. Bought' \in SUBSET Bought
  BY DEF Bought
<1>2. Total(Bought') <= Total(Bought)
  BY <1>1, ChargesTyped, SumPart DEF Total
<1>3. topups' * TopUpAmount >= topups * TopUpAmount
  BY DEF SubmitInv
<1>4. topups * TopUpAmount \in Int /\ topups' * TopUpAmount \in Int
  BY DEF SubmitInv
<1>5. WalletBalance = topups * TopUpAmount - Total(Bought) /\ Total(Bought) \in Nat
  BY ChargesTyped
<1>6. WalletBalance' = topups' * TopUpAmount - Total(Bought')
  BY DEF WalletBalance, Bought, Total
<1>7. Total(Bought') \in Nat
  <2>1. IsFiniteSet(Bought')
    BY <1>1, ChargesTyped, FS_Subset
  <2>2. \A t \in Bought' : Amount[t] \in Nat
    BY <1>1, ChargesTyped
  <2>. QED BY <2>1, <2>2, SumNat DEF Total
<1>8. Total(Bought) \in Int /\ Total(Bought') \in Int
  BY <1>5, <1>7
<1>. HIDE DEF SubmitInv, WalletBalance
<1>9. \A a, b, c, d \in Int : a <= b /\ c >= d => c - a >= d - b
  OBVIOUS
<1>. QED BY <1>2, <1>3, <1>4, <1>5, <1>6, <1>8, <1>9

LEMMA BoundTyped ==
  (Cardinality(Sessions) - 1) * PerTxnLimit \in Nat
<1>1. Cardinality(Sessions) \in Nat /\ Cardinality(Sessions) # 0
  BY FiniteAssumption, FS_CardinalityType, FS_EmptySet
<1>. QED BY <1>1, AmountAssumption

\* qris_pay() compares the amount with the balance, so that this charge is
\* covered; the others in progress are at most those of the other browsers.
LEMMA OneMoreCharge ==
  ASSUME SubmitInv, SubmitInv', NEW s \in Sessions, CheckBalance(s)
  PROVE  WalletIsBounded'
<1>. DEFINE a == Amount[task[s].txn]
            Rest == (Cardinality(Sessions) - 1) * PerTxnLimit
<1>1. /\ a <= WalletBalance /\ WalletBalance' = WalletBalance
      /\ task'[s].pc = "charge" /\ task'[s].txn = task[s].txn
      /\ \A r \in Sessions \ {s} : task'[r] = task[r]
      /\ task[s].pc = "balance"
  BY DEF CheckBalance, Do, At, Task, SubmitInv, Clients, WalletBalance, Total
<1>2. a \in Nat /\ s \notin Charging /\ Charging' = Charging \cup {s}
  <2>1. task[s].txn \in Txns
    BY <1>1 DEF SubmitInv, Submitting
  <2>2. s \notin Charging /\ Charging' = Charging \cup {s}
    BY <1>1 DEF Charging
  <2>. QED BY <2>1, <2>2, AmountAssumption
<1>3. ChargeOf'[s] = a /\ \A r \in Charging : ChargeOf'[r] = ChargeOf[r]
  BY <1>1, <1>2 DEF Charging, ChargeOf
<1>4. Charges' = a + SumFunctionOnSet(ChargeOf', Charging)
  <2>1. Charges' = SumFunctionOnSet(ChargeOf', Charging \cup {s})
    BY <1>2 DEF Charges, ChargeOf
  <2>2. \A r \in Charging : ChargeOf'[r] \in Int
    BY <1>3, ChargesTyped
  <2>. QED BY <1>2, <1>3, <2>1, <2>2, ChargesTyped, SumAdd
<1>5. SumFunctionOnSet(ChargeOf', Charging) = Charges
  <2>1. Charges = SumFunctionOnSet(ChargeOf, Charging)
    BY DEF Charges, ChargeOf
  <2>2. IsFiniteSet(Charging) /\ \A r \in Charging : ChargeOf'[r] = ChargeOf[r]
    BY <1>3, ChargesTyped
  <2>. QED BY <2>1, <2>2, SumSame
<1>6. Charges <= Cardinality(Charging) * PerTxnLimit
  <2>1. \A r \in Charging : ChargeOf[r] \in Int /\ ChargeOf[r] <= PerTxnLimit
    BY ChargesTyped
  <2>. QED BY <2>1, ChargesTyped, SumAtMost DEF Charges, ChargeOf
<1>7. Cardinality(Charging) * PerTxnLimit <= Rest
  <2>1. Charging \in SUBSET (Sessions \ {s}) /\ IsFiniteSet(Sessions \ {s})
        /\ Cardinality(Sessions \ {s}) = Cardinality(Sessions) - 1
    BY <1>2, FiniteAssumption, FS_RemoveElement DEF Charging
  <2>2. Cardinality(Charging) <= Cardinality(Sessions) - 1
    BY <2>1, FS_Subset
  <2>3. Cardinality(Charging) \in Nat /\ Cardinality(Sessions) \in Nat
    BY FiniteAssumption, ChargesTyped, FS_CardinalityType
  <2>. QED BY <2>2, <2>3, AmountAssumption
<1>8. Cardinality(Charging) * PerTxnLimit \in Int
  BY ChargesTyped, FS_CardinalityType, AmountAssumption
<1>9. Rest \in Int /\ -(Cardinality(Sessions) - 1) * PerTxnLimit = -Rest
  BY FiniteAssumption, FS_CardinalityType, AmountAssumption
<1>. HIDE DEF Rest, a
<1>10. WalletBalance' - Charges' >= -Rest
  BY <1>1, <1>2, <1>4, <1>5, <1>6, <1>7, <1>8, <1>9, ChargesTyped
<1>11. WalletIsBounded' <=> WalletBalance' - Charges' >= -(Cardinality(Sessions) - 1) * PerTxnLimit
  BY DEF WalletIsBounded
<1>. QED BY <1>9, <1>10, <1>11

\* A charge that is made takes from the wallet what was in progress.
LEMMA ChargeMade ==
  ASSUME SubmitInv, SubmitInv', NEW s \in Sessions, PayQris(s)
  PROVE  WalletBalance' - Charges' = WalletBalance - Charges
<1>. DEFINE t == task[s].txn
<1>1. /\ task[s].pc = "charge" /\ task'[s].pc = "idle" /\ topups' = topups
      /\ kind' = [kind EXCEPT ![t] = "qris"]
      /\ \A r \in Sessions \ {s} : task'[r] = task[r]
  BY DEF PayQris, Done, Idle, At, SubmitInv, Clients, InsertTxn
<1>2. t \in Txns /\ kind[t] = "none" /\ Amount[t] \in Nat
  BY <1>1, AmountAssumption DEF SubmitInv, Submitting
<1>3. Charging' = Charging \ {s} /\ s \in Charging
  BY <1>1 DEF Charging
<1>4. ChargeOf[s] = Amount[t] /\ \A r \in Charging' : ChargeOf'[r] = ChargeOf[r]
  BY <1>1, <1>3 DEF Charging, ChargeOf
<1>5. Charges = Amount[t] + Charges'
  <2>1. \A r \in Charging : ChargeOf[r] \in Int
    BY ChargesTyped
  <2>2. Charges = ChargeOf[s] + SumFunctionOnSet(ChargeOf, Charging \ {s})
    BY <1>3, <2>1, ChargesTyped, SumRemove DEF Charges, ChargeOf
  <2>3. IsFiniteSet(Charging')
    BY <1>3, ChargesTyped, FS_RemoveElement
  <2>4. SumFunctionOnSet(ChargeOf', Charging') = SumFunctionOnSet(ChargeOf, Charging')
    BY <1>4, <2>3, SumSame
  <2>5. Charges' = SumFunctionOnSet(ChargeOf', Charging')
    BY DEF Charges, ChargeOf
  <2>. QED BY <1>3, <1>4, <2>2, <2>4, <2>5
<1>6. Bought' = Bought \cup {t} /\ t \notin Bought
  BY <1>1, <1>2 DEF Bought, SubmitInv
<1>7. Total(Bought') = Amount[t] + Total(Bought)
  <2>1. \A u \in Bought : Amount[u] \in Int
    BY ChargesTyped
  <2>. QED BY <1>2, <1>6, <2>1, ChargesTyped, SumAdd DEF Total
<1>8. WalletBalance' = topups * TopUpAmount - Total(Bought')
  BY <1>1 DEF WalletBalance, Bought, Total
<1>9. topups * TopUpAmount \in Int
  BY AmountAssumption DEF SubmitInv
<1>10. Charges' = Charges - Amount[t]
  <2>. Charges \in Nat /\ Charges' \in Int
    <3>1. IsFiniteSet(Charging') /\ \A r \in Charging' : ChargeOf'[r] \in Int
      BY <1>3, <1>4, ChargesTyped, FS_RemoveElement
    <3>. QED BY <3>1, ChargesTyped, SumInt DEF Charges, ChargeOf
  <2>. QED BY <1>2, <1>5
<1>. HIDE DEF t
<1>. QED BY <1>2, <1>7, <1>8, <1>9, <1>10, ChargesTyped

LEMMA WalletKept ==
  ASSUME SubmitInv, WalletIsBounded, [Next]_vars
  PROVE  WalletIsBounded'
<1>0. SubmitInv'
  BY SubmitKept
<1>. DEFINE floor == -(Cardinality(Sessions) - 1) * PerTxnLimit
<1>1. WalletBalance \in Int /\ Charges \in Int /\ floor \in Int
      /\ WalletBalance - Charges >= floor
  BY ChargesTyped, BoundTyped, FiniteAssumption, FS_CardinalityType, AmountAssumption
     DEF WalletIsBounded
<1>. HIDE DEF floor
<1>2. WalletBalance' \in Int /\ Charges' \in Int
  <2>1. IsFiniteSet(Charging') /\ IsFiniteSet(Bought')
    BY FiniteAssumption, FS_Subset DEF Charging, Bought
  <2>2. \A s \in Charging' : ChargeOf'[s] \in Int
    BY <1>0, AmountAssumption DEF SubmitInv, Submitting, Charging, ChargeOf
  <2>3. \A t \in Bought' : Amount[t] \in Int
    BY AmountAssumption DEF Bought
  <2>4. SumFunctionOnSet(ChargeOf', Charging') \in Int /\ SumFunctionOnSet(Amount, Bought') \in Int
    BY <2>1, <2>2, <2>3, SumInt
  <2>5. topups' * TopUpAmount \in Int
    BY <1>0, AmountAssumption DEF SubmitInv
  <2>. QED BY <2>4, <2>5 DEF WalletBalance, Total, Bought, Charges, ChargeOf
<1>3. ASSUME WalletBalance' - Charges' >= floor PROVE WalletIsBounded'
  BY <1>3 DEF WalletIsBounded, floor
<1>4. ASSUME \A s \in Sessions : task'[s].pc = "charge" => task'[s] = task[s], topups' >= topups,
             \A t \in Txns : kind'[t] = "qris" => kind[t] = "qris"
      PROVE  WalletIsBounded'
  <2>1. Charges' <= Charges
    BY <1>0, <1>4, FewerCharges
  <2>2. WalletBalance' >= WalletBalance
    BY <1>0, <1>4, NothingBought
  <2>3. WalletBalance' - Charges' >= floor
    <3>1. \A a, b, c, d, e \in Int : a - c >= e /\ b >= a /\ d <= c => b - d >= e
      OBVIOUS
    <3>. QED BY <1>1, <1>2, <2>1, <2>2, <3>1
  <2>. QED BY <1>3, <2>3
<1>. USE DEF At, Idle, Task, Clients
<1>5. ASSUME Quiet /\ topups' = topups PROVE WalletIsBounded'
  BY <1>4, <1>5 DEF Quiet, SubmitInv
<1>6. ASSUME NEW f \in Finance, TopUp(f) PROVE WalletIsBounded'
  BY <1>4, <1>6 DEF TopUp, SubmitInv
<1>7. ASSUME NEW s \in Sessions, NEW t \in Txns, CreateReimbursement(s, t) PROVE WalletIsBounded'
  BY <1>4, <1>7 DEF CreateReimbursement, InsertTxn, SubmitInv
<1>8. ASSUME NEW s \in Sessions, NEW t \in Txns, CheckLimits(s, t) PROVE WalletIsBounded'
  <2>1. PICK pc \in {"order", "balance"} : task' = [task EXCEPT ![s] = Task(pc, t, NoRef)]
    BY <1>8 DEF CheckLimits, Do
  <2>2. kind' = kind /\ topups' = topups
    BY <1>8 DEF CheckLimits
  <2>. QED BY <1>4, <2>1, <2>2 DEF SubmitInv
<1>9. ASSUME NEW s \in Sessions, CreateOrderSavingVendor(s) PROVE WalletIsBounded'
  BY <1>4, <1>9 DEF CreateOrderSavingVendor, InsertTxn, Done, SubmitInv
<1>10. ASSUME NEW s \in Sessions, CheckBalance(s) PROVE WalletIsBounded'
  BY <1>0, <1>10, OneMoreCharge
<1>11. ASSUME NEW s \in Sessions, PayQris(s) PROVE WalletIsBounded'
  BY <1>0, <1>1, <1>3, <1>11, ChargeMade
<1>. QED BY <1>5, <1>6, <1>7, <1>8, <1>9, <1>10, <1>11, QuietSteps

\* qris_pay()'s check of the wallet bounds what it can be overdrawn by, however
\* many requests run at once and whatever the gateway reports, in any order.
THEOREM WalletBounds == Spec => []WalletIsBounded
<1>1. Init => SubmitInv /\ WalletIsBounded
  <2>. SUFFICES ASSUME Init PROVE SubmitInv /\ WalletIsBounded
    OBVIOUS
  <2>1. SubmitInv
    BY DEF Init, SubmitInv, Submitting, Idle, Clients, Kind
  <2>2. Charging = {} /\ Bought = {}
    BY DEF Init, Charging, Bought, Idle, Clients
  <2>3. Charges = 0
    BY <2>2, SumEmpty DEF Charges
  <2>4. WalletBalance = topups * TopUpAmount - Total({}) /\ Total({}) = 0
    BY <2>2, SumEmpty DEF WalletBalance, Total, Bought
  <2>5. WalletBalance = 0
    BY <2>4, AmountAssumption DEF Init
  <2>. QED BY <2>1, <2>3, <2>5, BoundTyped, FiniteAssumption, FS_CardinalityType, AmountAssumption
           DEF WalletIsBounded
<1>2. SubmitInv /\ WalletIsBounded /\ [Next]_vars => (SubmitInv /\ WalletIsBounded)'
  BY SubmitKept, WalletKept
<1>. QED BY <1>1, <1>2, PTL DEF Spec
=============================================================================
