---------------------------- MODULE PlanProofs ------------------------------
(***************************************************************************)
(* Proofs about Plan, for any sets of users, versions, amounts and sheets  *)
(* and any finite sets of months and weeks: an approved or locked plan     *)
(* comes to rest (LockedRests), copying and deleting versions leaves no    *)
(* dangling and no circular lineage (Lineage), a grid keeps one row to a   *)
(* cell (OneRowPerCell), and what a fold or an import does to the months   *)
(* of a budget is exact to the rupiah (FoldKeepsMonths, ImportIsExact).    *)
(*                                                                         *)
(* What amounts a handler writes does not matter to the first three, so    *)
(* their invariants say nothing of them: the tables keep their rows        *)
(* (Tables), the status a request is about to set is one of the four       *)
(* (Asking), and Lineage; and every list of rows holds a cell once         *)
(* (CellInv).  The last two rest on what every budget and every request's  *)
(* copy of one is made of (BudgetInv), and on sums over weeks              *)
(* (SumTheorems).                                                          *)
(***************************************************************************)
EXTENDS Plan, SumTheorems, TLAPS

Tables ==
    /\ DOMAIN task = Users
    /\ DOMAIN status = Versions
    /\ DOMAIN base = Versions
    /\ DOMAIN rows = Versions

Asking == \A u \in Users : task[u].pc = "status" => task[u].status \in PlanStatus

\* The inductive invariant.
IInv == Tables /\ Asking /\ Lineage

\* What LockedRests says of one step.
Rested ==
    \A v \in Versions : AtRest(v) =>
      /\ rows'[v] = rows[v]
      /\ status'[v] \in PlanLocked
      /\ WritersOf(v)' \subseteq Admins

Harmless == {"idle", "grid", "month", "fold", "copy"}

-----------------------------------------------------------------------------
(* Requests that write no version.                                         *)

\* A request that begins, goes on or ends without a version to write leaves
\* every version as it is.
LEMMA Quiet ==
    ASSUME IInv, NEW u \in Users, NEW t, t.pc \in Harmless,
           task' = [task EXCEPT ![u] = t], UNCHANGED <<status, base, rows>>
    PROVE  IInv' /\ Rested
<1>1. \A w \in Users : task'[w] = IF w = u THEN t ELSE task[w]
  BY DEF IInv, Tables
<1>2. t.pc \notin {"save", "seed", "seeding", "delete", "status"}
  BY DEF Harmless
<1>3. Tables'
  BY DEF IInv, Tables
<1>4. Asking'
  BY <1>1, <1>2 DEF IInv, Asking
<1>5. Lineage'
  BY DEF IInv, Lineage, Exists
<1>6. Rested
  <2> SUFFICES ASSUME NEW v \in Versions, AtRest(v)
               PROVE  status[v] \in PlanLocked /\ WritersOf(v)' \subseteq Admins
    BY DEF Rested
  <2>1. WritersOf(v)' \subseteq WritersOf(v)
    BY <1>1, <1>2 DEF WritersOf
  <2> QED
    BY <2>1 DEF AtRest
<1> QED
  BY <1>3, <1>4, <1>5, <1>6 DEF IInv

\* So does a request that stops to await what it reads next.
LEMMA Reads ==
    ASSUME IInv, NEW u \in Users, NEW pc \in Harmless, NEW v, NEW s, NEW seen,
           Do(u, Task(pc, v, s, seen)), UNCHANGED <<status, base, rows>>
    PROVE  IInv' /\ Rested
<1> DEFINE t == Task(pc, v, s, seen)
<1>1. t.pc \in Harmless
  BY DEF Task
<1>2. task' = [task EXCEPT ![u] = t]
  BY DEF Do
<1> HIDE DEF t
<1> QED
  BY <1>1, <1>2, Quiet

\* So does the end of a request that has nothing left to write.
LEMMA Ends ==
    ASSUME IInv, NEW u \in Users, Done(u), UNCHANGED <<status, base, rows>>
    PROVE  IInv' /\ Rested
<1>1. Idle.pc \in Harmless
  BY DEF Idle, Harmless
<1>2. task' = [task EXCEPT ![u] = Idle]
  BY DEF Done
<1> QED
  BY <1>1, <1>2, Quiet

\* So does a commit of the budget that no request is waiting for.
LEMMA Unchanged ==
    ASSUME IInv, UNCHANGED <<status, base, rows, task>>
    PROVE  IInv' /\ Rested
<1>1. IInv'
  BY DEF IInv, Tables, Asking, Lineage, Exists
<1>2. Rested
  <2> SUFFICES ASSUME NEW v \in Versions, AtRest(v)
               PROVE  status[v] \in PlanLocked /\ WritersOf(v)' \subseteq Admins
    BY DEF Rested
  <2>1. WritersOf(v)' = WritersOf(v)
    BY DEF WritersOf
  <2> QED
    BY <2>1 DEF AtRest
<1> QED
  BY <1>1, <1>2

-----------------------------------------------------------------------------
(* Requests that make a version.                                           *)

\* A new version is nobody's base, so it closes no circle, and no locked
\* version is touched.
LEMMA Born ==
    ASSUME IInv, NEW u \in Users, NEW v \in Versions, Fresh(v),
           NEW x \in {NoVersion} \cup {y \in Versions : Exists(y)},
           status' = [status EXCEPT ![v] = "draft"],
           DOMAIN base' = Versions,
           \A w \in Versions : base'[w] = IF w = v THEN x ELSE base[w],
           NEW plan, rows' = [rows EXCEPT ![v] = plan] \/ UNCHANGED rows,
           task' = [task EXCEPT ![u] = Idle] \/ UNCHANGED task
    PROVE  IInv' /\ Rested
<1>1. \A w \in Versions : /\ status'[w] = IF w = v THEN "draft" ELSE status[w]
                          /\ base'[w] = IF w = v THEN x ELSE base[w]
                          /\ w # v => rows'[w] = rows[w]
  BY DEF IInv, Tables
<1>2. \A w \in Users : task'[w] = task[w] \/ task'[w] = Idle
  BY DEF IInv, Tables
<1>3. Tables'
  BY DEF IInv, Tables
<1>4. Asking'
  BY <1>2 DEF IInv, Asking, Idle
<1>5. ~Exists(v) /\ x # v
  BY UserAssumption DEF Fresh, Exists, PlanStatus
<1>6. \A w \in Versions : Exists(w)' <=> Exists(w) \/ w = v
  BY <1>1 DEF Exists, PlanStatus
<1>7. Lineage'
  <2>1. \A w \in Versions : base'[w] # NoVersion => Exists(w)' /\ Exists(base[w])'
    <3> SUFFICES ASSUME NEW w \in Versions, base'[w] # NoVersion
                 PROVE  Exists(w)' /\ Exists(base[w])'
      OBVIOUS
    <3>1. CASE w = v
      <4>1. base'[w] = x /\ x \in Versions /\ Exists(x)
        BY <1>1, <3>1
      <4> QED
        BY <4>1, <1>6, <3>1
    <3>2. CASE w # v
      <4>1. base'[w] = base[w] /\ Exists(w) /\ Exists(base[w])
        BY <1>1, <3>2 DEF IInv, Lineage
      <4>2. base[w] \in Versions
        BY <4>1 DEF Exists
      <4> QED
        BY <4>1, <4>2, <1>6
    <3> QED
      BY <3>1, <3>2
  <2>2. ASSUME NEW S \in (SUBSET Versions) \ {{}}
        PROVE  \E w \in S : base'[w] \notin S
    <3>1. CASE v \notin S
      <4>1. PICK w \in S : base[w] \notin S
        BY DEF IInv, Lineage
      <4> QED
        BY <4>1, <3>1, <1>1
    <3>2. CASE S = {v}
      BY <3>2, <1>1, <1>5
    <3>3. CASE v \in S /\ S # {v}
      <4>1. S \ {v} \in (SUBSET Versions) \ {{}}
        BY <3>3
      <4>2. PICK w \in S \ {v} : base[w] \notin S \ {v}
        BY <4>1 DEF IInv, Lineage
      <4>3. base[w] # v
        <5>1. base[w] = NoVersion \/ Exists(base[w])
          BY <4>2 DEF IInv, Lineage
        <5> QED
          BY <5>1, <1>5, UserAssumption
      <4> QED
        BY <4>2, <4>3, <1>1
    <3> QED
      BY <3>1, <3>2, <3>3
  <2> QED
    BY <2>1, <2>2 DEF Lineage
<1>8. Rested
  <2> SUFFICES ASSUME NEW w \in Versions, AtRest(w)
               PROVE  /\ rows'[w] = rows[w] /\ status'[w] \in PlanLocked
                      /\ WritersOf(w)' \subseteq Admins
    BY DEF Rested
  <2>1. w # v
    BY DEF AtRest, Fresh, PlanLocked
  <2>2. WritersOf(w)' \subseteq WritersOf(w)
    BY <1>2 DEF WritersOf, Idle
  <2> QED
    BY <2>1, <2>2, <1>1 DEF AtRest
<1> QED
  BY <1>3, <1>4, <1>7, <1>8 DEF IInv

-----------------------------------------------------------------------------
(* Requests that read a version before they write it.                      *)

\* A request passes its check: its version is not at rest, or it is an
\* admin's.
LEMMA Admitted ==
    ASSUME IInv, NEW u \in Users, NEW t, task' = [task EXCEPT ![u] = t],
           UNCHANGED <<status, base, rows>>,
           t.pc = "status" => t.status \in PlanStatus,
           \/ status[t.ver] \notin PlanLocked
           \/ u \in Admins
           \/ t.pc = "status" /\ t.status \in PlanLocked
    PROVE  IInv' /\ Rested
<1>1. \A w \in Users : task'[w] = IF w = u THEN t ELSE task[w]
  BY DEF IInv, Tables
<1>2. IInv'
  <2>1. Tables'
    BY DEF IInv, Tables
  <2>2. Asking'
    BY <1>1 DEF IInv, Asking
  <2>3. Lineage'
    BY DEF IInv, Lineage, Exists
  <2> QED
    BY <2>1, <2>2, <2>3 DEF IInv
<1>3. Rested
  <2> SUFFICES ASSUME NEW v \in Versions, AtRest(v)
               PROVE  status[v] \in PlanLocked /\ WritersOf(v)' \subseteq Admins
    BY DEF Rested
  <2>1. ASSUME NEW w \in WritersOf(v)' PROVE w \in Admins
    <3>1. w \in Users /\ (w # u => w \in WritersOf(v))
      BY <1>1, <2>1 DEF WritersOf
    <3>2. w = u /\ t.ver = v
      BY <3>1, <1>1, <2>1 DEF AtRest, WritersOf
    <3>3. ~(t.pc = "status" /\ t.status \in PlanLocked)
      BY <3>2, <1>1, <2>1 DEF WritersOf
    <3> QED
      BY <3>2, <3>3 DEF AtRest
  <2> QED
    BY <2>1 DEF AtRest
<1> QED
  BY <1>2, <1>3

\* A request that goes on with its version, or ends.
LEMMA Continues ==
    ASSUME IInv, NEW u \in Users, NEW t, task' = [task EXCEPT ![u] = t],
           UNCHANGED <<status, base, rows>>,
           t.pc = "seeding" /\ task[u].pc = "seed" /\ t.ver = task[u].ver
    PROVE  IInv' /\ Rested
<1>1. \A w \in Users : task'[w] = IF w = u THEN t ELSE task[w]
  BY DEF IInv, Tables
<1>2. IInv'
  <2>1. Tables'
    BY DEF IInv, Tables
  <2>2. Asking'
    BY <1>1 DEF IInv, Asking
  <2>3. Lineage'
    BY DEF IInv, Lineage, Exists
  <2> QED
    BY <2>1, <2>2, <2>3 DEF IInv
<1>3. Rested
  <2> SUFFICES ASSUME NEW v \in Versions, AtRest(v)
               PROVE  status[v] \in PlanLocked /\ WritersOf(v)' \subseteq Admins
    BY DEF Rested
  <2>1. WritersOf(v)' \subseteq WritersOf(v)
    BY <1>1 DEF WritersOf
  <2> QED
    BY <2>1 DEF AtRest
<1> QED
  BY <1>2, <1>3

-----------------------------------------------------------------------------
(* Requests that write a version.                                          *)

\* Cells are written to the version the request was admitted to, which is
\* not at rest while the request is in flight.
LEMMA CellsWritten ==
    ASSUME IInv, NEW u \in Users, task[u].pc \in {"save", "seeding"}, NEW plan,
           rows' = [rows EXCEPT ![task[u].ver] = plan],
           task' = [task EXCEPT ![u] = Idle], UNCHANGED <<status, base>>
    PROVE  IInv' /\ Rested
<1>1. \A w \in Users : task'[w] = IF w = u THEN Idle ELSE task[w]
  BY DEF IInv, Tables
<1>2. IInv'
  <2>1. Tables'
    BY DEF IInv, Tables
  <2>2. Asking'
    BY <1>1 DEF IInv, Asking, Idle
  <2>3. Lineage'
    BY DEF IInv, Lineage, Exists
  <2> QED
    BY <2>1, <2>2, <2>3 DEF IInv
<1>3. Rested
  <2> SUFFICES ASSUME NEW v \in Versions, AtRest(v)
               PROVE  /\ rows'[v] = rows[v] /\ status[v] \in PlanLocked
                      /\ WritersOf(v)' \subseteq Admins
    BY DEF Rested
  <2>1. task[u].ver # v
    BY DEF AtRest, WritersOf
  <2>2. rows'[v] = rows[v]
    BY <2>1 DEF IInv, Tables
  <2>3. WritersOf(v)' \subseteq WritersOf(v)
    BY <1>1 DEF WritersOf, Idle
  <2> QED
    BY <2>2, <2>3 DEF AtRest
<1> QED
  BY <1>2, <1>3

\* A status is set to what was asked; of a version at rest only a locking
\* one can be on its way.
LEMMA StatusSet ==
    ASSUME IInv, NEW u \in Users, SetStatus(u)
    PROVE  IInv' /\ Rested
<1> DEFINE v == task[u].ver
<1>1. \A w \in Users : task'[w] = IF w = u THEN Idle ELSE task[w]
  BY DEF IInv, Tables, SetStatus, Done
<1>2. \A w \in Versions : status'[w] = IF w = v /\ Exists(v) THEN task[u].status ELSE status[w]
  BY DEF IInv, Tables, SetStatus
<1>3. task[u].pc = "status" /\ task[u].status \in PlanStatus
  BY DEF SetStatus, At, IInv, Asking
<1>4. Tables'
  BY DEF IInv, Tables, SetStatus, Done
<1>5. Asking'
  BY <1>1 DEF IInv, Asking, Idle
<1>6. \A w : Exists(w)' <=> Exists(w)
  BY <1>2, <1>3 DEF Exists
<1>7. Lineage'
  BY <1>6 DEF IInv, Lineage, SetStatus
<1>8. Rested
  <2> SUFFICES ASSUME NEW w \in Versions, AtRest(w)
               PROVE  /\ rows'[w] = rows[w] /\ status'[w] \in PlanLocked
                      /\ WritersOf(w)' \subseteq Admins
    BY DEF Rested
  <2>1. WritersOf(w)' \subseteq WritersOf(w)
    BY <1>1 DEF WritersOf, Idle
  <2>2. v = w => task[u].status \in PlanLocked
    BY <1>3 DEF AtRest, WritersOf
  <2> QED
    BY <2>1, <2>2, <1>2 DEF AtRest, SetStatus
<1> QED
  BY <1>4, <1>5, <1>7, <1>8 DEF IInv

\* A version that is deleted takes its lineage with it.
LEMMA VersionDeleted ==
    ASSUME IInv, NEW u \in Users, DeleteVersion(u)
    PROVE  IInv' /\ Rested
<1> DEFINE v == task[u].ver
<1>1. \A w \in Users : task'[w] = IF w = u THEN Idle ELSE task[w]
  BY DEF IInv, Tables, DeleteVersion, Done
<1>2. \A w \in Versions : /\ status'[w] = IF w = v THEN "gone" ELSE status[w]
                          /\ base'[w] = IF w = v \/ base[w] = v THEN NoVersion ELSE base[w]
                          /\ w # v => rows'[w] = rows[w]
  BY DEF IInv, Tables, DeleteVersion
<1>3. Tables'
  BY DEF IInv, Tables, DeleteVersion, Done
<1>4. Asking'
  BY <1>1 DEF IInv, Asking, Idle
<1>5. Lineage'
  <2>1. ASSUME NEW w \in Versions, base'[w] # NoVersion
        PROVE  Exists(w)' /\ Exists(base[w])'
    <3>1. w # v /\ base[w] # v /\ base'[w] = base[w]
      BY <1>2, <2>1
    <3>2. Exists(w) /\ Exists(base[w])
      BY <3>1, <2>1 DEF IInv, Lineage
    <3> QED
      BY <3>1, <3>2, <1>2 DEF Exists
  <2>2. ASSUME NEW S \in (SUBSET Versions) \ {{}}
        PROVE  \E w \in S : base'[w] \notin S
    <3>1. PICK w \in S : base[w] \notin S
      BY DEF IInv, Lineage
    <3> QED
      BY <3>1, <1>2, UserAssumption
  <2> QED
    BY <2>1, <2>2 DEF Lineage
<1>6. Rested
  <2> SUFFICES ASSUME NEW w \in Versions, AtRest(w)
               PROVE  /\ rows'[w] = rows[w] /\ status'[w] \in PlanLocked
                      /\ WritersOf(w)' \subseteq Admins
    BY DEF Rested
  <2>1. WritersOf(w)' \subseteq WritersOf(w)
    BY <1>1 DEF WritersOf, Idle
  <2>2. v # w
    BY DEF AtRest, WritersOf, DeleteVersion, At
  <2> QED
    BY <2>1, <2>2, <1>2 DEF AtRest
<1> QED
  BY <1>3, <1>4, <1>5, <1>6 DEF IInv

-----------------------------------------------------------------------------
(* The specification.                                                      *)

\* An empty database, with no request in flight, satisfies the invariant.
LEMMA Start == ASSUME Init PROVE IInv
<1>1. Tables /\ Asking
  BY DEF Init, Tables, Asking, Idle
<1>2. Lineage
  BY UserAssumption DEF Init, Lineage
<1> QED
  BY <1>1, <1>2 DEF IInv

\* The requests that read or write the budget.
LEMMA BudgetKeeps ==
    ASSUME IInv, NEW u \in Users,
           \/ ReadDominant(u) \/ SaveMixedGrid(u) \/ SaveGrid(u) \/ DeleteBudgetRow(u)
           \/ ReadMonths(u) \/ ImportMonths(u) \/ ReadGroups(u) \/ CollapseToWeek1(u)
           \/ Abort(u)
    PROVE  IInv' /\ Rested
<1>1. CASE ReadDominant(u)
  <2>1. PICK x : Do(u, Task("grid", NoVersion, x, budget))
    BY <1>1 DEF ReadDominant
  <2> QED
    BY <2>1, <1>1, Reads DEF ReadDominant, Harmless
<1>2. CASE SaveMixedGrid(u) \/ ImportMonths(u) \/ CollapseToWeek1(u) \/ Abort(u)
  BY <1>2, Ends DEF SaveMixedGrid, ImportMonths, CollapseToWeek1, Abort
<1>3. CASE SaveGrid(u) \/ DeleteBudgetRow(u)
  BY <1>3, Unchanged DEF SaveGrid, DeleteBudgetRow
<1>4. CASE ReadMonths(u)
  BY <1>4, Reads DEF ReadMonths, Harmless
<1>5. CASE ReadGroups(u)
  BY <1>5, Reads DEF ReadGroups, Harmless
<1> QED
  BY <1>1, <1>2, <1>3, <1>4, <1>5

\* The requests that make a version.
LEMMA MakingKeeps ==
    ASSUME IInv, NEW u \in Users, NEW v \in Versions,
           CreateVersion(u, v) \/ ImportPlan(u, v) \/ ReadSource(u, v) \/ CopyVersion(u, v)
    PROVE  IInv' /\ Rested
<1>1. CASE CreateVersion(u, v)
  <2>1. PICK x \in {NoVersion} \cup {y \in Versions : Exists(y)} : base' = [base EXCEPT ![v] = x]
    BY <1>1 DEF CreateVersion
  <2> QED
    BY <2>1, <1>1, Born DEF CreateVersion, IInv, Tables
<1>2. CASE ImportPlan(u, v)
  <2>1. PICK sheet : rows' = [rows EXCEPT ![v] = sheet]
    BY <1>2 DEF ImportPlan
  <2>2. base[v] = NoVersion
    BY <1>2 DEF ImportPlan, Fresh, IInv, Lineage, Exists, PlanStatus
  <2>3. base' = base /\ UNCHANGED task /\ Fresh(v) /\ status' = [status EXCEPT ![v] = "draft"]
    BY <1>2 DEF ImportPlan
  <2> QED
    BY <2>1, <2>2, <2>3, Born DEF IInv, Tables
<1>3. CASE ReadSource(u, v)
  BY <1>3, Reads DEF ReadSource, Harmless
<1>4. CASE CopyVersion(u, v)
  <2>1. task[u].ver \in {y \in Versions : Exists(y)}
    BY <1>4 DEF CopyVersion, Exists
  <2> QED
    BY <2>1, <1>4, Born DEF CopyVersion, Done, IInv, Tables
<1> QED
  BY <1>1, <1>2, <1>3, <1>4

\* The requests that check a version.
LEMMA CheckingKeeps ==
    ASSUME IInv, NEW u \in Users, NEW v \in Versions,
           CheckWritable(u, v) \/ \E s \in Asked : ReadForStatus(u, v, s)
    PROVE  IInv' /\ Rested
<1>1. CASE CheckWritable(u, v)
  <2>1. PICK pc \in {"save", "seed", "delete"} : Do(u, Task(pc, v, "none", NoBudget))
    BY <1>1 DEF CheckWritable
  <2> DEFINE t == Task(pc, v, "none", NoBudget)
  <2>2. t.pc # "status" /\ t.ver = v
    BY <2>1 DEF Task
  <2>3. status[t.ver] \notin PlanLocked /\ UNCHANGED <<status, base, rows>>
    BY <1>1, <2>2 DEF CheckWritable
  <2>4. task' = [task EXCEPT ![u] = t]
    BY <2>1 DEF Do
  <2> HIDE DEF t
  <2> QED
    BY <2>2, <2>3, <2>4, Admitted
<1>2. CASE \E s \in Asked : ReadForStatus(u, v, s)
  <2>1. PICK s \in Asked : ReadForStatus(u, v, s)
    BY <1>2
  <2> DEFINE t == Task("status", v, s, NoBudget)
  <2>2. t.pc = "status" /\ t.ver = v /\ t.status = s
    BY DEF Task
  <2>3. task' = [task EXCEPT ![u] = t] /\ UNCHANGED <<status, base, rows>>
    BY <2>1 DEF ReadForStatus, Do
  <2>4. status[v] \notin PlanLocked \/ u \in Admins \/ s \in PlanLocked
    BY <2>1 DEF ReadForStatus
  <2>5. s \in PlanStatus
    BY StatusAssumption
  <2> HIDE DEF t
  <2> QED
    BY <2>2, <2>3, <2>4, <2>5, Admitted
<1> QED
  BY <1>1, <1>2

\* The requests that write a version.
LEMMA WritingKeeps ==
    ASSUME IInv, NEW u \in Users,
           SetStatus(u) \/ DeleteVersion(u) \/ SavePlanWeeks(u) \/ ReadBudget(u) \/ SeedPlan(u)
    PROVE  IInv' /\ Rested
<1>1. CASE SetStatus(u) \/ DeleteVersion(u)
  BY <1>1, StatusSet, VersionDeleted
<1>2. CASE SavePlanWeeks(u)
  <2>1. PICK plan : rows' = [rows EXCEPT ![task[u].ver] = plan]
    BY <1>2 DEF SavePlanWeeks
  <2> QED
    BY <2>1, <1>2, CellsWritten DEF SavePlanWeeks, At, Done
<1>3. CASE ReadBudget(u)
  BY <1>3, Continues DEF ReadBudget, Do, Task, At
<1>4. CASE SeedPlan(u)
  <2>1. PICK plan : rows' = [rows EXCEPT ![task[u].ver] = plan]
    BY <1>4 DEF SeedPlan
  <2> QED
    BY <2>1, <1>4, CellsWritten DEF SeedPlan, At, Done
<1> QED
  BY <1>1, <1>2, <1>3, <1>4

\* Every step keeps the invariant and leaves the versions at rest alone.
LEMMA Stepwise == ASSUME IInv, [Next]_vars PROVE IInv' /\ Rested
<1>1. CASE UNCHANGED vars
  BY <1>1, Unchanged DEF vars
<1>2. CASE Next
  BY <1>2, BudgetKeeps, MakingKeeps, CheckingKeeps, WritingKeeps DEF Next
<1> QED
  BY <1>1, <1>2

\* The lineage of plan versions stays in order: what create_plan_version(),
\* copy_plan_version() and delete_plan_version() leave, in any order and with
\* requests that read before others wrote, is a forest of versions that exist.
THEOREM NoLostLineage == Spec => []Lineage
<1>1. Spec => []IInv
  BY Start, Stepwise, PTL DEF Spec
<1>2. IInv => Lineage
  BY DEF IInv
<1> QED
  BY <1>1, <1>2, PTL

\* An approved or locked plan that no admitted request is still writing to
\* keeps its rows and stays locked, until an admin asks to re-open it
\* (check_version_writable(), set_plan_version_status()).
THEOREM LockedPlansRest == Spec => LockedRests
<1>1. Spec => []IInv
  BY Start, Stepwise, PTL DEF Spec
<1>2. IInv /\ [Next]_vars =>
        [\A v \in Versions : AtRest(v) =>
           /\ rows'[v] = rows[v]
           /\ status'[v] \in PlanLocked
           /\ WritersOf(v)' \subseteq Admins]_vars
  BY Stepwise DEF Rested
<1> QED
  BY <1>1, <1>2, PTL DEF Spec, LockedRests

-----------------------------------------------------------------------------
(* The rows of a cell.                                                     *)

AtMostOne(cell) == cell = <<>> \/ \E r : cell = <<r>>

CellInv == \A v \in Versions \ imported : \A c \in Cells : AtMostOne(rows[v][c])

\* Writing a cell that has a row updates it, and removing zeros adds none.
LEMMA UpsertedOnce ==
  ASSUME NEW cell, NEW row, AtMostOne(cell)
  PROVE  AtMostOne(Upserted(cell, row))
BY DEF AtMostOne, Upserted

LEMMA ZerosRemoved ==
  ASSUME NEW cell, AtMostOne(cell)
  PROVE  AtMostOne(WithoutZeros(cell))
<1>. DEFINE Next1(k) == [i \in 0 .. Len(cell) |->
              IF i = 0 THEN <<>>
              ELSE IF NonZero(cell[i]) THEN Append(k[i - 1], cell[i]) ELSE k[i - 1]]
            f == [i \in 0 .. Len(cell) |->
                    IF i = 0 THEN <<>> ELSE IF NonZero(cell[i]) THEN <<cell[i]>> ELSE <<>>]
            kept == CHOOSE k : k = Next1(k)
<1>1. WithoutZeros(cell) = kept[Len(cell)]
  BY DEF WithoutZeros
<1>2. Len(cell) \in {0, 1}
  BY DEF AtMostOne
<1>0. \A r : Append(<<>>, r) = <<r>>
  OBVIOUS
<1>3. f = Next1(f)
  <2>1. \A i \in 0 .. Len(cell) : i # 0 => i = 1 /\ f[i - 1] = <<>>
    BY <1>2
  <2>2. \A i \in 0 .. Len(cell) : f[i] = Next1(f)[i]
    BY <1>0, <2>1
  <2>. QED BY <2>2
<1>4. kept = Next1(kept)
  BY <1>3
<1>. HIDE DEF kept
<1>5. kept[0] = <<>>
  BY <1>2, <1>4
<1>6. Len(cell) = 1 => kept[1] = <<>> \/ kept[1] = <<cell[1]>>
  <2>1. Len(cell) = 1 => kept[1] = IF NonZero(cell[1]) THEN Append(kept[0], cell[1]) ELSE kept[0]
    BY <1>4
  <2>. QED BY <1>0, <1>5, <2>1
<1>. QED BY <1>1, <1>2, <1>5, <1>6 DEF AtMostOne

LEMMA CellsKept ==
  ASSUME IInv, CellInv, [Next]_vars
  PROVE  CellInv'
<1>. USE DEF CellInv
<1>1. ASSUME UNCHANGED <<rows, imported>> PROVE CellInv'
  BY <1>1
<1>2. ASSUME NEW u \in Users, NEW v \in Versions, ImportPlan(u, v) PROVE CellInv'
  BY <1>2 DEF ImportPlan, IInv, Tables
<1>3. ASSUME NEW u \in Users, NEW v \in Versions, CopyVersion(u, v) PROVE CellInv'
  <2>1. /\ task[u].ver \in Versions
        /\ rows' = [rows EXCEPT ![v] = rows[task[u].ver]]
        /\ imported' = IF task[u].ver \in imported THEN imported \cup {v} ELSE imported
    BY <1>3 DEF CopyVersion, Exists
  <2>. QED BY <2>1 DEF IInv, Tables
<1>4. ASSUME NEW u \in Users, DeleteVersion(u) PROVE CellInv'
  BY <1>4 DEF DeleteVersion, NoPlan, AtMostOne, IInv, Tables
<1>5. ASSUME NEW u \in Users, SavePlanWeeks(u) PROVE CellInv'
  <2>. DEFINE v == task[u].ver
  <2>1. PICK S \in SUBSET Cells, x \in Certainties : \E grid \in [S -> Amounts] :
          rows' = [rows EXCEPT ![v] = [c \in Cells |->
                     WithoutZeros(IF c \in S THEN Upserted(rows[v][c], Row(grid[c], x))
                                  ELSE rows[v][c])]]
    BY <1>5 DEF SavePlanWeeks
  <2>2. PICK grid \in [S -> Amounts] :
          rows' = [rows EXCEPT ![v] = [c \in Cells |->
                     WithoutZeros(IF c \in S THEN Upserted(rows[v][c], Row(grid[c], x))
                                  ELSE rows[v][c])]]
    BY <2>1
  <2>3. imported' = imported /\ v \in Versions
    BY <1>5 DEF SavePlanWeeks, Exists
  <2>4. ASSUME v \notin imported, NEW c \in Cells
        PROVE  AtMostOne(WithoutZeros(IF c \in S THEN Upserted(rows[v][c], Row(grid[c], x))
                                      ELSE rows[v][c]))
    BY <2>3, <2>4, UpsertedOnce, ZerosRemoved
  <2>5. ASSUME NEW w \in Versions \ imported, NEW c \in Cells PROVE AtMostOne(rows'[w][c])
    BY <2>2, <2>3, <2>4, <2>5 DEF IInv, Tables
  <2>. QED BY <2>3, <2>5
<1>6. ASSUME NEW u \in Users, SeedPlan(u) PROVE CellInv'
  <2>. DEFINE v == task[u].ver
  <2>1. /\ imported' = imported /\ v \in Versions
        /\ rows' = [rows EXCEPT ![v] = [c \in Cells |->
                     IF task[u].seen[c].amount # 0 THEN Upserted(rows[v][c], task[u].seen[c])
                     ELSE rows[v][c]]]
    BY <1>6 DEF SeedPlan, Exists
  <2>2. ASSUME v \notin imported, NEW c \in Cells
        PROVE  AtMostOne(IF task[u].seen[c].amount # 0 THEN Upserted(rows[v][c], task[u].seen[c])
                         ELSE rows[v][c])
    BY <2>1, <2>2, UpsertedOnce
  <2>3. ASSUME NEW w \in Versions \ imported, NEW c \in Cells PROVE AtMostOne(rows'[w][c])
    BY <2>1, <2>2, <2>3 DEF IInv, Tables
  <2>. QED BY <2>1, <2>3
<1>. HIDE DEF CellInv
<1>7. ASSUME NEW u \in Users,
             \/ ReadDominant(u) \/ SaveMixedGrid(u) \/ SaveGrid(u) \/ DeleteBudgetRow(u)
             \/ ReadMonths(u) \/ ImportMonths(u) \/ ReadGroups(u) \/ CollapseToWeek1(u)
             \/ SetStatus(u) \/ ReadBudget(u) \/ Abort(u)
      PROVE  CellInv'
  BY <1>1, <1>7 DEF ReadDominant, SaveMixedGrid, SaveGrid, DeleteBudgetRow, ReadMonths,
     ImportMonths, ReadGroups, CollapseToWeek1, SetStatus, ReadBudget, Abort
<1>8. ASSUME NEW u \in Users, NEW v \in Versions,
             \/ CreateVersion(u, v) \/ ReadSource(u, v) \/ CheckWritable(u, v)
             \/ \E s \in Asked : ReadForStatus(u, v, s)
      PROVE  CellInv'
  BY <1>1, <1>8 DEF CreateVersion, ReadSource, CheckWritable, ReadForStatus
<1>9. CASE UNCHANGED vars
  BY <1>1, <1>9 DEF vars
<1>. QED BY <1>2, <1>3, <1>4, <1>5, <1>6, <1>7, <1>8, <1>9 DEF Next

\* A cell of a version that no sheet was read into has one row, whoever saves
\* and seeds it at once (upsert_plan_week(), save_plan_weeks()).
THEOREM OneRow == Spec => []OneRowPerCell
<1>1. Init => IInv /\ CellInv
  BY Start DEF Init, CellInv, NoPlan, AtMostOne
<1>2. IInv /\ CellInv /\ [Next]_vars => (IInv /\ CellInv)'
  BY Stepwise, CellsKept
<1>3. IInv /\ CellInv => OneRowPerCell
  <2>1. ASSUME NEW cell, AtMostOne(cell) PROVE Len(cell) <= 1
    <3>1. Len(cell) \in {0, 1}
      BY <2>1 DEF AtMostOne
    <3>2. \A n \in {0, 1} : n <= 1
      OBVIOUS
    <3>. QED BY <3>1, <3>2
  <2>. QED BY <2>1 DEF CellInv, OneRowPerCell
<1>. QED BY <1>1, <1>2, <1>3, PTL DEF Spec

-----------------------------------------------------------------------------
(* The amounts of the budget.                                              *)

Budgets == [Cells -> BudgetRows]

\* What a new cell inherits is a certainty.
Tasks == {t \in [pc : Step, ver : Versions \cup {NoVersion},
                 status : PlanStatus \cup Certainties \cup {"none"}, seen : Budgets] :
            t.pc = "grid" => t.status \in Certainties \cup {"none"}}

BudgetInv == budget \in Budgets /\ task \in [Users -> Tasks]

LEMMA FiniteCells ==
  /\ IsFiniteSet(Cells)
  /\ \A m \in Months : IsFiniteSet(CellsOf(m)) /\ CellsOf(m) \in SUBSET Cells
                       /\ <<m, 1>> \in CellsOf(m)
<1>1. IsFiniteSet(Cells)
  BY CellAssumption, FS_Product DEF Cells
<1>2. \A m \in Months : CellsOf(m) \in SUBSET Cells /\ <<m, 1>> \in CellsOf(m)
  BY CellAssumption DEF Cells, CellsOf
<1>. QED BY <1>1, <1>2, FS_Subset

LEMMA SumOfTyped ==
  ASSUME NEW b \in Budgets, NEW S \in SUBSET Cells
  PROVE  IsFiniteSet(S) /\ (\A c \in S : b[c].amount \in Int) /\ SumOf(b, S) \in Int
<1>1. IsFiniteSet(S)
  BY FiniteCells, FS_Subset
<1>2. \A c \in Cells : b[c].amount \in Int
  BY DEF Budgets, BudgetRows
<1>. QED BY <1>1, <1>2, SumInt DEF SumOf

\* The week that collapse_budget_to_week1() takes the certainty from is there.
LEMMA KeptIsARow ==
  ASSUME NEW b \in Budgets, NEW m \in Months, RowsIn(b, CellsOf(m)) # {}
  PROVE  \E c \in RowsIn(b, CellsOf(m)) : Kept(b, m) = b[c].certainty
<1>. DEFINE used == RowsIn(b, CellsOf(m))
            size == [c \in used |-> Abs(b[c].amount)]
            Better(c, d) == \/ Abs(b[c].amount) > Abs(b[d].amount)
                            \/ Abs(b[c].amount) = Abs(b[d].amount) /\ c[2] <= d[2]
<1>1. used \in SUBSET Cells /\ IsFiniteSet(used) /\ used # {}
  BY FiniteCells, FS_Subset DEF RowsIn
<1>2. \A c \in used : size[c] \in Int /\ c[2] \in Int /\ size[c] = Abs(b[c].amount)
  <2>1. \A c \in used : c \in Cells
    BY <1>1
  <2>2. \A c \in Cells : c[2] \in Int
    <3>1. \A c \in Cells : c[2] \in Weeks
      BY DEF Cells
    <3>2. \A w \in Weeks : w \in Int
      BY CellAssumption
    <3>. QED BY <3>1, <3>2
  <2>3. \A c \in used : b[c].amount \in Int
    BY <2>1 DEF Budgets, BudgetRows
  <2>. QED BY <2>1, <2>2, <2>3 DEF Abs
<1>. HIDE DEF used, size
<1>3. PICK x \in used : \A y \in used : size[y] <= size[x]
  BY <1>1, <1>2, Greatest
<1>. DEFINE big == {c \in used : size[c] = size[x]}
            early == [c \in big |-> -c[2]]
<1>4. IsFiniteSet(big) /\ big # {} /\ \A c \in big : early[c] \in Int /\ early[c] = -c[2]
  BY <1>1, <1>2, FS_Subset
<1>. HIDE DEF big, early
<1>5. PICK c \in big : \A d \in big : early[d] <= early[c]
  BY <1>4, Greatest
<1>6. c \in used /\ \A d \in used : Better(c, d)
  <2>. SUFFICES ASSUME NEW d \in used PROVE c \in used /\ Better(c, d)
    BY <1>1
  <2>1. c \in used /\ size[c] = size[x]
    BY <1>5 DEF big
  <2>2. CASE d \in big
    <3>1. c[2] <= d[2]
      BY <1>2, <1>4, <1>5, <2>1, <2>2
    <3>2. size[c] = size[d]
      BY <2>1, <2>2 DEF big
    <3>. QED BY <1>2, <2>1, <3>1, <3>2
  <2>3. CASE d \notin big
    <3>1. size[d] # size[x] /\ size[d] <= size[x]
      BY <1>3, <2>3 DEF big
    <3>. QED BY <1>2, <2>1, <3>1
  <2>. QED BY <2>2, <2>3
<1>7. Kept(b, m) = b[CHOOSE e \in used : \A d \in used : Better(e, d)].certainty
  BY <1>1 DEF Kept, used
<1>8. (CHOOSE e \in used : \A d \in used : Better(e, d)) \in used
  BY <1>6
<1>. QED BY <1>7, <1>8 DEF used

LEMMA FoldedTyped ==
  ASSUME NEW seen \in Budgets, NEW b \in Budgets
  PROVE  Folded(seen, b) \in Budgets
<1>. SUFFICES ASSUME NEW c \in Cells PROVE Folded(seen, b)[c] \in BudgetRows
  BY DEF Folded, Budgets
<1>1. c[1] \in Months
  BY DEF Cells
<1>2. MonthTotal(seen, c[1]) \in Int
  BY <1>1, FiniteCells, SumOfTyped DEF MonthTotal
<1>3. Kept(b, c[1]) \in Certainties \cup {"none"}
  <2>1. CASE RowsIn(b, CellsOf(c[1])) = {}
    BY <2>1, CellAssumption DEF Kept
  <2>2. CASE RowsIn(b, CellsOf(c[1])) # {}
    <3>1. PICK d \in RowsIn(b, CellsOf(c[1])) : Kept(b, c[1]) = b[d].certainty
      BY <1>1, <2>2, KeptIsARow
    <3>2. d \in Cells
      BY <1>1, FiniteCells DEF RowsIn
    <3>. QED BY <3>1, <3>2 DEF Budgets, BudgetRows
  <2>. QED BY <2>1, <2>2
<1>4. b[c] \in BudgetRows /\ NoRow \in BudgetRows
  BY DEF Budgets, BudgetRows, NoRow, Row
<1>. QED BY <1>2, <1>3, <1>4 DEF Folded, BudgetRows, Row

\* Folding a budget that nobody wrote meanwhile.
LEMMA FoldIsExact ==
  ASSUME NEW b \in Budgets, NEW m \in Months
  PROVE  /\ MonthTotal(Folded(b, b), m) = MonthTotal(b, m)
         /\ ~NeedsFold(Folded(b, b), m)
<1>. DEFINE new == Folded(b, b)
            amounts == [c \in Cells |-> new[c].amount]
<1>1. new \in Budgets /\ MonthTotal(b, m) \in Int
  BY FiniteCells, FoldedTyped, SumOfTyped DEF MonthTotal
<1>2. IsFiniteSet(CellsOf(m)) /\ CellsOf(m) \in SUBSET Cells /\ <<m, 1>> \in CellsOf(m)
      /\ \A c \in CellsOf(m) : c[1] = m /\ (c[2] = 1 => c = <<m, 1>>)
  BY FiniteCells DEF CellsOf
<1>3. \A c \in CellsOf(m) : new[c] = IF ~NeedsFold(b, m) THEN b[c]
                                     ELSE IF c[2] = 1 THEN Row(MonthTotal(b, m), Kept(b, m))
                                     ELSE NoRow
  BY <1>2 DEF Folded
<1>. HIDE DEF new
<1>4. CASE ~NeedsFold(b, m)
  <2>1. \A c \in CellsOf(m) : new[c] = b[c]
    BY <1>3, <1>4
  <2>2. MonthTotal(new, m) = MonthTotal(b, m)
    <3>. DEFINE f == [c \in Cells |-> new[c].amount]
                g == [c \in Cells |-> b[c].amount]
    <3>1. \A c \in CellsOf(m) : f[c] = g[c]
      BY <1>2, <2>1
    <3>. HIDE DEF f, g
    <3>2. SumFunctionOnSet(f, CellsOf(m)) = SumFunctionOnSet(g, CellsOf(m))
      BY <1>2, <3>1, SumSame
    <3>. QED BY <3>2 DEF MonthTotal, SumOf, f, g
  <2>3. RowsIn(new, CellsOf(m)) = RowsIn(b, CellsOf(m))
    BY <2>1 DEF RowsIn
  <2>. QED BY <1>4, <2>2, <2>3 DEF NeedsFold, new
<1>5. CASE NeedsFold(b, m)
  <2>1. new[<<m, 1>>].amount = MonthTotal(b, m)
        /\ \A c \in CellsOf(m) \ {<<m, 1>>} : new[c] = NoRow
    BY <1>2, <1>3, <1>5 DEF Row
  <2>2. MonthTotal(new, m) = MonthTotal(b, m)
    <3>1. \A c \in CellsOf(m) \ {<<m, 1>>} : amounts[c] = 0
      BY <1>2, <2>1 DEF NoRow, Row
    <3>2. amounts[<<m, 1>>] = MonthTotal(b, m)
      BY <1>2, <2>1
    <3>. HIDE DEF amounts
    <3>3. SumFunctionOnSet(amounts, CellsOf(m)) = amounts[<<m, 1>>]
      BY <1>1, <1>2, <3>1, <3>2, SumSingle
    <3>. QED BY <3>2, <3>3 DEF MonthTotal, SumOf, amounts
  <2>3. RowsIn(new, CellsOf(m)) \subseteq {<<m, 1>>}
    BY <2>1 DEF RowsIn
  <2>. QED BY <2>2, <2>3 DEF NeedsFold, new
<1>. QED BY <1>4, <1>5

LEMMA FoldKeepsCertainty ==
  ASSUME NEW b \in Budgets, NEW x \in Certainties, AllAre(b, x)
  PROVE  AllAre(Folded(b, b), x)
<1>. SUFFICES ASSUME NEW c \in Cells, Folded(b, b)[c] # NoRow
              PROVE  Folded(b, b)[c].certainty = x
  BY DEF AllAre, RowsIn
<1>1. CASE ~NeedsFold(b, c[1])
  BY <1>1 DEF Folded, AllAre, RowsIn
<1>2. CASE NeedsFold(b, c[1])
  <2>1. c[1] \in Months /\ RowsIn(b, CellsOf(c[1])) # {}
    BY <1>2 DEF Cells, NeedsFold
  <2>2. PICK d \in RowsIn(b, CellsOf(c[1])) : Kept(b, c[1]) = b[d].certainty
    BY <2>1, KeptIsARow
  <2>3. d \in RowsIn(b, Cells)
    BY <2>1, FiniteCells DEF RowsIn
  <2>4. Kept(b, c[1]) = x
    BY <2>2, <2>3 DEF AllAre
  <2>5. Folded(b, b)[c].certainty = Kept(b, c[1])
    BY <1>2 DEF Folded, Row
  <2>. QED BY <2>4, <2>5
<1>. QED BY <1>1, <1>2

\* upsert_budget_month(): the last week of the shape is one of it, and every
\* week's part is a whole amount.
LEMMA LastIsOne ==
  ASSUME NEW S, IsFiniteSet(S), S # {}, S \in SUBSET Cells
  PROVE  LastOf(S) \in S
<1>. DEFINE week == [c \in S |-> c[2]]
<1>1. \A c \in S : c[2] \in Int
  <2>1. \A c \in S : c[2] \in Weeks
    BY DEF Cells
  <2>2. \A w \in Weeks : w \in Int
    BY CellAssumption
  <2>. QED BY <2>1, <2>2
<1>2. \A c \in S : week[c] \in Int /\ week[c] = c[2]
  BY <1>1
<1>. HIDE DEF week
<1>3. PICK c \in S : \A d \in S : week[d] <= week[c]
  BY <1>2, Greatest
<1>4. \A d \in S : d[2] <= c[2]
  BY <1>2, <1>3
<1>. QED BY <1>4 DEF LastOf

LEMMA RoundedTyped ==
  ASSUME NEW x \in Int, NEW n \in Int, n # 0
  PROVE  Rounded(x, n) \in Int
<1>1. CASE n > 0
  <2>1. 2 * x + n \in Int /\ 2 * n \in Int /\ 2 * n > 0
    BY <1>1
  <2>2. \A a, d \in Int : d > 0 => a \div d \in Int
    OBVIOUS
  <2>. QED BY <1>1, <2>1, <2>2 DEF Rounded
<1>2. CASE ~(n > 0)
  <2>1. -2 * x - n \in Int /\ -2 * n \in Int /\ -2 * n > 0
    BY <1>2
  <2>2. \A a, d \in Int : d > 0 => a \div d \in Int
    OBVIOUS
  <2>. QED BY <1>2, <2>1, <2>2 DEF Rounded
<1>. QED BY <1>1, <1>2

LEMMA ShareTyped ==
  ASSUME NEW b \in Budgets, NEW m \in Months, NEW amount \in Int, NEW c \in Cells,
         MonthTotal(b, m) # 0
  PROVE  Share(b, m, amount, c) \in Int
<1>1. MonthTotal(b, m) \in Int
  BY FiniteCells, SumOfTyped DEF MonthTotal
<1>2. b[c].amount \in Int
  BY DEF Budgets, BudgetRows
<1>3. amount * b[c].amount \in Int
  BY <1>2
<1>. QED BY <1>1, <1>3, RoundedTyped DEF Share

\* What a month is rescaled to, cell by cell.
ByShape(seen, b, m, amount, new) ==
    LET shape == Shape(seen, m)
        share == [d \in shape |-> Share(seen, m, amount, d)]
        last == LastOf(shape) IN
    /\ last \in shape
    /\ \A d \in shape : share[d] \in Int
    /\ new[last] = PutAmount(b, last, amount - SumFunctionOnSet(share, shape \ {last}))
    /\ \A c \in shape \ {last} : new[c] = PutAmount(b, c, share[c])
    /\ \A c \in CellsOf(m) \ shape : new[c] = b[c]

ToWeek1(seen, b, m, amount, new) ==
    /\ new[<<m, 1>>] = PutAmount(b, <<m, 1>>, amount)
    /\ \A c \in CellsOf(m) \ {<<m, 1>>} : new[c] = IF seen[c] # NoRow THEN NoRow ELSE b[c]

LEMMA RescaledCases ==
  ASSUME NEW seen \in Budgets, NEW b \in Budgets, NEW m \in Months, NEW amount \in Int
  PROVE  LET new == Rescaled(seen, b, m, amount) IN
         IF Shape(seen, m) = {} \/ MonthTotal(seen, m) = 0
         THEN ToWeek1(seen, b, m, amount, new)
         ELSE ByShape(seen, b, m, amount, new)
<1>. DEFINE new == Rescaled(seen, b, m, amount)
            shape == Shape(seen, m)
            share == [d \in shape |-> Share(seen, m, amount, d)]
            last == LastOf(shape)
<1>1. IsFiniteSet(CellsOf(m)) /\ CellsOf(m) \in SUBSET Cells /\ <<m, 1>> \in CellsOf(m)
      /\ \A c \in CellsOf(m) : (c[2] = 1 <=> c = <<m, 1>>)
  BY FiniteCells DEF CellsOf
<1>2. CASE shape = {} \/ MonthTotal(seen, m) = 0
  <2>1. \A c \in CellsOf(m) : new[c] = IF c[2] = 1 THEN PutAmount(b, c, amount)
                                       ELSE IF seen[c] # NoRow THEN NoRow ELSE b[c]
    BY <1>2 DEF Rescaled
  <2>. QED BY <1>1, <1>2, <2>1 DEF ToWeek1
<1>3. CASE ~(shape = {} \/ MonthTotal(seen, m) = 0)
  <2>1. shape \in SUBSET CellsOf(m) /\ IsFiniteSet(shape) /\ shape # {}
    BY <1>1, <1>3, FS_Subset DEF Shape
  <2>2. last \in shape
    BY <1>1, <2>1, LastIsOne
  <2>3. \A d \in shape : share[d] \in Int
    BY <1>1, <1>3, <2>1, ShareTyped
  <2>4. \A c \in CellsOf(m) :
          new[c] = IF c \in shape
                   THEN PutAmount(b, c, IF c = last
                                        THEN amount - SumFunctionOnSet(share, shape \ {c})
                                        ELSE Share(seen, m, amount, c))
                   ELSE b[c]
    BY <1>3 DEF Rescaled
  <2>5. /\ new[last] = PutAmount(b, last, amount - SumFunctionOnSet(share, shape \ {last}))
        /\ \A c \in shape \ {last} : new[c] = PutAmount(b, c, share[c])
        /\ \A c \in CellsOf(m) \ shape : new[c] = b[c]
    BY <2>1, <2>2, <2>4
  <2>. QED BY <1>3, <2>2, <2>3, <2>5 DEF ByShape
<1>. QED BY <1>2, <1>3

LEMMA PutTyped ==
  ASSUME NEW b \in Budgets, NEW c \in Cells, NEW amount \in Int
  PROVE  /\ PutAmount(b, c, amount) \in BudgetRows
         /\ PutAmount(b, c, amount).amount = amount
BY CellAssumption DEF Budgets, BudgetRows, PutAmount, Row

LEMMA RescaledTyped ==
  ASSUME NEW seen \in Budgets, NEW b \in Budgets, NEW m \in Months, NEW amount \in Int
  PROVE  \A c \in CellsOf(m) : Rescaled(seen, b, m, amount)[c] \in BudgetRows
<1>. DEFINE new == Rescaled(seen, b, m, amount)
            shape == Shape(seen, m)
            share == [d \in shape |-> Share(seen, m, amount, d)]
            last == LastOf(shape)
<1>. SUFFICES \A c \in CellsOf(m) : new[c] \in BudgetRows
  OBVIOUS
<1>1. IsFiniteSet(CellsOf(m)) /\ CellsOf(m) \in SUBSET Cells /\ <<m, 1>> \in CellsOf(m)
  BY FiniteCells
<1>2. \A c \in CellsOf(m) : b[c] \in BudgetRows /\ NoRow \in BudgetRows
  BY <1>1 DEF Budgets, BudgetRows, NoRow, Row
<1>3. CASE shape = {} \/ MonthTotal(seen, m) = 0
  <2>1. ToWeek1(seen, b, m, amount, new)
    BY <1>3, RescaledCases
  <2>. HIDE DEF new
  <2>. QED BY <1>1, <1>2, <2>1, PutTyped DEF ToWeek1
<1>4. CASE ~(shape = {} \/ MonthTotal(seen, m) = 0)
  <2>1. ByShape(seen, b, m, amount, new)
    BY <1>4, RescaledCases
  <2>2. shape \in SUBSET CellsOf(m) /\ IsFiniteSet(shape \ {last})
    BY <1>1, FS_Subset DEF Shape
  <2>. HIDE DEF new, shape, share, last
  <2>3. last \in shape /\ (\A d \in shape : share[d] \in Int)
        /\ new[last] = PutAmount(b, last, amount - SumFunctionOnSet(share, shape \ {last}))
        /\ (\A c \in shape \ {last} : new[c] = PutAmount(b, c, share[c]))
        /\ \A c \in CellsOf(m) \ shape : new[c] = b[c]
    BY <2>1 DEF ByShape, shape, share, last
  <2>4. SumFunctionOnSet(share, shape \ {last}) \in Int
    BY <2>2, <2>3, SumInt
  <2>5. new[last] \in BudgetRows
    <3>1. amount - SumFunctionOnSet(share, shape \ {last}) \in Int
      BY <2>4
    <3>. QED BY <1>1, <2>2, <2>3, <3>1, PutTyped
  <2>6. \A c \in shape \ {last} : new[c] \in BudgetRows
    BY <1>1, <2>2, <2>3, PutTyped
  <2>. QED BY <1>2, <2>3, <2>5, <2>6 DEF new
<1>. QED BY <1>3, <1>4

\* A month written from what it holds sums to the figure of the sheet.
LEMMA MonthIsExact ==
  ASSUME NEW b \in Budgets, NEW m \in Months, NEW amount \in Int, NEW new \in Budgets,
         \A c \in CellsOf(m) : new[c] = Rescaled(b, b, m, amount)[c]
  PROVE  /\ MonthTotal(new, m) = amount
         /\ MonthTotal(b, m) # 0 => Shape(new, m) \subseteq Shape(b, m)
<1>. DEFINE shape == Shape(b, m)
            share == [d \in shape |-> Share(b, m, amount, d)]
            last == LastOf(shape)
            f == [c \in Cells |-> new[c].amount]
<1>1. IsFiniteSet(CellsOf(m)) /\ CellsOf(m) \in SUBSET Cells /\ <<m, 1>> \in CellsOf(m)
  BY FiniteCells
<1>2. \A c \in CellsOf(m) : f[c] \in Int /\ f[c] = new[c].amount
  BY <1>1 DEF Budgets, BudgetRows
<1>3. MonthTotal(new, m) = SumFunctionOnSet(f, CellsOf(m))
  BY DEF MonthTotal, SumOf
<1>. HIDE DEF f
<1>4. CASE shape = {} \/ MonthTotal(b, m) = 0
  <2>1. ToWeek1(b, b, m, amount, new)
    BY <1>1, <1>4, RescaledCases DEF ToWeek1
  <2>2. f[<<m, 1>>] = amount
    BY <1>1, <1>2, <2>1, PutTyped DEF ToWeek1
  <2>3. \A c \in CellsOf(m) \ {<<m, 1>>} : f[c] = 0
    BY <1>2, <2>1 DEF ToWeek1, NoRow, Row
  <2>4. MonthTotal(new, m) = amount
    BY <1>1, <1>2, <1>3, <2>2, <2>3, SumSingle
  <2>5. shape = {} => MonthTotal(b, m) = 0
    <3>. DEFINE g == [c \in Cells |-> b[c].amount]
    <3>1. shape = {} => \A c \in CellsOf(m) : g[c] = 0
      BY <1>1 DEF Shape
    <3>2. MonthTotal(b, m) = SumFunctionOnSet(g, CellsOf(m))
      BY DEF MonthTotal, SumOf
    <3>. HIDE DEF g
    <3>. QED BY <1>1, <3>1, <3>2, SumZero
  <2>. QED BY <1>4, <2>4, <2>5
<1>5. CASE ~(shape = {} \/ MonthTotal(b, m) = 0)
  <2>1. ByShape(b, b, m, amount, Rescaled(b, b, m, amount))
    BY <1>5, RescaledCases
  <2>2. shape \in SUBSET CellsOf(m) /\ IsFiniteSet(shape) /\ IsFiniteSet(shape \ {last})
    BY <1>1, FS_Subset DEF Shape
  <2>3. \A c \in CellsOf(m) \ shape : b[c].amount = 0
    BY DEF Shape
  <2>. HIDE DEF shape, share, last
  <2>4. last \in shape /\ (\A d \in shape : share[d] \in Int)
        /\ new[last] = PutAmount(b, last, amount - SumFunctionOnSet(share, shape \ {last}))
        /\ (\A c \in shape \ {last} : new[c] = PutAmount(b, c, share[c]))
        /\ \A c \in CellsOf(m) \ shape : new[c] = b[c]
    BY <2>1, <2>2 DEF ByShape, shape, share, last
  <2>5. SumFunctionOnSet(share, shape \ {last}) \in Int
    BY <2>2, <2>4, SumInt
  <2>6. f[last] = amount - SumFunctionOnSet(share, shape \ {last})
    <3>1. amount - SumFunctionOnSet(share, shape \ {last}) \in Int
      BY <2>5
    <3>. QED BY <1>1, <1>2, <2>2, <2>4, <3>1, PutTyped
  <2>7. \A c \in shape \ {last} : f[c] = share[c]
    BY <1>1, <1>2, <2>2, <2>4, PutTyped
  <2>8. \A c \in CellsOf(m) \ shape : f[c] = 0
    BY <1>2, <2>3, <2>4
  <2>9. SumFunctionOnSet(f, CellsOf(m)) = amount
    <3>1. SumFunctionOnSet(f, CellsOf(m)) =
            SumFunctionOnSet(f, shape) + SumFunctionOnSet(f, CellsOf(m) \ shape)
      BY <1>1, <1>2, <2>2, SumSplit
    <3>2. SumFunctionOnSet(f, CellsOf(m) \ shape) = 0
      <4>1. IsFiniteSet(CellsOf(m) \ shape)
        BY <1>1, FS_Subset
      <4>. QED BY <2>8, <4>1, SumZero
    <3>3. SumFunctionOnSet(f, shape) = f[last] + SumFunctionOnSet(f, shape \ {last})
      BY <1>2, <2>2, <2>4, SumRemove
    <3>4. SumFunctionOnSet(f, shape \ {last}) = SumFunctionOnSet(share, shape \ {last})
      BY <2>2, <2>7, SumSame
    <3>. QED BY <2>5, <2>6, <3>1, <3>2, <3>3, <3>4
  <2>10. Shape(new, m) \subseteq shape
    BY <1>2, <2>8 DEF Shape
  <2>. QED BY <1>3, <2>9, <2>10 DEF shape
<1>. QED BY <1>4, <1>5

\* An import into months that hold something leaves their certainty alone.
LEMMA MonthKeepsCertainty ==
  ASSUME NEW b \in Budgets, NEW m \in Months, NEW amount \in Int, NEW x,
         MonthTotal(b, m) # 0, AllAre(b, x), NEW c \in CellsOf(m),
         Rescaled(b, b, m, amount)[c] # NoRow
  PROVE  Rescaled(b, b, m, amount)[c].certainty = x
<1>. DEFINE new == Rescaled(b, b, m, amount)
            shape == Shape(b, m)
            share == [d \in shape |-> Share(b, m, amount, d)]
            last == LastOf(shape)
<1>1. CellsOf(m) \in SUBSET Cells /\ IsFiniteSet(CellsOf(m)) /\ <<m, 1>> \in CellsOf(m)
  BY FiniteCells
<1>2. \A d \in CellsOf(m) : b[d] # NoRow => b[d].certainty = x
  BY <1>1 DEF AllAre, RowsIn
<1>3. CASE shape = {}
  <2>. DEFINE g == [d \in Cells |-> b[d].amount]
  <2>1. \A d \in CellsOf(m) : g[d] = 0
    BY <1>1, <1>3 DEF Shape
  <2>2. MonthTotal(b, m) = SumFunctionOnSet(g, CellsOf(m))
    BY DEF MonthTotal, SumOf
  <2>. HIDE DEF g
  <2>. QED BY <1>1, <2>1, <2>2, SumZero
<1>4. CASE shape # {}
  <2>1. ByShape(b, b, m, amount, new)
    BY <1>4, RescaledCases
  <2>2. \A d \in shape : b[d] # NoRow /\ d \in CellsOf(m)
    BY DEF Shape, NoRow, Row
  <2>3. CASE c \in shape
    <3>1. \E part : new[c] = PutAmount(b, c, part)
      BY <2>1, <2>3 DEF ByShape
    <3>. QED BY <1>2, <2>2, <2>3, <3>1 DEF PutAmount, Row
  <2>4. CASE c \notin shape
    BY <1>2, <2>1, <2>4 DEF ByShape
  <2>. QED BY <2>3, <2>4
<1>. QED BY <1>3, <1>4

\* Whatever a request reads or writes, the budget's rows and what requests
\* remember of them keep their type.
LEMMA TaskSet ==
  ASSUME BudgetInv, NEW u \in Users, NEW t \in Tasks, task' = [task EXCEPT ![u] = t],
         budget' \in Budgets
  PROVE  BudgetInv'
BY DEF BudgetInv

LEMMA IdleTyped == Idle \in Tasks /\ NoBudget \in Budgets
BY DEF Idle, Tasks, Step, Budgets, BudgetRows, NoBudget, NoRow, Row

LEMMA TaskTyped ==
  ASSUME NEW pc \in Step, NEW v \in Versions \cup {NoVersion},
         NEW s \in PlanStatus \cup Certainties \cup {"none"}, NEW seen \in Budgets,
         pc = "grid" => s \in Certainties \cup {"none"}
  PROVE  Task(pc, v, s, seen) \in Tasks
BY DEF Task, Tasks

LEMMA BudgetReads ==
  ASSUME BudgetInv, NEW u \in Users,
         \/ ReadDominant(u) \/ ReadMonths(u) \/ ReadGroups(u) \/ ReadBudget(u)
         \/ \E v \in Versions : \/ ReadSource(u, v) \/ CheckWritable(u, v)
                                \/ \E s \in Asked : ReadForStatus(u, v, s)
  PROVE  BudgetInv'
<1>1. budget' = budget /\ budget \in Budgets /\ task[u] \in Tasks
  BY DEF BudgetInv, ReadDominant, ReadMonths, ReadGroups, ReadBudget, ReadSource, CheckWritable,
         ReadForStatus
<1>2. \E pc \in Step, v \in Versions \cup {NoVersion},
         s \in PlanStatus \cup Certainties \cup {"none"}, seen \in Budgets :
        (pc = "grid" => s \in Certainties \cup {"none"}) /\ Do(u, Task(pc, v, s, seen))
  <2>1. CASE ReadDominant(u)
    <3>1. \A c \in Cells : budget[c].certainty \in Certainties \cup {"none"}
      BY <1>1 DEF Budgets, BudgetRows
    <3>2. Dominant(budget) \subseteq Certainties \cup {"none"}
      BY <3>1, CellAssumption DEF Dominant, RowsIn
    <3>. QED BY <1>1, <2>1, <3>2 DEF ReadDominant, Step
  <2>2. CASE ReadMonths(u)
    BY <1>1, <2>2 DEF ReadMonths, Step
  <2>3. CASE ReadGroups(u)
    BY <1>1, <2>3 DEF ReadGroups, Step
  <2>4. CASE ReadBudget(u)
    BY <1>1, <2>4 DEF ReadBudget, Step, Tasks
  <2>5. ASSUME NEW v \in Versions, ReadSource(u, v)
        PROVE  Do(u, Task("copy", v, "none", NoBudget))
    BY <2>5 DEF ReadSource
  <2>6. ASSUME NEW v \in Versions, CheckWritable(u, v)
        PROVE  \E pc \in {"save", "seed", "delete"} : Do(u, Task(pc, v, "none", NoBudget))
    BY <2>6 DEF CheckWritable
  <2>7. ASSUME NEW v \in Versions, NEW s \in Asked, ReadForStatus(u, v, s)
        PROVE  Do(u, Task("status", v, s, NoBudget)) /\ s \in PlanStatus
    BY <2>7, StatusAssumption DEF ReadForStatus
  <2>. QED BY <2>1, <2>2, <2>3, <2>4, <2>5, <2>6, <2>7, IdleTyped DEF Step
<1>3. PICK t \in Tasks : task' = [task EXCEPT ![u] = t]
  BY <1>2, TaskTyped DEF Do
<1>. QED BY <1>1, <1>3, TaskSet

LEMMA BudgetKept ==
  ASSUME BudgetInv, [Next]_vars
  PROVE  BudgetInv'
<1>. USE DEF Done
<1>1. ASSUME NEW u \in Users, Done(u), budget' \in Budgets PROVE BudgetInv'
  BY <1>1, IdleTyped, TaskSet
<1>2. ASSUME task' = task, budget' \in Budgets PROVE BudgetInv'
  BY <1>2 DEF BudgetInv
<1>3. \A a \in Amounts : a \in Int
  BY CellAssumption
<1>4. ASSUME NEW u \in Users, SaveMixedGrid(u) PROVE BudgetInv'
  <2>1. PICK grid \in [Cells -> Amounts] : budget' = SavedGrid(budget, grid, task[u].status)
    BY <1>4 DEF SaveMixedGrid
  <2>2. task[u].status \in Certainties \cup {"none"}
    BY <1>4 DEF SaveMixedGrid, At, BudgetInv, Tasks
  <2>3. budget' \in Budgets
    BY <1>3, <2>1, <2>2 DEF SavedGrid, BudgetInv, Budgets, BudgetRows, Row
  <2>. QED BY <1>1, <1>4, <2>3 DEF SaveMixedGrid
<1>5. ASSUME NEW u \in Users, SaveGrid(u) PROVE BudgetInv'
  <2>1. PICK grid \in [Cells -> Amounts], x \in Certainties :
          budget' = [c \in Cells |-> Row(grid[c], x)]
    BY <1>5 DEF SaveGrid
  <2>2. budget' \in Budgets
    BY <1>3, <2>1 DEF Budgets, BudgetRows, Row
  <2>. QED BY <1>2, <1>5, <2>2 DEF SaveGrid
<1>6. ASSUME NEW u \in Users, DeleteBudgetRow(u) PROVE BudgetInv'
  <2>1. PICK S : budget' = [c \in Cells |-> IF c \in S THEN NoRow ELSE budget[c]]
    BY <1>6 DEF DeleteBudgetRow
  <2>2. budget' \in Budgets
    BY <2>1 DEF BudgetInv, Budgets, BudgetRows, NoRow, Row
  <2>. QED BY <1>2, <1>6, <2>2 DEF DeleteBudgetRow
<1>7. ASSUME NEW u \in Users, ImportMonths(u) PROVE BudgetInv'
  <2>1. PICK book \in [Months -> Amounts] :
          budget' = [c \in Cells |-> Rescaled(IF c[1] = 1 THEN task[u].seen ELSE budget, budget,
                                              c[1], book[c[1]])[c]]
    BY <1>7 DEF ImportMonths
  <2>2. budget \in Budgets /\ task[u].seen \in Budgets
    BY DEF BudgetInv, Tasks
  <2>3. ASSUME NEW c \in Cells PROVE budget'[c] \in BudgetRows
    <3>1. c[1] \in Months /\ c \in CellsOf(c[1]) /\ book[c[1]] \in Int
      BY <1>3 DEF Cells, CellsOf
    <3>. QED BY <2>1, <2>2, <3>1, RescaledTyped
  <2>4. budget' \in Budgets
    BY <2>1, <2>3 DEF Budgets
  <2>. QED BY <1>1, <1>7, <2>4 DEF ImportMonths
<1>8. ASSUME NEW u \in Users, CollapseToWeek1(u) PROVE BudgetInv'
  <2>1. budget' \in Budgets
    BY <1>8, FoldedTyped DEF CollapseToWeek1, BudgetInv, Tasks
  <2>. QED BY <1>1, <1>8, <2>1 DEF CollapseToWeek1
<1>9. ASSUME NEW u \in Users, NEW v \in Versions,
             CreateVersion(u, v) \/ ImportPlan(u, v) \/ CopyVersion(u, v)
      PROVE  BudgetInv'
  BY <1>1, <1>2, <1>9 DEF CreateVersion, ImportPlan, CopyVersion, BudgetInv
<1>10. ASSUME NEW u \in Users,
              SetStatus(u) \/ DeleteVersion(u) \/ SavePlanWeeks(u) \/ SeedPlan(u) \/ Abort(u)
       PROVE  BudgetInv'
  BY <1>1, <1>10 DEF SetStatus, DeleteVersion, SavePlanWeeks, SeedPlan, Abort, BudgetInv
<1>11. CASE UNCHANGED vars
  BY <1>2, <1>11 DEF vars, BudgetInv
<1>. QED
  BY <1>4, <1>5, <1>6, <1>7, <1>8, <1>9, <1>10, <1>11, BudgetReads DEF Next

LEMMA BudgetStart == ASSUME Init PROVE BudgetInv
<1>1. budget \in Budgets /\ task = [u \in Users |-> Idle]
  BY IdleTyped DEF Init
<1>. QED BY <1>1, IdleTyped DEF BudgetInv

\* A request that ends with a write at "fold" or "month" is that handler's own
\* second half.
LEMMA CommitIs ==
  ASSUME BudgetInv, [Next]_vars, NEW u \in Users, NEW pc \in {"fold", "month"}, Commits(u, pc)
  PROVE  IF pc = "fold" THEN CollapseToWeek1(u) ELSE ImportMonths(u)
<1>. USE DEF Commits, At, Idle
<1>1. writes' # writes /\ task[u].pc = pc /\ task'[u].pc = "idle"
  OBVIOUS
<1>2. ASSUME NEW w \in Users, Done(w) PROVE w = u
  BY <1>1, <1>2 DEF Done, BudgetInv
<1>3. ASSUME NEW w \in Users, CollapseToWeek1(w) \/ ImportMonths(w)
      PROVE  IF pc = "fold" THEN CollapseToWeek1(u) ELSE ImportMonths(u)
  BY <1>1, <1>2, <1>3 DEF CollapseToWeek1, ImportMonths
<1>4. ASSUME NEW w \in Users, SaveMixedGrid(w) \/ SavePlanWeeks(w) \/ SeedPlan(w) PROVE FALSE
  BY <1>1, <1>2, <1>4 DEF SaveMixedGrid, SavePlanWeeks, SeedPlan
<1>5. ASSUME NEW w \in Users, SaveGrid(w) \/ \E v \in Versions : ImportPlan(w, v) PROVE FALSE
  BY <1>1, <1>5 DEF SaveGrid, ImportPlan
<1>6. ASSUME NEW w \in Users,
             \/ ReadDominant(w) \/ DeleteBudgetRow(w) \/ ReadMonths(w) \/ ReadGroups(w)
             \/ SetStatus(w) \/ DeleteVersion(w) \/ ReadBudget(w) \/ Abort(w)
      PROVE  FALSE
  BY <1>1, <1>6 DEF ReadDominant, DeleteBudgetRow, ReadMonths, ReadGroups, SetStatus,
                    DeleteVersion, ReadBudget, Abort
<1>7. ASSUME NEW w \in Users, NEW v \in Versions,
             \/ CreateVersion(w, v) \/ ReadSource(w, v) \/ CopyVersion(w, v)
             \/ CheckWritable(w, v) \/ \E s \in Asked : ReadForStatus(w, v, s)
      PROVE  FALSE
  BY <1>1, <1>7 DEF CreateVersion, ReadSource, CopyVersion, CheckWritable, ReadForStatus
<1>8. ~UNCHANGED vars
  BY <1>1 DEF vars
<1>. HIDE DEF Commits
<1>. QED BY <1>3, <1>4, <1>5, <1>6, <1>7, <1>8 DEF Next

\* Every month's total and every week's certainty survive a fold, whatever the
\* amounts, the months and the weeks are.
THEOREM FoldingKeeps == Spec => FoldKeepsMonths
<1>. DEFINE Exact(u) ==
       Commits(u, "fold") /\ task[u].seen = budget =>
         \A m \in Months : /\ MonthTotal(budget', m) = MonthTotal(budget, m)
                           /\ ~NeedsFold(budget', m)
                           /\ CertaintyStays
<1>1. ASSUME BudgetInv, [Next]_vars, NEW u \in Users PROVE Exact(u)
  <2>. SUFFICES ASSUME Commits(u, "fold"), task[u].seen = budget, NEW m \in Months
                PROVE  /\ MonthTotal(budget', m) = MonthTotal(budget, m)
                       /\ ~NeedsFold(budget', m)
                       /\ CertaintyStays
    OBVIOUS
  <2>1. budget' = Folded(budget, budget) /\ budget \in Budgets
    BY <1>1, CommitIs DEF CollapseToWeek1, BudgetInv
  <2>. QED BY <2>1, FoldIsExact, FoldKeepsCertainty DEF CertaintyStays
<1>2. BudgetInv /\ [Next]_vars => [\A u \in Users : Exact(u)]_vars
  BY <1>1
<1>3. Spec => []BudgetInv
  BY BudgetStart, BudgetKept, PTL DEF Spec
<1>. QED BY <1>2, <1>3, PTL DEF Spec, FoldKeepsMonths

\* A month that is imported sums to its figure, however its weeks round.
THEOREM ImportingIsExact == Spec => ImportIsExact
<1>. DEFINE Exact(u) ==
       Commits(u, "month") /\ task[u].seen = budget =>
         \A m \in Months :
            /\ MonthTotal(budget', m) \in Amounts
            /\ MonthTotal(budget, m) # 0 => Shape(budget', m) \subseteq Shape(budget, m)
            /\ CertaintyStays
<1>1. ASSUME BudgetInv, [Next]_vars, NEW u \in Users PROVE Exact(u)
  <2>. SUFFICES ASSUME Commits(u, "month"), task[u].seen = budget
                PROVE  \A m \in Months :
                          /\ MonthTotal(budget', m) \in Amounts
                          /\ MonthTotal(budget, m) # 0 => Shape(budget', m) \subseteq Shape(budget, m)
                          /\ CertaintyStays
    OBVIOUS
  <2>1. PICK book \in [Months -> Amounts] :
          budget' = [c \in Cells |-> Rescaled(budget, budget, c[1], book[c[1]])[c]]
    BY <1>1, CommitIs DEF ImportMonths
  <2>2. budget \in Budgets /\ budget' \in Budgets
    BY <1>1, BudgetKept DEF BudgetInv
  <2>3. \A m \in Months : book[m] \in Amounts /\ book[m] \in Int
    BY CellAssumption
  <2>4. ASSUME NEW m \in Months
        PROVE  /\ MonthTotal(budget', m) \in Amounts
               /\ MonthTotal(budget, m) # 0 => Shape(budget', m) \subseteq Shape(budget, m)
    <3>1. \A c \in CellsOf(m) : budget'[c] = Rescaled(budget, budget, m, book[m])[c]
      BY <2>1, FiniteCells DEF CellsOf
    <3>2. MonthTotal(budget', m) = book[m]
          /\ (MonthTotal(budget, m) # 0 => Shape(budget', m) \subseteq Shape(budget, m))
      BY <2>2, <2>3, <3>1, MonthIsExact
    <3>. QED BY <2>3, <3>2
  <2>5. CertaintyStays
    <3>. SUFFICES ASSUME \A m \in Months : MonthTotal(budget, m) # 0,
                         NEW x \in Certainties, AllAre(budget, x),
                         NEW c \in Cells, budget'[c] # NoRow
                  PROVE  budget'[c].certainty = x
      BY DEF CertaintyStays, AllAre, RowsIn
    <3>1. c[1] \in Months /\ c \in CellsOf(c[1])
      BY DEF Cells, CellsOf
    <3>. QED BY <2>1, <2>2, <2>3, <3>1, MonthKeepsCertainty
  <2>. QED BY <2>4, <2>5
<1>2. BudgetInv /\ [Next]_vars => [\A u \in Users : Exact(u)]_vars
  BY <1>1
<1>3. Spec => []BudgetInv
  BY BudgetStart, BudgetKept, PTL DEF Spec
<1>. QED BY <1>2, <1>3, PTL DEF Spec, ImportIsExact
=============================================================================
