-------------------------------- MODULE Plan --------------------------------
(***************************************************************************)
(* The cash plan of apps/erp (server.py, database.py, excel_io.py): the    *)
(* Budget Center at week grain and the plan versions frozen from it, read  *)
(* from a sheet or copied, that the Oracle judges.                         *)
(*                                                                         *)
(* Every request has its own SQLite connection: a SELECT before the first  *)
(* INSERT, UPDATE or DELETE is autocommitted, the writes up to commit()    *)
(* are one transaction.  A handler that reads first is two or three        *)
(* actions, and what it read may be stale when it writes.                  *)
(*                                                                         *)
(* One budget line (company, account, project, year) is modelled: no       *)
(* handler lets one line depend on another.  Amounts are integers (cents). *)
(*                                                                         *)
(* Bounds: MaxWrites limits the commits that change amounts, MaxTotal a    *)
(* month's total that is folded, Asked the statuses that are set.          *)
(***************************************************************************)
EXTENDS Integers, FiniteSets, Sequences, Functions

CONSTANTS
    Months, Weeks,      \* week buckets of a month, 1 first
    Versions,           \* plan_versions rows, ids are never reused
    Admins, Accountants,
    Amounts,            \* what people type, 0 among them
    Certainties,
    Sheets,             \* cash plans to import: per cell a sequence of rows
    NoVersion,
    Asked,              \* the statuses people set
    MaxWrites, MaxTotal

Users == Admins \cup Accountants
Cells == Months \X Weeks

ASSUME UserAssumption == Admins \cap Accountants = {} /\ NoVersion \notin Versions
ASSUME CellAssumption ==
    /\ Weeks \subseteq Nat /\ 1 \in Weeks /\ 0 \notin Weeks
    /\ 0 \in Amounts /\ Amounts \subseteq Int
    /\ "planned" \in Certainties /\ "none" \notin Certainties
    /\ IsFiniteSet(Months) /\ IsFiniteSet(Weeks)

VARIABLES
    budget,     \* the line's rows, NoRow where there is none
    status,     \* plan_versions.status, "none" before and "gone" after
    base,       \* plan_versions.base_version_id
    rows,       \* plan_weeks of each version, per cell
    imported,   \* versions whose rows came from a sheet, or from such a version
    task,       \* the request each user is waiting for
    writes

vars == <<budget, status, base, rows, imported, task, writes>>

PlanStatus == {"draft", "submitted", "approved", "locked"}
PlanLocked == {"approved", "locked"}
ASSUME StatusAssumption == Asked \subseteq PlanStatus

Row(amount, certainty) == [amount |-> amount, certainty |-> certainty]
NoRow == Row(0, "none")
NoBudget == [c \in Cells |-> NoRow]
NoPlan == [c \in Cells |-> <<>>]

Step == {"idle", "grid", "month", "fold", "save", "seed", "seeding", "delete",
         "status", "copy"}

\* ver, status, seen: the version, the new status or certainty, and the budget
\* the handler read.
Idle == [pc |-> "idle", ver |-> NoVersion, status |-> "none", seen |-> NoBudget]
Task(pc, v, s, seen) == [pc |-> pc, ver |-> v, status |-> s, seen |-> seen]
Do(u, t) == task' = [task EXCEPT ![u] = t]
Done(u) == task' = [task EXCEPT ![u] = Idle]
At(u, pc) == task[u].pc = pc

Exists(v) == v \in Versions /\ status[v] \in PlanStatus
Writes == writes < MaxWrites /\ writes' = writes + 1

Init ==
    /\ budget = NoBudget
    /\ status = [v \in Versions |-> "none"]
    /\ base = [v \in Versions |-> NoVersion]
    /\ rows = [v \in Versions |-> NoPlan]
    /\ imported = {}
    /\ task = [u \in Users |-> Idle]
    /\ writes = 0

-----------------------------------------------------------------------------
(* The Budget Center.                                                      *)

Abs(n) == IF n < 0 THEN -n ELSE n
SumOf(b, S) == SumFunctionOnSet([c \in Cells |-> b[c].amount], S)
CellsOf(m) == {m} \X Weeks
MonthTotal(b, m) == SumOf(b, CellsOf(m))
RowsIn(b, S) == {c \in S : b[c] # NoRow}

Weight(b, certainty) ==
    SumFunctionOnSet([c \in Cells |-> Abs(b[c].amount)], {c \in Cells : b[c].certainty = certainty})

\* The certainty that carries most of the line; SQL picks any of several, and
\* a line without rows has none.
Dominant(b) ==
    LET used == {b[c].certainty : c \in RowsIn(b, Cells)} IN
    IF used = {} THEN {"planned"}
    ELSE {x \in used : \A y \in used : Weight(b, x) >= Weight(b, y)}

\* save_budgets() of a row whose certainty is "mixed": what a new cell inherits
\* is read first.
ReadDominant(u) ==
    /\ At(u, "idle")
    /\ \E x \in Dominant(budget) : Do(u, Task("grid", NoVersion, x, budget))
    /\ UNCHANGED <<budget, status, base, rows, imported, writes>>

\* Every cell of the grid is written, zeros too.
SavedGrid(b, grid, inherited) ==
    [c \in Cells |-> Row(grid[c], IF b[c] = NoRow THEN inherited ELSE b[c].certainty)]

SaveMixedGrid(u) ==
    /\ At(u, "grid") /\ Writes
    /\ \E grid \in [Cells -> Amounts] : budget' = SavedGrid(budget, grid, task[u].status)
    /\ Done(u)
    /\ UNCHANGED <<status, base, rows, imported>>

\* save_budgets() of a row with a certainty of its own.
SaveGrid(u) ==
    /\ At(u, "idle") /\ Writes
    /\ \E grid \in [Cells -> Amounts], x \in Certainties :
         budget' = [c \in Cells |-> Row(grid[c], x)]
    /\ UNCHANGED <<status, base, rows, imported, task>>

\* delete_budget_row(): the year, a month or a week.
DeleteBudgetRow(u) ==
    /\ At(u, "idle")
    /\ \E S \in {Cells} \cup {CellsOf(m) : m \in Months} \cup {{c} : c \in Cells} :
         budget' = [c \in Cells |-> IF c \in S THEN NoRow ELSE budget[c]]
    /\ UNCHANGED <<status, base, rows, imported, task, writes>>

\* import_budget() reads what the first month holds before its transaction, of
\* the other months within it ...
ReadMonths(u) ==
    /\ At(u, "idle")
    /\ Do(u, Task("month", NoVersion, "none", budget))
    /\ UNCHANGED <<budget, status, base, rows, imported, writes>>

\* x / n to the nearest integer; the totals may be negative.
Rounded(x, n) == IF n > 0 THEN (2 * x + n) \div (2 * n) ELSE (-2 * x - n) \div (-2 * n)
Shape(b, m) == {c \in CellsOf(m) : b[c].amount # 0}
LastOf(S) == CHOOSE c \in S : \A d \in S : d[2] <= c[2]
Share(b, m, amount, c) == Rounded(amount * b[c].amount, MonthTotal(b, m))

PutAmount(b, c, amount) == Row(amount, IF b[c] = NoRow THEN "planned" ELSE b[c].certainty)

\* Mutant: every week is rounded, the last one too.
RescaledRoundAll(seen, b, m, amount) ==
    [c \in CellsOf(m) |->
       IF Shape(seen, m) = {} \/ MonthTotal(seen, m) = 0
       THEN IF c[2] = 1 THEN PutAmount(b, c, amount)
            ELSE IF seen[c] # NoRow THEN NoRow ELSE b[c]
       ELSE IF c \in Shape(seen, m) THEN PutAmount(b, c, Share(seen, m, amount, c))
       ELSE b[c]]

\* upsert_budget_month(): the shape of the month is kept, the last week takes
\* the remainder; an empty month goes to week 1.
Rescaled(seen, b, m, amount) ==
    LET shape == Shape(seen, m)
        part(c) == IF c = LastOf(shape)
                   THEN amount - SumFunctionOnSet([d \in shape |-> Share(seen, m, amount, d)], shape \ {c})
                   ELSE Share(seen, m, amount, c)
    IN [c \in CellsOf(m) |->
          IF shape = {} \/ MonthTotal(seen, m) = 0
          THEN IF c[2] = 1 THEN PutAmount(b, c, amount)
               ELSE IF seen[c] # NoRow THEN NoRow ELSE b[c]
          ELSE IF c \in shape THEN PutAmount(b, c, part(c))
          ELSE b[c]]

\* ... and writes every month of the workbook.
ImportMonths(u) ==
    /\ At(u, "month") /\ Writes
    /\ \E book \in [Months -> Amounts] :
         budget' = [c \in Cells |-> LET m == c[1] IN
                      Rescaled(IF m = 1 THEN task[u].seen ELSE budget, budget, m, book[m])[c]]
    /\ Done(u)
    /\ UNCHANGED <<status, base, rows, imported>>

\* collapse_budget_to_week1() reads the totals of the months ...
ReadGroups(u) ==
    /\ At(u, "idle")
    /\ \A m \in Months : Abs(MonthTotal(budget, m)) <= MaxTotal
    /\ Do(u, Task("fold", NoVersion, "none", budget))
    /\ UNCHANGED <<budget, status, base, rows, imported, writes>>

NeedsFold(b, m) ==
    LET used == RowsIn(b, CellsOf(m)) IN used # {} /\ used # {<<m, 1>>}

\* Week 1 takes the certainty of the month's biggest row, the first of several.
Kept(b, m) ==
    LET used == RowsIn(b, CellsOf(m)) IN
    IF used = {} THEN "planned"
    ELSE b[CHOOSE c \in used : \A d \in used :
             \/ Abs(b[c].amount) > Abs(b[d].amount)
             \/ Abs(b[c].amount) = Abs(b[d].amount) /\ c[2] <= d[2]].certainty

\* Mutant: weeks 2 to 4 are dropped, not added.
FoldedDropping(seen, b) ==
    [c \in Cells |->
       IF ~NeedsFold(seen, c[1]) THEN b[c]
       ELSE IF c[2] = 1 THEN Row(b[c].amount, Kept(b, c[1])) ELSE NoRow]

Folded(seen, b) ==
    [c \in Cells |->
       IF ~NeedsFold(seen, c[1]) THEN b[c]
       ELSE IF c[2] = 1 THEN Row(MonthTotal(seen, c[1]), Kept(b, c[1])) ELSE NoRow]

\* ... and folds every month into its first week.
CollapseToWeek1(u) ==
    /\ At(u, "fold") /\ Writes
    /\ budget' = Folded(task[u].seen, budget)
    /\ Done(u)
    /\ UNCHANGED <<status, base, rows, imported>>

-----------------------------------------------------------------------------
(* Plan versions.                                                          *)

\* The next id.
Fresh(v) == status[v] = "none"

\* create_plan_version(): any version may be named as the base; the foreign
\* key wants it to exist.
CreateVersion(u, v) ==
    /\ At(u, "idle") /\ Fresh(v)
    /\ status' = [status EXCEPT ![v] = "draft"]
    /\ \E x \in {NoVersion} \cup {y \in Versions : Exists(y)} : base' = [base EXCEPT ![v] = x]
    /\ UNCHANGED <<budget, rows, imported, task, writes>>

\* import_cashflow_plan(): a new draft with a row for each line of the sheet.
ImportPlan(u, v) ==
    /\ At(u, "idle") /\ Fresh(v) /\ Writes
    /\ status' = [status EXCEPT ![v] = "draft"]
    /\ \E sheet \in Sheets : rows' = [rows EXCEPT ![v] = sheet]
    /\ imported' = imported \cup {v}
    /\ UNCHANGED <<budget, base, task>>

\* copy_plan_version() reads the source, of any status ...
ReadSource(u, v) ==
    /\ At(u, "idle") /\ Exists(v)
    /\ Do(u, Task("copy", v, "none", NoBudget))
    /\ UNCHANGED <<budget, status, base, rows, imported, writes>>

\* ... and inserts the draft and the rows the source has by then.
CopyVersion(u, v) ==
    LET src == task[u].ver IN
    /\ At(u, "copy") /\ Fresh(v) /\ Exists(src)
    /\ status' = [status EXCEPT ![v] = "draft"]
    /\ base' = [base EXCEPT ![v] = src]
    /\ rows' = [rows EXCEPT ![v] = rows[src]]
    /\ imported' = IF src \in imported THEN imported \cup {v} ELSE imported
    /\ Done(u)
    /\ UNCHANGED <<budget, writes>>

\* Mutant: anyone may re-open a plan.
ReadForStatusAnyone(u, v, s) ==
    /\ At(u, "idle") /\ Exists(v)
    /\ Do(u, Task("status", v, s, NoBudget))
    /\ UNCHANGED <<budget, status, base, rows, imported, writes>>

\* set_plan_version_status(): only an admin may re-open an approved or locked
\* plan.
ReadForStatus(u, v, s) ==
    /\ At(u, "idle") /\ Exists(v)
    /\ status[v] \in PlanLocked /\ s \notin PlanLocked => u \in Admins
    /\ Do(u, Task("status", v, s, NoBudget))
    /\ UNCHANGED <<budget, status, base, rows, imported, writes>>

\* A version deleted meanwhile is not there to be updated.
SetStatus(u) ==
    LET v == task[u].ver IN
    /\ At(u, "status")
    /\ status' = [status EXCEPT ![v] = IF Exists(v) THEN task[u].status ELSE status[v]]
    /\ Done(u)
    /\ UNCHANGED <<budget, base, rows, imported, writes>>

\* check_version_writable(), as save, seed and delete begin with it.
CheckWritable(u, v) ==
    /\ At(u, "idle") /\ Exists(v)
    /\ status[v] \notin PlanLocked
    /\ \E pc \in {"save", "seed", "delete"} : Do(u, Task(pc, v, "none", NoBudget))
    /\ UNCHANGED <<budget, status, base, rows, imported, writes>>

\* Mutant: the versions copied from this one keep pointing at it.
DeleteVersionLineage(u) ==
    LET v == task[u].ver IN
    /\ At(u, "delete")
    /\ rows' = [rows EXCEPT ![v] = NoPlan]
    /\ base' = [base EXCEPT ![v] = NoVersion]
    /\ status' = [status EXCEPT ![v] = "gone"]
    /\ Done(u)
    /\ UNCHANGED <<budget, imported, writes>>

\* delete_plan_version(): the versions copied from it forget their lineage.
DeleteVersion(u) ==
    LET v == task[u].ver IN
    /\ At(u, "delete")
    /\ rows' = [rows EXCEPT ![v] = NoPlan]
    /\ base' = [x \in Versions |-> IF x = v \/ base[x] = v THEN NoVersion ELSE base[x]]
    /\ status' = [status EXCEPT ![v] = "gone"]
    /\ Done(u)
    /\ UNCHANGED <<budget, imported, writes>>

\* Mutant: INSERT OR REPLACE, where NULLs are distinct.
UpsertedReplace(cell, row) == Append(cell, row)

\* upsert_plan_week(): UPDATE whatever matches, INSERT if nothing does.
Upserted(cell, row) == IF cell = <<>> THEN <<row>> ELSE [i \in DOMAIN cell |-> row]

NonZero(r) == r.amount # 0
WithoutZeros(cell) ==
    LET kept[i \in 0 .. Len(cell)] ==
          IF i = 0 THEN <<>>
          ELSE IF NonZero(cell[i]) THEN Append(kept[i - 1], cell[i]) ELSE kept[i - 1]
    IN kept[Len(cell)]

\* save_plan_weeks(): the cells sent, then every zero row of the version goes.
SavePlanWeeks(u) ==
    LET v == task[u].ver IN
    /\ At(u, "save") /\ Exists(v) /\ Writes
    /\ \E S \in SUBSET Cells, x \in Certainties : \E grid \in [S -> Amounts] :
         rows' = [rows EXCEPT ![v] = [c \in Cells |->
                    WithoutZeros(IF c \in S THEN Upserted(rows[v][c], Row(grid[c], x))
                                 ELSE rows[v][c])]]
    /\ Done(u)
    /\ UNCHANGED <<budget, status, base, imported>>

\* seed_plan_from_budget() reads the budget ...
ReadBudget(u) ==
    /\ At(u, "seed")
    /\ Do(u, Task("seeding", task[u].ver, "none", budget))
    /\ UNCHANGED <<budget, status, base, rows, imported, writes>>

\* ... and writes its non-zero cells into the version, week for week.
SeedPlan(u) ==
    LET v == task[u].ver
        seen == task[u].seen
    IN
    /\ At(u, "seeding") /\ Exists(v) /\ Writes
    /\ rows' = [rows EXCEPT ![v] = [c \in Cells |->
                  IF seen[c].amount # 0 THEN Upserted(rows[v][c], seen[c]) ELSE rows[v][c]]]
    /\ Done(u)
    /\ UNCHANGED <<budget, status, base, imported>>

\* A handler raises (a foreign key, a lock) or the process restarts: nothing
\* it wrote stays.
Abort(u) ==
    /\ ~At(u, "idle")
    /\ Done(u)
    /\ UNCHANGED <<budget, status, base, rows, imported, writes>>

Next ==
    \E u \in Users :
       \/ ReadDominant(u) \/ SaveMixedGrid(u) \/ SaveGrid(u) \/ DeleteBudgetRow(u)
       \/ ReadMonths(u) \/ ImportMonths(u) \/ ReadGroups(u) \/ CollapseToWeek1(u)
       \/ \E v \in Versions :
            \/ CreateVersion(u, v) \/ ImportPlan(u, v) \/ ReadSource(u, v) \/ CopyVersion(u, v)
            \/ CheckWritable(u, v)
            \/ \E s \in Asked : ReadForStatus(u, v, s)
       \/ SetStatus(u) \/ DeleteVersion(u) \/ SavePlanWeeks(u) \/ ReadBudget(u) \/ SeedPlan(u)
       \/ Abort(u)

Spec == Init /\ [][Next]_vars

-----------------------------------------------------------------------------
(* Properties.                                                             *)

BudgetRows == [amount : Int, certainty : Certainties \cup {"none"}]

\* What every row and request can be.
TypeOK ==
    /\ budget \in [Cells -> BudgetRows]
    /\ status \in [Versions -> PlanStatus \cup {"none", "gone"}]
    /\ base \in [Versions -> Versions \cup {NoVersion}]
    /\ rows \in [Versions -> [Cells -> Seq(BudgetRows)]]
    /\ imported \subseteq Versions
    /\ writes \in 0 .. MaxWrites
    /\ task \in [Users -> [pc : Step, ver : Versions \cup {NoVersion},
                           status : PlanStatus \cup Certainties \cup {"none"},
                           seen : [Cells -> BudgetRows]]]

\* Requests that passed their check before v was locked, or an admin's to
\* re-open it.
WritersOf(v) ==
    {u \in Users : /\ task[u].ver = v
                   /\ \/ task[u].pc \in {"save", "seed", "seeding", "delete"}
                      \/ task[u].pc = "status" /\ task[u].status \notin PlanLocked}

AtRest(v) == status[v] \in PlanLocked /\ WritersOf(v) = {}

\* "EVERY write path calls this" (server.py:3538): an approved or locked plan
\* no longer changes once the requests that had passed the check are through,
\* and only an admin can begin to re-open it.
LockedRests ==
    [][\A v \in Versions : AtRest(v) =>
         /\ rows'[v] = rows[v]
         /\ status'[v] \in PlanLocked
         /\ WritersOf(v)' \subseteq Admins]_vars

\* A version's base is there, however copying and deleting interleave, and no
\* version descends from itself.
Lineage ==
    /\ \A v \in Versions : base[v] # NoVersion => Exists(v) /\ Exists(base[v])
    /\ \A S \in (SUBSET Versions) \ {{}} : \E v \in S : base[v] \notin S

\* A cell of a version has one row, whoever saves and seeds it at once: it is
\* "updated in place instead of duplicating" (database.py:1381).  Sheets bring
\* several rows for a cell.
OneRowPerCell ==
    \A v \in Versions \ imported : \A c \in Cells : Len(rows[v][c]) <= 1

Commits(u, pc) == At(u, pc) /\ task'[u] = Idle /\ writes' # writes

\* A budget that is contracted throughout stays so: 'planned' money is not
\* counted by the Oracle's Bound run (server.py:3854).
AllAre(b, x) == \A c \in RowsIn(b, Cells) : b[c].certainty = x
CertaintyStays ==
    (\A m \in Months : MonthTotal(budget, m) # 0) =>
      \A x \in Certainties : AllAre(budget, x) => AllAre(budget', x)

\* Folding a budget nobody else writes meanwhile keeps every month's total:
\* "Weeks 2-4 are ADDED into week 1, never dropped" (server.py:3835); and what
\* was contracted.
FoldKeepsMonths ==
    [][\A u \in Users : Commits(u, "fold") /\ task[u].seen = budget =>
         \A m \in Months : /\ MonthTotal(budget', m) = MonthTotal(budget, m)
                           /\ ~NeedsFold(budget', m)
                           /\ CertaintyStays]_vars

\* A month that is imported is "exact" (excel_io.py:560): it sums to a figure
\* someone typed, however its weeks are rounded, no week is invented, and what
\* was contracted stays it.
ImportIsExact ==
    [][\A u \in Users : Commits(u, "month") /\ task[u].seen = budget =>
         \A m \in Months :
            /\ MonthTotal(budget', m) \in Amounts
            /\ MonthTotal(budget, m) # 0 => Shape(budget', m) \subseteq Shape(budget, m)
            /\ CertaintyStays]_vars

=============================================================================
