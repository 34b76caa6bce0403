------------------------------ MODULE Oracle -------------------------------
(***************************************************************************)
(* The cash forecast of apps/erp (fpa_cash.py and its routes in server.py): *)
(* every dated movement of money the tables know of, the daily balance it  *)
(* leads to, the verdict on that balance, how far the plan can be stressed *)
(* before the verdict turns, and what the advice promises.                 *)
(*                                                                         *)
(* The tables are edited one row per commit by requests that read nothing  *)
(* of each other; a consultation reads them and writes nothing, so it is   *)
(* no action: what it answers is a function of the state.                  *)
(*                                                                         *)
(* Days are numbered from 1, the first of January of the year asked for;   *)
(* days before and after it belong to other years.  Amounts are whole      *)
(* cents; shares of them are rounded half up.  Weights and levels are      *)
(* shares of Unit.  A row is its fields: two equal rows would be told      *)
(* apart by their id alone.                                                *)
(*                                                                         *)
(* Bounds: MaxRows rows in all tables together, outflows up to MaxOut.     *)
(***************************************************************************)
EXTENDS Integers, FiniteSets, Sequences, Functions, FiniteSetsExt

CONSTANTS
    Companies, Investments,
    MonthStart,             \* first day of each month, and of the next year
    WeekLen, WEEKS_IN_MONTH,
    Today, Trailing,        \* Trailing: days the fixed costs are averaged over
    Owner, Committed,       \* of each investment
    Posted,                 \* posted journal lines on cash and on fixed costs
    Unit,                   \* a share of Unit is the whole
    Halvings,                  \* of a bisection
    BudgetForms, PlanForms, ReceivableForms, PayableForms, CommitmentForms,
    Collected,              \* receivables whose payment date is known
    Policies,
    MaxRows, MaxOut

Months == 1..Len(MonthStart) - 1
Weeks == 1..WEEKS_IN_MONTH
start == MonthStart[1]
end == MonthStart[Len(MonthStart)] - 1
Year == start..end
NoDate == -1000000
CERTAINTIES == {"committed", "planned", "expected", "speculative"}

ASSUME CalendarAssumption ==
    /\ WeekLen \in Nat \ {0} /\ WEEKS_IN_MONTH \in Nat \ {0}
    /\ MonthStart \in Seq(Int) /\ Len(MonthStart) > 2 /\ NoDate < start
    /\ Today \in Int /\ Trailing \in Nat
    /\ \A m, n \in 1..Len(MonthStart) : m < n => MonthStart[m] + (WEEKS_IN_MONTH - 1) * WeekLen < MonthStart[n]

Cell == [company : Companies, type : {"revenue", "expense", "asset"}, cls : {"operating", "noncash"},
         month : Months, week : Weeks, amount : Nat, certainty : CERTAINTIES]
PlanCell == [company : Companies, type : {"revenue", "expense", "asset"}, cls : {"operating", "noncash"},
             month : Months, week : Weeks, amount : Nat, certainty : CERTAINTIES, flow : {"in", "out"}]
Invoice == [company : Companies, due : Int, amount : Nat, paid : Nat, date : Int]
Commitment == [investment : Investments, thisYear : BOOLEAN, month : Months, week : Weeks, amount : Nat,
         certainty : CERTAINTIES \ {"speculative"}]
Policy == [months_cover : Nat, absolute_floor : [Companies -> Nat], speculative_weight : 0..Unit,
           default_collection_lag_days : Nat, week_settlement : {"pessimistic", "midpoint"}]

ASSUME FormAssumption ==
    /\ IsFiniteSet(Companies) /\ Companies # {} /\ IsFiniteSet(Investments) /\ IsFiniteSet(Posted)
    /\ BudgetForms \subseteq Cell /\ PlanForms \subseteq PlanCell /\ CommitmentForms \subseteq Commitment
    /\ Policies \subseteq Policy
    /\ ReceivableForms \cup PayableForms \cup Collected \subseteq Invoice
    /\ Owner \in [Investments -> Companies] /\ Committed \in [Investments -> Nat]
    /\ \A l \in Posted : l.company \in Companies /\ l.kind \in {"cash", "opex"} /\ {l.date, l.amount} \subseteq Int

\* Halving a share as often as the bisection does makes no fraction.
Power[n \in 0..Halvings] == IF n = 0 THEN 1 ELSE 2 * Power[n - 1]
ASSUME StepAssumption == Halvings \in Nat /\ Unit \in Nat /\ \E k \in 1..Unit : Unit = k * Power[Halvings]

VARIABLES
    budget,         \* cells of the Budget Center
    plan,           \* cells of a saved plan version: cells with a flow of their own
    receivables, payables,
    commitments,    \* investment_commitments
    out,            \* what has been paid into each investment
    policy

forecastVars == <<budget, plan, receivables, payables, commitments, out, policy>>

Rows == Cardinality(budget) + Cardinality(plan) + Cardinality(receivables) + Cardinality(payables)
        + Cardinality(commitments)

ForecastInit ==
    /\ budget = {} /\ plan = {} /\ payables = {} /\ commitments = {}
    /\ receivables \in {{}} \cup {{r} : r \in Collected}
    /\ out = [i \in Investments |-> 0]
    /\ policy \in Policies

-----------------------------------------------------------------------------
(* What people do to the tables.                                           *)

Key(r) == <<r.company, r.type, r.cls, r.month, r.week>>
Upserted(cells, r) == {c \in cells : Key(c) # Key(r)} \cup {r}

SaveBudget(r) ==
    /\ budget' = IF r.amount = 0 THEN {c \in budget : Key(c) # Key(r)} ELSE Upserted(budget, r)
    /\ UNCHANGED <<plan, receivables, payables, commitments, out, policy>>

Flow(type) == IF type = "revenue" THEN "in" ELSE "out"
Planned(r, flow) == [company |-> r.company, type |-> r.type, cls |-> r.cls, month |-> r.month, week |-> r.week,
                     amount |-> r.amount, certainty |-> r.certainty, flow |-> flow]

\* Every budget cell with a direction becomes a cell of the version.
SeedPlan ==
    LET seeded == {Planned(r, Flow(r.type)) : r \in {b \in budget : b.type # "asset"}} IN
    /\ plan' = {c \in plan : \A s \in seeded : Key(c) # Key(s) \/ c.flow # s.flow} \cup seeded
    /\ UNCHANGED <<budget, receivables, payables, commitments, out, policy>>

SavePlan(r) ==
    /\ plan' = {c \in plan : Key(c) # Key(r) \/ c.flow # r.flow} \cup (IF r.amount = 0 THEN {} ELSE {r})
    /\ UNCHANGED <<budget, receivables, payables, commitments, out, policy>>

\* A form has no date of payment; an edit leaves the one there is.
CreateReceivable(f) ==
    /\ receivables' = receivables \cup {f}
    /\ UNCHANGED <<budget, plan, payables, commitments, out, policy>>

UpdateReceivable(r, f) ==
    /\ r \in receivables
    /\ receivables' = (receivables \ {r}) \cup {[f EXCEPT !.company = r.company, !.date = r.date]}
    /\ UNCHANGED <<budget, plan, payables, commitments, out, policy>>

DeleteReceivable(r) ==
    /\ r \in receivables
    /\ receivables' = receivables \ {r}
    /\ UNCHANGED <<budget, plan, payables, commitments, out, policy>>

CreatePayable(f) ==
    /\ payables' = payables \cup {f}
    /\ UNCHANGED <<budget, plan, receivables, commitments, out, policy>>

UpdatePayable(r, f) ==
    /\ r \in payables
    /\ payables' = (payables \ {r}) \cup {[f EXCEPT !.company = r.company]}
    /\ UNCHANGED <<budget, plan, receivables, commitments, out, policy>>

DeletePayable(r) ==
    /\ r \in payables
    /\ payables' = payables \ {r}
    /\ UNCHANGED <<budget, plan, receivables, commitments, out, policy>>

AddCommitment(c) ==
    /\ commitments' = commitments \cup {c}
    /\ UNCHANGED <<budget, plan, receivables, payables, out, policy>>

DeleteCommitment(c) ==
    /\ c \in commitments
    /\ commitments' = commitments \ {c}
    /\ UNCHANGED <<budget, plan, receivables, payables, out, policy>>

PayInvestment(i) ==
    /\ out[i] < MaxOut
    /\ out' = [out EXCEPT ![i] = @ + 1]
    /\ UNCHANGED <<budget, plan, receivables, payables, commitments, policy>>

SetPolicy(p) ==
    /\ policy' = p
    /\ UNCHANGED <<budget, plan, receivables, payables, commitments, out>>

ForecastNext ==
    \/ /\ Rows < MaxRows
       /\ \/ \E r \in BudgetForms : SaveBudget(r)
          \/ \E r \in PlanForms : SavePlan(r)
          \/ \E f \in ReceivableForms : CreateReceivable(f)
          \/ \E f \in PayableForms : CreatePayable(f)
          \/ \E c \in CommitmentForms : AddCommitment(c)
    \/ Rows + Cardinality(budget) <= MaxRows /\ SeedPlan
    \/ \E r \in receivables : DeleteReceivable(r) \/ \E f \in ReceivableForms : UpdateReceivable(r, f)
    \/ \E r \in payables : DeletePayable(r) \/ \E f \in PayableForms : UpdatePayable(r, f)
    \/ \E c \in commitments : DeleteCommitment(c)
    \/ \E i \in Investments : PayInvestment(i)
    \/ \E p \in Policies : SetPolicy(p)

ForecastSpec == ForecastInit /\ [][ForecastNext]_forecastVars

-----------------------------------------------------------------------------
(* The calendar: four weeks to a month, the last runs to its end.          *)

SmallerOf(a, b) == IF a < b THEN a ELSE b
LargerOf(a, b) == IF a > b THEN a ELSE b

WeekStart(m, w) == MonthStart[m] + (w - 1) * WeekLen
WeekEnd(m, w) == IF w = WEEKS_IN_MONTH THEN MonthStart[m + 1] - 1
                 ELSE SmallerOf(WeekStart(m, w) + WeekLen - 1, MonthStart[m + 1] - 1)
week_dates(m, w) == WeekStart(m, w)..WeekEnd(m, w)
LongestWeek == Max({Cardinality(week_dates(m, WEEKS_IN_MONTH)) : m \in Months} \cup {WeekLen})

week_of_date(d) ==
    LET m == CHOOSE n \in Months : MonthStart[n] <= d /\ d < MonthStart[n + 1]
    IN  <<m, SmallerOf(WEEKS_IN_MONTH, (d - MonthStart[m]) \div WeekLen + 1)>>

\* Mutant: money comes as early as its week allows and leaves as late.
SettlesEarly(m, w, flow, mode) ==
    IF mode = "midpoint" THEN WeekStart(m, w) + (WeekEnd(m, w) - WeekStart(m, w)) \div 2
    ELSE IF flow = "in" THEN WeekStart(m, w) ELSE WeekEnd(m, w)

\* Money leaves as early as its week allows and comes as late.
settlement_date(m, w, flow, mode) ==
    IF mode = "midpoint" THEN WeekStart(m, w) + (WeekEnd(m, w) - WeekStart(m, w)) \div 2
    ELSE IF flow = "out" THEN WeekStart(m, w) ELSE WeekEnd(m, w)

\* The weeks still ahead; the last of the year if none is.
RemainingWeeks ==
    LET ahead == {mw \in Months \X Weeks : WeekEnd(mw[1], mw[2]) >= Today}
    IN  IF ahead = {} THEN {<<Len(MonthStart) - 1, WEEKS_IN_MONTH>>} ELSE ahead

\* amount * num / den, to the cent
Share(amount, num, den) == (2 * amount * num + den) \div (2 * den)

\* Mutant: the remainder is lost.
spread_rounded(amount, weeks) == [mw \in weeks |-> Share(amount, 1, Cardinality(weeks))]

\* The last week takes the remainder.
spread_evenly(amount, weeks) ==
    LET n == Cardinality(weeks)
        each == Share(amount, 1, n)
        last == CHOOSE mw \in weeks : \A o \in weeks : WeekStart(o[1], o[2]) <= WeekStart(mw[1], mw[2])
    IN  [mw \in weeks |-> IF mw = last THEN amount - each * (n - 1) ELSE each]

-----------------------------------------------------------------------------
(* materialise(): every dated movement, from all sources.                  *)

item(date, company, flow, amount, certainty, source, deferrable, ref) ==
    [date |-> date, company |-> company, flow |-> flow, amount |-> amount, certainty |-> certainty,
     source |-> source, deferrable |-> deferrable, ref |-> ref]

Settles(r, flow) == settlement_date(r.month, r.week, flow, policy.week_settlement)

\* A saved version says the direction itself.
PlanItems == {item(Settles(r, r.flow), r.company, r.flow, r.amount, r.certainty, "plan", TRUE, r) : r \in plan}

\* In the live budget the type of the account does, and a non-cash line moves
\* no cash.
BudgetItems ==
    {item(Settles(r, Flow(r.type)), r.company, Flow(r.type), r.amount, r.certainty, "budget", TRUE, r) :
       r \in {b \in budget : b.cls # "noncash" /\ b.type # "asset"}}

Outstanding(r) == r.amount - r.paid

PayableItems ==
    {item(r.due, r.company, "out", Outstanding(r), "committed", "payable", FALSE, r) :
       r \in {p \in payables : Outstanding(p) > 0 /\ p.due \in Year}}

\* A client pays as late after the due date as it did, or as clients do.
Expected(r) == r.due + (IF r.date = NoDate THEN policy.default_collection_lag_days ELSE LargerOf(0, r.date - r.due))

ReceivableItems ==
    {item(Expected(r), r.company, "in", Outstanding(r), "committed", "receivable", FALSE, r) :
       r \in {q \in receivables : Outstanding(q) > 0 /\ Expected(q) \in Year}}

CommitmentItems ==
    {item(Settles(c, "out"), Owner[c.investment], "out", c.amount, c.certainty, "investment", FALSE, c) :
       c \in {d \in commitments : d.thisYear}}

AmountOf(items) == SumFunction([i \in items |-> i.amount])
ScheduledIn(i) == AmountOf({c \in commitments : c.investment = i})
unscheduled(i) == LargerOf(0, Committed[i] - ScheduledIn(i) - out[i])

\* Committed money without a date is spread over the weeks that are left.
UnscheduledItems ==
    UNION {LET part == spread_evenly(unscheduled(i), RemainingWeeks) IN
           {item(settlement_date(mw[1], mw[2], "out", policy.week_settlement), Owner[i], "out", part[mw], "committed",
                 "investment_unscheduled", TRUE, <<i, mw>>) : mw \in RemainingWeeks} :
           i \in {j \in Investments : unscheduled(j) > 0}}

materialise(live) ==
    (IF live THEN BudgetItems ELSE PlanItems)
    \cup PayableItems \cup ReceivableItems \cup CommitmentItems \cup UnscheduledItems

-----------------------------------------------------------------------------
(* The ledger, the floor and the verdict.                                  *)

\* Which certainties each run counts.
RUN_FILTERS == [
    bound |-> [in |-> {"committed"}, out |-> {"committed", "planned"}],
    base |-> [in |-> {"committed", "expected", "speculative"}, out |-> CERTAINTIES],
    optimistic |-> [in |-> CERTAINTIES, out |-> {"committed", "planned"}]]

filter_run(items, run) ==
    {IF run = "base" /\ i.flow = "in" /\ i.certainty = "speculative"
     THEN [i EXCEPT !.amount = Share(i.amount, policy.speculative_weight, Unit)] ELSE i :
       i \in {j \in items : j.certainty \in RUN_FILTERS[run][j.flow]}}

Of(items, company) == {i \in items : i.company = company}
Flowing(items, flow) == {i \in items : i.flow = flow}

\* Posted cash before the year.
opening_cash(company) == AmountOf({l \in Posted : l.company = company /\ l.kind = "cash" /\ l.date < start})

Signed(i) == IF i.flow = "in" THEN i.amount ELSE -i.amount

\* The balance at the end of every day of the year.
daily_ledger(items, opening) ==
    [d \in Year |-> opening + SumFunction([i \in {j \in items : j.date \in start..d} |-> Signed(i)])]

\* Three months of fixed costs, up to today or the end of the year asked for.
FixedCosts(company) ==
    LET upto == IF Today \in Year THEN Today ELSE end
    IN  AmountOf({l \in Posted : l.company = company /\ l.kind = "opex"
                              /\ l.date >= upto - Trailing /\ l.date <= upto})

buffer_floor(company) == LargerOf(policy.absolute_floor[company], Share(FixedCosts(company), policy.months_cover, 3))

Lowest(ledger) == Min({ledger[d] : d \in Year})
WorstDay(ledger) == Min({d \in Year : ledger[d] = Lowest(ledger)})

VERDICTS == <<"KRITIS", "TOLAK", "WASPADA", "LULUS">>
VERDICT_RANK(v) == CHOOSE n \in DOMAIN VERDICTS : VERDICTS[n] = v

\* Below zero, below the floor, with little room or a base run below it, fine.
verdict(bound, base, floor) ==
    LET low == Lowest(bound)
    IN  IF low < 0 THEN "KRITIS"
        ELSE IF low < floor THEN "TOLAK"
        ELSE IF Lowest(base) < floor \/ 4 * (low - floor) < floor THEN "WASPADA"
        ELSE "LULUS"

LedgerOf(items, company, run) == daily_ledger(filter_run(Of(items, company), run), opening_cash(company))

EntityVerdict(items, company) ==
    verdict(LedgerOf(items, company, "bound"), LedgerOf(items, company, "base"), buffer_floor(company))

\* The group is as safe as its least safe entity.
consolidate(verdicts) == VERDICTS[Min({VERDICT_RANK(v) : v \in verdicts})]
consult(items) == consolidate({EntityVerdict(items, c) : c \in Companies})

-----------------------------------------------------------------------------
(* What the screens show of a ledger.                                      *)

weekly_view(ledger) ==
    [mw \in Months \X Weeks |-> [ending |-> ledger[WeekEnd(mw[1], mw[2])],
                                 low |-> Min({ledger[d] : d \in week_dates(mw[1], mw[2])})]]

\* Days below zero or below the floor; NoDate for the first of none.
Breaches(ledger, floor) == {d \in Year : ledger[d] < 0 \/ ledger[d] < floor}
FirstBreach(ledger, floor) == IF Breaches(ledger, floor) = {} THEN NoDate ELSE Min(Breaches(ledger, floor))

\* The last day the plan holds; NoDate if it does not hold for one.
safe_until(ledger, floor) ==
    LET b == FirstBreach(ledger, floor) IN IF b = NoDate THEN end ELSE IF b = start THEN NoDate ELSE b - 1

\* Mutant: what is paid after the worst day can be delayed as well.
movable_any(items, worst) ==
    {i \in items : i.flow = "out" /\ i.deferrable /\ i.certainty # "committed"}

movable(items, worst) ==
    {i \in items : i.flow = "out" /\ i.deferrable /\ i.date <= worst /\ i.certainty # "committed"}

\* recommend(): the outflows said to cover the whole shortfall when delayed to
\* after the worst day.
CoveringDelays(items, ledger, floor) ==
    IF Breaches(ledger, floor) = {} THEN {}
    ELSE {i \in movable(items, WorstDay(ledger)) : i.amount >= floor - Lowest(ledger)}

-----------------------------------------------------------------------------
(* sensitivity(): how far each axis can move before the verdict turns.     *)

AXES == {"revenue_realisation", "expense_overrun", "collection_lag", "crisis_shock", "investment_timing"}
HalfYear == (Len(MonthStart) - 1) \div 2

\* The same day of a month of the first half, if that month has it.
PulledForward(d) ==
    LET m == week_of_date(d)[1]
        n == ((m - 1) % HalfYear) + 1
        day == MonthStart[n] + d - MonthStart[m]
    IN  IF m > HalfYear /\ day < MonthStart[n + 1] THEN day ELSE d

\* An unbudgeted outflow, shared by what each company pays in the year.
Shock(items, level, day) ==
    LET paid(S) == AmountOf(Flowing(S, "out"))
        total == IF paid(items) = 0 THEN 1 ELSE paid(items)
        part(c) == Share(Share(paid(items), level, Unit) * paid(Of(items, c)), 1, total)
    IN  {item(day, c, "out", part(c), "committed", "crisis", TRUE, c) : c \in {e \in Companies : part(e) # 0}}

apply_axis(items, axis, level, day) ==
    CASE axis = "revenue_realisation" ->
           {IF i.flow = "in" THEN [i EXCEPT !.amount = Share(@, level, Unit)] ELSE i : i \in items}
      [] axis = "expense_overrun" ->
           {IF i.flow = "out" THEN [i EXCEPT !.amount = @ + Share(@, level, Unit)] ELSE i : i \in items}
      [] axis = "collection_lag" ->
           {IF i.flow = "in" THEN [i EXCEPT !.date = @ + level] ELSE i : i \in items}
      [] axis = "crisis_shock" -> items \cup Shock(items, level, day)
      [] axis = "investment_timing" ->
           {IF level > 0 /\ i.source = "investment_unscheduled" THEN [i EXCEPT !.date = PulledForward(@)] ELSE i :
              i \in items}

\* The least headroom and the least balance of any company.
_run_axis(items, axis, level, day) ==
    LET varied == apply_axis(items, axis, level, day)
        low == [c \in Companies |-> Lowest(LedgerOf(varied, c, "bound"))]
    IN  [headroom |-> Min({low[c] - buffer_floor(c) : c \in Companies}), cash |-> Min({low[c] : c \in Companies})]

\* The shock lands on the first day the plan fails by itself, or at mid-year.
CrisisDay(items) ==
    LET firsts == {FirstBreach(LedgerOf(items, c, "bound"), buffer_floor(c)) : c \in Companies} \ {NoDate}
    IN  IF firsts = {} THEN MonthStart[HalfYear + 1] ELSE Min(firsts)

Fails(point, target) == (target = "floor" /\ point.headroom < 0) \/ point.cash < 0

\* The hardest level of an axis and the mildest.
Hardest(axis) == IF axis = "revenue_realisation" THEN 0 ELSE 2 * Unit
Mildest(axis) == IF axis = "revenue_realisation" THEN Unit ELSE 0
LastLevel(axis) == CASE axis = "revenue_realisation" -> Unit
                     [] axis \in {"expense_overrun", "crisis_shock"} -> 2 * Unit
                     [] axis = "collection_lag" -> end - start
                     [] axis = "investment_timing" -> 1
BisectedAxes == {"revenue_realisation", "expense_overrun", "crisis_shock"}

\* Mutant: the low side is searched backwards.
BisectedBackwards(items, axis, day, target) ==
    LET fails(l) == Fails(_run_axis(items, axis, l, day), target)
        ends[k \in 0..Halvings] ==
          IF k = 0 THEN <<Hardest(axis), Mildest(axis)>>
          ELSE LET e == ends[k - 1]
                   mid == (e[1] + e[2]) \div 2
                   low == axis = "revenue_realisation"
               IN  IF fails(mid) # low THEN <<mid, e[2]>> ELSE <<e[1], mid>>
    IN  ends[Halvings]

\* One half at a time: the first end always fails, the second never does.
Halved(items, axis, day, target, e) ==
    LET mid == (e[1] + e[2]) \div 2
    IN  IF Fails(_run_axis(items, axis, mid, day), target) THEN <<mid, e[2]>> ELSE <<e[1], mid>>

Bisected(items, axis, day, target) ==
    LET ends[k \in 0..Halvings] ==
          IF k = 0 THEN <<Hardest(axis), Mildest(axis)>> ELSE Halved(items, axis, day, target, ends[k - 1])
    IN  ends[Halvings]

-----------------------------------------------------------------------------
(* Properties.                                                             *)

\* The day a movement may come instead, `off` days into its week.
Placed(i, off) ==
    IF i.source \in {"payable", "receivable"} THEN i.date
    ELSE LET mw == week_of_date(i.date) IN SmallerOf(WeekStart(mw[1], mw[2]) + off, WeekEnd(mw[1], mw[2]))

\* The last week takes what rounding the others left: of a few cents spread over
\* many weeks it takes less than none, a payment that brings money in.
PartsArePaid ==
    \A i \in Investments, mw \in RemainingWeeks : spread_evenly(unscheduled(i), RemainingWeeks)[mw] >= 0

\* On whatever days of their weeks the money really moves, no company's cash
\* falls below its floor or zero before the day it is said to be safe until,
\* and the verdict is no better than the one those days deserve (fpa_cash.py:58).
NoWorseThanTold ==
    policy.week_settlement = "pessimistic" /\ PartsArePaid =>
      \A live \in BOOLEAN, c \in Companies :
        LET mine == filter_run(Of(materialise(live), c), "bound")
            floor == buffer_floor(c)
            opening == opening_cash(c)
            told == daily_ledger(mine, opening)
            until == safe_until(told, floor)
            rank == VERDICT_RANK(verdict(told, told, floor))
        IN  \A off \in [mine -> 0..LongestWeek - 1] :
              LET actual == daily_ledger({[i EXCEPT !.date = Placed(i, off[i])] : i \in mine}, opening) IN
              /\ \A d \in start..until : actual[d] >= floor /\ actual[d] >= 0
              /\ VERDICT_RANK(verdict(actual, actual, floor)) >= rank

\* Whatever an investment is committed to and nobody has paid, scheduled in
\* another year or called only expected, the bound run pays within the year
\* ("dropping it makes the Oracle optimistic", fpa_cash.py:369).
BoundCountsCommitted ==
    \A i \in Investments :
      LET counted == filter_run(materialise(TRUE), "bound")
          dated == {c \in counted : c.source = "investment" /\ c.ref.investment = i}
          spread == {c \in counted : c.source = "investment_unscheduled" /\ c.ref[1] = i}
          elsewhere == {c \in commitments : c.investment = i /\ (~c.thisYear \/ c.certainty = "expected")}
      IN  /\ AmountOf(dated) + AmountOf(spread) + out[i] + AmountOf(elsewhere) >= Committed[i]
          /\ \A c \in dated \cup spread : c.date \in Year

\* The margin is real: a level of stress never leaves more headroom or cash
\* than a milder one, and a break-even that is given lies between a level that
\* fails and one that does not, as close as the halving can bring them.
MarginIsReal ==
    PartsArePaid =>
    LET items == materialise(TRUE)
        day == CrisisDay(items)
        point(axis, l) == _run_axis(items, axis, l, day)
    IN  \A axis \in AXES :
          /\ \A l \in 1..LastLevel(axis) :
               LET low == point(axis, l - 1)
                   high == point(axis, l)
                   rises == axis = "revenue_realisation"
               IN  /\ IF rises THEN low.headroom <= high.headroom ELSE high.headroom <= low.headroom
                   /\ IF rises THEN low.cash <= high.cash ELSE high.cash <= low.cash
          /\ axis \in BisectedAxes =>
               \A target \in {"floor", "zero"} :
                 Fails(point(axis, Hardest(axis)), target) /\ ~Fails(point(axis, Mildest(axis)), target) =>
                   LET e == Bisected(items, axis, day, target) IN
                   /\ Fails(point(axis, e[1]), target) /\ ~Fails(point(axis, e[2]), target)
                   /\ (e[1] - e[2]) * Power[Halvings] = Hardest(axis) - Mildest(axis)

\* What the screens say of a ledger is true of its days: a week's low shows
\* every day that fails, and an outflow that is said to cover the shortfall
\* heals, when it is delayed past the worst day, every day from its own to that.
ScreensTell ==
    \A live \in BOOLEAN, c \in Companies :
      LET mine == filter_run(Of(materialise(live), c), "bound")
          ledger == LedgerOf(materialise(live), c, "bound")
          floor == buffer_floor(c)
          weekly == weekly_view(ledger)
      IN  /\ Min({weekly[mw].low : mw \in Months \X Weeks}) = Lowest(ledger)
          /\ \A mw \in Months \X Weeks :
               weekly[mw].low < floor <=> \E d \in Year : ledger[d] < floor /\ week_of_date(d) = mw
          /\ \A i \in CoveringDelays(mine, ledger, floor) :
               i.date <= WorstDay(ledger) /\ \A d \in i.date..WorstDay(ledger) : ledger[d] + i.amount >= floor

\* A version that was just frozen from the budget forecasts what the budget
\* does ("a faithful WEEK-FOR-WEEK copy", server.py:3785).
\* The code does not keep it; the README tells how it fails.
SnapshotForecasts ==
    (\A b \in budget : b.type # "asset" => \E p \in plan : p = Planned(b, Flow(b.type)))
    /\ Cardinality(plan) = Cardinality({b \in budget : b.type # "asset"})
    => consult(materialise(FALSE)) = consult(materialise(TRUE))

=============================================================================
