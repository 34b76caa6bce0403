------------------------------- MODULE Chart --------------------------------
(***************************************************************************)
(* Companies, charts of accounts and projects of apps/erp (server.py,      *)
(* database.py, excel_io.py): the tree of accounts that the statements of  *)
(* Reports are grouped by, what may be deleted, and what the foreign keys  *)
(* refuse after the handler has agreed.                                    *)
(*                                                                         *)
(* As in Plan, Books and Tracker, a handler's reads before its first write *)
(* are autocommitted and may be stale when it writes; from that write to   *)
(* commit() it is alone.  A broken foreign or unique key rolls back.       *)
(*                                                                         *)
(* An account code is a number of eight digits: 51000000 is "5100",        *)
(* 51000100 is "5100-01", 51000101 is "5100-01-01".  Numbers and the       *)
(* code's strings have the same order and the same prefixes.               *)
(*                                                                         *)
(* Bound: no request begins after MaxChanges changes of the tables.        *)
(***************************************************************************)
EXTENDS Integers, FiniteSets, Sequences, FiniteSetsExt, Functions

CONSTANTS
    Users, Companies, Codes, Projects,
    AccountForms,       \* what people fill in for an account
    Charts,             \* sheets people import: lists of account forms
    Standard,           \* the standard chart, a form for each of its codes
    EntryForms,         \* journal entries people post
    CashChoices,        \* the accounts people count as cash, or not
    Planned,            \* companies with plan versions
    Databases,          \* what is there at the start
    MaxChanges

NoCode == 0
NoProject == "no project"
NoCompany == "no company"
ACCOUNT_TYPES == <<"asset", "equity", "expense", "liability", "revenue">>    \* in the order of MIN(type)
Types == Range(ACCOUNT_TYPES)

AccountRow == [type : Types, parent : Codes \cup {NoCode}, ic : BOOLEAN]
NoAccount == [type |-> "none", parent |-> NoCode, ic |-> FALSE]
AccountForm == [company : Companies, code : Codes, type : Types, parent : Codes \cup {NoCode}, ic : BOOLEAN]
LineRow == [code : Codes, project : Projects \cup {NoProject}, debit : Nat, credit : Nat]
EntryRow == [company : Companies, date : Nat, posted : BOOLEAN, lines : Seq(LineRow)]
BudgetRow == [company : Companies, code : Codes, project : Projects \cup {NoProject}, year : Nat, month : 1..12, amount : Int]

\* 5100-01-01 -> 5100-01 -> 5100
Stem(code) == CASE (code % 100) # 0 -> code - (code % 100)
                [] (code % 100) = 0 /\ (code % 10000) # 0 -> code - (code % 10000)
                [] OTHER -> NoCode

\* The debits of an entry's lines are its credits: in whole rupiah the cent that
\* create_journal() tolerates is nothing.
Balanced(e) == SumFunction([k \in DOMAIN e.lines |-> e.lines[k].debit - e.lines[k].credit]) = 0

\* What the foreign keys promise of an entry: by_code is its company's chart,
\* owner the company of each project.
Fits(e, by_code, owner) ==
    /\ Balanced(e)
    /\ \A k \in DOMAIN e.lines : /\ by_code[e.lines[k].code] # NoAccount
                                 /\ LET p == e.lines[k].project IN p # NoProject => owner[p] # NoCompany

\* ... and of a database.
Sound(db) ==
    /\ db.company \subseteq Companies
    /\ db.account \in [Companies -> [Codes -> AccountRow \cup {NoAccount}]]
    /\ db.project \in [Projects -> db.company \cup {NoCompany}]
    /\ \A c \in Companies, code \in Codes : db.account[c][code] # NoAccount => c \in db.company
    /\ DOMAIN db.entry \subseteq Nat /\ IsFiniteSet(DOMAIN db.entry)
    /\ \A i \in DOMAIN db.entry : LET e == db.entry[i] IN
          e \in EntryRow /\ e.company \in db.company /\ Fits(e, db.account[e.company], db.project)
    /\ IsFiniteSet(db.budget) /\ db.budget \subseteq BudgetRow
    /\ \A b \in db.budget : /\ db.account[b.company][b.code] # NoAccount
                            /\ b.project # NoProject => db.project[b.project] # NoCompany

ASSUME CodeAssumption ==
    /\ Codes \subseteq Nat /\ NoCode \notin Codes /\ IsFiniteSet(Codes)
    /\ \A code \in Codes : Stem(code) \in Codes \cup {NoCode}
ASSUME NameAssumption ==
    /\ NoProject \notin Projects /\ NoCompany \notin Companies
    /\ IsFiniteSet(Companies) /\ IsFiniteSet(Projects)
ASSUME FormAssumption ==
    /\ AccountForms \subseteq AccountForm /\ Charts \subseteq Seq(AccountForm)
    /\ EntryForms \subseteq EntryRow
    /\ MaxChanges \in Nat /\ Planned \subseteq Companies
\* In STANDARD_COA a parent has the smaller code.
ASSUME StandardAssumption ==
    \A f \in Standard : /\ f.code \in Codes /\ f.parent < f.code
                         /\ [type |-> f.type, parent |-> f.parent, ic |-> f.ic] \in AccountRow
ASSUME DatabaseAssumption == \A db \in Databases : Sound(db)

VARIABLES
    company,    \* companies that exist
    account,    \* accounts by company and code
    project,    \* the company that owns each project
    entry,      \* journal entries by their id
    budget,     \* budget rows
    override,   \* app_settings: codes switched on or off as cash
    task,       \* the request each user is waiting for
    stale,      \* users whose request began before the tables changed
    changes     \* how often the tables changed

tables == <<company, account, project, entry, budget, override>>
vars == <<company, account, project, entry, budget, override, task, stale, changes>>

NoForm == [company |-> NoCompany, code |-> NoCode, type |-> "none", parent |-> NoCode, ic |-> FALSE]
Idle == [pc |-> "idle", form |-> NoForm, project |-> NoProject, gone |-> FALSE]
At(u, pc) == task[u].pc = pc
Quiet == \A u \in Users : At(u, "idle")
Free(u) == At(u, "idle") /\ changes < MaxChanges
Begin(u, t) == Free(u) /\ task' = [task EXCEPT ![u] = t] /\ UNCHANGED <<tables, stale, changes>>

Exists(c, code) == account[c][code] # NoAccount
\* The row a request has read by its id, and that somebody deleted.
Lost(t) == LET f == t.form IN
    t.pc \in {"update", "delete"} /\ Exists(f.company, f.code) /\ account'[f.company][f.code] = NoAccount

\* What the others have read is no longer true.
Commit(u) ==
    /\ task' = [w \in Users |-> IF w = u THEN Idle
                                ELSE [task[w] EXCEPT !.gone = @ \/ Lost(task[w])]]
    /\ stale' = IF tables' = tables THEN stale \ {u} ELSE {w \in Users \ {u} : ~At(w, "idle")}
    /\ changes' = changes + IF tables' = tables THEN 0 ELSE 1

Row(f) == [type |-> f.type, parent |-> f.parent, ic |-> f.ic]
Put(tab, f) == [tab EXCEPT ![f.company][f.code] = Row(f)]

Lines == UNION {{<<i, k>> : k \in DOMAIN entry[i].lines} : i \in DOMAIN entry}
LineOf(l) == entry[l[1]].lines[l[2]]
OnAccount(c, code) == {l \in Lines : entry[l[1]].company = c /\ LineOf(l).code = code}
OnProject(p) == {l \in Lines : LineOf(l).project = p}
BudgetsOf(c, code) == {b \in budget : b.company = c /\ b.code = code}

-----------------------------------------------------------------------------
(* The tree of accounts.                                                   *)

\* The codes met on the way up from cur, the missing one at its end included.
Climb(by_code, cur) ==
    LET N == Cardinality(Codes)
        way[n \in 0..N] == IF n = 0 THEN cur
                            ELSE IF way[n - 1] = NoCode THEN NoCode ELSE by_code[way[n - 1]].parent
    IN  {way[n] : n \in 0..N} \ {NoCode}

\* Mutant: only the parent itself is looked at.
ValidatedShallow(c, code, parent) ==
    parent # NoCode => parent # code /\ Exists(c, parent)

\* _validate_account_parent()
Validated(c, code, parent) ==
    parent # NoCode => /\ parent # code /\ Exists(c, parent)
                       /\ code \notin Climb(account[c], parent)

Issue(kind, code) == [kind |-> kind, code |-> code]

\* The issues account_integrity() finds; a code cannot be there twice.
account_integrity(c) ==
    LET Up(code) == account[c][code].parent
        Odd(code) == Exists(c, code) /\ Up(code) # NoCode
    IN  {Issue("self_parent", x) : x \in {y \in Codes : Odd(y) /\ Up(y) = y}}
        \cup {Issue("orphan_parent", x) : x \in {y \in Codes : Odd(y) /\ Up(y) # y /\ ~Exists(c, Up(y))}}
        \cup {Issue("cycle", x) : x \in {y \in Codes : Odd(y) /\ Up(y) # y /\ Exists(c, Up(y))
                                                       /\ y \in Climb(account[c], Up(y))}}

Orphans(c) == {i \in account_integrity(c) : i.kind = "orphan_parent"}
Forest(c) == account_integrity(c) = Orphans(c)

-----------------------------------------------------------------------------
(* Accounts.                                                               *)

\* create_account() checks the parent in autocommit, ...
ReadCreate(u, f) ==
    LET parent == IF f.parent = NoCode THEN Stem(f.code) ELSE f.parent IN
    /\ f.company \in company
    /\ Validated(f.company, f.code, parent)
    /\ Begin(u, [Idle EXCEPT !.pc = "create", !.form = [f EXCEPT !.parent = parent]])

\* ... and inserts the account; the code must be new to the company.
WriteCreate(u) ==
    LET f == task[u].form IN
    /\ At(u, "create") /\ f.company \in company /\ ~Exists(f.company, f.code)
    /\ account' = Put(account, f)
    /\ UNCHANGED <<company, project, entry, budget, override>>
    /\ Commit(u)

\* The parent is taken as the form has it, its derivation is not repeated.
ReadUpdate(u, f) ==
    /\ f.company \in company /\ Exists(f.company, f.code)
    /\ Validated(f.company, f.code, f.parent)
    /\ Begin(u, [Idle EXCEPT !.pc = "update", !.form = f])

WriteUpdate(u) ==
    LET f == task[u].form IN
    /\ At(u, "update")
    /\ account' = IF task[u].gone THEN account ELSE Put(account, f)
    /\ UNCHANGED <<company, project, entry, budget, override>>
    /\ Commit(u)

\* An account with lines or a budget is kept; its children are not looked at.
ReadDelete(u, c, code) ==
    /\ Exists(c, code)
    /\ OnAccount(c, code) = {}
    /\ \A b \in BudgetsOf(c, code) : b.amount = 0
    /\ Begin(u, [Idle EXCEPT !.pc = "delete", !.form.company = c, !.form.code = code])

\* The foreign keys count a budget of zero as well.
WriteDelete(u) ==
    LET f == task[u].form IN
    /\ At(u, "delete")
    /\ task[u].gone \/ (OnAccount(f.company, f.code) = {} /\ BudgetsOf(f.company, f.code) = {})
    /\ account' = IF task[u].gone THEN account ELSE [account EXCEPT ![f.company][f.code] = NoAccount]
    /\ UNCHANGED <<company, project, entry, budget, override>>
    /\ Commit(u)

\* import_coa() upserts row by row, so that the last row of a code stays, and
\* looks at no parent.
ImportChart(u, c, rows) ==
    LET RowsOf(code) == {i \in DOMAIN rows : rows[i].code = code}
        Derived(f) == [f EXCEPT !.parent = IF @ = NoCode THEN Stem(f.code) ELSE @]
    IN  /\ Free(u) /\ c \in company
        /\ account' = [account EXCEPT ![c] = [code \in Codes |->
              IF RowsOf(code) = {} THEN account[c][code] ELSE Row(Derived(rows[Max(RowsOf(code))]))]]
        /\ UNCHANGED <<company, project, entry, budget, override>>
        /\ Commit(u)

\* INSERT OR IGNORE
WithStandard(by_code) ==
    [code \in Codes |->
        IF by_code[code] = NoAccount /\ \E f \in Standard : f.code = code
        THEN Row(CHOOSE f \in Standard : f.code = code) ELSE by_code[code]]

\* apply_standard(), apply_standard_all()
ApplyStandard(u, chosen) ==
    /\ Free(u) /\ chosen \subseteq company /\ (chosen = company \/ Cardinality(chosen) = 1)
    /\ account' = [c \in Companies |-> IF c \in chosen THEN WithStandard(account[c]) ELSE account[c]]
    /\ UNCHANGED <<company, project, entry, budget, override>>
    /\ Commit(u)

-----------------------------------------------------------------------------
(* Companies, projects, entries and the cash accounts.                     *)

CreateCompany(u, c, standard) ==
    /\ Free(u) /\ c \notin company
    /\ company' = company \cup {c}
    /\ account' = IF standard THEN [account EXCEPT ![c] = WithStandard(@)] ELSE account
    /\ UNCHANGED <<project, entry, budget, override>>
    /\ Commit(u)

\* delete_company() counts the companies in autocommit, ...
ReadDeleteCompany(u, c) ==
    /\ c \in company /\ Cardinality(company) > 1
    /\ Begin(u, [Idle EXCEPT !.pc = "delete company", !.form.company = c])

\* Rows of others on what delete_company_cascade() deletes.
HeldBack(c) ==
    \/ c \in Planned
    \/ \E l \in Lines : entry[l[1]].company # c
         /\ LineOf(l).project # NoProject /\ project[LineOf(l).project] = c
    \/ \E b \in budget : b.company # c /\ b.project # NoProject /\ project[b.project] = c

\* ... and deletes table by table.
WriteDeleteCompany(u) ==
    LET c == task[u].form.company IN
    /\ At(u, "delete company")
    /\ ~HeldBack(c)
    /\ company' = company \ {c}
    /\ account' = [account EXCEPT ![c] = [code \in Codes |-> NoAccount]]
    /\ project' = [p \in Projects |-> IF project[p] = c THEN NoCompany ELSE project[p]]
    /\ entry' = Restrict(entry, {i \in DOMAIN entry : entry[i].company # c})
    /\ budget' = {b \in budget : b.company # c}
    /\ UNCHANGED override
    /\ Commit(u)

CreateProject(u, p, c) ==
    /\ Free(u) /\ project[p] = NoCompany /\ c \in company
    /\ project' = [project EXCEPT ![p] = c]
    /\ UNCHANGED <<company, account, entry, budget, override>>
    /\ Commit(u)

ReadDeleteProject(u, p) ==
    /\ project[p] # NoCompany /\ OnProject(p) = {}
    /\ Begin(u, [Idle EXCEPT !.pc = "delete project", !.project = p])

WriteDeleteProject(u) ==
    LET p == task[u].project IN
    /\ At(u, "delete project") /\ OnProject(p) = {}
    /\ budget' = {b \in budget : b.project # p}
    /\ project' = [project EXCEPT ![p] = NoCompany]
    /\ UNCHANGED <<company, account, entry, override>>
    /\ Commit(u)

\* An entry of Books: its lines balance and are on accounts of its company.
PostEntry(u, e) ==
    LET id == Max(DOMAIN entry \cup {0}) + 1 IN
    /\ Free(u)
    /\ e.company \in company /\ Fits(e, account[e.company], project)
    /\ entry' = [i \in DOMAIN entry \cup {id} |-> IF i = id THEN e ELSE entry[i]]
    /\ UNCHANGED <<company, account, project, budget, override>>
    /\ Commit(u)

SetCash(u, choice) ==
    /\ Free(u)
    /\ override' = choice
    /\ UNCHANGED <<company, account, project, entry, budget>>
    /\ Commit(u)

\* A refusal or a broken key.
Abort(u) ==
    /\ ~At(u, "idle")
    /\ UNCHANGED tables
    /\ Commit(u)

-----------------------------------------------------------------------------
Init ==
    /\ \E db \in Databases :
         /\ company = db.company /\ account = db.account /\ project = db.project
         /\ entry = db.entry /\ budget = db.budget /\ override = db.override
    /\ task = [u \in Users |-> Idle] /\ stale = {} /\ changes = 0

Import(u) == \E c \in Companies, rows \in Charts : ImportChart(u, c, rows)
Standardize(u) == \E chosen \in SUBSET company : ApplyStandard(u, chosen)

Next ==
    \E u \in Users :
        \/ \E f \in AccountForms : ReadCreate(u, f) \/ ReadUpdate(u, f)
        \/ \E c \in Companies, code \in Codes : ReadDelete(u, c, code)
        \/ WriteCreate(u) \/ WriteUpdate(u) \/ WriteDelete(u)
        \/ Import(u) \/ Standardize(u)
        \/ \E c \in Companies : \/ \E standard \in BOOLEAN : CreateCompany(u, c, standard)
                                \/ ReadDeleteCompany(u, c)
                                \/ \E p \in Projects : CreateProject(u, p, c)
        \/ WriteDeleteCompany(u)
        \/ \E p \in Projects : ReadDeleteProject(u, p)
        \/ WriteDeleteProject(u)
        \/ \E e \in EntryForms : PostEntry(u, e)
        \/ \E choice \in CashChoices : SetCash(u, choice)
        \/ Abort(u)

Spec == Init /\ [][Next]_vars

-----------------------------------------------------------------------------
(* Properties.                                                             *)

\* With the foreign keys of journal_lines, budgets, accounts and projects.
TypeOK == Sound([company |-> company, account |-> account, project |-> project, entry |-> entry, budget |-> budget])

\* The chart of a company becomes circular, and its statements lose what is on
\* the circle, only through an imported sheet (import_coa() checks no parent),
\* a request another one has overtaken (_validate_account_parent() runs before
\* the write), or standard accounts put back above accounts whose parent had
\* been deleted.
ChartKeepsForest ==
    [][\A c \in Companies : Forest(c) /\ ~Forest(c)' =>
          \/ \E u \in stale : ~At(u, "idle") /\ task'[u] = Idle
          \/ \E u \in Users : Import(u)
          \/ Orphans(c) # {} /\ \E u \in Users : Standardize(u)]_vars
=============================================================================
