------------------------------ MODULE Startup ------------------------------
(***************************************************************************)
(* The databases of apps/erp as files (database.py) and what a server      *)
(* process does to them when it starts: it moves files from their old      *)
(* places, makes the group database and the sandbox, and brings every      *)
(* database to the current shape.  Several web workers do this at once,    *)
(* and any of them may die.                                                *)
(*                                                                         *)
(* Python's sqlite3 opens a transaction at the first INSERT, UPDATE or     *)
(* DELETE: what comes before it, ALTER and CREATE included, is committed   *)
(* by itself; from there to commit() the worker is alone with the file.    *)
(*                                                                         *)
(* Of a database only what tells the steps of migrate_database() apart is  *)
(* kept.  The columns it adds are three groups: before the rebuilds, the   *)
(* cash-flow class, and those after the fold (with the tables made there). *)
(* The rows of a rebuilt table are <<id, week>>, week 0 for a month.       *)
(*                                                                         *)
(* Bounds: MaxWork processes started and requests made.                    *)
(***************************************************************************)
EXTENDS Integers, FiniteSets, Sequences

CONSTANTS
    Workers,
    Names,          \* the databases, the group's first, as list_databases() orders them
    SANDBOX_DB,
    Cells,          \* budget cells and tracks
    Uids, NoUser, Gone,    \* user ids; an id not used yet, one whose user was deleted
    Seeds,          \* the users seed() inserts
    OpenProfile,    \* DEFAULT_DB_PROFILE
    Folders,        \* what the data folder may hold at the start ...
    Moved,          \* ... and a file in an older folder
    MaxWork

Databases == {Names[i] : i \in DOMAIN Names}

ASSUME NamesAssumption == Names \in Seq(Databases) /\ Names # <<>> /\ SANDBOX_DB \in Databases
ASSUME WorkAssumption == MaxWork \in Nat

DEFAULT_DB == Names[1]
Rebuilt == {"money_tracker", "budgets"}
Steps == <<"source", "early", "money_tracker", "budgets", "class", "fold", "late", "baseline", "standard">>

VARIABLES
    file,       \* the data folder
    legacy,     \* the databases still in an older folder
    worker,     \* the server processes
    work        \* processes started and requests made

Absent == [there |-> FALSE, tables |-> FALSE, source |-> "none", columns |-> {}, old |-> {}, copy |-> {},
           rows |-> [t \in Rebuilt |-> {}], week4 |-> 0, week5 |-> 0, class |-> "", types |-> "none",
           codes |-> "none", menu |-> "all", companies |-> {}, investments |-> {}, standard |-> FALSE,
           users |-> [u \in Uids |-> NoUser], profile |-> OpenProfile]

\* connect() makes the file that it does not find.
Connected(f) == IF f.there THEN f ELSE [Absent EXCEPT !.there = TRUE]

\* executescript(SCHEMA), every statement of it "IF NOT EXISTS".
Schema(f) == IF f.tables THEN f
             ELSE [f EXCEPT !.tables = TRUE, !.source = "told", !.columns = {"early", "class"}]

\* Demo investments, in a database that has none.
seed_investments(f) ==
    IF f.investments = {} /\ "MDA" \in f.companies THEN [f EXCEPT !.investments = {"demo"}] ELSE f

\* seed(): its first insert fails where its users are.
CanSeed(f) == f.users = Absent.users
seed(f) == seed_investments([f EXCEPT !.users = Seeds, !.companies = {"MDA"}, !.standard = TRUE])

\* A process: where it is, the database it is at and those it still has to
\* migrate, what its last read found, and whether its file left the folder.
Down == [pc |-> "down", db |-> DEFAULT_DB, todo |-> {}, step |-> 1, need |-> FALSE, count |-> 0, lost |-> FALSE]

StartupInit ==
    /\ \E folder \in Folders : file = folder.file /\ legacy = folder.legacy
    /\ worker = [w \in Workers |-> Down]
    /\ work = 0

At(w, pc) == worker[w].pc = pc /\ ~worker[w].lost
Goes(w, pc) == worker' = [worker EXCEPT ![w].pc = pc]
Serving == \E w \in Workers : worker[w].pc \in {"up", "warned"}
Db(w) == worker[w].db

\* Whoever has the file open keeps what is no longer in the folder.
Unlinked(d) ==
    [w \in Workers |-> IF worker[w].pc \in {"seed", "read", "write", "backfill", "create", "swap", "cleanup"}
                          /\ Db(w) = d
                       THEN [worker[w] EXCEPT !.lost = TRUE] ELSE worker[w]]

-----------------------------------------------------------------------------
(* init_db()                                                               *)

Start(w) ==
    /\ At(w, "down") /\ work < MaxWork
    /\ work' = work + 1
    /\ Goes(w, "moves")
    /\ UNCHANGED <<file, legacy>>

\* The process ends; what it has not committed is rolled back.
Crash(w) ==
    /\ worker[w].pc # "down"
    /\ worker' = [worker EXCEPT ![w] = Down]
    /\ UNCHANGED <<file, legacy, work>>

\* init_db() raises: _ensure_migrated() prints it, and the process serves.
Warned(w) == [worker EXCEPT ![w] = [Down EXCEPT !.pc = "warned"]]

\* A lock is not granted within 15 seconds.
Locked(w) ==
    /\ worker[w].pc \in {"seed", "write", "backfill", "create", "swap"}
    /\ IF worker[w].pc \in {"create", "swap"} /\ ~worker[w].lost THEN Goes(w, "cleanup") ELSE worker' = Warned(w)
    /\ UNCHANGED <<file, legacy, work>>

\* A file in an older folder is moved if its name is free, ...
ReadMove(w) ==
    /\ At(w, "moves")
    /\ \/ \E d \in legacy : ~file[d].there /\ worker' = [worker EXCEPT ![w].pc = "move", ![w].db = d]
       \/ (\A d \in legacy : file[d].there) /\ Goes(w, "group")
    /\ UNCHANGED <<file, legacy, work>>

\* ... over what has taken it since; another worker may have moved it.
Move(w) ==
    LET d == Db(w) IN
    /\ At(w, "move")
    /\ IF d \in legacy
       THEN /\ file' = [file EXCEPT ![d] = Moved]
            /\ legacy' = legacy \ {d}
            /\ worker' = [Unlinked(d) EXCEPT ![w].pc = "moves", ![w].db = DEFAULT_DB]
       ELSE worker' = Warned(w) /\ UNCHANGED <<file, legacy>>
    /\ UNCHANGED work

\* The group database is made if need be, and seeded if it was not there.
Group(w) ==
    /\ At(w, "group")
    /\ worker' = [worker EXCEPT ![w].pc = "open", ![w].db = DEFAULT_DB, ![w].need = ~file[DEFAULT_DB].there]
    /\ UNCHANGED <<file, legacy, work>>

Sandbox(w) ==
    /\ At(w, "sandbox")
    /\ worker' = IF file[SANDBOX_DB].there THEN [worker EXCEPT ![w].pc = "list"]
                 ELSE [worker EXCEPT ![w].pc = "open", ![w].db = SANDBOX_DB, ![w].need = TRUE]
    /\ UNCHANGED <<file, legacy, work>>

\* _init_one(): the tables, each committed, ...
Open(w) ==
    /\ At(w, "open")
    /\ file' = [file EXCEPT ![Db(w)] = Schema(Connected(@))]
    /\ Goes(w, "seed")
    /\ UNCHANGED <<legacy, work>>

AfterSeed(w) == [worker[w] EXCEPT !.pc = IF Db(w) = DEFAULT_DB THEN "sandbox" ELSE "list", !.lost = FALSE]

\* ... then the demo data.
Seed(w) ==
    LET f == file[Db(w)] IN
    /\ At(w, "seed")
    /\ IF worker[w].need /\ ~CanSeed(f)
       THEN worker' = Warned(w) /\ UNCHANGED file
       ELSE /\ worker' = [worker EXCEPT ![w] = AfterSeed(w)]
            /\ file' = [file EXCEPT ![Db(w)] = IF worker[w].need THEN seed(f) ELSE seed_investments(f)]
    /\ UNCHANGED <<legacy, work>>

ListDatabases(w) ==
    /\ At(w, "list")
    /\ worker' = [worker EXCEPT ![w].pc = "connect", ![w].db = DEFAULT_DB,
                                ![w].todo = {d \in Databases : file[d].there}]
    /\ UNCHANGED <<file, legacy, work>>

Before(d, e) == \E i, j \in DOMAIN Names : i <= j /\ Names[i] = d /\ Names[j] = e

\* One that was deleted since it was listed comes back empty.
Connect(w) ==
    /\ At(w, "connect")
    /\ \/ /\ worker[w].todo = {}
          /\ worker' = [worker EXCEPT ![w] = [Down EXCEPT !.pc = "up"]] /\ UNCHANGED file
       \/ \E d \in worker[w].todo :
            /\ \A e \in worker[w].todo : Before(d, e)
            /\ worker' = [worker EXCEPT ![w].pc = "read", ![w].db = d, ![w].todo = @ \ {d}, ![w].step = 1]
            /\ file' = [file EXCEPT ![d] = Connected(@)]
    /\ UNCHANGED <<legacy, work>>

\* A file that is not in the folder any more is migrated all the same.
Drift(w) ==
    /\ worker[w].lost
    /\ worker' = [worker EXCEPT ![w] = IF worker[w].pc = "seed" THEN AfterSeed(w)
                    ELSE [worker[w] EXCEPT !.pc = "connect", !.lost = FALSE]]
    /\ UNCHANGED <<file, legacy, work>>

-----------------------------------------------------------------------------
(* migrate_database()                                                      *)

Step(w) == Steps[worker[w].step]
Advanced(w) ==
    IF worker[w].step < Len(Steps) THEN [worker EXCEPT ![w].pc = "read", ![w].step = @ + 1]
    ELSE [worker EXCEPT ![w].pc = "connect"]

\* What a step finds to do: a column that is not there, a table of the old
\* shape, a list of types that was never started.
Needed(s, f) ==
    \/ s = "source" /\ f.source = "none"
    \/ s \in Rebuilt /\ s \in f.old
    \/ s \in {"early", "class", "late"} /\ s \notin f.columns
    \/ s = "baseline" /\ f.types = "none"
    \/ s \in {"fold", "standard"}

\* Every step reads before it writes, ...
Read(w) ==
    LET f == file[Db(w)] IN
    /\ At(w, "read")
    /\ worker' = [worker EXCEPT ![w].pc = "write", ![w].need = Needed(Step(w), f),
                                ![w].count = IF Step(w) \in Rebuilt THEN Cardinality(f.rows[Step(w)]) ELSE 0]
    /\ UNCHANGED <<file, legacy, work>>

Writes(w, f) == file' = [file EXCEPT ![Db(w)] = f]
Skip(w) == ~worker[w].need /\ worker' = Advanced(w) /\ UNCHANGED file

\* ... and an ALTER fails if another worker has been faster.
AddSource(w) ==
    LET f == file[Db(w)] IN
    /\ At(w, "write") /\ Step(w) = "source"
    /\ \/ Skip(w)
       \/ /\ worker[w].need
          /\ IF f.tables /\ f.source = "none"
             THEN Writes(w, [f EXCEPT !.source = "added"]) /\ Goes(w, "backfill")
             ELSE worker' = Warned(w) /\ UNCHANGED file
    /\ UNCHANGED <<legacy, work>>

Backfill(w) ==
    /\ At(w, "backfill")
    /\ Writes(w, [file[Db(w)] EXCEPT !.source = "told"])
    /\ worker' = Advanced(w)
    /\ UNCHANGED <<legacy, work>>

AddColumns(w) ==
    LET f == file[Db(w)] IN
    /\ At(w, "write") /\ Step(w) \in {"early", "class", "late"}
    /\ \/ Skip(w)
       \/ /\ worker[w].need
          /\ IF Step(w) \notin f.columns
             THEN Writes(w, [f EXCEPT !.columns = @ \cup {Step(w)}]) /\ worker' = Advanced(w)
             ELSE worker' = Warned(w) /\ UNCHANGED file
    /\ UNCHANGED <<legacy, work>>

\* A rebuild drops what is left of an earlier one, ...
DropCopy(w) ==
    /\ At(w, "write") /\ Step(w) \in Rebuilt
    /\ \/ Skip(w)
       \/ worker[w].need /\ Goes(w, "create") /\ Writes(w, [file[Db(w)] EXCEPT !.copy = @ \ {Step(w)}])
    /\ UNCHANGED <<legacy, work>>

\* ... makes the new table, ...
CreateCopy(w) ==
    LET f == file[Db(w)] IN
    /\ At(w, "create")
    /\ IF Step(w) \in f.copy THEN Goes(w, "cleanup") /\ UNCHANGED file
       ELSE Goes(w, "swap") /\ Writes(w, [f EXCEPT !.copy = @ \cup {Step(w)}])
    /\ UNCHANGED <<legacy, work>>

\* A month's budget goes to the first week.
Copied(t, R) == IF t = "budgets" THEN {<<r[1], 1>> : r \in R} ELSE R

\* ... and takes the old one's place with as many rows as were counted.
Swap(w) ==
    LET f == file[Db(w)]
        t == Step(w)
        rows == Copied(t, f.rows[t])
    IN
    /\ At(w, "swap")
    /\ IF t \in f.copy /\ Cardinality(rows) = Cardinality(f.rows[t]) /\ Cardinality(rows) = worker[w].count
       THEN /\ Writes(w, [f EXCEPT !.copy = @ \ {t}, !.old = @ \ {t}, !.rows[t] = rows])
            /\ worker' = Advanced(w)
       ELSE Goes(w, "cleanup") /\ UNCHANGED file
    /\ UNCHANGED <<legacy, work>>

Cleanup(w) ==
    /\ At(w, "cleanup")
    /\ Writes(w, [file[Db(w)] EXCEPT !.copy = @ \ {Step(w)}])
    /\ worker' = Warned(w)
    /\ UNCHANGED <<legacy, work>>

\* Mutant: the week-5 row that was added to week 4 is not deleted.
FoldWithoutDelete(w) ==
    LET f == file[Db(w)] IN
    /\ At(w, "write") /\ Step(w) = "fold"
    /\ Writes(w, [f EXCEPT !.class = IF @ = "" THEN "seeded" ELSE @, !.week4 = @ + f.week5])
    /\ worker' = Advanced(w)
    /\ UNCHANGED <<legacy, work>>

\* seed_cash_flow_classes() leaves what was set and opens the transaction in
\* which _fold_week5_into_week4() reads.
Fold(w) ==
    LET f == file[Db(w)] IN
    /\ At(w, "write") /\ Step(w) = "fold"
    /\ Writes(w, [f EXCEPT !.class = IF @ = "" THEN "seeded" ELSE @, !.week4 = @ + f.week5, !.week5 = 0])
    /\ worker' = Advanced(w)
    /\ UNCHANGED <<legacy, work>>

\* The list of types is started once; the old list of cash codes is put
\* aside; restricted menus get the sections added since.
Settings(f, start) ==
    [f EXCEPT !.types = IF start THEN "starting" ELSE @,
              !.codes = IF @ = "counted" THEN "aside" ELSE @,
              !.menu = IF @ = "own" THEN "widened" ELSE @]

\* remove_holding(): its investments go to another company, if there is one.
remove_holding(f) ==
    [f EXCEPT !.companies = @ \ {"HOLD"},
              !.investments = IF "HOLD" \notin f.companies THEN @
                              ELSE (@ \ {"holding"}) \cup (IF "holding" \in @ /\ "MDA" \in f.companies THEN {"group"} ELSE {})]

\* Mutant: a database whose types were started is left as it is.
BaselineOnce(w) ==
    LET f == file[Db(w)]
        g == remove_holding(Settings(f, worker[w].need))
    IN
    /\ At(w, "write") /\ Step(w) = "baseline"
    /\ IF ~worker[w].need THEN Goes(w, "connect") /\ UNCHANGED file
       ELSE IF f.types # "none" THEN worker' = Warned(w) /\ UNCHANGED file
       ELSE IF "HOLD" \in f.companies THEN worker' = Advanced(w) /\ Writes(w, g)
       ELSE Goes(w, "connect") /\ Writes(w, [g EXCEPT !.standard = TRUE])
    /\ UNCHANGED <<legacy, work>>

\* delete_company_cascade() commits; without a holding the transaction goes on.
Baseline(w) ==
    LET f == file[Db(w)]
        g == remove_holding(Settings(f, worker[w].need))
    IN
    /\ At(w, "write") /\ Step(w) = "baseline"
    /\ IF worker[w].need /\ f.types # "none" THEN worker' = Warned(w) /\ UNCHANGED file
       ELSE IF "HOLD" \in f.companies THEN worker' = Advanced(w) /\ Writes(w, g)
       ELSE Goes(w, "connect") /\ Writes(w, [g EXCEPT !.standard = TRUE])
    /\ UNCHANGED <<legacy, work>>

\* apply_standard_coa() for every company left.
Standard(w) ==
    /\ At(w, "write") /\ Step(w) = "standard"
    /\ Writes(w, [file[Db(w)] EXCEPT !.standard = TRUE])
    /\ worker' = Advanced(w)
    /\ UNCHANGED <<legacy, work>>

StartupNext(w) ==
    \/ Start(w) \/ Crash(w) \/ Locked(w) \/ ReadMove(w) \/ Move(w) \/ Group(w) \/ Sandbox(w) \/ Open(w)
    \/ Seed(w) \/ ListDatabases(w) \/ Connect(w) \/ Drift(w) \/ Read(w) \/ AddSource(w) \/ Backfill(w)
    \/ AddColumns(w) \/ DropCopy(w) \/ CreateCopy(w) \/ Swap(w) \/ Cleanup(w) \/ Fold(w) \/ Baseline(w) \/ Standard(w)

-----------------------------------------------------------------------------
(* Properties of starting.                                                 *)

Money(f) == <<{r[1] : r \in f.rows["budgets"]}, Cardinality(f.rows["budgets"]), f.rows["money_tracker"], f.week4 + f.week5>>

\* However many processes start at once, and wherever one of them dies, none
\* of their steps takes a budget, a track or planned money away or counts it
\* twice ("no amount is ever lost", database.py:1406).
StartingKeepsMoney ==
    [][\A d \in Databases, w \in Workers :
         worker'[w] # worker[w] /\ file[d].there /\ file'[d].there /\ legacy' = legacy
         => Money(file'[d]) = Money(file[d])]_<<file, worker>>

\* A database that a process has gone through has the current shape, whatever
\* other processes and requests did to it meanwhile: every step a process
\* found done stays done.  (Of the source column only that it is there.)
Current(f) ==
    /\ f.tables /\ f.source # "none" /\ f.columns = {"early", "class", "late"} /\ f.old = {}
    /\ f.week5 = 0 /\ f.class # "" /\ "HOLD" \notin f.companies /\ f.standard

PassedIsCurrent ==
    [][\A w \in Workers :
         At(w, "write") /\ worker'[w].pc = "connect" => Current(file'[Db(w)])]_<<file, worker>>

=============================================================================
