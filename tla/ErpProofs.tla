----------------------------- MODULE ErpProofs -----------------------------
(***************************************************************************)
(* Proofs about the databases of the ERP, and about its cash forecast.     *)
(*                                                                         *)
(* Startup and Registry, for any number of processes, browsers, databases, *)
(* users and rows:                                                         *)
(*                                                                         *)
(*   Keeping     no step of a starting process changes the planned money   *)
(*   Passing     a process leaves a database in the current shape          *)
(*   Guarding    the guard of frozen databases                             *)
(*   Heading     the picker leaves an admin                                *)
(*                                                                         *)
(* All follow from one inductive invariant, IInv.  Its heart is OnTrack:   *)
(* what the steps a process has passed have left in the database stays so  *)
(* whatever others do, because every step of every process and request     *)
(* changes a file only towards the current shape (Grown), or else takes it *)
(* out of the folder, and then the process has lost it.                    *)
(*                                                                         *)
(* Oracle, for any calendar, tables, policies and companies: a settlement  *)
(* date lies in its own week, so the week of a movement is read back from  *)
(* its date; a ledger is the opening balance and one summand per movement, *)
(* so two ledgers over the same movements are compared summand by summand; *)
(* what is lower on every day has a lower least balance, less headroom and *)
(* no better a verdict.                                                    *)
(***************************************************************************)
EXTENDS Registry, Oracle, SumTheorems, FiniteSetTheorems, WellFoundedInduction, TLAPS

-----------------------------------------------------------------------------
(* The inductive invariant.                                                *)

Counts == {Cardinality(R) : R \in SUBSET (Cells \X Nat)}
Places == 1..9
Points == {"down", "up", "warned", "moves", "move", "group", "sandbox", "open", "seed", "list", "connect",
           "read", "write", "backfill", "create", "swap", "cleanup"}
Process == [pc : Points, db : Databases, todo : SUBSET Databases, step : Places, need : BOOLEAN, count : Counts, lost : BOOLEAN]
Asking == [pc : {"idle", "open", "handle", "save", "init", "seed"}, ask : Ask \cup {NoAsk}, db : Databases, me : Accounts, seen : Profile,
           users : [Uids -> Accounts], lost : BOOLEAN]

TypeOK ==
    /\ file \in [Databases -> File]
    /\ legacy \in SUBSET Databases
    /\ worker \in [Workers -> Process]
    /\ session \in [Browsers -> [db : Databases, uid : Uids \cup {Nobody}]]
    /\ req \in [Browsers -> Asking]
    /\ \A b \in Browsers : req[b].pc # "idle" => req[b].ask \in Ask

Columned == \A d \in Databases : Told(file[d])

Opened == {"seed", "read", "write", "backfill", "create", "swap", "cleanup"}
Busy == Opened \ {"seed"}

\* What a step leaves behind.
Post(s, f) ==
    /\ s = "source" => f.source # "none"
    /\ s \in Rebuilt => s \notin f.old
    /\ s \in {"early", "class", "late"} => s \in f.columns
    /\ s = "fold" => f.class # "" /\ f.week5 = 0
    /\ s = "baseline" => "HOLD" \notin f.companies

Reached(k, f) == \A j \in Places : j < k => Post(Steps[j], f)

OnTrack(p, f) ==
    /\ f.there /\ Reached(p.step, f)
    /\ p.pc = "write" /\ ~p.need => ~Needed(Steps[p.step], f)
    /\ p.pc = "backfill" => p.step = 1 /\ f.source # "none"
    /\ p.pc \in {"create", "swap", "cleanup"} => p.step \in {3, 4}

Ready == \A w \in Workers : worker[w].pc \in Busy /\ ~worker[w].lost => OnTrack(worker[w], file[worker[w].db])

Guarded == \A b \in Browsers : req[b].pc = "handle" /\ req[b].ask.kind = "write" => can_edit(req[b].seen, req[b].me.role)

\* Another active admin was seen.
Spares(a, users) ==
    users[a.uid].role = "admin" /\ (a.kind = "delete_user" \/ a.user.role # "admin" \/ ~a.user.active)
    => Admins(users) \ {a.uid} # {}

Vetted ==
    \A b \in Browsers : req[b].pc = "save" =>
      /\ req[b].ask.kind \in {"add_user", "edit_user", "delete_user", "profile"}
      /\ req[b].ask.kind \in {"edit_user", "delete_user"} => Spares(req[b].ask, req[b].users)

IInv == TypeOK /\ Columned /\ Ready /\ Guarded /\ Vetted


-----------------------------------------------------------------------------
(* Files.                                                                  *)

\* What no step takes back, of a file that is in the folder.
Grown(f, g) ==
    f.there =>
      /\ g.there /\ (f.source # "none" => g.source # "none") /\ f.columns \subseteq g.columns /\ g.old \subseteq f.old
      /\ (f.class # "" => g.class # "") /\ (f.week5 = 0 => g.week5 = 0)
      /\ ("HOLD" \notin f.companies => "HOLD" \notin g.companies) /\ (f.types # "none" => g.types # "none")

Sound(f) == f \in File /\ Told(f)
SameMoney(f, g) == f.there => Money(g) = Money(f)
Better(f, g) == Sound(g) /\ Grown(f, g)
Good(f, g) == Better(f, g) /\ SameMoney(f, g)

LEMMA StepNames ==
    /\ Len(Steps) = 9
    /\ Steps[1] = "source" /\ Steps[2] = "early" /\ Steps[3] = "money_tracker" /\ Steps[4] = "budgets" /\ Steps[5] = "class"
    /\ Steps[6] = "fold" /\ Steps[7] = "late" /\ Steps[8] = "baseline" /\ Steps[9] = "standard"
BY DEF Steps

LEMMA KnownNames == DEFAULT_DB \in Databases /\ SANDBOX_DB \in Databases
BY NamesAssumption DEF DEFAULT_DB, Databases

LEMMA LeastUid ==
    ASSUME NEW S, S \subseteq Uids, S # {}
    PROVE  \E u \in S : \A v \in S : u <= v
<1>1. S \subseteq Nat
  BY UserAssumption
<1>2. PICK u \in S : \A v \in S : ~(<<v, u>> \in OpToRel(<, Nat))
  BY <1>1, NatLessThanWellFounded, WFMin
<1>3. \A v \in S : ~(v < u)
  BY <1>1, <1>2 DEF OpToRel
<1>4. ASSUME NEW v \in S PROVE u <= v
  <2>1. u \in Nat /\ v \in Nat /\ ~(v < u)
    BY <1>1, <1>2, <1>3
  <2> QED
    BY <2>1
<1> QED
  BY <1>2, <1>4

LEMMA Absence == Absent \in File /\ Absent.source = "none" /\ Absent.columns = {} /\ Absent.there = FALSE
BY UserAssumption DEF Absent, File, Accounts

LEMMA Stays == \A f : Sound(f) => Good(f, f)
BY DEF Sound, Good, Better, Grown, SameMoney

LEMMA Follows ==
    \A f, g, h : Good(f, g) /\ Good(g, h) => Good(f, h)
<1> SUFFICES ASSUME NEW f, NEW g, NEW h, Good(f, g), Good(g, h) PROVE Good(f, h)
  OBVIOUS
<1>1. Sound(h)
  BY DEF Good, Better
<1>2. Grown(f, g) /\ Grown(g, h)
  BY DEF Good, Better
<1>3. Grown(f, h)
  BY <1>2 DEF Grown
<1>4. SameMoney(f, h)
  BY <1>2 DEF Good, SameMoney, Grown
<1> QED
  BY <1>1, <1>3, <1>4 DEF Good, Better

LEMMA Connects == \A f : Sound(f) => Good(f, Connected(f)) /\ Connected(f).there
<1> SUFFICES ASSUME NEW f, Sound(f) PROVE Good(f, Connected(f)) /\ Connected(f).there
  OBVIOUS
<1>1. CASE f.there
  BY <1>1, Stays DEF Connected
<1>2. CASE ~f.there
  <2> DEFINE g == [Absent EXCEPT !.there = TRUE]
  <2>1. g \in File /\ g.there /\ g.source = "none" /\ g.columns = {}
    BY Absence DEF File
  <2>2. Connected(f) = g
    BY <1>2 DEF Connected
  <2> HIDE DEF g
  <2> QED
    BY <1>2, <2>1, <2>2 DEF Good, Better, Grown, SameMoney, Sound, Told
<1> QED
  BY <1>1, <1>2 DEF Sound, File

LEMMA Schemes == \A f : Sound(f) => Good(f, Schema(f))
<1> SUFFICES ASSUME NEW f, Sound(f) PROVE Good(f, Schema(f))
  OBVIOUS
<1>1. Sound(Schema(f))
  <2>1. CASE f.tables
    BY <2>1 DEF Schema
  <2>2. CASE ~f.tables
    <3> DEFINE g == [f EXCEPT !.tables = TRUE, !.source = "told", !.columns = {"early", "class"}]
    <3>1. g \in File /\ g.tables
      BY DEF Sound, File
    <3>2. Schema(f) = g
      BY <2>2 DEF Schema
    <3> HIDE DEF g
    <3> QED
      BY <3>1, <3>2 DEF Sound, Told
  <2> QED
    BY <2>1, <2>2
<1>2. Grown(f, Schema(f))
  <2>1. CASE f.tables
    BY <2>1 DEF Schema, Grown
  <2>2. CASE ~f.tables
    <3> DEFINE g == [f EXCEPT !.tables = TRUE, !.source = "told", !.columns = {"early", "class"}]
    <3>1. f.columns = {}
      BY <2>2 DEF Sound, Told
    <3>2. /\ g.there = f.there /\ g.source = "told" /\ g.old = f.old /\ g.class = f.class
          /\ g.week5 = f.week5 /\ g.companies = f.companies /\ g.types = f.types
      BY DEF Sound, File
    <3>3. Schema(f) = g
      BY <2>2 DEF Schema
    <3> HIDE DEF g
    <3> QED
      BY <3>1, <3>2, <3>3 DEF Grown
  <2> QED
    BY <2>1, <2>2
<1>3. Money(Schema(f)) = Money(f)
  BY DEF Schema, Sound, File, Money
<1> QED
  BY <1>1, <1>2, <1>3 DEF Good, Better, SameMoney

LEMMA Invests == \A f : Sound(f) => Good(f, seed_investments(f))
<1> SUFFICES ASSUME NEW f, Sound(f) PROVE Good(f, seed_investments(f))
  OBVIOUS
<1>1. Sound(seed_investments(f))
  <2> DEFINE g == [f EXCEPT !.investments = {"demo"}]
  <2>1. g \in File
    BY DEF Sound, File
  <2>2. Told(g)
    BY DEF Sound, Told, File
  <2> QED
    BY <2>1, <2>2 DEF seed_investments, Sound
<1>2. Grown(f, seed_investments(f))
  BY DEF seed_investments, Sound, Told, File, Grown
<1>3. Money(seed_investments(f)) = Money(f)
  BY DEF seed_investments, Sound, File, Money
<1> QED
  BY <1>1, <1>2, <1>3 DEF Good, Better, SameMoney

LEMMA Seeding == \A f : Sound(f) => Good(f, seed(f))
<1> SUFFICES ASSUME NEW f, Sound(f) PROVE Good(f, seed(f))
  OBVIOUS
<1> DEFINE g == [f EXCEPT !.users = Seeds, !.companies = {"MDA"}, !.standard = TRUE]
<1>1. Sound(g)
  BY UserAssumption DEF Sound, Told, File
<1>2. Grown(f, g)
  BY DEF Sound, File, Grown
<1>3. Money(g) = Money(f)
  BY DEF Sound, File, Money
<1>4. Good(f, g)
  BY <1>1, <1>2, <1>3 DEF Good, Better, SameMoney
<1>5. Good(g, seed_investments(g))
  BY <1>1, Invests
<1> QED
  BY <1>4, <1>5, Follows DEF seed


\* The settings and the holding.
LEMMA SettingsHold ==
    \A f, begun : Sound(f) =>
      LET g == Settings(f, begun) IN
      Good(f, g) /\ g.companies = f.companies /\ g.investments = f.investments
<1> SUFFICES ASSUME NEW f, NEW begun, Sound(f)
             PROVE  LET g == Settings(f, begun) IN
                    Good(f, g) /\ g.companies = f.companies /\ g.investments = f.investments
  OBVIOUS
<1> DEFINE types == IF begun THEN "starting" ELSE f.types
<1> DEFINE codes == IF f.codes = "counted" THEN "aside" ELSE f.codes
<1> DEFINE menu == IF f.menu = "own" THEN "widened" ELSE f.menu
<1> DEFINE g == [f EXCEPT !.types = types, !.codes = codes, !.menu = menu]
<1>1. types \in {"none", "starting", "own"} /\ codes \in {"none", "counted", "aside"} /\ menu \in {"all", "own", "widened"}
  BY DEF Sound, File
<1>2. f.types # "none" => types # "none"
  OBVIOUS
<1>3. Settings(f, begun) = g
  BY DEF Settings, Sound, File
<1> HIDE DEF types, codes, menu
<1>4. Sound(g)
  <2>1. ASSUME NEW h \in File
        PROVE  /\ [h EXCEPT !.types = types] \in File
               /\ [h EXCEPT !.codes = codes] \in File
               /\ [h EXCEPT !.menu = menu] \in File
    <3>1. [h EXCEPT !.types = types] \in File
      BY <1>1, ZenonT(40) DEF File
    <3>2. [h EXCEPT !.codes = codes] \in File
      BY <1>1, ZenonT(40) DEF File
    <3>3. [h EXCEPT !.menu = menu] \in File
      BY <1>1, ZenonT(40) DEF File
    <3> QED
      BY <3>1, <3>2, <3>3
  <2>2. g \in File
    <3>1. [f EXCEPT !.types = types] \in File
      BY <2>1 DEF Sound
    <3>2. [f EXCEPT !.types = types, !.codes = codes] \in File
      BY <2>1, <3>1
    <3> QED
      BY <2>1, <3>2
  <2>3. g.source = f.source /\ g.columns = f.columns /\ g.tables = f.tables
    BY DEF Sound, File
  <2> QED
    BY <2>2, <2>3 DEF Sound, Told
<1>5. Grown(f, g) /\ g.companies = f.companies /\ g.investments = f.investments
  BY <1>2 DEF Sound, File, Grown
<1>6. Money(g) = Money(f)
  BY DEF Sound, File, Money
<1> QED
  BY <1>3, <1>4, <1>5, <1>6 DEF Good, Better, SameMoney

LEMMA Removes == \A f : Sound(f) => Good(f, remove_holding(f)) /\ "HOLD" \notin remove_holding(f).companies
<1> SUFFICES ASSUME NEW f, Sound(f)
             PROVE  Good(f, remove_holding(f)) /\ "HOLD" \notin remove_holding(f).companies
  OBVIOUS
<1> DEFINE left == IF "HOLD" \notin f.companies THEN f.investments
                   ELSE (f.investments \ {"holding"})
                        \cup (IF "holding" \in f.investments /\ "MDA" \in f.companies THEN {"group"} ELSE {})
<1> DEFINE g == [f EXCEPT !.companies = f.companies \ {"HOLD"}, !.investments = left]
<1>1. left \in SUBSET {"demo", "holding", "group"}
  BY DEF Sound, File
<1>2. remove_holding(f) = g
  BY DEF remove_holding, Sound, File
<1> HIDE DEF left
<1>3. Sound(g)
  BY <1>1 DEF Sound, Told, File
<1>4. Grown(f, g) /\ "HOLD" \notin g.companies
  BY DEF Sound, File, Grown
<1>5. Money(g) = Money(f)
  BY DEF Sound, File, Money
<1> QED
  BY <1>2, <1>3, <1>4, <1>5 DEF Good, Better, SameMoney

\* No file loses what it had.
Calm == file' \in [Databases -> File] /\ \A e \in Databases : Good(file[e], file'[e])

LEMMA Rests ==
    ASSUME file \in [Databases -> File], Columned, UNCHANGED file
    PROVE  Calm
BY Stays DEF Calm, Sound, Columned

\* What a write of a worker does to the file it is at.
LEMMA Rewrites ==
    ASSUME NEW d \in Databases, file \in [Databases -> File], Columned, NEW g, Good(file[d], g),
           file' = [file EXCEPT ![d] = g]
    PROVE  Calm
<1>1. file' \in [Databases -> File]
  BY DEF Good, Better, Sound
<1>2. ASSUME NEW e \in Databases PROVE Good(file[e], file'[e])
  <2>1. CASE e = d
    BY <2>1
  <2>2. CASE e # d
    BY <2>2, Stays DEF Sound, Columned
  <2> QED
    BY <2>1, <2>2
<1> QED
  BY <1>1, <1>2 DEF Calm


-----------------------------------------------------------------------------
(* What the steps of a process do to the files.                            *)

LEMMA WhereItIs ==
    ASSUME TypeOK, Columned, NEW w \in Workers
    PROVE  /\ Db(w) \in Databases /\ file[Db(w)] \in File /\ Sound(file[Db(w)])
           /\ worker[w] \in Process /\ file \in [Databases -> File]
BY DEF TypeOK, Columned, Sound, Db, Process

LEMMA OpenCalm ==
    ASSUME TypeOK, Columned, NEW w \in Workers, Open(w)
    PROVE  Calm
<1> DEFINE f == file[Db(w)]
<1> DEFINE g == Schema(Connected(f))
<1>1. Sound(f) /\ Db(w) \in Databases /\ file \in [Databases -> File]
  BY WhereItIs
<1>2. file' = [file EXCEPT ![Db(w)] = g]
  BY DEF Open
<1> HIDE DEF f
<1>3. Good(f, Connected(f)) /\ Sound(Connected(f))
  BY <1>1, Connects DEF Good, Better
<1>4. Good(f, g)
  BY <1>3, Schemes, Follows
<1> USE DEF f
<1> HIDE DEF g
<1> QED
  BY <1>1, <1>2, <1>4, Rewrites

LEMMA SeedCalm ==
    ASSUME TypeOK, Columned, NEW w \in Workers, Seed(w)
    PROVE  Calm
<1> DEFINE f == file[Db(w)]
<1> DEFINE g == IF worker[w].need THEN seed(f) ELSE seed_investments(f)
<1>1. Sound(f) /\ Db(w) \in Databases /\ file \in [Databases -> File]
  BY WhereItIs
<1>2. Good(f, g)
  BY <1>1, Seeding, Invests
<1>3. file' = file \/ file' = [file EXCEPT ![Db(w)] = g]
  BY DEF Seed
<1> HIDE DEF g
<1> QED
  BY <1>1, <1>2, <1>3, Rewrites, Rests

LEMMA ConnectCalm ==
    ASSUME TypeOK, Columned, NEW w \in Workers, Connect(w)
    PROVE  Calm
<1>1. CASE file' = file
  BY <1>1, Rests DEF TypeOK
<1>2. CASE file' # file
  <2>1. PICK d \in worker[w].todo : file' = [file EXCEPT ![d] = Connected(@)]
    BY <1>2 DEF Connect
  <2>2. d \in Databases /\ Sound(file[d]) /\ file \in [Databases -> File]
    BY <2>1 DEF TypeOK, Process, Sound, Columned
  <2> DEFINE g == Connected(file[d])
  <2>3. Good(file[d], g) /\ file' = [file EXCEPT ![d] = g]
    BY <2>1, <2>2, Connects
  <2> HIDE DEF g
  <2> QED
    BY <2>2, <2>3, Rewrites
<1> QED
  BY <1>1, <1>2

LEMMA WritesCalm ==
    ASSUME TypeOK, Columned, NEW w \in Workers, NEW g, Good(file[Db(w)], g), Writes(w, g)
    PROVE  Calm
BY WhereItIs, Rewrites DEF Writes


LEMMA AddSourceCalm ==
    ASSUME TypeOK, Columned, NEW w \in Workers, AddSource(w)
    PROVE  Calm
<1> DEFINE f == file[Db(w)]
<1> DEFINE g == [f EXCEPT !.source = "added"]
<1>1. file' = file \/ (f.tables /\ Writes(w, g))
  BY DEF AddSource, Skip
<1>2. Sound(f)
  BY WhereItIs
<1> HIDE DEF f
<1>3. ASSUME f.tables PROVE Good(f, g)
  <2>1. Sound(g)
    BY <1>2, <1>3 DEF Sound, Told, File
  <2>2. Grown(f, g)
    BY <1>2, <1>3 DEF Grown, Sound, File
  <2>3. Money(g) = Money(f)
    BY <1>2 DEF Money, Sound, File
  <2> QED
    BY <2>1, <2>2, <2>3 DEF Good, Better, SameMoney
<1> USE DEF f
<1> HIDE DEF g
<1> QED
  BY <1>1, <1>3, WritesCalm, Rests DEF TypeOK

LEMMA BackfillCalm ==
    ASSUME TypeOK, Columned, Ready, NEW w \in Workers, Backfill(w)
    PROVE  Calm
<1> DEFINE f == file[Db(w)]
<1> DEFINE g == [f EXCEPT !.source = "told"]
<1>1. Writes(w, g)
  BY DEF Backfill
<1>2. Sound(f) /\ f.source # "none"
  BY WhereItIs DEF Backfill, At, Ready, OnTrack, Busy, Opened, Db
<1> HIDE DEF f
<1>3. Good(f, g)
  <2>1. Sound(g)
    BY <1>2 DEF Sound, Told, File
  <2>2. Grown(f, g)
    BY <1>2 DEF Grown, Sound, File
  <2>3. Money(g) = Money(f)
    BY <1>2 DEF Money, Sound, File
  <2> QED
    BY <2>1, <2>2, <2>3 DEF Good, Better, SameMoney
<1> USE DEF f
<1> HIDE DEF g
<1> QED
  BY <1>1, <1>3, WritesCalm

\* In a file that a process is at, a step that has work to do finds tables.
LEMMA AddColumnsCalm ==
    ASSUME TypeOK, Columned, Ready, NEW w \in Workers, AddColumns(w)
    PROVE  Calm
<1> DEFINE f == file[Db(w)]
<1> DEFINE g == [f EXCEPT !.columns = @ \cup {Step(w)}]
<1>1. file' = file \/ Writes(w, g)
  BY DEF AddColumns, Skip
<1>2. Sound(f) /\ Step(w) \in {"early", "class", "late"}
  BY WhereItIs DEF AddColumns
<1>3. f.tables
  <2>1. OnTrack(worker[w], f) /\ worker[w].step \in 1..9
    BY WhereItIs DEF AddColumns, At, Ready, Busy, Opened, Db, Process, Places
  <2>2. worker[w].step # 1
    BY <1>2, StepNames DEF Step
  <2>3. worker[w].step > 1
    BY <2>1, <2>2
  <2>4. Post(Steps[1], f)
    BY <2>1, <2>3 DEF OnTrack, Reached, Places
  <2>5. f.source # "none"
    BY <2>4, StepNames DEF Post
  <2> QED
    BY <1>2, <2>5 DEF Sound, Told
<1> HIDE DEF f
<1>4. Good(f, g)
  <2>1. Sound(g)
    BY <1>2, <1>3 DEF Sound, Told, File
  <2>2. Grown(f, g)
    BY <1>2, <1>3 DEF Grown, Sound, File
  <2>3. Money(g) = Money(f)
    BY <1>2 DEF Money, Sound, File
  <2> QED
    BY <2>1, <2>2, <2>3 DEF Good, Better, SameMoney
<1> USE DEF f
<1> HIDE DEF g
<1> QED
  BY <1>1, <1>4, WritesCalm, Rests DEF TypeOK

\* The copy is nobody's money.
LEMMA Copies ==
    \A f, C : Sound(f) /\ C \in SUBSET Rebuilt => Good(f, [f EXCEPT !.copy = C])
<1> SUFFICES ASSUME NEW f, NEW C, Sound(f), C \in SUBSET Rebuilt PROVE Good(f, [f EXCEPT !.copy = C])
  OBVIOUS
<1> DEFINE g == [f EXCEPT !.copy = C]
<1>1. Sound(g)
  BY DEF Sound, Told, File
<1>2. Grown(f, g)
  BY DEF Sound, File, Grown
<1>3. Money(g) = Money(f)
  BY DEF Sound, File, Money
<1> QED
  BY <1>1, <1>2, <1>3 DEF Good, Better, SameMoney

LEMMA DropCopyCalm ==
    ASSUME TypeOK, Columned, NEW w \in Workers, DropCopy(w)
    PROVE  Calm
<1> DEFINE f == file[Db(w)]
<1> DEFINE C == f.copy \ {Step(w)}
<1>1. file' = file \/ Writes(w, [f EXCEPT !.copy = C])
  BY DEF DropCopy, Skip
<1>2. Sound(f) /\ C \in SUBSET Rebuilt
  BY WhereItIs DEF File
<1> HIDE DEF C
<1>3. Good(f, [f EXCEPT !.copy = C])
  BY <1>2, Copies
<1> QED
  BY <1>1, <1>3, WritesCalm, Rests DEF TypeOK

LEMMA CleanupCalm ==
    ASSUME TypeOK, Columned, NEW w \in Workers, Cleanup(w)
    PROVE  Calm
<1> DEFINE f == file[Db(w)]
<1> DEFINE C == f.copy \ {Step(w)}
<1>1. Writes(w, [f EXCEPT !.copy = C])
  BY DEF Cleanup
<1>2. Sound(f) /\ C \in SUBSET Rebuilt
  BY WhereItIs DEF File
<1> HIDE DEF C
<1>3. Good(f, [f EXCEPT !.copy = C])
  BY <1>2, Copies
<1> QED
  BY <1>1, <1>3, WritesCalm

LEMMA Rebuilds ==
    ASSUME TypeOK, Ready, NEW w \in Workers, worker[w].pc \in {"create", "swap"}, ~worker[w].lost
    PROVE  worker[w].step \in {3, 4} /\ Step(w) \in Rebuilt
BY StepNames DEF Ready, OnTrack, Busy, Opened, Step, Rebuilt

LEMMA CreateCopyCalm ==
    ASSUME TypeOK, Columned, Ready, NEW w \in Workers, CreateCopy(w)
    PROVE  Calm
<1> DEFINE f == file[Db(w)]
<1> DEFINE C == f.copy \cup {Step(w)}
<1>1. file' = file \/ Writes(w, [f EXCEPT !.copy = C])
  BY DEF CreateCopy
<1>2. Step(w) \in Rebuilt
  BY Rebuilds DEF CreateCopy, At
<1>3. Sound(f) /\ C \in SUBSET Rebuilt
  BY <1>2, WhereItIs DEF File
<1> HIDE DEF C
<1>4. Good(f, [f EXCEPT !.copy = C])
  BY <1>3, Copies
<1> QED
  BY <1>1, <1>4, WritesCalm, Rests DEF TypeOK


\* A rebuilt table has the rows of the old one, ...
LEMMA CopiedRows ==
    ASSUME NEW t \in Rebuilt, NEW R \in SUBSET (Cells \X Nat)
    PROVE  /\ Copied(t, R) \in SUBSET (Cells \X Nat)
           /\ t = "money_tracker" => Copied(t, R) = R
           /\ {r[1] : r \in Copied(t, R)} = {r[1] : r \in R}
<1>1. CASE t = "money_tracker"
  BY <1>1 DEF Copied
<1>2. CASE t = "budgets"
  <2>1. Copied(t, R) = {<<r[1], 1>> : r \in R}
    BY <1>2 DEF Copied
  <2>2. \A r \in R : r[1] \in Cells /\ <<r[1], 1>>[1] = r[1]
    OBVIOUS
  <2>3. Copied(t, R) \in SUBSET (Cells \X Nat)
    BY <2>1, <2>2
  <2>4. ASSUME NEW x PROVE x \in {r[1] : r \in Copied(t, R)} <=> x \in {r[1] : r \in R}
    BY <2>1, <2>2
  <2> QED
    BY <1>2, <2>3, <2>4
<1> QED
  BY <1>1, <1>2 DEF Rebuilt

\* ... and not one more or less, or the swap is refused.
LEMMA SwapCalm ==
    ASSUME TypeOK, Columned, Ready, NEW w \in Workers, Swap(w)
    PROVE  Calm
<1> DEFINE f == file[Db(w)]
<1> DEFINE t == Step(w)
<1> DEFINE rows == Copied(t, f.rows[t])
<1> DEFINE g == [f EXCEPT !.copy = @ \ {t}, !.old = @ \ {t}, !.rows[t] = rows]
<1>1. file' = file \/ (Cardinality(rows) = Cardinality(f.rows[t]) /\ Writes(w, g))
  BY DEF Swap
<1>2. t \in Rebuilt
  BY Rebuilds DEF Swap, At
<1>3. Sound(f) /\ f.rows[t] \in SUBSET (Cells \X Nat)
  <2>1. Sound(f) /\ f \in File
    BY WhereItIs
  <2>2. f.rows \in [Rebuilt -> SUBSET (Cells \X Nat)]
    BY <2>1 DEF File
  <2> QED
    BY <1>2, <2>1, <2>2
<1>4. /\ rows \in SUBSET (Cells \X Nat)
      /\ t = "money_tracker" => rows = f.rows[t]
      /\ {r[1] : r \in rows} = {r[1] : r \in f.rows[t]}
  BY <1>2, <1>3, CopiedRows
<1> HIDE DEF f, t, rows
<1>5. Sound(g)
  <2>1. [f EXCEPT !.copy = @ \ {t}, !.old = @ \ {t}] \in File
    BY <1>3 DEF Sound, File
  <2>2. ASSUME NEW h \in File PROVE [h EXCEPT !.rows[t] = rows] \in File
    <3> DEFINE R == [h.rows EXCEPT ![t] = rows]
    <3>1. h.rows \in [Rebuilt -> SUBSET (Cells \X Nat)]
      BY DEF File
    <3>2. R \in [Rebuilt -> SUBSET (Cells \X Nat)]
      BY <1>2, <1>4, <3>1
    <3>3. [h EXCEPT !.rows[t] = rows] = [h EXCEPT !.rows = R]
      BY DEF File
    <3> HIDE DEF R
    <3>4. [h EXCEPT !.rows = R] \in File
      BY <3>2 DEF File
    <3> QED
      BY <3>3, <3>4
  <2>3. g \in File
    BY <2>1, <2>2
  <2>4. g.source = f.source /\ g.columns = f.columns /\ g.tables = f.tables
    BY <1>3 DEF Sound, File
  <2> QED
    BY <1>3, <2>3, <2>4 DEF Sound, Told
<1>6. Grown(f, g)
  BY <1>3 DEF Sound, File, Grown
<1>7. ASSUME Cardinality(rows) = Cardinality(f.rows[t]) PROVE Money(g) = Money(f)
  <2>1. /\ g.week4 = f.week4 /\ g.week5 = f.week5
        /\ g.rows = [f.rows EXCEPT ![t] = rows] /\ f.rows \in [Rebuilt -> SUBSET (Cells \X Nat)]
    BY <1>3 DEF Sound, File
  <2> HIDE DEF g
  <2>2. CASE t = "money_tracker"
    <3>1. g.rows = f.rows
      BY <1>2, <1>4, <2>1, <2>2
    <3> QED
      BY <2>1, <3>1 DEF Money
  <2>3. CASE t = "budgets"
    <3>1. g.rows["budgets"] = rows /\ g.rows["money_tracker"] = f.rows["money_tracker"]
      BY <1>2, <2>1, <2>3 DEF Rebuilt
    <3> QED
      BY <1>4, <1>7, <2>1, <2>3, <3>1 DEF Money
  <2> QED
    BY <1>2, <2>2, <2>3 DEF Rebuilt
<1> USE DEF f
<1> HIDE DEF g
<1>8. CASE file' = file
  BY <1>8, Rests DEF TypeOK
<1>9. CASE file' # file
  <2>1. Good(f, g) /\ Writes(w, g)
    BY <1>1, <1>5, <1>6, <1>7, <1>9 DEF Good, Better, SameMoney
  <2> QED
    BY <2>1, WritesCalm
<1> QED
  BY <1>8, <1>9

\* The fifth week's money is the fourth's.
LEMMA Sums == \A a, b \in Int : a + b \in Int /\ (a + b) + 0 = a + b
OBVIOUS

LEMMA Emptied == \A h \in File : [h EXCEPT !.week5 = 0] \in File
<1>1. ASSUME NEW h \in File, NEW n \in Int PROVE [h EXCEPT !.week5 = n] \in File
  BY DEF File
<1>2. 0 \in Int
  OBVIOUS
<1> QED
  BY <1>1, <1>2

LEMMA FoldsWeek ==
    \A f, c : Sound(f) /\ c \in {"", "seeded", "set"} /\ c # "" =>
      Good(f, [f EXCEPT !.class = c, !.week4 = f.week4 + f.week5, !.week5 = 0])
<1> SUFFICES ASSUME NEW f, NEW c \in {"", "seeded", "set"}, Sound(f), c # ""
             PROVE  Good(f, [f EXCEPT !.class = c, !.week4 = f.week4 + f.week5, !.week5 = 0])
  OBVIOUS
<1> DEFINE sum == f.week4 + f.week5
<1> DEFINE g == [f EXCEPT !.class = c, !.week4 = sum, !.week5 = 0]
<1>1. sum \in Int /\ sum + 0 = f.week4 + f.week5
  <2>1. f.week4 \in Int /\ f.week5 \in Int
    BY DEF Sound, File
  <2> QED
    BY <2>1, Sums
<1> HIDE DEF sum
<1>2. g \in File
  <2>1. [f EXCEPT !.class = c] \in File
    BY DEF Sound, File
  <2>2. [f EXCEPT !.class = c, !.week4 = sum] \in File
    BY <1>1, <2>1 DEF File
  <2> QED
    BY <2>2, Emptied
<1>3. /\ g.source = f.source /\ g.columns = f.columns /\ g.tables = f.tables /\ g.old = f.old /\ g.types = f.types
      /\ g.class = c /\ g.week4 = sum /\ g.week5 = 0 /\ g.companies = f.companies /\ g.there = f.there /\ g.rows = f.rows
  BY DEF Sound, File
<1> HIDE DEF g
<1>4. Sound(g) /\ Grown(f, g)
  BY <1>2, <1>3 DEF Sound, Told, Grown
<1>5. Money(g) = Money(f)
  BY <1>1, <1>3 DEF Money
<1>6. Good(f, g)
  BY <1>4, <1>5 DEF Good, Better, SameMoney
<1> QED
  BY <1>6 DEF g, sum

LEMMA FoldCalm ==
    ASSUME TypeOK, Columned, NEW w \in Workers, Fold(w)
    PROVE  Calm
<1> DEFINE f == file[Db(w)]
<1> DEFINE c == IF f.class = "" THEN "seeded" ELSE f.class
<1>1. Sound(f) /\ f \in File
  BY WhereItIs
<1>2. c \in {"", "seeded", "set"} /\ c # ""
  BY <1>1 DEF File
<1>3. Writes(w, [f EXCEPT !.class = c, !.week4 = f.week4 + f.week5, !.week5 = 0])
  BY <1>1 DEF Fold, File
<1> HIDE DEF c
<1>4. Good(f, [f EXCEPT !.class = c, !.week4 = f.week4 + f.week5, !.week5 = 0])
  BY <1>1, <1>2, FoldsWeek
<1> QED
  BY <1>3, <1>4, WritesCalm

LEMMA Standards == \A f : Sound(f) => Good(f, [f EXCEPT !.standard = TRUE])
<1> SUFFICES ASSUME NEW f, Sound(f) PROVE Good(f, [f EXCEPT !.standard = TRUE])
  OBVIOUS
<1> DEFINE g == [f EXCEPT !.standard = TRUE]
<1>1. Sound(g)
  BY DEF Sound, Told, File
<1>2. Grown(f, g)
  BY DEF Sound, File, Grown
<1>3. Money(g) = Money(f)
  BY DEF Sound, File, Money
<1> QED
  BY <1>1, <1>2, <1>3 DEF Good, Better, SameMoney

LEMMA StandardCalm ==
    ASSUME TypeOK, Columned, NEW w \in Workers, Standard(w)
    PROVE  Calm
BY WhereItIs, Standards, WritesCalm DEF Standard

LEMMA BaselineCalm ==
    ASSUME TypeOK, Columned, NEW w \in Workers, Baseline(w)
    PROVE  Calm
<1> DEFINE f == file[Db(w)]
<1> DEFINE g == remove_holding(Settings(f, worker[w].need))
<1> DEFINE h == [g EXCEPT !.standard = TRUE]
<1>1. file' = file \/ Writes(w, g) \/ Writes(w, h)
  BY DEF Baseline
<1>2. Sound(f)
  BY WhereItIs
<1> HIDE DEF f
<1>3. Good(f, Settings(f, worker[w].need)) /\ Sound(Settings(f, worker[w].need))
  BY <1>2, SettingsHold DEF Good, Better
<1>4. Good(f, g) /\ Sound(g)
  BY <1>3, Removes, Follows DEF Good, Better
<1> HIDE DEF g
<1>5. Good(f, h)
  BY <1>4, Standards, Follows
<1> USE DEF f
<1> HIDE DEF h
<1> QED
  BY <1>1, <1>4, <1>5, WritesCalm, Rests DEF TypeOK


-----------------------------------------------------------------------------
(* What the steps of a process do to the process.                          *)

\* What a step has left behind stays.
LEMMA Onward ==
    \A f, g, k : Grown(f, g) /\ f.there /\ Reached(k, f) => g.there /\ Reached(k, g)
<1> SUFFICES ASSUME NEW f, NEW g, NEW k, Grown(f, g), f.there, Reached(k, f) PROVE g.there /\ Reached(k, g)
  OBVIOUS
<1>1. ASSUME NEW s, Post(s, f) PROVE Post(s, g)
  BY <1>1 DEF Grown, Post
<1>2. g.there
  BY DEF Grown
<1> QED
  BY <1>1, <1>2 DEF Reached

Fits(w, p) == p \in Process /\ (p.pc \in Busy /\ ~p.lost => OnTrack(p, file'[p.db]))
Turns(w) == \E p : Fits(w, p) /\ worker' = [worker EXCEPT ![w] = p]

LEMMA Downs == /\ Down \in Process /\ Down.pc = "down" /\ Down.pc \notin Busy
               /\ [Down EXCEPT !.pc = "warned"] \in Process /\ [Down EXCEPT !.pc = "up"] \in Process
               /\ [Down EXCEPT !.pc = "warned"].pc \notin Busy /\ [Down EXCEPT !.pc = "up"].pc \notin Busy
<1>1. 0 \in Counts
  <2>1. Cardinality({}) = 0
    BY FS_EmptySet
  <2> QED
    BY <2>1 DEF Counts
<1>2. 1 \in Places
  BY DEF Places
<1>3. \A n \in Places, c \in Counts :
        [pc |-> "down", db |-> DEFAULT_DB, todo |-> {}, step |-> n, need |-> FALSE, count |-> c, lost |-> FALSE] \in Process
  BY KnownNames DEF Process, Points
<1>4. Down \in Process /\ Down.pc = "down"
  BY <1>1, <1>2, <1>3 DEF Down
<1>5. \A pc \in {"warned", "up"} : [Down EXCEPT !.pc = pc] \in Process /\ [Down EXCEPT !.pc = pc].pc = pc
  BY <1>4 DEF Process, Points
<1> QED
  BY <1>4, <1>5 DEF Busy, Opened

LEMMA Warns == ASSUME NEW w \in Workers, worker' = Warned(w) PROVE Turns(w)
BY Downs DEF Turns, Fits, Warned

\* Where a process goes that has no file open.
LEMMA Leaves ==
    ASSUME NEW w, NEW p \in Process, p.pc \notin Busy, worker' = [worker EXCEPT ![w] = p]
    PROVE  Turns(w)
BY DEF Turns, Fits

LEMMA Elsewhere ==
    ASSUME NEW q \in Process, NEW d \in Databases, NEW b \in BOOLEAN, NEW T \in SUBSET Databases, NEW pc \in Points
    PROVE  /\ [q EXCEPT !.pc = pc] \in Process /\ [q EXCEPT !.pc = pc].pc = pc
           /\ [q EXCEPT !.pc = pc, !.db = d] \in Process /\ [q EXCEPT !.pc = pc, !.db = d].pc = pc
           /\ [q EXCEPT !.pc = pc, !.db = d, !.need = b] \in Process /\ [q EXCEPT !.pc = pc, !.db = d, !.need = b].pc = pc
           /\ [q EXCEPT !.pc = pc, !.db = d, !.todo = T] \in Process /\ [q EXCEPT !.pc = pc, !.db = d, !.todo = T].pc = pc
           /\ [q EXCEPT !.pc = pc, !.lost = b] \in Process /\ [q EXCEPT !.pc = pc, !.lost = b].pc = pc
           /\ [q EXCEPT !.pc = pc].lost = q.lost /\ [q EXCEPT !.pc = pc].db = q.db /\ [q EXCEPT !.pc = pc].step = q.step
BY DEF Process

LEMMA GoesTo ==
    ASSUME TypeOK, NEW w \in Workers, NEW pc \in Points, pc \notin Busy, Goes(w, pc)
    PROVE  Turns(w)
<1>1. worker[w] \in Process /\ worker' = [worker EXCEPT ![w] = [worker[w] EXCEPT !.pc = pc]]
  BY DEF TypeOK, Goes
<1> DEFINE p == [worker[w] EXCEPT !.pc = pc]
<1>2. p \in Process /\ p.pc = pc
  BY <1>1 DEF Process
<1> HIDE DEF p
<1> QED
  BY <1>1, <1>2, Leaves DEF p


LEMMA StartTurns == ASSUME TypeOK, NEW w \in Workers, Start(w) PROVE Turns(w)
BY GoesTo DEF Start, Busy, Opened, Points

LEMMA CrashTurns == ASSUME NEW w \in Workers, Crash(w) PROVE Turns(w)
BY Downs, Leaves DEF Crash

\* A rebuild that is not granted its lock cleans up.
LEMMA CleansUp ==
    ASSUME TypeOK, Ready, NEW w \in Workers, worker[w].pc \in {"create", "swap"}, ~worker[w].lost, Goes(w, "cleanup"), Calm
    PROVE  Turns(w)
<1> DEFINE q == worker[w]
<1> DEFINE p == [q EXCEPT !.pc = "cleanup"]
<1>1. q \in Process /\ worker' = [worker EXCEPT ![w] = p]
  BY DEF TypeOK, Goes
<1>2. OnTrack(q, file[q.db]) /\ q.step \in {3, 4} /\ q.db \in Databases
  BY <1>1, Rebuilds DEF Ready, Busy, Opened, Process
<1>3. p \in Process /\ p.pc = "cleanup" /\ p.db = q.db /\ p.step = q.step
  BY <1>1 DEF Process, Points
<1>4. Good(file[q.db], file'[q.db])
  BY <1>2 DEF Calm
<1> HIDE DEF p, q
<1>5. Reached(p.step, file'[p.db]) /\ file'[p.db].there
  BY <1>2, <1>3, <1>4, Onward DEF Good, Better, OnTrack
<1>6. OnTrack(p, file'[p.db])
  BY <1>2, <1>3, <1>5 DEF OnTrack
<1> QED
  BY <1>1, <1>3, <1>6 DEF Turns, Fits


\* A step that a process is at, ...
LEMMA Within ==
    ASSUME TypeOK, Ready, NEW w \in Workers, NEW pc \in Busy, At(w, pc), Calm
    PROVE  LET q == worker[w]
               f == file[q.db]
               g == file'[q.db]
           IN  /\ q \in Process /\ q.db \in Databases /\ q.step \in 1..9 /\ q.step \in Places /\ q.need \in BOOLEAN /\ ~q.lost
               /\ q.pc = pc /\ OnTrack(q, f) /\ Good(f, g) /\ g.there /\ Reached(q.step, g)
<1> DEFINE q == worker[w]
<1>1. q \in Process /\ q.pc = pc /\ q.lost = FALSE
  BY DEF TypeOK, At, Process
<1>2. q.db \in Databases /\ q.step \in Places /\ q.need \in BOOLEAN
  BY <1>1 DEF Process
<1>3. OnTrack(q, file[q.db]) /\ Good(file[q.db], file'[q.db])
  BY <1>1, <1>2 DEF Ready, Calm
<1> HIDE DEF q
<1>4. file'[q.db].there /\ Reached(q.step, file'[q.db])
  BY <1>3, Onward DEF OnTrack, Good, Better
<1>5. q.step \in 1..9
  BY <1>2 DEF Places
<1> QED
  BY <1>1, <1>2, <1>3, <1>4, <1>5 DEF q

\* ... and the next one.
LEMMA Advances ==
    ASSUME TypeOK, Ready, NEW w \in Workers, NEW pc \in Busy, At(w, pc), Calm,
           worker' = Advanced(w), worker[w].step < 9 => Post(Step(w), file'[worker[w].db])
    PROVE  Turns(w)
<1> DEFINE q == worker[w]
<1> DEFINE g == file'[q.db]
<1>1. /\ q \in Process /\ q.db \in Databases /\ q.step \in 1..9 /\ ~q.lost
      /\ g.there /\ Reached(q.step, g)
  BY Within
<1>2. CASE q.step < 9
  <2> DEFINE k == q.step + 1
  <2> DEFINE p == [q EXCEPT !.pc = "read", !.step = k]
  <2>1. worker' = [worker EXCEPT ![w] = p]
    <3>1. worker' = [worker EXCEPT ![w].pc = "read", ![w].step = worker[w].step + 1]
      BY <1>2, StepNames DEF Advanced
    <3>2. q \in Process /\ worker \in [Workers -> Process]
      BY <1>1 DEF TypeOK
    <3> HIDE DEF k
    <3>3. worker' = [worker EXCEPT ![w].pc = "read", ![w].step = k]
      BY <3>1 DEF k
    <3> QED
      BY <3>2, <3>3
  <2>2. k \in Places /\ \A j \in Places : j < k => j < q.step \/ j = q.step
    BY <1>1, <1>2 DEF Places
  <2> HIDE DEF k
  <2>3. p \in Process /\ p.pc = "read" /\ p.db = q.db /\ p.step = k
    BY <1>1, <2>2 DEF Process, Points
  <2>4. Reached(k, g)
    BY <1>1, <1>2, <2>2 DEF Reached, Step
  <2> HIDE DEF p
  <2>5. OnTrack(p, g)
    BY <1>1, <2>3, <2>4 DEF OnTrack
  <2> QED
    BY <2>1, <2>3, <2>5 DEF Turns, Fits
<1>3. CASE ~(q.step < 9)
  <2>1. worker' = [worker EXCEPT ![w] = [q EXCEPT !.pc = "connect"]]
    BY <1>3, StepNames DEF Advanced, TypeOK
  <2>2. [q EXCEPT !.pc = "connect"] \in Process /\ [q EXCEPT !.pc = "connect"].pc \notin Busy
    BY <1>1 DEF Process, Points, Busy, Opened
  <2> QED
    BY <2>1, <2>2, Leaves
<1> QED
  BY <1>2, <1>3

\* To another point of the same step.
LEMMA Proceeds ==
    ASSUME TypeOK, Ready, NEW w \in Workers, NEW pc \in Busy, At(w, pc), Calm,
           NEW to \in {"backfill", "create", "swap", "cleanup"}, Goes(w, to),
           to = "backfill" => worker[w].step = 1 /\ file'[worker[w].db].source # "none",
           to \in {"create", "swap", "cleanup"} => worker[w].step \in {3, 4}
    PROVE  Turns(w)
<1> DEFINE q == worker[w]
<1> DEFINE p == [q EXCEPT !.pc = to]
<1>1. /\ q \in Process /\ q.db \in Databases
      /\ file'[q.db].there /\ Reached(q.step, file'[q.db])
  BY Within
<1>2. worker' = [worker EXCEPT ![w] = p]
  BY <1>1 DEF Goes, TypeOK
<1>3. p \in Process /\ p.pc = to /\ p.db = q.db /\ p.step = q.step
  BY <1>1 DEF Process, Points
<1> HIDE DEF p
<1>4. OnTrack(p, file'[p.db])
  BY <1>1, <1>3 DEF OnTrack
<1> QED
  BY <1>2, <1>3, <1>4 DEF Turns, Fits


-----------------------------------------------------------------------------
(* A step of a process leaves it on track.                                 *)

LEMMA LockedTurns ==
    ASSUME TypeOK, Columned, Ready, NEW w \in Workers, Locked(w)
    PROVE  Turns(w)
<1>1. Calm
  BY Rests DEF Locked, TypeOK
<1>2. CASE worker[w].pc \in {"create", "swap"} /\ ~worker[w].lost
  BY <1>1, <1>2, CleansUp DEF Locked
<1>3. CASE ~(worker[w].pc \in {"create", "swap"} /\ ~worker[w].lost)
  BY <1>3, Warns DEF Locked
<1> QED
  BY <1>2, <1>3

LEMMA ReadMoveTurns ==
    ASSUME TypeOK, NEW w \in Workers, ReadMove(w)
    PROVE  Turns(w)
<1>1. worker[w] \in Process
  BY DEF TypeOK
<1>2. CASE Goes(w, "group")
  BY <1>2, GoesTo DEF Busy, Opened, Points
<1>3. CASE \E d \in legacy : worker' = [worker EXCEPT ![w].pc = "move", ![w].db = d]
  <2>1. PICK d \in legacy : worker' = [worker EXCEPT ![w].pc = "move", ![w].db = d]
    BY <1>3
  <2>2. d \in Databases
    BY <2>1 DEF TypeOK
  <2> DEFINE p == [worker[w] EXCEPT !.pc = "move", !.db = d]
  <2>3. p \in Process /\ p.pc = "move"
    BY <1>1, <2>2 DEF Process, Points
  <2>4. worker' = [worker EXCEPT ![w] = p]
    BY <2>1 DEF TypeOK
  <2> HIDE DEF p
  <2> QED
    BY <2>3, <2>4, Leaves DEF Busy, Opened
<1> QED
  BY <1>2, <1>3 DEF ReadMove

LEMMA GroupTurns ==
    ASSUME TypeOK, NEW w \in Workers, Group(w)
    PROVE  Turns(w)
<1> DEFINE p == [worker[w] EXCEPT !.pc = "open", !.db = DEFAULT_DB, !.need = ~file[DEFAULT_DB].there]
<1>1. worker[w] \in Process /\ file[DEFAULT_DB].there \in BOOLEAN
  BY KnownNames DEF TypeOK, File
<1>2. p \in Process /\ p.pc = "open"
  BY <1>1, KnownNames DEF Process, Points
<1>3. worker' = [worker EXCEPT ![w] = p]
  BY DEF Group, TypeOK
<1> HIDE DEF p
<1> QED
  BY <1>2, <1>3, Leaves DEF Busy, Opened

LEMMA SandboxTurns ==
    ASSUME TypeOK, NEW w \in Workers, Sandbox(w)
    PROVE  Turns(w)
<1> DEFINE p == IF file[SANDBOX_DB].there THEN [worker[w] EXCEPT !.pc = "list"]
                ELSE [worker[w] EXCEPT !.pc = "open", !.db = SANDBOX_DB, !.need = TRUE]
<1>1. worker[w] \in Process
  BY DEF TypeOK
<1>2. p \in Process /\ p.pc \in {"list", "open"}
  BY <1>1, KnownNames DEF Process, Points
<1>3. worker' = [worker EXCEPT ![w] = p]
  BY DEF Sandbox, TypeOK
<1> HIDE DEF p
<1> QED
  BY <1>2, <1>3, Leaves DEF Busy, Opened

LEMMA OpenTurns == ASSUME TypeOK, NEW w \in Workers, Open(w) PROVE Turns(w)
BY GoesTo DEF Open, Busy, Opened, Points

LEMMA AfterSeeds ==
    ASSUME TypeOK, NEW w \in Workers, worker' = [worker EXCEPT ![w] = AfterSeed(w)]
    PROVE  Turns(w)
<1> DEFINE p == AfterSeed(w)
<1>1. worker[w] \in Process
  BY DEF TypeOK
<1>2. p \in Process /\ p.pc \in {"sandbox", "list"}
  BY <1>1 DEF AfterSeed, Process, Points
<1> HIDE DEF p
<1> QED
  BY <1>2, Leaves DEF p, Busy, Opened

LEMMA SeedTurns == ASSUME TypeOK, NEW w \in Workers, Seed(w) PROVE Turns(w)
BY AfterSeeds, Warns DEF Seed

LEMMA ListTurns ==
    ASSUME TypeOK, NEW w \in Workers, ListDatabases(w)
    PROVE  Turns(w)
<1> DEFINE T == {d \in Databases : file[d].there}
<1> DEFINE p == [worker[w] EXCEPT !.pc = "connect", !.db = DEFAULT_DB, !.todo = T]
<1>1. worker[w] \in Process /\ T \in SUBSET Databases
  BY DEF TypeOK
<1>2. worker' = [worker EXCEPT ![w] = p]
  BY DEF ListDatabases, TypeOK
<1> HIDE DEF T
<1>3. p \in Process /\ p.pc = "connect"
  BY <1>1, KnownNames DEF Process, Points
<1> HIDE DEF p
<1> QED
  BY <1>2, <1>3, Leaves DEF Busy, Opened

LEMMA ConnectTurns ==
    ASSUME TypeOK, Columned, NEW w \in Workers, Connect(w)
    PROVE  Turns(w)
<1>1. worker[w] \in Process /\ ~worker[w].lost
  BY DEF TypeOK, Connect, At
<1>2. CASE worker' = [worker EXCEPT ![w] = [Down EXCEPT !.pc = "up"]]
  BY <1>2, Downs, Leaves
<1>3. CASE worker' # [worker EXCEPT ![w] = [Down EXCEPT !.pc = "up"]]
  <2>1. PICK d \in worker[w].todo :
          /\ worker' = [worker EXCEPT ![w].pc = "read", ![w].db = d, ![w].todo = @ \ {d}, ![w].step = 1]
          /\ file' = [file EXCEPT ![d] = Connected(@)]
    BY <1>3 DEF Connect
  <2> DEFINE T == worker[w].todo \ {d}
  <2>2. d \in Databases /\ T \in SUBSET Databases /\ 1 \in Places
    BY <1>1 DEF Process, Places
  <2> DEFINE one == 1
  <2> DEFINE p == [worker[w] EXCEPT !.pc = "read", !.db = d, !.todo = T, !.step = one]
  <2>3. worker' = [worker EXCEPT ![w] = p]
    BY <2>1 DEF TypeOK
  <2>4. one \in Places /\ \A j \in Places : ~(j < one)
    BY DEF Places
  <2> HIDE DEF T, one
  <2>5. p \in Process /\ p.pc = "read" /\ p.db = d /\ p.step = one
    BY <1>1, <2>2, <2>4 DEF Process, Points
  <2>6. file'[d] = Connected(file[d]) /\ Sound(file[d])
    BY <2>1, <2>2 DEF TypeOK, Columned, Sound
  <2>7. file'[d].there
    BY <2>6, Connects
  <2> HIDE DEF p
  <2>8. OnTrack(p, file'[p.db])
    BY <2>4, <2>5, <2>7 DEF OnTrack, Reached
  <2> QED
    BY <2>3, <2>5, <2>8 DEF Turns, Fits
<1> QED
  BY <1>2, <1>3

LEMMA DriftTurns ==
    ASSUME TypeOK, NEW w \in Workers, Drift(w)
    PROVE  Turns(w)
<1>1. CASE worker[w].pc = "seed"
  BY <1>1, AfterSeeds DEF Drift
<1>2. CASE worker[w].pc # "seed"
  <2> DEFINE p == [worker[w] EXCEPT !.pc = "connect", !.lost = FALSE]
  <2>1. worker[w] \in Process
    BY DEF TypeOK
  <2>2. p \in Process /\ p.pc = "connect"
    BY <2>1 DEF Process, Points
  <2>3. worker' = [worker EXCEPT ![w] = p]
    BY <1>2 DEF Drift
  <2> HIDE DEF p
  <2> QED
    BY <2>2, <2>3, Leaves DEF Busy, Opened
<1> QED
  BY <1>1, <1>2

LEMMA ReadTurns ==
    ASSUME TypeOK, Columned, Ready, NEW w \in Workers, Read(w)
    PROVE  Turns(w)
<1> DEFINE q == worker[w]
<1> DEFINE f == file[q.db]
<1> DEFINE n == Needed(Step(w), f)
<1> DEFINE c == IF Step(w) \in Rebuilt THEN Cardinality(f.rows[Step(w)]) ELSE 0
<1> DEFINE p == [q EXCEPT !.pc = "write", !.need = n, !.count = c]
<1>1. Calm
  BY Rests DEF Read, TypeOK
<1>2. /\ q \in Process /\ q.db \in Databases /\ OnTrack(q, f) /\ file' = file /\ f \in File
  BY <1>1, Within DEF Read, Busy, Opened, TypeOK
<1>3. n \in BOOLEAN
  BY DEF Needed
<1>4. c \in Counts
  <2>1. CASE Step(w) \in Rebuilt
    <3>1. f.rows \in [Rebuilt -> SUBSET (Cells \X Nat)]
      BY <1>2 DEF File
    <3>2. f.rows[Step(w)] \in SUBSET (Cells \X Nat)
      BY <2>1, <3>1
    <3> QED
      BY <2>1, <3>2 DEF Counts
  <2>2. CASE Step(w) \notin Rebuilt
    <3>1. 0 \in Counts
      BY FS_EmptySet DEF Counts
    <3> QED
      BY <2>2, <3>1
  <2> QED
    BY <2>1, <2>2
<1>5. worker' = [worker EXCEPT ![w] = p]
  BY DEF Read, TypeOK, Db
<1> HIDE DEF n, c
<1>6. p \in Process /\ p.pc = "write" /\ p.db = q.db /\ p.step = q.step /\ p.need = n
  BY <1>2, <1>3, <1>4 DEF Process, Points
<1> HIDE DEF p
<1>7. OnTrack(p, f)
  BY <1>2, <1>6 DEF OnTrack, n, Step
<1> QED
  BY <1>2, <1>5, <1>6, <1>7 DEF Turns, Fits


LEMMA WriteTurns ==
    ASSUME TypeOK, Ready, NEW w \in Workers, At(w, "write"), Calm
    PROVE  /\ worker[w].step \in 1..9
           /\ Db(w) = worker[w].db
           /\ ~worker[w].need => ~Needed(Step(w), file[Db(w)])
           /\ \A s \in {"source", "early", "money_tracker", "budgets", "class", "fold", "late", "baseline"} :
                Step(w) = s => worker[w].step < 9
           /\ Step(w) = "standard" => ~(worker[w].step < 9)
           /\ Step(w) = "source" => worker[w].step = 1
           /\ Step(w) \in Rebuilt => worker[w].step \in {3, 4}
           /\ worker' = Advanced(w) /\ (worker[w].step < 9 => Post(Step(w), file'[Db(w)])) => Turns(w)
<1>1. worker[w].step \in 1..9 /\ OnTrack(worker[w], file[Db(w)]) /\ worker[w].pc = "write"
  BY Within DEF Busy, Opened, Db
<1>2. ~worker[w].need => ~Needed(Step(w), file[Db(w)])
  BY <1>1 DEF OnTrack, Step
<1>3. worker' = Advanced(w) /\ (worker[w].step < 9 => Post(Step(w), file'[Db(w)])) => Turns(w)
  BY Advances DEF Busy, Opened, Db
<1> DEFINE k == worker[w].step
<1>4. Step(w) = Steps[k]
  BY DEF Step
<1>5. k \in 1..9
  BY <1>1
<1> HIDE DEF k
<1>6. k = 1 \/ k = 2 \/ k = 3 \/ k = 4 \/ k = 5 \/ k = 6 \/ k = 7 \/ k = 8 \/ k = 9
  BY <1>5
<1>7. /\ \A s \in {"source", "early", "money_tracker", "budgets", "class", "fold", "late", "baseline"} : Step(w) = s => k < 9
      /\ Step(w) = "standard" => ~(k < 9)
      /\ Step(w) = "source" => k = 1
      /\ Step(w) \in Rebuilt => k \in {3, 4}
  BY <1>4, <1>6, StepNames DEF Rebuilt
<1> QED
  BY <1>1, <1>2, <1>3, <1>7 DEF k, Db

\* A write reaches the file.
LEMMA Arrives ==
    ASSUME TypeOK, NEW w \in Workers, NEW g, Writes(w, g)
    PROVE  file'[Db(w)] = g
BY DEF TypeOK, Process, Db, Writes

LEMMA AddSourceTurns ==
    ASSUME TypeOK, Columned, Ready, NEW w \in Workers, AddSource(w)
    PROVE  Turns(w)
<1> DEFINE f == file[Db(w)]
<1>1. Calm /\ At(w, "write") /\ Step(w) = "source" /\ f \in File
  BY AddSourceCalm, WhereItIs DEF AddSource
<1>2. CASE Skip(w)
  <2>1. f.source # "none" /\ file' = file /\ worker' = Advanced(w)
    BY <1>1, <1>2, WriteTurns DEF Skip, Needed
  <2>2. Post(Step(w), file'[Db(w)])
    BY <1>1, <2>1 DEF Post, Rebuilt
  <2> QED
    BY <1>1, <2>1, <2>2, WriteTurns
<1>3. CASE Writes(w, [f EXCEPT !.source = "added"]) /\ Goes(w, "backfill")
  <2>1. file'[Db(w)] = [f EXCEPT !.source = "added"]
    BY <1>3, Arrives
  <2>2. file'[Db(w)].source # "none"
    BY <1>1, <2>1 DEF File
  <2>3. worker[w].step = 1 /\ Db(w) = worker[w].db
    BY <1>1, WriteTurns
  <2> QED
    BY <1>1, <1>3, <2>2, <2>3, Proceeds DEF Busy, Opened
<1>4. CASE worker' = Warned(w)
  BY <1>4, Warns
<1> QED
  BY <1>2, <1>3, <1>4 DEF AddSource

LEMMA BackfillTurns ==
    ASSUME TypeOK, Columned, Ready, NEW w \in Workers, Backfill(w)
    PROVE  Turns(w)
<1> DEFINE f == file[Db(w)]
<1>1. Calm /\ At(w, "backfill") /\ f \in File
  BY BackfillCalm, WhereItIs DEF Backfill
<1>2. file'[Db(w)] = [f EXCEPT !.source = "told"] /\ worker' = Advanced(w)
  BY Arrives DEF Backfill
<1>3. file'[Db(w)].source # "none"
  BY <1>1, <1>2 DEF File
<1>4. OnTrack(worker[w], file[worker[w].db]) /\ worker[w].pc = "backfill"
  BY <1>1, Within DEF Busy, Opened
<1>5. Step(w) = "source"
  BY <1>4, StepNames DEF OnTrack, Step
<1>6. Post(Step(w), file'[worker[w].db])
  BY <1>3, <1>5 DEF Post, Rebuilt, Db
<1> QED
  BY <1>1, <1>2, <1>6, Advances DEF Busy, Opened

LEMMA AddColumnsTurns ==
    ASSUME TypeOK, Columned, Ready, NEW w \in Workers, AddColumns(w)
    PROVE  Turns(w)
<1> DEFINE f == file[Db(w)]
<1>1. Calm /\ At(w, "write") /\ Step(w) \in {"early", "class", "late"} /\ f \in File
  BY AddColumnsCalm, WhereItIs DEF AddColumns
<1>2. CASE Skip(w)
  <2>1. Step(w) \in f.columns /\ file' = file /\ worker' = Advanced(w)
    BY <1>1, <1>2, WriteTurns DEF Skip, Needed
  <2>2. Post(Step(w), file'[Db(w)])
    BY <1>1, <2>1 DEF Post, Rebuilt
  <2> QED
    BY <1>1, <2>1, <2>2, WriteTurns
<1>3. CASE Writes(w, [f EXCEPT !.columns = @ \cup {Step(w)}]) /\ worker' = Advanced(w)
  <2>1. file'[Db(w)] = [f EXCEPT !.columns = @ \cup {Step(w)}]
    BY <1>3, Arrives
  <2> DEFINE X == f.columns \cup {Step(w)}
  <2>2. Step(w) \in file'[Db(w)].columns
    <3>1. Step(w) \in X
      OBVIOUS
    <3> HIDE DEF X
    <3>2. file'[Db(w)] = [f EXCEPT !.columns = X]
      BY <2>1 DEF X
    <3>3. file'[Db(w)].columns = X
      BY <1>1, <3>2 DEF File
    <3> QED
      BY <3>1, <3>3
  <2>3. Post(Step(w), file'[Db(w)])
    BY <1>1, <2>2 DEF Post, Rebuilt
  <2> QED
    BY <1>1, <1>3, <2>3, WriteTurns
<1>4. CASE worker' = Warned(w)
  BY <1>4, Warns
<1> QED
  BY <1>2, <1>3, <1>4 DEF AddColumns


LEMMA DropCopyTurns ==
    ASSUME TypeOK, Columned, Ready, NEW w \in Workers, DropCopy(w)
    PROVE  Turns(w)
<1>1. Calm /\ At(w, "write") /\ Step(w) \in Rebuilt
  BY DropCopyCalm DEF DropCopy
<1>2. CASE Skip(w)
  <2>1. Step(w) \notin file[Db(w)].old /\ file' = file /\ worker' = Advanced(w)
    BY <1>1, <1>2, WriteTurns DEF Skip, Needed
  <2>2. Post(Step(w), file'[Db(w)])
    BY <1>1, <2>1 DEF Post, Rebuilt
  <2> QED
    BY <1>1, <2>1, <2>2, WriteTurns
<1>3. CASE Goes(w, "create")
  <2>1. worker[w].step \in {3, 4}
    BY <1>1, WriteTurns
  <2> QED
    BY <1>1, <1>3, <2>1, Proceeds DEF Busy, Opened
<1> QED
  BY <1>2, <1>3 DEF DropCopy

LEMMA CreateCopyTurns ==
    ASSUME TypeOK, Columned, Ready, NEW w \in Workers, CreateCopy(w)
    PROVE  Turns(w)
<1>1. Calm /\ At(w, "create")
  BY CreateCopyCalm DEF CreateCopy
<1>2. worker[w].step \in {3, 4}
  BY <1>1, Rebuilds DEF At
<1>3. \A to \in {"cleanup", "swap"} : Goes(w, to) => Turns(w)
  BY <1>1, <1>2, Proceeds DEF Busy, Opened
<1> QED
  BY <1>3 DEF CreateCopy

LEMMA SwapTurns ==
    ASSUME TypeOK, Columned, Ready, NEW w \in Workers, Swap(w)
    PROVE  Turns(w)
<1> DEFINE f == file[Db(w)]
<1> DEFINE t == Step(w)
<1>1. Calm /\ At(w, "swap") /\ f \in File
  BY SwapCalm, WhereItIs DEF Swap
<1>2. worker[w].step \in {3, 4} /\ t \in Rebuilt
  BY <1>1, Rebuilds DEF At
<1>3. CASE Goes(w, "cleanup")
  BY <1>1, <1>2, <1>3, Proceeds DEF Busy, Opened
<1>4. CASE worker' = Advanced(w) /\ Writes(w, [f EXCEPT !.copy = @ \ {t}, !.old = @ \ {t}, !.rows[t] = Copied(t, f.rows[t])])
  <2> DEFINE rows == Copied(t, f.rows[t])
  <2> DEFINE X == f.old \ {t}
  <2>1. file'[Db(w)] = [f EXCEPT !.copy = @ \ {t}, !.old = X, !.rows[t] = rows]
    BY <1>1, <1>4, Arrives DEF File
  <2>2. t \notin X
    OBVIOUS
  <2> HIDE DEF rows, X
  <2>3. file'[Db(w)].old = X
    BY <1>1, <2>1 DEF File
  <2>4. Post(t, file'[Db(w)])
    BY <1>2, <2>2, <2>3 DEF Post, Rebuilt
  <2> QED
    BY <1>1, <1>4, <2>4, Advances DEF Busy, Opened, Db
<1> QED
  BY <1>3, <1>4 DEF Swap

LEMMA CleanupTurns == ASSUME NEW w \in Workers, Cleanup(w) PROVE Turns(w)
BY Warns DEF Cleanup

LEMMA FoldTurns ==
    ASSUME TypeOK, Columned, Ready, NEW w \in Workers, Fold(w)
    PROVE  Turns(w)
<1> DEFINE f == file[Db(w)]
<1> DEFINE c == IF f.class = "" THEN "seeded" ELSE f.class
<1> DEFINE sum == f.week4 + f.week5
<1> DEFINE none == 0
<1>1. Calm /\ At(w, "write") /\ Step(w) = "fold" /\ f \in File /\ worker' = Advanced(w)
  BY FoldCalm, WhereItIs DEF Fold
<1>2. file'[Db(w)] = [f EXCEPT !.class = c, !.week4 = sum, !.week5 = none]
  BY <1>1, Arrives DEF Fold, File
<1>3. c # ""
  OBVIOUS
<1> HIDE DEF c, sum, none
<1>4. file'[Db(w)].class = c /\ file'[Db(w)].week5 = none
  BY <1>1, <1>2 DEF File
<1>5. Post(Step(w), file'[Db(w)])
  BY <1>1, <1>3, <1>4 DEF Post, Rebuilt, none
<1> QED
  BY <1>1, <1>5, WriteTurns

LEMMA BaselineTurns ==
    ASSUME TypeOK, Columned, Ready, NEW w \in Workers, Baseline(w)
    PROVE  Turns(w)
<1> DEFINE f == file[Db(w)]
<1> DEFINE g == remove_holding(Settings(f, worker[w].need))
<1>1. Calm /\ At(w, "write") /\ Step(w) = "baseline" /\ Sound(f)
  BY BaselineCalm, WhereItIs DEF Baseline
<1>2. CASE worker' = Warned(w)
  BY <1>2, Warns
<1>3. CASE Goes(w, "connect")
  BY <1>3, GoesTo DEF Busy, Opened, Points
<1>4. CASE worker' = Advanced(w) /\ Writes(w, g)
  <2>1. file'[Db(w)] = g
    BY <1>4, Arrives
  <2>2. Sound(Settings(f, worker[w].need))
    BY <1>1, SettingsHold DEF Good, Better
  <2>3. "HOLD" \notin g.companies
    BY <2>2, Removes
  <2> HIDE DEF g
  <2>4. Post(Step(w), file'[Db(w)])
    BY <1>1, <2>1, <2>3 DEF Post, Rebuilt
  <2> QED
    BY <1>1, <1>4, <2>4, WriteTurns
<1> QED
  BY <1>2, <1>3, <1>4 DEF Baseline

LEMMA StandardTurns ==
    ASSUME TypeOK, Columned, Ready, NEW w \in Workers, Standard(w)
    PROVE  Turns(w)
<1>1. Calm /\ At(w, "write") /\ Step(w) = "standard" /\ worker' = Advanced(w)
  BY StandardCalm DEF Standard
<1>2. ~(worker[w].step < 9)
  BY <1>1, WriteTurns
<1> QED
  BY <1>1, <1>2, WriteTurns


-----------------------------------------------------------------------------
(* The steps of a process together.                                        *)

Taken(w) == At(w, "move") /\ Db(w) \in legacy

LEMMA StartupCalm ==
    ASSUME TypeOK, Columned, Ready, NEW w \in Workers, StartupNext(w), ~(Move(w) /\ Taken(w))
    PROVE  Calm /\ legacy' = legacy
<1>1. CASE file' = file
  BY <1>1, Rests DEF TypeOK, StartupNext, Start, Crash, Locked, ReadMove, Move, Taken, Group, Sandbox, Open, Seed, ListDatabases,
     Connect, Drift, Read, AddSource, Backfill, AddColumns, DropCopy, CreateCopy, Swap, Cleanup, Fold, Baseline, Standard
<1>2. CASE file' # file
  <2>1. \/ Open(w) \/ Seed(w) \/ Connect(w) \/ AddSource(w) \/ Backfill(w) \/ AddColumns(w) \/ DropCopy(w)
        \/ CreateCopy(w) \/ Swap(w) \/ Cleanup(w) \/ Fold(w) \/ Baseline(w) \/ Standard(w)
    BY <1>2 DEF StartupNext, Start, Crash, Locked, ReadMove, Move, Taken, Group, Sandbox, ListDatabases, Drift, Read
  <2>2. legacy' = legacy
    BY <2>1 DEF Open, Seed, Connect, AddSource, Backfill, AddColumns, DropCopy, CreateCopy, Swap, Cleanup, Fold, Baseline, Standard
  <2> QED
    BY <2>1, <2>2, OpenCalm, SeedCalm, ConnectCalm, AddSourceCalm, BackfillCalm, AddColumnsCalm, DropCopyCalm, CreateCopyCalm,
       SwapCalm, CleanupCalm, FoldCalm, BaselineCalm, StandardCalm
<1> QED
  BY <1>1, <1>2

LEMMA StartupTurns ==
    ASSUME TypeOK, Columned, Ready, NEW w \in Workers, StartupNext(w), ~(Move(w) /\ Taken(w))
    PROVE  Turns(w)
<1>1. CASE Move(w)
  BY <1>1, Warns DEF Move, Taken
<1>2. CASE ~Move(w)
  BY <1>2, StartTurns, CrashTurns, LockedTurns, ReadMoveTurns, GroupTurns, SandboxTurns, OpenTurns, SeedTurns, ListTurns,
     ConnectTurns, DriftTurns, ReadTurns, AddSourceTurns, BackfillTurns, AddColumnsTurns, DropCopyTurns, CreateCopyTurns,
     SwapTurns, CleanupTurns, FoldTurns, BaselineTurns, StandardTurns DEF StartupNext
<1> QED
  BY <1>1, <1>2

\* What others do leaves a process on track.
LEMMA Beside ==
    ASSUME TypeOK, Ready, NEW v \in Workers, worker'[v] = worker[v],
           worker[v].pc \in Busy, ~worker[v].lost, Grown(file[worker[v].db], file'[worker[v].db])
    PROVE  OnTrack(worker'[v], file'[worker'[v].db])
<1> DEFINE q == worker[v]
<1> DEFINE f == file[q.db]
<1> DEFINE g == file'[q.db]
<1>1. OnTrack(q, f) /\ Grown(f, g)
  BY DEF Ready
<1> HIDE DEF q, f, g
<1>2. g.there /\ Reached(q.step, g)
  BY <1>1, Onward DEF OnTrack
<1>3. q.pc = "write" /\ ~q.need => ~Needed(Steps[q.step], g)
  <2>1. ASSUME NEW s, ~Needed(s, f) PROVE ~Needed(s, g)
    BY <1>1, <2>1 DEF OnTrack, Grown, Needed
  <2> QED
    BY <1>1, <2>1 DEF OnTrack
<1>4. q.pc = "backfill" => g.source # "none"
  BY <1>1 DEF OnTrack, Grown
<1>5. OnTrack(q, g)
  BY <1>1, <1>2, <1>3, <1>4 DEF OnTrack
<1> QED
  BY <1>5 DEF q, g

LEMMA Starting ==
    ASSUME TypeOK, Columned, Ready, NEW w \in Workers, StartupNext(w), UNCHANGED <<session, req>>, ~(Move(w) /\ Taken(w))
    PROVE  TypeOK' /\ Columned' /\ Ready'
<1>1. Calm /\ legacy' = legacy
  BY StartupCalm
<1>2. PICK p : Fits(w, p) /\ worker' = [worker EXCEPT ![w] = p]
  BY StartupTurns DEF Turns
<1>3. TypeOK'
  BY <1>1, <1>2 DEF TypeOK, Calm, Fits
<1>4. Columned'
  BY <1>1 DEF Calm, Good, Better, Sound, Columned
<1>5. ASSUME NEW v \in Workers, worker'[v].pc \in Busy, ~worker'[v].lost
      PROVE  OnTrack(worker'[v], file'[worker'[v].db])
  <2>1. CASE v = w
    BY <1>2, <1>5, <2>1 DEF Fits, TypeOK
  <2>2. CASE v # w
    <3>1. worker'[v] = worker[v] /\ worker[v].db \in Databases
      BY <1>2, <2>2 DEF TypeOK, Process
    <3>2. Grown(file[worker[v].db], file'[worker[v].db])
      BY <1>1, <3>1 DEF Calm, Good, Better
    <3> QED
      BY <1>5, <3>1, <3>2, Beside
  <2> QED
    BY <2>1, <2>2
<1> QED
  BY <1>3, <1>4, <1>5 DEF Ready

\* Who had a file open that is taken out of the folder has lost it.
LEMMA Unlinks ==
    ASSUME TypeOK, NEW d \in Databases
    PROVE  /\ Unlinked(d) \in [Workers -> Process]
           /\ \A v \in Workers : \/ Unlinked(d)[v].lost
                                 \/ Unlinked(d)[v] = worker[v] /\ (worker[v].pc \in Busy => worker[v].db # d)
<1>1. \A v \in Workers : worker[v] \in Process /\ [worker[v] EXCEPT !.lost = TRUE] \in Process
                         /\ [worker[v] EXCEPT !.lost = TRUE].lost = TRUE
  BY DEF TypeOK, Process
<1> QED
  BY <1>1 DEF Unlinked, Db, Busy, Opened

LEMMA Moving ==
    ASSUME TypeOK, Columned, Ready, NEW w \in Workers, Move(w), Taken(w), UNCHANGED <<session, req>>
    PROVE  TypeOK' /\ Columned' /\ Ready'
<1> DEFINE d == Db(w)
<1> DEFINE U == Unlinked(d)
<1> DEFINE p == [U[w] EXCEPT !.pc = "moves", !.db = DEFAULT_DB]
<1>1. d \in Databases /\ file' = [file EXCEPT ![d] = Moved] /\ legacy' = legacy \ {d}
  BY WhereItIs DEF Move, Taken
<1>2. /\ U \in [Workers -> Process]
      /\ \A v \in Workers : U[v].lost \/ (U[v] = worker[v] /\ (worker[v].pc \in Busy => worker[v].db # d))
  BY <1>1, Unlinks
<1>3. worker' = [U EXCEPT ![w].pc = "moves", ![w].db = DEFAULT_DB]
  BY DEF Move, Taken
<1> HIDE DEF d, U
<1>4. worker' = [U EXCEPT ![w] = p]
  BY <1>2, <1>3
<1>5. p \in Process /\ p.pc = "moves"
  <2>1. U[w] \in Process /\ DEFAULT_DB \in Databases
    BY <1>2, KnownNames
  <2> QED
    BY ONLY <2>1 DEF Process, Points
<1> HIDE DEF p
<1>6. file' \in [Databases -> File] /\ \A e \in Databases : Told(file'[e])
  BY <1>1, FolderAssumption DEF TypeOK, Columned
<1>7. TypeOK'
  BY <1>1, <1>2, <1>4, <1>5, <1>6 DEF TypeOK
<1>8. ASSUME NEW v \in Workers, worker'[v].pc \in Busy, ~worker'[v].lost
      PROVE  OnTrack(worker'[v], file'[worker'[v].db])
  <2>1. v # w
    BY <1>2, <1>4, <1>5, <1>8 DEF Busy, Opened
  <2>2. worker'[v] = worker[v] /\ worker[v].db # d /\ worker[v].db \in Databases
    BY <1>2, <1>4, <1>8, <2>1 DEF Process, TypeOK
  <2>3. file'[worker[v].db] = file[worker[v].db]
    BY <1>1, <2>2 DEF TypeOK
  <2>4. Sound(file[worker[v].db])
    BY <2>2 DEF TypeOK, Columned, Sound
  <2> QED
    BY <1>8, <2>2, <2>3, <2>4, Stays, Beside DEF Good, Better
<1> QED
  BY <1>6, <1>7, <1>8 DEF Columned, Ready


-----------------------------------------------------------------------------
(* What requests do to files.                                              *)

Eased == file' \in [Databases -> File] /\ \A e \in Databases : Better(file[e], file'[e])

LEMMA Stills ==
    ASSUME TypeOK, Columned, UNCHANGED file
    PROVE  Eased
BY Stays DEF Eased, Good, Sound, Columned, TypeOK

LEMMA FilesAre ==
    ASSUME TypeOK, Columned, NEW d \in Databases
    PROVE  file[d] \in File /\ Sound(file[d]) /\ file \in [Databases -> File]
BY DEF TypeOK, Columned, Sound

LEMMA Changes ==
    ASSUME TypeOK, Columned, NEW d \in Databases, NEW g, Better(file[d], g), file' = [file EXCEPT ![d] = g]
    PROVE  Eased
<1>1. file' \in [Databases -> File]
  BY DEF Better, Sound, TypeOK
<1>2. ASSUME NEW e \in Databases PROVE Better(file[e], file'[e])
  <2>1. CASE e = d
    BY <2>1 DEF TypeOK
  <2>2. CASE e # d
    BY <2>2, FilesAre, Stays DEF Good
  <2> QED
    BY <2>1, <2>2
<1> QED
  BY <1>1, <1>2 DEF Eased

LEMMA AskedAre ==
    ASSUME TypeOK, NEW b \in Browsers, ~Waits(b, "idle")
    PROVE  /\ req[b] \in Asking /\ req[b].ask \in Ask /\ req[b].db \in Databases /\ req[b].ask.db \in Databases
           /\ req[b].ask.uid \in Uids /\ req[b].ask.user \in User /\ Written(b) \in Databases
<1>1. req[b] \in Asking /\ req[b].ask \in Ask
  BY DEF TypeOK, Waits
<1>2. req[b].db \in Databases
  BY <1>1 DEF Asking
<1>3. req[b].ask.db \in Databases /\ req[b].ask.uid \in Uids /\ req[b].ask.user \in User
  BY <1>1 DEF Ask
<1> QED
  BY <1>1, <1>2, <1>3 DEF Written

LEMMA Puts ==
    ASSUME TypeOK, Columned, NEW b \in Browsers, ~Waits(b, "idle"), NEW g, Better(file[Written(b)], g), Put(b, g)
    PROVE  Eased
<1>1. CASE file' = file
  BY <1>1, Stills
<1>2. CASE file' = [file EXCEPT ![Written(b)] = g]
  BY <1>2, AskedAre, Changes
<1> QED
  BY <1>1, <1>2 DEF Put

\* Users and profiles are nothing a process looks at.
LEMMA NewUsers ==
    \A f, U : Sound(f) /\ U \in [Uids -> Accounts] => Better(f, [f EXCEPT !.users = U])
<1> SUFFICES ASSUME NEW f, NEW U \in [Uids -> Accounts], Sound(f) PROVE Better(f, [f EXCEPT !.users = U])
  OBVIOUS
<1>1. Sound([f EXCEPT !.users = U])
  BY DEF Sound, Told, File
<1>2. Grown(f, [f EXCEPT !.users = U])
  BY DEF Sound, File, Grown
<1> QED
  BY <1>1, <1>2 DEF Better

LEMMA NewProfile ==
    \A f, p : Sound(f) /\ p \in Profile => Better(f, [f EXCEPT !.profile = p])
<1> SUFFICES ASSUME NEW f, NEW p \in Profile, Sound(f) PROVE Better(f, [f EXCEPT !.profile = p])
  OBVIOUS
<1>1. Sound([f EXCEPT !.profile = p])
  BY DEF Sound, Told, File
<1>2. Grown(f, [f EXCEPT !.profile = p])
  BY DEF Sound, File, Grown
<1> QED
  BY <1>1, <1>2 DEF Better

LEMMA Inserting ==
    ASSUME NEW f, Sound(f), NEW user \in User
    PROVE  LET g == Inserted(f, user) IN
           /\ Better(f, g)
           /\ g.users = f.users \/ \E id \in Uids : f.users[id] = NoUser /\ g.users = [f.users EXCEPT ![id] = user]
<1> DEFINE free == {u \in Uids : \A v \in Uids : v >= u => f.users[v] = NoUser}
<1> DEFINE id == CHOOSE u \in free : \A v \in free : u <= v
<1> DEFINE U == [f.users EXCEPT ![id] = user]
<1> DEFINE g == Inserted(f, user)
<1>1. CASE g = f
  BY <1>1, Stays DEF Good
<1>2. CASE g # f
  <2>1. free # {} /\ g = [f EXCEPT !.users[id] = user]
    BY <1>2 DEF Inserted
  <2>2. id \in free
    <3>1. \E u \in free : \A v \in free : u <= v
      BY <2>1, LeastUid
    <3> QED
      BY <3>1
  <2>3. id \in Uids /\ id >= id
    <3>1. id \in Uids
      BY <2>2
    <3> HIDE DEF id, free
    <3> QED
      BY <3>1, UserAssumption
  <2>4. f.users[id] = NoUser
    BY <2>2, <2>3
  <2>5. f \in File /\ f.users \in [Uids -> Accounts]
    BY DEF Sound, File
  <2> HIDE DEF free, id
  <2>6. U \in [Uids -> Accounts]
    BY <2>3, <2>5 DEF Accounts
  <2>7. g = [f EXCEPT !.users = U]
    BY <2>1, <2>5 DEF File
  <2> HIDE DEF U
  <2>8. g.users = U
    BY <2>5, <2>7 DEF File
  <2>9. Better(f, g)
    BY <2>6, <2>7, NewUsers
  <2> HIDE DEF g
  <2>10. \E i \in Uids : f.users[i] = NoUser /\ g.users = [f.users EXCEPT ![i] = user]
    BY <2>3, <2>4, <2>8 DEF U
  <2> QED
    BY <2>9, <2>10 DEF g
<1> QED
  BY <1>1, <1>2

\* An edit of user u makes U of these users.
Edited(users, u, user, U) ==
    \/ U = users
    \/ \E r \in User : r.role = user.role /\ r.active = user.active /\ U = [users EXCEPT ![u] = r]

LEMMA Updating ==
    ASSUME NEW f, Sound(f), NEW user \in User, NEW u \in Uids
    PROVE  Better(f, Updated(f, u, user)) /\ Edited(f.users, u, user, Updated(f, u, user).users)
<1> DEFINE r == [f.users[u] EXCEPT !.role = user.role, !.active = user.active]
<1> DEFINE U == [f.users EXCEPT ![u] = r]
<1> DEFINE g == Updated(f, u, user)
<1>1. CASE g = f
  BY <1>1, Stays DEF Good, Edited
<1>2. CASE g # f
  <2>1. Is(f.users[u]) /\ g = [f EXCEPT !.users[u].role = user.role, !.users[u].active = user.active]
    BY <1>2 DEF Updated
  <2>2. f \in File /\ f.users \in [Uids -> Accounts]
    BY DEF Sound, File
  <2>3. f.users[u] \in User
    BY <2>1, <2>2 DEF Is, Accounts
  <2>4. r \in User /\ r.role = user.role /\ r.active = user.active
    BY <2>3 DEF User
  <2>5. U \in [Uids -> Accounts]
    BY <2>2, <2>4 DEF Accounts
  <2>6. g = [f EXCEPT !.users = U]
    BY <2>1, <2>2, ZenonT(40) DEF File
  <2> HIDE DEF U
  <2>7. g.users = U
    BY <2>2, <2>6 DEF File
  <2>8. Better(f, g)
    BY <2>5, <2>6, NewUsers
  <2> HIDE DEF g, r
  <2>9. g.users = [f.users EXCEPT ![u] = r]
    BY <2>7 DEF U
  <2> QED
    BY <2>4, <2>8, <2>9 DEF g, Edited
<1> QED
  BY <1>1, <1>2


-----------------------------------------------------------------------------
(* The invariant is inductive.                                             *)

\* What the invariant says of one request.
Proper(r) ==
    /\ r \in Asking /\ (r.pc # "idle" => r.ask \in Ask)
    /\ r.pc = "handle" /\ r.ask.kind = "write" => can_edit(r.seen, r.me.role)
    /\ r.pc = "save" => /\ r.ask.kind \in {"add_user", "edit_user", "delete_user", "profile"}
                        /\ r.ask.kind \in {"edit_user", "delete_user"} => Spares(r.ask, r.users)

LEMMA Propriety ==
    IInv <=> /\ file \in [Databases -> File] /\ legacy \in SUBSET Databases /\ worker \in [Workers -> Process]
             /\ session \in [Browsers -> [db : Databases, uid : Uids \cup {Nobody}]]
             /\ req \in [Browsers -> Asking] /\ (\A b \in Browsers : Proper(req[b]))
             /\ Columned /\ Ready
BY DEF IInv, TypeOK, Guarded, Vetted, Proper

LEMMA ProprietyNext ==
    IInv' <=> /\ file' \in [Databases -> File] /\ legacy' \in SUBSET Databases /\ worker' \in [Workers -> Process]
              /\ session' \in [Browsers -> [db : Databases, uid : Uids \cup {Nobody}]]
              /\ req' \in [Browsers -> Asking] /\ (\A b \in Browsers : Proper(req'[b]))
              /\ Columned' /\ Ready'
BY DEF IInv, TypeOK, Guarded, Vetted, Proper

LEMMA Idles == Proper(Idle) /\ Idle.pc = "idle"
<1>1. Absent.users \in [Uids -> Accounts] /\ NoUser \in Accounts /\ DEFAULT_DB \in Databases /\ OpenProfile \in Profile
  BY Absence, KnownNames, UserAssumption DEF File, Accounts
<1>2. Idle \in Asking /\ Idle.pc = "idle"
  BY <1>1 DEF Idle, Asking
<1> QED
  BY <1>2 DEF Proper

\* A step of a request that takes no file out of the folder.
LEMMA Answers ==
    ASSUME IInv, NEW b \in Browsers, NEW r, Proper(r), To(b, r), Eased, UNCHANGED <<legacy, worker>>,
           session' \in [Browsers -> [db : Databases, uid : Uids \cup {Nobody}]]
    PROVE  IInv'
<1>1. req' = [req EXCEPT ![b] = r] /\ r \in Asking
  BY DEF To, Proper
<1>2. req' \in [Browsers -> Asking] /\ \A c \in Browsers : Proper(req'[c])
  BY <1>1, Propriety
<1>3. Columned'
  BY DEF Eased, Better, Sound, Columned
<1>4. Ready'
  <2>1. ASSUME NEW v \in Workers, worker[v].pc \in Busy, ~worker[v].lost
        PROVE  OnTrack(worker'[v], file'[worker'[v].db])
    <3>1. worker'[v] = worker[v] /\ worker[v].db \in Databases
      BY DEF IInv, TypeOK, Process
    <3>2. Grown(file[worker[v].db], file'[worker[v].db])
      BY <3>1 DEF Eased, Better
    <3> QED
      BY <2>1, <3>1, <3>2, Beside DEF IInv
  <2> QED
    BY <2>1 DEF Ready
<1> QED
  BY <1>2, <1>3, <1>4, Propriety, ProprietyNext DEF Eased

LEMMA Ends ==
    ASSUME IInv, NEW b \in Browsers, End(b), Eased, UNCHANGED <<legacy, worker, session>>
    PROVE  IInv'
BY Idles, Answers DEF End, IInv, TypeOK

LEMMA SignInOK ==
    ASSUME IInv, NEW b \in Browsers, NEW right \in BOOLEAN, SignIn(b, right)
    PROVE  IInv'
<1> DEFINE f == Connected(file[DEFAULT_DB])
<1> DEFINE mine == {u \in Named(f.users, Person[b]) : f.users[u].active}
<1> DEFINE uid == IF right /\ mine # {} THEN CHOOSE u \in mine : TRUE ELSE session[b].uid
<1>1. session' = [session EXCEPT ![b] = [db |-> DEFAULT_DB, uid |-> uid]] /\ req' = req
  BY DEF SignIn
<1>2. uid \in Uids \cup {Nobody}
  BY DEF IInv, TypeOK, Named
<1> HIDE DEF uid
<1>3. session' \in [Browsers -> [db : Databases, uid : Uids \cup {Nobody}]]
  BY <1>1, <1>2, KnownNames DEF IInv, TypeOK
<1> HIDE DEF mine
<1>4. Eased
  <2>1. Better(file[DEFAULT_DB], f) /\ file' = [file EXCEPT ![DEFAULT_DB] = f]
    BY KnownNames, FilesAre, Connects DEF SignIn, IInv, Good
  <2> HIDE DEF f
  <2> QED
    BY <2>1, KnownNames, Changes DEF IInv
<1>5. To(b, req[b]) /\ Proper(req[b])
  BY <1>1, Propriety DEF To
<1> HIDE DEF f
<1> QED
  BY <1>3, <1>4, <1>5, Answers DEF SignIn

LEMMA SignOutOK ==
    ASSUME IInv, NEW b \in Browsers, SignOut(b)
    PROVE  IInv'
<1>1. Eased
  BY Stills DEF SignOut, IInv
<1>2. session' \in [Browsers -> [db : Databases, uid : Uids \cup {Nobody}]]
  BY KnownNames DEF SignOut, SignedOut, IInv, TypeOK
<1>3. To(b, req[b]) /\ Proper(req[b])
  BY Propriety DEF SignOut, To
<1> QED
  BY <1>1, <1>2, <1>3, Answers DEF SignOut

LEMMA RequestOK ==
    ASSUME IInv, NEW b \in Browsers, NEW ask \in Asks, Request(b, ask)
    PROVE  IInv'
<1> DEFINE d == active_db_name(b)
<1> DEFINE r == [Idle EXCEPT !.pc = "open", !.ask = ask, !.db = d]
<1>1. d \in Databases
  BY KnownNames DEF active_db_name, list_databases
<1>2. ask \in Ask
  BY AskAssumption
<1> HIDE DEF d
<1>3. r \in Asking /\ r.pc = "open" /\ r.ask = ask
  BY <1>1, <1>2, Idles DEF Proper, Asking
<1> HIDE DEF r
<1>4. Proper(r)
  BY <1>2, <1>3 DEF Proper
<1>5. To(b, r)
  BY DEF Request, r, d
<1>6. Eased
  BY Stills DEF Request, IInv
<1> QED
  BY <1>4, <1>5, <1>6, Answers DEF Request, IInv, TypeOK

LEMMA OpenDbOK ==
    ASSUME IInv, NEW b \in Browsers, OpenDb(b)
    PROVE  IInv'
<1> DEFINE q == req[b]
<1> DEFINE f == Connected(file[q.db])
<1> DEFINE me == Row(f, session[b].uid)
<1> DEFINE r == [q EXCEPT !.pc = "handle", !.me = me, !.seen = f.profile]
<1>1. q \in Asking /\ q.ask \in Ask /\ q.db \in Databases
  BY AskedAre DEF OpenDb, Waits, IInv
<1>2. file' = [file EXCEPT ![q.db] = f]
  BY DEF OpenDb
<1>3. Better(file[q.db], f) /\ f \in File
  BY <1>1, FilesAre, Connects DEF IInv, Good, Better, Sound
<1>4. me \in Accounts /\ f.profile \in Profile
  <2>1. session[b].uid \in Uids \cup {Nobody}
    BY DEF IInv, TypeOK
  <2> HIDE DEF f
  <2>2. f.users \in [Uids -> Accounts] /\ f.profile \in Profile
    BY <1>3 DEF File
  <2> QED
    BY <2>1, <2>2 DEF Row, Accounts
<1>5. Eased
  <2> HIDE DEF f
  <2> QED
    BY <1>1, <1>2, <1>3, Changes DEF IInv
<1>6. CASE End(b)
  BY <1>5, <1>6, Ends DEF OpenDb, Still
<1>7. CASE Allowed(b, f, me) /\ To(b, r)
  <2>1. q.ask.kind = "write" => can_edit(f.profile, me.role)
    BY <1>7 DEF Allowed
  <2> HIDE DEF f, me
  <2>2. r \in Asking /\ r.pc = "handle" /\ r.ask = q.ask /\ r.me = me /\ r.seen = f.profile
    BY <1>1, <1>4 DEF Asking
  <2>3. Proper(r)
    BY <1>1, <2>1, <2>2 DEF Proper
  <2> HIDE DEF r, q
  <2> QED
    BY <1>5, <1>7, <2>3, Answers DEF OpenDb, Still, IInv, TypeOK
<1> QED
  BY <1>6, <1>7 DEF OpenDb


LEMMA WriteOK ==
    ASSUME IInv, NEW b \in Browsers, NEW c \in Cells, Write(b, c)
    PROVE  IInv'
<1> DEFINE f == file[req[b].db]
<1> DEFINE R == [f.rows EXCEPT !["budgets"] = @ \cup {<<c, 2>>}]
<1>1. ~Waits(b, "idle") /\ Written(b) = req[b].db
  BY DEF Write, Does, Waits, Written, Own
<1>2. req[b].db \in Databases /\ Sound(f) /\ f \in File
  BY <1>1, AskedAre, FilesAre DEF IInv
<1>3. f.rows \in [Rebuilt -> SUBSET (Cells \X Nat)] /\ <<c, 2>> \in Cells \X Nat
  BY <1>2 DEF File
<1>4. R \in [Rebuilt -> SUBSET (Cells \X Nat)]
  BY <1>3
<1>5. [f EXCEPT !.rows["budgets"] = @ \cup {<<c, 2>>}] = [f EXCEPT !.rows = R]
  BY <1>2 DEF File
<1> HIDE DEF R, f
<1>6. Better(f, [f EXCEPT !.rows = R])
  <2>1. [f EXCEPT !.rows = R] \in File
    BY <1>2, <1>4 DEF File
  <2>2. Told([f EXCEPT !.rows = R])
    BY <1>2 DEF Sound, Told, File
  <2>3. Grown(f, [f EXCEPT !.rows = R])
    BY <1>2 DEF File, Grown
  <2> QED
    BY <2>1, <2>2, <2>3 DEF Better, Sound
<1>7. Put(b, [f EXCEPT !.rows = R])
  BY <1>5 DEF Write, f
<1>8. Eased
  BY <1>1, <1>6, <1>7, Puts DEF f, IInv
<1> QED
  BY <1>8, Ends DEF Write, Still

LEMMA SwitchOK ==
    ASSUME IInv, NEW b \in Browsers, Switch(b)
    PROVE  IInv'
<1> DEFINE d == req[b].ask.db
<1> DEFINE f == file[d]
<1> DEFINE me == req[b].me
<1> DEFINE mine == {u \in Named(f.users, me.name) : f.users[u].active /\ f.users[u].role = me.role}
<1> DEFINE there == IF mine = {} /\ me.role = "admin" THEN Admins(f.users) ELSE mine
<1> DEFINE uid == CHOOSE u \in there : \A v \in there : u <= v
<1>1. d \in Databases
  BY AskedAre DEF Switch, Does, Waits, IInv
<1>2. there # {} /\ session' = [session EXCEPT ![b] = [db |-> d, uid |-> uid]]
  BY DEF Switch
<1>3. there \subseteq Uids
  BY DEF Named, Admins
<1> HIDE DEF there, d
<1>4. uid \in Uids
  BY <1>2, <1>3, LeastUid
<1> HIDE DEF uid
<1>5. session' \in [Browsers -> [db : Databases, uid : Uids \cup {Nobody}]]
  BY <1>1, <1>2, <1>4 DEF IInv, TypeOK
<1>6. Eased
  BY Stills DEF Switch, IInv
<1> QED
  BY <1>5, <1>6, Idles, Answers DEF Switch, End

LEMMA OwnUserOK ==
    ASSUME IInv, NEW b \in Browsers, OwnUser(b)
    PROVE  IInv'
<1> DEFINE f == file[req[b].db]
<1> DEFINE a == req[b].ask
<1> DEFINE g == IF a.kind = "own_add" THEN Inserted(f, a.user) ELSE Updated(f, a.uid, a.user)
<1>1. ~Waits(b, "idle") /\ Written(b) = req[b].db
  BY DEF OwnUser, Does, Waits, Written, Own
<1>2. Sound(f) /\ a.user \in User /\ a.uid \in Uids
  BY <1>1, AskedAre, FilesAre DEF IInv
<1>3. Put(b, g)
  BY DEF OwnUser
<1> HIDE DEF f, a
<1>4. Better(f, g)
  BY <1>2, Inserting, Updating
<1> HIDE DEF g
<1>5. Eased
  BY <1>1, <1>3, <1>4, Puts DEF f, IInv
<1> QED
  BY <1>5, Ends DEF OwnUser, Still

LEMMA ReadPickerOK ==
    ASSUME IInv, NEW b \in Browsers, ReadPicker(b)
    PROVE  IInv'
<1> DEFINE q == req[b]
<1> DEFINE f == file[q.ask.db]
<1> DEFINE r == [q EXCEPT !.pc = "save", !.users = f.users, !.seen = f.profile]
<1>1. ~Waits(b, "idle") /\ q.ask.kind \in {"add_user", "edit_user", "delete_user", "profile"}
  BY DEF ReadPicker, Does, Waits
<1>2. q \in Asking /\ q.ask \in Ask /\ f \in File
  BY <1>1, AskedAre, FilesAre DEF IInv
<1>3. q.ask.kind \in {"edit_user", "delete_user"} => Spares(q.ask, f.users)
  BY DEF ReadPicker, MayLose, Spares
<1>4. To(b, r)
  BY DEF ReadPicker
<1> HIDE DEF f, q
<1>5. f.users \in [Uids -> Accounts] /\ f.profile \in Profile
  BY <1>2 DEF File
<1>6. r \in Asking /\ r.pc = "save" /\ r.ask = q.ask /\ r.users = f.users
  BY <1>2, <1>5 DEF Asking
<1> HIDE DEF r
<1>7. Proper(r)
  BY <1>1, <1>2, <1>3, <1>6 DEF Proper
<1>8. Eased
  BY Stills DEF ReadPicker, IInv
<1> QED
  BY <1>4, <1>7, <1>8, Answers DEF ReadPicker, Still, IInv, TypeOK

\* What the picker writes.
Saved(f, r) ==
    LET a == r.ask IN
    CASE a.kind = "add_user" -> Inserted(f, a.user)
      [] a.kind = "edit_user" -> Updated(f, a.uid, a.user)
      [] a.kind = "delete_user" -> IF Is(f.users[a.uid]) THEN [f EXCEPT !.users[a.uid] = Gone] ELSE f
      [] a.kind = "profile" -> [f EXCEPT !.profile = Merged(r.seen, a)]

LEMMA Merging ==
    ASSUME NEW prof \in Profile, NEW a \in Ask
    PROVE  Merged(prof, a) \in Profile
<1>1. a.profile \in Profile /\ "admin" \in Roles
  BY RoleAssumption DEF Ask
<1> QED
  BY <1>1 DEF Merged, Profile

LEMMA Deleting ==
    ASSUME NEW f, Sound(f), NEW u \in Uids
    PROVE  Better(f, [f EXCEPT !.users[u] = Gone]) /\ [f EXCEPT !.users[u] = Gone].users = [f.users EXCEPT ![u] = Gone]
<1> DEFINE U == [f.users EXCEPT ![u] = Gone]
<1>1. f \in File /\ f.users \in [Uids -> Accounts]
  BY DEF Sound, File
<1>2. U \in [Uids -> Accounts]
  BY <1>1 DEF Accounts
<1>3. [f EXCEPT !.users[u] = Gone] = [f EXCEPT !.users = U]
  BY <1>1 DEF File
<1> HIDE DEF U
<1>4. [f EXCEPT !.users = U].users = U
  BY <1>1 DEF File
<1> QED
  BY <1>2, <1>3, <1>4, NewUsers DEF U

LEMMA SavePickerOK ==
    ASSUME IInv, NEW b \in Browsers, SavePicker(b)
    PROVE  IInv'
<1> DEFINE f == file[Written(b)]
<1> DEFINE r == req[b]
<1> DEFINE g == Saved(f, r)
<1>1. ~Waits(b, "idle") /\ r.pc = "save"
  BY DEF SavePicker, Waits
<1>2. Sound(f) /\ r.ask \in Ask /\ r.ask.user \in User /\ r.ask.uid \in Uids /\ r \in Asking
  BY <1>1, AskedAre, FilesAre DEF IInv
<1>3. r.ask.kind \in {"add_user", "edit_user", "delete_user", "profile"}
  BY <1>1 DEF IInv, Vetted
<1>4. Put(b, g)
  BY DEF SavePicker, Saved
<1> HIDE DEF f, r
<1>5. Merged(r.seen, r.ask) \in Profile
  BY <1>2, Merging DEF Asking
<1>6. Better(f, g)
  <2>1. CASE r.ask.kind = "add_user"
    BY <1>2, <2>1, Inserting DEF Saved
  <2>2. CASE r.ask.kind = "edit_user"
    BY <1>2, <2>2, Updating DEF Saved
  <2>3. CASE r.ask.kind = "delete_user"
    <3>1. Better(f, f) /\ Better(f, [f EXCEPT !.users[r.ask.uid] = Gone])
      BY <1>2, Stays, Deleting DEF Good
    <3>2. g = f \/ g = [f EXCEPT !.users[r.ask.uid] = Gone]
      BY <2>3 DEF Saved
    <3> QED
      BY <3>1, <3>2
  <2>4. CASE r.ask.kind = "profile"
    <3>1. g = [f EXCEPT !.profile = Merged(r.seen, r.ask)]
      BY <2>4 DEF Saved
    <3> QED
      BY <1>2, <1>5, <3>1, NewProfile
  <2> QED
    BY <1>3, <2>1, <2>2, <2>3, <2>4
<1> HIDE DEF g
<1>7. Eased
  BY <1>1, <1>4, <1>6, Puts DEF f, IInv
<1> QED
  BY <1>7, Ends DEF SavePicker, Still


\* From one point of a request to another, with nothing read.
LEMMA Onwards ==
    ASSUME IInv, NEW b \in Browsers, ~Waits(b, "idle"), NEW pc \in {"init", "seed"}, To(b, [req[b] EXCEPT !.pc = pc]),
           Eased, UNCHANGED <<legacy, worker, session>>
    PROVE  IInv'
<1> DEFINE r == [req[b] EXCEPT !.pc = pc]
<1>1. req[b] \in Asking /\ req[b].ask \in Ask
  BY AskedAre DEF IInv
<1>2. r \in Asking /\ r.pc = pc /\ r.ask = req[b].ask
  BY <1>1 DEF Asking
<1> HIDE DEF r
<1>3. Proper(r)
  BY <1>1, <1>2 DEF Proper
<1> QED
  BY <1>3, Answers DEF r, IInv, TypeOK

LEMMA ReadCreateOK == ASSUME IInv, NEW b \in Browsers, ReadCreate(b) PROVE IInv'
<1>1. ~Waits(b, "idle")
  BY DEF ReadCreate, Does, Waits
<1>2. Eased
  BY Stills DEF ReadCreate, IInv
<1> QED
  BY <1>1, <1>2, Onwards DEF ReadCreate, Still

LEMMA InitOneOK ==
    ASSUME IInv, NEW b \in Browsers, InitOne(b)
    PROVE  IInv'
<1> DEFINE d == req[b].ask.db
<1> DEFINE f == file[d]
<1> DEFINE g == Schema(Connected(f))
<1>1. ~Waits(b, "idle") /\ file' = [file EXCEPT ![d] = g]
  BY DEF InitOne, Waits
<1>2. d \in Databases /\ Sound(f)
  BY <1>1, AskedAre, FilesAre DEF IInv
<1> HIDE DEF d, f
<1>3. Good(f, Connected(f)) /\ Sound(Connected(f))
  BY <1>2, Connects DEF Good, Better
<1>4. Better(f, g)
  BY <1>3, Schemes, Follows DEF Good
<1> HIDE DEF g
<1>5. Eased
  BY <1>1, <1>2, <1>4, Changes DEF f, IInv
<1> QED
  BY <1>1, <1>5, Onwards DEF InitOne, Still

LEMMA SeedOneOK ==
    ASSUME IInv, NEW b \in Browsers, SeedOne(b)
    PROVE  IInv'
<1> DEFINE d == req[b].ask.db
<1> DEFINE f == file[d]
<1> DEFINE g == IF req[b].ask.demo THEN seed(f) ELSE seed_investments(f)
<1>1. ~Waits(b, "idle") /\ (file' = file \/ file' = [file EXCEPT ![d] = g])
  BY DEF SeedOne, Waits
<1>2. d \in Databases /\ Sound(f)
  BY <1>1, AskedAre, FilesAre DEF IInv
<1> HIDE DEF d, f
<1>3. Better(f, g)
  BY <1>2, Seeding, Invests DEF Good
<1> HIDE DEF g
<1>4. Eased
  BY <1>1, <1>2, <1>3, Changes, Stills DEF f, IInv
<1> QED
  BY <1>4, Ends DEF SeedOne, Still

LEMMA DeleteOK ==
    ASSUME IInv, NEW b \in Browsers, Delete(b)
    PROVE  IInv'
<1> DEFINE d == req[b].ask.db
<1>1. d \in Databases
  BY AskedAre DEF Delete, Does, Waits, IInv
<1>2. file' = [file EXCEPT ![d] = Absent] /\ worker' = Unlinked(d) /\ legacy' = legacy /\ session' = session
  BY DEF Delete
<1>3. file' \in [Databases -> File] /\ Columned'
  BY <1>1, <1>2, Absence DEF IInv, TypeOK, Columned, Told
<1>4. req' \in [Browsers -> Asking] /\ \A c \in Browsers : Proper(req'[c])
  <2>1. ASSUME NEW q, Proper(q) PROVE Proper([q EXCEPT !.lost = TRUE])
    <3> DEFINE r == [q EXCEPT !.lost = TRUE]
    <3>1. q \in Asking
      BY <2>1 DEF Proper
    <3>2. r \in Asking /\ r.pc = q.pc /\ r.ask = q.ask /\ r.seen = q.seen /\ r.me = q.me /\ r.users = q.users
      BY <3>1 DEF Asking
    <3> HIDE DEF r
    <3> QED
      BY <2>1, <3>2 DEF Proper, r
  <2>2. /\ DOMAIN req' = Browsers /\ req' = [c \in Browsers |-> req'[c]]
        /\ \A c \in Browsers : req'[c] \in {Idle, [req[c] EXCEPT !.lost = TRUE], req[c]}
    BY DEF Delete
  <2>3. \A c \in Browsers : Proper(req'[c])
    BY <2>1, <2>2, Idles, Propriety
  <2> QED
    BY <2>2, <2>3 DEF Proper
<1>5. /\ worker' \in [Workers -> Process]
      /\ \A v \in Workers : worker'[v].lost \/ (worker'[v] = worker[v] /\ (worker[v].pc \in Busy => worker[v].db # d))
  BY <1>1, <1>2, Unlinks DEF IInv
<1> HIDE DEF d
<1>6. Ready'
  <2>1. ASSUME NEW v \in Workers, worker'[v].pc \in Busy, ~worker'[v].lost
        PROVE  OnTrack(worker'[v], file'[worker'[v].db])
    <3>1. worker'[v] = worker[v] /\ worker[v].db # d /\ worker[v].db \in Databases
      BY <1>5, <2>1 DEF Process
    <3>2. file'[worker[v].db] = file[worker[v].db] /\ Sound(file[worker[v].db])
      BY <1>1, <1>2, <3>1, FilesAre DEF IInv, TypeOK
    <3> QED
      BY <2>1, <3>1, <3>2, Stays, Beside DEF Good, Better, IInv
  <2> QED
    BY <2>1 DEF Ready
<1> QED
  BY <1>2, <1>3, <1>4, <1>5, <1>6, Propriety, ProprietyNext

LEMMA AbortOK == ASSUME IInv, NEW b \in Browsers, Abort(b) PROVE IInv'
<1>1. Eased
  BY Stills DEF Abort, IInv
<1> QED
  BY <1>1, Ends DEF Abort, Still

LEMMA WorkersOK ==
    ASSUME IInv, NEW w \in Workers, StartupNext(w), UNCHANGED <<session, req>>
    PROVE  IInv'
<1>1. TypeOK' /\ Columned' /\ Ready'
  BY Starting, Moving DEF IInv
<1>2. Guarded' /\ Vetted'
  BY DEF IInv, Guarded, Vetted
<1> QED
  BY <1>1, <1>2 DEF IInv

LEMMA InitOK == Init => IInv
<1> SUFFICES ASSUME Init PROVE IInv
  OBVIOUS
<1>1. PICK folder \in Folders : file = folder.file /\ legacy = folder.legacy
  BY DEF Init, StartupInit
<1>2. file \in [Databases -> File] /\ legacy \in SUBSET Databases /\ Columned
  BY <1>1, FolderAssumption DEF Columned
<1>3. worker \in [Workers -> Process] /\ \A w \in Workers : worker[w].pc \notin Busy
  BY Downs DEF Init, StartupInit
<1>4. session \in [Browsers -> [db : Databases, uid : Uids \cup {Nobody}]]
  BY KnownNames DEF Init, SignedOut
<1>5. req \in [Browsers -> Asking] /\ \A b \in Browsers : Proper(req[b])
  BY Idles DEF Init, Proper
<1> QED
  BY <1>2, <1>3, <1>4, <1>5, Propriety DEF Ready

LEMMA NextOK == IInv /\ [Next]_vars => IInv'
<1> SUFFICES ASSUME IInv, [Next]_vars PROVE IInv'
  OBVIOUS
<1>1. CASE UNCHANGED vars
  <2>1. UNCHANGED <<file, legacy, worker, session, req>>
    BY <1>1 DEF vars
  <2> QED
    BY <2>1 DEF IInv, TypeOK, Columned, Ready, Guarded, Vetted
<1>2. ASSUME NEW w \in Workers, StartupNext(w) /\ UNCHANGED <<session, req>> PROVE IInv'
  BY <1>2, WorkersOK
<1>3. ASSUME NEW b \in Browsers,
             \/ Abort(b)
             \/ \E right \in BOOLEAN : SignIn(b, right)
             \/ \E ask \in Asks : Request(b, ask)
             \/ \E c \in Cells : Write(b, c)
             \/ SignOut(b) \/ OpenDb(b) \/ Switch(b) \/ OwnUser(b) \/ ReadPicker(b) \/ SavePicker(b)
             \/ ReadCreate(b) \/ InitOne(b) \/ SeedOne(b) \/ Delete(b)
      PROVE  IInv'
  BY <1>3, AbortOK, SignInOK, RequestOK, WriteOK, SignOutOK, OpenDbOK, SwitchOK, OwnUserOK, ReadPickerOK, SavePickerOK,
     ReadCreateOK, InitOneOK, SeedOneOK, DeleteOK
<1> QED
  BY <1>1, <1>2, <1>3 DEF Next

LEMMA Inductive == Spec => []IInv
BY InitOK, NextOK, PTL DEF Spec

-----------------------------------------------------------------------------
(* The theorems.                                                           *)

\* A step that no starting process takes leaves them as they are, but for the
\* files that a request takes out of the folder.
LEMMA Requests ==
    ASSUME [Next]_vars, ~\E v \in Workers : StartupNext(v)
    PROVE  worker' = worker \/ \E b \in Browsers : Delete(b) /\ worker' = Unlinked(req[b].ask.db)
<1>1. ASSUME NEW b \in Browsers,
             \/ Abort(b) \/ SignOut(b) \/ OpenDb(b) \/ Switch(b)
             \/ \E right \in BOOLEAN : SignIn(b, right)
             \/ \E ask \in Asks : Request(b, ask)
             \/ \E c \in Cells : Write(b, c)
      PROVE  worker' = worker
  BY <1>1 DEF Abort, SignOut, OpenDb, Switch, SignIn, Request, Write, Still
<1>2. ASSUME NEW b \in Browsers,
             OwnUser(b) \/ ReadPicker(b) \/ SavePicker(b) \/ ReadCreate(b) \/ InitOne(b) \/ SeedOne(b)
      PROVE  worker' = worker
  BY <1>2 DEF OwnUser, ReadPicker, SavePicker, ReadCreate, InitOne, SeedOne, Still
<1>3. ASSUME NEW b \in Browsers, Delete(b) PROVE worker' = Unlinked(req[b].ask.db)
  BY <1>3 DEF Delete
<1>4. UNCHANGED vars => worker' = worker
  BY DEF vars
<1> QED
  BY <1>1, <1>2, <1>3, <1>4 DEF Next

\* Whatever processes start, die and start again, and whatever requests do
\* meanwhile, no step of a starting process changes the planned money of a
\* database that stays in the folder (the rebuilds and the fold of the fifth
\* week, database.py:1216-1433).
THEOREM Keeping == Spec => StartingKeepsMoney
<1>1. ASSUME IInv, [Next]_vars, NEW d \in Databases, NEW w \in Workers,
             worker'[w] # worker[w], file[d].there, file'[d].there, legacy' = legacy
      PROVE  Money(file'[d]) = Money(file[d])
  <2>1. CASE \E v \in Workers : StartupNext(v)
    <3>1. PICK v \in Workers : StartupNext(v)
      BY <2>1
    <3>2. ~(Move(v) /\ Taken(v))
      BY <1>1 DEF Move, Taken
    <3>3. Good(file[d], file'[d])
      BY <1>1, <3>1, <3>2, StartupCalm DEF IInv, Calm
    <3> QED
      BY <1>1, <3>3 DEF Good, SameMoney
  <2>2. CASE \E b \in Browsers : Delete(b)
    <3>1. PICK b \in Browsers : Delete(b)
      BY <2>2
    <3>2. file' = [file EXCEPT ![req[b].ask.db] = Absent]
      BY <3>1 DEF Delete
    <3>3. d # req[b].ask.db
      BY <1>1, <3>2, Absence DEF IInv, TypeOK
    <3> QED
      BY <3>2, <3>3 DEF IInv, TypeOK
  <2>3. CASE ~(\E v \in Workers : StartupNext(v)) /\ ~(\E b \in Browsers : Delete(b))
    <3>1. worker' = worker
      BY <1>1, <2>3, Requests
    <3> QED
      BY <1>1, <3>1
  <2> QED
    BY <2>1, <2>2, <2>3
<1>2. IInv /\ [Next]_vars =>
        [\A d \in Databases, w \in Workers :
           worker'[w] # worker[w] /\ file[d].there /\ file'[d].there /\ legacy' = legacy
           => Money(file'[d]) = Money(file[d])]_<<file, worker>>
  BY <1>1
<1> QED
  BY Inductive, <1>2, PTL DEF Spec, StartingKeepsMoney

\* Nobody whose role may not edit a database gets a write into it through the
\* guard, unless the profile was changed after the guard had looked
\* (_enforce_frozen_db(), server.py:106).
THEOREM Guarding == Spec => GuardHolds
<1>1. IInv =>
        \A b \in Browsers :
          LET d == req[b].db IN
          /\ req[b].ask.kind = "write" /\ req[b].pc = "handle" /\ req'[b].pc = "idle"
          /\ file'[d] # file[d]
          => LET prof == file[d].profile IN
             \/ req[b].me.role = "admin" \/ (~prof.frozen /\ req[b].me.role \in prof.edit)
             \/ prof # req[b].seen
  BY DEF IInv, Guarded, can_edit
<1> QED
  BY Inductive, <1>1, PTL DEF GuardHolds


\* What the eight steps up to the holding and the standard accounts add up to.
LEMMA Whole ==
    ASSUME NEW g, Sound(g), NEW k \in {8, 9}, Reached(k, g), "HOLD" \notin g.companies, g.standard
    PROVE  Current(g)
<1>1. \A j \in 1..7 : Post(Steps[j], g)
  BY DEF Reached, Places
<1>2. Post("source", g) /\ Post("early", g) /\ Post("money_tracker", g) /\ Post("budgets", g) /\ Post("class", g)
      /\ Post("fold", g) /\ Post("late", g)
  <2>1. 1 \in 1..7 /\ 2 \in 1..7 /\ 3 \in 1..7 /\ 4 \in 1..7 /\ 5 \in 1..7 /\ 6 \in 1..7 /\ 7 \in 1..7
    OBVIOUS
  <2> QED
    BY <1>1, <2>1, StepNames
<1>3. g.columns \in SUBSET {"early", "class", "late"} /\ g.old \in SUBSET {"money_tracker", "budgets"}
  BY DEF Sound, File, Rebuilt
<1>4. g.source # "none" /\ g.columns = {"early", "class", "late"} /\ g.old = {} /\ g.class # "" /\ g.week5 = 0
  BY <1>2, <1>3 DEF Post, Rebuilt
<1>5. g.tables
  BY <1>4 DEF Sound, Told
<1> QED
  BY <1>4, <1>5 DEF Current

\* Only the last steps end with a database.
LEMMA NotYet ==
    ASSUME TypeOK, NEW w \in Workers, worker[w].step < 9, worker' = Advanced(w)
    PROVE  worker'[w].pc = "read"
<1> DEFINE k == worker[w].step + 1
<1>1. worker' = [worker EXCEPT ![w].pc = "read", ![w].step = k]
  BY StepNames DEF Advanced
<1> HIDE DEF k
<1> QED
  BY <1>1 DEF TypeOK, Process

LEMMA GoesThere ==
    ASSUME TypeOK, NEW w \in Workers, NEW pc, Goes(w, pc)
    PROVE  worker'[w].pc = pc
BY DEF TypeOK, Process, Goes

LEMMA WarnedThere ==
    ASSUME TypeOK, NEW w \in Workers, worker' = Warned(w)
    PROVE  worker'[w].pc = "warned"
<1>1. [Down EXCEPT !.pc = "warned"].pc = "warned"
  BY Downs DEF Process
<1> QED
  BY <1>1 DEF TypeOK, Warned

LEMMA LastStep ==
    ASSUME TypeOK, Columned, Ready, NEW w \in Workers, StartupNext(w), At(w, "write"), worker'[w].pc = "connect"
    PROVE  Current(file'[Db(w)])
<1> DEFINE f == file[Db(w)]
<1>1. Calm
  BY StartupCalm DEF Taken, At
<1>2. worker[w].step < 9 => worker' # Advanced(w)
  BY NotYet
<1>3. worker' # Warned(w) /\ \A pc \in {"backfill", "create", "cleanup"} : ~Goes(w, pc)
  BY WarnedThere, GoesThere
<1>4. worker' # [worker EXCEPT ![w] = Down]
  BY Downs DEF TypeOK
<1>5. Baseline(w) \/ Standard(w)
  <2>1. ~Crash(w) /\ ~Locked(w) /\ ~AddSource(w) /\ ~AddColumns(w) /\ ~DropCopy(w) /\ ~Fold(w)
    <3>1. Step(w) \in {"source", "early", "class", "late", "fold"} \cup Rebuilt => worker' # Advanced(w)
      BY <1>1, <1>2, WriteTurns DEF Rebuilt
    <3> QED
      BY <1>3, <1>4, <3>1 DEF Crash, Locked, AddSource, AddColumns, DropCopy, Fold, Skip, At
  <2> QED
    BY <2>1 DEF StartupNext, At, Start, ReadMove, Move, Group, Sandbox, Open, Seed, ListDatabases, Connect, Drift, Read,
       Backfill, CreateCopy, Swap, Cleanup
<1>6. /\ Sound(f) /\ Db(w) = worker[w].db /\ Sound(file'[Db(w)]) /\ worker[w].step \in 1..9
      /\ Reached(worker[w].step, file'[Db(w)]) /\ OnTrack(worker[w], f)
  BY <1>1, Within, WhereItIs DEF Busy, Opened, Db, Good, Better
<1>7. CASE Baseline(w)
  <2> DEFINE g == remove_holding(Settings(f, worker[w].need))
  <2> DEFINE h == [g EXCEPT !.standard = TRUE]
  <2>1. Step(w) = "baseline" /\ worker' # Advanced(w) /\ Writes(w, h)
    BY <1>1, <1>2, <1>3, <1>7, WriteTurns DEF Baseline
  <2>2. file'[Db(w)] = h
    BY <2>1, Arrives
  <2>3. Sound(Settings(f, worker[w].need))
    BY <1>6, SettingsHold DEF Good, Better
  <2>4. "HOLD" \notin g.companies /\ g \in File
    BY <2>3, Removes DEF Good, Better, Sound
  <2> HIDE DEF g
  <2>5. h.standard /\ "HOLD" \notin h.companies
    BY <2>4 DEF File
  <2>6. worker[w].step = 8
    <3> DEFINE k == worker[w].step
    <3>1. k = 1 \/ k = 2 \/ k = 3 \/ k = 4 \/ k = 5 \/ k = 6 \/ k = 7 \/ k = 8 \/ k = 9
      BY <1>6
    <3>2. Steps[k] = "baseline"
      BY <2>1 DEF Step
    <3> HIDE DEF k
    <3>3. k = 8
      BY <3>1, <3>2, StepNames
    <3> QED
      BY <3>3 DEF k
  <2> QED
    BY <1>6, <2>2, <2>5, <2>6, Whole
<1>8. CASE Standard(w)
  <2>1. Step(w) = "standard" /\ Writes(w, [f EXCEPT !.standard = TRUE])
    BY <1>8 DEF Standard
  <2>2. worker[w].step = 9
    BY <1>1, <1>6, <2>1, WriteTurns
  <2>3. file'[Db(w)] = [f EXCEPT !.standard = TRUE]
    BY <2>1, Arrives
  <2>4. Post(Steps[8], f)
    BY <1>6, <2>2 DEF OnTrack, Reached, Places
  <2>5. "HOLD" \notin f.companies /\ f \in File
    BY <1>6, <2>4, StepNames DEF Post, Sound
  <2>6. file'[Db(w)].standard /\ "HOLD" \notin file'[Db(w)].companies
    BY <2>3, <2>5 DEF File
  <2> QED
    BY <1>6, <2>2, <2>6, Whole
<1> QED
  BY <1>5, <1>7, <1>8

\* A database that a process has gone through has the current shape: what the
\* earlier steps left is still there when the last one ends, for no process
\* and no request takes it back (migrate_database(), database.py:1461).
THEOREM Passing == Spec => PassedIsCurrent
<1>1. ASSUME IInv, [Next]_vars, NEW w \in Workers, At(w, "write"), worker'[w].pc = "connect"
      PROVE  Current(file'[Db(w)])
  <2>1. worker[w].pc = "write" /\ worker[w] \in Process /\ [worker[w] EXCEPT !.lost = TRUE].pc = worker[w].pc
    BY <1>1 DEF At, IInv, TypeOK, Process
  <2>2. CASE \E v \in Workers : StartupNext(v)
    <3>1. PICK v \in Workers : StartupNext(v)
      BY <2>2
    <3>2. CASE v = w
      BY <1>1, <3>1, <3>2, LastStep DEF IInv
    <3>3. CASE v # w /\ Move(v) /\ Taken(v)
      <4> DEFINE U == Unlinked(Db(v))
      <4>1. worker'[w] = Unlinked(Db(v))[w]
        <5>1. Db(v) \in Databases
          BY <1>1, WhereItIs DEF IInv
        <5>2. U \in [Workers -> Process]
          BY <1>1, <5>1, Unlinks DEF IInv
        <5>3. worker' = [U EXCEPT ![v].pc = "moves", ![v].db = DEFAULT_DB]
          BY <3>3 DEF Move, Taken
        <5> HIDE DEF U
        <5>4. worker'[w] = U[w]
          BY <3>3, <5>2, <5>3
        <5> QED
          BY <5>4 DEF U
      <4> QED
        BY <1>1, <2>1, <4>1 DEF Unlinked
    <3>4. CASE v # w /\ ~(Move(v) /\ Taken(v))
      <4>1. Turns(v)
        BY <1>1, <3>1, <3>4, StartupTurns DEF IInv
      <4>2. PICK p : worker' = [worker EXCEPT ![v] = p]
        BY <4>1 DEF Turns
      <4> QED
        BY <1>1, <2>1, <3>4, <4>2 DEF IInv, TypeOK
    <3> QED
      BY <3>2, <3>3, <3>4
  <2>3. CASE ~\E v \in Workers : StartupNext(v)
    <3>1. worker' = worker \/ \E d : worker' = Unlinked(d)
      BY <1>1, <2>3, Requests
    <3> QED
      BY <1>1, <2>1, <3>1 DEF Unlinked
  <2> QED
    BY <2>2, <2>3
<1>2. IInv /\ [Next]_vars =>
        [\A w \in Workers : At(w, "write") /\ worker'[w].pc = "connect" => Current(file'[Db(w)])]_<<file, worker>>
  BY <1>1
<1> QED
  BY Inductive, <1>2, PTL DEF Spec, PassedIsCurrent


\* The picker, when it writes over the users it has looked at, leaves one of
\* the active admins of a database that has any ("never let the last active
\* admin lose admin/active status", server.py:5540).
LEMMA AdminStays ==
    ASSUME NEW f, Sound(f), NEW r, r \in Asking, r.ask \in Ask, Proper(r), r.pc = "save", r.users = f.users,
           Admins(f.users) # {}
    PROVE  Admins(Saved(f, r).users) # {}
<1> DEFINE a == r.ask
<1> DEFINE u == a.uid
<1> DEFINE g == Saved(f, r)
<1>1. f \in File /\ f.users \in [Uids -> Accounts] /\ u \in Uids /\ a.user \in User
  BY DEF Sound, File, Ask
<1>2. PICK x \in Admins(f.users) : TRUE
  OBVIOUS
<1>3. x \in Uids /\ f.users[x] \in User /\ f.users[x].active /\ f.users[x].role = "admin"
  BY <1>1, <1>2 DEF Admins, Active, Is, Accounts
<1>4. \A U : \A y \in Uids : U[y] \in User /\ U[y].active /\ U[y].role = "admin" => Admins(U) # {}
  BY UserAssumption DEF Admins, Active, Is
<1>5. a.kind \in {"add_user", "edit_user", "delete_user", "profile"}
  BY DEF Proper
<1> HIDE DEF g
<1>6. CASE g.users = f.users
  BY <1>3, <1>4, <1>6 DEF g
<1>7. CASE a.kind = "add_user"
  <2>1. g = Inserted(f, a.user)
    BY <1>7 DEF Saved, g
  <2>2. g.users = f.users \/ \E id \in Uids : f.users[id] = NoUser /\ g.users = [f.users EXCEPT ![id] = a.user]
    BY <1>1, <2>1, Inserting
  <2>3. ASSUME NEW id \in Uids, f.users[id] = NoUser, g.users = [f.users EXCEPT ![id] = a.user] PROVE g.users[x] = f.users[x]
    BY <1>1, <1>3, <2>3, UserAssumption
  <2> QED
    BY <1>3, <1>4, <1>6, <2>2, <2>3 DEF g
<1>8. CASE a.kind = "edit_user" /\ g.users # f.users
  <2>1. g = Updated(f, u, a.user)
    BY <1>8 DEF Saved, g
  <2>2. PICK row \in User : row.role = a.user.role /\ row.active = a.user.active /\ g.users = [f.users EXCEPT ![u] = row]
    <3>1. u \in Uids /\ a.user \in User
      BY <1>1
    <3> HIDE DEF a, u
    <3>2. Edited(f.users, u, a.user, Updated(f, u, a.user).users)
      BY <3>1, Updating
    <3> QED
      BY <1>8, <2>1, <3>2 DEF Edited
  <2>3. CASE x # u
    BY <1>1, <1>3, <1>4, <2>2, <2>3 DEF g
  <2>4. CASE x = u /\ a.user.role = "admin" /\ a.user.active
    <3>1. g.users[u] = row
      BY <1>1, <2>2
    <3>2. g.users[u] \in User /\ g.users[u].active /\ g.users[u].role = "admin"
      BY <2>2, <2>4, <3>1
    <3> QED
      BY <1>1, <1>4, <3>2 DEF g
  <2>5. CASE x = u /\ ~(a.user.role = "admin" /\ a.user.active)
    <3>1. Admins(f.users) \ {u} # {}
      BY <1>3, <1>8, <2>5 DEF Proper, Spares
    <3>2. PICK y \in Admins(f.users) : y # u
      BY <3>1
    <3>3. y \in Uids /\ f.users[y] \in User /\ f.users[y].active /\ f.users[y].role = "admin"
      BY <1>1, <3>2 DEF Admins, Active, Is, Accounts
    <3> QED
      BY <1>1, <1>4, <2>2, <3>2, <3>3 DEF g
  <2> QED
    BY <2>3, <2>4, <2>5
<1>9. CASE a.kind = "delete_user" /\ g.users # f.users
  <2>1. g = [f EXCEPT !.users[u] = Gone]
    BY <1>8, <1>9 DEF Saved, g
  <2>2. g.users = [f.users EXCEPT ![u] = Gone]
    BY <1>1, <2>1, Deleting
  <2>3. CASE x # u
    BY <1>1, <1>3, <1>4, <2>2, <2>3 DEF g
  <2>4. CASE x = u
    <3>1. Admins(f.users) \ {u} # {}
      BY <1>3, <1>9, <2>4 DEF Proper, Spares
    <3>2. PICK y \in Admins(f.users) : y # u
      BY <3>1
    <3>3. y \in Uids /\ f.users[y] \in User /\ f.users[y].active /\ f.users[y].role = "admin"
      BY <1>1, <3>2 DEF Admins, Active, Is, Accounts
    <3> QED
      BY <1>1, <1>4, <2>2, <3>2, <3>3 DEF g
  <2> QED
    BY <2>3, <2>4
<1>10. CASE a.kind = "profile"
  <2>1. g = [f EXCEPT !.profile = Merged(r.seen, a)]
    BY <1>10 DEF Saved, g
  <2>2. g.users = f.users
    BY <1>1, <2>1 DEF File
  <2> QED
    BY <1>6, <2>2
<1> QED
  BY <1>5, <1>6, <1>7, <1>8, <1>9, <1>10 DEF g

\* The picker leaves an active admin in every database it changes users of,
\* unless they were changed since it looked (update_db_user(),
\* delete_db_user(), server.py:5536-5574).
THEOREM Heading == Spec => PickerKeepsAnAdmin
<1>1. ASSUME IInv, [Next]_vars, NEW b \in Browsers, req[b].pc = "save", req[b].users = file[req[b].ask.db].users,
             req'[b].pc = "idle", Admins(file[req[b].ask.db].users) # {}
      PROVE  Admins(file'[req[b].ask.db].users) # {}
  <2> DEFINE d == req[b].ask.db
  <2> DEFINE f == file[d]
  <2>1. /\ req[b] \in Asking /\ req[b].ask \in Ask /\ d \in Databases /\ Sound(f) /\ Proper(req[b])
        /\ [req[b] EXCEPT !.lost = TRUE].pc = "save"
    <3>1. ~Waits(b, "idle")
      BY <1>1 DEF Waits
    <3>2. req[b] \in Asking /\ req[b].ask \in Ask /\ d \in Databases
      BY <1>1, <3>1, AskedAre DEF IInv
    <3>3. Sound(f)
      BY <1>1, <3>2, FilesAre DEF IInv
    <3>4. Proper(req[b])
      BY <1>1, Propriety
    <3> QED
      BY <1>1, <3>2, <3>3, <3>4 DEF Asking
  <2>2. Written(b) = d
    BY <1>1 DEF IInv, Vetted, Written, Own
  <2>3. CASE file' = file
    BY <1>1, <2>3
  <2>4. CASE SavePicker(b) /\ file' # file
    <3>1. Put(b, Saved(f, req[b]))
      BY <2>2, <2>4 DEF SavePicker, Saved
    <3>2. file'[d] = Saved(f, req[b])
      BY <1>1, <2>1, <2>2, <2>4, <3>1 DEF Put, IInv, TypeOK
    <3>3. Admins(Saved(f, req[b]).users) # {}
      BY <1>1, <2>1, AdminStays
    <3> QED
      BY <3>2, <3>3
  <2>5. CASE ~SavePicker(b) /\ file' # file
    <3>1. req'[b] # req[b] /\ req'[b] # [req[b] EXCEPT !.lost = TRUE] /\ req[b] # Idle
      BY <1>1, <2>1, Idles
    <3>2. ASSUME NEW c \in Browsers, NEW r, To(c, r), c # b PROVE FALSE
      BY <3>1, <3>2 DEF To, IInv, TypeOK
    <3>3. ASSUME NEW w \in Workers, StartupNext(w), UNCHANGED <<session, req>> PROVE FALSE
      BY <3>1, <3>3
    <3>4. ASSUME NEW c \in Browsers, Delete(c) PROVE FALSE
      BY <1>1, <3>1, <3>4 DEF Delete, Does, Waits
    <3>5. ASSUME NEW c \in Browsers,
                 \/ \E right \in BOOLEAN : SignIn(c, right)
                 \/ \E ask \in Asks : Request(c, ask)
                 \/ \E x \in Cells : Write(c, x)
                 \/ SignOut(c) \/ OpenDb(c) \/ Switch(c) \/ OwnUser(c) \/ ReadPicker(c) \/ SavePicker(c)
                 \/ ReadCreate(c) \/ InitOne(c) \/ SeedOne(c) \/ Abort(c)
          PROVE  FALSE
      <4>1. CASE c = b
        BY <1>1, <2>5, <3>1, <3>5, <4>1 DEF SignIn, Request, Write, SignOut, OpenDb, Switch, OwnUser, ReadPicker,
           ReadCreate, InitOne, SeedOne, Abort, Does, Waits
      <4>2. CASE c # b
        BY <3>1, <3>2, <3>5, <4>2 DEF SignIn, Request, Write, SignOut, OpenDb, Switch, OwnUser, ReadPicker, SavePicker,
           ReadCreate, InitOne, SeedOne, Abort, End
      <4> QED
        BY <4>1, <4>2
    <3>6. Next
      BY <1>1, <2>5 DEF vars
    <3> QED
      BY <3>3, <3>4, <3>5, <3>6 DEF Next
  <2> QED
    BY <2>3, <2>4, <2>5
<1>2. IInv /\ [Next]_vars =>
        [\A b \in Browsers :
           LET d == req[b].ask.db IN
           /\ req[b].pc = "save" /\ req[b].users = file[d].users /\ req'[b].pc = "idle"
           /\ file[d].there /\ Admins(file[d].users) # {}
           => Admins(file'[d].users) # {}]_vars
  BY <1>1
<1> QED
  BY Inductive, <1>2, PTL DEF Spec, PickerKeepsAnAdmin

-----------------------------------------------------------------------------
(* The cash forecast: numbers.                                             *)

LEMMA Times ==
  ASSUME NEW a \in Int, NEW b \in Int, NEW c \in Nat, a <= b
  PROVE  a * c <= b * c /\ c * a <= c * b
OBVIOUS

LEMMA Quotient ==
  ASSUME NEW a \in Int, NEW b \in Nat \ {0}
  PROVE  a \div b \in Int /\ (a \div b) * b <= a /\ a < ((a \div b) + 1) * b
OBVIOUS

LEMMA QuotientIs ==
  ASSUME NEW a \in Int, NEW b \in Nat \ {0}, NEW q \in Int, q * b <= a
  PROVE  q <= a \div b
<1>1. a \div b \in Int /\ a < ((a \div b) + 1) * b
  BY Quotient
<1>2. SUFFICES ASSUME a \div b + 1 <= q PROVE FALSE
  BY <1>1
<1>3. ((a \div b) + 1) * b <= q * b
  BY <1>1, <1>2, Times
<1>. QED BY <1>1, <1>3

LEMMA QuotientBelow ==
  ASSUME NEW a \in Int, NEW b \in Nat \ {0}, NEW q \in Int, a < (q + 1) * b
  PROVE  a \div b <= q
<1>1. a \div b \in Int /\ (a \div b) * b <= a
  BY Quotient
<1>2. SUFFICES ASSUME q + 1 <= a \div b PROVE FALSE
  BY <1>1
<1>3. (q + 1) * b <= (a \div b) * b
  BY <1>1, <1>2, Times
<1>. QED BY <1>1, <1>3

LEMMA QuotientMonotone ==
  ASSUME NEW a \in Int, NEW c \in Int, NEW b \in Nat \ {0}, a <= c
  PROVE  a \div b <= c \div b
<1>1. a \div b \in Int /\ (a \div b) * b <= a
  BY Quotient
<1>. QED BY <1>1, QuotientIs

LEMMA MinIs ==
  ASSUME NEW S \in SUBSET Int, IsFiniteSet(S), S # {}
  PROVE  Min(S) \in S /\ \A x \in S : Min(S) <= x
BY LeastOf DEF Min

\* A share of nothing is nothing, and a larger share of more is more.
LEMMA ShareInt ==
  ASSUME NEW a \in Int, NEW n \in Int, NEW d \in Nat \ {0}
  PROVE  Share(a, n, d) \in Int
BY Quotient DEF Share

LEMMA ShareNat ==
  ASSUME NEW a \in Nat, NEW n \in Nat, NEW d \in Nat \ {0}
  PROVE  Share(a, n, d) \in Nat
<1>1. a * n \in Nat
  OBVIOUS
<1>2. 2 * a * n = 2 * (a * n)
  OBVIOUS
<1>3. 2 * a * n + d \in Int /\ 0 * (2 * d) <= 2 * a * n + d /\ 2 * d \in Nat \ {0}
  BY <1>1, <1>2
<1>4. 0 <= (2 * a * n + d) \div (2 * d)
  BY <1>3, QuotientIs
<1>. QED BY <1>3, <1>4, Quotient DEF Share

LEMMA ShareMonotone ==
  ASSUME NEW a \in Nat, NEW n \in Nat, NEW b \in Nat, NEW m \in Nat, NEW d \in Nat \ {0}, a <= b, n <= m
  PROVE  Share(a, n, d) <= Share(b, m, d)
<1>1. a * n <= b * n /\ b * n <= b * m
  BY Times
<1>2. a * n \in Int /\ b * m \in Int /\ b * n \in Int
  OBVIOUS
<1>3. 2 * a * n = 2 * (a * n) /\ 2 * b * m = 2 * (b * m)
  OBVIOUS
<1>4. /\ 2 * a * n + d \in Int /\ 2 * b * m + d \in Int /\ 2 * d \in Nat \ {0}
      /\ 2 * a * n + d <= 2 * b * m + d
  BY <1>1, <1>2, <1>3
<1>. QED BY <1>4, QuotientMonotone DEF Share

-----------------------------------------------------------------------------
(* The calendar.                                                           *)

LEMMA Calendar ==
  /\ Len(MonthStart) \in Nat /\ Months \subseteq 1..Len(MonthStart)
  /\ \A m \in Months : m + 1 \in 1..Len(MonthStart)
  /\ \A m \in 1..Len(MonthStart) : MonthStart[m] \in Int
  /\ \A m, n \in 1..Len(MonthStart) : m < n => MonthStart[m] < MonthStart[n]
  /\ \A m, n \in 1..Len(MonthStart) : m <= n => MonthStart[m] <= MonthStart[n]
  /\ start \in Int /\ end \in Int /\ start <= end
  /\ \A m \in Months : start <= MonthStart[m] /\ MonthStart[m + 1] <= end + 1
<1>. USE CalendarAssumption DEF Months
<1>1. Len(MonthStart) \in Nat /\ \A m \in 1..Len(MonthStart) : MonthStart[m] \in Int
  OBVIOUS
<1>2. (WEEKS_IN_MONTH - 1) * WeekLen \in Nat
  OBVIOUS
<1>3. \A m, n \in 1..Len(MonthStart) : m < n => MonthStart[m] < MonthStart[n]
  <2>. SUFFICES ASSUME NEW m \in 1..Len(MonthStart), NEW n \in 1..Len(MonthStart), m < n
                PROVE  MonthStart[m] < MonthStart[n]
    OBVIOUS
  <2>1. MonthStart[m] + (WEEKS_IN_MONTH - 1) * WeekLen < MonthStart[n]
    OBVIOUS
  <2>2. MonthStart[m] \in Int /\ MonthStart[n] \in Int
    OBVIOUS
  <2>. QED BY ONLY <1>2, <2>1, <2>2
<1>4. \A m, n \in 1..Len(MonthStart) : m <= n => MonthStart[m] <= MonthStart[n]
  <2>. SUFFICES ASSUME NEW m \in 1..Len(MonthStart), NEW n \in 1..Len(MonthStart), m <= n
                PROVE  MonthStart[m] <= MonthStart[n]
    OBVIOUS
  <2>1. MonthStart[m] \in Int /\ MonthStart[n] \in Int /\ (m < n \/ m = n)
    OBVIOUS
  <2>. QED BY <1>3, <2>1
<1>5. 1 \in 1..Len(MonthStart) /\ Len(MonthStart) \in 1..Len(MonthStart) /\ 1 < Len(MonthStart)
  BY <1>1
<1>6. start \in Int /\ end \in Int /\ start <= end
  <2>1. MonthStart[1] < MonthStart[Len(MonthStart)] /\ MonthStart[1] \in Int /\ MonthStart[Len(MonthStart)] \in Int
    BY <1>1, <1>3, <1>5
  <2>. QED BY ONLY <2>1 DEF start, end
<1>7. ASSUME NEW m \in Months
      PROVE  m \in 1..Len(MonthStart) /\ m + 1 \in 1..Len(MonthStart) /\ start <= MonthStart[m] /\ MonthStart[m + 1] <= end + 1
  <2>1. m \in Nat /\ 1 <= m /\ m + 1 <= Len(MonthStart)
    BY ONLY <1>1, <1>7 DEF Months
  <2>2. m \in 1..Len(MonthStart) /\ m + 1 \in 1..Len(MonthStart)
    BY ONLY <1>1, <2>1
  <2>3. MonthStart[1] <= MonthStart[m] /\ MonthStart[m + 1] <= MonthStart[Len(MonthStart)]
    BY <1>4, <1>5, <2>1, <2>2
  <2>4. MonthStart[m + 1] \in Int /\ MonthStart[Len(MonthStart)] \in Int
    BY <1>1, <1>5, <2>2
  <2>. QED BY ONLY <2>2, <2>3, <2>4 DEF start, end
<1>. QED BY ONLY <1>1, <1>3, <1>4, <1>6, <1>7

\* Every day of the year has its month, and only one.
LEMMA MonthOfDay ==
  ASSUME NEW d \in Year
  PROVE  \E m \in Months : /\ MonthStart[m] <= d /\ d < MonthStart[m + 1]
                           /\ \A n \in Months : MonthStart[n] <= d /\ d < MonthStart[n + 1] => n = m
<1>. USE Calendar
<1>. DEFINE S == {m \in Months : MonthStart[m] <= d}
            f == [m \in S |-> m]
<1>0. d \in Int /\ start <= d /\ d <= end
  BY DEF Year
<1>1. IsFiniteSet(S) /\ S # {} /\ \A m \in S : f[m] \in Int
  <2>1. IsFiniteSet(Months)
    BY FS_Interval DEF Months
  <2>2. 1 \in S
    BY <1>0, CalendarAssumption DEF Months, start
  <2>. QED BY <2>1, <2>2, FS_Subset
<1>2. PICK m \in S : \A n \in S : f[n] <= f[m]
  <2>. HIDE DEF S, f
  <2>. QED BY <1>1, Greatest
<1>3. \A n \in S : n <= m
  BY <1>2
<1>4. d < MonthStart[m + 1]
  <2>1. CASE m + 1 \in Months
    <3>1. m + 1 \notin S
      <4>1. ~(m + 1 <= m)
        OBVIOUS
      <4>. QED BY <1>3, <4>1
    <3>. QED BY <1>0, <2>1, <3>1
  <2>2. CASE m + 1 \notin Months
    <3>1. m + 1 = Len(MonthStart)
      BY <2>2 DEF Months
    <3>2. MonthStart[m + 1] = end + 1
      BY <3>1 DEF end
    <3>. QED BY <1>0, <3>2
  <2>. QED BY <2>1, <2>2
<1>5. ASSUME NEW n \in Months, MonthStart[n] <= d, d < MonthStart[n + 1]
      PROVE  n = m
  <2>1. n <= m
    BY <1>3, <1>5
  <2>2. SUFFICES ASSUME n + 1 <= m PROVE FALSE
    BY <2>1 DEF Months
  <2>3. MonthStart[n + 1] <= MonthStart[m] /\ MonthStart[n + 1] \in Int /\ MonthStart[m] \in Int /\ MonthStart[m] <= d
    BY <2>2
  <2>. QED BY <1>0, <1>5, <2>3
<1>. QED BY <1>4, <1>5

\* A week ends where the next begins, and the last with its month.
LEMMA WeekBounds ==
  ASSUME NEW m \in Months, NEW w \in Weeks
  PROVE  /\ WeekStart(m, w) \in Int /\ WeekEnd(m, w) \in Int
         /\ MonthStart[m] <= WeekStart(m, w) /\ WeekStart(m, w) <= WeekEnd(m, w) /\ WeekEnd(m, w) < MonthStart[m + 1]
         /\ start <= WeekStart(m, w) /\ WeekEnd(m, w) <= end
         /\ w # WEEKS_IN_MONTH => WeekEnd(m, w) = WeekStart(m, w) + WeekLen - 1
         /\ w = WEEKS_IN_MONTH => WeekEnd(m, w) = MonthStart[m + 1] - 1
<1>. USE Calendar, CalendarAssumption
<1>. DEFINE a == (w - 1) * WeekLen
            b == (WEEKS_IN_MONTH - 1) * WeekLen
            c == w * WeekLen
<1>1. w \in Nat /\ WEEKS_IN_MONTH \in Nat /\ 1 <= w /\ w <= WEEKS_IN_MONTH /\ WeekLen \in Nat \ {0}
  BY DEF Weeks
<1>2. a \in Nat /\ b \in Nat /\ c \in Nat /\ c = a + WeekLen /\ a <= b
  <2>1. w - 1 \in Nat /\ WEEKS_IN_MONTH - 1 \in Nat /\ w - 1 <= WEEKS_IN_MONTH - 1
    BY <1>1
  <2>2. a <= b
    BY <1>1, <2>1, Times
  <2>3. c = a + WeekLen
    BY <1>1
  <2>. QED BY <1>1, <2>1, <2>2, <2>3
<1>3. w # WEEKS_IN_MONTH => c <= b
  <2>1. w # WEEKS_IN_MONTH => w <= WEEKS_IN_MONTH - 1
    BY <1>1
  <2>. QED BY <1>1, <2>1, Times
<1>4. MonthStart[m] \in Int /\ MonthStart[m + 1] \in Int /\ MonthStart[m] + b < MonthStart[m + 1]
  <2>1. m \in 1..Len(MonthStart) /\ m + 1 \in 1..Len(MonthStart) /\ m < m + 1
    BY DEF Months
  <2>. QED BY <2>1
<1>5. start <= MonthStart[m] /\ MonthStart[m + 1] <= end + 1 /\ start \in Int /\ end \in Int
  OBVIOUS
<1>6. WeekStart(m, w) = MonthStart[m] + a
  BY DEF WeekStart
<1>7. w = WEEKS_IN_MONTH => a = b /\ WeekEnd(m, w) = MonthStart[m + 1] - 1
  BY DEF WeekEnd
<1>8. w # WEEKS_IN_MONTH => WeekEnd(m, w) = MonthStart[m] + a + WeekLen - 1
  <2>1. w # WEEKS_IN_MONTH =>
          WeekEnd(m, w) = SmallerOf(MonthStart[m] + a + WeekLen - 1, MonthStart[m + 1] - 1)
    BY DEF WeekEnd, WeekStart
  <2>. HIDE DEF a, b, c
  <2>. QED BY ONLY <1>1, <1>2, <1>3, <1>4, <2>1 DEF SmallerOf
<1>. HIDE DEF a, b, c
<1>9. WeekStart(m, w) \in Int /\ MonthStart[m] <= WeekStart(m, w)
  BY ONLY <1>2, <1>4, <1>6
<1>10. CASE w = WEEKS_IN_MONTH
  BY ONLY <1>1, <1>2, <1>4, <1>5, <1>6, <1>7, <1>9, <1>10
<1>11. CASE w # WEEKS_IN_MONTH
  BY ONLY <1>1, <1>2, <1>3, <1>4, <1>5, <1>6, <1>8, <1>9, <1>11
<1>. QED BY ONLY <1>10, <1>11

\* The week of a day is the week the day lies in.
LEMMA WeekOfDay ==
  ASSUME NEW d \in Year
  PROVE  /\ week_of_date(d) \in Months \X Weeks
         /\ d \in week_dates(week_of_date(d)[1], week_of_date(d)[2])
         /\ \A mw \in Months \X Weeks : d \in week_dates(mw[1], mw[2]) => week_of_date(d) = mw
<1>. USE Calendar, CalendarAssumption
<1>1. PICK m \in Months : /\ MonthStart[m] <= d /\ d < MonthStart[m + 1]
                          /\ \A n \in Months : MonthStart[n] <= d /\ d < MonthStart[n + 1] => n = m
  BY MonthOfDay
<1>. DEFINE r == d - MonthStart[m]
            q == r \div WeekLen
            w == SmallerOf(WEEKS_IN_MONTH, q + 1)
<1>2. d \in Int /\ r \in Nat /\ MonthStart[m] \in Int /\ WeekLen \in Nat \ {0} /\ WEEKS_IN_MONTH \in Nat \ {0}
  <2>1. d \in Int /\ MonthStart[m] \in Int
    BY DEF Year
  <2>. QED BY ONLY <1>1, <2>1, CalendarAssumption
<1>3. q \in Int /\ q * WeekLen <= r /\ r < (q + 1) * WeekLen /\ 0 <= q
  <2>1. 0 * WeekLen <= r
    BY <1>2
  <2>. HIDE DEF r
  <2>. QED BY ONLY <1>2, <2>1, Quotient, QuotientIs
<1>4. week_of_date(d) = <<m, w>>
  BY <1>1 DEF week_of_date
<1>5. w \in Weeks
  <2>. HIDE DEF q
  <2>. QED BY ONLY <1>2, <1>3 DEF SmallerOf, Weeks
<1>6. d \in week_dates(m, w)
  <2>1. (w - 1) * WeekLen <= r
    <3>1. w - 1 <= q /\ w - 1 \in Int
      <4>. HIDE DEF q
      <4>. QED BY ONLY <1>2, <1>3 DEF SmallerOf, w
    <3>. HIDE DEF q, w, r
    <3>2. (w - 1) * WeekLen <= q * WeekLen /\ (w - 1) * WeekLen \in Int /\ q * WeekLen \in Int
      BY ONLY <1>2, <1>3, <3>1, Times
    <3>. QED BY ONLY <1>2, <1>3, <3>2
  <2>2. WeekStart(m, w) <= d
    <3>1. (w - 1) * WeekLen \in Int
      BY <1>5 DEF Weeks
    <3>2. r = d - MonthStart[m]
      OBVIOUS
    <3>. HIDE DEF w, r
    <3>. QED BY ONLY <1>2, <2>1, <3>1, <3>2 DEF WeekStart
  <2>3. w # WEEKS_IN_MONTH => d <= WeekEnd(m, w)
    <3>. SUFFICES ASSUME w # WEEKS_IN_MONTH PROVE d <= WeekEnd(m, w)
      OBVIOUS
    <3>1. w = q + 1
      BY <1>3 DEF SmallerOf
    <3>2. WeekEnd(m, w) = MonthStart[m] + (w - 1) * WeekLen + WeekLen - 1
      BY <1>5, WeekBounds DEF WeekStart
    <3>3. (q + 1) * WeekLen = q * WeekLen + WeekLen /\ q * WeekLen \in Int
      <4>. HIDE DEF q
      <4>. QED BY <1>3
    <3>4. w - 1 = q
      BY <1>3, <3>1
    <3>5. r = d - MonthStart[m]
      OBVIOUS
    <3>. HIDE DEF q, w, r
    <3>. QED BY ONLY <1>2, <1>3, <3>2, <3>3, <3>4, <3>5
  <2>4. w = WEEKS_IN_MONTH => d <= WeekEnd(m, w)
    <3>1. w = WEEKS_IN_MONTH => WeekEnd(m, w) = MonthStart[m + 1] - 1
      BY <1>5, WeekBounds
    <3>2. MonthStart[m + 1] \in Int
      OBVIOUS
    <3>. HIDE DEF w
    <3>. QED BY ONLY <1>1, <1>2, <3>1, <3>2
  <2>5. WeekStart(m, w) \in Int /\ WeekEnd(m, w) \in Int
    BY <1>5, WeekBounds
  <2>. QED BY <1>2, <2>2, <2>3, <2>4, <2>5 DEF week_dates
<1>7. ASSUME NEW n \in Months, NEW v \in Weeks, d \in week_dates(n, v)
      PROVE  n = m /\ v = w
  <2>1. /\ WeekStart(n, v) \in Int /\ WeekEnd(n, v) \in Int /\ WeekStart(n, v) <= d /\ d <= WeekEnd(n, v)
        /\ MonthStart[n] <= WeekStart(n, v) /\ WeekEnd(n, v) < MonthStart[n + 1]
        /\ v # WEEKS_IN_MONTH => WeekEnd(n, v) = WeekStart(n, v) + WeekLen - 1
    BY <1>2, <1>7, WeekBounds DEF week_dates
  <2>2. n = m
    <3>1. MonthStart[n] \in Int /\ MonthStart[n + 1] \in Int
      OBVIOUS
    <3>2. MonthStart[n] <= d /\ d < MonthStart[n + 1]
      BY ONLY <1>2, <2>1, <3>1
    <3>. QED BY <1>1, <3>2
  <2>3. v \in Nat /\ 1 <= v /\ v <= WEEKS_IN_MONTH /\ (v - 1) * WeekLen \in Int
    BY DEF Weeks
  <2>3a. v - 1 \in Int /\ r \in Int
    <3>1. v - 1 \in Int
      BY ONLY <2>3
    <3>2. r \in Int
      BY ONLY <1>2
    <3>. QED BY <3>1, <3>2
  <2>4. WeekStart(n, v) = MonthStart[m] + (v - 1) * WeekLen
    BY <2>2 DEF WeekStart
  <2>. DEFINE t == (v - 1) * WeekLen
              s == MonthStart[m]
  <2>. HIDE DEF t, s
  <2>4a. t \in Int /\ s \in Int /\ WeekStart(n, v) = s + t /\ r = d - s
    <3>1. t \in Int
      BY ONLY <2>3 DEF t
    <3>2. s \in Int /\ WeekStart(n, v) = s + t
      BY ONLY <1>2, <2>4 DEF s, t
    <3>3. r = d - s
      BY ONLY TRUE DEF s
    <3>. QED BY <3>1, <3>2, <3>3
  <2>4b. s + t <= d /\ d \in Int /\ r \in Int
    <3>1. WeekStart(n, v) <= d
      BY <2>1
    <3>. QED BY ONLY <1>2, <2>4a, <3>1
  <2>5. t <= r
    <3>. HIDE DEF r
    <3>. QED BY ONLY <2>4a, <2>4b
  <2>6. v - 1 <= q
    <3>2. (v - 1) * WeekLen <= r
      BY <2>5 DEF t
    <3>. HIDE DEF r
    <3>. QED BY <2>3a, <3>2, QuotientIs
  <2>7. v # WEEKS_IN_MONTH => q <= v - 1
    <3>0. SUFFICES ASSUME v # WEEKS_IN_MONTH PROVE q <= v - 1
      OBVIOUS
    <3>1. ((v - 1) + 1) * WeekLen = t + WeekLen
      BY <2>3 DEF t
    <3>2. r < t + WeekLen
      <4>1. WeekLen \in Int
        BY CalendarAssumption
      <4>2. WeekEnd(n, v) = s + t + WeekLen - 1
        BY <2>1, <2>4a, <3>0
      <4>3. d <= s + t + WeekLen - 1
        BY <2>1, <4>2
      <4>. HIDE DEF r
      <4>. QED BY ONLY <2>4a, <2>4b, <4>1, <4>3
    <3>. HIDE DEF r
    <3>. QED BY <2>3a, <3>1, <3>2, QuotientBelow
  <2>8. w = SmallerOf(WEEKS_IN_MONTH, q + 1)
    OBVIOUS
  <2>. HIDE DEF w, q
  <2>. QED BY <1>3, <2>2, <2>3, <2>6, <2>7, <2>8 DEF SmallerOf
<1>8. ASSUME NEW mw \in Months \X Weeks, d \in week_dates(mw[1], mw[2]) PROVE week_of_date(d) = mw
  <2>1. mw[1] = m /\ mw[2] = w
    <3>. HIDE DEF w
    <3>. QED BY <1>7, <1>8
  <2>. QED BY <1>4, <2>1
<1>. HIDE DEF w
<1>. QED BY <1>4, <1>5, <1>6, <1>8

\* Whichever day of its week a movement is put on, the day tells the week.
LEMMA Settlement ==
  ASSUME NEW mw \in Months \X Weeks, NEW flow, NEW mode
  PROVE  LET d == settlement_date(mw[1], mw[2], flow, mode)
         IN  /\ d \in Year /\ week_of_date(d) = mw
             /\ WeekStart(mw[1], mw[2]) <= d /\ d <= WeekEnd(mw[1], mw[2])
<1>. DEFINE a == WeekStart(mw[1], mw[2])
            b == WeekEnd(mw[1], mw[2])
            h == (b - a) \div 2
            d == settlement_date(mw[1], mw[2], flow, mode)
<1>1. a \in Int /\ b \in Int /\ a <= b /\ start <= a /\ b <= end /\ start \in Int /\ end \in Int
  BY WeekBounds, Calendar
<1>2. h \in Int /\ 0 <= h /\ h <= b - a
  <2>. HIDE DEF a, b
  <2>. QED BY ONLY <1>1
<1>3. d = a + h \/ d = a \/ d = b
  BY DEF settlement_date
<1>4. d \in a..b /\ d \in Year
  <2>. HIDE DEF a, b, h, d
  <2>. QED BY ONLY <1>1, <1>2, <1>3 DEF Year
<1>5. week_of_date(d) = mw
  <2>1. d \in week_dates(mw[1], mw[2])
    <3>. HIDE DEF d
    <3>. QED BY <1>4 DEF week_dates
  <2>. HIDE DEF d
  <2>. QED BY <1>4, <2>1, WeekOfDay
<1>. HIDE DEF d
<1>. QED BY <1>1, <1>4, <1>5 DEF d

LEMMA YearIs ==
  /\ Year \subseteq Int /\ IsFiniteSet(Year) /\ Year # {} /\ start \in Year /\ end \in Year
  /\ \A d \in Year : start <= d /\ d <= end
<1>1. start \in Int /\ end \in Int /\ start <= end
  BY Calendar
<1>2. IsFiniteSet(Year)
  BY <1>1, FS_Interval DEF Year
<1>. QED BY ONLY <1>1, <1>2 DEF Year

\* There always is a week left, and a last one.
LEMMA Ahead ==
  /\ RemainingWeeks \subseteq Months \X Weeks /\ RemainingWeeks # {} /\ IsFiniteSet(RemainingWeeks)
  /\ Cardinality(RemainingWeeks) \in Nat \ {0}
  /\ \E mw \in RemainingWeeks : \A o \in RemainingWeeks : WeekStart(o[1], o[2]) <= WeekStart(mw[1], mw[2])
<1>1. RemainingWeeks \subseteq Months \X Weeks /\ RemainingWeeks # {}
  <2>1. Len(MonthStart) - 1 \in Months /\ WEEKS_IN_MONTH \in Weeks
    BY CalendarAssumption, Calendar DEF Months, Weeks
  <2>. DEFINE ahead == {mw \in Months \X Weeks : WeekEnd(mw[1], mw[2]) >= Today}
  <2>2. RemainingWeeks = IF ahead = {} THEN {<<Len(MonthStart) - 1, WEEKS_IN_MONTH>>} ELSE ahead
    BY DEF RemainingWeeks
  <2>3. ahead \subseteq Months \X Weeks
    OBVIOUS
  <2>. HIDE DEF ahead
  <2>4. <<Len(MonthStart) - 1, WEEKS_IN_MONTH>> \in Months \X Weeks
    BY ONLY <2>1
  <2>5. CASE ahead = {}
    BY ONLY <2>2, <2>4, <2>5
  <2>6. CASE ahead # {}
    BY ONLY <2>2, <2>3, <2>6
  <2>. QED BY ONLY <2>5, <2>6
<1>2. IsFiniteSet(RemainingWeeks)
  <2>1. IsFiniteSet(Months) /\ IsFiniteSet(Weeks)
    BY FS_Interval, CalendarAssumption, Calendar DEF Months, Weeks
  <2>2. IsFiniteSet(Months \X Weeks)
    BY <2>1, FS_Product
  <2>. QED BY <1>1, <2>2, FS_Subset
<1>3. Cardinality(RemainingWeeks) \in Nat \ {0}
  BY <1>1, <1>2, FS_CardinalityType, FS_EmptySet
<1>4. \E mw \in RemainingWeeks : \A o \in RemainingWeeks : WeekStart(o[1], o[2]) <= WeekStart(mw[1], mw[2])
  <2>. DEFINE f == [mw \in RemainingWeeks |-> WeekStart(mw[1], mw[2])]
  <2>1. \A mw \in RemainingWeeks : f[mw] \in Int
    BY <1>1, WeekBounds
  <2>2. PICK mw \in RemainingWeeks : \A o \in RemainingWeeks : f[o] <= f[mw]
    <3>. HIDE DEF f
    <3>. QED BY <1>1, <1>2, <2>1, Greatest
  <2>. QED BY <2>2
<1>. QED BY <1>1, <1>2, <1>3, <1>4

-----------------------------------------------------------------------------
(* What is in the tables.                                                  *)

TablesOK ==
    /\ budget \in SUBSET Cell /\ IsFiniteSet(budget)
    /\ plan \in SUBSET PlanCell /\ IsFiniteSet(plan)
    /\ receivables \in SUBSET Invoice /\ IsFiniteSet(receivables)
    /\ payables \in SUBSET Invoice /\ IsFiniteSet(payables)
    /\ commitments \in SUBSET Commitment /\ IsFiniteSet(commitments)
    /\ out \in [Investments -> Nat]
    /\ policy \in Policy

LEMMA PlannedIsPlanCell ==
  ASSUME NEW r \in Cell
  PROVE  Planned(r, Flow(r.type)) \in PlanCell
BY ZenonT(40) DEF Cell, PlanCell, Planned, Flow

LEMMA EditedIsInvoice ==
  ASSUME NEW r \in Invoice, NEW f \in Invoice
  PROVE  [f EXCEPT !.company = r.company, !.date = r.date] \in Invoice /\ [f EXCEPT !.company = r.company] \in Invoice
BY DEF Invoice

LEMMA InitTables == ForecastInit => TablesOK
<1>. SUFFICES ASSUME ForecastInit PROVE TablesOK
  OBVIOUS
<1>1. receivables \in SUBSET Invoice /\ IsFiniteSet(receivables)
  <2>1. receivables = {} \/ \E r \in Collected : receivables = {r}
    BY DEF ForecastInit
  <2>2. Collected \subseteq Invoice
    BY FormAssumption
  <2>. QED BY ONLY <2>1, <2>2, FS_EmptySet, FS_Singleton
<1>. QED BY <1>1, FormAssumption, FS_EmptySet DEF ForecastInit, TablesOK

LEMMA NextTables == ASSUME TablesOK, [ForecastNext]_forecastVars PROVE TablesOK'
<1>. USE FormAssumption DEF TablesOK
<1>1. ASSUME NEW r \in BudgetForms, SaveBudget(r) PROVE TablesOK'
  <2>1. budget' \subseteq budget \cup {r} /\ r \in Cell
    BY <1>1 DEF SaveBudget, Upserted
  <2>2. IsFiniteSet(budget') /\ budget' \in SUBSET Cell
    BY <2>1, FS_AddElement, FS_Subset
  <2>. QED BY <1>1, <2>2 DEF SaveBudget
<1>2. ASSUME NEW r \in PlanForms, SavePlan(r) PROVE TablesOK'
  <2>1. plan' \subseteq plan \cup {r} /\ r \in PlanCell
    BY <1>2 DEF SavePlan
  <2>2. IsFiniteSet(plan') /\ plan' \in SUBSET PlanCell
    BY <2>1, FS_AddElement, FS_Subset
  <2>. QED BY <1>2, <2>2 DEF SavePlan
<1>3. ASSUME SeedPlan PROVE TablesOK'
  <2>. DEFINE B == {b \in budget : b.type # "asset"}
              m == [r \in B |-> Planned(r, Flow(r.type))]
              seeded == {m[r] : r \in B}
  <2>1. seeded = {Planned(r, Flow(r.type)) : r \in B}
    OBVIOUS
  <2>2. plan' \subseteq plan \cup seeded
    BY <1>3, <2>1 DEF SeedPlan
  <2>3. seeded \subseteq PlanCell
    BY <2>1, PlannedIsPlanCell
  <2>4. IsFiniteSet(B)
    BY FS_Subset
  <2>5. IsFiniteSet(seeded)
    <3>. HIDE DEF B, m
    <3>. QED BY <2>4, ImageFinite
  <2>6. IsFiniteSet(plan') /\ plan' \in SUBSET PlanCell
    <3>. HIDE DEF seeded
    <3>. QED BY <2>2, <2>3, <2>5, FS_Union, FS_Subset
  <2>7. UNCHANGED <<budget, receivables, payables, commitments, out, policy>>
    BY <1>3 DEF SeedPlan
  <2>. QED BY <2>6, <2>7
<1>4. ASSUME NEW f \in ReceivableForms, CreateReceivable(f) PROVE TablesOK'
  <2>1. IsFiniteSet(receivables') /\ receivables' \in SUBSET Invoice
    <3>1. f \in Invoice /\ receivables' = receivables \cup {f}
      BY <1>4 DEF CreateReceivable
    <3>. QED BY <3>1, FS_AddElement
  <2>. QED BY <1>4, <2>1 DEF CreateReceivable
<1>5. ASSUME NEW r \in receivables, NEW f \in ReceivableForms, UpdateReceivable(r, f) PROVE TablesOK'
  <2>1. PICK g \in Invoice : receivables' = (receivables \ {r}) \cup {g}
    BY <1>5, EditedIsInvoice DEF UpdateReceivable
  <2>2. IsFiniteSet(receivables') /\ receivables' \in SUBSET Invoice
    BY <2>1, FS_AddElement, FS_RemoveElement
  <2>. QED BY <1>5, <2>2 DEF UpdateReceivable
<1>6. ASSUME NEW r \in receivables, DeleteReceivable(r) PROVE TablesOK'
  <2>1. IsFiniteSet(receivables') /\ receivables' \in SUBSET Invoice
    BY <1>6, FS_RemoveElement DEF DeleteReceivable
  <2>. QED BY <1>6, <2>1 DEF DeleteReceivable
<1>7. ASSUME NEW f \in PayableForms, CreatePayable(f) PROVE TablesOK'
  <2>1. IsFiniteSet(payables') /\ payables' \in SUBSET Invoice
    <3>1. f \in Invoice /\ payables' = payables \cup {f}
      BY <1>7 DEF CreatePayable
    <3>. QED BY <3>1, FS_AddElement
  <2>. QED BY <1>7, <2>1 DEF CreatePayable
<1>8. ASSUME NEW r \in payables, NEW f \in PayableForms, UpdatePayable(r, f) PROVE TablesOK'
  <2>1. PICK g \in Invoice : payables' = (payables \ {r}) \cup {g}
    BY <1>8, EditedIsInvoice DEF UpdatePayable
  <2>2. IsFiniteSet(payables') /\ payables' \in SUBSET Invoice
    BY <2>1, FS_AddElement, FS_RemoveElement
  <2>. QED BY <1>8, <2>2 DEF UpdatePayable
<1>9. ASSUME NEW r \in payables, DeletePayable(r) PROVE TablesOK'
  <2>1. IsFiniteSet(payables') /\ payables' \in SUBSET Invoice
    BY <1>9, FS_RemoveElement DEF DeletePayable
  <2>. QED BY <1>9, <2>1 DEF DeletePayable
<1>10. ASSUME NEW c \in CommitmentForms, AddCommitment(c) PROVE TablesOK'
  <2>1. IsFiniteSet(commitments')
    BY <1>10, FS_AddElement DEF AddCommitment
  <2>2. commitments' \in SUBSET Commitment
    BY <1>10 DEF AddCommitment
  <2>. QED BY <1>10, <2>1, <2>2 DEF AddCommitment
<1>11. ASSUME NEW c \in commitments, DeleteCommitment(c) PROVE TablesOK'
  <2>1. IsFiniteSet(commitments') /\ commitments' \in SUBSET Commitment
    BY <1>11, FS_RemoveElement DEF DeleteCommitment
  <2>. QED BY <1>11, <2>1 DEF DeleteCommitment
<1>12. ASSUME NEW i \in Investments, PayInvestment(i) PROVE TablesOK'
  BY <1>12 DEF PayInvestment
<1>13. ASSUME NEW p \in Policies, SetPolicy(p) PROVE TablesOK'
  BY <1>13 DEF SetPolicy
<1>14. CASE UNCHANGED forecastVars
  BY <1>14 DEF forecastVars
<1>. QED BY <1>1, <1>2, <1>3, <1>4, <1>5, <1>6, <1>7, <1>8, <1>9, <1>10, <1>11, <1>12, <1>13, <1>14 DEF ForecastNext

\* Whatever the order of the edits, the tables hold rows of their forms, and
\* finitely many.
THEOREM Tables == ForecastSpec => []TablesOK
BY InitTables, NextTables, PTL DEF ForecastSpec

-----------------------------------------------------------------------------
(* The movements.                                                          *)

ItemOK(i) ==
    /\ i = item(i.date, i.company, i.flow, i.amount, i.certainty, i.source, i.deferrable, i.ref)
    /\ i.date \in Int /\ start <= i.date /\ i.company \in Companies /\ i.flow \in {"in", "out"}
    /\ i.amount \in Int /\ i.certainty \in CERTAINTIES

\* Whatever is not due on a day of its own is settled in a week.
InWeek(i) ==
    \E mw \in Months \X Weeks : i.date = settlement_date(mw[1], mw[2], i.flow, policy.week_settlement)

Movement(i) == ItemOK(i) /\ i.date \in Year /\ (i.source \notin {"payable", "receivable"} => InWeek(i))

LEMMA ItemFields ==
  ASSUME NEW d, NEW c, NEW f, NEW a, NEW t, NEW s, NEW df, NEW r
  PROVE  LET i == item(d, c, f, a, t, s, df, r)
         IN  /\ i.date = d /\ i.company = c /\ i.flow = f /\ i.amount = a /\ i.certainty = t /\ i.source = s
             /\ i.deferrable = df /\ i.ref = r
             /\ i = item(i.date, i.company, i.flow, i.amount, i.certainty, i.source, i.deferrable, i.ref)
BY DEF item

LEMMA ItemMoves ==
  ASSUME NEW d \in Year, NEW c \in Companies, NEW f \in {"in", "out"}, NEW a \in Int, NEW t \in CERTAINTIES,
         NEW s, NEW df, NEW r,
         s \notin {"payable", "receivable"} =>
           \E mw \in Months \X Weeks : d = settlement_date(mw[1], mw[2], f, policy.week_settlement)
  PROVE  Movement(item(d, c, f, a, t, s, df, r))
<1>. DEFINE i == item(d, c, f, a, t, s, df, r)
<1>1. /\ i.date = d /\ i.company = c /\ i.flow = f /\ i.amount = a /\ i.certainty = t /\ i.source = s
      /\ i = item(i.date, i.company, i.flow, i.amount, i.certainty, i.source, i.deferrable, i.ref)
  BY ItemFields
<1>2. d \in Int /\ start <= d
  BY YearIs
<1>. HIDE DEF i
<1>3. ItemOK(i)
  BY <1>1, <1>2 DEF ItemOK
<1>4. Movement(i)
  BY <1>1, <1>3 DEF Movement, InWeek
<1>. QED BY <1>4 DEF i

\* A set of movements each of which its source and reference tell.
Identified(S) == \A i, j \in S : i.source = j.source /\ i.ref = j.ref => i = j

LEMMA PlanItemsAre ==
  ASSUME TablesOK
  PROVE  /\ IsFiniteSet(PlanItems)
         /\ \A i \in PlanItems : /\ Movement(i) /\ i.amount \in Nat /\ i.source = "plan"
                                 /\ i = item(Settles(i.ref, i.ref.flow), i.ref.company, i.ref.flow, i.ref.amount,
                                             i.ref.certainty, "plan", TRUE, i.ref)
<1>. DEFINE F(r) == item(Settles(r, r.flow), r.company, r.flow, r.amount, r.certainty, "plan", TRUE, r)
            m == [r \in plan |-> F(r)]
<1>1. PlanItems = {m[r] : r \in plan}
  BY DEF PlanItems
<1>2. IsFiniteSet(PlanItems)
  <2>. HIDE DEF m
  <2>. QED BY <1>1, ImageFinite DEF TablesOK
<1>3. ASSUME NEW i \in PlanItems
      PROVE  Movement(i) /\ i.amount \in Nat /\ i.source = "plan" /\ i = F(i.ref)
  <2>1. PICK r \in plan : i = F(r)
    BY DEF PlanItems
  <2>1a. PICK df \in BOOLEAN : i = item(Settles(r, r.flow), r.company, r.flow, r.amount, r.certainty, "plan", df, r)
    BY <2>1
  <2>2. r \in PlanCell
    BY DEF TablesOK
  <2>3. /\ r.company \in Companies /\ r.flow \in {"in", "out"} /\ r.amount \in Nat /\ r.certainty \in CERTAINTIES
        /\ <<r.month, r.week>> \in Months \X Weeks
    BY <2>2 DEF PlanCell
  <2>4. /\ Settles(r, r.flow) \in Year
        /\ \E mw \in Months \X Weeks :
             Settles(r, r.flow) = settlement_date(mw[1], mw[2], r.flow, policy.week_settlement)
    BY <2>3, Settlement DEF Settles
  <2>5. i.ref = r /\ i.amount = r.amount /\ i.source = "plan"
    BY <2>1a, ItemFields
  <2>6. Movement(i)
    BY <2>1a, <2>3, <2>4, ItemMoves
  <2>. QED BY <2>1, <2>3, <2>5, <2>6
<1>. QED BY <1>2, <1>3

LEMMA BudgetItemsAre ==
  ASSUME TablesOK
  PROVE  /\ IsFiniteSet(BudgetItems)
         /\ \A i \in BudgetItems : /\ Movement(i) /\ i.amount \in Nat /\ i.source = "budget"
                                   /\ i = item(Settles(i.ref, Flow(i.ref.type)), i.ref.company, Flow(i.ref.type),
                                               i.ref.amount, i.ref.certainty, "budget", TRUE, i.ref)
<1>. DEFINE F(r) == item(Settles(r, Flow(r.type)), r.company, Flow(r.type), r.amount, r.certainty, "budget", TRUE, r)
            B == {b \in budget : b.cls # "noncash" /\ b.type # "asset"}
            m == [r \in B |-> F(r)]
<1>1. BudgetItems = {m[r] : r \in B}
  BY DEF BudgetItems
<1>2. IsFiniteSet(BudgetItems)
  <2>1. IsFiniteSet(B)
    BY FS_Subset DEF TablesOK
  <2>. HIDE DEF m, B
  <2>. QED BY <1>1, <2>1, ImageFinite
<1>3. ASSUME NEW i \in BudgetItems
      PROVE  Movement(i) /\ i.amount \in Nat /\ i.source = "budget" /\ i = F(i.ref)
  <2>1. PICK r \in budget : i = F(r)
    BY DEF BudgetItems
  <2>1a. PICK df \in BOOLEAN : i = item(Settles(r, Flow(r.type)), r.company, Flow(r.type), r.amount, r.certainty, "budget", df, r)
    BY <2>1
  <2>2. r \in Cell
    BY DEF TablesOK
  <2>3. /\ r.company \in Companies /\ r.amount \in Nat /\ r.certainty \in CERTAINTIES
        /\ <<r.month, r.week>> \in Months \X Weeks /\ Flow(r.type) \in {"in", "out"}
    BY <2>2 DEF Cell, Flow
  <2>4. /\ Settles(r, Flow(r.type)) \in Year
        /\ \E mw \in Months \X Weeks :
             Settles(r, Flow(r.type)) = settlement_date(mw[1], mw[2], Flow(r.type), policy.week_settlement)
    BY <2>3, Settlement DEF Settles
  <2>5. i.ref = r /\ i.amount = r.amount /\ i.source = "budget"
    BY <2>1a, ItemFields
  <2>6. Movement(i)
    BY <2>1a, <2>3, <2>4, ItemMoves
  <2>. QED BY <2>1, <2>3, <2>5, <2>6
<1>. QED BY <1>2, <1>3

LEMMA PayableItemsAre ==
  ASSUME TablesOK
  PROVE  /\ IsFiniteSet(PayableItems)
         /\ \A i \in PayableItems : /\ Movement(i) /\ i.amount \in Nat /\ i.source = "payable"
                                    /\ i = item(i.ref.due, i.ref.company, "out", Outstanding(i.ref), "committed",
                                                "payable", FALSE, i.ref)
<1>. DEFINE F(r) == item(r.due, r.company, "out", Outstanding(r), "committed", "payable", FALSE, r)
            B == {p \in payables : Outstanding(p) > 0 /\ p.due \in Year}
            m == [r \in B |-> F(r)]
<1>1. PayableItems = {m[r] : r \in B}
  BY DEF PayableItems
<1>2. IsFiniteSet(PayableItems)
  <2>1. IsFiniteSet(B)
    BY FS_Subset DEF TablesOK
  <2>. HIDE DEF m, B
  <2>. QED BY <1>1, <2>1, ImageFinite
<1>3. ASSUME NEW i \in PayableItems
      PROVE  Movement(i) /\ i.amount \in Nat /\ i.source = "payable" /\ i = F(i.ref)
  <2>1. PICK r \in payables : i = F(r) /\ Outstanding(r) > 0 /\ r.due \in Year
    BY DEF PayableItems
  <2>1a. PICK df \in BOOLEAN : i = item(r.due, r.company, "out", Outstanding(r), "committed", "payable", df, r)
    BY <2>1
  <2>2. r \in Invoice
    BY DEF TablesOK
  <2>3. r.company \in Companies /\ Outstanding(r) \in Nat /\ r.due \in Year
    BY <2>1, <2>2 DEF Invoice, Outstanding
  <2>4. i.ref = r /\ i.amount = Outstanding(r) /\ i.source = "payable"
    BY <2>1a, ItemFields
  <2>5. "committed" \in CERTAINTIES
    BY DEF CERTAINTIES
  <2>6. Movement(i)
    BY <2>1a, <2>3, <2>5, ItemMoves
  <2>. QED BY <2>1, <2>3, <2>4, <2>6
<1>. QED BY <1>2, <1>3

LEMMA ReceivableItemsAre ==
  ASSUME TablesOK
  PROVE  /\ IsFiniteSet(ReceivableItems)
         /\ \A i \in ReceivableItems : /\ Movement(i) /\ i.amount \in Nat /\ i.source = "receivable"
                                       /\ i = item(Expected(i.ref), i.ref.company, "in", Outstanding(i.ref), "committed",
                                                   "receivable", FALSE, i.ref)
<1>. DEFINE F(r) == item(Expected(r), r.company, "in", Outstanding(r), "committed", "receivable", FALSE, r)
            B == {q \in receivables : Outstanding(q) > 0 /\ Expected(q) \in Year}
            m == [r \in B |-> F(r)]
<1>1. ReceivableItems = {m[r] : r \in B}
  BY DEF ReceivableItems
<1>2. IsFiniteSet(ReceivableItems)
  <2>1. IsFiniteSet(B)
    BY FS_Subset DEF TablesOK
  <2>. HIDE DEF m, B
  <2>. QED BY <1>1, <2>1, ImageFinite
<1>3. ASSUME NEW i \in ReceivableItems
      PROVE  Movement(i) /\ i.amount \in Nat /\ i.source = "receivable" /\ i = F(i.ref)
  <2>1. PICK r \in receivables : i = F(r) /\ Outstanding(r) > 0 /\ Expected(r) \in Year
    BY DEF ReceivableItems
  <2>1a. PICK df \in BOOLEAN : i = item(Expected(r), r.company, "in", Outstanding(r), "committed", "receivable", df, r)
    BY <2>1
  <2>2. r \in Invoice
    BY DEF TablesOK
  <2>3. r.company \in Companies /\ Outstanding(r) \in Nat /\ Expected(r) \in Year
    BY <2>1, <2>2 DEF Invoice, Outstanding
  <2>4. i.ref = r /\ i.amount = Outstanding(r) /\ i.source = "receivable"
    BY <2>1a, ItemFields
  <2>5. "committed" \in CERTAINTIES
    BY DEF CERTAINTIES
  <2>6. Movement(i)
    BY <2>1a, <2>3, <2>5, ItemMoves
  <2>. QED BY <2>1, <2>3, <2>4, <2>6
<1>. QED BY <1>2, <1>3

LEMMA CommitmentItemsAre ==
  ASSUME TablesOK
  PROVE  /\ IsFiniteSet(CommitmentItems)
         /\ \A i \in CommitmentItems : /\ Movement(i) /\ i.amount \in Nat /\ i.source = "investment"
                                       /\ i = item(Settles(i.ref, "out"), Owner[i.ref.investment], "out", i.ref.amount,
                                                   i.ref.certainty, "investment", FALSE, i.ref)
<1>. DEFINE F(c) == item(Settles(c, "out"), Owner[c.investment], "out", c.amount, c.certainty, "investment", FALSE, c)
            B == {c \in commitments : c.thisYear}
            m == [c \in B |-> F(c)]
<1>1. CommitmentItems = {m[c] : c \in B}
  BY DEF CommitmentItems
<1>2. IsFiniteSet(CommitmentItems)
  <2>1. IsFiniteSet(B)
    BY FS_Subset DEF TablesOK
  <2>. HIDE DEF m, B
  <2>. QED BY <1>1, <2>1, ImageFinite
<1>3. ASSUME NEW i \in CommitmentItems
      PROVE  Movement(i) /\ i.amount \in Nat /\ i.source = "investment" /\ i = F(i.ref)
  <2>1. PICK c \in commitments : i = F(c)
    BY DEF CommitmentItems
  <2>1a. PICK df \in BOOLEAN : i = item(Settles(c, "out"), Owner[c.investment], "out", c.amount, c.certainty, "investment", df, c)
    BY <2>1
  <2>2. c \in Commitment
    BY DEF TablesOK
  <2>3. /\ Owner[c.investment] \in Companies /\ c.amount \in Nat /\ c.certainty \in CERTAINTIES
        /\ <<c.month, c.week>> \in Months \X Weeks
    BY <2>2, FormAssumption DEF Commitment
  <2>4. /\ Settles(c, "out") \in Year
        /\ \E mw \in Months \X Weeks :
             Settles(c, "out") = settlement_date(mw[1], mw[2], "out", policy.week_settlement)
    BY <2>3, Settlement DEF Settles
  <2>5. i.ref = c /\ i.amount = c.amount /\ i.source = "investment"
    BY <2>1a, ItemFields
  <2>6. Movement(i)
    BY <2>1a, <2>3, <2>4, ItemMoves
  <2>. QED BY <2>1, <2>3, <2>5, <2>6
<1>. QED BY <1>2, <1>3

-----------------------------------------------------------------------------
(* What is committed without a date.                                       *)

LEMMA AmountIs ==
  ASSUME NEW S, IsFiniteSet(S), NEW f, \A i \in S : f[i] = i.amount
  PROVE  AmountOf(S) = SumFunctionOnSet(f, S)
<1>. DEFINE g == [i \in S |-> i.amount]
<1>1. DOMAIN g = S /\ \A i \in S : g[i] = f[i]
  OBVIOUS
<1>2. AmountOf(S) = SumFunctionOnSet(g, S)
  BY <1>1 DEF AmountOf, SumFunction
<1>. HIDE DEF g
<1>. QED BY <1>1, <1>2, SumSame

LEMMA AmountNat ==
  ASSUME NEW S, IsFiniteSet(S), \A i \in S : i.amount \in Nat
  PROVE  AmountOf(S) \in Nat
<1>. DEFINE f == [i \in S |-> i.amount]
<1>1. AmountOf(S) = SumFunctionOnSet(f, S)
  BY AmountIs
<1>2. \A i \in S : f[i] \in Nat
  OBVIOUS
<1>. HIDE DEF f
<1>. QED BY <1>1, <1>2, SumNat

LEMMA AmountInt ==
  ASSUME NEW S, IsFiniteSet(S), \A i \in S : i.amount \in Int
  PROVE  AmountOf(S) \in Int
<1>. DEFINE f == [i \in S |-> i.amount]
<1>1. AmountOf(S) = SumFunctionOnSet(f, S)
  BY AmountIs
<1>2. \A i \in S : f[i] \in Int
  OBVIOUS
<1>. HIDE DEF f
<1>. QED BY <1>1, <1>2, SumInt

LEMMA Uncommitted ==
  ASSUME TablesOK, NEW i \in Investments
  PROVE  /\ ScheduledIn(i) \in Nat /\ unscheduled(i) \in Nat
         /\ out[i] \in Nat /\ Committed[i] \in Nat
         /\ unscheduled(i) >= Committed[i] - ScheduledIn(i) - out[i]
<1>. DEFINE S == {c \in commitments : c.investment = i}
<1>1. IsFiniteSet(S) /\ \A c \in S : c.amount \in Nat
  BY FS_Subset DEF TablesOK, Commitment
<1>2. ScheduledIn(i) \in Nat
  <2>1. ScheduledIn(i) = AmountOf(S)
    BY DEF ScheduledIn
  <2>. HIDE DEF S
  <2>. QED BY <1>1, <2>1, AmountNat
<1>3. out[i] \in Nat /\ Committed[i] \in Nat
  BY FormAssumption DEF TablesOK
<1>. QED BY <1>2, <1>3 DEF unscheduled, LargerOf

\* The parts of a spread add up to what is spread.
LEMMA SpreadAddsUp ==
  ASSUME NEW a \in Int
  PROVE  LET p == spread_evenly(a, RemainingWeeks)
         IN  /\ \A mw \in RemainingWeeks : p[mw] \in Int
             /\ SumFunctionOnSet(p, RemainingWeeks) = a
<1>. DEFINE R == RemainingWeeks
            n == Cardinality(R)
            each == Share(a, 1, n)
            last == CHOOSE mw \in R : \A o \in R : WeekStart(o[1], o[2]) <= WeekStart(mw[1], mw[2])
            p == [mw \in R |-> IF mw = last THEN a - each * (n - 1) ELSE each]
<1>1. last \in R /\ IsFiniteSet(R) /\ n \in Nat \ {0}
  BY Ahead
<1>2. each \in Int
  <2>. HIDE DEF n
  <2>. QED BY <1>1, ShareInt
<1>3. spread_evenly(a, RemainingWeeks) = p
  BY DEF spread_evenly
<1>4. each * (n - 1) \in Int
  <2>. HIDE DEF n, each
  <2>. QED BY <1>1, <1>2
<1>5. /\ p[last] = a - each * (n - 1) /\ \A mw \in R \ {last} : p[mw] = each
  <2>. HIDE DEF last, n, each, R
  <2>. QED BY <1>1
<1>6. \A mw \in R : p[mw] \in Int
  <2>. HIDE DEF last, n, each, R, p
  <2>. QED BY <1>2, <1>4, <1>5
<1>7. IsFiniteSet(R \ {last}) /\ Cardinality(R \ {last}) = n - 1
  <2>. HIDE DEF last, R
  <2>. QED BY <1>1, FS_RemoveElement
<1>8. SumFunctionOnSet(p, R \ {last}) = each * Cardinality(R \ {last})
  <2>. HIDE DEF last, R, p, n, each
  <2>. QED BY <1>2, <1>5, <1>7, SumConstant
<1>9. SumFunctionOnSet(p, R) = p[last] + SumFunctionOnSet(p, R \ {last})
  <2>. HIDE DEF last, R, p, n, each
  <2>. QED BY <1>1, <1>6, SumRemove
<1>10. SumFunctionOnSet(p, R) = a
  <2>. HIDE DEF last, R, p, n, each
  <2>. QED BY <1>4, <1>5, <1>7, <1>8, <1>9
<1>. HIDE DEF p, R
<1>11. R = RemainingWeeks
  BY DEF R
<1>. QED BY <1>3, <1>6, <1>10, <1>11

Part(j, mw) ==
    item(settlement_date(mw[1], mw[2], "out", policy.week_settlement), Owner[j], "out",
         spread_evenly(unscheduled(j), RemainingWeeks)[mw], "committed", "investment_unscheduled", TRUE, <<j, mw>>)

LEMMA PartIs ==
  ASSUME TablesOK, NEW j \in Investments, NEW mw \in RemainingWeeks
  PROVE  /\ Movement(Part(j, mw))
         /\ Part(j, mw).flow = "out" /\ Part(j, mw).certainty = "committed"
         /\ Part(j, mw).amount = spread_evenly(unscheduled(j), RemainingWeeks)[mw]
         /\ Part(j, mw).source = "investment_unscheduled" /\ Part(j, mw).ref = <<j, mw>>
<1>. DEFINE a == spread_evenly(unscheduled(j), RemainingWeeks)[mw]
            d == settlement_date(mw[1], mw[2], "out", policy.week_settlement)
<1>1. PICK df \in BOOLEAN :
        Part(j, mw) = item(d, Owner[j], "out", a, "committed", "investment_unscheduled", df, <<j, mw>>)
  BY DEF Part
<1>2. unscheduled(j) \in Int
  BY Uncommitted
<1>3. a \in Int
  BY <1>2, SpreadAddsUp
<1>4. mw \in Months \X Weeks
  BY Ahead
<1>5. d \in Year
  BY <1>4, Settlement
<1>6. Owner[j] \in Companies /\ "committed" \in CERTAINTIES
  BY FormAssumption DEF CERTAINTIES
<1>7. \E v \in Months \X Weeks : d = settlement_date(v[1], v[2], "out", policy.week_settlement)
  BY <1>4
<1>. HIDE DEF a, d
<1>8. Movement(Part(j, mw))
  BY <1>1, <1>3, <1>5, <1>6, <1>7, ItemMoves
<1>9. /\ Part(j, mw).flow = "out" /\ Part(j, mw).certainty = "committed" /\ Part(j, mw).amount = a
      /\ Part(j, mw).source = "investment_unscheduled" /\ Part(j, mw).ref = <<j, mw>>
  BY <1>1, ItemFields
<1>. QED BY <1>8, <1>9 DEF a

LEMMA UnscheduledItemsAre ==
  ASSUME TablesOK
  PROVE  /\ IsFiniteSet(UnscheduledItems)
         /\ UnscheduledItems = UNION {{Part(j, mw) : mw \in RemainingWeeks} :
                                      j \in {k \in Investments : unscheduled(k) > 0}}
<1>. DEFINE J == {k \in Investments : unscheduled(k) > 0}
            P(j) == {Part(j, mw) : mw \in RemainingWeeks}
            m == [j \in J |-> P(j)]
<1>1. UnscheduledItems = UNION {P(j) : j \in J}
  BY DEF UnscheduledItems, Part
<1>2. \A j \in J : IsFiniteSet(P(j))
  <2>. SUFFICES ASSUME NEW j \in J PROVE IsFiniteSet(P(j))
    OBVIOUS
  <2>. DEFINE g == [mw \in RemainingWeeks |-> Part(j, mw)]
  <2>1. P(j) = {g[mw] : mw \in RemainingWeeks}
    OBVIOUS
  <2>. HIDE DEF g, P, J
  <2>. QED BY <2>1, Ahead, ImageFinite
<1>3. {P(j) : j \in J} = {m[j] : j \in J} /\ IsFiniteSet(J)
  BY FormAssumption, FS_Subset
<1>4. IsFiniteSet({m[j] : j \in J})
  <2>. HIDE DEF m, J, P
  <2>. QED BY <1>3, ImageFinite
<1>5. \A T \in {m[j] : j \in J} : IsFiniteSet(T)
  BY <1>2
<1>6. IsFiniteSet(UNION {m[j] : j \in J})
  <2>. HIDE DEF m, J, P
  <2>. QED BY <1>4, <1>5, FS_UNION
<1>. QED BY <1>1, <1>3, <1>6

\* Everything the tables know of is a movement of its year, and no two
\* movements have the same source and reference.
LEMMA Materialised ==
  ASSUME TablesOK, NEW live \in BOOLEAN
  PROVE  /\ IsFiniteSet(materialise(live))
         /\ \A i \in materialise(live) : /\ Movement(i) /\ i.source # "crisis"
                                         /\ i.source = "investment_unscheduled" => i.flow = "out"
                                         /\ i.source = "investment" => i \in CommitmentItems
                                         /\ i.source = "investment_unscheduled" => i \in UnscheduledItems
         /\ Identified(materialise(live))
         /\ PartsArePaid => \A i \in materialise(live) : i.amount \in Nat
<1>. DEFINE base == IF live THEN BudgetItems ELSE PlanItems
            M == materialise(live)
<1>1. M = base \cup PayableItems \cup ReceivableItems \cup CommitmentItems \cup UnscheduledItems
  BY DEF materialise
<1>2. IsFiniteSet(M)
  <2>1. IsFiniteSet(base)
    BY BudgetItemsAre, PlanItemsAre
  <2>2. IsFiniteSet(base \cup PayableItems)
    <3>. HIDE DEF base
    <3>. QED BY <2>1, PayableItemsAre, FS_Union
  <2>3. IsFiniteSet(base \cup PayableItems \cup ReceivableItems)
    <3>. HIDE DEF base
    <3>. QED BY <2>2, ReceivableItemsAre, FS_Union
  <2>4. IsFiniteSet(base \cup PayableItems \cup ReceivableItems \cup CommitmentItems)
    <3>. HIDE DEF base
    <3>. QED BY <2>3, CommitmentItemsAre, FS_Union
  <2>. HIDE DEF base, M
  <2>. QED BY <1>1, <2>4, UnscheduledItemsAre, FS_Union
<1>3. \A i \in base : /\ Movement(i) /\ i.amount \in Nat
                      /\ IF live THEN i \in BudgetItems /\ i.source = "budget"
                                 ELSE i \in PlanItems /\ i.source = "plan"
  <2>. HIDE DEF M, Movement
  <2>. QED BY BudgetItemsAre, PlanItemsAre
<1>4. \A i \in UnscheduledItems : \E j \in Investments, mw \in RemainingWeeks : i = Part(j, mw)
  BY UnscheduledItemsAre
<1>5. \A i \in UnscheduledItems :
        /\ Movement(i) /\ i.source = "investment_unscheduled" /\ i.flow = "out"
        /\ PartsArePaid => i.amount \in Nat
  <2>. SUFFICES ASSUME NEW i \in UnscheduledItems
                PROVE  /\ Movement(i) /\ i.source = "investment_unscheduled" /\ i.flow = "out"
                       /\ PartsArePaid => i.amount \in Nat
    OBVIOUS
  <2>1. PICK j \in Investments, mw \in RemainingWeeks : i = Part(j, mw)
    BY <1>4
  <2>2. Movement(i) /\ i.source = "investment_unscheduled" /\ i.flow = "out"
    BY <2>1, PartIs
  <2>3. ASSUME PartsArePaid PROVE i.amount \in Nat
    <3>1. i.amount = spread_evenly(unscheduled(j), RemainingWeeks)[mw]
      BY <2>1, PartIs
    <3>2. i.amount \in Int /\ i.amount >= 0
      BY <2>2, <2>3, <3>1 DEF Movement, ItemOK, PartsArePaid
    <3>. QED BY <3>2
  <2>. QED BY <2>2, <2>3
<1>6. \A i \in PayableItems : Movement(i) /\ i.amount \in Nat /\ i.source = "payable"
  BY PayableItemsAre
<1>7. \A i \in ReceivableItems : Movement(i) /\ i.amount \in Nat /\ i.source = "receivable"
  BY ReceivableItemsAre
<1>8. \A i \in CommitmentItems : Movement(i) /\ i.amount \in Nat /\ i.source = "investment"
  BY CommitmentItemsAre
<1>9. \A i \in M : /\ Movement(i) /\ i.source # "crisis"
                   /\ i.source = "investment_unscheduled" => i.flow = "out"
                   /\ PartsArePaid => i.amount \in Nat
  <2>. HIDE DEF base, M, Movement
  <2>. QED BY <1>1, <1>3, <1>5, <1>6, <1>7, <1>8
<1>10. \A i \in M : /\ i.source = "budget" => live /\ i \in BudgetItems
                    /\ i.source = "plan" => ~live /\ i \in PlanItems
                    /\ i.source = "payable" => i \in PayableItems
                    /\ i.source = "receivable" => i \in ReceivableItems
                    /\ i.source = "investment" => i \in CommitmentItems
                    /\ i.source = "investment_unscheduled" => i \in UnscheduledItems
                    /\ i.source \in {"budget", "plan", "payable", "receivable", "investment", "investment_unscheduled"}
  <2>. HIDE DEF base, M, Movement
  <2>. QED BY <1>1, <1>3, <1>5, <1>6, <1>7, <1>8
<1>11. Identified(M)
  <2>. SUFFICES ASSUME NEW i \in M, NEW j \in M, i.source = j.source, i.ref = j.ref
                PROVE  i = j
    BY DEF Identified
  <2>1. CASE i.source = "budget"
    <3>1. i \in BudgetItems /\ j \in BudgetItems
      BY <1>10, <2>1
    <3>. QED BY <3>1, BudgetItemsAre
  <2>2. CASE i.source = "plan"
    <3>1. i \in PlanItems /\ j \in PlanItems
      BY <1>10, <2>2
    <3>. QED BY <3>1, PlanItemsAre
  <2>3. CASE i.source = "payable"
    <3>1. i \in PayableItems /\ j \in PayableItems
      BY <1>10, <2>3
    <3>. QED BY <3>1, PayableItemsAre
  <2>4. CASE i.source = "receivable"
    <3>1. i \in ReceivableItems /\ j \in ReceivableItems
      BY <1>10, <2>4
    <3>. QED BY <3>1, ReceivableItemsAre
  <2>5. CASE i.source = "investment"
    <3>1. i \in CommitmentItems /\ j \in CommitmentItems
      BY <1>10, <2>5
    <3>. QED BY <3>1, CommitmentItemsAre
  <2>6. CASE i.source = "investment_unscheduled"
    <3>1. i \in UnscheduledItems /\ j \in UnscheduledItems
      BY <1>10, <2>6
    <3>2. PICK k \in Investments, mw \in RemainingWeeks : i = Part(k, mw)
      BY <1>4, <3>1
    <3>3. PICK l \in Investments, nw \in RemainingWeeks : j = Part(l, nw)
      BY <1>4, <3>1
    <3>4. <<k, mw>> = <<l, nw>>
      BY <3>2, <3>3, PartIs
    <3>. QED BY <3>2, <3>3, <3>4
  <2>. HIDE DEF M
  <2>. QED BY <1>10, <2>1, <2>2, <2>3, <2>4, <2>5, <2>6
<1>. HIDE DEF M
<1>12. M = materialise(live)
  BY DEF M
<1>. QED BY <1>2, <1>9, <1>10, <1>11, <1>12

-----------------------------------------------------------------------------
(* Ledgers.                                                                *)

\* What a movement has done to the balance by the end of a day.
Effect(i, d) == IF i.date <= d THEN Signed(i) ELSE 0

LEMMA EffectInt ==
  ASSUME NEW i, ItemOK(i), NEW d
  PROVE  Effect(i, d) \in Int
BY DEF ItemOK, Effect, Signed

LEMMA LedgerIs ==
  ASSUME NEW S, IsFiniteSet(S), \A i \in S : ItemOK(i), NEW o \in Int, NEW d \in Year,
         NEW f, \A i \in S : f[i] = Effect(i, d)
  PROVE  daily_ledger(S, o)[d] = o + SumFunctionOnSet(f, S) /\ SumFunctionOnSet(f, S) \in Int
<1>. DEFINE T == {j \in S : j.date \in start..d}
            g == [i \in T |-> Signed(i)]
<1>1. daily_ledger(S, o)[d] = o + SumFunctionOnSet(g, T)
  BY DEF daily_ledger, SumFunction
<1>2. d \in Int /\ start \in Int
  BY YearIs
<1>3. \A i \in S : f[i] \in Int
  BY EffectInt
<1>4. \A i \in T : g[i] = f[i]
  BY <1>2 DEF Effect
<1>5. \A i \in S \ T : f[i] = 0
  BY <1>2 DEF Effect, ItemOK
<1>6. IsFiniteSet(T) /\ IsFiniteSet(S \ T) /\ T \in SUBSET S
  BY FS_Subset
<1>7. SumFunctionOnSet(g, T) = SumFunctionOnSet(f, T)
  <2>. HIDE DEF g, T
  <2>. QED BY <1>4, <1>6, SumSame
<1>8. SumFunctionOnSet(f, S \ T) = 0
  <2>. HIDE DEF g, T
  <2>. QED BY <1>5, <1>6, SumZero
<1>9. SumFunctionOnSet(f, S) = SumFunctionOnSet(f, T) + SumFunctionOnSet(f, S \ T)
  <2>. HIDE DEF g, T
  <2>. QED BY <1>3, <1>6, SumSplit
<1>10. SumFunctionOnSet(f, S) \in Int /\ SumFunctionOnSet(f, T) \in Int
  <2>1. \A i \in T : f[i] \in Int
    BY <1>3
  <2>. HIDE DEF g, T
  <2>. QED BY <1>3, <1>6, <2>1, SumInt
<1>. HIDE DEF g, T
<1>. QED BY <1>1, <1>7, <1>8, <1>9, <1>10

LEMMA LedgerInt ==
  ASSUME NEW S, IsFiniteSet(S), \A i \in S : ItemOK(i), NEW o \in Int
  PROVE  daily_ledger(S, o) \in [Year -> Int]
<1>1. ASSUME NEW d \in Year PROVE daily_ledger(S, o)[d] \in Int
  <2>. DEFINE f == [i \in S |-> Effect(i, d)]
  <2>1. \A i \in S : f[i] = Effect(i, d)
    OBVIOUS
  <2>. HIDE DEF f
  <2>2. daily_ledger(S, o)[d] = o + SumFunctionOnSet(f, S) /\ SumFunctionOnSet(f, S) \in Int
    BY <2>1, LedgerIs
  <2>. QED BY <2>2
<1>. QED BY <1>1 DEF daily_ledger

\* A ledger over movements that were each changed.
LEMMA LedgerMapped ==
  ASSUME NEW S, IsFiniteSet(S), NEW m, \A i \in S : ItemOK(m[i]), \A i, j \in S : m[i] = m[j] => i = j,
         NEW o \in Int, NEW d \in Year, NEW f, \A i \in S : f[i] = Effect(m[i], d)
  PROVE  daily_ledger({m[i] : i \in S}, o)[d] = o + SumFunctionOnSet(f, S)
<1>. DEFINE T == {m[i] : i \in S}
            h == [t \in T |-> Effect(t, d)]
<1>1. IsFiniteSet(T)
  BY ImageFinite
<1>2. \A t \in T : ItemOK(t) /\ h[t] = Effect(t, d)
  OBVIOUS
<1>3. daily_ledger(T, o)[d] = o + SumFunctionOnSet(h, T)
  <2>. HIDE DEF T, h
  <2>. QED BY <1>1, <1>2, LedgerIs
<1>4. \A i \in S : f[i] \in Int /\ h[m[i]] = f[i]
  BY EffectInt
<1>5. SumFunctionOnSet(h, T) = SumFunctionOnSet(f, S)
  <2>. HIDE DEF h
  <2>. QED BY <1>4, SumImage
<1>. QED BY <1>3, <1>5

Changed(m, S) == {m[i] : i \in S}

\* A ledger is no higher than another over the same movements when no
\* movement has done more by that day.
LEMMA LedgersCompare ==
  ASSUME NEW S, IsFiniteSet(S), NEW m, NEW n,
         \A i \in S : ItemOK(m[i]) /\ ItemOK(n[i]),
         \A i, j \in S : m[i] = m[j] => i = j, \A i, j \in S : n[i] = n[j] => i = j,
         NEW o \in Int, NEW d \in Year, \A i \in S : Effect(m[i], d) <= Effect(n[i], d)
  PROVE  daily_ledger(Changed(m, S), o)[d] <= daily_ledger(Changed(n, S), o)[d]
<1>. DEFINE f == [i \in S |-> Effect(m[i], d)]
            g == [i \in S |-> Effect(n[i], d)]
<1>1. \A i \in S : f[i] = Effect(m[i], d) /\ g[i] = Effect(n[i], d)
  OBVIOUS
<1>. HIDE DEF f, g
<1>2. \A i \in S : f[i] \in Int /\ g[i] \in Int /\ f[i] <= g[i]
  BY <1>1, EffectInt
<1>3. /\ daily_ledger(Changed(m, S), o)[d] = o + SumFunctionOnSet(f, S)
      /\ daily_ledger(Changed(n, S), o)[d] = o + SumFunctionOnSet(g, S)
  BY <1>1, LedgerMapped DEF Changed
<1>4. SumFunctionOnSet(f, S) \in Int /\ SumFunctionOnSet(g, S) \in Int
  BY <1>2, SumInt
<1>5. SumFunctionOnSet(f, S) <= SumFunctionOnSet(g, S)
  BY <1>2, SumMonotone
<1>. QED BY <1>3, <1>4, <1>5

\* The least balance is the balance of a day, and below no other.
LEMMA LowestIs ==
  ASSUME NEW L \in [Year -> Int]
  PROVE  /\ Lowest(L) \in Int /\ \A d \in Year : Lowest(L) <= L[d]
         /\ \E d \in Year : L[d] = Lowest(L)
<1>. DEFINE S == {L[d] : d \in Year}
<1>1. IsFiniteSet(S) /\ S # {} /\ S \in SUBSET Int
  BY YearIs, ImageFinite
<1>2. Min(S) \in S /\ \A x \in S : Min(S) <= x
  <2>. HIDE DEF S
  <2>. QED BY <1>1, MinIs
<1>3. Lowest(L) = Min(S)
  BY DEF Lowest
<1>. QED BY <1>1, <1>2, <1>3

LEMMA LowestMonotone ==
  ASSUME NEW L \in [Year -> Int], NEW K \in [Year -> Int], \A d \in Year : L[d] <= K[d]
  PROVE  Lowest(L) <= Lowest(K)
<1>1. PICK d \in Year : K[d] = Lowest(K)
  BY LowestIs
<1>2. Lowest(L) <= L[d] /\ Lowest(L) \in Int /\ L[d] \in Int /\ K[d] \in Int /\ L[d] <= K[d]
  BY LowestIs
<1>. QED BY <1>1, <1>2

\* The worst day is one where the least balance is met.
LEMMA WorstDayIs ==
  ASSUME NEW L \in [Year -> Int]
  PROVE  WorstDay(L) \in Year /\ L[WorstDay(L)] = Lowest(L)
<1>. DEFINE S == {d \in Year : L[d] = Lowest(L)}
<1>1. S # {} /\ S \in SUBSET Int /\ IsFiniteSet(S)
  <2>1. S \subseteq Year
    OBVIOUS
  <2>2. S # {}
    BY LowestIs
  <2>. HIDE DEF S
  <2>. QED BY <2>1, <2>2, YearIs, FS_Subset
<1>2. Min(S) \in S
  <2>. HIDE DEF S
  <2>. QED BY <1>1, MinIs
<1>3. WorstDay(L) = Min(S)
  BY DEF WorstDay
<1>. QED BY <1>2, <1>3

\* A movement that brings money later, or takes it earlier, or is of less, has
\* done less.
LEMMA LaterEffect ==
  ASSUME NEW i, ItemOK(i), NEW j, ItemOK(j), NEW d \in Int, i.flow = j.flow, i.amount = j.amount, i.amount \in Nat,
         IF i.flow = "in" THEN j.date <= i.date ELSE i.date <= j.date
  PROVE  Effect(i, d) <= Effect(j, d)
BY DEF ItemOK, Effect, Signed

LEMMA SmallerEffect ==
  ASSUME NEW i, ItemOK(i), NEW j, ItemOK(j), NEW d \in Int, i.flow = j.flow, i.date = j.date,
         IF i.flow = "in" THEN i.amount <= j.amount ELSE j.amount <= i.amount
  PROVE  Effect(i, d) <= Effect(j, d)
BY DEF ItemOK, Effect, Signed

\* A movement with another day, or of another amount.
LEMMA Redated ==
  ASSUME NEW i, ItemOK(i), NEW x \in Int, start <= x
  PROVE  LET j == [i EXCEPT !.date = x]
         IN  /\ ItemOK(j) /\ j.date = x /\ j.company = i.company /\ j.flow = i.flow /\ j.amount = i.amount
             /\ j.certainty = i.certainty /\ j.source = i.source /\ j.ref = i.ref
<1>. DEFINE j == [i EXCEPT !.date = x]
<1>1. i = item(i.date, i.company, i.flow, i.amount, i.certainty, i.source, i.deferrable, i.ref)
  BY DEF ItemOK
<1>2. j = item(x, i.company, i.flow, i.amount, i.certainty, i.source, i.deferrable, i.ref)
  BY <1>1 DEF item
<1>. HIDE DEF j
<1>3. /\ j.date = x /\ j.company = i.company /\ j.flow = i.flow /\ j.amount = i.amount
      /\ j.certainty = i.certainty /\ j.source = i.source /\ j.ref = i.ref
      /\ j = item(j.date, j.company, j.flow, j.amount, j.certainty, j.source, j.deferrable, j.ref)
  BY <1>2, ItemFields
<1>4. ItemOK(j)
  BY <1>3 DEF ItemOK
<1>. QED BY <1>3, <1>4 DEF j

LEMMA Revalued ==
  ASSUME NEW i, ItemOK(i), NEW x \in Int
  PROVE  LET j == [i EXCEPT !.amount = x]
         IN  /\ ItemOK(j) /\ j.date = i.date /\ j.company = i.company /\ j.flow = i.flow /\ j.amount = x
             /\ j.certainty = i.certainty /\ j.source = i.source /\ j.ref = i.ref
<1>. DEFINE j == [i EXCEPT !.amount = x]
<1>1. i = item(i.date, i.company, i.flow, i.amount, i.certainty, i.source, i.deferrable, i.ref)
  BY DEF ItemOK
<1>2. j = item(i.date, i.company, i.flow, x, i.certainty, i.source, i.deferrable, i.ref)
  BY <1>1 DEF item
<1>. HIDE DEF j
<1>3. /\ j.date = i.date /\ j.company = i.company /\ j.flow = i.flow /\ j.amount = x
      /\ j.certainty = i.certainty /\ j.source = i.source /\ j.ref = i.ref
      /\ j = item(j.date, j.company, j.flow, j.amount, j.certainty, j.source, j.deferrable, j.ref)
  BY <1>2, ItemFields
<1>4. ItemOK(j)
  BY <1>3 DEF ItemOK
<1>. QED BY <1>3, <1>4 DEF j

-----------------------------------------------------------------------------
(* What the bound run counts of a company.                                 *)

Mine(S, c) == {i \in S : i.company = c /\ i.certainty \in RUN_FILTERS["bound"][i.flow]}

LEMMA BoundOf ==
  ASSUME NEW S, NEW c
  PROVE  filter_run(Of(S, c), "bound") = Mine(S, c)
BY DEF filter_run, Of, Mine

LEMMA OpeningInt == ASSUME NEW c PROVE opening_cash(c) \in Int
<1>. DEFINE S == {l \in Posted : l.company = c /\ l.kind = "cash" /\ l.date < start}
<1>1. IsFiniteSet(S) /\ \A l \in S : l.amount \in Int
  BY FormAssumption, FS_Subset
<1>2. opening_cash(c) = AmountOf(S)
  BY DEF opening_cash
<1>. HIDE DEF S
<1>. QED BY <1>1, <1>2, AmountInt

LEMMA FloorInt ==
  ASSUME TablesOK, NEW c \in Companies
  PROVE  buffer_floor(c) \in Int
<1>. DEFINE upto == IF Today \in Year THEN Today ELSE end
            S == {l \in Posted : l.company = c /\ l.kind = "opex" /\ l.date >= upto - Trailing /\ l.date <= upto}
<1>1. IsFiniteSet(S) /\ \A l \in S : l.amount \in Int
  <2>. HIDE DEF upto
  <2>. QED BY FormAssumption, FS_Subset
<1>2. FixedCosts(c) = AmountOf(S)
  BY DEF FixedCosts
<1>3. FixedCosts(c) \in Int
  <2>. HIDE DEF S
  <2>. QED BY <1>1, <1>2, AmountInt
<1>4. policy.absolute_floor[c] \in Nat /\ policy.months_cover \in Nat
  BY DEF TablesOK, Policy
<1>5. Share(FixedCosts(c), policy.months_cover, 3) \in Int
  <2>1. policy.months_cover \in Int /\ 3 \in Nat \ {0}
    BY <1>4
  <2>. QED BY ONLY <1>3, <2>1, ShareInt
<1>. QED BY <1>4, <1>5 DEF buffer_floor, LargerOf

LEMMA MineIs ==
  ASSUME TablesOK, NEW live \in BOOLEAN, NEW c
  PROVE  /\ IsFiniteSet(Mine(materialise(live), c))
         /\ \A i \in Mine(materialise(live), c) : i \in materialise(live) /\ Movement(i) /\ ItemOK(i)
         /\ Identified(Mine(materialise(live), c))
         /\ daily_ledger(Mine(materialise(live), c), opening_cash(c)) \in [Year -> Int]
<1>. DEFINE M == materialise(live)
            S == Mine(M, c)
<1>1. IsFiniteSet(M) /\ Identified(M) /\ \A i \in M : Movement(i)
  BY Materialised
<1>. HIDE DEF M
<1>2. IsFiniteSet(S) /\ Identified(S) /\ S \subseteq M
  BY <1>1, FS_Subset DEF Mine, Identified
<1>3. \A i \in S : i \in M /\ Movement(i) /\ ItemOK(i)
  BY <1>1, <1>2 DEF Movement
<1>. HIDE DEF S
<1>4. daily_ledger(S, opening_cash(c)) \in [Year -> Int]
  BY <1>2, <1>3, OpeningInt, LedgerInt
<1>. QED BY <1>2, <1>3, <1>4 DEF M, S

-----------------------------------------------------------------------------
(* The screens.                                                            *)

\* A week's least balance.
LEMMA WeekLow ==
  ASSUME NEW L \in [Year -> Int], NEW mw \in Months \X Weeks
  PROVE  LET low == weekly_view(L)[mw].low
         IN  /\ low \in Int /\ \A d \in week_dates(mw[1], mw[2]) : d \in Year /\ low <= L[d]
             /\ \E d \in week_dates(mw[1], mw[2]) : L[d] = low
<1>. DEFINE D == week_dates(mw[1], mw[2])
            S == {L[d] : d \in D}
<1>1. D \subseteq Year /\ D # {} /\ IsFiniteSet(D)
  <2>. DEFINE a == WeekStart(mw[1], mw[2])
              b == WeekEnd(mw[1], mw[2])
  <2>1. a \in Int /\ b \in Int /\ a <= b /\ start <= a /\ b <= end /\ start \in Int /\ end \in Int /\ D = a..b
    BY WeekBounds, Calendar DEF week_dates
  <2>. HIDE DEF a, b, D
  <2>2. D \subseteq Year /\ D # {}
    <3>1. a \in D
      BY ONLY <2>1
    <3>2. \A d \in D : d \in start..end
      BY ONLY <2>1
    <3>. QED BY ONLY <3>1, <3>2 DEF Year
  <2>3. IsFiniteSet(D)
    BY ONLY <2>1, FS_Interval
  <2>. QED BY <2>2, <2>3
<1>2. IsFiniteSet(S) /\ S # {} /\ S \in SUBSET Int
  <2>. HIDE DEF D
  <2>. QED BY <1>1, ImageFinite
<1>3. Min(S) \in S /\ \A x \in S : Min(S) <= x
  <2>. HIDE DEF S
  <2>. QED BY <1>2, MinIs
<1>4. weekly_view(L)[mw].low = Min(S)
  BY DEF weekly_view
<1>. HIDE DEF D
<1>5. Min(S) \in Int /\ (\A d \in D : d \in Year /\ Min(S) <= L[d]) /\ \E d \in D : L[d] = Min(S)
  BY <1>1, <1>2, <1>3
<1>. HIDE DEF S
<1>. QED BY <1>4, <1>5 DEF D

LEMMA BoundIs ==
  ASSUME NEW S, NEW c
  PROVE  /\ filter_run(Of(S, c), "bound") = Mine(S, c)
         /\ LedgerOf(S, c, "bound") = daily_ledger(Mine(S, c), opening_cash(c))
BY BoundOf DEF LedgerOf

LEMMA TablesTell == TablesOK => ScreensTell
<1>. SUFFICES ASSUME TablesOK, NEW live \in BOOLEAN, NEW c \in Companies
              PROVE  LET mine == filter_run(Of(materialise(live), c), "bound")
                         ledger == LedgerOf(materialise(live), c, "bound")
                         floor == buffer_floor(c)
                         weekly == weekly_view(ledger)
                     IN  /\ Min({weekly[mw].low : mw \in Months \X Weeks}) = Lowest(ledger)
                         /\ \A mw \in Months \X Weeks :
                              weekly[mw].low < floor <=> \E d \in Year : ledger[d] < floor /\ week_of_date(d) = mw
                         /\ \A i \in CoveringDelays(mine, ledger, floor) :
                              i.date <= WorstDay(ledger)
                              /\ \A d \in i.date..WorstDay(ledger) : ledger[d] + i.amount >= floor
  BY DEF ScreensTell
<1>. DEFINE mine == Mine(materialise(live), c)
            L == daily_ledger(mine, opening_cash(c))
            floor == buffer_floor(c)
            weekly == weekly_view(L)
            W == Months \X Weeks
<1>0. filter_run(Of(materialise(live), c), "bound") = mine /\ LedgerOf(materialise(live), c, "bound") = L
  BY BoundIs
<1>1. L \in [Year -> Int] /\ (\A i \in mine : ItemOK(i) /\ i.date \in Year) /\ floor \in Int
  BY MineIs, FloorInt DEF Movement
<1>. HIDE DEF L, mine, floor
<1>2. \A mw \in W : /\ weekly[mw].low \in Int
                    /\ \A d \in week_dates(mw[1], mw[2]) : d \in Year /\ weekly[mw].low <= L[d]
                    /\ \E d \in week_dates(mw[1], mw[2]) : L[d] = weekly[mw].low
  BY <1>1, WeekLow
<1>3. Min({weekly[mw].low : mw \in W}) = Lowest(L)
  <2>. DEFINE g == [mw \in W |-> weekly[mw].low]
              S == {g[mw] : mw \in W}
  <2>1. S = {weekly[mw].low : mw \in W}
    OBVIOUS
  <2>2. IsFiniteSet(W) /\ W # {}
    <3>1. IsFiniteSet(Months) /\ IsFiniteSet(Weeks)
      BY FS_Interval, CalendarAssumption, Calendar DEF Months, Weeks
    <3>2. W # {}
      BY Ahead
    <3>. QED BY <3>1, <3>2, FS_Product
  <2>3. IsFiniteSet(S)
    <3>. HIDE DEF g, W
    <3>. QED BY <2>2, ImageFinite
  <2>4. S # {} /\ S \in SUBSET Int
    BY <1>2, <2>2
  <2>5. Min(S) \in S /\ \A x \in S : Min(S) <= x
    <3>. HIDE DEF S
    <3>. QED BY <2>3, <2>4, MinIs
  <2>6. PICK mw \in W : Min(S) = weekly[mw].low
    BY <2>5
  <2>7. PICK d \in Year : L[d] = Min(S)
    <3>. HIDE DEF weekly, S, W
    <3>. QED BY <1>2, <2>6
  <2>8. Lowest(L) <= Min(S)
    BY <1>1, <2>7, LowestIs
  <2>9. Min(S) <= Lowest(L)
    <3>1. PICK e \in Year : L[e] = Lowest(L)
      BY <1>1, LowestIs
    <3>. DEFINE v == week_of_date(e)
    <3>2. v \in W /\ e \in week_dates(v[1], v[2])
      BY WeekOfDay
    <3>. HIDE DEF v
    <3>3. weekly[v].low \in S
      BY <3>2
    <3>4. weekly[v].low <= L[e] /\ Min(S) <= weekly[v].low /\ weekly[v].low \in Int /\ Min(S) \in Int /\ L[e] \in Int
      <4>. HIDE DEF weekly, S, W
      <4>. QED BY <1>1, <1>2, <2>4, <2>5, <3>2, <3>3
    <3>. HIDE DEF weekly, S, W
    <3>. QED BY ONLY <3>1, <3>4
  <2>10. Lowest(L) \in Int /\ Min(S) \in Int
    BY <1>1, <2>4, <2>5, LowestIs
  <2>. HIDE DEF S
  <2>11. Min(S) = Lowest(L)
    BY ONLY <2>8, <2>9, <2>10
  <2>. QED BY ONLY <2>1, <2>11
<1>4. \A mw \in W : weekly[mw].low < floor <=> \E d \in Year : L[d] < floor /\ week_of_date(d) = mw
  <2>. SUFFICES ASSUME NEW mw \in W
                PROVE  weekly[mw].low < floor <=> \E d \in Year : L[d] < floor /\ week_of_date(d) = mw
    OBVIOUS
  <2>. HIDE DEF weekly
  <2>1. ASSUME weekly[mw].low < floor PROVE \E d \in Year : L[d] < floor /\ week_of_date(d) = mw
    <3>1. PICK d \in week_dates(mw[1], mw[2]) : L[d] = weekly[mw].low
      BY <1>2
    <3>2. d \in Year
      BY <1>2
    <3>3. week_of_date(d) = mw
      BY <3>2, WeekOfDay
    <3>. QED BY <2>1, <3>1, <3>2, <3>3
  <2>2. ASSUME NEW d \in Year, L[d] < floor, week_of_date(d) = mw PROVE weekly[mw].low < floor
    <3>1. d \in week_dates(mw[1], mw[2])
      BY <2>2, WeekOfDay
    <3>2. weekly[mw].low <= L[d] /\ weekly[mw].low \in Int /\ L[d] \in Int
      BY <1>1, <1>2, <3>1
    <3>. QED BY ONLY <1>1, <2>2, <3>2
  <2>. QED BY <2>1, <2>2
<1>5. ASSUME NEW i \in CoveringDelays(mine, L, floor)
      PROVE  i.date <= WorstDay(L) /\ \A d \in i.date..WorstDay(L) : L[d] + i.amount >= floor
  <2>1. i \in mine /\ i.date <= WorstDay(L) /\ i.amount >= floor - Lowest(L)
    BY DEF CoveringDelays, movable
  <2>2. i.date \in Year /\ i.amount \in Int /\ WorstDay(L) \in Year
    BY <1>1, <2>1, WorstDayIs DEF ItemOK
  <2>3. ASSUME NEW d \in i.date..WorstDay(L) PROVE L[d] + i.amount >= floor
    <3>1. d \in Year
      BY <2>2, Calendar DEF Year
    <3>2. Lowest(L) <= L[d] /\ Lowest(L) \in Int /\ L[d] \in Int
      BY <1>1, <3>1, LowestIs
    <3>. QED BY ONLY <1>1, <2>1, <2>2, <3>2
  <2>. QED BY <2>1, <2>3
<1>6. floor = buffer_floor(c)
  BY DEF floor
<1>. QED BY ONLY <1>0, <1>3, <1>4, <1>5, <1>6

\* What the weekly view shows of a company's ledger is true of its days, and an
\* outflow that is said to cover the shortfall covers it (fpa_cash.py).
THEOREM ScreensTellTheLedger == ForecastSpec => []ScreensTell
BY Tables, TablesTell, PTL

-----------------------------------------------------------------------------
(* The verdict.                                                            *)

\* Before the day a ledger is safe until, every day holds.
LEMMA SafeDays ==
  ASSUME NEW L \in [Year -> Int], NEW floor \in Int, NEW d \in start..safe_until(L, floor)
  PROVE  d \in Year /\ L[d] >= floor /\ L[d] >= 0
<1>. DEFINE B == Breaches(L, floor)
            b == FirstBreach(L, floor)
<1>1. start \in Int /\ end \in Int /\ NoDate < start /\ NoDate \in Int
  BY Calendar, CalendarAssumption DEF NoDate
<1>2. CASE B = {}
  <2>1. safe_until(L, floor) = end
    BY <1>2 DEF safe_until, FirstBreach
  <2>2. d \in Year
    BY <2>1 DEF Year
  <2>3. d \notin B /\ L[d] \in Int
    BY <1>2, <2>2
  <2>. QED BY <2>2, <2>3 DEF Breaches
<1>3. CASE B # {}
  <2>1. B \in SUBSET Int /\ IsFiniteSet(B) /\ B \subseteq Year
    <3>1. B \subseteq Year
      BY DEF Breaches
    <3>. HIDE DEF B
    <3>. QED BY <3>1, YearIs, FS_Subset
  <2>2. b \in B /\ \A e \in B : b <= e
    <3>1. b = Min(B)
      BY <1>3 DEF FirstBreach
    <3>. HIDE DEF B, b
    <3>. QED BY <1>3, <2>1, <3>1, MinIs
  <2>3. b \in Int /\ start <= b /\ b <= end /\ b # NoDate
    <3>. HIDE DEF B, b
    <3>. QED BY <1>1, <2>1, <2>2, YearIs
  <2>4. safe_until(L, floor) = IF b = start THEN NoDate ELSE b - 1
    BY <2>3 DEF safe_until
  <2>5. d \in Int /\ start <= d /\ d <= safe_until(L, floor)
    <3>1. safe_until(L, floor) \in Int
      <4>. HIDE DEF b
      <4>. QED BY ONLY <1>1, <2>3, <2>4
    <3>. QED BY <1>1, <3>1
  <2>6. b # start /\ d <= b - 1
    <3>. HIDE DEF b
    <3>. QED BY ONLY <1>1, <2>3, <2>4, <2>5
  <2>7. d \in Year /\ ~(b <= d)
    <3>. HIDE DEF b
    <3>. QED BY ONLY <1>1, <2>3, <2>5, <2>6 DEF Year
  <2>8. d \notin B /\ L[d] \in Int
    <3>. HIDE DEF b, B
    <3>. QED BY <2>2, <2>7
  <2>. QED BY <2>7, <2>8 DEF Breaches
<1>. QED BY <1>2, <1>3

LEMMA Ranks ==
  /\ VERDICT_RANK("KRITIS") = 1 /\ VERDICT_RANK("TOLAK") = 2
  /\ VERDICT_RANK("WASPADA") = 3 /\ VERDICT_RANK("LULUS") = 4
<1>1. DOMAIN VERDICTS = 1..4 /\ VERDICTS[1] = "KRITIS" /\ VERDICTS[2] = "TOLAK" /\ VERDICTS[3] = "WASPADA"
      /\ VERDICTS[4] = "LULUS"
  BY DEF VERDICTS
<1>2. \A n \in 1..4 : n = 1 \/ n = 2 \/ n = 3 \/ n = 4
  OBVIOUS
<1>. QED BY <1>1, <1>2 DEF VERDICT_RANK

\* More money on every day is no worse a verdict.
LEMMA VerdictMonotone ==
  ASSUME NEW L \in [Year -> Int], NEW K \in [Year -> Int], NEW floor \in Int, \A d \in Year : L[d] <= K[d]
  PROVE  VERDICT_RANK(verdict(K, K, floor)) >= VERDICT_RANK(verdict(L, L, floor))
<1>1. Lowest(L) \in Int /\ Lowest(K) \in Int /\ Lowest(L) <= Lowest(K)
  BY LowestIs, LowestMonotone
<1>2. \A M : verdict(M, M, floor) =
        IF Lowest(M) < 0 THEN "KRITIS"
        ELSE IF Lowest(M) < floor THEN "TOLAK"
        ELSE IF Lowest(M) < floor \/ 4 * (Lowest(M) - floor) < floor THEN "WASPADA"
        ELSE "LULUS"
  BY DEF verdict
<1>. DEFINE Rank(low) == IF low < 0 THEN 1 ELSE IF low < floor THEN 2
                         ELSE IF 4 * (low - floor) < floor THEN 3 ELSE 4
<1>3. \A M : VERDICT_RANK(verdict(M, M, floor)) = Rank(Lowest(M))
  <2>. SUFFICES ASSUME NEW M PROVE VERDICT_RANK(verdict(M, M, floor)) = Rank(Lowest(M))
    OBVIOUS
  <2>1. CASE Lowest(M) < 0
    BY <1>2, <2>1, Ranks
  <2>2. CASE ~(Lowest(M) < 0) /\ Lowest(M) < floor
    BY <1>2, <2>2, Ranks
  <2>3. CASE ~(Lowest(M) < 0) /\ ~(Lowest(M) < floor) /\ 4 * (Lowest(M) - floor) < floor
    BY <1>2, <2>3, Ranks
  <2>4. CASE ~(Lowest(M) < 0) /\ ~(Lowest(M) < floor) /\ ~(4 * (Lowest(M) - floor) < floor)
    BY <1>2, <2>4, Ranks
  <2>. QED BY <2>1, <2>2, <2>3, <2>4
<1>4. \A a, b \in Int : a <= b => Rank(a) <= Rank(b) /\ Rank(a) \in Int /\ Rank(b) \in Int
  OBVIOUS
<1>. HIDE DEF Rank
<1>5. Rank(Lowest(L)) <= Rank(Lowest(K)) /\ Rank(Lowest(L)) \in Int /\ Rank(Lowest(K)) \in Int
  BY <1>1, <1>4
<1>. QED BY <1>3, <1>5

\* On another day of its week, money that was put as pessimistically as it can
\* be comes no later, and leaves no sooner.
LEMMA PlacedIs ==
  ASSUME NEW i, Movement(i), policy.week_settlement = "pessimistic", NEW k \in Nat
  PROVE  /\ Placed(i, k) \in Int /\ start <= Placed(i, k)
         /\ IF i.flow = "in" THEN Placed(i, k) <= i.date ELSE i.date <= Placed(i, k)
<1>1. i.date \in Int /\ start <= i.date /\ start \in Int
  BY YearIs DEF Movement, ItemOK
<1>2. CASE i.source \in {"payable", "receivable"}
  <2>1. Placed(i, k) = i.date
    BY <1>2 DEF Placed
  <2>. QED BY <1>1, <2>1
<1>3. CASE i.source \notin {"payable", "receivable"}
  <2>1. PICK mw \in Months \X Weeks : i.date = settlement_date(mw[1], mw[2], i.flow, policy.week_settlement)
    BY <1>3 DEF Movement, InWeek
  <2>. DEFINE a == WeekStart(mw[1], mw[2])
              b == WeekEnd(mw[1], mw[2])
  <2>2. a \in Int /\ b \in Int /\ a <= b /\ start <= a
    BY WeekBounds
  <2>3. week_of_date(i.date) = mw
    BY <2>1, Settlement
  <2>4. Placed(i, k) = SmallerOf(a + k, b)
    BY <1>3, <2>3 DEF Placed
  <2>5. i.date = IF i.flow = "out" THEN a ELSE b
    BY <2>1 DEF settlement_date
  <2>6. i.flow = "in" \/ i.flow = "out"
    BY DEF Movement, ItemOK
  <2>. HIDE DEF a, b
  <2>. QED BY ONLY <1>1, <2>2, <2>4, <2>5, <2>6 DEF SmallerOf
<1>. QED BY <1>2, <1>3

LEMMA TablesToldWell == TablesOK => NoWorseThanTold
<1>. SUFFICES ASSUME TablesOK, policy.week_settlement = "pessimistic", PartsArePaid,
                     NEW live \in BOOLEAN, NEW c \in Companies
              PROVE  LET mine == filter_run(Of(materialise(live), c), "bound")
                         floor == buffer_floor(c)
                         opening == opening_cash(c)
                         told == daily_ledger(mine, opening)
                         until == safe_until(told, floor)
                         rank == VERDICT_RANK(verdict(told, told, floor))
                     IN  \A off \in [mine -> 0..LongestWeek - 1] :
                           LET actual == daily_ledger({[i EXCEPT !.date = Placed(i, off[i])] : i \in mine}, opening) IN
                           /\ \A d \in start..until : actual[d] >= floor /\ actual[d] >= 0
                           /\ VERDICT_RANK(verdict(actual, actual, floor)) >= rank
  BY DEF NoWorseThanTold
<1>. DEFINE mine == Mine(materialise(live), c)
            floor == buffer_floor(c)
            opening == opening_cash(c)
            told == daily_ledger(mine, opening)
<1>0. filter_run(Of(materialise(live), c), "bound") = mine
  BY BoundOf
<1>1. /\ IsFiniteSet(mine) /\ Identified(mine) /\ told \in [Year -> Int]
      /\ \A i \in mine : Movement(i) /\ ItemOK(i) /\ i.amount \in Nat
  <2>1. \A i \in mine : i \in materialise(live) /\ Movement(i) /\ ItemOK(i)
    BY MineIs
  <2>2. \A i \in materialise(live) : i.amount \in Nat
    BY Materialised
  <2>. QED BY <2>1, <2>2, MineIs
<1>2. floor \in Int /\ opening \in Int
  BY FloorInt, OpeningInt
<1>. HIDE DEF mine, floor, opening
<1>3. ASSUME NEW off \in [mine -> 0..LongestWeek - 1]
      PROVE  LET actual == daily_ledger({[i EXCEPT !.date = Placed(i, off[i])] : i \in mine}, opening)
             IN  /\ \A d \in start..safe_until(told, floor) : actual[d] >= floor /\ actual[d] >= 0
                 /\ VERDICT_RANK(verdict(actual, actual, floor)) >= VERDICT_RANK(verdict(told, told, floor))
  <2>. DEFINE m == [i \in mine |-> [i EXCEPT !.date = Placed(i, off[i])]]
              n == [i \in mine |-> i]
              actual == daily_ledger({m[i] : i \in mine}, opening)
  <2>1. {m[i] : i \in mine} = {[i EXCEPT !.date = Placed(i, off[i])] : i \in mine} /\ {n[i] : i \in mine} = mine
    OBVIOUS
  <2>2. \A i \in mine : /\ ItemOK(m[i]) /\ ItemOK(n[i]) /\ m[i].source = i.source /\ m[i].ref = i.ref
                        /\ \A d \in Int : Effect(n[i], d) <= Effect(m[i], d)
    <3>. SUFFICES ASSUME NEW i \in mine
                  PROVE  /\ ItemOK(m[i]) /\ ItemOK(n[i]) /\ m[i].source = i.source /\ m[i].ref = i.ref
                         /\ \A d \in Int : Effect(n[i], d) <= Effect(m[i], d)
      OBVIOUS
    <3>. DEFINE x == Placed(i, off[i])
                j == [i EXCEPT !.date = x]
    <3>1. off[i] \in Nat
      OBVIOUS
    <3>2. x \in Int /\ start <= x /\ IF i.flow = "in" THEN x <= i.date ELSE i.date <= x
      BY <1>1, <3>1, PlacedIs
    <3>3. ItemOK(i) /\ i.amount \in Nat
      BY <1>1
    <3>4. m[i] = j /\ n[i] = i
      OBVIOUS
    <3>5. ItemOK(j) /\ j.date = x /\ j.flow = i.flow /\ j.amount = i.amount /\ j.source = i.source /\ j.ref = i.ref
      <4>. HIDE DEF x
      <4>. QED BY <3>2, <3>3, Redated
    <3>. HIDE DEF x, j, m, n
    <3>6. \A d \in Int : Effect(i, d) <= Effect(j, d)
      BY <3>2, <3>3, <3>5, LaterEffect
    <3>. QED BY <3>3, <3>4, <3>5, <3>6
  <2>3. \A i \in mine : n[i] = i
    OBVIOUS
  <2>. HIDE DEF m, n
  <2>4. /\ \A i, j \in mine : m[i] = m[j] => i = j
        /\ \A i, j \in mine : n[i] = n[j] => i = j
    BY <1>1, <2>2, <2>3 DEF Identified
  <2>5. \A d \in Year : told[d] <= actual[d]
    <3>. SUFFICES ASSUME NEW d \in Year PROVE told[d] <= actual[d]
      OBVIOUS
    <3>1. d \in Int
      BY YearIs
    <3>2. \A i \in mine : ItemOK(m[i]) /\ ItemOK(n[i]) /\ Effect(n[i], d) <= Effect(m[i], d)
      BY <2>2, <3>1
    <3>3. daily_ledger(Changed(n, mine), opening)[d] <= daily_ledger(Changed(m, mine), opening)[d]
      <4>1. IsFiniteSet(mine) /\ opening \in Int
        BY <1>1, <1>2
      <4>. QED BY ONLY <2>4, <3>2, <4>1, d \in Year, LedgersCompare
    <3>. QED BY <2>1, <3>3 DEF Changed
  <2>6. actual \in [Year -> Int]
    <3>. DEFINE T == {m[i] : i \in mine}
    <3>1. IsFiniteSet(T) /\ \A t \in T : ItemOK(t)
      BY <1>1, <2>2, ImageFinite
    <3>. HIDE DEF T
    <3>2. daily_ledger(T, opening) \in [Year -> Int]
      BY <1>2, <3>1, LedgerInt
    <3>. QED BY <3>2 DEF T
  <2>. HIDE DEF told, actual
  <2>7. ASSUME NEW d \in start..safe_until(told, floor)
        PROVE  actual[d] >= floor /\ actual[d] >= 0
    <3>1. d \in Year /\ told[d] >= floor /\ told[d] >= 0
      BY <1>1, <1>2, <2>7, SafeDays
    <3>2. told[d] \in Int /\ actual[d] \in Int /\ told[d] <= actual[d]
      BY <1>1, <2>5, <2>6, <3>1
    <3>. QED BY ONLY <1>2, <3>1, <3>2
  <2>8. VERDICT_RANK(verdict(actual, actual, floor)) >= VERDICT_RANK(verdict(told, told, floor))
    BY <1>1, <1>2, <2>5, <2>6, VerdictMonotone
  <2>9. actual = daily_ledger({[i EXCEPT !.date = Placed(i, off[i])] : i \in mine}, opening)
    BY <2>1 DEF actual
  <2>. QED BY ONLY <2>7, <2>8, <2>9
<1>4. floor = buffer_floor(c) /\ opening = opening_cash(c)
  BY DEF floor, opening
<1>. QED BY ONLY <1>0, <1>3, <1>4 DEF told

\* As long as no part of a spread brings money in, the forecast is on the safe
\* side of every settlement within the weeks it knows (fpa_cash.py:58): no day
\* it calls safe fails, and its verdict is none too good.
THEOREM ForecastIsOnTheSafeSide == ForecastSpec => []NoWorseThanTold
BY Tables, TablesToldWell, PTL

-----------------------------------------------------------------------------
(* What is committed.                                                      *)

Dated(c) == item(Settles(c, "out"), Owner[c.investment], "out", c.amount, c.certainty, "investment", FALSE, c)

LEMMA DatedIs ==
  ASSUME NEW c
  PROVE  /\ Dated(c).flow = "out" /\ Dated(c).certainty = c.certainty /\ Dated(c).amount = c.amount
         /\ Dated(c).source = "investment" /\ Dated(c).ref = c
<1>1. PICK df \in BOOLEAN :
        Dated(c) = item(Settles(c, "out"), Owner[c.investment], "out", c.amount, c.certainty, "investment", df, c)
  BY DEF Dated
<1>. QED BY <1>1, ItemFields

\* The sum of what was made of the elements of a set is the sum over the set.
LEMMA AmountMapped ==
  ASSUME NEW S, IsFiniteSet(S), NEW m, NEW g, \A x \in S : g[x] \in Int /\ m[x].amount = g[x],
         \A x, y \in S : m[x] = m[y] => x = y
  PROVE  AmountOf({m[x] : x \in S}) = SumFunctionOnSet(g, S)
<1>. DEFINE T == {m[x] : x \in S}
            f == [t \in T |-> t.amount]
<1>1. IsFiniteSet(T)
  BY ImageFinite
<1>2. (\A t \in T : f[t] = t.amount) /\ \A x \in S : f[m[x]] = g[x]
  OBVIOUS
<1>3. AmountOf(T) = SumFunctionOnSet(f, T)
  <2>. HIDE DEF T, f
  <2>. QED BY <1>1, <1>2, AmountIs
<1>4. SumFunctionOnSet(f, T) = SumFunctionOnSet(g, S)
  <2>. HIDE DEF f
  <2>. QED BY <1>2, SumImage
<1>. QED BY <1>3, <1>4

\* The bound run counts every outflow that is committed or planned.
LEMMA BoundCounts ==
  ASSUME NEW S
  PROVE  /\ filter_run(S, "bound") \subseteq S
         /\ \A t \in S : t.flow = "out" =>
              (t \in filter_run(S, "bound") <=> t.certainty \in {"committed", "planned"})
<1>1. RUN_FILTERS["bound"]["out"] = {"committed", "planned"}
  BY DEF RUN_FILTERS
<1>2. filter_run(S, "bound") = {t \in S : t.certainty \in RUN_FILTERS["bound"][t.flow]}
  BY DEF filter_run
<1>. QED BY <1>1, <1>2

LEMMA DatedCounted ==
  ASSUME TablesOK, NEW i \in Investments
  PROVE  LET counted == filter_run(materialise(TRUE), "bound")
             dated == {c \in counted : c.source = "investment" /\ c.ref.investment = i}
             elsewhere == {c \in commitments : c.investment = i /\ (~c.thisYear \/ c.certainty = "expected")}
         IN  AmountOf(dated) + AmountOf(elsewhere) = ScheduledIn(i) /\ AmountOf(dated) \in Int /\ AmountOf(elsewhere) \in Int
<1>. DEFINE counted == filter_run(materialise(TRUE), "bound")
            dated == {c \in counted : c.source = "investment" /\ c.ref.investment = i}
            S == {c \in commitments : c.investment = i}
            D == {c \in S : c.thisYear /\ c.certainty # "expected"}
            E == {c \in commitments : c.investment = i /\ (~c.thisYear \/ c.certainty = "expected")}
            m == [c \in D |-> Dated(c)]
            g == [c \in S |-> c.amount]
<1>1. \A c \in S : /\ c.certainty \in CERTAINTIES \ {"speculative"} /\ c.thisYear \in BOOLEAN /\ c.amount \in Nat
                   /\ c \in commitments
  BY DEF TablesOK, Commitment
<1>2. IsFiniteSet(S) /\ IsFiniteSet(D) /\ IsFiniteSet(E) /\ E = S \ D /\ D \in SUBSET S
  <2>1. IsFiniteSet(commitments)
    BY DEF TablesOK
  <2>2. S \subseteq commitments /\ D \subseteq commitments /\ E \subseteq commitments
    OBVIOUS
  <2>3. E = S \ D
    BY <1>1
  <2>. QED BY <2>1, <2>2, <2>3, FS_Subset
<1>3. \A c \in commitments : c.thisYear => Dated(c) \in materialise(TRUE)
  BY DEF materialise, CommitmentItems, Dated
<1>4. \A t \in CommitmentItems : \E c \in commitments : c.thisYear /\ t = Dated(c)
  BY DEF CommitmentItems, Dated
<1>5. dated = {m[c] : c \in D}
  <2>1. ASSUME NEW c \in D PROVE m[c] \in dated
    <3>1. Dated(c) \in materialise(TRUE) /\ m[c] = Dated(c)
      BY <1>3
    <3>2. c.certainty \in {"committed", "planned"}
      BY <1>1 DEF CERTAINTIES
    <3>3. Dated(c) \in counted
      BY <3>1, <3>2, DatedIs, BoundCounts
    <3>. QED BY <3>1, <3>3, DatedIs
  <2>2. ASSUME NEW t \in dated PROVE \E c \in D : t = m[c]
    <3>1. t \in materialise(TRUE)
      BY BoundCounts
    <3>2. t \in CommitmentItems
      BY <3>1, Materialised
    <3>3. PICK c \in commitments : c.thisYear /\ t = Dated(c)
      BY <1>4, <3>2
    <3>4. c.investment = i /\ c.certainty \in {"committed", "planned"}
      <4>1. t.flow = "out" /\ t.certainty = c.certainty /\ t.ref = c
        BY <3>3, DatedIs
      <4>2. t \in counted /\ t.ref.investment = i
        OBVIOUS
      <4>3. t.certainty \in {"committed", "planned"}
        <5>. HIDE DEF dated
        <5>. QED BY <3>1, <4>1, <4>2, BoundCounts
      <4>. QED BY ONLY <4>1, <4>2, <4>3
    <3>5. c \in D
      BY <3>3, <3>4
    <3>. QED BY <3>3, <3>5
  <2>. HIDE DEF dated, m, D
  <2>. QED BY <2>1, <2>2
<1>6. \A c \in D : g[c] \in Int /\ m[c].amount = g[c]
  BY <1>1, DatedIs
<1>7. \A b, c \in D : m[b] = m[c] => b = c
  BY DatedIs
<1>8. AmountOf({m[c] : c \in D}) = SumFunctionOnSet(g, D)
  <2>. HIDE DEF m, g, D
  <2>. QED BY <1>2, <1>6, <1>7, AmountMapped
<1>9. (\A c \in S : g[c] = c.amount /\ g[c] \in Int) /\ \A c \in E : g[c] = c.amount /\ g[c] \in Int
  BY <1>1
<1>10. AmountOf(E) = SumFunctionOnSet(g, E) /\ ScheduledIn(i) = SumFunctionOnSet(g, S)
  <2>1. ScheduledIn(i) = AmountOf(S)
    BY DEF ScheduledIn
  <2>. HIDE DEF S, E, g
  <2>. QED BY <1>2, <1>9, <2>1, AmountIs
<1>11. SumFunctionOnSet(g, S) = SumFunctionOnSet(g, D) + SumFunctionOnSet(g, S \ D)
  <2>1. \A c \in S : g[c] \in Int
    BY <1>9
  <2>. HIDE DEF S, D, g
  <2>. QED BY ONLY <1>2, <2>1, SumSplit
<1>12. SumFunctionOnSet(g, D) \in Int /\ SumFunctionOnSet(g, E) \in Int
  <2>1. (\A c \in D : g[c] \in Int) /\ \A c \in E : g[c] \in Int
    BY <1>6, <1>9
  <2>. HIDE DEF S, D, E, g
  <2>. QED BY ONLY <1>2, <2>1, SumInt
<1>. HIDE DEF g, m, D
<1>13. AmountOf(dated) + AmountOf(E) = ScheduledIn(i) /\ AmountOf(dated) \in Int /\ AmountOf(E) \in Int
  <2>. HIDE DEF dated, E, S
  <2>. QED BY ONLY <1>2, <1>5, <1>8, <1>10, <1>11, <1>12
<1>. QED BY ONLY <1>13

LEMMA SpreadCounted ==
  ASSUME TablesOK, NEW i \in Investments
  PROVE  LET counted == filter_run(materialise(TRUE), "bound")
             spread == {c \in counted : c.source = "investment_unscheduled" /\ c.ref[1] = i}
         IN  AmountOf(spread) = unscheduled(i)
<1>. DEFINE M == materialise(TRUE)
            counted == filter_run(M, "bound")
            spread == {c \in counted : c.source = "investment_unscheduled" /\ c.ref[1] = i}
            R == RemainingWeeks
            m == [mw \in R |-> Part(i, mw)]
            p == spread_evenly(unscheduled(i), RemainingWeeks)
<1>0. unscheduled(i) \in Nat
  BY Uncommitted
<1>1. ASSUME NEW t \in spread
      PROVE  \E mw \in R : unscheduled(i) > 0 /\ t = Part(i, mw)
  <2>1. t \in M
    BY BoundCounts
  <2>2. t \in UnscheduledItems
    BY <2>1, Materialised
  <2>3. PICK j \in Investments, mw \in R : unscheduled(j) > 0 /\ t = Part(j, mw)
    BY <2>2, UnscheduledItemsAre
  <2>4. t.ref = <<j, mw>>
    BY <2>3, PartIs
  <2>5. j = i
    BY <2>4
  <2>. QED BY <2>3, <2>5
<1>2. CASE unscheduled(i) = 0
  <2>1. spread = {}
    <3>. HIDE DEF spread
    <3>. QED BY <1>1, <1>2
  <2>2. AmountOf({}) = 0
    <3>. DEFINE f == [x \in {} |-> x.amount]
    <3>1. AmountOf({}) = SumFunctionOnSet(f, {})
      BY DEF AmountOf, SumFunction
    <3>. QED BY <3>1, SumEmpty
  <2>. HIDE DEF spread
  <2>3. AmountOf(spread) = unscheduled(i)
    BY ONLY <1>2, <2>1, <2>2
  <2>. QED BY <2>3 DEF spread
<1>3. CASE unscheduled(i) # 0
  <2>1. spread = {m[mw] : mw \in R}
    <3>1. ASSUME NEW mw \in R PROVE m[mw] \in spread
      <4>1. Part(i, mw) \in UnscheduledItems
        <5>. DEFINE J == {k \in Investments : unscheduled(k) > 0}
                    P(j) == {Part(j, o) : o \in RemainingWeeks}
        <5>1. i \in J
          BY <1>0, <1>3
        <5>2. Part(i, mw) \in P(i)
          OBVIOUS
        <5>3. UnscheduledItems = UNION {P(j) : j \in J}
          BY UnscheduledItemsAre
        <5>. HIDE DEF J, P
        <5>. QED BY ONLY <5>1, <5>2, <5>3
      <4>2. Part(i, mw) \in M
        <5>1. UnscheduledItems \subseteq M
          BY DEF materialise
        <5>. QED BY ONLY <4>1, <5>1
      <4>3. Part(i, mw) \in counted
        <5>1. Part(i, mw).flow = "out" /\ Part(i, mw).certainty \in {"committed", "planned"}
          BY DEF Part, item
        <5>. QED BY <4>2, <5>1, BoundCounts
      <4>4. Part(i, mw).source = "investment_unscheduled" /\ Part(i, mw).ref = <<i, mw>>
        BY PartIs
      <4>. HIDE DEF counted
      <4>. QED BY <4>3, <4>4
    <3>2. ASSUME NEW t \in spread PROVE \E mw \in R : t = m[mw]
      BY <1>1
    <3>. HIDE DEF spread, m, R
    <3>. QED BY <3>1, <3>2
  <2>2. IsFiniteSet(R)
    BY Ahead
  <2>3. (\A mw \in R : p[mw] \in Int) /\ SumFunctionOnSet(p, R) = unscheduled(i)
    BY <1>0, SpreadAddsUp
  <2>4. \A mw \in R : p[mw] \in Int /\ m[mw].amount = p[mw]
    BY <2>3, PartIs
  <2>5. \A v, w \in R : m[v] = m[w] => v = w
    <3>. SUFFICES ASSUME NEW v \in R, NEW w \in R, m[v] = m[w] PROVE v = w
      OBVIOUS
    <3>1. <<i, v>> = <<i, w>>
      BY PartIs
    <3>. QED BY <3>1
  <2>6. AmountOf({m[mw] : mw \in R}) = SumFunctionOnSet(p, R)
    <3>. HIDE DEF m, p, R
    <3>. QED BY ONLY <2>2, <2>4, <2>5, AmountMapped
  <2>. HIDE DEF spread, m, R, p
  <2>7. AmountOf(spread) = unscheduled(i)
    BY ONLY <2>1, <2>3, <2>6
  <2>. QED BY <2>7 DEF spread
<1>. QED BY <1>2, <1>3

LEMMA TablesCount == TablesOK => BoundCountsCommitted
<1>. SUFFICES ASSUME TablesOK, NEW i \in Investments
              PROVE  LET counted == filter_run(materialise(TRUE), "bound")
                         dated == {c \in counted : c.source = "investment" /\ c.ref.investment = i}
                         spread == {c \in counted : c.source = "investment_unscheduled" /\ c.ref[1] = i}
                         elsewhere == {c \in commitments : c.investment = i /\ (~c.thisYear \/ c.certainty = "expected")}
                     IN  /\ AmountOf(dated) + AmountOf(spread) + out[i] + AmountOf(elsewhere) >= Committed[i]
                         /\ \A c \in dated \cup spread : c.date \in Year
  BY DEF BoundCountsCommitted
<1>. DEFINE counted == filter_run(materialise(TRUE), "bound")
            dated == {c \in counted : c.source = "investment" /\ c.ref.investment = i}
            spread == {c \in counted : c.source = "investment_unscheduled" /\ c.ref[1] = i}
            elsewhere == {c \in commitments : c.investment = i /\ (~c.thisYear \/ c.certainty = "expected")}
<1>1. /\ AmountOf(dated) + AmountOf(elsewhere) = ScheduledIn(i) /\ AmountOf(dated) \in Int /\ AmountOf(elsewhere) \in Int
      /\ AmountOf(spread) = unscheduled(i)
  BY DatedCounted, SpreadCounted
<1>2. /\ ScheduledIn(i) \in Nat /\ unscheduled(i) \in Nat /\ out[i] \in Nat /\ Committed[i] \in Nat
      /\ unscheduled(i) >= Committed[i] - ScheduledIn(i) - out[i]
  BY Uncommitted
<1>3. \A c \in dated \cup spread : c.date \in Year
  <2>1. \A c \in counted : c \in materialise(TRUE)
    BY BoundCounts
  <2>2. \A c \in materialise(TRUE) : c.date \in Year
    BY Materialised DEF Movement
  <2>. QED BY <2>1, <2>2
<1>4. AmountOf(dated) + AmountOf(spread) + out[i] + AmountOf(elsewhere) >= Committed[i]
  <2>. HIDE DEF dated, spread, elsewhere
  <2>. QED BY ONLY <1>1, <1>2
<1>. QED BY ONLY <1>3, <1>4

\* The forecast drops no commitment (fpa_cash.py:369): what is committed to an
\* investment is paid, dated, spread over the weeks left, or on record elsewhere.
THEOREM NoCommitmentIsDropped == ForecastSpec => []BoundCountsCommitted
BY Tables, TablesCount, PTL

-----------------------------------------------------------------------------
(* The margin.                                                             *)

LEMMA LeastCompany ==
  ASSUME NEW f, NEW g, \A c \in Companies : f[c] \in Int /\ g[c] \in Int /\ f[c] <= g[c]
  PROVE  /\ Min({f[c] : c \in Companies}) <= Min({g[c] : c \in Companies})
         /\ Min({f[c] : c \in Companies}) \in Int /\ Min({g[c] : c \in Companies}) \in Int
<1>. DEFINE S == {f[c] : c \in Companies}
            T == {g[c] : c \in Companies}
<1>1. /\ IsFiniteSet(S) /\ S # {} /\ S \in SUBSET Int
      /\ IsFiniteSet(T) /\ T # {} /\ T \in SUBSET Int
  BY FormAssumption, ImageFinite
<1>2. Min(S) \in S /\ Min(T) \in T /\ \A x \in S : Min(S) <= x
  <2>. HIDE DEF S, T
  <2>. QED BY <1>1, MinIs
<1>3. PICK c \in Companies : Min(T) = g[c]
  BY <1>2
<1>4. Min(S) <= f[c] /\ f[c] <= g[c] /\ f[c] \in Int /\ g[c] \in Int /\ Min(S) \in Int
  BY <1>1, <1>2
<1>. HIDE DEF S, T
<1>5. Min(S) <= Min(T) /\ Min(S) \in Int /\ Min(T) \in Int
  BY ONLY <1>3, <1>4
<1>. QED BY <1>5 DEF S, T

\* Ledgers that are lower on every day leave less headroom and less cash.
LEMMA AxisOrder ==
  ASSUME TablesOK, NEW items, NEW axis, NEW day, NEW l, NEW h,
         \A c \in Companies :
           /\ LedgerOf(apply_axis(items, axis, l, day), c, "bound") \in [Year -> Int]
           /\ LedgerOf(apply_axis(items, axis, h, day), c, "bound") \in [Year -> Int]
           /\ \A d \in Year : LedgerOf(apply_axis(items, axis, h, day), c, "bound")[d]
                                <= LedgerOf(apply_axis(items, axis, l, day), c, "bound")[d]
  PROVE  /\ _run_axis(items, axis, h, day).headroom <= _run_axis(items, axis, l, day).headroom
         /\ _run_axis(items, axis, h, day).cash <= _run_axis(items, axis, l, day).cash
<1>. DEFINE Least(x) == [c \in Companies |-> Lowest(LedgerOf(apply_axis(items, axis, x, day), c, "bound"))]
            Room(x) == [c \in Companies |-> Least(x)[c] - buffer_floor(c)]
<1>1. \A c \in Companies : Least(h)[c] \in Int /\ Least(l)[c] \in Int /\ Least(h)[c] <= Least(l)[c]
  BY LowestIs, LowestMonotone
<1>2. \A c \in Companies : Room(h)[c] \in Int /\ Room(l)[c] \in Int /\ Room(h)[c] <= Room(l)[c]
  <2>. SUFFICES ASSUME NEW c \in Companies
                PROVE  Room(h)[c] \in Int /\ Room(l)[c] \in Int /\ Room(h)[c] <= Room(l)[c]
    OBVIOUS
  <2>1. Room(h)[c] = Least(h)[c] - buffer_floor(c) /\ Room(l)[c] = Least(l)[c] - buffer_floor(c)
    OBVIOUS
  <2>2. buffer_floor(c) \in Int
    BY FloorInt
  <2>3. Least(h)[c] \in Int /\ Least(l)[c] \in Int /\ Least(h)[c] <= Least(l)[c]
    BY <1>1
  <2>. HIDE DEF Least, Room
  <2>. QED BY ONLY <2>1, <2>2, <2>3
<1>3. \A x : /\ _run_axis(items, axis, x, day).headroom = Min({Room(x)[c] : c \in Companies})
             /\ _run_axis(items, axis, x, day).cash = Min({Least(x)[c] : c \in Companies})
  BY DEF _run_axis
<1>. HIDE DEF Least, Room
<1>4. Min({Room(h)[c] : c \in Companies}) <= Min({Room(l)[c] : c \in Companies})
  BY <1>2, LeastCompany
<1>5. Min({Least(h)[c] : c \in Companies}) <= Min({Least(l)[c] : c \in Companies})
  BY <1>1, LeastCompany
<1>. QED BY <1>3, <1>4, <1>5

\* A way to change every movement into a movement that is counted as it was.
Reshapes(m, S) ==
    \A i \in S : /\ ItemOK(m[i]) /\ m[i].company = i.company /\ m[i].flow = i.flow /\ m[i].certainty = i.certainty
                 /\ m[i].source = i.source /\ m[i].ref = i.ref

LEMMA ChangedIs ==
  ASSUME TablesOK, NEW m, Reshapes(m, materialise(TRUE)), NEW c
  PROVE  LET S == Mine(materialise(TRUE), c)
             L == LedgerOf(Changed(m, materialise(TRUE)), c, "bound")
         IN  /\ L = daily_ledger(Changed(m, S), opening_cash(c)) /\ L \in [Year -> Int]
             /\ \A i \in S : ItemOK(m[i])
             /\ \A i, j \in S : m[i] = m[j] => i = j
<1>. DEFINE M == materialise(TRUE)
            S == Mine(M, c)
            T == Changed(m, S)
<1>0. Reshapes(m, M)
  OBVIOUS
<1>1. Mine(Changed(m, M), c) = T
  <2>. HIDE DEF M
  <2>1. ASSUME NEW t \in Mine(Changed(m, M), c) PROVE t \in T
    <3>1. PICK i \in M : t = m[i]
      BY DEF Mine, Changed
    <3>2. t.company = c /\ t.certainty \in RUN_FILTERS["bound"][t.flow]
      BY DEF Mine
    <3>3. i \in S
      BY <1>0, <3>1, <3>2 DEF Mine, Reshapes
    <3>. QED BY <3>1, <3>3 DEF Changed
  <2>2. ASSUME NEW i \in S PROVE m[i] \in Mine(Changed(m, M), c)
    <3>1. i \in M /\ i.company = c /\ i.certainty \in RUN_FILTERS["bound"][i.flow]
      BY DEF Mine
    <3>2. m[i].company = c /\ m[i].certainty \in RUN_FILTERS["bound"][m[i].flow]
      BY <1>0, <3>1 DEF Reshapes
    <3>. QED BY <3>1, <3>2 DEF Mine, Changed
  <2>. HIDE DEF S
  <2>. QED BY <2>1, <2>2 DEF Changed
<1>2. S \subseteq M /\ IsFiniteSet(S) /\ Identified(S)
  BY MineIs
<1>3. (\A i \in S : ItemOK(m[i])) /\ \A i, j \in S : m[i] = m[j] => i = j
  <2>. HIDE DEF S, M
  <2>. QED BY <1>0, <1>2 DEF Identified, Reshapes
<1>4. IsFiniteSet(T) /\ \A t \in T : ItemOK(t)
  <2>. HIDE DEF S
  <2>. QED BY <1>2, <1>3, ImageFinite DEF Changed
<1>5. daily_ledger(T, opening_cash(c)) \in [Year -> Int]
  <2>. HIDE DEF T
  <2>. QED BY <1>4, OpeningInt, LedgerInt
<1>6. LedgerOf(Changed(m, M), c, "bound") = daily_ledger(T, opening_cash(c))
  BY <1>1, BoundIs
<1>. QED BY <1>3, <1>5, <1>6

LEMMA ChangesOrder ==
  ASSUME TablesOK, NEW m, Reshapes(m, materialise(TRUE)), NEW n, Reshapes(n, materialise(TRUE)),
         \A i \in materialise(TRUE), d \in Year : Effect(m[i], d) <= Effect(n[i], d),
         NEW c \in Companies
  PROVE  /\ LedgerOf(Changed(m, materialise(TRUE)), c, "bound") \in [Year -> Int]
         /\ LedgerOf(Changed(n, materialise(TRUE)), c, "bound") \in [Year -> Int]
         /\ \A d \in Year : LedgerOf(Changed(m, materialise(TRUE)), c, "bound")[d]
                              <= LedgerOf(Changed(n, materialise(TRUE)), c, "bound")[d]
<1>. DEFINE M == materialise(TRUE)
            S == Mine(M, c)
            o == opening_cash(c)
<1>1. /\ LedgerOf(Changed(m, M), c, "bound") = daily_ledger(Changed(m, S), o)
      /\ LedgerOf(Changed(m, M), c, "bound") \in [Year -> Int]
      /\ \A i \in S : ItemOK(m[i])
      /\ \A i, j \in S : m[i] = m[j] => i = j
  BY ChangedIs
<1>2. /\ LedgerOf(Changed(n, M), c, "bound") = daily_ledger(Changed(n, S), o)
      /\ LedgerOf(Changed(n, M), c, "bound") \in [Year -> Int]
      /\ \A i \in S : ItemOK(n[i])
      /\ \A i, j \in S : n[i] = n[j] => i = j
  BY ChangedIs
<1>3. IsFiniteSet(S) /\ S \subseteq M /\ o \in Int
  BY MineIs, OpeningInt
<1>4. \A d \in Year : daily_ledger(Changed(m, S), o)[d] <= daily_ledger(Changed(n, S), o)[d]
  <2>. SUFFICES ASSUME NEW d \in Year
                PROVE  daily_ledger(Changed(m, S), o)[d] <= daily_ledger(Changed(n, S), o)[d]
    OBVIOUS
  <2>1. \A i \in S : Effect(m[i], d) <= Effect(n[i], d)
    <3>. HIDE DEF S
    <3>. QED BY <1>3
  <2>2. /\ \A i \in S : ItemOK(m[i]) /\ ItemOK(n[i])
        /\ \A i, j \in S : m[i] = m[j] => i = j
        /\ \A i, j \in S : n[i] = n[j] => i = j
    BY <1>1, <1>2
  <2>3. \A i \in S : ItemOK(m[i]) /\ ItemOK(n[i]) /\ Effect(m[i], d) <= Effect(n[i], d)
    BY ONLY <2>1, <2>2
  <2>4. IsFiniteSet(S) /\ o \in Int
    BY ONLY <1>3
  <2>. HIDE DEF S, o, M
  <2>. QED BY ONLY <2>2, <2>3, <2>4, d \in Year, LedgersCompare
<1>. QED BY <1>1, <1>2, <1>4

\* The movements the margin is measured on: none brings in less than nothing.
LEMMA Measured ==
  ASSUME TablesOK, PartsArePaid
  PROVE  /\ IsFiniteSet(materialise(TRUE))
         /\ \A i \in materialise(TRUE) :
              /\ Movement(i) /\ ItemOK(i) /\ i.amount \in Nat /\ i.source # "crisis" /\ i.flow \in {"in", "out"}
              /\ i.date \in Year /\ i.date \in Int /\ start <= i.date
              /\ i.source = "investment_unscheduled" => i.flow = "out"
<1>1. TRUE \in BOOLEAN
  OBVIOUS
<1>2. \A i \in materialise(TRUE) : i.amount \in Nat
  BY <1>1, Materialised
<1>. QED BY <1>1, <1>2, Materialised DEF Movement, ItemOK

\* Money is no earlier when its payment date is pulled no further forward.
LEMMA Pulled ==
  ASSUME NEW d \in Year
  PROVE  PulledForward(d) \in Int /\ start <= PulledForward(d) /\ PulledForward(d) <= d
<1>. DEFINE m == week_of_date(d)[1]
            n == ((m - 1) % HalfYear) + 1
            day == MonthStart[n] + d - MonthStart[m]
<1>1. d \in Int /\ start <= d /\ start \in Int
  BY YearIs
<1>2. m \in Months /\ MonthStart[m] <= d /\ MonthStart[m] \in Int
  <2>1. m \in Months /\ d \in week_dates(m, week_of_date(d)[2]) /\ week_of_date(d)[2] \in Weeks
    BY WeekOfDay
  <2>2. /\ MonthStart[m] <= WeekStart(m, week_of_date(d)[2]) /\ WeekStart(m, week_of_date(d)[2]) \in Int
        /\ WeekEnd(m, week_of_date(d)[2]) \in Int
    BY <2>1, WeekBounds
  <2>3. WeekStart(m, week_of_date(d)[2]) <= d
    BY <1>1, <2>1, <2>2 DEF week_dates
  <2>4. MonthStart[m] \in Int
    BY <2>1, Calendar
  <2>. HIDE DEF m
  <2>. QED BY ONLY <1>1, <2>1, <2>2, <2>3, <2>4
<1>3. HalfYear \in Nat \ {0} /\ m \in Nat \ {0} /\ m < Len(MonthStart) /\ Len(MonthStart) \in Nat
  <2>1. Len(MonthStart) \in Nat /\ Len(MonthStart) > 2
    BY CalendarAssumption
  <2>. HIDE DEF m
  <2>. QED BY ONLY <1>2, <2>1 DEF HalfYear, Months
<1>4. (m - 1) % HalfYear \in 0..HalfYear - 1
  <2>. HIDE DEF m
  <2>. QED BY ONLY <1>3
<1>5. n \in Nat \ {0} /\ n <= HalfYear
  <2>. HIDE DEF m
  <2>. QED BY ONLY <1>3, <1>4
<1>6. CASE m > HalfYear /\ day < MonthStart[n + 1]
  <2>1. PulledForward(d) = day
    BY <1>6 DEF PulledForward
  <2>2. n \in 1..Len(MonthStart) /\ m \in 1..Len(MonthStart) /\ n < m
    <3>. HIDE DEF m, n
    <3>. QED BY ONLY <1>3, <1>5, <1>6
  <2>3. MonthStart[n] < MonthStart[m] /\ MonthStart[n] \in Int /\ start <= MonthStart[n]
    <3>1. 1 \in 1..Len(MonthStart) /\ 1 <= n
      <4>. HIDE DEF m, n
      <4>. QED BY ONLY <1>3, <1>5
    <3>. HIDE DEF m, n
    <3>. QED BY <2>2, <3>1, Calendar DEF start
  <2>. HIDE DEF m, n
  <2>. QED BY ONLY <1>1, <1>2, <2>1, <2>3
<1>7. CASE ~(m > HalfYear /\ day < MonthStart[n + 1])
  <2>1. PulledForward(d) = d
    BY <1>7 DEF PulledForward
  <2>. QED BY <1>1, <2>1
<1>. QED BY <1>6, <1>7

-----------------------------------------------------------------------------
(* One lemma per axis: the harder level leaves less.                       *)

AtMost(axis, day, h, l) ==
    /\ _run_axis(materialise(TRUE), axis, h, day).headroom <= _run_axis(materialise(TRUE), axis, l, day).headroom
    /\ _run_axis(materialise(TRUE), axis, h, day).cash <= _run_axis(materialise(TRUE), axis, l, day).cash

\* When both levels change every movement.
LEMMA MappedAxis ==
  ASSUME TablesOK, NEW axis, NEW day, NEW l, NEW h,
         NEW m, Reshapes(m, materialise(TRUE)), NEW n, Reshapes(n, materialise(TRUE)),
         apply_axis(materialise(TRUE), axis, h, day) = Changed(m, materialise(TRUE)),
         apply_axis(materialise(TRUE), axis, l, day) = Changed(n, materialise(TRUE)),
         \A i \in materialise(TRUE), d \in Year : Effect(m[i], d) <= Effect(n[i], d)
  PROVE  AtMost(axis, day, h, l)
<1>1. \A c \in Companies :
           /\ LedgerOf(apply_axis(materialise(TRUE), axis, l, day), c, "bound") \in [Year -> Int]
           /\ LedgerOf(apply_axis(materialise(TRUE), axis, h, day), c, "bound") \in [Year -> Int]
           /\ \A d \in Year : LedgerOf(apply_axis(materialise(TRUE), axis, h, day), c, "bound")[d]
                                <= LedgerOf(apply_axis(materialise(TRUE), axis, l, day), c, "bound")[d]
  <2>. DEFINE M == materialise(TRUE)
  <2>. SUFFICES ASSUME NEW c \in Companies
                PROVE  /\ LedgerOf(apply_axis(M, axis, l, day), c, "bound") \in [Year -> Int]
                       /\ LedgerOf(apply_axis(M, axis, h, day), c, "bound") \in [Year -> Int]
                       /\ \A d \in Year : LedgerOf(apply_axis(M, axis, h, day), c, "bound")[d]
                                            <= LedgerOf(apply_axis(M, axis, l, day), c, "bound")[d]
    OBVIOUS
  <2>1. /\ LedgerOf(Changed(m, M), c, "bound") \in [Year -> Int]
        /\ LedgerOf(Changed(n, M), c, "bound") \in [Year -> Int]
        /\ \A d \in Year : LedgerOf(Changed(m, M), c, "bound")[d] <= LedgerOf(Changed(n, M), c, "bound")[d]
    BY ChangesOrder
  <2>2. apply_axis(M, axis, h, day) = Changed(m, M) /\ apply_axis(M, axis, l, day) = Changed(n, M)
    OBVIOUS
  <2>. HIDE DEF M
  <2>. QED BY ONLY <2>1, <2>2
<1>. QED BY <1>1, AxisOrder DEF AtMost

LEMMA UnitIs == Unit \in Nat \ {0}
BY StepAssumption

LEMMA RevenueAxis ==
  ASSUME TablesOK, PartsArePaid, NEW day, NEW l \in Nat
  PROVE  AtMost("revenue_realisation", day, l, l + 1)
<1>. DEFINE M == materialise(TRUE)
            V(i, x) == IF i.flow = "in" THEN [i EXCEPT !.amount = Share(i.amount, x, Unit)] ELSE i
            m == [i \in M |-> V(i, l)]
            n == [i \in M |-> V(i, l + 1)]
<1>1. \A x : apply_axis(M, "revenue_realisation", x, day) = {V(i, x) : i \in M}
  BY DEF apply_axis
<1>2. /\ apply_axis(M, "revenue_realisation", l, day) = Changed(m, M)
      /\ apply_axis(M, "revenue_realisation", l + 1, day) = Changed(n, M)
  <2>1. {m[i] : i \in M} = {V(i, l) : i \in M} /\ {n[i] : i \in M} = {V(i, l + 1) : i \in M}
    <3>. HIDE DEF V, M
    <3>. QED OBVIOUS
  <2>. HIDE DEF V, M, m, n
  <2>. QED BY ONLY <1>1, <2>1 DEF Changed
<1>3. ASSUME NEW i \in M, NEW x \in Nat
      PROVE  LET j == V(i, x)
             IN  /\ ItemOK(j) /\ j.company = i.company /\ j.flow = i.flow /\ j.certainty = i.certainty
                 /\ j.source = i.source /\ j.ref = i.ref /\ j.date = i.date
                 /\ j.amount = IF i.flow = "in" THEN Share(i.amount, x, Unit) ELSE i.amount
  <2>1. ItemOK(i) /\ i.amount \in Nat
    BY Measured
  <2>2. Share(i.amount, x, Unit) \in Int
    <3>1. i.amount \in Int /\ x \in Int
      BY ONLY <2>1, x \in Nat
    <3>. QED BY ONLY <3>1, UnitIs, ShareInt
  <2>. HIDE DEF M
  <2>3. CASE i.flow = "in"
    BY <2>1, <2>2, <2>3, Revalued
  <2>4. CASE i.flow # "in"
    BY <2>1, <2>4
  <2>. QED BY <2>3, <2>4
<1>4. \A i \in M : m[i] = V(i, l) /\ n[i] = V(i, l + 1)
  OBVIOUS
<1>. HIDE DEF V, m, n
<1>5. Reshapes(m, M) /\ Reshapes(n, M)
  <2>1. l + 1 \in Nat
    OBVIOUS
  <2>. HIDE DEF M
  <2>. QED BY <1>3, <1>4, <2>1 DEF Reshapes
<1>6. ASSUME NEW i \in M, NEW d \in Year PROVE Effect(m[i], d) <= Effect(n[i], d)
  <2>1. d \in Int /\ l + 1 \in Nat /\ l <= l + 1
    BY YearIs
  <2>2. i.amount \in Nat /\ i.amount <= i.amount
    <3>1. i.amount \in Nat
      BY Measured
    <3>. QED BY ONLY <3>1
  <2>3. Share(i.amount, l, Unit) <= Share(i.amount, l + 1, Unit)
    BY <2>1, <2>2, UnitIs, ShareMonotone
  <2>4. /\ ItemOK(m[i]) /\ ItemOK(n[i]) /\ m[i].flow = i.flow /\ n[i].flow = i.flow
        /\ m[i].date = i.date /\ n[i].date = i.date
        /\ m[i].amount = IF i.flow = "in" THEN Share(i.amount, l, Unit) ELSE i.amount
        /\ n[i].amount = IF i.flow = "in" THEN Share(i.amount, l + 1, Unit) ELSE i.amount
    <3>. HIDE DEF M
    <3>. QED BY <1>3, <1>4, <2>1
  <2>5. IF m[i].flow = "in" THEN m[i].amount <= n[i].amount ELSE n[i].amount <= m[i].amount
    BY <2>2, <2>3, <2>4
  <2>. QED BY <2>1, <2>4, <2>5, SmallerEffect
<1>. QED BY <1>2, <1>5, <1>6, MappedAxis

LEMMA ExpenseAxis ==
  ASSUME TablesOK, PartsArePaid, NEW day, NEW l \in Nat
  PROVE  AtMost("expense_overrun", day, l + 1, l)
<1>. DEFINE M == materialise(TRUE)
            V(i, x) == IF i.flow = "out" THEN [i EXCEPT !.amount = i.amount + Share(i.amount, x, Unit)] ELSE i
            m == [i \in M |-> V(i, l + 1)]
            n == [i \in M |-> V(i, l)]
<1>1. \A x : apply_axis(M, "expense_overrun", x, day) = {V(i, x) : i \in M}
  BY DEF apply_axis
<1>2. /\ apply_axis(M, "expense_overrun", l + 1, day) = Changed(m, M)
      /\ apply_axis(M, "expense_overrun", l, day) = Changed(n, M)
  <2>1. {m[i] : i \in M} = {V(i, l + 1) : i \in M} /\ {n[i] : i \in M} = {V(i, l) : i \in M}
    <3>. HIDE DEF V, M
    <3>. QED OBVIOUS
  <2>. HIDE DEF V, M, m, n
  <2>. QED BY ONLY <1>1, <2>1 DEF Changed
<1>3. ASSUME NEW i \in M, NEW x \in Nat
      PROVE  LET j == V(i, x)
             IN  /\ ItemOK(j) /\ j.company = i.company /\ j.flow = i.flow /\ j.certainty = i.certainty
                 /\ j.source = i.source /\ j.ref = i.ref /\ j.date = i.date
                 /\ j.amount = IF i.flow = "out" THEN i.amount + Share(i.amount, x, Unit) ELSE i.amount
  <2>1. ItemOK(i) /\ i.amount \in Nat
    BY Measured
  <2>2. i.amount + Share(i.amount, x, Unit) \in Int
    <3>1. i.amount \in Int /\ x \in Int
      BY ONLY <2>1, x \in Nat
    <3>2. Share(i.amount, x, Unit) \in Int
      BY ONLY <3>1, UnitIs, ShareInt
    <3>. QED BY ONLY <3>1, <3>2
  <2>. HIDE DEF M
  <2>3. CASE i.flow = "out"
    BY <2>1, <2>2, <2>3, Revalued
  <2>4. CASE i.flow # "out"
    BY <2>1, <2>4
  <2>. QED BY <2>3, <2>4
<1>4. \A i \in M : m[i] = V(i, l + 1) /\ n[i] = V(i, l)
  OBVIOUS
<1>. HIDE DEF V, m, n
<1>5. Reshapes(m, M) /\ Reshapes(n, M)
  <2>1. l + 1 \in Nat
    OBVIOUS
  <2>. HIDE DEF M
  <2>. QED BY <1>3, <1>4, <2>1 DEF Reshapes
<1>6. ASSUME NEW i \in M, NEW d \in Year PROVE Effect(m[i], d) <= Effect(n[i], d)
  <2>1. d \in Int /\ l + 1 \in Nat /\ l <= l + 1
    BY YearIs
  <2>2. i.amount \in Nat /\ i.amount <= i.amount
    <3>1. i.amount \in Nat
      BY Measured
    <3>. QED BY ONLY <3>1
  <2>3. /\ Share(i.amount, l, Unit) <= Share(i.amount, l + 1, Unit)
        /\ Share(i.amount, l, Unit) \in Int /\ Share(i.amount, l + 1, Unit) \in Int
    <3>1. l \in Nat
      OBVIOUS
    <3>2. Share(i.amount, l, Unit) \in Nat /\ Share(i.amount, l + 1, Unit) \in Nat
      BY ONLY <2>1, <2>2, <3>1, UnitIs, ShareNat
    <3>3. Share(i.amount, l, Unit) <= Share(i.amount, l + 1, Unit)
      BY ONLY <2>1, <2>2, <3>1, UnitIs, ShareMonotone
    <3>. QED BY ONLY <3>2, <3>3
  <2>4. /\ ItemOK(m[i]) /\ ItemOK(n[i]) /\ m[i].flow = i.flow /\ n[i].flow = i.flow
        /\ m[i].date = i.date /\ n[i].date = i.date
        /\ m[i].amount = IF i.flow = "out" THEN i.amount + Share(i.amount, l + 1, Unit) ELSE i.amount
        /\ n[i].amount = IF i.flow = "out" THEN i.amount + Share(i.amount, l, Unit) ELSE i.amount
    <3>. HIDE DEF M
    <3>. QED BY <1>3, <1>4, <2>1
  <2>5. i.flow \in {"in", "out"}
    BY Measured
  <2>6. IF m[i].flow = "in" THEN m[i].amount <= n[i].amount ELSE n[i].amount <= m[i].amount
    BY <2>2, <2>3, <2>4, <2>5
  <2>. QED BY <2>1, <2>4, <2>6, SmallerEffect
<1>. QED BY <1>2, <1>5, <1>6, MappedAxis

LEMMA CollectionAxis ==
  ASSUME TablesOK, PartsArePaid, NEW day, NEW l \in Nat
  PROVE  AtMost("collection_lag", day, l + 1, l)
<1>. DEFINE M == materialise(TRUE)
            V(i, x) == IF i.flow = "in" THEN [i EXCEPT !.date = i.date + x] ELSE i
            m == [i \in M |-> V(i, l + 1)]
            n == [i \in M |-> V(i, l)]
<1>1. \A x : apply_axis(M, "collection_lag", x, day) = {V(i, x) : i \in M}
  BY DEF apply_axis
<1>2. /\ apply_axis(M, "collection_lag", l + 1, day) = Changed(m, M)
      /\ apply_axis(M, "collection_lag", l, day) = Changed(n, M)
  <2>1. {m[i] : i \in M} = {V(i, l + 1) : i \in M} /\ {n[i] : i \in M} = {V(i, l) : i \in M}
    <3>. HIDE DEF V, M
    <3>. QED OBVIOUS
  <2>. HIDE DEF V, M, m, n
  <2>. QED BY ONLY <1>1, <2>1 DEF Changed
<1>3. ASSUME NEW i \in M, NEW x \in Nat
      PROVE  LET j == V(i, x)
             IN  /\ ItemOK(j) /\ j.company = i.company /\ j.flow = i.flow /\ j.certainty = i.certainty
                 /\ j.source = i.source /\ j.ref = i.ref /\ j.amount = i.amount
                 /\ j.date = IF i.flow = "in" THEN i.date + x ELSE i.date
  <2>1. ItemOK(i) /\ i.date \in Int /\ start <= i.date
    BY Measured
  <2>2. i.date + x \in Int /\ start <= i.date + x
    BY <2>1, Calendar
  <2>. HIDE DEF M
  <2>3. CASE i.flow = "in"
    BY <2>1, <2>2, <2>3, Redated
  <2>4. CASE i.flow # "in"
    BY <2>1, <2>4
  <2>. QED BY <2>3, <2>4
<1>4. \A i \in M : m[i] = V(i, l + 1) /\ n[i] = V(i, l)
  OBVIOUS
<1>. HIDE DEF V, m, n
<1>5. Reshapes(m, M) /\ Reshapes(n, M)
  <2>1. l + 1 \in Nat
    OBVIOUS
  <2>. HIDE DEF M
  <2>. QED BY <1>3, <1>4, <2>1 DEF Reshapes
<1>6. ASSUME NEW i \in M, NEW d \in Year PROVE Effect(m[i], d) <= Effect(n[i], d)
  <2>1. d \in Int /\ l + 1 \in Nat /\ l <= l + 1
    BY YearIs
  <2>2. i.amount \in Nat /\ i.date \in Int /\ i.flow \in {"in", "out"}
    BY Measured
  <2>3. /\ ItemOK(m[i]) /\ ItemOK(n[i]) /\ m[i].flow = i.flow /\ n[i].flow = i.flow
        /\ m[i].amount = i.amount /\ n[i].amount = i.amount
        /\ m[i].date = IF i.flow = "in" THEN i.date + (l + 1) ELSE i.date
        /\ n[i].date = IF i.flow = "in" THEN i.date + l ELSE i.date
    <3>. HIDE DEF M
    <3>. QED BY <1>3, <1>4, <2>1
  <2>4. IF m[i].flow = "in" THEN n[i].date <= m[i].date ELSE m[i].date <= n[i].date
    BY <2>2, <2>3
  <2>. QED BY <2>1, <2>2, <2>3, <2>4, LaterEffect
<1>. QED BY <1>2, <1>5, <1>6, MappedAxis

LEMMA TimingAxis ==
  ASSUME TablesOK, PartsArePaid, NEW day
  PROVE  AtMost("investment_timing", day, 1, 0)
<1>. DEFINE M == materialise(TRUE)
            V(i, x) == IF x > 0 /\ i.source = "investment_unscheduled" THEN [i EXCEPT !.date = PulledForward(i.date)]
                       ELSE i
            m == [i \in M |-> V(i, 1)]
            n == [i \in M |-> V(i, 0)]
<1>1. \A x : apply_axis(M, "investment_timing", x, day) = {V(i, x) : i \in M}
  BY DEF apply_axis
<1>2. /\ apply_axis(M, "investment_timing", 1, day) = Changed(m, M)
      /\ apply_axis(M, "investment_timing", 0, day) = Changed(n, M)
  <2>1. {m[i] : i \in M} = {V(i, 1) : i \in M} /\ {n[i] : i \in M} = {V(i, 0) : i \in M}
    <3>. HIDE DEF V, M
    <3>. QED OBVIOUS
  <2>. HIDE DEF V, M, m, n
  <2>. QED BY ONLY <1>1, <2>1 DEF Changed
<1>3. ASSUME NEW i \in M
      PROVE  LET j == V(i, 1)
             IN  /\ ItemOK(j) /\ j.company = i.company /\ j.flow = i.flow /\ j.certainty = i.certainty
                 /\ j.source = i.source /\ j.ref = i.ref /\ j.amount = i.amount
                 /\ IF i.flow = "in" THEN j.date = i.date ELSE j.date <= i.date
  <2>1. /\ ItemOK(i) /\ i.date \in Year /\ i.date \in Int
        /\ i.source = "investment_unscheduled" => i.flow = "out"
    BY Measured
  <2>2. PulledForward(i.date) \in Int /\ start <= PulledForward(i.date) /\ PulledForward(i.date) <= i.date
    BY <2>1, Pulled
  <2>. HIDE DEF M
  <2>3. CASE i.source = "investment_unscheduled"
    <3>. DEFINE j == [i EXCEPT !.date = PulledForward(i.date)]
    <3>1. /\ ItemOK(j) /\ j.company = i.company /\ j.flow = i.flow /\ j.certainty = i.certainty
          /\ j.source = i.source /\ j.ref = i.ref /\ j.amount = i.amount /\ j.date = PulledForward(i.date)
      BY <2>1, <2>2, Redated
    <3>2. V(i, 1) = j
      BY <2>3
    <3>. HIDE DEF j, V
    <3>. QED BY <2>1, <2>2, <2>3, <3>1, <3>2
  <2>4. CASE i.source # "investment_unscheduled"
    <3>1. V(i, 1) = i
      BY <2>4
    <3>2. i.date <= i.date
      BY ONLY <2>1
    <3>. HIDE DEF V
    <3>. QED BY <2>1, <3>1, <3>2
  <2>. QED BY <2>3, <2>4
<1>4. \A i \in M : m[i] = V(i, 1) /\ n[i] = i
  OBVIOUS
<1>. HIDE DEF V, m, n
<1>5. Reshapes(m, M) /\ Reshapes(n, M)
  <2>1. \A i \in M : ItemOK(i)
    BY Measured
  <2>. HIDE DEF M
  <2>. QED BY <1>3, <1>4, <2>1 DEF Reshapes
<1>6. ASSUME NEW i \in M, NEW d \in Year PROVE Effect(m[i], d) <= Effect(n[i], d)
  <2>1. d \in Int
    BY YearIs
  <2>2. i.amount \in Nat /\ i.date \in Int /\ ItemOK(i)
    BY Measured
  <2>3. /\ ItemOK(m[i]) /\ m[i].flow = i.flow /\ m[i].amount = i.amount /\ n[i] = i
        /\ IF i.flow = "in" THEN m[i].date = i.date ELSE m[i].date <= i.date
    <3>. HIDE DEF M
    <3>. QED BY <1>3, <1>4
  <2>4. IF m[i].flow = "in" THEN i.date <= m[i].date ELSE m[i].date <= i.date
    BY <2>2, <2>3
  <2>5. Effect(m[i], d) <= Effect(i, d)
    BY <2>1, <2>2, <2>3, <2>4, LaterEffect
  <2>. QED BY <2>3, <2>5
<1>. QED BY <1>2, <1>5, <1>6, MappedAxis

-----------------------------------------------------------------------------
(* The shock.                                                              *)

Paid(S) == AmountOf(Flowing(S, "out"))
ShockPart(l, c) ==
    Share(Share(Paid(materialise(TRUE)), l, Unit) * Paid(Of(materialise(TRUE), c)), 1,
          IF Paid(materialise(TRUE)) = 0 THEN 1 ELSE Paid(materialise(TRUE)))
ShockItem(l, c, day) == item(day, c, "out", ShockPart(l, c), "committed", "crisis", TRUE, c)

LEMMA PaidNat ==
  ASSUME TablesOK, PartsArePaid
  PROVE  /\ Paid(materialise(TRUE)) \in Nat
         /\ \A c \in Companies : Paid(Of(materialise(TRUE), c)) \in Nat
<1>. DEFINE M == materialise(TRUE)
<1>1. IsFiniteSet(M) /\ \A i \in M : i.amount \in Nat
  BY Measured
<1>. HIDE DEF M
<1>2. ASSUME NEW S, S \subseteq M PROVE Paid(S) \in Nat
  <2>. DEFINE T == Flowing(S, "out")
  <2>1. T \subseteq M
    BY <1>2 DEF Flowing
  <2>2. IsFiniteSet(T) /\ \A i \in T : i.amount \in Nat
    BY <1>1, <2>1, FS_Subset
  <2>. HIDE DEF T
  <2>3. AmountOf(T) \in Nat
    BY <2>2, AmountNat
  <2>. QED BY <2>3 DEF T, Paid
<1>3. \A c : Of(M, c) \subseteq M
  BY DEF Of
<1>. QED BY <1>2, <1>3 DEF M

LEMMA ShockParts ==
  ASSUME TablesOK, PartsArePaid, NEW c \in Companies, NEW l \in Nat
  PROVE  ShockPart(l, c) \in Nat /\ ShockPart(l + 1, c) \in Nat /\ ShockPart(l, c) <= ShockPart(l + 1, c)
<1>. DEFINE p == Paid(materialise(TRUE))
            q == Paid(Of(materialise(TRUE), c))
            t == IF p = 0 THEN 1 ELSE p
            a == Share(p, l, Unit)
            b == Share(p, l + 1, Unit)
<1>1. p \in Nat /\ q \in Nat /\ t \in Nat \ {0}
  <2>1. p \in Nat /\ q \in Nat
    BY PaidNat
  <2>. HIDE DEF p, q
  <2>. QED BY ONLY <2>1
<1>2. ShockPart(l, c) = Share(a * q, 1, t) /\ ShockPart(l + 1, c) = Share(b * q, 1, t)
  BY DEF ShockPart
<1>. HIDE DEF p, q, t
<1>3. a \in Nat /\ b \in Nat /\ a <= b
  <2>1. l + 1 \in Nat /\ l <= l + 1 /\ p <= p
    BY ONLY <1>1, l \in Nat
  <2>. QED BY <1>1, <2>1, UnitIs, ShareNat, ShareMonotone
<1>. HIDE DEF a, b
<1>4. a * q \in Nat /\ b * q \in Nat /\ a * q <= b * q
  BY ONLY <1>1, <1>3, Times
<1>5. 1 \in Nat /\ 1 <= 1
  OBVIOUS
<1>6. Share(a * q, 1, t) \in Nat /\ Share(b * q, 1, t) \in Nat /\ Share(a * q, 1, t) <= Share(b * q, 1, t)
  BY ONLY <1>1, <1>4, <1>5, ShareNat, ShareMonotone
<1>. QED BY <1>2, <1>6

LEMMA ShockItemIs ==
  ASSUME NEW l, NEW c \in Companies, NEW day \in Year, ShockPart(l, c) \in Nat
  PROVE  LET j == ShockItem(l, c, day)
         IN  /\ ItemOK(j) /\ j.date = day /\ j.company = c /\ j.flow = "out" /\ j.amount = ShockPart(l, c)
             /\ j.certainty = "committed" /\ j.source = "crisis"
<1>. DEFINE j == ShockItem(l, c, day)
<1>1. PICK df \in BOOLEAN : j = item(day, c, "out", ShockPart(l, c), "committed", "crisis", df, c)
  BY DEF ShockItem
<1>. HIDE DEF j
<1>2. /\ j.date = day /\ j.company = c /\ j.flow = "out" /\ j.amount = ShockPart(l, c)
      /\ j.certainty = "committed" /\ j.source = "crisis"
      /\ j = item(j.date, j.company, j.flow, j.amount, j.certainty, j.source, j.deferrable, j.ref)
  BY <1>1, ItemFields
<1>3. day \in Int /\ start <= day
  BY YearIs
<1>4. ItemOK(j)
  BY <1>2, <1>3 DEF ItemOK, CERTAINTIES
<1>. QED BY <1>2, <1>4 DEF j

\* What a shock takes from a company's ledger.
LEMMA ShockLedger ==
  ASSUME TablesOK, PartsArePaid, NEW c \in Companies, NEW l \in Nat, NEW day \in Year
  PROVE  LET L == LedgerOf(apply_axis(materialise(TRUE), "crisis_shock", l, day), c, "bound")
         IN  /\ L \in [Year -> Int]
             /\ \A d \in Year : L[d] = daily_ledger(Mine(materialise(TRUE), c), opening_cash(c))[d]
                                       - (IF day <= d THEN ShockPart(l, c) ELSE 0)
<1>. DEFINE M == materialise(TRUE)
            S == Mine(M, c)
            o == opening_cash(c)
            e == ShockItem(l, c, day)
            p == ShockPart(l, c)
            H == {ShockItem(l, x, day) : x \in {y \in Companies : ShockPart(l, y) # 0}}
            U == Mine(M \cup H, c)
            X == IF p = 0 THEN {} ELSE {e}
<1>0. \A x \in Companies : ShockPart(l, x) \in Nat
  BY ShockParts
<1>1. apply_axis(M, "crisis_shock", l, day) = M \cup H
  BY DEF apply_axis, Shock, ShockItem, ShockPart, Paid
<1>2. \A i \in M : i.source # "crisis"
  BY Measured
<1>3. /\ IsFiniteSet(S) /\ S \subseteq M /\ (\A i \in S : ItemOK(i)) /\ o \in Int
      /\ daily_ledger(S, o) \in [Year -> Int]
  BY MineIs, OpeningInt
<1>4. p \in Nat /\ ItemOK(e) /\ e.date = day /\ e.flow = "out" /\ e.amount = p /\ e.source = "crisis"
  BY <1>0, ShockItemIs
<1>5. U = S \cup X
  <2>1. \A x \in Companies : ShockItem(l, x, day).company = x
    BY <1>0, ShockItemIs
  <2>2. ASSUME NEW i \in Mine(H, c) PROVE i \in X
    <3>1. PICK x \in Companies : ShockPart(l, x) # 0 /\ i = ShockItem(l, x, day)
      BY DEF Mine
    <3>2. x = c
      BY <2>1, <3>1 DEF Mine
    <3>. QED BY <3>1, <3>2
  <2>3. p # 0 => e \in Mine(H, c)
    <3>. SUFFICES ASSUME p # 0 PROVE e \in Mine(H, c)
      OBVIOUS
    <3>1. e \in H
      OBVIOUS
    <3>2. e.company = c /\ e.certainty = "committed" /\ e.flow = "out"
      BY <1>0, ShockItemIs
    <3>. HIDE DEF e, H
    <3>. QED BY <3>1, <3>2 DEF Mine, RUN_FILTERS
  <2>4. U = S \cup Mine(H, c)
    <3>. HIDE DEF M, H
    <3>. QED BY DEF Mine
  <2>. HIDE DEF U, S, H, e, p
  <2>. QED BY <2>2, <2>3, <2>4
<1>6. e \notin S
  <2>. HIDE DEF e, S, M
  <2>. QED BY <1>2, <1>3, <1>4
<1>. HIDE DEF M, H, e, p
<1>7. IsFiniteSet(X) /\ \A i \in X : ItemOK(i)
  BY <1>4, FS_EmptySet, FS_Singleton
<1>8. IsFiniteSet(U) /\ \A i \in U : ItemOK(i)
  <2>. HIDE DEF U, S, X
  <2>. QED BY <1>3, <1>5, <1>7, FS_Union
<1>9. LedgerOf(M \cup H, c, "bound") = daily_ledger(U, o)
  BY BoundIs
<1>10. daily_ledger(U, o) \in [Year -> Int]
  <2>. HIDE DEF U, o
  <2>. QED BY <1>3, <1>8, LedgerInt
<1>11. ASSUME NEW d \in Year
       PROVE  daily_ledger(U, o)[d] = daily_ledger(S, o)[d] - (IF day <= d THEN p ELSE 0)
  <2>. DEFINE f == [i \in S \cup {e} |-> Effect(i, d)]
  <2>1. \A i \in S \cup {e} : f[i] = Effect(i, d) /\ f[i] \in Int
    BY <1>3, <1>4, EffectInt
  <2>2. day \in Int /\ d \in Int
    BY YearIs
  <2>3. f[e] = -(IF day <= d THEN p ELSE 0)
    <3>1. f[e] = Effect(e, d)
      BY <2>1
    <3>2. Signed(e) = -p
      BY <1>4 DEF Signed
    <3>3. Effect(e, d) = IF day <= d THEN -p ELSE 0
      BY <1>4, <3>2 DEF Effect
    <3>. HIDE DEF f
    <3>. QED BY ONLY <1>4, <3>1, <3>3
  <2>. HIDE DEF f, S, U, o
  <2>4. daily_ledger(S, o)[d] = o + SumFunctionOnSet(f, S) /\ SumFunctionOnSet(f, S) \in Int
    BY <1>3, <2>1, LedgerIs
  <2>5. CASE p = 0
    <3>1. U = S
      BY <1>5, <2>5
    <3>2. daily_ledger(S, o)[d] \in Int
      BY <1>3
    <3>. QED BY <2>5, <3>1, <3>2
  <2>6. CASE p # 0
    <3>1. U = S \cup {e}
      BY <1>5, <2>6
    <3>2. daily_ledger(U, o)[d] = o + SumFunctionOnSet(f, U)
      BY <1>3, <1>8, <2>1, <3>1, LedgerIs
    <3>3. SumFunctionOnSet(f, S \cup {e}) = f[e] + SumFunctionOnSet(f, S)
      BY <1>3, <1>6, <2>1, SumAdd
    <3>4. f[e] \in Int
      BY <2>1
    <3>. HIDE DEF X
    <3>. QED BY ONLY <1>3, <1>4, <2>3, <2>4, <3>1, <3>2, <3>3, <3>4
  <2>. QED BY <2>5, <2>6
<1>. HIDE DEF U
<1>. QED BY <1>1, <1>9, <1>10, <1>11 DEF M, p

LEMMA CrisisAxis ==
  ASSUME TablesOK, PartsArePaid, NEW day \in Year, NEW l \in Nat
  PROVE  AtMost("crisis_shock", day, l + 1, l)
<1>. DEFINE A(x) == apply_axis(materialise(TRUE), "crisis_shock", x, day)
<1>1. ASSUME NEW c \in Companies
      PROVE  /\ LedgerOf(A(l), c, "bound") \in [Year -> Int]
             /\ LedgerOf(A(l + 1), c, "bound") \in [Year -> Int]
             /\ \A d \in Year : LedgerOf(A(l + 1), c, "bound")[d] <= LedgerOf(A(l), c, "bound")[d]
  <2>. DEFINE B == daily_ledger(Mine(materialise(TRUE), c), opening_cash(c))
  <2>1. l + 1 \in Nat
    OBVIOUS
  <2>2. \A x \in {l, l + 1} :
          /\ LedgerOf(A(x), c, "bound") \in [Year -> Int]
          /\ \A d \in Year : LedgerOf(A(x), c, "bound")[d] = B[d] - (IF day <= d THEN ShockPart(x, c) ELSE 0)
    <3>. SUFFICES ASSUME NEW x \in {l, l + 1}
                  PROVE  /\ LedgerOf(A(x), c, "bound") \in [Year -> Int]
                         /\ \A d \in Year : LedgerOf(A(x), c, "bound")[d]
                              = B[d] - (IF day <= d THEN ShockPart(x, c) ELSE 0)
      OBVIOUS
    <3>1. x \in Nat
      BY <2>1
    <3>. QED BY <3>1, ShockLedger
  <2>3. B \in [Year -> Int]
    BY MineIs
  <2>4. ShockPart(l, c) \in Nat /\ ShockPart(l + 1, c) \in Nat /\ ShockPart(l, c) <= ShockPart(l + 1, c)
    BY ShockParts
  <2>. HIDE DEF A, B
  <2>5. ASSUME NEW d \in Year PROVE LedgerOf(A(l + 1), c, "bound")[d] <= LedgerOf(A(l), c, "bound")[d]
    <3>1. B[d] \in Int /\ d \in Int /\ day \in Int
      BY <2>3, YearIs
    <3>2. /\ LedgerOf(A(l), c, "bound")[d] = B[d] - (IF day <= d THEN ShockPart(l, c) ELSE 0)
          /\ LedgerOf(A(l + 1), c, "bound")[d] = B[d] - (IF day <= d THEN ShockPart(l + 1, c) ELSE 0)
      BY <2>2
    <3>. QED BY ONLY <2>4, <3>1, <3>2
  <2>. QED BY <2>2, <2>5
<1>. QED BY <1>1, AxisOrder DEF AtMost

\* The shock lands on a day of the year.
LEMMA CrisisDayIs ==
  ASSUME TablesOK
  PROVE  CrisisDay(materialise(TRUE)) \in Year
<1>. DEFINE L(c) == LedgerOf(materialise(TRUE), c, "bound")
            b == [c \in Companies |-> FirstBreach(L(c), buffer_floor(c))]
            F == {b[c] : c \in Companies}
            firsts == F \ {NoDate}
<1>1. CrisisDay(materialise(TRUE)) = IF firsts = {} THEN MonthStart[HalfYear + 1] ELSE Min(firsts)
  <2>1. F = {FirstBreach(L(c), buffer_floor(c)) : c \in Companies}
    OBVIOUS
  <2>. HIDE DEF F
  <2>. QED BY <2>1 DEF CrisisDay
<1>2. \A c \in Companies : b[c] = NoDate \/ b[c] \in Year
  <2>. SUFFICES ASSUME NEW c \in Companies PROVE b[c] = NoDate \/ b[c] \in Year
    OBVIOUS
  <2>. DEFINE B == Breaches(L(c), buffer_floor(c))
  <2>1. b[c] = IF B = {} THEN NoDate ELSE Min(B)
    BY DEF FirstBreach
  <2>2. B \subseteq Year
    BY DEF Breaches
  <2>. HIDE DEF B, b
  <2>3. B # {} => Min(B) \in B
    <3>1. IsFiniteSet(B) /\ B \in SUBSET Int
      BY <2>2, YearIs, FS_Subset
    <3>. QED BY <3>1, MinIs
  <2>. QED BY <2>1, <2>2, <2>3
<1>3. IsFiniteSet(F)
  <2>. HIDE DEF b
  <2>. QED BY FormAssumption, ImageFinite
<1>4. firsts \subseteq Year
  <2>. HIDE DEF b
  <2>. QED BY <1>2
<1>5. CASE firsts = {}
  <2>1. HalfYear + 1 \in Months
    <3>1. Len(MonthStart) \in Nat /\ Len(MonthStart) > 2
      BY CalendarAssumption
    <3>. QED BY ONLY <3>1 DEF HalfYear, Months
  <2>2. WeekStart(HalfYear + 1, 1) = MonthStart[HalfYear + 1]
    <3>1. MonthStart[HalfYear + 1] \in Int
      BY <2>1, Calendar
    <3>2. (1 - 1) * WeekLen = 0
      BY CalendarAssumption
    <3>. QED BY <3>1, <3>2 DEF WeekStart
  <2>3. 1 \in Weeks
    BY CalendarAssumption DEF Weeks
  <2>4. /\ start <= WeekStart(HalfYear + 1, 1) /\ WeekStart(HalfYear + 1, 1) <= WeekEnd(HalfYear + 1, 1)
        /\ WeekEnd(HalfYear + 1, 1) <= end /\ WeekStart(HalfYear + 1, 1) \in Int /\ WeekEnd(HalfYear + 1, 1) \in Int
    BY <2>1, <2>3, WeekBounds
  <2>5. start \in Int /\ end \in Int
    BY Calendar
  <2>6. WeekStart(HalfYear + 1, 1) \in Year
    BY ONLY <2>4, <2>5 DEF Year
  <2>. QED BY <1>1, <1>5, <2>2, <2>6
<1>6. CASE firsts # {}
  <2>. HIDE DEF firsts, F
  <2>1. IsFiniteSet(firsts)
    BY <1>3, FS_Subset DEF firsts
  <2>2. firsts \in SUBSET Int
    BY <1>4, YearIs
  <2>3. Min(firsts) \in firsts
    BY <1>6, <2>1, <2>2, MinIs
  <2>. QED BY <1>1, <1>4, <1>6, <2>3
<1>. QED BY <1>5, <1>6

-----------------------------------------------------------------------------
(* The break-even.                                                         *)

\* The powers that the halving divides by.
LEMMA Powers ==
  /\ Power[0] = 1
  /\ \A k \in 0..Halvings : Power[k] \in Nat
  /\ \A k \in 0..Halvings : k # 0 => Power[k] = 2 * Power[k - 1]
<1>. DEFINE H == [x \in Nat |-> 2 * x]
<1>0. Halvings \in Nat
  BY StepAssumption
<1>0a. PICK f : Iterates(f, Halvings, 1, H)
  <2>. HIDE DEF H
  <2>. QED BY <1>0, Recursion
<1>1. f = [k \in 0..Halvings |-> IF k = 0 THEN 1 ELSE H[f[k - 1]]]
  <2>. HIDE DEF H
  <2>. QED BY ONLY <1>0a DEF Iterates
<1>2. \A k \in 0..Halvings : f[k] \in Nat
  <2>. DEFINE G == {k \in 0..Halvings : f[k] \in Nat}
  <2>1. 0 \in G
    BY <1>0, <1>1
  <2>2. \A k \in 0..Halvings : k < Halvings /\ k \in G => k + 1 \in G
    <3>. SUFFICES ASSUME NEW k \in 0..Halvings, k < Halvings, k \in G PROVE k + 1 \in G
      OBVIOUS
    <3>1. k + 1 \in 0..Halvings /\ k + 1 # 0 /\ (k + 1) - 1 = k
      BY <1>0
    <3>2. f[k + 1] = H[f[k]] /\ f[k] \in Nat
      BY <1>1, <3>1
    <3>. QED BY <3>1, <3>2
  <2>3. 0..Halvings \subseteq G
    <3>. HIDE DEF G
    <3>. QED BY <1>0, <2>1, <2>2, UpFromZero
  <2>. QED BY <2>3
<1>3. f = [k \in 0..Halvings |-> IF k = 0 THEN 1 ELSE 2 * f[k - 1]]
  <2>1. \A k \in 0..Halvings : k # 0 => k - 1 \in 0..Halvings
    BY <1>0
  <2>2. \A k \in 0..Halvings : f[k] = IF k = 0 THEN 1 ELSE 2 * f[k - 1]
    BY <1>1, <1>2, <2>1
  <2>3. f = [k \in 0..Halvings |-> f[k]]
    BY <1>1
  <2>. HIDE DEF H
  <2>. QED BY ONLY <2>2, <2>3
<1>4. Power = [k \in 0..Halvings |-> IF k = 0 THEN 1 ELSE 2 * Power[k - 1]]
  BY <1>3 DEF Power
<1>. DEFINE G == {k \in 0..Halvings : Power[k] \in Nat}
<1>5. \A k \in 0..Halvings : Power[k] = IF k = 0 THEN 1 ELSE 2 * Power[k - 1]
  BY <1>4
<1>6. 0..Halvings \subseteq G
  <2>1. 0 \in G
    BY <1>0, <1>5
  <2>2. \A k \in 0..Halvings : k < Halvings /\ k \in G => k + 1 \in G
    <3>. SUFFICES ASSUME NEW k \in 0..Halvings, k < Halvings, k \in G PROVE k + 1 \in G
      OBVIOUS
    <3>1. k + 1 \in 0..Halvings /\ k + 1 # 0 /\ (k + 1) - 1 = k
      BY <1>0
    <3>2. Power[k + 1] = 2 * Power[k] /\ Power[k] \in Nat
      BY <1>5, <3>1
    <3>. QED BY <3>1, <3>2
  <2>. HIDE DEF G
  <2>. QED BY <1>0, <2>1, <2>2, UpFromZero
<1>. QED BY <1>0, <1>5, <1>6

\* What the bisection keeps of its ends.
Brackets(items, axis, day, target, e) ==
    /\ e \in Int \X Int
    /\ Fails(_run_axis(items, axis, e[1], day), target) /\ ~Fails(_run_axis(items, axis, e[2], day), target)

\* The ends after each step of the bisection.
EndsOf(ends, items, axis, day, target) ==
    /\ Bisected(items, axis, day, target) = ends[Halvings]
    /\ ends[0] = <<Hardest(axis), Mildest(axis)>>
    /\ \A k \in 0..Halvings : ends[k] \in Int \X Int
    /\ \A k \in 0..Halvings : k # 0 => ends[k] = Halved(items, axis, day, target, ends[k - 1])

LEMMA BisectedIs ==
  ASSUME NEW items, NEW axis, NEW day, NEW target, Hardest(axis) \in Int, Mildest(axis) \in Int
  PROVE  \E ends : EndsOf(ends, items, axis, day, target)
<1>. DEFINE first == <<Hardest(axis), Mildest(axis)>>
            H == [e \in Int \X Int |-> Halved(items, axis, day, target, e)]
            Runs(f) == f = [k \in 0..Halvings |-> IF k = 0 THEN first ELSE Halved(items, axis, day, target, f[k - 1])]
<1>0. Halvings \in Nat /\ first \in Int \X Int
  BY StepAssumption
<1>1. \A e \in Int \X Int : Halved(items, axis, day, target, e) \in Int \X Int
  <2>. SUFFICES ASSUME NEW e \in Int \X Int PROVE Halved(items, axis, day, target, e) \in Int \X Int
    OBVIOUS
  <2>. DEFINE mid == (e[1] + e[2]) \div 2
  <2>1. e[1] \in Int /\ e[2] \in Int /\ mid \in Int
    OBVIOUS
  <2>2. Halved(items, axis, day, target, e) = <<mid, e[2]>> \/ Halved(items, axis, day, target, e) = <<e[1], mid>>
    BY DEF Halved
  <2>. HIDE DEF mid
  <2>. QED BY ONLY <2>1, <2>2
<1>1a. PICK f : Iterates(f, Halvings, first, H)
  <2>. HIDE DEF H, first
  <2>. QED BY <1>0, Recursion
<1>2. f = [k \in 0..Halvings |-> IF k = 0 THEN first ELSE H[f[k - 1]]]
  <2>. HIDE DEF H, first
  <2>. QED BY ONLY <1>1a DEF Iterates
<1>3. ASSUME NEW g, \A k \in 0..Halvings : g[k] = IF k = 0 THEN first ELSE H[g[k - 1]]
      PROVE  \A k \in 0..Halvings : g[k] \in Int \X Int
  <2>. DEFINE G == {k \in 0..Halvings : g[k] \in Int \X Int}
  <2>1. 0 \in G
    <3>1. 0 \in 0..Halvings
      BY <1>0
    <3>2. g[0] = first
      <4>. HIDE DEF first, H
      <4>. QED BY <1>3, <3>1
    <3>. HIDE DEF first
    <3>. QED BY <1>0, <3>1, <3>2
  <2>2. \A k \in 0..Halvings : k < Halvings /\ k \in G => k + 1 \in G
    <3>. SUFFICES ASSUME NEW k \in 0..Halvings, k < Halvings, k \in G PROVE k + 1 \in G
      OBVIOUS
    <3>1. k + 1 \in 0..Halvings /\ k + 1 # 0 /\ (k + 1) - 1 = k
      BY <1>0
    <3>2. g[k + 1] = H[g[k]] /\ g[k] \in Int \X Int
      <4>. HIDE DEF H, first
      <4>. QED BY <1>3, <3>1
    <3>3. H[g[k]] \in Int \X Int
      BY <1>1, <3>2
    <3>. HIDE DEF H
    <3>. QED BY <3>1, <3>2, <3>3
  <2>3. 0..Halvings \subseteq G
    <3>. HIDE DEF G
    <3>. QED BY <1>0, <2>1, <2>2, UpFromZero
  <2>. QED BY <2>3
<1>4. \A k \in 0..Halvings : f[k] = (IF k = 0 THEN first ELSE H[f[k - 1]]) /\ f[k] \in Int \X Int
  <2>1. \A k \in 0..Halvings : f[k] = IF k = 0 THEN first ELSE H[f[k - 1]]
    <3>. HIDE DEF H, first
    <3>. QED BY <1>2
  <2>. HIDE DEF H, first
  <2>. QED BY <1>3, <2>1
<1>5. Runs(f)
  <2>1. \A k \in 0..Halvings : k # 0 => k - 1 \in 0..Halvings
    BY <1>0
  <2>2. \A k \in 0..Halvings : f[k] = IF k = 0 THEN first ELSE Halved(items, axis, day, target, f[k - 1])
    <3>. SUFFICES ASSUME NEW k \in 0..Halvings
                  PROVE  f[k] = IF k = 0 THEN first ELSE Halved(items, axis, day, target, f[k - 1])
      OBVIOUS
    <3>1. k # 0 => f[k - 1] \in Int \X Int
      BY <1>4, <2>1
    <3>2. k # 0 => H[f[k - 1]] = Halved(items, axis, day, target, f[k - 1])
      BY <3>1
    <3>. HIDE DEF H, first
    <3>. QED BY <1>4, <3>2
  <2>3. f = [k \in 0..Halvings |-> f[k]]
    <3>. HIDE DEF H, first
    <3>. QED BY <1>2
  <2>. HIDE DEF first
  <2>. QED BY ONLY <2>2, <2>3
<1>. DEFINE ends == CHOOSE g : Runs(g)
<1>6. Runs(ends)
  <2>. HIDE DEF Runs
  <2>. QED BY <1>5
<1>7. Bisected(items, axis, day, target) = ends[Halvings]
  BY DEF Bisected
<1>. HIDE DEF ends
<1>8. \A k \in 0..Halvings : ends[k] = IF k = 0 THEN first ELSE Halved(items, axis, day, target, ends[k - 1])
  <2>. HIDE DEF first
  <2>. QED BY ONLY <1>6 DEF Runs
<1>9. \A k \in 0..Halvings : ends[k] \in Int \X Int
  <2>. DEFINE G == {k \in 0..Halvings : ends[k] \in Int \X Int}
  <2>1. 0 \in G
    <3>1. 0 \in 0..Halvings /\ ends[0] = first
      BY <1>0, <1>8
    <3>. HIDE DEF first
    <3>. QED BY <1>0, <3>1
  <2>2. \A k \in 0..Halvings : k < Halvings /\ k \in G => k + 1 \in G
    <3>. SUFFICES ASSUME NEW k \in 0..Halvings, k < Halvings, k \in G PROVE k + 1 \in G
      OBVIOUS
    <3>1. k + 1 \in 0..Halvings /\ k + 1 # 0 /\ (k + 1) - 1 = k
      BY <1>0
    <3>2. ends[k + 1] = Halved(items, axis, day, target, ends[k]) /\ ends[k] \in Int \X Int
      <4>. HIDE DEF first
      <4>. QED BY <1>8, <3>1
    <3>3. ends[k + 1] \in Int \X Int
      BY <1>1, <3>2
    <3>. QED BY <3>1, <3>3
  <2>3. 0..Halvings \subseteq G
    <3>. HIDE DEF G
    <3>. QED BY <1>0, <2>1, <2>2, UpFromZero
  <2>. QED BY <2>3
<1>10. 0 \in 0..Halvings /\ ends[0] = first
  BY <1>0, <1>8
<1>. HIDE DEF first
<1>11. \A k \in 0..Halvings : k # 0 => ends[k] = Halved(items, axis, day, target, ends[k - 1])
  BY ONLY <1>8
<1>. QED BY <1>7, <1>9, <1>10, <1>11 DEF first, EndsOf

\* The distance between the ends is halved without a remainder, so after the
\* last step it is what it was, divided by that power of two.
LEMMA BisectionHolds ==
  ASSUME NEW items, NEW axis \in BisectedAxes, NEW day, NEW target,
         Fails(_run_axis(items, axis, Hardest(axis), day), target),
         ~Fails(_run_axis(items, axis, Mildest(axis), day), target)
  PROVE  LET e == Bisected(items, axis, day, target)
         IN  /\ Fails(_run_axis(items, axis, e[1], day), target) /\ ~Fails(_run_axis(items, axis, e[2], day), target)
             /\ (e[1] - e[2]) * Power[Halvings] = Hardest(axis) - Mildest(axis)
<1>0. Halvings \in Nat /\ Unit \in Nat
  BY StepAssumption
<1>1. PICK q \in Int : Hardest(axis) - Mildest(axis) = q * Power[Halvings]
  <2>1. PICK k \in 1..Unit : Unit = k * Power[Halvings]
    BY StepAssumption
  <2>2. k \in Int /\ Power[Halvings] \in Int /\ (-k) \in Int /\ 2 * k \in Int
    BY <1>0, Powers
  <2>3. CASE axis = "revenue_realisation"
    <3>1. Hardest(axis) - Mildest(axis) = 0 - Unit
      BY <2>3 DEF Hardest, Mildest
    <3>2. (-k) * Power[Halvings] = -(k * Power[Halvings])
      BY ONLY <2>2
    <3>3. Hardest(axis) - Mildest(axis) = (-k) * Power[Halvings]
      BY ONLY <1>0, <2>1, <3>1, <3>2
    <3>. QED BY <2>2, <3>3
  <2>4. CASE axis # "revenue_realisation"
    <3>1. Hardest(axis) - Mildest(axis) = 2 * Unit - 0
      BY <2>4 DEF Hardest, Mildest
    <3>2. (2 * k) * Power[Halvings] = 2 * (k * Power[Halvings])
      BY ONLY <2>2
    <3>3. Hardest(axis) - Mildest(axis) = (2 * k) * Power[Halvings]
      BY ONLY <1>0, <2>1, <3>1, <3>2
    <3>. QED BY <2>2, <3>3
  <2>. QED BY <2>3, <2>4
<1>2. Hardest(axis) \in Int /\ Mildest(axis) \in Int
  BY <1>0 DEF Hardest, Mildest
<1>2a. PICK ends : EndsOf(ends, items, axis, day, target)
  BY <1>2, BisectedIs
<1>3. /\ Bisected(items, axis, day, target) = ends[Halvings]
      /\ ends[0] = <<Hardest(axis), Mildest(axis)>>
      /\ \A k \in 0..Halvings : ends[k] \in Int \X Int
      /\ \A k \in 0..Halvings : k # 0 => ends[k] = Halved(items, axis, day, target, ends[k - 1])
  BY ONLY <1>2a DEF EndsOf
<1>. DEFINE G == {k \in 0..Halvings : /\ Brackets(items, axis, day, target, ends[k])
                                   /\ ends[k][1] - ends[k][2] = q * Power[Halvings - k]}
<1>4. 0 \in G
  <2>1. 0 \in 0..Halvings /\ Halvings - 0 = Halvings
    BY <1>0
  <2>2. Brackets(items, axis, day, target, ends[0])
    BY <1>2, <1>3 DEF Brackets
  <2>3. ends[0][1] - ends[0][2] = q * Power[Halvings]
    BY <1>1, <1>3
  <2>. QED BY <2>1, <2>2, <2>3
<1>5. \A k \in 0..Halvings : k < Halvings /\ k \in G => k + 1 \in G
  <2>. SUFFICES ASSUME NEW k \in 0..Halvings, k < Halvings, k \in G PROVE k + 1 \in G
    OBVIOUS
  <2>. DEFINE a == ends[k][1]
              b == ends[k][2]
              mid == (a + b) \div 2
              p == Power[Halvings - (k + 1)]
  <2>1. /\ k + 1 \in 0..Halvings /\ k + 1 # 0 /\ (k + 1) - 1 = k
        /\ Halvings - k \in 0..Halvings /\ Halvings - k # 0 /\ (Halvings - k) - 1 = Halvings - (k + 1) /\ Halvings - (k + 1) \in 0..Halvings
    BY <1>0
  <2>2. Power[Halvings - k] = 2 * p /\ p \in Int
    BY <2>1, Powers
  <2>3. /\ a \in Int /\ b \in Int /\ a - b = q * Power[Halvings - k]
        /\ Fails(_run_axis(items, axis, a, day), target) /\ ~Fails(_run_axis(items, axis, b, day), target)
    BY DEF Brackets
  <2>4. ends[k + 1] = Halved(items, axis, day, target, ends[k])
    BY <1>3, <2>1
  <2>5. ends[k + 1] = IF Fails(_run_axis(items, axis, mid, day), target) THEN <<mid, b>> ELSE <<a, mid>>
    BY <2>4 DEF Halved
  <2>. DEFINE t == q * p
  <2>6. t \in Int /\ q * (2 * p) = 2 * t
    <3>. HIDE DEF p
    <3>. QED BY ONLY <2>2, q \in Int
  <2>. HIDE DEF t, p, a, b
  <2>7. a - b = 2 * t
    BY ONLY <2>2, <2>3, <2>6
  <2>8. mid = b + t /\ mid \in Int
    BY ONLY <2>3, <2>6, <2>7
  <2>. HIDE DEF mid
  <2>9. mid - b = t /\ a - mid = t
    BY ONLY <2>3, <2>6, <2>7, <2>8
  <2>10. CASE Fails(_run_axis(items, axis, mid, day), target)
    <3>1. ends[k + 1] = <<mid, b>>
      BY <2>5, <2>10
    <3>2. Brackets(items, axis, day, target, ends[k + 1])
      BY <2>3, <2>8, <2>10, <3>1 DEF Brackets
    <3>3. ends[k + 1][1] - ends[k + 1][2] = q * Power[Halvings - (k + 1)]
      BY <2>9, <3>1 DEF t, p
    <3>. QED BY <2>1, <3>2, <3>3
  <2>11. CASE ~Fails(_run_axis(items, axis, mid, day), target)
    <3>1. ends[k + 1] = <<a, mid>>
      BY <2>5, <2>11
    <3>2. Brackets(items, axis, day, target, ends[k + 1])
      BY <2>3, <2>8, <2>11, <3>1 DEF Brackets
    <3>3. ends[k + 1][1] - ends[k + 1][2] = q * Power[Halvings - (k + 1)]
      BY <2>9, <3>1 DEF t, p
    <3>. QED BY <2>1, <3>2, <3>3
  <2>. QED BY <2>10, <2>11
<1>6. 0..Halvings \subseteq G
  <2>. HIDE DEF G
  <2>. QED BY <1>0, <1>4, <1>5, UpFromZero
<1>7. Halvings \in G
  <2>1. Halvings \in 0..Halvings
    BY <1>0
  <2>. QED BY <1>6, <2>1
<1>. DEFINE e == ends[Halvings]
<1>8. Brackets(items, axis, day, target, e) /\ e[1] - e[2] = q * Power[Halvings - Halvings]
  BY <1>7
<1>9. q * Power[Halvings - Halvings] = q
  <2>1. Halvings - Halvings = 0 /\ q * 1 = q
    BY ONLY <1>0, q \in Int
  <2>. QED BY <2>1, Powers
<1>. HIDE DEF e
<1>10. (e[1] - e[2]) * Power[Halvings] = Hardest(axis) - Mildest(axis)
  BY ONLY <1>1, <1>8, <1>9
<1>11. Fails(_run_axis(items, axis, e[1], day), target) /\ ~Fails(_run_axis(items, axis, e[2], day), target)
  BY ONLY <1>8 DEF Brackets
<1>12. Bisected(items, axis, day, target) = e
  BY <1>3 DEF e
<1>. QED BY ONLY <1>10, <1>11, <1>12

-----------------------------------------------------------------------------
(* The margin.                                                             *)

\* What the property says of one axis at one level.
Ordered(axis, day, l) ==
    LET low == _run_axis(materialise(TRUE), axis, l - 1, day)
        high == _run_axis(materialise(TRUE), axis, l, day)
        rises == axis = "revenue_realisation"
    IN  /\ IF rises THEN low.headroom <= high.headroom ELSE high.headroom <= low.headroom
        /\ IF rises THEN low.cash <= high.cash ELSE high.cash <= low.cash

\* What it says of the break-even.
Between(axis, day, target) ==
    Fails(_run_axis(materialise(TRUE), axis, Hardest(axis), day), target)
    /\ ~Fails(_run_axis(materialise(TRUE), axis, Mildest(axis), day), target) =>
      LET e == Bisected(materialise(TRUE), axis, day, target) IN
      /\ Fails(_run_axis(materialise(TRUE), axis, e[1], day), target)
      /\ ~Fails(_run_axis(materialise(TRUE), axis, e[2], day), target)
      /\ (e[1] - e[2]) * Power[Halvings] = Hardest(axis) - Mildest(axis)

LEMMA LevelsOrdered ==
  ASSUME TablesOK, PartsArePaid, NEW axis \in AXES, NEW l \in 1..LastLevel(axis)
  PROVE  Ordered(axis, CrisisDay(materialise(TRUE)), l)
<1>. DEFINE day == CrisisDay(materialise(TRUE))
<1>0. day \in Year
  BY CrisisDayIs
<1>1. LastLevel(axis) \in Int
  BY UnitIs, Calendar DEF LastLevel, AXES
<1>2. l \in Int /\ 1 <= l /\ l <= LastLevel(axis)
  <2>. DEFINE n == LastLevel(axis)
  <2>. HIDE DEF n
  <2>. QED BY <1>1
<1>3. l - 1 \in Nat /\ (l - 1) + 1 = l
  BY ONLY <1>2
<1>. HIDE DEF day
<1>4. CASE axis = "revenue_realisation"
  <2>1. AtMost("revenue_realisation", day, l - 1, l)
    BY <1>3, RevenueAxis
  <2>. QED BY <1>4, <2>1 DEF Ordered, AtMost, day
<1>5. CASE axis # "revenue_realisation"
  <2>1. AtMost(axis, day, l, l - 1)
    <3>1. CASE axis = "expense_overrun"
      BY <1>3, <3>1, ExpenseAxis
    <3>2. CASE axis = "collection_lag"
      BY <1>3, <3>2, CollectionAxis
    <3>3. CASE axis = "crisis_shock"
      BY <1>0, <1>3, <3>3, CrisisAxis
    <3>4. CASE axis = "investment_timing"
      <4>1. LastLevel(axis) = 1
        BY <3>4 DEF LastLevel
      <4>2. l = 1 /\ l - 1 = 0
        BY ONLY <1>2, <4>1
      <4>. QED BY <3>4, <4>2, TimingAxis
    <3>. QED BY <1>5, <3>1, <3>2, <3>3, <3>4 DEF AXES
  <2>. QED BY <1>5, <2>1 DEF Ordered, AtMost, day
<1>. QED BY <1>4, <1>5

LEMMA BreakEven ==
  ASSUME NEW axis \in BisectedAxes, NEW day, NEW target
  PROVE  Between(axis, day, target)
<1>. SUFFICES ASSUME Fails(_run_axis(materialise(TRUE), axis, Hardest(axis), day), target),
                     ~Fails(_run_axis(materialise(TRUE), axis, Mildest(axis), day), target)
              PROVE  LET e == Bisected(materialise(TRUE), axis, day, target) IN
                     /\ Fails(_run_axis(materialise(TRUE), axis, e[1], day), target)
                     /\ ~Fails(_run_axis(materialise(TRUE), axis, e[2], day), target)
                     /\ (e[1] - e[2]) * Power[Halvings] = Hardest(axis) - Mildest(axis)
  BY DEF Between
<1>. QED BY BisectionHolds

LEMMA TablesMargin == TablesOK => MarginIsReal
<1>. SUFFICES ASSUME TablesOK, PartsArePaid,
                     NEW axis \in AXES
              PROVE  /\ \A l \in 1..LastLevel(axis) : Ordered(axis, CrisisDay(materialise(TRUE)), l)
                     /\ axis \in BisectedAxes =>
                          \A target \in {"floor", "zero"} : Between(axis, CrisisDay(materialise(TRUE)), target)
  BY DEF MarginIsReal, Ordered, Between
<1>. QED BY LevelsOrdered, BreakEven

\* As long as no part of a spread brings money in, the sensitivity table does
\* not lie: on every axis a harder level leaves no more headroom and no more
\* cash, so one break-even separates the levels that fail from those that do
\* not, and the bisection ends on both sides of it (fpa_cash.py, sensitivity).
THEOREM MarginIsMeasured == ForecastSpec => []MarginIsReal
BY Tables, TablesMargin, PTL
=============================================================================
