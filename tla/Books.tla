------------------------------- MODULE Books --------------------------------
(***************************************************************************)
(* The journals of apps/erp (server.py, excel_io.py): entries by hand,     *)
(* from the bank page and from a workbook, edits that move an entry to     *)
(* another company, posting, deletion, bulk actions and the opening        *)
(* balances.                                                               *)
(*                                                                         *)
(* As in Plan, what a handler SELECTs before its first write is            *)
(* autocommitted and may be stale when it writes; from that write to       *)
(* commit() it is alone.  A request that breaks UNIQUE (company_id,        *)
(* entry_no) or a foreign key is rolled back: Abort.                       *)
(*                                                                         *)
(* An entry number is its prefix, its month and its counter.  Amounts are  *)
(* left out: every handler refuses lines that do not balance.  No client   *)
(* sends an entry_no of its own.                                           *)
(*                                                                         *)
(* Bound: MaxEntries entries are ever inserted (ids are never reused).     *)
(***************************************************************************)
EXTENDS Integers, FiniteSets, Sequences, FiniteSetsExt

CONSTANTS
    Companies, Months,
    Admins, Accountants,
    Bookers,            \* those who make entries
    Refs,               \* references of bank lines
    Forms,              \* reference and status of the entries people make
    Typed,              \* references people type over an entry's own
    Workbooks,          \* workbooks to import: the months of their groups
    NoRef, NoCompany,
    MaxEntries

Users == Admins \cup Accountants
Ids == 1..MaxEntries
Opening == "OPENING-BALANCE"
AllRefs == Refs \cup {NoRef, Opening}

ASSUME UserAssumption == Admins \cap Accountants = {} /\ Bookers \subseteq Users
ASSUME RefAssumption == NoRef \notin Refs \cup {Opening} /\ Opening \notin Refs
ASSUME FormAssumption == Forms \subseteq (Refs \cup {NoRef}) \X {"draft", "posted"}
ASSUME TypedAssumption == Typed \subseteq AllRefs
ASSUME WorkbookAssumption == Workbooks \subseteq Seq(Months) \ {<<>>}
ASSUME BoundAssumption == MaxEntries \in Nat /\ NoCompany \notin Companies

VARIABLES
    entry,      \* journal_entries by id, with the company whose accounts the lines use
    last,       \* the id inserted last
    task,       \* the request each user is waiting for
    stale,      \* users whose request began before the books changed
    page,       \* the bank page in each user's browser: lines still ticked
    outdated    \* users whose page was filled before the books changed

vars == <<entry, last, task, stale, page, outdated>>

NoNumber == <<"none", "none", 0>>
NoEntry == [company |-> NoCompany, no |-> NoNumber, ref |-> NoRef,
            status |-> "none", books |-> NoCompany]
Row(c, no, r, s) == [company |-> c, no |-> no, ref |-> r, status |-> s, books |-> c]

Idle == [pc |-> "idle", co |-> NoCompany, id |-> 0, ids |-> {}, no |-> NoNumber,
         ref |-> NoRef, status |-> "draft", more |-> <<>>]
NoPage == [co |-> NoCompany, parsed |-> {}, refs |-> {}]

At(u, pc) == task[u].pc = pc
Begin(u, t) == At(u, "idle") /\ task' = [task EXCEPT ![u] = t] /\ UNCHANGED <<entry, last, stale, page, outdated>>
Continue(u, t) == task' = [task EXCEPT ![u] = t] /\ UNCHANGED <<entry, last, stale, page, outdated>>

\* A commit ends its request; what the others have read is no longer true.
\* Staleness is kept of the steps that properties ask it of.
Watched == {"update", "move", "opening", "open", "delete"}
Commit(u) ==
    /\ task' = [task EXCEPT ![u] = Idle]
    /\ stale' = IF entry' = entry THEN stale \ {u} ELSE {w \in Users \ {u} : task[w].pc \in Watched}

\* A page for a company: the lines its statement left unflagged, all ticked.
Page(c, P) == IF P = {} THEN NoPage ELSE [co |-> c, parsed |-> P, refs |-> P]
Filled == {w \in Users : page[w].refs # {}}
OutdatePages ==
    /\ outdated' = IF entry' = entry THEN outdated ELSE Filled
    /\ UNCHANGED page

Exists(e) == entry[e] # NoEntry
EntriesOf(c) == {e \in Ids : Exists(e) /\ entry[e].company = c}
Count(c) == Cardinality(EntriesOf(c))
Taken(c, no) == \E e \in EntriesOf(c) : entry[e].no = no
TakenByOther(c, no, id) == \E e \in EntriesOf(c) \ {id} : entry[e].no = no
Openings(c) == {e \in EntriesOf(c) : entry[e].ref = Opening}

\* The next n ids get rows.
Room(n) == last + n <= MaxEntries
Inserted(n, new) ==
    /\ Room(n)
    /\ entry' = [e \in Ids |-> IF e \in last + 1 .. last + n THEN new[e - last] ELSE entry[e]]
    /\ last' = last + n

Init ==
    /\ entry = [e \in Ids |-> NoEntry]
    /\ last = 0
    /\ task = [u \in Users |-> Idle]
    /\ stale = {}
    /\ page = [u \in Users |-> NoPage]
    /\ outdated = {}

-----------------------------------------------------------------------------
(* New entries.                                                            *)

\* create_journal() numbers the entry by counting, in autocommit.  The bank
\* page sends its ticked lines one by one to the company it shows.
CountEntries(u, c, m, r, s) ==
    /\ u \in Bookers /\ Room(1)
    /\ r = NoRef \/ (c = page[u].co /\ r \in page[u].refs)
    /\ Begin(u, [Idle EXCEPT !.pc = "create", !.co = c, !.ref = r, !.status = s,
                          !.no = <<"JV", m, Count(c) + 1>>])

\* A line that was booked is unticked, if the answer arrives.
InsertEntry(u, answered) ==
    LET t == task[u] IN
    /\ At(u, "create")
    /\ ~Taken(t.co, t.no)
    /\ Inserted(1, <<Row(t.co, t.no, t.ref, t.status)>>)
    /\ Commit(u)
    /\ page' = [page EXCEPT ![u].refs = IF answered THEN page[u].refs \ {t.ref} ELSE page[u].refs]
    /\ outdated' = {w \in Users : page'[w].refs # {} /\ (w = u /\ answered => w \in outdated)}

\* Mutant: drafts are not looked for.
FlaggedPosted(c) == {r \in Refs : \E e \in EntriesOf(c) : entry[e].ref = r /\ entry[e].status = "posted"}

\* _flag_duplicates(): the lines of a statement that are in the books.
Flagged(c) == {r \in Refs : \E e \in EntriesOf(c) : entry[e].ref = r}

\* The bank page reads a statement and ticks the lines that are not flagged.
ParseStatement(u, c, R) ==
    /\ At(u, "idle") /\ u \in Bookers /\ Room(1)
    /\ page' = [page EXCEPT ![u] = Page(c, R \ Flagged(c))]
    /\ outdated' = outdated \ {u}
    /\ UNCHANGED <<entry, last, task, stale>>

\* Choosing another company draws the page again from the flags the statement
\* came with: what was booked since is ticked again.
ChooseCompany(u, c) ==
    /\ page[u].parsed # {} /\ c # page[u].co
    /\ page' = [page EXCEPT ![u] = Page(c, page[u].parsed)]
    /\ outdated' = outdated \cup {u}
    /\ UNCHANGED <<entry, last, task, stale>>

\* import_journals(): an entry for each group of the workbook, in a month of
\* its own.  The first is counted in autocommit, ...
CountForImport(u, c, months) ==
    /\ u \in Bookers /\ Room(Len(months))
    /\ Begin(u, [Idle EXCEPT !.pc = "import", !.co = c, !.more = Tail(months),
                          !.no = <<"IMP", Head(months), Count(c) + 1>>])

\* ... the others in the transaction; one number that is taken undoes them all.
InsertImport(u) ==
    LET t == task[u]
        n == 1 + Len(t.more)
        nos == [i \in 1..n |-> IF i = 1 THEN t.no ELSE <<"IMP", t.more[i - 1], Count(t.co) + i>>]
    IN
    /\ At(u, "import")
    /\ \A i \in 1..n : ~Taken(t.co, nos[i]) /\ \A j \in 1..(i - 1) : nos[j] # nos[i]
    /\ Inserted(n, [i \in 1..n |-> Row(t.co, nos[i], NoRef, "draft")])
    /\ Commit(u)
    /\ OutdatePages

-----------------------------------------------------------------------------
(* Entries that exist.                                                     *)

\* update_journal() reads the entry and checks the lines against the accounts
\* of the company it is to be in, ...
ReadEntry(u, e, c, r) ==
    /\ Exists(e)
    /\ Begin(u, [Idle EXCEPT !.pc = IF c = entry[e].company THEN "update" ELSE "move",
                          !.id = e, !.co = c, !.no = entry[e].no, !.ref = r])

FreeNumber(c, m) ==
    <<"JV", m, Min({n \in Count(c) + 1 .. Count(c) + MaxEntries + 1 : ~Taken(c, <<"JV", m, n>>)})>>

\* Mutant: an entry keeps its number wherever it goes.
ReadNumbersKept(u, m) ==
    LET t == task[u] IN
    /\ At(u, "move")
    /\ Continue(u, [Idle EXCEPT !.pc = "update", !.id = t.id, !.co = t.co, !.ref = t.ref, !.no = t.no])

\* ... looks for a number if it moves to a company where its own is taken (its
\* reads here are taken as one), ...
ReadNumbers(u, m) ==
    LET t == task[u] IN
    /\ At(u, "move")
    /\ Continue(u, [Idle EXCEPT !.pc = "update", !.id = t.id, !.co = t.co, !.ref = t.ref,
                             !.no = IF TakenByOther(t.co, t.no, t.id) THEN FreeNumber(t.co, m) ELSE t.no])

\* Mutant: the lines are left as they are.
WriteEntryKeepingLines(u) ==
    LET t == task[u] IN
    /\ At(u, "update") /\ Exists(t.id)
    /\ ~TakenByOther(t.co, t.no, t.id)
    /\ entry' = [entry EXCEPT ![t.id].company = t.co, ![t.id].no = t.no, ![t.id].ref = t.ref]
    /\ Commit(u)
    /\ OutdatePages
    /\ UNCHANGED last

\* ... and writes company, number and lines, but not the status.  The lines of
\* an entry that is gone break a foreign key.
WriteEntry(u) ==
    LET t == task[u] IN
    /\ At(u, "update") /\ Exists(t.id)
    /\ ~TakenByOther(t.co, t.no, t.id)
    /\ entry' = [entry EXCEPT ![t.id] = Row(t.co, t.no, t.ref, entry[t.id].status)]
    /\ Commit(u)
    /\ OutdatePages
    /\ UNCHANGED last

\* Only an admin may delete what is posted.
MayDelete(u, e) == entry[e].status = "posted" => u \in Admins

\* bulk_journals() reads the selected entries one by one.  The first that it
\* may act on is read in autocommit and its write begins the transaction, ...
\* post_journal() and delete_journal() do the same to one entry.
BulkSteps == {"delete", "draft", "post"}
ReadForBulk(u, step, e, others) ==
    /\ Exists(e)
    /\ step = "delete" => MayDelete(u, e)
    /\ Begin(u, [Idle EXCEPT !.pc = step, !.id = e, !.ids = others])

Bulked(step, row) ==
    IF step = "delete" \/ row = NoEntry THEN NoEntry
    ELSE [row EXCEPT !.status = IF step = "post" THEN "posted" ELSE "draft"]

\* Mutant: all entries were checked before the first was written.
BulkWriteChecked(u) ==
    LET t == task[u] IN
    /\ t.pc \in BulkSteps
    /\ entry' = [e \in Ids |-> IF e \in t.ids \cup {t.id} THEN Bulked(t.pc, entry[e]) ELSE entry[e]]
    /\ Commit(u)
    /\ OutdatePages
    /\ UNCHANGED last

\* ... in which the others are read.
BulkWrite(u) ==
    LET t == task[u]
        acts(e) == e = t.id \/ (e \in t.ids /\ (t.pc = "delete" => MayDelete(u, e)))
    IN
    /\ t.pc \in BulkSteps
    /\ entry' = [e \in Ids |-> IF acts(e) THEN Bulked(t.pc, entry[e]) ELSE entry[e]]
    /\ Commit(u)
    /\ OutdatePages
    /\ UNCHANGED last

-----------------------------------------------------------------------------
(* Opening balances.                                                       *)

\* Mutant: an opening entry that was put back to draft is not found.
ReadOpeningsPosted(u, c, m) ==
    /\ Begin(u, [Idle EXCEPT !.pc = "opening", !.co = c, !.no = <<"OB", m, 0>>,
                          !.ids = {e \in Openings(c) : entry[e].status = "posted"}])

\* save_opening_balances() looks for the entries it is to replace.
ReadOpenings(u, c, m) ==
    /\ Begin(u, [Idle EXCEPT !.pc = "opening", !.co = c, !.ids = Openings(c), !.no = <<"OB", m, 0>>])

\* One more than the highest of the month, not a row count.
NextSequence(c, m, gone) ==
    1 + Max({0} \cup {entry[e].no[3] : e \in {x \in EntriesOf(c) \ gone :
                                            entry[x].no[1] = "OB" /\ entry[x].no[2] = m}})

\* Deleting them begins the transaction that numbers and inserts the new one;
ReplaceOpening(u) ==
    LET t == task[u]
        no == <<"OB", t.no[2], NextSequence(t.co, t.no[2], t.ids)>>
    IN
    /\ At(u, "opening") /\ t.ids # {} /\ Room(1)
    /\ entry' = [e \in Ids |-> IF e \in t.ids THEN NoEntry
                               ELSE IF e = last + 1 THEN Row(t.co, no, Opening, "posted")
                               ELSE entry[e]]
    /\ last' = last + 1
    /\ Commit(u)
    /\ OutdatePages

\* with none to delete the number is read first
ReadSequence(u) ==
    LET t == task[u] IN
    /\ At(u, "opening") /\ t.ids = {}
    /\ Continue(u, [Idle EXCEPT !.pc = "open", !.co = t.co, !.no = <<"OB", t.no[2], NextSequence(t.co, t.no[2], {})>>])

\* and may be taken.
InsertOpening(u) ==
    LET t == task[u] IN
    /\ At(u, "open")
    /\ ~Taken(t.co, t.no)
    /\ Inserted(1, <<Row(t.co, t.no, Opening, "posted")>>)
    /\ Commit(u)
    /\ OutdatePages

-----------------------------------------------------------------------------

\* A request ends with nothing committed: a constraint, a lock not granted
\* within 15 seconds, a server that stops.
Abort(u) ==
    /\ ~At(u, "idle")
    /\ task' = [task EXCEPT ![u] = Idle]
    /\ stale' = stale \ {u}
    /\ UNCHANGED <<entry, last, page, outdated>>

Next ==
    \E u \in Users :
       \/ \E c \in Companies, m \in Months :
            \/ \E f \in Forms : CountEntries(u, c, m, f[1], f[2])
            \/ ReadOpenings(u, c, m)
       \/ \E c \in Companies : \E R \in SUBSET Refs : ParseStatement(u, c, R)
       \/ \E c \in Companies : ChooseCompany(u, c)
       \/ \E c \in Companies, months \in Workbooks : CountForImport(u, c, months)
       \/ \E e \in Ids, c \in Companies : \E r \in Typed \cup {entry[e].ref} : ReadEntry(u, e, c, r)
       \/ \E m \in Months : ReadNumbers(u, m)
       \/ \E e \in Ids, step \in BulkSteps : \E S \in SUBSET (Ids \ {e}) : ReadForBulk(u, step, e, S)
       \/ \E answered \in BOOLEAN : InsertEntry(u, answered)
       \/ InsertImport(u) \/ WriteEntry(u) \/ BulkWrite(u)
       \/ ReplaceOpening(u) \/ ReadSequence(u) \/ InsertOpening(u) \/ Abort(u)

Spec == Init /\ [][Next]_vars

-----------------------------------------------------------------------------
(* Properties.                                                             *)

TypeOK ==
    LET numbers == {"JV", "IMP", "OB"} \X Months \X (0 .. 2 * MaxEntries + 1) IN
    /\ last \in 0..MaxEntries
    /\ \A e \in Ids :
         \/ entry[e] = NoEntry
         \/ /\ e <= last
            /\ entry[e] \in [company : Companies, no : numbers, ref : AllRefs,
                             status : {"draft", "posted"}, books : Companies]
    /\ \A u \in Users :
         /\ task[u].pc \in {"idle", "create", "import", "update", "move", "opening", "open"}
                            \cup BulkSteps
         /\ task[u].co \in Companies \cup {NoCompany} /\ task[u].id \in Ids \cup {0}
         /\ task[u].ids \subseteq Ids /\ task[u].ref \in AllRefs
         /\ task[u].no = NoNumber \/ task[u].no \in numbers
         /\ page[u] \in [co : Companies \cup {NoCompany}, parsed : SUBSET Refs, refs : SUBSET Refs]
    /\ stale \cup outdated \subseteq Users

\* The lines of an entry use the accounts of the entry's own company, however
\* edits that move it race: "a line pointing at another entity's 6100 would
\* post into the wrong set of books" (server.py:1165).
LinesFit == \A e \in Ids : entry[e].books = entry[e].company

\* An opening entry and a moved entry find a number that is free: unless the
\* books change while the request runs, UNIQUE does not refuse it.
\* (create_journal() and import_journals(), which count, have no such luck.)
AloneIsAccepted ==
    \A u \in Users \ stale : LET t == task[u] IN
      /\ t.pc = "open" => ~Taken(t.co, t.no)
      /\ t.pc = "update" => Exists(t.id) /\ ~TakenByOther(t.co, t.no, t.id)

\* A statement that is read again after its lines were booked, all or some,
\* ticks none of those: as long as nobody else works on the books, answers
\* arrive and the company is not changed, "re-uploading the same file is safe" (app.js:2816).
ReuploadIsSafe ==
    \A u \in Users \ outdated : \A e \in EntriesOf(page[u].co) : entry[e].ref \notin page[u].refs

\* However many opening entries moves and races have left, the next save that
\* is not disturbed leaves one, its own.
OpeningHeals ==
    [][\A u \in Users \ stale, c \in Companies :
         /\ task[u].pc \in {"opening", "open"} /\ task[u].co = c
         /\ task'[u].pc = "idle" /\ last' # last
         => Openings(c)' = {last'}]_vars

\* A request of finance's to delete, one entry or many, removes a posted entry
\* only if it was posted behind the request's back, and one at most: the
\* others of a bulk are read in its transaction.
DraftsGo ==
    [][\A u \in Accountants :
         task[u].pc = "delete" /\ task'[u].pc = "idle" =>
           LET gone == {e \in Ids : entry[e].status = "posted" /\ entry'[e] = NoEntry} IN
           /\ Cardinality(gone) <= 1
           /\ gone # {} => u \in stale]_vars

\* "marks the single opening-balance entry per company" (server.py:1846).
\* The code does not keep it; the README tells how it fails.
OneOpening == \A c \in Companies : Cardinality(Openings(c)) <= 1

=============================================================================
