---------------------------- MODULE BooksProofs -----------------------------
(***************************************************************************)
(* Proofs about Books, for any companies, people, references and number of *)
(* entries: lines stay in the books of their entry (LinesFit), a statement *)
(* read again ticks no line that is booked (ReuploadIsSafe), an opening    *)
(* entry that is saved undisturbed is the only one, however many there     *)
(* were (OpeningHeals), finance deletes drafts (DraftsGo), and an          *)
(* undisturbed request finds a number that is free (AloneIsAccepted).      *)
(*                                                                         *)
(* In the first four numbers play no part: who is refused a number writes  *)
(* nothing.  Their invariant ties what an undisturbed request has read to  *)
(* the books (Watching); the rest is what the tables are (Tables).  The    *)
(* last needs that no two entries of a company share a number (Distinct)   *)
(* and that numbers can be counted (Numbered).                             *)
(***************************************************************************)
EXTENDS Books, SumTheorems, TLAPS

Tables ==
    /\ DOMAIN entry = Ids
    /\ DOMAIN task = Users
    /\ DOMAIN page = Users
    /\ \A u \in Users : DOMAIN page[u] = DOMAIN NoPage
    /\ last \in Nat
    /\ \A e \in Ids : DOMAIN entry[e] = DOMAIN NoEntry
    /\ \A e \in Ids : e > last => entry[e] = NoEntry
    /\ \A u \in Users : task[u].more \in Seq(Months)

Watching ==
    \A u \in Users \ stale :
      /\ task[u].pc = "delete" => MayDelete(u, task[u].id)
      /\ task[u].pc = "opening" => task[u].ids = Openings(task[u].co)
      /\ task[u].pc = "open" => Openings(task[u].co) = {}

\* The inductive invariant.
IInv == Tables /\ LinesFit /\ Watching /\ ReuploadIsSafe

Gone == {e \in Ids : entry[e].status = "posted" /\ entry'[e] = NoEntry}

\* What DraftsGo and OpeningHeals say of one step.
Drafted ==
    \A u \in Accountants : task[u].pc = "delete" /\ task'[u].pc = "idle" =>
      /\ Cardinality(Gone) <= 1
      /\ Gone # {} => u \in stale
Healed ==
    \A u \in Users \ stale, c \in Companies :
      /\ task[u].pc \in {"opening", "open"} /\ task[u].co = c
      /\ task'[u].pc = "idle" /\ last' # last
      => Openings(c)' = {last'}

-----------------------------------------------------------------------------
(* Steps that leave the books as they are.                                 *)

\* Where nothing is inserted or removed, nothing is removed wrongly.
LEMMA Still == ASSUME UNCHANGED <<entry, last>> PROVE Drafted /\ Healed
<1>1. Gone = {}
  BY DEF Gone, NoEntry
<1>2. Cardinality(Gone) <= 1
  BY <1>1, FS_EmptySet
<1> QED
  BY <1>1, <1>2 DEF Drafted, Healed

\* A request that begins or reads on keeps the invariant, if what it has read
\* is so.
LEMMA Reads ==
    ASSUME IInv, NEW u \in Users, NEW t, task' = [task EXCEPT ![u] = t],
           UNCHANGED <<entry, last, stale, page, outdated>>,
           t.more \in Seq(Months),
           u \notin stale =>
             /\ t.pc = "delete" => MayDelete(u, t.id)
             /\ t.pc = "opening" => t.ids = Openings(t.co)
             /\ t.pc = "open" => Openings(t.co) = {}
    PROVE  IInv'
<1>1. \A w \in Users : task'[w] = IF w = u THEN t ELSE task[w]
  BY DEF IInv, Tables
<1>2. Tables'
  BY <1>1 DEF IInv, Tables
<1>3. Watching'
  <2> SUFFICES ASSUME NEW w \in Users, w \notin stale
               PROVE  /\ task'[w].pc = "delete" => MayDelete(w, task'[w].id)
                      /\ task'[w].pc = "opening" => task'[w].ids = Openings(task'[w].co)
                      /\ task'[w].pc = "open" => Openings(task'[w].co) = {}
    BY DEF Watching, MayDelete, Openings, EntriesOf, Exists
  <2> QED
    BY <1>1 DEF IInv, Watching
<1>4. LinesFit' /\ ReuploadIsSafe'
  BY DEF IInv, LinesFit, ReuploadIsSafe, EntriesOf, Exists
<1> QED
  BY <1>2, <1>3, <1>4 DEF IInv

\* A request that is given up.
LEMMA Abandoned ==
    ASSUME IInv, NEW u \in Users, Abort(u)
    PROVE  IInv'
<1>1. \A w \in Users : task'[w] = IF w = u THEN Idle ELSE task[w]
  BY DEF IInv, Tables, Abort
<1>2. Tables'
  BY <1>1 DEF IInv, Tables, Abort, Idle
<1>3. Watching'
  BY <1>1 DEF IInv, Watching, Abort, Idle, MayDelete, Openings, EntriesOf, Exists
<1>4. LinesFit' /\ ReuploadIsSafe'
  BY DEF IInv, LinesFit, ReuploadIsSafe, EntriesOf, Exists, Abort
<1> QED
  BY <1>2, <1>3, <1>4 DEF IInv

\* The bank page: a statement that is read ticks no line that is booked.
LEMMA Ticks ==
    ASSUME IInv, NEW u \in Users, NEW c \in Companies,
           \/ \E R \in SUBSET Refs : ParseStatement(u, c, R)
           \/ ChooseCompany(u, c)
    PROVE  IInv' /\ UNCHANGED <<entry, last>>
<1>1. UNCHANGED <<entry, last, task, stale>>
  BY DEF ParseStatement, ChooseCompany
<1>2. \A w \in Users \ {u} : page'[w] = page[w] /\ (w \notin outdated' => w \notin outdated)
  BY DEF IInv, Tables, ParseStatement, ChooseCompany
<1>3. Tables'
  <2>1. \A P : DOMAIN Page(c, P) = DOMAIN NoPage
    BY DEF Page, NoPage
  <2>2. \E P : page' = [page EXCEPT ![u] = Page(c, P)]
    BY DEF ParseStatement, ChooseCompany
  <2>3. PICK P : page' = [page EXCEPT ![u] = Page(c, P)]
    BY <2>2
  <2>4. DOMAIN page' = Users /\ \A w \in Users : page'[w] = IF w = u THEN Page(c, P) ELSE page[w]
    BY <2>3 DEF IInv, Tables
  <2>5. \A w \in Users : DOMAIN page'[w] = DOMAIN NoPage
    BY <2>1, <2>4 DEF IInv, Tables
  <2> QED
    BY <1>1, <2>4, <2>5 DEF IInv, Tables
<1>4. Watching' /\ LinesFit'
  BY <1>1 DEF IInv, Watching, LinesFit, MayDelete, Openings, EntriesOf, Exists
<1>5. ReuploadIsSafe'
  <2> SUFFICES ASSUME NEW w \in Users, w \notin outdated',
                      NEW e \in Ids, Exists(e), entry[e].company = page'[w].co
               PROVE  entry[e].ref \notin page'[w].refs
    BY <1>1 DEF ReuploadIsSafe, EntriesOf, Exists
  <2>1. CASE w # u
    BY <1>2, <2>1 DEF IInv, ReuploadIsSafe, EntriesOf
  <2>2. CASE w = u
    <3>1. PICK R \in SUBSET Refs : ParseStatement(u, c, R)
      BY <2>2 DEF ChooseCompany
    <3>2. page'[u] = Page(c, R \ Flagged(c))
      BY <3>1 DEF ParseStatement, IInv, Tables
    <3>3. CASE R \ Flagged(c) = {}
      BY <2>2, <3>2, <3>3 DEF Page, NoPage
    <3>4. CASE R \ Flagged(c) # {}
      BY <2>2, <3>2, <3>4 DEF Page, Flagged, EntriesOf
    <3> QED
      BY <3>3, <3>4
  <2> QED
    BY <2>1, <2>2
<1> QED
  BY <1>1, <1>3, <1>4, <1>5 DEF IInv

-----------------------------------------------------------------------------
(* Commits.                                                                *)

\* A commit outdates what every request that is watched has read.
LEMMA Others ==
    ASSUME IInv, NEW u \in Users, Commit(u)
    PROVE  /\ \A w \in Users : task'[w] = IF w = u THEN Idle ELSE task[w]
           /\ DOMAIN task' = Users
           /\ Watching'
<1>1. \A w \in Users : task'[w] = IF w = u THEN Idle ELSE task[w]
  BY DEF IInv, Tables, Commit
<1>2. DOMAIN task' = Users
  BY DEF IInv, Tables, Commit
<1>3. Watching'
  <2>1. CASE entry' = entry
    BY <1>1, <2>1 DEF IInv, Watching, Commit, Idle, MayDelete, Openings, EntriesOf, Exists
  <2>2. CASE entry' # entry
    BY <1>1, <2>2 DEF Watching, Commit, Watched, Idle
  <2> QED
    BY <2>1, <2>2
<1> QED
  BY <1>1, <1>2, <1>3

\* So the invariant holds after a commit that keeps lines with their entries.
LEMMA Changed ==
    ASSUME IInv, NEW u \in Users, Commit(u), OutdatePages,
           DOMAIN entry' = Ids, last' \in Nat,
           \A e \in Ids : DOMAIN entry'[e] = DOMAIN NoEntry,
           \A e \in Ids : e > last' => entry'[e] = NoEntry,
           LinesFit'
    PROVE  IInv'
<1>1. /\ \A w \in Users : task'[w] = IF w = u THEN Idle ELSE task[w]
      /\ DOMAIN task' = Users
      /\ Watching'
  BY Others
<1>2. Tables'
  <2>1. Idle.more \in Seq(Months)
    BY DEF Idle
  <2>2. \A w \in Users : task'[w].more \in Seq(Months)
    BY <1>1, <2>1 DEF IInv, Tables
  <2> QED
    BY <1>1, <2>2 DEF IInv, Tables, OutdatePages
<1>3. ReuploadIsSafe'
  <2>1. CASE entry' = entry
    BY <2>1 DEF IInv, ReuploadIsSafe, EntriesOf, Exists, OutdatePages
  <2>2. CASE entry' # entry
    BY <2>2 DEF ReuploadIsSafe, OutdatePages, Filled
  <2> QED
    BY <2>1, <2>2
<1> QED
  BY <1>1, <1>2, <1>3 DEF IInv

\* Only the end of a request to delete concerns DraftsGo, only the end of one
\* that saves opening balances and inserts a row concerns OpeningHeals.
LEMMA Unconcerned ==
    ASSUME IInv, NEW u \in Users, Commit(u)
    PROVE  /\ task[u].pc # "delete" => Drafted
           /\ task[u].pc \notin {"opening", "open"} \/ last' = last => Healed
<1>1. \A w \in Users : task'[w] = IF w = u THEN Idle ELSE task[w]
  BY Others
<1>2. Accountants \subseteq Users
  BY DEF Users
<1> QED
  BY <1>1, <1>2 DEF Drafted, Healed

\* New rows go where none was.
LEMMA News ==
    ASSUME IInv, NEW n \in Nat, NEW new, Inserted(n, new),
           \A i \in 1..n : new[i].books = new[i].company,
           \A i \in 1..n : DOMAIN new[i] = DOMAIN NoEntry
    PROVE  /\ DOMAIN entry' = Ids
           /\ last' \in Nat /\ last' = last + n /\ last' <= MaxEntries
           /\ \A e \in Ids : entry'[e] = IF e \in last + 1 .. last + n THEN new[e - last] ELSE entry[e]
           /\ \A e \in Ids : DOMAIN entry'[e] = DOMAIN NoEntry
           /\ \A e \in Ids : e > last' => entry'[e] = NoEntry
           /\ LinesFit'
<1>1. DOMAIN entry' = Ids /\ last' = last + n /\ last + n <= MaxEntries
  BY DEF Inserted, Room
<1>2. last \in Nat /\ last' \in Nat /\ MaxEntries \in Nat
  BY <1>1, BoundAssumption DEF IInv, Tables
<1>3. \A e \in Ids : entry'[e] = IF e \in last + 1 .. last + n THEN new[e - last] ELSE entry[e]
  BY DEF Inserted
<1>4. \A e \in Ids : e \in last + 1 .. last + n => e - last \in 1..n
  BY <1>2 DEF Ids
<1>5. \A e \in Ids : DOMAIN entry'[e] = DOMAIN NoEntry
  BY <1>3, <1>4 DEF IInv, Tables
<1>6. \A e \in Ids : e > last' => entry'[e] = NoEntry
  <2> SUFFICES ASSUME NEW e \in Ids, e > last' PROVE entry'[e] = NoEntry
    OBVIOUS
  <2>1. e \notin last + 1 .. last + n /\ e > last
    BY <1>1, <1>2 DEF Ids
  <2> QED
    BY <1>3, <2>1 DEF IInv, Tables
<1>7. LinesFit'
  BY <1>3, <1>4 DEF IInv, LinesFit
<1> QED
  BY <1>1, <1>2, <1>3, <1>5, <1>6, <1>7

-----------------------------------------------------------------------------
(* The commits, one by one.                                                *)

\* An entry from the bank page or by hand: its line is not ticked any more,
\* or the page is outdated.
LEMMA InsertsEntry ==
    ASSUME IInv, NEW u \in Users, NEW answered \in BOOLEAN, InsertEntry(u, answered)
    PROVE  IInv' /\ Drafted /\ Healed
<1> DEFINE t == task[u]
           row == Row(t.co, t.no, t.ref, t.status)
<1>1. /\ Inserted(1, <<row>>)
      /\ Commit(u)
      /\ t.pc = "create"
      /\ page' = [page EXCEPT ![u].refs = IF answered THEN page[u].refs \ {t.ref} ELSE page[u].refs]
      /\ outdated' = {w \in Users : page'[w].refs # {} /\ (w = u /\ answered => w \in outdated)}
  BY DEF InsertEntry, At
<1>2. row.books = row.company /\ DOMAIN row = DOMAIN NoEntry /\ row.ref = t.ref
  BY DEF Row, NoEntry
<1> HIDE DEF row
<1>3. /\ DOMAIN entry' = Ids
      /\ last' \in Nat /\ last' = last + 1
      /\ \A e \in Ids : entry'[e] = IF e \in last + 1 .. last + 1 THEN <<row>>[e - last] ELSE entry[e]
      /\ \A e \in Ids : DOMAIN entry'[e] = DOMAIN NoEntry
      /\ \A e \in Ids : e > last' => entry'[e] = NoEntry
      /\ LinesFit'
  <2>1. \A i \in 1..1 : <<row>>[i] = row
    OBVIOUS
  <2>2. \A i \in 1..1 : <<row>>[i].books = <<row>>[i].company /\ DOMAIN <<row>>[i] = DOMAIN NoEntry
    BY <1>2, <2>1
  <2> HIDE DEF t
  <2> QED
    BY <1>1, <2>2, News
<1>4. \A e \in Ids : entry'[e] = IF e = last + 1 THEN row ELSE entry[e]
  <2>1. last \in Nat /\ Ids \subseteq Int
    BY BoundAssumption DEF IInv, Tables, Ids
  <2>2. \A e \in Ids : e \in last + 1 .. last + 1 <=> e = last + 1
    BY <2>1
  <2>3. <<row>>[(last + 1) - last] = row
    BY <2>1
  <2> QED
    BY <1>3, <2>2, <2>3
<1>5. /\ \A w \in Users : task'[w] = IF w = u THEN Idle ELSE task[w]
      /\ DOMAIN task' = Users
      /\ Watching'
  BY <1>1, Others
<1>6. Tables'
  <2>1. Idle.more \in Seq(Months)
    BY DEF Idle
  <2>2. \A w \in Users : task'[w].more \in Seq(Months)
    BY <1>5, <2>1 DEF IInv, Tables
  <2>3. DOMAIN page' = Users /\ \A w \in Users : DOMAIN page'[w] = DOMAIN NoPage
    BY <1>1 DEF IInv, Tables, NoPage
  <2> QED
    BY <1>3, <1>5, <2>2, <2>3 DEF Tables
<1>7. ReuploadIsSafe'
  <2> SUFFICES ASSUME NEW w \in Users, w \notin outdated',
                      NEW e \in Ids, entry'[e] # NoEntry, entry'[e].company = page'[w].co
               PROVE  entry'[e].ref \notin page'[w].refs
    BY DEF ReuploadIsSafe, EntriesOf, Exists
  <2>1. CASE page'[w].refs = {}
    BY <2>1
  <2>2. CASE page'[w].refs # {}
    <3>1. w = u /\ answered /\ u \notin outdated
      BY <1>1, <2>2
    <3>2. page'[u] = [page[u] EXCEPT !.refs = page[u].refs \ {t.ref}] /\ DOMAIN page[u] = DOMAIN NoPage
      BY <1>1, <3>1 DEF IInv, Tables
    <3>3. page'[u].co = page[u].co /\ page'[u].refs = page[u].refs \ {t.ref}
      BY <3>2 DEF NoPage
    <3>4. CASE e = last + 1
      BY <1>2, <1>4, <3>1, <3>3, <3>4
    <3>5. CASE e # last + 1
      BY <1>4, <3>1, <3>3, <3>5 DEF IInv, ReuploadIsSafe, EntriesOf, Exists
    <3> QED
      BY <3>4, <3>5
  <2> QED
    BY <2>1, <2>2
<1> QED
  BY <1>1, <1>3, <1>5, <1>6, <1>7, Unconcerned DEF IInv

\* A workbook.
LEMMA InsertsImport ==
    ASSUME IInv, NEW u \in Users, InsertImport(u)
    PROVE  IInv' /\ Drafted /\ Healed
<1> DEFINE t == task[u]
           n == 1 + Len(t.more)
           nos == [i \in 1..n |-> IF i = 1 THEN t.no ELSE <<"IMP", t.more[i - 1], Count(t.co) + i>>]
           new == [i \in 1..n |-> Row(t.co, nos[i], NoRef, "draft")]
<1>1. t.pc = "import" /\ Inserted(n, new) /\ Commit(u) /\ OutdatePages
  BY DEF InsertImport, At
<1>2. n \in Nat
  BY DEF IInv, Tables
<1>3. \A i \in 1..n : new[i].books = new[i].company /\ DOMAIN new[i] = DOMAIN NoEntry
  <2> HIDE DEF n, nos
  <2> QED
    BY DEF Row, NoEntry
<1> HIDE DEF n, nos, new
<1>4. /\ DOMAIN entry' = Ids
      /\ last' \in Nat
      /\ \A e \in Ids : DOMAIN entry'[e] = DOMAIN NoEntry
      /\ \A e \in Ids : e > last' => entry'[e] = NoEntry
      /\ LinesFit'
  <2> HIDE DEF t
  <2> QED
    BY <1>1, <1>2, <1>3, News
<1>5. IInv'
  BY <1>1, <1>4, Changed
<1> QED
  BY <1>1, <1>5, Unconcerned

\* An edit.
LEMMA WritesEntry ==
    ASSUME IInv, NEW u \in Users, WriteEntry(u)
    PROVE  IInv' /\ Drafted /\ Healed
<1> DEFINE t == task[u]
           row == Row(t.co, t.no, t.ref, entry[t.id].status)
<1>1. /\ t.pc = "update" /\ Exists(t.id) /\ Commit(u) /\ OutdatePages /\ last' = last
      /\ entry' = [entry EXCEPT ![t.id] = row]
  BY DEF WriteEntry, At
<1>2. row.books = row.company /\ DOMAIN row = DOMAIN NoEntry
  BY DEF Row, NoEntry
<1> HIDE DEF row
<1>3. \A e \in Ids : entry'[e] = IF e = t.id THEN row ELSE entry[e]
  BY <1>1 DEF IInv, Tables
<1>4. /\ DOMAIN entry' = Ids
      /\ last' \in Nat
      /\ \A e \in Ids : DOMAIN entry'[e] = DOMAIN NoEntry
      /\ \A e \in Ids : e > last' => entry'[e] = NoEntry
      /\ LinesFit'
  BY <1>1, <1>2, <1>3 DEF IInv, Tables, LinesFit, Exists
<1>5. IInv'
  BY <1>1, <1>4, Changed
<1> QED
  BY <1>1, <1>5, Unconcerned

\* A bulk action, or one on a single entry.  What a request to delete removes
\* beside the entry it read in autocommit, it reads in its transaction.
LEMMA WritesBulk ==
    ASSUME IInv, NEW u \in Users, BulkWrite(u)
    PROVE  IInv' /\ Drafted /\ Healed
<1> DEFINE t == task[u]
           acts(e) == e = t.id \/ (e \in t.ids /\ (t.pc = "delete" => MayDelete(u, e)))
<1>1. /\ t.pc \in BulkSteps /\ Commit(u) /\ OutdatePages /\ last' = last
      /\ entry' = [e \in Ids |-> IF acts(e) THEN Bulked(t.pc, entry[e]) ELSE entry[e]]
  BY DEF BulkWrite
<1>2. \A e \in Ids : entry'[e] = entry[e] \/ (acts(e) /\ entry'[e] = Bulked(t.pc, entry[e]))
  BY <1>1
<1>3. \A e \in Ids : LET b == Bulked(t.pc, entry[e]) IN
        /\ DOMAIN b = DOMAIN NoEntry
        /\ b.books = b.company
        /\ entry[e] = NoEntry => b = NoEntry
  <2> TAKE e \in Ids
  <2>1. DOMAIN entry[e] = DOMAIN NoEntry /\ entry[e].books = entry[e].company
    BY DEF IInv, Tables, LinesFit
  <2>2. NoEntry.books = NoEntry.company
    BY DEF NoEntry
  <2>3. CASE Bulked(t.pc, entry[e]) = NoEntry
    BY <2>2, <2>3
  <2>4. CASE /\ Bulked(t.pc, entry[e]) = [entry[e] EXCEPT !.status = IF t.pc = "post" THEN "posted" ELSE "draft"]
             /\ entry[e] # NoEntry
    BY <2>1, <2>4
  <2> QED
    BY <2>3, <2>4 DEF Bulked
<1>4. /\ DOMAIN entry' = Ids
      /\ last' \in Nat
      /\ \A e \in Ids : DOMAIN entry'[e] = DOMAIN NoEntry
      /\ \A e \in Ids : e > last' => entry'[e] = NoEntry
      /\ LinesFit'
  BY <1>1, <1>2, <1>3 DEF IInv, Tables, LinesFit
<1>5. IInv'
  BY <1>1, <1>4, Changed
<1>6. Drafted
  <2> SUFFICES ASSUME NEW w \in Accountants, task[w].pc = "delete", task'[w].pc = "idle"
               PROVE  Cardinality(Gone) <= 1 /\ (Gone # {} => w \in stale)
    BY DEF Drafted
  <2>1. w = u
    BY <1>1, Others DEF Users
  <2>2. w \notin Admins
    BY UserAssumption
  <2>3. Gone \subseteq {t.id}
    <3> SUFFICES ASSUME NEW e \in Ids, entry[e].status = "posted", entry'[e] = NoEntry
                 PROVE  e = t.id
      BY DEF Gone
    <3>1. acts(e)
      BY <1>2 DEF NoEntry
    <3> QED
      BY <2>1, <2>2, <3>1 DEF MayDelete
  <2>4. Cardinality(Gone) <= 1
    <3>1. IsFiniteSet({t.id}) /\ Cardinality({t.id}) = 1
      BY FS_Singleton
    <3> QED
      BY <2>3, <3>1, FS_Subset
  <2>5. Gone # {} => u \in stale
    <3>1. Gone # {} => entry[t.id].status = "posted"
      BY <2>3 DEF Gone
    <3>2. u \notin stale => MayDelete(u, t.id)
      BY <2>1 DEF IInv, Watching
    <3> QED
      BY <2>1, <2>2, <3>1, <3>2 DEF MayDelete
  <2> QED
    BY <2>1, <2>4, <2>5
<1> QED
  BY <1>1, <1>5, <1>6, Unconcerned

\* An opening entry that is saved undisturbed is the only one.
LEMMA Alone ==
    ASSUME IInv, NEW u \in Users, NEW row, Commit(u),
           Room(1), last' = last + 1,
           row.company = task[u].co, row.ref = Opening, row.status = "posted",
           u \notin stale =>
             \A e \in Ids : entry'[e] = IF e = last + 1 THEN row
                                         ELSE IF e \in Openings(task[u].co) THEN NoEntry
                                         ELSE entry[e]
    PROVE  Healed
<1> SUFFICES ASSUME NEW w \in Users \ stale, NEW c \in Companies,
                    task[w].pc \in {"opening", "open"}, task[w].co = c, task'[w].pc = "idle"
             PROVE  Openings(c)' = {last'}
  BY DEF Healed
<1>1. w = u
  BY Others
<1>2. last + 1 \in Ids
  BY BoundAssumption DEF Ids, Room, IInv, Tables
<1>3. \A e \in Ids : entry'[e] = IF e = last + 1 THEN row
                                  ELSE IF e \in Openings(c) THEN NoEntry
                                  ELSE entry[e]
  BY <1>1
<1>4. row # NoEntry /\ NoEntry.ref # Opening
  BY RefAssumption DEF NoEntry
<1>5. \A e \in Ids : e \in Openings(c)' <=> e = last + 1
  BY <1>1, <1>2, <1>3, <1>4 DEF Openings, EntriesOf, Exists
<1>6. Openings(c)' \subseteq Ids
  BY DEF Openings, EntriesOf, Ids
<1> QED
  BY <1>2, <1>5, <1>6

\* The old ones are found and replaced ...
LEMMA Replaces ==
    ASSUME IInv, NEW u \in Users, ReplaceOpening(u)
    PROVE  IInv' /\ Drafted /\ Healed
<1> DEFINE t == task[u]
           row == Row(t.co, <<"OB", t.no[2], NextSequence(t.co, t.no[2], t.ids)>>, Opening, "posted")
<1>1. /\ t.pc = "opening" /\ Room(1) /\ Commit(u) /\ OutdatePages /\ last' = last + 1
      /\ entry' = [e \in Ids |-> IF e \in t.ids THEN NoEntry
                                 ELSE IF e = last + 1 THEN row ELSE entry[e]]
  BY DEF ReplaceOpening, At
<1>2. /\ row.books = row.company /\ DOMAIN row = DOMAIN NoEntry
      /\ row.company = t.co /\ row.ref = Opening /\ row.status = "posted"
      /\ NoEntry.books = NoEntry.company
  BY DEF Row, NoEntry
<1> HIDE DEF row
<1>3. last \in Nat /\ Ids \subseteq Int
  BY BoundAssumption DEF IInv, Tables, Ids
<1>4. \A e \in Ids : entry'[e] = IF e \in t.ids THEN NoEntry
                                  ELSE IF e = last + 1 THEN row ELSE entry[e]
  BY <1>1
<1>5. \A e \in Ids : e > last' => entry'[e] = NoEntry
  <2> SUFFICES ASSUME NEW e \in Ids, e > last' PROVE entry'[e] = NoEntry
    OBVIOUS
  <2>1. e > last /\ e # last + 1
    BY <1>1, <1>3
  <2> QED
    BY <1>4, <2>1 DEF IInv, Tables
<1>6. /\ DOMAIN entry' = Ids
      /\ last' \in Nat
      /\ \A e \in Ids : DOMAIN entry'[e] = DOMAIN NoEntry
      /\ LinesFit'
  BY <1>1, <1>2, <1>3, <1>4 DEF IInv, Tables, LinesFit
<1>7. IInv'
  BY <1>1, <1>5, <1>6, Changed
<1>8. ASSUME u \notin stale
      PROVE  \A e \in Ids : entry'[e] = IF e = last + 1 THEN row
                                         ELSE IF e \in Openings(t.co) THEN NoEntry
                                         ELSE entry[e]
  <2>1. t.ids = Openings(t.co)
    BY <1>1, <1>8 DEF IInv, Watching
  <2>2. last + 1 \notin Openings(t.co)
    BY <1>3 DEF Openings, EntriesOf, Exists, IInv, Tables
  <2> QED
    BY <1>4, <2>1, <2>2
<1>9. Healed
  BY <1>1, <1>2, <1>8, Alone
<1> QED
  BY <1>1, <1>7, <1>9, Unconcerned

\* ... or there are none.
LEMMA InsertsOpening ==
    ASSUME IInv, NEW u \in Users, InsertOpening(u)
    PROVE  IInv' /\ Drafted /\ Healed
<1> DEFINE t == task[u]
           row == Row(t.co, t.no, Opening, "posted")
<1>1. t.pc = "open" /\ Room(1) /\ Inserted(1, <<row>>) /\ Commit(u) /\ OutdatePages
  BY DEF InsertOpening, Inserted, At
<1>2. /\ row.books = row.company /\ DOMAIN row = DOMAIN NoEntry
      /\ row.company = t.co /\ row.ref = Opening /\ row.status = "posted"
  BY DEF Row, NoEntry
<1> HIDE DEF row
<1>3. /\ DOMAIN entry' = Ids
      /\ last' \in Nat /\ last' = last + 1
      /\ \A e \in Ids : entry'[e] = IF e \in last + 1 .. last + 1 THEN <<row>>[e - last] ELSE entry[e]
      /\ \A e \in Ids : DOMAIN entry'[e] = DOMAIN NoEntry
      /\ \A e \in Ids : e > last' => entry'[e] = NoEntry
      /\ LinesFit'
  <2>1. \A i \in 1..1 : <<row>>[i] = row
    OBVIOUS
  <2>2. \A i \in 1..1 : <<row>>[i].books = <<row>>[i].company /\ DOMAIN <<row>>[i] = DOMAIN NoEntry
    BY <1>2, <2>1
  <2> HIDE DEF t
  <2> QED
    BY <1>1, <2>2, News
<1>4. \A e \in Ids : entry'[e] = IF e = last + 1 THEN row ELSE entry[e]
  <2>1. last \in Nat /\ Ids \subseteq Int
    BY BoundAssumption DEF IInv, Tables, Ids
  <2>2. \A e \in Ids : e \in last + 1 .. last + 1 <=> e = last + 1
    BY <2>1
  <2>3. <<row>>[(last + 1) - last] = row
    BY <2>1
  <2> QED
    BY <1>3, <2>2, <2>3
<1>5. IInv'
  BY <1>1, <1>3, Changed
<1>6. u \notin stale => \A e \in Ids : entry'[e] = IF e = last + 1 THEN row
                                                   ELSE IF e \in Openings(t.co) THEN NoEntry
                                                   ELSE entry[e]
  BY <1>1, <1>4 DEF IInv, Watching
<1>7. Healed
  BY <1>1, <1>2, <1>3, <1>6, Alone
<1> QED
  BY <1>1, <1>5, <1>7, Unconcerned

-----------------------------------------------------------------------------
(* The specification.                                                      *)

LEMMA Start == Init => IInv
<1> SUFFICES ASSUME Init PROVE IInv
  OBVIOUS
<1>1. Tables
  <2>1. Idle.more \in Seq(Months)
    BY DEF Idle
  <2> QED
    BY <2>1 DEF Init, Tables
<1>2. LinesFit /\ Watching /\ ReuploadIsSafe
  BY DEF Init, LinesFit, Watching, ReuploadIsSafe, NoEntry, NoPage, Idle
<1> QED
  BY <1>1, <1>2 DEF IInv

\* Requests that read.
LEMMA Reading ==
    ASSUME IInv, NEW u \in Users,
           \/ \E c \in Companies, m \in Months :
                \/ \E f \in Forms : CountEntries(u, c, m, f[1], f[2])
                \/ ReadOpenings(u, c, m)
           \/ \E c \in Companies, months \in Workbooks : CountForImport(u, c, months)
           \/ \E e \in Ids, c \in Companies : \E r \in Typed \cup {entry[e].ref} : ReadEntry(u, e, c, r)
           \/ \E m \in Months : ReadNumbers(u, m)
           \/ \E e \in Ids, step \in BulkSteps : \E S \in SUBSET (Ids \ {e}) : ReadForBulk(u, step, e, S)
           \/ ReadSequence(u)
    PROVE  IInv' /\ UNCHANGED <<entry, last>>
<1> DEFINE Result == IInv' /\ UNCHANGED <<entry, last>>
<1>1. ASSUME NEW c \in Companies, NEW m \in Months, NEW f \in Forms,
             CountEntries(u, c, m, f[1], f[2])
      PROVE  Result
  <2> DEFINE t == [Idle EXCEPT !.pc = "create", !.co = c, !.ref = f[1], !.status = f[2],
                            !.no = <<"JV", m, Count(c) + 1>>]
  <2>1. task' = [task EXCEPT ![u] = t] /\ UNCHANGED <<entry, last, stale, page, outdated>>
    BY <1>1 DEF CountEntries, Begin
  <2>2. t.more \in Seq(Months) /\ t.pc \notin {"delete", "opening", "open"}
    BY DEF Idle
  <2> HIDE DEF t
  <2> QED
    BY <2>1, <2>2, Reads
<1>2. ASSUME NEW c \in Companies, NEW m \in Months,
             ReadOpenings(u, c, m)
      PROVE  Result
  <2> DEFINE t == [Idle EXCEPT !.pc = "opening", !.co = c, !.ids = Openings(c), !.no = <<"OB", m, 0>>]
  <2>1. task' = [task EXCEPT ![u] = t] /\ UNCHANGED <<entry, last, stale, page, outdated>>
    BY <1>2 DEF ReadOpenings, Begin
  <2>2. t.more \in Seq(Months) /\ t.pc = "opening" /\ t.ids = Openings(t.co)
    BY DEF Idle
  <2> HIDE DEF t
  <2> QED
    BY <2>1, <2>2, Reads
<1>3. ASSUME NEW c \in Companies, NEW months \in Workbooks,
             CountForImport(u, c, months)
      PROVE  Result
  <2> DEFINE t == [Idle EXCEPT !.pc = "import", !.co = c, !.more = Tail(months),
                            !.no = <<"IMP", Head(months), Count(c) + 1>>]
  <2>1. task' = [task EXCEPT ![u] = t] /\ UNCHANGED <<entry, last, stale, page, outdated>>
    BY <1>3 DEF CountForImport, Begin
  <2>2. t.more \in Seq(Months) /\ t.pc = "import"
    <3>1. Tail(months) \in Seq(Months)
      BY <1>3, WorkbookAssumption
    <3> QED
      BY <3>1 DEF Idle
  <2> HIDE DEF t
  <2> QED
    BY <2>1, <2>2, Reads
<1>4. ASSUME NEW e \in Ids, NEW c \in Companies, NEW r \in Typed \cup {entry[e].ref},
             ReadEntry(u, e, c, r)
      PROVE  Result
  <2> DEFINE t == [Idle EXCEPT !.pc = IF c = entry[e].company THEN "update" ELSE "move",
                            !.id = e, !.co = c, !.no = entry[e].no, !.ref = r]
  <2>1. task' = [task EXCEPT ![u] = t] /\ UNCHANGED <<entry, last, stale, page, outdated>>
    BY <1>4 DEF ReadEntry, Begin
  <2>2. t.more \in Seq(Months) /\ t.pc \notin {"delete", "opening", "open"}
    BY DEF Idle
  <2> HIDE DEF t
  <2> QED
    BY <2>1, <2>2, Reads
<1>5. ASSUME NEW m \in Months,
             ReadNumbers(u, m)
      PROVE  Result
  <2> DEFINE t == [Idle EXCEPT !.pc = "update", !.id = task[u].id, !.co = task[u].co, !.ref = task[u].ref,
                            !.no = IF TakenByOther(task[u].co, task[u].no, task[u].id)
                                   THEN FreeNumber(task[u].co, m) ELSE task[u].no]
  <2>1. task' = [task EXCEPT ![u] = t] /\ UNCHANGED <<entry, last, stale, page, outdated>>
    BY <1>5 DEF ReadNumbers, Continue
  <2>2. t.more \in Seq(Months) /\ t.pc \notin {"delete", "opening", "open"}
    BY DEF Idle
  <2> HIDE DEF t
  <2> QED
    BY <2>1, <2>2, Reads
<1>6. ASSUME NEW e \in Ids, NEW step \in BulkSteps, NEW S \in SUBSET (Ids \ {e}),
             ReadForBulk(u, step, e, S)
      PROVE  Result
  <2> DEFINE t == [Idle EXCEPT !.pc = step, !.id = e, !.ids = S]
  <2>1. task' = [task EXCEPT ![u] = t] /\ UNCHANGED <<entry, last, stale, page, outdated>>
    BY <1>6 DEF ReadForBulk, Begin
  <2>2. t.more \in Seq(Months) /\ t.pc \notin {"opening", "open"} /\ (t.pc = "delete" => MayDelete(u, t.id))
    <3>1. t.more = <<>> /\ t.pc = step /\ t.id = e
      BY DEF Idle
    <3>2. step \notin {"opening", "open"} /\ (step = "delete" => MayDelete(u, e))
      BY <1>6 DEF ReadForBulk, BulkSteps
    <3> HIDE DEF t
    <3> QED
      BY <3>1, <3>2
  <2> HIDE DEF t
  <2> QED
    BY <2>1, <2>2, Reads
<1>7. ASSUME ReadSequence(u)
      PROVE  Result
  <2> DEFINE t == [Idle EXCEPT !.pc = "open", !.co = task[u].co,
                            !.no = <<"OB", task[u].no[2], NextSequence(task[u].co, task[u].no[2], {})>>]
  <2>1. task' = [task EXCEPT ![u] = t] /\ UNCHANGED <<entry, last, stale, page, outdated>>
    BY <1>7 DEF ReadSequence, Continue
  <2>2. /\ t.more \in Seq(Months) /\ t.pc = "open"
        /\ u \notin stale => Openings(t.co) = {}
    BY <1>7 DEF ReadSequence, At, Idle, IInv, Watching
  <2> HIDE DEF t
  <2> QED
    BY <2>1, <2>2, Reads
<1> QED
  BY <1>1, <1>2, <1>3, <1>4, <1>5, <1>6, <1>7

LEMMA Stepwise == IInv /\ [Next]_vars => IInv' /\ Drafted /\ Healed
<1> SUFFICES ASSUME IInv, [Next]_vars PROVE IInv' /\ Drafted /\ Healed
  OBVIOUS
<1>1. CASE UNCHANGED vars
  <2>1. UNCHANGED <<entry, last>>
    BY <1>1 DEF vars
  <2>2. IInv'
    BY <1>1 DEF vars, IInv, Tables, LinesFit, Watching, ReuploadIsSafe,
                MayDelete, Openings, EntriesOf, Exists
  <2> QED
    BY <2>1, <2>2, Still
<1>2. ASSUME NEW u \in Users,
             \/ \E c \in Companies, m \in Months :
                  \/ \E f \in Forms : CountEntries(u, c, m, f[1], f[2])
                  \/ ReadOpenings(u, c, m)
             \/ \E c \in Companies, months \in Workbooks : CountForImport(u, c, months)
             \/ \E e \in Ids, c \in Companies : \E r \in Typed \cup {entry[e].ref} : ReadEntry(u, e, c, r)
             \/ \E m \in Months : ReadNumbers(u, m)
             \/ \E e \in Ids, step \in BulkSteps : \E S \in SUBSET (Ids \ {e}) : ReadForBulk(u, step, e, S)
             \/ ReadSequence(u)
      PROVE  IInv' /\ Drafted /\ Healed
  BY <1>2, Reading, Still
<1>3. ASSUME NEW u \in Users, NEW c \in Companies,
             \/ \E R \in SUBSET Refs : ParseStatement(u, c, R)
             \/ ChooseCompany(u, c)
      PROVE  IInv' /\ Drafted /\ Healed
  BY <1>3, Ticks, Still
<1>4. ASSUME NEW u \in Users, Abort(u) PROVE IInv' /\ Drafted /\ Healed
  <2>1. UNCHANGED <<entry, last>>
    BY <1>4 DEF Abort
  <2> QED
    BY <1>4, <2>1, Abandoned, Still
<1>5. ASSUME NEW u \in Users,
             \/ \E answered \in BOOLEAN : InsertEntry(u, answered)
             \/ InsertImport(u) \/ WriteEntry(u) \/ BulkWrite(u)
             \/ ReplaceOpening(u) \/ InsertOpening(u)
      PROVE  IInv' /\ Drafted /\ Healed
  BY <1>5, InsertsEntry, InsertsImport, WritesEntry, WritesBulk, Replaces, InsertsOpening
<1> QED
  BY <1>1, <1>2, <1>3, <1>4, <1>5 DEF Next

LEMMA Inductive == Spec => []IInv
<1>1. Init => IInv
  BY Start
<1>2. IInv /\ [Next]_vars => IInv'
  BY Stepwise
<1> QED
  BY <1>1, <1>2, PTL DEF Spec

\* The lines of an entry use its own company's accounts, whatever moves race.
THEOREM LinesStay == Spec => []LinesFit
<1>1. IInv => LinesFit
  BY DEF IInv
<1> QED
  BY <1>1, Inductive, PTL

\* A statement that is read again ticks no line that is in the books, as long
\* as nobody else works on them.
THEOREM Reuploads == Spec => []ReuploadIsSafe
<1>1. IInv => ReuploadIsSafe
  BY DEF IInv
<1> QED
  BY <1>1, Inductive, PTL

\* The next undisturbed save of opening balances leaves one opening entry,
\* however many races and moves had left.
THEOREM OpeningsHeal == Spec => OpeningHeals
<1>1. IInv /\ [Next]_vars => [Healed]_vars
  BY Stepwise
<1> QED
  BY <1>1, Inductive, PTL DEF Spec, OpeningHeals, Healed

\* Finance deletes a posted entry only where it was posted after it was read,
\* and then one at most.
THEOREM OnlyDraftsGo == Spec => DraftsGo
<1>1. IInv /\ [Next]_vars => [Drafted]_vars
  BY Stepwise
<1> QED
  BY <1>1, Inductive, PTL DEF Spec, DraftsGo, Drafted, Gone

-----------------------------------------------------------------------------
(* Numbers.  Nothing is written under a number that is taken, so that the  *)
(* entries of a company have numbers of their own (Distinct); an entry     *)
(* that an undisturbed request edits is there (Editing).                   *)

Numbered ==
    /\ \A e \in Ids : entry[e].no[3] \in Int
    /\ \A u \in Users : task[u].no[3] \in Int

Distinct ==
    \A e, f \in Ids :
      /\ Exists(e) /\ Exists(f)
      /\ entry[e].company = entry[f].company /\ entry[e].no = entry[f].no
      => e = f

Editing ==
    \A u \in Users \ stale :
      task[u].pc \in {"move", "update"} => task[u].id \in Ids /\ Exists(task[u].id)

\* The inductive invariant, together with IInv.
NInv == Numbered /\ Distinct /\ Editing /\ AloneIsAccepted

LEMMA Counted ==
    ASSUME NEW c
    PROVE  Count(c) \in Nat
<1>1. IsFiniteSet(Ids)
  BY BoundAssumption, FS_Interval DEF Ids
<1>2. EntriesOf(c) \in SUBSET Ids
  BY DEF EntriesOf
<1> QED
  BY <1>1, <1>2, FS_Subset, FS_CardinalityType DEF Count

\* Of more numbers than there are rows one is free, and update_journal(), which
\* tries one after the other, finds it.
LEMMA FreeIsFree ==
    ASSUME NEW c, NEW m
    PROVE  FreeNumber(c, m)[3] \in Int /\ ~Taken(c, FreeNumber(c, m))
<1> DEFINE R == Count(c) + 1 .. Count(c) + MaxEntries + 1
           S == {n \in R : ~Taken(c, <<"JV", m, n>>)}
           f == [n \in R |-> CHOOSE e \in EntriesOf(c) : entry[e].no = <<"JV", m, n>>]
<1>1. Count(c) \in Nat /\ MaxEntries \in Nat
  BY Counted, BoundAssumption
<1>2. IsFiniteSet(R) /\ Cardinality(R) = MaxEntries + 1 /\ R \subseteq Int
  <2>1. Count(c) + 1 \in Int /\ Count(c) + MaxEntries + 1 \in Int
    BY <1>1
  <2>2. IsFiniteSet(R) /\ Cardinality(R) = IF Count(c) + 1 > Count(c) + MaxEntries + 1 THEN 0
                                           ELSE (Count(c) + MaxEntries + 1) - (Count(c) + 1) + 1
    BY <2>1, FS_Interval
  <2>3. \A a, b \in Nat : ~(a + 1 > a + b + 1) /\ (a + b + 1) - (a + 1) + 1 = b + 1
    OBVIOUS
  <2> QED
    BY <1>1, <2>1, <2>2, <2>3
<1>3. IsFiniteSet(Ids) /\ Cardinality(Ids) = MaxEntries /\ EntriesOf(c) \subseteq Ids
  <2>1. IsFiniteSet(1..MaxEntries) /\ Cardinality(1..MaxEntries) = IF 1 > MaxEntries THEN 0 ELSE MaxEntries - 1 + 1
    BY <1>1, FS_Interval
  <2>2. \A n \in Nat : (IF 1 > n THEN 0 ELSE n - 1 + 1) = n
    OBVIOUS
  <2>3. EntriesOf(c) \subseteq Ids
    BY DEF EntriesOf
  <2> QED
    BY <1>1, <2>1, <2>2, <2>3 DEF Ids
<1>4. S # {}
  <2> SUFFICES ASSUME S = {} PROVE FALSE
    OBVIOUS
  <2>1. \A n \in R : f[n] \in EntriesOf(c) /\ entry[f[n]].no = <<"JV", m, n>>
    BY DEF Taken
  <2>2. f \in [R -> Ids]
    BY <1>3, <2>1
  <2>3. Cardinality(Ids) < Cardinality(R)
    BY <1>1, <1>2, <1>3
  <2> HIDE DEF R, f
  <2>4. PICK x \in R, y \in R : x # y /\ f[x] = f[y]
    <3>1. IsFiniteSet(R) /\ IsFiniteSet(Ids)
      BY <1>2, <1>3
    <3> QED
      BY <2>2, <2>3, <3>1, FS_PigeonHole
  <2>5. <<"JV", m, x>> = <<"JV", m, y>>
    BY <2>1, <2>4
  <2> QED
    BY <2>4, <2>5
<1>5. Min(S) \in S
  <2> DEFINE g == [n \in S |-> -n]
  <2>1. IsFiniteSet(S)
    BY <1>2, FS_Subset
  <2>2. \A n \in S : g[n] \in Int
    BY <1>2
  <2> HIDE DEF S, g
  <2>3. PICK x \in S : \A y \in S : g[y] <= g[x]
    BY <1>4, <2>1, <2>2, Greatest
  <2>4. \A y \in S : x =< y
    <3>1. \A a, b \in Int : -b <= -a => a =< b
      OBVIOUS
    <3> QED
      BY <1>2, <2>3, <3>1 DEF S, g
  <2> QED
    BY <2>3, <2>4 DEF Min
<1>6. FreeNumber(c, m) = <<"JV", m, Min(S)>>
  BY DEF FreeNumber
<1> QED
  BY <1>2, <1>5, <1>6

\* One more than the highest is free.
LEMMA NextIsFree ==
    ASSUME Numbered, NEW c, NEW m, NEW gone
    PROVE  /\ NextSequence(c, m, gone) \in Int
           /\ \A e \in EntriesOf(c) \ gone : entry[e].no # <<"OB", m, NextSequence(c, m, gone)>>
<1> DEFINE X == {x \in EntriesOf(c) \ gone : entry[x].no[1] = "OB" /\ entry[x].no[2] = m}
           f == [e \in X |-> entry[e].no[3]]
           M == {0} \cup {entry[e].no[3] : e \in X}
<1>1. X \in SUBSET Ids /\ IsFiniteSet(X)
  <2>1. IsFiniteSet(Ids)
    BY BoundAssumption, FS_Interval DEF Ids
  <2>2. X \in SUBSET Ids
    BY DEF EntriesOf
  <2> QED
    BY <2>1, <2>2, FS_Subset
<1>2. M \subseteq Int
  BY <1>1 DEF Numbered
<1>3. \E x \in M : \A y \in M : x >= y
  <2>1. CASE X = {}
    BY <2>1
  <2>2. CASE X # {}
    <3>1. \A e \in X : f[e] \in Int
      BY <1>1 DEF Numbered
    <3> HIDE DEF X, f
    <3>2. PICK e \in X : \A d \in X : f[d] <= f[e]
      BY <1>1, <2>2, <3>1, Greatest
    <3>3. f[e] \in M /\ \A y \in M : y = 0 \/ \E d \in X : y = f[d]
      BY DEF f
    <3>4. CASE f[e] >= 0
      BY <1>2, <3>2, <3>3, <3>4
    <3>5. CASE ~(f[e] >= 0)
      <4>1. \A y \in M : 0 >= y
        <5>1. \A a, b \in Int : a <= b /\ ~(b >= 0) => 0 >= a
          OBVIOUS
        <5> QED
          BY <3>1, <3>2, <3>3, <3>5, <5>1
      <4> QED
        BY <4>1
    <3> QED
      BY <3>4, <3>5
  <2> QED
    BY <2>1, <2>2
<1> DEFINE top == Max(M)
<1>4. top \in M /\ \A y \in M : top >= y
  <2> HIDE DEF M
  <2> QED
    BY <1>3 DEF Max
<1>5. NextSequence(c, m, gone) = 1 + top
  BY DEF NextSequence
<1>6. \A e \in EntriesOf(c) \ gone : entry[e].no # <<"OB", m, 1 + top>>
  <2> SUFFICES ASSUME NEW e \in EntriesOf(c) \ gone, entry[e].no = <<"OB", m, 1 + top>>
               PROVE  FALSE
    OBVIOUS
  <2>1. e \in X /\ entry[e].no[3] = 1 + top
    OBVIOUS
  <2>2. 1 + top \in M
    BY <2>1
  <2>3. \A a \in Int : ~(a >= 1 + a)
    OBVIOUS
  <2> HIDE DEF M, top
  <2> QED
    BY <1>2, <1>4, <2>2, <2>3
<1>7. 1 + top \in Int
  <2> HIDE DEF M, top
  <2> QED
    BY <1>2, <1>4
<1> QED
  BY <1>5, <1>6, <1>7

\* A request that begins or reads on keeps the numbers, if the one it has
\* found is free.
LEMMA Finds ==
    ASSUME IInv, NInv, NEW u \in Users, NEW t, task' = [task EXCEPT ![u] = t],
           UNCHANGED <<entry, stale>>, t.no[3] \in Int,
           u \notin stale =>
             /\ t.pc = "open" => ~Taken(t.co, t.no)
             /\ t.pc \in {"move", "update"} => t.id \in Ids /\ Exists(t.id)
             /\ t.pc = "update" => ~TakenByOther(t.co, t.no, t.id)
    PROVE  NInv'
<1>1. \A w \in Users : task'[w] = IF w = u THEN t ELSE task[w]
  BY DEF IInv, Tables
<1>2. Numbered' /\ Distinct' /\ Editing'
  BY <1>1 DEF NInv, Numbered, Distinct, Editing, Exists
<1>3. AloneIsAccepted'
  BY <1>1 DEF NInv, AloneIsAccepted, Taken, TakenByOther, EntriesOf, Exists
<1> QED
  BY <1>2, <1>3 DEF NInv

\* A commit that writes no number twice keeps them.
LEMMA Settles ==
    ASSUME IInv, NInv, NEW u \in Users, Commit(u),
           \A e \in Ids : entry'[e].no[3] \in Int, Distinct'
    PROVE  NInv'
<1>1. \A w \in Users : task'[w] = IF w = u THEN Idle ELSE task[w]
  BY Others
<1>2. Idle.pc = "idle" /\ Idle.no[3] = 0
  BY DEF Idle, NoNumber
<1>3. Numbered'
  BY <1>1, <1>2 DEF NInv, Numbered
<1>4. Editing' /\ AloneIsAccepted'
  <2>1. CASE entry' = entry
    <3>1. stale' = stale \ {u}
      BY <2>1 DEF Commit
    <3>2. \A w \in Users \ stale' : task'[w].pc # "idle" => w \in Users \ stale /\ task'[w] = task[w]
      BY <1>1, <1>2, <3>1
    <3>3. Editing'
      BY <2>1, <3>2 DEF NInv, Editing, Exists
    <3>4. AloneIsAccepted'
      BY <2>1, <3>2 DEF NInv, AloneIsAccepted, Taken, TakenByOther, EntriesOf, Exists
    <3> QED
      BY <3>3, <3>4
  <2>2. CASE entry' # entry
    <3>1. stale' = {w \in Users \ {u} : task[w].pc \in Watched}
      BY <2>2 DEF Commit
    <3>2. \A w \in Users \ stale' : task'[w].pc \notin {"move", "update", "open"}
      BY <1>1, <1>2, <3>1 DEF Watched
    <3> QED
      BY <3>2 DEF Editing, AloneIsAccepted
  <2> QED
    BY <2>1, <2>2
<1> QED
  BY <1>3, <1>4 DEF NInv

\* Where a set of new rows have free numbers of their own, all have.
LEMMA Fresh ==
    ASSUME Distinct, NEW New \in SUBSET Ids,
           \A e \in Ids \ New : entry'[e] = NoEntry \/ entry'[e] = entry[e],
           \A e \in New, f \in Ids \ New :
             entry'[f] # NoEntry /\ entry'[f].company = entry'[e].company => entry'[f].no # entry'[e].no,
           \A e, f \in New : entry'[e].no = entry'[f].no => e = f
    PROVE  Distinct'
BY DEF Distinct, Exists

\* One new entry, under a number nobody else of its company has.
LEMMA FreshOne ==
    ASSUME IInv, NInv, NEW u \in Users, Commit(u), NEW row, NEW gone \in SUBSET Ids,
           last + 1 <= MaxEntries,
           \A e \in Ids : entry'[e] = IF e \in gone THEN NoEntry
                                      ELSE IF e = last + 1 THEN row ELSE entry[e],
           row.no[3] \in Int,
           \A e \in EntriesOf(row.company) \ gone : entry[e].no # row.no
    PROVE  NInv'
<1>1. last + 1 \in Ids
  BY BoundAssumption DEF Ids, IInv, Tables
<1>2. NoEntry.no[3] = 0
  BY DEF NoEntry, NoNumber
<1>3. \A e \in Ids : entry'[e].no[3] \in Int
  BY <1>2 DEF NInv, Numbered
<1>4. \A e \in Ids \ {last + 1} : entry'[e] = NoEntry \/ entry'[e] = entry[e]
  OBVIOUS
<1>5. \A f \in Ids \ {last + 1} :
        entry'[f] # NoEntry /\ entry'[f].company = row.company => entry'[f].no # row.no
  BY DEF EntriesOf, Exists
<1>6. CASE last + 1 \in gone
  <2>1. \A e \in Ids : entry'[e] = NoEntry \/ entry'[e] = entry[e]
    BY <1>1, <1>4, <1>6
  <2>2. Distinct'
    BY <2>1 DEF NInv, Distinct, Exists
  <2> QED
    BY <1>3, <2>2, Settles
<1>7. CASE last + 1 \notin gone
  <2>1. entry'[last + 1] = row
    BY <1>1, <1>7
  <2>2. Distinct'
    <3>1. PICK New \in SUBSET Ids : New = {last + 1}
      BY <1>1
    <3>2. \A e \in Ids \ New : entry'[e] = NoEntry \/ entry'[e] = entry[e]
      BY <1>4, <3>1
    <3>3. \A e \in New, f \in Ids \ New :
            entry'[f] # NoEntry /\ entry'[f].company = entry'[e].company => entry'[f].no # entry'[e].no
      BY <1>5, <2>1, <3>1
    <3>4. \A e, f \in New : entry'[e].no = entry'[f].no => e = f
      BY <3>1
    <3> QED
      BY <3>2, <3>3, <3>4, Fresh DEF NInv
  <2> QED
    BY <1>3, <2>2, Settles
<1> QED
  BY <1>6, <1>7

LEMMA NumbersOne ==
    ASSUME IInv, NInv, NEW u \in Users, Commit(u), NEW row, Inserted(1, <<row>>),
           row.company = task[u].co, row.no = task[u].no, ~Taken(task[u].co, task[u].no)
    PROVE  NInv'
<1>1. last \in Nat /\ Ids \subseteq Int
  BY BoundAssumption DEF IInv, Tables, Ids
<1>2. \A e \in Ids : e \in last + 1 .. last + 1 <=> e = last + 1
  BY <1>1
<1>3. <<row>>[(last + 1) - last] = row
  BY <1>1
<1>4. last + 1 <= MaxEntries
  BY DEF Inserted, Room
<1>5. PICK gone \in SUBSET Ids : gone = {}
  OBVIOUS
<1>6. \A e \in Ids : entry'[e] = IF e \in gone THEN NoEntry
                                 ELSE IF e = last + 1 THEN row ELSE entry[e]
  BY <1>2, <1>3, <1>5 DEF Inserted
<1>7. row.no[3] \in Int
  BY DEF NInv, Numbered
<1>8. \A e \in EntriesOf(row.company) \ gone : entry[e].no # row.no
  BY <1>5 DEF Taken
<1> QED
  BY <1>4, <1>6, <1>7, <1>8, FreshOne

\* A workbook's numbers are counted one after the other.
LEMMA NumbersImport ==
    ASSUME IInv, NInv, NEW u \in Users, InsertImport(u)
    PROVE  NInv'
<1> DEFINE t == task[u]
           n == 1 + Len(t.more)
           nos == [i \in 1..n |-> IF i = 1 THEN t.no ELSE <<"IMP", t.more[i - 1], Count(t.co) + i>>]
           new == [i \in 1..n |-> Row(t.co, nos[i], NoRef, "draft")]
           New == last + 1 .. last + n
<1>1. /\ Inserted(n, new) /\ Commit(u)
      /\ \A i \in 1..n : ~Taken(t.co, nos[i]) /\ \A j \in 1..(i - 1) : nos[j] # nos[i]
  BY DEF InsertImport
<1>2. n \in Nat /\ last \in Nat /\ last + n <= MaxEntries /\ MaxEntries \in Nat
  BY <1>1, BoundAssumption DEF IInv, Tables, Inserted, Room
<1>3. \A i \in 1..n : nos[i][3] \in Int
  <2>1. Count(t.co) \in Int /\ t.no[3] \in Int
    BY Counted DEF NInv, Numbered
  <2>2. \A i \in 1..n : Count(t.co) + i \in Int
    BY <2>1
  <2> HIDE DEF n, t
  <2> QED
    BY <2>1, <2>2
<1> HIDE DEF n, nos, t
<1>4. \A i \in 1..n : new[i].company = t.co /\ new[i].no = nos[i]
  BY DEF Row
<1> HIDE DEF new
<1>5. \A e \in Ids : entry'[e] = IF e \in New THEN new[e - last] ELSE entry[e]
  BY <1>1 DEF Inserted
<1>6. New \in SUBSET Ids /\ \A e \in New : e - last \in 1..n
  BY <1>2 DEF Ids
<1>7. \A i, j \in 1..n : nos[i] = nos[j] => i = j
  <2> SUFFICES ASSUME NEW i \in 1..n, NEW j \in 1..n, nos[i] = nos[j], i # j PROVE FALSE
    OBVIOUS
  <2>1. CASE i < j
    BY <1>1, <1>2, <2>1
  <2>2. CASE j < i
    BY <1>1, <1>2, <2>2
  <2> QED
    BY <1>2, <2>1, <2>2
<1>8. \A e \in Ids : entry'[e].no[3] \in Int
  BY <1>3, <1>4, <1>5, <1>6 DEF NInv, Numbered
<1>9. \A e, f \in New : entry'[e].no = entry'[f].no => e = f
  <2> SUFFICES ASSUME NEW e \in New, NEW f \in New, entry'[e].no = entry'[f].no PROVE e = f
    OBVIOUS
  <2>1. e - last = f - last
    BY <1>4, <1>5, <1>6, <1>7
  <2> QED
    BY <1>2, <2>1
<1>10. \A e \in New, f \in Ids \ New :
         entry'[f] # NoEntry /\ entry'[f].company = entry'[e].company => entry'[f].no # entry'[e].no
  <2> SUFFICES ASSUME NEW e \in New, NEW f \in Ids \ New,
                      entry[f] # NoEntry, entry[f].company = t.co
               PROVE  entry[f].no # nos[e - last]
    BY <1>4, <1>5, <1>6
  <2> QED
    BY <1>1, <1>6 DEF Taken, EntriesOf, Exists
<1>11. \A e \in Ids \ New : entry'[e] = NoEntry \/ entry'[e] = entry[e]
  BY <1>5
<1> HIDE DEF New
<1>12. Distinct'
  BY <1>6, <1>9, <1>10, <1>11, Fresh DEF NInv
<1> QED
  BY <1>1, <1>8, <1>12, Settles

LEMMA NumbersEdit ==
    ASSUME IInv, NInv, NEW u \in Users, WriteEntry(u)
    PROVE  NInv'
<1> DEFINE t == task[u]
           row == Row(t.co, t.no, t.ref, entry[t.id].status)
<1>1. /\ ~TakenByOther(t.co, t.no, t.id) /\ Commit(u)
      /\ entry' = [entry EXCEPT ![t.id] = row]
  BY DEF WriteEntry
<1>2. row.company = t.co /\ row.no = t.no
  BY DEF Row
<1> HIDE DEF row
<1>3. \A e \in Ids : entry'[e] = IF e = t.id THEN row ELSE entry[e]
  BY <1>1 DEF IInv, Tables
<1>4. \A e \in Ids : entry'[e].no[3] \in Int
  BY <1>2, <1>3 DEF NInv, Numbered
<1>5. Distinct'
  <2> DEFINE New == Ids \cap {t.id}
  <2>1. \A e \in Ids \ New : entry'[e] = entry[e]
    BY <1>3
  <2>2. \A e \in New, f \in Ids \ New :
          entry'[f] # NoEntry /\ entry'[f].company = entry'[e].company => entry'[f].no # entry'[e].no
    BY <1>1, <1>2, <1>3 DEF TakenByOther, EntriesOf, Exists
  <2>3. \A e, f \in New : e = f
    OBVIOUS
  <2> HIDE DEF New
  <2>4. New \in SUBSET Ids
    BY DEF New
  <2> QED
    BY <2>1, <2>2, <2>3, <2>4, Fresh DEF NInv
<1> QED
  BY <1>1, <1>4, <1>5, Settles

LEMMA NumbersBulk ==
    ASSUME IInv, NInv, NEW u \in Users, BulkWrite(u)
    PROVE  NInv'
<1>1. Commit(u) /\ \A e \in Ids : entry'[e] = entry[e] \/ entry'[e] = Bulked(task[u].pc, entry[e])
  BY DEF BulkWrite
<1>2. \A e \in Ids : \/ entry'[e] = NoEntry
                     \/ entry[e] # NoEntry /\ entry'[e].company = entry[e].company /\ entry'[e].no = entry[e].no
  <2> TAKE e \in Ids
  <2>1. DOMAIN entry[e] = DOMAIN NoEntry
    BY DEF IInv, Tables
  <2>2. CASE entry'[e] = entry[e]
    BY <2>2
  <2>3. CASE /\ entry'[e] = [entry[e] EXCEPT !.status = IF task[u].pc = "post" THEN "posted" ELSE "draft"]
             /\ entry[e] # NoEntry
    BY <2>1, <2>3 DEF NoEntry
  <2> QED
    BY <1>1, <2>2, <2>3 DEF Bulked
<1>3. NoEntry.no[3] = 0
  BY DEF NoEntry, NoNumber
<1>4. \A e \in Ids : entry'[e].no[3] \in Int
  BY <1>2, <1>3 DEF NInv, Numbered
<1>5. Distinct'
  BY <1>2 DEF NInv, Distinct, Exists
<1> QED
  BY <1>1, <1>4, <1>5, Settles

LEMMA NumbersReplace ==
    ASSUME IInv, NInv, NEW u \in Users, ReplaceOpening(u)
    PROVE  NInv'
<1> DEFINE t == task[u]
           no == <<"OB", t.no[2], NextSequence(t.co, t.no[2], t.ids)>>
           row == Row(t.co, no, Opening, "posted")
           gone == Ids \cap t.ids
<1>1. /\ Commit(u) /\ last + 1 <= MaxEntries
      /\ \A e \in Ids : entry'[e] = IF e \in t.ids THEN NoEntry
                                    ELSE IF e = last + 1 THEN row ELSE entry[e]
  BY DEF ReplaceOpening, Room
<1>2. /\ NextSequence(t.co, t.no[2], t.ids) \in Int
      /\ \A e \in EntriesOf(t.co) \ t.ids : entry[e].no # no
  BY NextIsFree DEF NInv
<1>3. row.company = t.co /\ row.no = no /\ no[3] \in Int
  BY <1>2 DEF Row
<1> HIDE DEF row, no
<1>4. /\ \A e \in Ids : entry'[e] = IF e \in gone THEN NoEntry
                                    ELSE IF e = last + 1 THEN row ELSE entry[e]
      /\ \A e \in EntriesOf(row.company) \ gone : entry[e].no # row.no
      /\ row.no[3] \in Int
  BY <1>1, <1>2, <1>3 DEF EntriesOf
<1>5. gone \in SUBSET Ids
  OBVIOUS
<1> HIDE DEF gone
<1> QED
  BY <1>1, <1>4, <1>5, FreshOne

\* Requests that read, the bank page, and requests given up.
LEMMA NumbersKept ==
    ASSUME IInv, NInv, NEW u \in Users, NEW c \in Companies,
           \/ \E R \in SUBSET Refs : ParseStatement(u, c, R)
           \/ ChooseCompany(u, c)
    PROVE  NInv'
<1>1. UNCHANGED <<entry, task, stale>>
  BY DEF ParseStatement, ChooseCompany
<1> QED
  BY <1>1 DEF NInv, Numbered, Distinct, Editing, AloneIsAccepted, Taken, TakenByOther, EntriesOf, Exists

LEMMA NumbersAbandoned ==
    ASSUME IInv, NInv, NEW u \in Users, Abort(u)
    PROVE  NInv'
<1>1. \A w \in Users : task'[w] = IF w = u THEN Idle ELSE task[w]
  BY DEF IInv, Tables, Abort
<1>2. Idle.pc = "idle" /\ Idle.no[3] = 0
  BY DEF Idle, NoNumber
<1>3. UNCHANGED entry /\ \A w \in Users \ stale' : task'[w].pc # "idle" => w \in Users \ stale /\ task'[w] = task[w]
  BY <1>1, <1>2 DEF Abort
<1>4. Numbered' /\ Distinct' /\ Editing'
  BY <1>1, <1>2, <1>3 DEF NInv, Numbered, Distinct, Editing, Exists
<1>5. AloneIsAccepted'
  BY <1>3 DEF NInv, AloneIsAccepted, Taken, TakenByOther, EntriesOf, Exists
<1> QED
  BY <1>4, <1>5 DEF NInv

LEMMA NumbersRead ==
    ASSUME IInv, NInv, NEW u \in Users,
           \/ \E c \in Companies, m \in Months :
                \/ \E f \in Forms : CountEntries(u, c, m, f[1], f[2])
                \/ ReadOpenings(u, c, m)
           \/ \E c \in Companies, months \in Workbooks : CountForImport(u, c, months)
           \/ \E e \in Ids, c \in Companies : \E r \in Typed \cup {entry[e].ref} : ReadEntry(u, e, c, r)
           \/ \E m \in Months : ReadNumbers(u, m)
           \/ \E e \in Ids, step \in BulkSteps : \E S \in SUBSET (Ids \ {e}) : ReadForBulk(u, step, e, S)
           \/ ReadSequence(u)
    PROVE  NInv'
<1>1. ASSUME NEW c \in Companies, NEW m \in Months, NEW f \in Forms,
             CountEntries(u, c, m, f[1], f[2])
      PROVE  NInv'
  <2> DEFINE t == [Idle EXCEPT !.pc = "create", !.co = c, !.ref = f[1], !.status = f[2],
                            !.no = <<"JV", m, Count(c) + 1>>]
  <2>1. task' = [task EXCEPT ![u] = t] /\ UNCHANGED <<entry, stale>>
    BY <1>1 DEF CountEntries, Begin
  <2>2. t.no[3] \in Int /\ t.pc = "create"
    BY Counted DEF Idle
  <2> HIDE DEF t
  <2> QED
    BY <2>1, <2>2, Finds
<1>2. ASSUME NEW c \in Companies, NEW m \in Months, ReadOpenings(u, c, m)
      PROVE  NInv'
  <2> DEFINE t == [Idle EXCEPT !.pc = "opening", !.co = c, !.ids = Openings(c), !.no = <<"OB", m, 0>>]
  <2>1. task' = [task EXCEPT ![u] = t] /\ UNCHANGED <<entry, stale>>
    BY <1>2 DEF ReadOpenings, Begin
  <2>2. t.no[3] \in Int /\ t.pc = "opening"
    BY DEF Idle
  <2> HIDE DEF t
  <2> QED
    BY <2>1, <2>2, Finds
<1>3. ASSUME NEW c \in Companies, NEW months \in Workbooks, CountForImport(u, c, months)
      PROVE  NInv'
  <2> DEFINE t == [Idle EXCEPT !.pc = "import", !.co = c, !.more = Tail(months),
                            !.no = <<"IMP", Head(months), Count(c) + 1>>]
  <2>1. task' = [task EXCEPT ![u] = t] /\ UNCHANGED <<entry, stale>>
    BY <1>3 DEF CountForImport, Begin
  <2>2. t.no[3] \in Int /\ t.pc = "import"
    BY Counted DEF Idle
  <2> HIDE DEF t
  <2> QED
    BY <2>1, <2>2, Finds
<1>4. ASSUME NEW e \in Ids, NEW c \in Companies, NEW r \in Typed \cup {entry[e].ref},
             ReadEntry(u, e, c, r)
      PROVE  NInv'
  <2> DEFINE t == [Idle EXCEPT !.pc = IF c = entry[e].company THEN "update" ELSE "move",
                            !.id = e, !.co = c, !.no = entry[e].no, !.ref = r]
  <2>1. task' = [task EXCEPT ![u] = t] /\ UNCHANGED <<entry, stale>> /\ Exists(e)
    BY <1>4 DEF ReadEntry, Begin
  <2>2. /\ t.pc = IF c = entry[e].company THEN "update" ELSE "move"
        /\ t.id = e /\ t.co = c /\ t.no = entry[e].no
    BY DEF Idle
  <2> HIDE DEF t
  <2>3. t.pc = "update" => ~TakenByOther(t.co, t.no, t.id)
    BY <2>1, <2>2 DEF NInv, Distinct, TakenByOther, EntriesOf
  <2>4. t.no[3] \in Int /\ t.pc # "open"
    BY <2>2 DEF NInv, Numbered
  <2> QED
    BY <2>1, <2>2, <2>3, <2>4, Finds
<1>5. ASSUME NEW m \in Months, ReadNumbers(u, m)
      PROVE  NInv'
  <2> DEFINE s == task[u]
             t == [Idle EXCEPT !.pc = "update", !.id = task[u].id, !.co = task[u].co, !.ref = task[u].ref,
                            !.no = IF TakenByOther(task[u].co, task[u].no, task[u].id)
                                   THEN FreeNumber(task[u].co, m) ELSE task[u].no]
  <2>1. task' = [task EXCEPT ![u] = t] /\ UNCHANGED <<entry, stale>> /\ s.pc = "move"
    BY <1>5 DEF ReadNumbers, Continue, At
  <2>2. /\ t.pc = "update" /\ t.id = s.id /\ t.co = s.co
        /\ t.no = IF TakenByOther(s.co, s.no, s.id) THEN FreeNumber(s.co, m) ELSE s.no
    BY DEF Idle
  <2> HIDE DEF t
  <2>3. t.no[3] \in Int
    BY <2>2, FreeIsFree DEF NInv, Numbered
  <2>4. ~TakenByOther(t.co, t.no, t.id)
    <3>1. CASE TakenByOther(s.co, s.no, s.id)
      <4>1. ~Taken(t.co, t.no)
        BY <2>2, <3>1, FreeIsFree
      <4> QED
        BY <4>1 DEF Taken, TakenByOther
    <3>2. CASE ~TakenByOther(s.co, s.no, s.id)
      BY <2>2, <3>2
    <3> QED
      BY <3>1, <3>2
  <2>5. u \notin stale => t.id \in Ids /\ Exists(t.id)
    BY <2>1, <2>2 DEF NInv, Editing
  <2> QED
    BY <2>1, <2>2, <2>3, <2>4, <2>5, Finds
<1>6. ASSUME NEW e \in Ids, NEW step \in BulkSteps, NEW S \in SUBSET (Ids \ {e}),
             ReadForBulk(u, step, e, S)
      PROVE  NInv'
  <2> DEFINE t == [Idle EXCEPT !.pc = step, !.id = e, !.ids = S]
  <2>1. task' = [task EXCEPT ![u] = t] /\ UNCHANGED <<entry, stale>>
    BY <1>6 DEF ReadForBulk, Begin
  <2>2. t.no[3] \in Int /\ t.pc \notin {"open", "move", "update"}
    <3>1. t.no[3] = 0 /\ t.pc = step
      BY DEF Idle, NoNumber
    <3> HIDE DEF t
    <3> QED
      BY <3>1 DEF BulkSteps
  <2> HIDE DEF t
  <2> QED
    BY <2>1, <2>2, Finds
<1>7. ASSUME ReadSequence(u)
      PROVE  NInv'
  <2> DEFINE co == task[u].co
             m == task[u].no[2]
             t == [Idle EXCEPT !.pc = "open", !.co = task[u].co,
                            !.no = <<"OB", task[u].no[2], NextSequence(task[u].co, task[u].no[2], {})>>]
  <2>1. task' = [task EXCEPT ![u] = t] /\ UNCHANGED <<entry, stale>>
    BY <1>7 DEF ReadSequence, Continue
  <2>2. t.pc = "open" /\ t.co = co /\ t.no = <<"OB", m, NextSequence(co, m, {})>>
    BY DEF Idle
  <2> HIDE DEF t, co, m
  <2>3. /\ NextSequence(co, m, {}) \in Int
        /\ \A e \in EntriesOf(co) \ {} : entry[e].no # <<"OB", m, NextSequence(co, m, {})>>
    BY NextIsFree DEF NInv
  <2>4. t.no[3] \in Int /\ ~Taken(t.co, t.no)
    BY <2>2, <2>3 DEF Taken
  <2> QED
    BY <2>1, <2>2, <2>4, Finds
<1> QED
  BY <1>1, <1>2, <1>3, <1>4, <1>5, <1>6, <1>7

LEMMA NumbersStart == Init => NInv
<1> SUFFICES ASSUME Init PROVE NInv
  OBVIOUS
<1>1. \A e \in Ids : entry[e] = NoEntry
  BY DEF Init
<1>2. \A u \in Users : task[u] = Idle
  BY DEF Init
<1>3. NoEntry.no[3] = 0 /\ Idle.no[3] = 0 /\ Idle.pc = "idle"
  BY DEF NoEntry, Idle, NoNumber
<1> QED
  BY <1>1, <1>2, <1>3 DEF NInv, Numbered, Distinct, Editing, AloneIsAccepted, Exists

LEMMA NumbersStepwise == IInv /\ NInv /\ [Next]_vars => NInv'
<1> SUFFICES ASSUME IInv, NInv, [Next]_vars PROVE NInv'
  OBVIOUS
<1>1. CASE UNCHANGED vars
  BY <1>1 DEF vars, NInv, Numbered, Distinct, Editing, AloneIsAccepted, Taken, TakenByOther, EntriesOf, Exists
<1>2. ASSUME NEW u \in Users, NEW answered \in BOOLEAN, InsertEntry(u, answered) PROVE NInv'
  <2> DEFINE row == Row(task[u].co, task[u].no, task[u].ref, task[u].status)
  <2>1. Inserted(1, <<row>>) /\ Commit(u) /\ ~Taken(task[u].co, task[u].no)
    BY <1>2 DEF InsertEntry
  <2>2. row.company = task[u].co /\ row.no = task[u].no
    BY DEF Row
  <2> HIDE DEF row
  <2> QED
    BY <2>1, <2>2, NumbersOne
<1>3. ASSUME NEW u \in Users, InsertOpening(u) PROVE NInv'
  <2> DEFINE row == Row(task[u].co, task[u].no, Opening, "posted")
  <2>1. Inserted(1, <<row>>) /\ Commit(u) /\ ~Taken(task[u].co, task[u].no)
    BY <1>3 DEF InsertOpening
  <2>2. row.company = task[u].co /\ row.no = task[u].no
    BY DEF Row
  <2> HIDE DEF row
  <2> QED
    BY <2>1, <2>2, NumbersOne
<1>4. ASSUME NEW u \in Users,
             \/ InsertImport(u) \/ WriteEntry(u) \/ BulkWrite(u)
             \/ ReplaceOpening(u) \/ Abort(u)
      PROVE  NInv'
  BY <1>4, NumbersImport, NumbersEdit, NumbersBulk, NumbersReplace, NumbersAbandoned
<1> QED
  BY <1>1, <1>2, <1>3, <1>4, NumbersKept, NumbersRead DEF Next

\* An opening entry and a moved entry find a number that is free, whatever the
\* books hold and however requests race, unless the books change while the
\* request runs (update_journal(), save_opening_balances()).
THEOREM NumbersAreFree == Spec => []AloneIsAccepted
<1>1. Init => NInv
  BY NumbersStart
<1>2. IInv /\ NInv /\ [Next]_vars => NInv'
  BY NumbersStepwise
<1>3. NInv => AloneIsAccepted
  BY DEF NInv
<1> QED
  BY <1>1, <1>2, <1>3, Inductive, PTL DEF Spec

=============================================================================
