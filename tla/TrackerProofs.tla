--------------------------- MODULE TrackerProofs ---------------------------
(***************************************************************************)
(* Proofs about Tracker, for any users, companies, projects, tracks and    *)
(* phases: time runs in one phase of a track (OneOpenStage), the check     *)
(* says the same of a project in every scope (ScopesAgree), a repair takes *)
(* the issue it was offered for off the list (FixHeals), and invoices pass *)
(* a contract by the requests InvoicesFit names alone.                     *)
(*                                                                         *)
(* OneOpenStage is not inductive: an advance closes the stage it has read, *)
(* so the invariant says of every request that was not overtaken that what *)
(* it has read is still so (Watching).  InvoicesFit needs the same of what *)
(* a request has compared with the contract (Compared).                    *)
(***************************************************************************)
EXTENDS Tracker, SumTheorems, TLAPS

Tables ==
    /\ DOMAIN task = Users
    /\ DOMAIN track = Tracks
    /\ DOMAIN stage = Tracks
    /\ \A t \in Tracks : DOMAIN track[t] = DOMAIN NoTrack
    /\ \A t \in Tracks : DOMAIN stage[t] = Phases

Timed ==
    \A t \in Tracks \ handled, ph \in Phases :
      /\ stage[t][ph] \in {<<>>, <<"open">>, <<"closed">>}
      /\ stage[t][ph] = <<"open">> => ph = track[t].phase

Watching ==
    \A u \in Users \ stale :
      task[u].pc = "advance" => LET t == task[u].id IN
        /\ t \in Tracks /\ task[u].from = track[t].phase
        /\ task[u].had = (stage[t][track[t].phase] # <<>>)

\* The inductive invariant.
IInv == Tables /\ Timed /\ Watching

-----------------------------------------------------------------------------
(* Requests that begin, end or commit.                                     *)

\* A request that begins keeps the invariant, if what it has read is so.
LEMMA Begins ==
    ASSUME IInv, NEW u \in Users, NEW t, Begin(u, t),
           t.pc = "advance" => /\ t.id \in Tracks /\ t.from = track[t.id].phase
                               /\ t.had = (stage[t.id][track[t.id].phase] # <<>>)
    PROVE  IInv'
<1>1. \A w \in Users : task'[w] = IF w = u THEN t ELSE task[w]
  BY DEF IInv, Tables, Begin
<1>2. Tables' /\ Timed'
  BY DEF IInv, Tables, Timed, Begin
<1>3. Watching'
  BY <1>1 DEF IInv, Watching, Begin
<1> QED
  BY <1>2, <1>3 DEF IInv

LEMMA Aborts ==
    ASSUME IInv, NEW u \in Users, Abort(u)
    PROVE  IInv'
<1>1. \A w \in Users : task'[w] = IF w = u THEN Idle ELSE task[w]
  BY DEF IInv, Tables, Abort
<1>2. Tables' /\ Timed'
  BY DEF IInv, Tables, Timed, Abort
<1>3. Idle.pc # "advance"
  BY DEF Idle
<1>4. Watching'
  BY <1>1, <1>3 DEF IInv, Watching, Abort
<1> QED
  BY <1>2, <1>4 DEF IInv

\* What others have read is overtaken by a commit that changes anything.
LEMMA Commits ==
    ASSUME IInv, NEW u \in Users, Commit(u)
    PROVE  DOMAIN task' = Users /\ Watching'
<1>1. \A w \in Users : task'[w] = IF w = u THEN Idle ELSE task[w]
  BY DEF IInv, Tables, Commit
<1>2. DOMAIN task' = Users
  BY DEF IInv, Tables, Commit
<1>3. Idle.pc # "advance"
  BY DEF Idle
<1>4. CASE <<project, track, stage>>' = <<project, track, stage>>
  <2>1. track' = track /\ stage' = stage /\ stale' = stale \ {u}
    BY <1>4 DEF Commit
  <2> QED
    BY <1>1, <1>2, <1>3, <2>1 DEF IInv, Watching
<1>5. CASE <<project, track, stage>>' # <<project, track, stage>>
  <2>1. stale' = {w \in Users \ {u} : ~At(w, "idle")}
    BY <1>5 DEF Commit
  <2>2. \A w \in Users \ stale' : task'[w].pc # "advance"
    BY <1>1, <1>3, <2>1 DEF At
  <2> QED
    BY <1>2, <2>2 DEF Watching
<1> QED
  BY <1>2, <1>4, <1>5

\* So the invariant holds after a commit that keeps rows and stages in order.
LEMMA Changes ==
    ASSUME IInv, NEW u \in Users, Commit(u),
           DOMAIN track' = Tracks, \A t \in Tracks : DOMAIN track'[t] = DOMAIN NoTrack,
           DOMAIN stage' = Tracks, \A t \in Tracks : DOMAIN stage'[t] = Phases,
           Timed'
    PROVE  IInv'
BY Commits DEF IInv, Tables

\* Stages stay in order where phases and stages stay.
LEMMA Keeps ==
    ASSUME IInv, NEW u \in Users, Commit(u), UNCHANGED stage, handled \subseteq handled',
           DOMAIN track' = Tracks, \A t \in Tracks : DOMAIN track'[t] = DOMAIN NoTrack,
           \A t \in Tracks \ handled' : track'[t].phase = track[t].phase
    PROVE  IInv'
<1>1. Timed'
  BY DEF IInv, Timed
<1> QED
  BY <1>1, Changes DEF IInv, Tables

-----------------------------------------------------------------------------
(* The commits, one by one.                                                *)

LEMMA NewTracks ==
    \A c, f : LET row == NewTrack(c, f) IN
      DOMAIN row = DOMAIN NoTrack /\ row.phase = f.phase /\ row.project = f.project
BY DEF NewTrack, NoTrack

\* What only touches projects.
LEMMA OnProjects ==
    ASSUME IInv, NEW u \in Users, Commit(u), UNCHANGED <<track, stage, handled>>
    PROVE  IInv'
BY Keeps DEF IInv, Tables

LEMMA DeletesProject ==
    ASSUME IInv, NEW u \in Users, NEW p \in Projects, DeleteProject(u, p)
    PROVE  IInv'
<1>1. /\ Commit(u) /\ UNCHANGED <<stage, handled>>
      /\ track' = [t \in Tracks |-> IF track[t].project = p THEN [track[t] EXCEPT !.project = 0] ELSE track[t]]
  BY DEF DeleteProject
<1>2. \A t \in Tracks : DOMAIN track'[t] = DOMAIN NoTrack /\ track'[t].phase = track[t].phase
  BY <1>1 DEF IInv, Tables, NoTrack
<1> QED
  BY <1>1, <1>2, Keeps

LEMMA Inserts ==
    ASSUME IInv, NEW u \in Users, InsertTrack(u)
    PROVE  IInv'
<1> DEFINE f == task[u].form
           new == NewTrack(task[u].co, f)
<1>1. /\ Commit(u) /\ handled' = handled
      /\ track' = [track EXCEPT ![last + 1] = new]
      /\ stage' = [stage EXCEPT ![last + 1] = Opened(f.phase)]
  BY DEF InsertTrack
<1>2. DOMAIN new = DOMAIN NoTrack /\ new.phase = f.phase
  BY NewTracks
<1>3. /\ DOMAIN Opened(f.phase) = Phases
      /\ \A ph \in Phases : Opened(f.phase)[ph] = IF ph = f.phase THEN <<"open">> ELSE <<>>
  BY DEF Opened, NoStages
<1> HIDE DEF f, new
<1>4. /\ DOMAIN track' = Tracks /\ DOMAIN stage' = Tracks
      /\ \A t \in Tracks : track'[t] = IF t = last + 1 THEN new ELSE track[t]
      /\ \A t \in Tracks : stage'[t] = IF t = last + 1 THEN Opened(f.phase) ELSE stage[t]
  BY <1>1 DEF IInv, Tables
<1>5. /\ \A t \in Tracks : DOMAIN track'[t] = DOMAIN NoTrack
      /\ \A t \in Tracks : DOMAIN stage'[t] = Phases
  BY <1>2, <1>3, <1>4 DEF IInv, Tables
<1>6. Timed'
  BY <1>1, <1>2, <1>3, <1>4 DEF IInv, Timed
<1> QED
  BY <1>1, <1>4, <1>5, <1>6, Changes

LEMMA Updates ==
    ASSUME IInv, NEW u \in Users, NEW t \in Tracks, NEW f, UpdateTrack(u, t, f)
    PROVE  IInv'
<1> DEFINE p == f.project
           flag == IF f.flag = Keep THEN track[t].sector ELSE f.flag
           new == NewTrack(IF p = 0 THEN track[t].company ELSE project[p].company, f)
           row == [new EXCEPT !.sector = flag]
<1>1. /\ Commit(u) /\ UNCHANGED stage
      /\ track' = IF Exists(t) THEN [track EXCEPT ![t] = row] ELSE track
      /\ handled' = IF f.phase # track[t].phase THEN handled \cup {t} ELSE handled
  BY DEF UpdateTrack
<1>2. DOMAIN row = DOMAIN NoTrack /\ row.phase = f.phase
  BY DEF NewTrack, NoTrack
<1> HIDE DEF row
<1>3. DOMAIN track' = Tracks /\ \A s \in Tracks : track'[s] = track[s] \/ (s = t /\ track'[s] = row)
  BY <1>1 DEF IInv, Tables
<1>4. \A s \in Tracks : DOMAIN track'[s] = DOMAIN NoTrack
  BY <1>2, <1>3 DEF IInv, Tables
<1>5. \A s \in Tracks \ handled' : track'[s].phase = track[s].phase
  BY <1>1, <1>2, <1>3
<1>6. handled \subseteq handled'
  BY <1>1
<1> QED
  BY <1>1, <1>3, <1>4, <1>5, <1>6, Keeps

LEMMA SetsStatus ==
    ASSUME IInv, NEW u \in Users, WriteStatus(u)
    PROVE  IInv'
<1> DEFINE t == task[u].id
<1>1. /\ Commit(u) /\ UNCHANGED <<stage, handled>>
      /\ track' = IF Exists(t) THEN [track EXCEPT ![t].status = task[u].form.status] ELSE track
  BY DEF WriteStatus
<1>2. /\ DOMAIN track' = Tracks
      /\ \A s \in Tracks : DOMAIN track'[s] = DOMAIN NoTrack /\ track'[s].phase = track[s].phase
  BY <1>1 DEF IInv, Tables, NoTrack
<1> QED
  BY <1>1, <1>2, Keeps

LEMMA Deletes ==
    ASSUME IInv, NEW u \in Users, NEW t \in Tracks, DeleteTrack(u, t)
    PROVE  IInv'
<1>1. /\ Commit(u) /\ UNCHANGED handled
      /\ track' = [track EXCEPT ![t] = NoTrack] /\ stage' = [stage EXCEPT ![t] = NoStages]
  BY DEF DeleteTrack
<1>2. DOMAIN NoStages = Phases /\ \A ph \in Phases : NoStages[ph] = <<>>
  BY DEF NoStages
<1>3. /\ DOMAIN track' = Tracks /\ DOMAIN stage' = Tracks
      /\ \A s \in Tracks : track'[s] = IF s = t THEN NoTrack ELSE track[s]
      /\ \A s \in Tracks : stage'[s] = IF s = t THEN NoStages ELSE stage[s]
  BY <1>1 DEF IInv, Tables
<1>4. Timed'
  BY <1>1, <1>2, <1>3 DEF IInv, Timed
<1> QED
  BY <1>1, <1>2, <1>3, <1>4, Changes DEF IInv, Tables

\* Rows of a phase with one row at most.
LEMMA Rows ==
    /\ Append(<<>>, "closed") = <<"closed">>
    /\ \A x \in {"open", "closed"} : <<"closed">> \o Tail(<<x>>) = <<"closed">>
    /\ \A x \in {"open", "closed"} : <<"open">> \o Tail(<<x>>) = <<"open">>
    /\ <<"open">> # <<"closed">> /\ \A x : <<x>> # <<>>
<1>1. Append(<<>>, "closed") = <<"closed">>
  OBVIOUS
<1>2. \A x \in {"open", "closed"} : Tail(<<x>>) = <<>>
  OBVIOUS
<1>3. \A x : <<x>> \o <<>> = <<x>>
  OBVIOUS
<1> QED
  BY <1>1, <1>2, <1>3

LEMMA Advances ==
    ASSUME IInv, NEW u \in Users, WriteAdvance(u)
    PROVE  IInv'
<1> DEFINE a == task[u]
           t == a.id
           next == a.form.phase
           closed == Closed(stage[t], a.from, a.had)
           after == IF next = a.from THEN closed ELSE Reopened(closed, next)
<1>1. /\ Commit(u) /\ a.pc = "advance"
      /\ stage' = [stage EXCEPT ![t] = after]
      /\ track' = IF next = a.from THEN track
                  ELSE [track EXCEPT ![t].phase = next, ![t].status = IF next = LastPhase THEN "done" ELSE @]
      /\ handled' = IF u \in stale THEN handled \cup {t} ELSE handled
  BY DEF WriteAdvance, At
<1>2. /\ DOMAIN track' = Tracks /\ DOMAIN stage' = Tracks
      /\ \A s \in Tracks \ {t} : track'[s] = track[s] /\ stage'[s] = stage[s]
      /\ \A s \in Tracks : DOMAIN track'[s] = DOMAIN NoTrack
      /\ t \in Tracks => stage'[t] = after /\ (next # a.from => track'[t].phase = next)
  <2> HIDE DEF after
  <2>1. DOMAIN stage' = Tracks /\ \A s \in Tracks : stage'[s] = IF s = t THEN after ELSE stage[s]
    BY <1>1 DEF IInv, Tables
  <2>2. CASE next = a.from
    BY <1>1, <2>1, <2>2 DEF IInv, Tables
  <2>3. CASE next # a.from
    <3> DEFINE row == [track[t] EXCEPT !.phase = next, !.status = IF next = LastPhase THEN "done" ELSE @]
    <3>1. track' = [track EXCEPT ![t] = row]
      BY <1>1, <2>3
    <3>2. t \in Tracks => DOMAIN row = DOMAIN NoTrack /\ row.phase = next
      BY DEF IInv, Tables, NoTrack
    <3> HIDE DEF row
    <3> QED
      BY <2>1, <2>3, <3>1, <3>2 DEF IInv, Tables
  <2> QED
    BY <2>2, <2>3
<1>3. \A s \in Tracks : DOMAIN stage'[s] = Phases
  <2>1. \A s \in Tracks : DOMAIN stage[s] = Phases
    BY DEF IInv, Tables
  <2>2. t \in Tracks => DOMAIN after = Phases
    BY <2>1 DEF Closed, Reopened
  <2> QED
    BY <1>2, <2>1, <2>2
<1>4. ASSUME t \in Tracks \ handled, u \notin stale, NEW ph \in Phases
      PROVE  /\ after[ph] \in {<<>>, <<"open">>, <<"closed">>}
             /\ after[ph] = <<"open">> => ph = track'[t].phase
  <2>1. a.from = track[t].phase /\ a.had = (stage[t][a.from] # <<>>)
    BY <1>1, <1>4 DEF IInv, Watching
  <2>2. /\ DOMAIN stage[t] = Phases
        /\ \A q \in Phases : stage[t][q] \in {<<>>, <<"open">>, <<"closed">>}
        /\ \A q \in Phases : stage[t][q] = <<"open">> => q = a.from
    BY <1>4, <2>1 DEF IInv, Tables, Timed
  <2>3. \A q \in Phases : closed[q] = IF q = a.from THEN <<"closed">> ELSE stage[t][q]
    <3> SUFFICES ASSUME NEW q \in Phases PROVE closed[q] = IF q = a.from THEN <<"closed">> ELSE stage[t][q]
      OBVIOUS
    <3>1. CASE q # a.from
      BY <2>2, <3>1 DEF Closed
    <3>2. CASE q = a.from /\ a.had
      <4>1. closed[q] = <<"closed">> \o Tail(stage[t][q])
        BY <2>2, <3>2 DEF Closed
      <4> QED
        BY <2>1, <2>2, <3>2, <4>1, Rows
    <3>3. CASE q = a.from /\ ~a.had
      <4>1. closed[q] = Append(stage[t][q], "closed")
        BY <2>2, <3>3 DEF Closed
      <4> QED
        BY <2>1, <2>2, <3>3, <4>1, Rows
    <3> QED
      BY <3>1, <3>2, <3>3
  <2>4. DOMAIN closed = Phases
    BY <2>2 DEF Closed
  <2>5. \A q \in Phases : closed[q] \in {<<>>, <<"closed">>}
    BY <2>2, <2>3
  <2> HIDE DEF closed
  <2>6. CASE next = a.from
    BY <2>5, <2>6, Rows
  <2>7. CASE next # a.from
    <3>1. track'[t].phase = next
      BY <1>2, <1>4, <2>7
    <3>2. after[ph] = IF ph # next THEN closed[ph] ELSE IF closed[ph] = <<>> THEN <<"open">> ELSE <<"open">> \o Tail(closed[ph])
      BY <2>4, <2>7 DEF Reopened
    <3> QED
      BY <2>5, <3>1, <3>2, Rows
  <2> QED
    BY <2>6, <2>7
<1>5. Timed'
  <2> SUFFICES ASSUME NEW s \in Tracks \ handled', NEW ph \in Phases
               PROVE  /\ stage'[s][ph] \in {<<>>, <<"open">>, <<"closed">>}
                      /\ stage'[s][ph] = <<"open">> => ph = track'[s].phase
    BY DEF Timed
  <2> HIDE DEF after
  <2>1. CASE s = t
    <3>1. t \in Tracks \ handled /\ u \notin stale
      BY <1>1, <2>1
    <3>2. stage'[s] = after
      BY <1>2, <2>1, <3>1
    <3> QED
      BY <1>4, <2>1, <3>1, <3>2
  <2>2. CASE s # t
    <3>1. s \in Tracks \ handled
      BY <1>1
    <3>2. stage'[s] = stage[s] /\ track'[s] = track[s]
      BY <1>2, <2>2, <3>1
    <3> QED
      BY <3>1, <3>2 DEF IInv, Timed
  <2> QED
    BY <2>1, <2>2
<1> HIDE DEF after
<1> QED
  BY <1>1, <1>2, <1>3, <1>5, Changes DEF IInv, Tables

LEMMA Plans ==
    ASSUME IInv, NEW u \in Users, WritePlan(u)
    PROVE  IInv'
<1> DEFINE a == task[u]
           New == last + 1 .. last + Len(a.more)
           row(t) == NewTrack(a.co, [NoForm EXCEPT !.project = a.id, !.amount = a.more[t - last]])
<1>1. /\ Commit(u) /\ handled' = handled
      /\ track' = [t \in Tracks |-> IF t \in New THEN row(t) ELSE track[t]]
      /\ stage' = [t \in Tracks |-> IF t \in New THEN Opened(1) ELSE stage[t]]
  BY DEF WritePlan
<1>2. \A t \in Tracks : DOMAIN row(t) = DOMAIN NoTrack /\ row(t).phase = 1
  BY NewTracks DEF NoForm
<1>3. /\ DOMAIN Opened(1) = Phases
      /\ \A ph \in Phases : Opened(1)[ph] = IF ph = 1 THEN <<"open">> ELSE <<>>
  BY DEF Opened, NoStages
<1> HIDE DEF New, row
<1>4. Timed'
  BY <1>1, <1>2, <1>3 DEF IInv, Timed
<1>5. /\ DOMAIN track' = Tracks /\ \A t \in Tracks : DOMAIN track'[t] = DOMAIN NoTrack
      /\ DOMAIN stage' = Tracks /\ \A t \in Tracks : DOMAIN stage'[t] = Phases
  BY <1>1, <1>2, <1>3 DEF IInv, Tables
<1> QED
  BY <1>1, <1>4, <1>5, Changes

LEMMA Fixes ==
    ASSUME IInv, NEW u \in Users, WriteFix(u)
    PROVE  IInv'
<1> DEFINE t == task[u].id
<1>1. /\ Commit(u) /\ UNCHANGED <<stage, handled>>
      /\ \/ track' = track
         \/ track' = [track EXCEPT ![t].company = task[u].co]
         \/ track' = [track EXCEPT ![t].sector = NoSector]
  BY DEF WriteFix
<1>2. /\ DOMAIN track' = Tracks
      /\ \A s \in Tracks : DOMAIN track'[s] = DOMAIN NoTrack /\ track'[s].phase = track[s].phase
  BY <1>1 DEF IInv, Tables, NoTrack
<1> QED
  BY <1>1, <1>2, Keeps

-----------------------------------------------------------------------------
(* Time runs in one phase.                                                 *)

LEMMA Starts == Init => IInv
<1> SUFFICES ASSUME Init PROVE IInv
  OBVIOUS
<1>1. PICK db \in Databases :
        /\ track = [t \in Tracks |-> IF t <= last THEN db.tracks[t] ELSE NoTrack]
        /\ last = Len(db.tracks)
  BY DEF Init
<1>2. /\ stage = [t \in Tracks |-> IF t <= last THEN Opened(track[t].phase) ELSE NoStages]
      /\ task = [u \in Users |-> Idle]
  BY DEF Init
<1>3. \A t \in Tracks : DOMAIN track[t] = DOMAIN NoTrack
  <2> SUFFICES ASSUME NEW t \in Tracks, t <= last PROVE DOMAIN db.tracks[t] = DOMAIN NoTrack
    BY <1>1
  <2>1. db.tracks \in Seq(TrackRow) /\ t \in 1..Len(db.tracks)
    BY <1>1, DatabaseAssumption, BoundAssumption DEF Tracks
  <2>2. db.tracks[t] \in TrackRow
    BY <2>1
  <2> QED
    BY <2>2 DEF TrackRow, NoTrack
<1>4. DOMAIN NoStages = Phases /\ \A p : DOMAIN Opened(p) = Phases
  BY DEF Opened, NoStages
<1>5. \A p : \A ph \in Phases : Opened(p)[ph] = (IF ph = p THEN <<"open">> ELSE <<>>) /\ NoStages[ph] = <<>>
  BY DEF Opened, NoStages
<1>6. Tables
  BY <1>1, <1>2, <1>3, <1>4 DEF Tables
<1>7. Timed
  BY <1>2, <1>5 DEF Timed
<1>8. Watching
  BY <1>2 DEF Watching, Idle
<1> QED
  BY <1>6, <1>7, <1>8 DEF IInv

LEMMA Inductive == IInv /\ [Next]_vars => IInv'
<1> SUFFICES ASSUME IInv, [Next]_vars PROVE IInv'
  OBVIOUS
<1>1. CASE UNCHANGED vars
  BY <1>1 DEF vars, IInv, Tables, Timed, Watching
<1>2. ASSUME NEW u \in Users, NEW c \in Companies,
             \/ \E f \in ProjectForms : CreateProject(u, c, f)
             \/ \E f \in TrackForms : ReadCreate(u, c, f)
      PROVE  IInv'
  <2>1. CASE \E f \in ProjectForms : CreateProject(u, c, f)
    BY <2>1, OnProjects DEF CreateProject
  <2>2. CASE \E f \in TrackForms : ReadCreate(u, c, f)
    <3> PICK f \in TrackForms : ReadCreate(u, c, f)
      BY <2>2
    <3> DEFINE t == [Idle EXCEPT !.pc = "create", !.co = c, !.form = f]
    <3>1. Begin(u, t) /\ t.pc = "create"
      BY DEF ReadCreate, Idle
    <3> HIDE DEF t
    <3> QED
      BY <3>1, Begins
  <2> QED
    BY <1>2, <2>1, <2>2
<1>3. ASSUME NEW u \in Users, NEW p \in Projects,
             \/ \E f \in ProjectForms : UpdateProject(u, p, f)
             \/ \E flag \in Flags : SetProjectType(u, p, flag)
             \/ DeleteProject(u, p)
             \/ \E cv \in Contracts \cup {-1}, s \in Termins : ReadPlan(u, p, cv, s)
             \/ ReadFix(u, "done", p, 0)
      PROVE  IInv'
  <2>1. CASE \E f \in ProjectForms : UpdateProject(u, p, f)
    BY <2>1, OnProjects DEF UpdateProject
  <2>2. CASE \E flag \in Flags : SetProjectType(u, p, flag)
    BY <2>2, OnProjects DEF SetProjectType
  <2>3. CASE DeleteProject(u, p)
    BY <2>3, DeletesProject
  <2>4. CASE \E cv \in Contracts \cup {-1}, s \in Termins : ReadPlan(u, p, cv, s)
    <3> PICK cv \in Contracts \cup {-1}, s \in Termins : ReadPlan(u, p, cv, s)
      BY <2>4
    <3> DEFINE t == [Idle EXCEPT !.pc = "plan", !.id = p, !.co = project[p].company, !.cv = cv, !.more = s]
    <3>1. Begin(u, t) /\ t.pc = "plan"
      BY DEF ReadPlan, Idle
    <3> HIDE DEF t
    <3> QED
      BY <3>1, Begins
  <2>5. CASE ReadFix(u, "done", p, 0)
    <3> DEFINE t == [Idle EXCEPT !.pc = "done", !.id = p]
    <3>1. Begin(u, t) /\ t.pc = "done"
      BY <2>5 DEF ReadFix, Idle
    <3> HIDE DEF t
    <3> QED
      BY <3>1, Begins
  <2> QED
    BY <1>3, <2>1, <2>2, <2>3, <2>4, <2>5
<1>4. ASSUME NEW u \in Users, NEW t \in Tracks,
             \/ \E f \in TrackForms : UpdateTrack(u, t, f)
             \/ \E s \in Statuses : ReadStatus(u, t, s)
             \/ \E ph \in Phases : ReadAdvance(u, t, ph)
             \/ \E kind \in {"company", "sector"} : ReadFix(u, kind, 0, t)
             \/ DeleteTrack(u, t)
      PROVE  IInv'
  <2>1. CASE \E f \in TrackForms : UpdateTrack(u, t, f)
    BY <2>1, Updates
  <2>2. CASE \E s \in Statuses : ReadStatus(u, t, s)
    <3> PICK s \in Statuses : ReadStatus(u, t, s)
      BY <2>2
    <3> DEFINE r == [Idle EXCEPT !.pc = "status", !.id = t, !.form.status = s]
    <3>1. Begin(u, r) /\ r.pc = "status"
      BY DEF ReadStatus, Idle
    <3> HIDE DEF r
    <3> QED
      BY <3>1, Begins
  <2>3. CASE \E ph \in Phases : ReadAdvance(u, t, ph)
    <3> PICK ph \in Phases : ReadAdvance(u, t, ph)
      BY <2>3
    <3> DEFINE r == [Idle EXCEPT !.pc = "advance", !.id = t, !.from = track[t].phase, !.form.phase = ph,
                                 !.had = stage[t][track[t].phase] # <<>>]
    <3>1. Begin(u, r) /\ r.id = t /\ r.from = track[t].phase /\ r.had = (stage[t][track[t].phase] # <<>>)
      BY DEF ReadAdvance, Idle
    <3> HIDE DEF r
    <3> QED
      BY <3>1, Begins
  <2>4. CASE \E kind \in {"company", "sector"} : ReadFix(u, kind, 0, t)
    <3> PICK kind \in {"company", "sector"} : ReadFix(u, kind, 0, t)
      BY <2>4
    <3> DEFINE q == track[t].project
               r == [Idle EXCEPT !.pc = kind, !.id = t, !.co = project[q].company, !.form.project = q,
                                 !.form.flag = IF project[q].sector = NoSector THEN track[t].sector ELSE NoSector]
    <3>1. Begin(u, r) /\ r.pc # "advance"
      BY DEF ReadFix, Idle
    <3> HIDE DEF r
    <3> QED
      BY <3>1, Begins
  <2>5. CASE DeleteTrack(u, t)
    BY <2>5, Deletes
  <2> QED
    BY <1>4, <2>1, <2>2, <2>3, <2>4, <2>5
<1> QED
  BY <1>1, <1>2, <1>3, <1>4, Inserts, SetsStatus, Advances, Plans, Fixes, Aborts DEF Next

LEMMA InOrder == IInv => OneOpenStage
<1>1. Len(<<>>) <= 1 /\ \A x : Len(<<x>>) <= 1
  OBVIOUS
<1> QED
  BY <1>1 DEF IInv, Timed, OneOpenStage

\* However users race over a track, unless one of its phases was typed or a
\* request to advance it was overtaken, it has at most one row for a phase and
\* no stage open but that of the phase it is in (advance_money_tracker()).
THEOREM OnePhase == Spec => []OneOpenStage
<1>1. Init => IInv
  BY Starts
<1>2. IInv /\ [Next]_vars => IInv'
  BY Inductive
<1>3. IInv => OneOpenStage
  BY InOrder
<1> QED
  BY <1>1, <1>2, <1>3, PTL DEF Spec

-----------------------------------------------------------------------------
(* The check, in every scope.                                              *)

\* Every issue names its project.
LEMMA Names ==
    /\ \A p, S : \A i \in ProjectIssues(p, S) : i.project = p
    /\ \A t : \A i \in TrackIssues(t) : i.project = track[t].project
<1>1. \A kind, p, t : Issue(kind, p, t).project = p
  BY DEF Issue
<1>2. ASSUME NEW p, NEW S, NEW i \in ProjectIssues(p, S) PROVE i.project = p
  <2>1. \E kind : i = Issue(kind, p, 0)
    BY <1>2 DEF ProjectIssues
  <2> QED
    BY <1>1, <2>1
<1>3. ASSUME NEW t, NEW i \in TrackIssues(t) PROVE i.project = track[t].project
  <2>1. \E kind : i = Issue(kind, track[t].project, t)
    BY <1>3 DEF TrackIssues
  <2> QED
    BY <1>1, <2>1
<1> QED
  BY <1>2, <1>3

Mine(C, p) == {t \in TracksIn(C) : track[t].project = p}

\* The check, issue by issue.
Told(C) ==
    \A i : i \in Issues(C) <=>
      \/ \E p \in Projects, S \in SUBSET Tracks :
           project[p].company \in C /\ S = Mine(C, p) /\ i \in ProjectIssues(p, S)
      \/ \E t \in TracksIn(C) : i \in TrackIssues(t)

LEMMA Listed == \A C : Told(C)
<1> SUFFICES ASSUME NEW C PROVE Told(C)
  OBVIOUS
<1> DEFINE told == {q \in Projects : project[q].company \in C}
           P == {ProjectIssues(q, Mine(C, q)) : q \in told}
           T == {TrackIssues(t) : t \in TracksIn(C)}
<1>1. Issues(C) = (UNION P) \cup (UNION T)
  BY DEF Issues, Mine
<1>2. \A p : Mine(C, p) \in SUBSET Tracks
  BY DEF Mine, TracksIn
<1>3. \A p : p \in told <=> p \in Projects /\ project[p].company \in C
  OBVIOUS
<1> HIDE DEF told
<1>4. \A i : i \in UNION P <=> \E q \in told : i \in ProjectIssues(q, Mine(C, q))
  BY Zenon
<1>5. \A i : i \in UNION T <=> \E t \in TracksIn(C) : i \in TrackIssues(t)
  BY Zenon
<1> HIDE DEF P, T
<1> QED
  BY <1>1, <1>2, <1>3, <1>4, <1>5 DEF Told

\* What the check says of a project depends on its own tracks only.
LEMMA OfProject ==
    ASSUME NEW C, NEW p \in Projects, project[p].company \in C
    PROVE  \A i : i \in Issues(C) /\ i.project = p <=>
             i \in ProjectIssues(p, InvoicesOf(p)) \/ \E t \in InvoicesOf(p) : i \in TrackIssues(t)
<1>1. p # 0
  BY BoundAssumption DEF Projects
<1>2. Mine(C, p) = InvoicesOf(p) /\ InvoicesOf(p) \in SUBSET Tracks
  BY <1>1 DEF Mine, TracksIn, InvoicesOf
<1>3. \A t : t \in InvoicesOf(p) <=> t \in TracksIn(C) /\ track[t].project = p
  BY <1>2 DEF Mine
<1>4. Told(C)
  BY Listed
<1> QED
  BY <1>2, <1>3, <1>4, Names DEF Told

\* The check says the same of a project in every scope that holds its company,
\* for any companies and however their tracks are mixed (check()).
THEOREM OneStory == Spec => []ScopesAgree
<1>1. ScopesAgree
  <2> SUFFICES ASSUME NEW C \in SUBSET Companies, NEW p \in Projects, project[p].company \in C
               PROVE  {i \in Issues(C) : i.project = p} = {i \in Issues(Companies) : i.project = p}
    BY DEF ScopesAgree
  <2>1. project[p].company \in Companies
    OBVIOUS
  <2>2. \A i : i \in Issues(C) /\ i.project = p <=> i \in Issues(Companies) /\ i.project = p
    BY <2>1, OfProject
  <2> QED
    BY <2>2
<1> QED
  BY <1>1, PTL DEF Spec

-----------------------------------------------------------------------------
(* Repairs.  What a request to repair has read of a track and its project  *)
(* is still so until it is overtaken, and a track's project exists.        *)

Linked ==
    /\ DOMAIN project = Projects
    /\ \A p \in Projects : DOMAIN project[p] = DOMAIN NoProject
    /\ \A p \in Projects : project[p].company \in Companies \cup {NoCompany}
    /\ \A t \in Tracks : track[t].project # 0 => track[t].project \in Projects /\ Known(track[t].project)

Asked ==
    \A u \in Users :
      /\ task[u].pc = "create" => task[u].form.project \in Projects \cup {0}
      /\ task[u].pc \in {"plan", "done"} => task[u].id \in Projects

\* What fix() reads.
Found(a) ==
    LET q == track[a.id].project IN
    /\ a.id \in Tracks /\ Exists(a.id) /\ q # 0
    /\ a.form.project = q /\ a.co = project[q].company
    /\ a.form.flag = IF project[q].sector = NoSector THEN track[a.id].sector ELSE NoSector

Seen == \A u \in Users \ stale : task[u].pc \in {"company", "sector"} => Found(task[u])

\* The inductive invariant.
FInv == Tables /\ Linked /\ Asked /\ Seen

\* What FixHeals says of one step.
Healed ==
    \A u \in Users \ stale :
         LET a == task[u] IN
         /\ a.pc \in {"company", "sector", "done"} /\ <<project, track>>' # <<project, track>> /\ task'[u].pc = "idle"
         => LET issue == IF a.pc = "done" THEN Issue("paid_not_done", a.id, 0) ELSE Issue(a.pc, a.form.project, a.id) IN
            issue \in Issues(Companies) => Issues(Companies)' \subseteq Issues(Companies) \ {issue}

LEMMA FixBegins ==
    ASSUME FInv, NEW u \in Users, NEW t, Begin(u, t),
           t.pc = "create" => t.form.project \in Projects \cup {0},
           t.pc \in {"plan", "done"} => t.id \in Projects,
           t.pc \in {"company", "sector"} => Found(t)
    PROVE  FInv' /\ Healed
<1>1. \A w \in Users : task'[w] = IF w = u THEN t ELSE task[w]
  BY DEF FInv, Tables, Begin
<1>2. UNCHANGED <<project, track, stage, stale>>
  BY DEF Begin
<1>3. Tables' /\ Linked' /\ Asked'
  BY <1>1, <1>2 DEF FInv, Tables, Linked, Asked, Known, Begin
<1>4. \A a : Found(a) => Found(a)'
  BY <1>2 DEF Found, Exists
<1>5. Seen'
  <2> SUFFICES ASSUME NEW w \in Users \ stale, task'[w].pc \in {"company", "sector"} PROVE Found(task[w])'
    BY <1>2 DEF Seen
  <2> DEFINE a == task'[w]
  <2>1. Found(a)
    BY <1>1 DEF FInv, Seen
  <2> QED
    BY <1>2, <2>1 DEF Found, Exists
<1>6. Healed
  BY <1>2 DEF Healed
<1> QED
  BY <1>3, <1>5, <1>6 DEF FInv

LEMMA FixAborts ==
    ASSUME FInv, NEW u \in Users, Abort(u)
    PROVE  FInv' /\ Healed
<1>1. \A w \in Users : task'[w] = IF w = u THEN Idle ELSE task[w]
  BY DEF FInv, Tables, Abort
<1>2. UNCHANGED <<project, track, stage>> /\ stale' = stale \ {u}
  BY DEF Abort
<1>3. Idle.pc = "idle"
  BY DEF Idle
<1>4. Tables' /\ Linked' /\ Asked'
  BY <1>1, <1>2, <1>3 DEF FInv, Tables, Linked, Asked, Known, Abort
<1>5. Seen'
  BY <1>1, <1>2, <1>3 DEF FInv, Seen, Found, Exists
<1>6. Healed
  BY <1>2 DEF Healed
<1> QED
  BY <1>4, <1>5, <1>6 DEF FInv

LEMMA FixCommits ==
    ASSUME FInv, NEW u \in Users, Commit(u)
    PROVE  /\ DOMAIN task' = Users /\ Asked' /\ Seen'
           /\ task[u].pc \notin {"company", "sector", "done"} => Healed
<1>1. \A w \in Users : task'[w] = IF w = u THEN Idle ELSE task[w]
  BY DEF FInv, Tables, Commit
<1>2. DOMAIN task' = Users
  BY DEF FInv, Tables, Commit
<1>3. Idle.pc = "idle"
  BY DEF Idle
<1>4. Asked'
  BY <1>1, <1>3 DEF FInv, Asked
<1>5. CASE <<project, track, stage>>' = <<project, track, stage>>
  <2>1. project' = project /\ track' = track /\ stale' = stale \ {u}
    BY <1>5 DEF Commit
  <2>2. Seen'
    BY <1>1, <1>3, <2>1 DEF FInv, Seen, Found, Exists
  <2> QED
    BY <1>2, <1>4, <2>1, <2>2 DEF Healed
<1>6. CASE <<project, track, stage>>' # <<project, track, stage>>
  <2>1. stale' = {w \in Users \ {u} : ~At(w, "idle")}
    BY <1>6 DEF Commit
  <2>2. Seen'
    BY <1>1, <1>3, <2>1 DEF Seen, At
  <2>3. task[u].pc \notin {"company", "sector", "done"} => Healed
    BY <1>1 DEF Healed
  <2> QED
    BY <1>2, <1>4, <2>2, <2>3
<1> QED
  BY <1>5, <1>6

\* So the invariant holds after a commit that keeps rows, stages and references.
LEMMA FixChanges ==
    ASSUME FInv, NEW u \in Users, Commit(u),
           DOMAIN track' = Tracks, \A t \in Tracks : DOMAIN track'[t] = DOMAIN NoTrack,
           DOMAIN stage' = Tracks, \A t \in Tracks : DOMAIN stage'[t] = Phases,
           Linked'
    PROVE  FInv' /\ (task[u].pc \notin {"company", "sector", "done"} => Healed)
BY FixCommits DEF FInv, Tables

\* Projects that stay known, tracks and stages as they are.
LEMMA FixProjects ==
    ASSUME FInv, NEW u \in Users, Commit(u), At(u, "idle"), UNCHANGED <<track, stage>>,
           DOMAIN project' = Projects, \A p \in Projects : DOMAIN project'[p] = DOMAIN NoProject,
           \A p \in Projects : project'[p].company \in Companies \cup {NoCompany},
           \A p \in Projects : Known(p) => Known(p)'
    PROVE  FInv' /\ Healed
<1>1. Linked'
  BY DEF FInv, Linked
<1>2. task[u].pc \notin {"company", "sector", "done"}
  BY DEF At
<1> QED
  BY <1>1, <1>2, FixChanges DEF FInv, Tables

LEMMA CreatesProject ==
    ASSUME FInv, NEW u \in Users, NEW c \in Companies, NEW f \in ProjectForms, CreateProject(u, c, f)
    PROVE  FInv' /\ Healed
<1> DEFINE row == [company |-> c, contract |-> f.contract, done |-> f.done,
                   sector |-> IF f.flag = Keep THEN NoSector ELSE f.flag]
<1>1. /\ At(u, "idle") /\ Commit(u) /\ UNCHANGED <<track, stage>>
      /\ project' = [project EXCEPT ![lastProject + 1] = row]
  BY DEF CreateProject
<1>2. DOMAIN row = DOMAIN NoProject /\ row.company = c /\ c # NoCompany
  BY CompanyAssumption DEF NoProject
<1> HIDE DEF row
<1>3. /\ DOMAIN project' = Projects
      /\ \A p \in Projects : project'[p] = IF p = lastProject + 1 THEN row ELSE project[p]
  BY <1>1 DEF FInv, Linked
<1> QED
  BY <1>1, <1>2, <1>3, FixProjects DEF FInv, Linked, Known

LEMMA EditsProject ==
    ASSUME FInv, NEW u \in Users, NEW p \in Projects,
           \/ \E f \in ProjectForms : UpdateProject(u, p, f)
           \/ \E flag \in Flags : SetProjectType(u, p, flag)
    PROVE  FInv' /\ Healed
<1>1. /\ At(u, "idle") /\ Commit(u) /\ UNCHANGED <<track, stage>>
      /\ \E row : /\ project' = [project EXCEPT ![p] = row]
                  /\ DOMAIN row = DOMAIN NoProject /\ row.company = project[p].company
  <2>1. CASE \E f \in ProjectForms : UpdateProject(u, p, f)
    <3> PICK f \in ProjectForms : UpdateProject(u, p, f)
      BY <2>1
    <3> DEFINE row == [company |-> project[p].company, contract |-> f.contract, done |-> f.done,
                       sector |-> IF f.flag = Keep THEN project[p].sector ELSE f.flag]
    <3>1. project' = [project EXCEPT ![p] = row] /\ At(u, "idle") /\ Commit(u) /\ UNCHANGED <<track, stage>>
      BY DEF UpdateProject, FInv, Linked
    <3>2. DOMAIN row = DOMAIN NoProject /\ row.company = project[p].company
      BY DEF NoProject
    <3> HIDE DEF row
    <3> QED
      BY <3>1, <3>2
  <2>2. CASE \E flag \in Flags : SetProjectType(u, p, flag)
    <3> PICK flag \in Flags : SetProjectType(u, p, flag)
      BY <2>2
    <3> DEFINE row == [project[p] EXCEPT !.sector = flag]
    <3>1. project' = [project EXCEPT ![p] = row] /\ At(u, "idle") /\ Commit(u) /\ UNCHANGED <<track, stage>>
      BY DEF SetProjectType, Flagged, FInv, Linked
    <3>2. DOMAIN row = DOMAIN NoProject /\ row.company = project[p].company
      BY DEF FInv, Linked, NoProject
    <3> HIDE DEF row
    <3> QED
      BY <3>1, <3>2
  <2> QED
    BY <2>1, <2>2
<1>2. PICK row : /\ project' = [project EXCEPT ![p] = row]
                 /\ DOMAIN row = DOMAIN NoProject /\ row.company = project[p].company
  BY <1>1
<1>3. /\ DOMAIN project' = Projects
      /\ \A q \in Projects : project'[q] = IF q = p THEN row ELSE project[q]
  BY <1>2 DEF FInv, Linked
<1> QED
  BY <1>1, <1>2, <1>3, FixProjects DEF FInv, Linked, Known

\* A project's tracks let go of it.
LEMMA DropsProject ==
    ASSUME FInv, NEW u \in Users, NEW p \in Projects, DeleteProject(u, p)
    PROVE  FInv' /\ Healed
<1>1. /\ At(u, "idle") /\ Commit(u) /\ UNCHANGED stage
      /\ project' = [project EXCEPT ![p] = NoProject]
      /\ track' = [t \in Tracks |-> IF track[t].project = p THEN [track[t] EXCEPT !.project = 0] ELSE track[t]]
  BY DEF DeleteProject
<1>2. /\ DOMAIN track' = Tracks
      /\ \A t \in Tracks : DOMAIN track'[t] = DOMAIN NoTrack
      /\ \A t \in Tracks : track'[t].project = IF track[t].project = p THEN 0 ELSE track[t].project
  BY <1>1 DEF FInv, Tables, NoTrack
<1>3. /\ DOMAIN project' = Projects
      /\ \A q \in Projects : project'[q] = IF q = p THEN NoProject ELSE project[q]
  BY <1>1 DEF FInv, Linked
<1>4. NoProject.company = NoCompany
  BY DEF NoProject
<1>5. Linked'
  BY <1>2, <1>3, <1>4 DEF FInv, Linked, Known
<1>6. task[u].pc \notin {"company", "sector", "done"}
  BY <1>1 DEF At
<1> QED
  BY <1>1, <1>2, <1>5, <1>6, FixChanges DEF FInv, Tables

\* A flag leaves a project where it is.
LEMMA FlaggedRows ==
    ASSUME Linked, NEW p, NEW flag
    PROVE  /\ DOMAIN Flagged(p, flag) = Projects
           /\ \A q \in Projects : /\ DOMAIN Flagged(p, flag)[q] = DOMAIN NoProject
                                  /\ Flagged(p, flag)[q].company = project[q].company
                                  /\ Flagged(p, flag)[q].contract = project[q].contract
                                  /\ Flagged(p, flag)[q].done = project[q].done
                                  /\ Flagged(p, flag)[q].sector = IF q = p THEN flag ELSE project[q].sector
BY DEF Linked, Flagged, NoProject

\* Projects that keep their companies, and tracks that name known ones.
LEMMA FixTracks ==
    ASSUME FInv, NEW u \in Users, Commit(u), task[u].pc \notin {"company", "sector", "done"},
           DOMAIN project' = Projects, \A p \in Projects : DOMAIN project'[p] = DOMAIN NoProject,
           \A p \in Projects : project'[p].company = project[p].company,
           DOMAIN track' = Tracks, \A t \in Tracks : DOMAIN track'[t] = DOMAIN NoTrack,
           DOMAIN stage' = Tracks, \A t \in Tracks : DOMAIN stage'[t] = Phases,
           \A t \in Tracks : track'[t].project # 0 /\ track'[t].project # track[t].project =>
                               track'[t].project \in Projects /\ Known(track'[t].project)
    PROVE  FInv' /\ Healed
<1>1. \A t \in Tracks : track'[t].project # 0 => track'[t].project \in Projects /\ Known(track'[t].project)
  BY DEF FInv, Linked
<1>2. Linked'
  BY <1>1 DEF FInv, Linked, Known
<1> QED
  BY <1>2, FixChanges

LEMMA FixInserts ==
    ASSUME FInv, NEW u \in Users, InsertTrack(u)
    PROVE  FInv' /\ Healed
<1> DEFINE f == task[u].form
           p == f.project
           new == NewTrack(task[u].co, f)
<1>1. /\ Commit(u) /\ task[u].pc = "create" /\ (p # 0 => Known(p))
      /\ track' = [track EXCEPT ![last + 1] = new]
      /\ stage' = [stage EXCEPT ![last + 1] = Opened(f.phase)]
      /\ project' = project \/ project' = Flagged(p, f.flag)
  BY DEF InsertTrack, At
<1>2. p \in Projects \cup {0}
  BY <1>1 DEF FInv, Asked
<1>3. DOMAIN new = DOMAIN NoTrack /\ new.project = p /\ DOMAIN Opened(f.phase) = Phases
  BY NewTracks DEF Opened, NoStages
<1> HIDE DEF f, new
<1>4. /\ DOMAIN track' = Tracks /\ DOMAIN stage' = Tracks
      /\ \A t \in Tracks : track'[t] = IF t = last + 1 THEN new ELSE track[t]
      /\ \A t \in Tracks : DOMAIN stage'[t] = Phases
  BY <1>1, <1>3 DEF FInv, Tables
<1>5. /\ DOMAIN project' = Projects
      /\ \A q \in Projects : DOMAIN project'[q] = DOMAIN NoProject /\ project'[q].company = project[q].company
  BY <1>1, FlaggedRows DEF FInv, Linked
<1>6. \A t \in Tracks : /\ DOMAIN track'[t] = DOMAIN NoTrack
                        /\ track'[t].project # 0 /\ track'[t].project # track[t].project =>
                             track'[t].project \in Projects /\ Known(track'[t].project)
  BY <1>1, <1>2, <1>3, <1>4 DEF FInv, Tables
<1> QED
  BY <1>1, <1>4, <1>5, <1>6, FixTracks

LEMMA FixUpdates ==
    ASSUME FInv, NEW u \in Users, NEW t \in Tracks, NEW f \in TrackForms, UpdateTrack(u, t, f)
    PROVE  FInv' /\ Healed
<1> DEFINE p == f.project
           flag == IF f.flag = Keep THEN track[t].sector ELSE f.flag
           new == NewTrack(IF p = 0 THEN track[t].company ELSE project[p].company, f)
           row == [new EXCEPT !.sector = flag]
<1>1. /\ Commit(u) /\ task[u].pc = "idle" /\ UNCHANGED stage /\ (p # 0 => Known(p))
      /\ track' = IF Exists(t) THEN [track EXCEPT ![t] = row] ELSE track
      /\ project' = project \/ project' = Flagged(p, flag)
  BY DEF UpdateTrack, At
<1>2. DOMAIN row = DOMAIN NoTrack /\ row.project = p
  BY DEF NewTrack, NoTrack
<1>3. p \in Projects \cup {0}
  BY FormAssumption
<1> HIDE DEF row, flag
<1>4. DOMAIN track' = Tracks /\ \A s \in Tracks : track'[s] = track[s] \/ track'[s] = row
  BY <1>1 DEF FInv, Tables
<1>5. /\ DOMAIN project' = Projects
      /\ \A q \in Projects : DOMAIN project'[q] = DOMAIN NoProject /\ project'[q].company = project[q].company
  BY <1>1, FlaggedRows DEF FInv, Linked
<1>6. \A s \in Tracks : /\ DOMAIN track'[s] = DOMAIN NoTrack
                        /\ track'[s].project # 0 /\ track'[s].project # track[s].project =>
                             track'[s].project \in Projects /\ Known(track'[s].project)
  BY <1>1, <1>2, <1>3, <1>4 DEF FInv, Tables
<1> QED
  BY <1>1, <1>4, <1>5, <1>6, FixTracks DEF FInv, Tables

\* A status, an advance: the track stays on its project.
LEMMA FixMoves ==
    ASSUME FInv, NEW u \in Users, WriteStatus(u) \/ WriteAdvance(u)
    PROVE  FInv' /\ Healed
<1> DEFINE t == task[u].id
<1>1. CASE WriteStatus(u)
  <2>1. /\ Commit(u) /\ task[u].pc = "status" /\ UNCHANGED <<project, stage>>
        /\ track' = IF Exists(t) THEN [track EXCEPT ![t].status = task[u].form.status] ELSE track
    BY <1>1 DEF WriteStatus, At
  <2>2. DOMAIN track' = Tracks /\ \A s \in Tracks : DOMAIN track'[s] = DOMAIN NoTrack /\ track'[s].project = track[s].project
    BY <2>1 DEF FInv, Tables, NoTrack
  <2> QED
    BY <2>1, <2>2, FixTracks DEF FInv, Tables, Linked
<1>2. CASE WriteAdvance(u)
  <2> DEFINE a == task[u]
             next == a.form.phase
             closed == Closed(stage[t], a.from, a.had)
             after == IF next = a.from THEN closed ELSE Reopened(closed, next)
             row == [track[t] EXCEPT !.phase = next, !.status = IF next = LastPhase THEN "done" ELSE @]
  <2>1. /\ Commit(u) /\ task[u].pc = "advance" /\ UNCHANGED project
        /\ stage' = [stage EXCEPT ![t] = after]
        /\ track' = track \/ track' = [track EXCEPT ![t] = row]
    BY <1>2 DEF WriteAdvance, At
  <2>2. t \in Tracks => DOMAIN after = Phases /\ DOMAIN row = DOMAIN NoTrack /\ row.project = track[t].project
    BY DEF Closed, Reopened, FInv, Tables, NoTrack
  <2> HIDE DEF after, row
  <2>3. /\ DOMAIN track' = Tracks /\ DOMAIN stage' = Tracks
        /\ \A s \in Tracks : DOMAIN stage'[s] = Phases
        /\ \A s \in Tracks : DOMAIN track'[s] = DOMAIN NoTrack /\ track'[s].project = track[s].project
    BY <2>1, <2>2 DEF FInv, Tables
  <2> QED
    BY <2>1, <2>3, FixTracks DEF FInv, Linked
<1> QED
  BY <1>1, <1>2

LEMMA FixDeletes ==
    ASSUME FInv, NEW u \in Users, NEW t \in Tracks, DeleteTrack(u, t)
    PROVE  FInv' /\ Healed
<1>1. /\ Commit(u) /\ task[u].pc = "idle" /\ UNCHANGED project
      /\ track' = [track EXCEPT ![t] = NoTrack] /\ stage' = [stage EXCEPT ![t] = NoStages]
  BY DEF DeleteTrack, At
<1>2. DOMAIN NoStages = Phases /\ NoTrack.project = 0
  BY DEF NoStages, NoTrack
<1>3. /\ DOMAIN track' = Tracks /\ DOMAIN stage' = Tracks
      /\ \A s \in Tracks : DOMAIN stage'[s] = Phases
      /\ \A s \in Tracks : DOMAIN track'[s] = DOMAIN NoTrack /\ track'[s].project \in {0, track[s].project}
  BY <1>1, <1>2 DEF FInv, Tables
<1> QED
  BY <1>1, <1>3, FixTracks DEF FInv, Linked

LEMMA FixPlans ==
    ASSUME FInv, NEW u \in Users, WritePlan(u)
    PROVE  FInv' /\ Healed
<1> DEFINE a == task[u]
           New == last + 1 .. last + Len(a.more)
           cv == IF a.cv >= 0 THEN a.cv ELSE project[a.id].contract
           form(t) == [NoForm EXCEPT !.project = a.id, !.amount = a.more[t - last]]
           row(t) == NewTrack(a.co, form(t))
<1>1. /\ Commit(u) /\ task[u].pc = "plan" /\ Known(a.id)
      /\ project' = [project EXCEPT ![a.id].contract = cv]
      /\ track' = [t \in Tracks |-> IF t \in New THEN row(t) ELSE track[t]]
      /\ stage' = [t \in Tracks |-> IF t \in New THEN Opened(1) ELSE stage[t]]
  BY DEF WritePlan, At
<1>2. \A t : form(t).project = a.id
  BY DEF NoForm
<1>3. a.id \in Projects /\ DOMAIN Opened(1) = Phases
  BY <1>1 DEF FInv, Asked, Opened, NoStages
<1> HIDE DEF New, form, cv
<1>4. \A t : DOMAIN row(t) = DOMAIN NoTrack /\ row(t).project = a.id
  BY <1>2, NewTracks
<1> HIDE DEF row, a
<1>5. /\ DOMAIN track' = Tracks /\ DOMAIN stage' = Tracks
      /\ \A t \in Tracks : DOMAIN stage'[t] = Phases
      /\ \A t \in Tracks : /\ DOMAIN track'[t] = DOMAIN NoTrack
                           /\ track'[t].project = track[t].project \/ track'[t].project = a.id
  BY <1>1, <1>3, <1>4 DEF FInv, Tables
<1>6. /\ DOMAIN project' = Projects
      /\ \A q \in Projects : DOMAIN project'[q] = DOMAIN NoProject /\ project'[q].company = project[q].company
  BY <1>1 DEF FInv, Linked, NoProject
<1> QED
  BY <1>1, <1>3, <1>5, <1>6, FixTracks

-----------------------------------------------------------------------------
(* What a repair does to the list.                                         *)

LEMMA ListedNow == Told(Companies)
BY Listed

LEMMA ListedNext == Told(Companies)'
BY ListedNow, PTL

\* A track has an issue of its company, or of its sector, only for the reason
\* the code names; projects have neither.
LEMMA Reasons ==
    /\ \A p, S : \A i \in ProjectIssues(p, S) : i.kind \notin {"company", "sector"}
    /\ \A t, q, s : Issue("company", q, t) \in TrackIssues(s) => s = t
    /\ \A t, q, s : Issue("sector", q, t) \in TrackIssues(s) => s = t
    /\ \A t, q, s : Issue("paid_not_done", q, t) \notin TrackIssues(s)
<1>1. \A k, q, t : Issue(k, q, t).kind = k /\ Issue(k, q, t).track = t /\ Issue(k, q, t).project = q
  BY DEF Issue
<1>2. ASSUME NEW p, NEW S, NEW i \in ProjectIssues(p, S) PROVE i.kind \notin {"company", "sector"}
  <2>1. \E k : i = Issue(k, p, 0) /\ k \notin {"company", "sector"}
    BY <1>2 DEF ProjectIssues
  <2> QED
    BY <1>1, <2>1
<1>3. ASSUME NEW s, NEW i \in TrackIssues(s) PROVE i.track = s /\ i.kind # "paid_not_done"
  <2>1. \E k : i = Issue(k, track[s].project, s) /\ k # "paid_not_done"
    BY <1>3 DEF TrackIssues
  <2> QED
    BY <1>1, <2>1
<1> QED
  BY <1>1, <1>2, <1>3

\* The issues of a project whose contract and mark, and whose tracks' amounts
\* and statuses, stay.
LEMMA SameProject ==
    ASSUME NEW p, NEW S \in SUBSET Tracks,
           project'[p].contract = project[p].contract, project'[p].done = project[p].done,
           \A t \in Tracks : track'[t].amount = track[t].amount /\ track'[t].status = track[t].status
    PROVE  ProjectIssues(p, S)' = ProjectIssues(p, S)
<1>1. [t \in Tracks |-> track'[t].amount] = [t \in Tracks |-> track[t].amount]
  OBVIOUS
<1>2. \A R : Worth(R)' = Worth(R)
  BY <1>1 DEF Worth
<1>3. \A t \in S : track'[t].status = track[t].status
  OBVIOUS
<1>4. {t \in S : track'[t].status = "done"} = {t \in S : track[t].status = "done"}
  BY <1>3
<1>5. {t \in S : track'[t].status # "done"} = {t \in S : track[t].status # "done"}
  BY <1>3
<1>6. project'[p].contract = project[p].contract /\ project'[p].done = project[p].done
  OBVIOUS
<1> QED
  BY ONLY <1>2, <1>4, <1>5, <1>6 DEF ProjectIssues

\* If no project and no track gets an issue, and none keeps this one, it is off
\* the list.
LEMMA Shrinks ==
    ASSUME NEW issue,
           \A p \in Projects : project'[p].company = project[p].company,
           TracksIn(Companies)' = TracksIn(Companies),
           \A p : Mine(Companies, p)' = Mine(Companies, p),
           \A p \in Projects, S \in SUBSET Tracks :
             S = Mine(Companies, p) => ProjectIssues(p, S)' \subseteq ProjectIssues(p, S) \ {issue},
           \A s \in TracksIn(Companies) : TrackIssues(s)' \subseteq TrackIssues(s) \ {issue}
    PROVE  Issues(Companies)' \subseteq Issues(Companies) \ {issue}
<1>1. Told(Companies) /\ Told(Companies)'
  BY ListedNow, ListedNext
<1> SUFFICES ASSUME NEW i, i \in Issues(Companies)' PROVE i \in Issues(Companies) /\ i # issue
  OBVIOUS
<1>2. CASE \E p \in Projects, S \in SUBSET Tracks :
             (project[p].company \in Companies)' /\ S = Mine(Companies, p)' /\ i \in ProjectIssues(p, S)'
  <2> PICK p \in Projects, S \in SUBSET Tracks :
             (project[p].company \in Companies)' /\ S = Mine(Companies, p)' /\ i \in ProjectIssues(p, S)'
    BY <1>2
  <2>1. project[p].company \in Companies /\ S = Mine(Companies, p) /\ i \in ProjectIssues(p, S) \ {issue}
    OBVIOUS
  <2> QED
    BY <1>1, <2>1 DEF Told
<1>3. CASE \E s \in TracksIn(Companies) : i \in TrackIssues(s)'
  <2>1. \E s \in TracksIn(Companies) : i \in TrackIssues(s) \ {issue}
    BY <1>3
  <2> QED
    BY <1>1, <2>1 DEF Told
<1> QED
  BY <1>1, <1>2, <1>3 DEF Told

\* A track's company becomes that of its project.
LEMMA HealsCompany ==
    ASSUME FInv, NEW t \in Tracks, NEW q \in Projects, track[t].project = q, Exists(t), Known(q),
           project' = project, track' = [track EXCEPT ![t].company = project[q].company]
    PROVE  Issues(Companies)' \subseteq Issues(Companies) \ {Issue("company", q, t)}
<1> DEFINE issue == Issue("company", q, t)
<1>0. q # 0 /\ issue.kind = "company" /\ \A k, p, s : Issue(k, p, s).kind = k
  BY BoundAssumption DEF Projects, Issue
<1>1. DOMAIN track[t] = DOMAIN NoTrack /\ DOMAIN track = Tracks
  BY DEF FInv, Tables
<1>2. /\ \A s \in Tracks : s # t => track'[s] = track[s]
      /\ track'[t].company = project[q].company
      /\ track'[t].project = q /\ track'[t].sector = track[t].sector
      /\ track'[t].amount = track[t].amount /\ track'[t].status = track[t].status
  BY <1>1 DEF NoTrack
<1>3. project[q].company \in Companies /\ project[q].company # NoCompany
  BY DEF FInv, Linked, Known
<1>4. \A s \in Tracks : Live(s)' = Live(s)
  BY <1>2, <1>3 DEF Live, Exists
<1>5. TracksIn(Companies)' = TracksIn(Companies)
  BY <1>0, <1>2, <1>3, <1>4 DEF TracksIn
<1>6. \A p : Mine(Companies, p)' = Mine(Companies, p)
  BY <1>2, <1>5 DEF Mine, TracksIn
<1>7. \A p : \A S \in SUBSET Tracks : ProjectIssues(p, S)' = ProjectIssues(p, S)
  BY <1>2, SameProject
<1>8. \A s \in Tracks : s # t => TrackIssues(s)' = TrackIssues(s)
  BY <1>2 DEF TrackIssues
<1>9. TrackIssues(t)' \subseteq TrackIssues(t) \ {issue}
  BY <1>0, <1>2 DEF TrackIssues
<1>10. \A s \in Tracks : TrackIssues(s)' \subseteq TrackIssues(s) \ {issue}
  BY <1>8, <1>9, Reasons
<1>11. \A p : \A S : issue \notin ProjectIssues(p, S)
  BY <1>0, Reasons
<1> HIDE DEF issue
<1>12. TracksIn(Companies) \subseteq Tracks
  BY DEF TracksIn
<1>13. \A p \in Projects, S \in SUBSET Tracks :
         S = Mine(Companies, p) => ProjectIssues(p, S)' \subseteq ProjectIssues(p, S) \ {issue}
  BY <1>7, <1>11
<1>14. \A s \in TracksIn(Companies) : TrackIssues(s)' \subseteq TrackIssues(s) \ {issue}
  BY <1>10, <1>12
<1>15. \A p \in Projects : project'[p].company = project[p].company
  OBVIOUS
<1>16. Issues(Companies)' \subseteq Issues(Companies) \ {issue}
  BY <1>5, <1>6, <1>13, <1>14, <1>15, Shrinks
<1> QED
  BY <1>16 DEF issue

\* A track gives its flag up, to its project if that has none.
LEMMA HealsSector ==
    ASSUME FInv, NEW t \in Tracks, NEW q \in Projects, track[t].project = q, Exists(t), Known(q),
           NEW flag, flag = IF project[q].sector = NoSector THEN track[t].sector ELSE NoSector,
           project' = IF flag # NoSector THEN Flagged(q, flag) ELSE project,
           track' = [track EXCEPT ![t].sector = NoSector]
    PROVE  Issues(Companies)' \subseteq Issues(Companies) \ {Issue("sector", q, t)}
<1> DEFINE issue == Issue("sector", q, t)
<1>0. q # 0 /\ issue.kind = "sector" /\ \A k, p, s : Issue(k, p, s).kind = k
  BY BoundAssumption DEF Projects, Issue
<1>1. DOMAIN track[t] = DOMAIN NoTrack /\ DOMAIN track = Tracks
  BY DEF FInv, Tables
<1>2. /\ \A s \in Tracks : s # t => track'[s] = track[s]
      /\ track'[t].sector = NoSector
      /\ track'[t].project = q /\ track'[t].company = track[t].company
      /\ track'[t].amount = track[t].amount /\ track'[t].status = track[t].status
  BY <1>1 DEF NoTrack
<1>3. \A p \in Projects : /\ project'[p].company = project[p].company
                          /\ project'[p].contract = project[p].contract
                          /\ project'[p].done = project[p].done
                          /\ p # q => project'[p].sector = project[p].sector
  BY FlaggedRows DEF FInv
<1>4. project[q].sector # NoSector => project'[q].sector = project[q].sector
  BY <1>3
<1>5. \A s \in Tracks : track[s].project # 0 => track[s].project \in Projects
  BY DEF FInv, Linked
<1>6. \A s \in Tracks : Live(s)' = Live(s)
  BY <1>2 DEF Live, Exists
<1>7. TracksIn(Companies)' = TracksIn(Companies)
  BY <1>2, <1>3, <1>5, <1>6 DEF TracksIn
<1>8. \A p : Mine(Companies, p)' = Mine(Companies, p)
  BY <1>2, <1>7 DEF Mine, TracksIn
<1>9. \A p \in Projects, S \in SUBSET Tracks : ProjectIssues(p, S)' = ProjectIssues(p, S)
  BY <1>2, <1>3, SameProject
<1>10. \A s \in Tracks : s # t => TrackIssues(s)' \subseteq TrackIssues(s)
  <2> SUFFICES ASSUME NEW s \in Tracks, s # t PROVE TrackIssues(s)' \subseteq TrackIssues(s)
    OBVIOUS
  <2> DEFINE p == track[s].project
  <2>1. track'[s] = track[s]
    BY <1>2
  <2>2. CASE p = 0
    BY <2>1, <2>2 DEF TrackIssues
  <2>3. CASE p # 0
    <3>1. p \in Projects /\ project'[p].company = project[p].company
      BY <1>3, <1>5, <2>3
    <3>2. project'[p].sector = project[p].sector \/ project[p].sector = NoSector
      BY <1>3, <1>4, <3>1
    <3> QED
      BY <2>1, <2>3, <3>1, <3>2 DEF TrackIssues
  <2> QED
    BY <2>2, <2>3
<1>11. TrackIssues(t)' \subseteq TrackIssues(t) \ {issue}
  <2>1. TrackIssues(t)' = (IF track'[t].company # project'[q].company THEN {Issue("company", q, t)} ELSE {})
                          \cup (IF track'[t].sector \notin {NoSector, project'[q].sector} THEN {issue} ELSE {})
    BY <1>0, <1>2 DEF TrackIssues
  <2>3. track'[t].company # project'[q].company <=> track[t].company # project[q].company
    BY <1>2, <1>3
  <2>4. track'[t].sector \in {NoSector, project'[q].sector}
    BY <1>2
  <2>2. Issue("company", q, t) # issue
    BY <1>0
  <2> QED
    BY <1>0, <2>1, <2>2, <2>3, <2>4 DEF TrackIssues
<1>12. \A s \in Tracks : TrackIssues(s)' \subseteq TrackIssues(s) \ {issue}
  BY <1>10, <1>11, Reasons
<1>13. \A p : \A S : issue \notin ProjectIssues(p, S)
  BY <1>0, Reasons
<1> HIDE DEF issue
<1>14. TracksIn(Companies) \subseteq Tracks
  BY DEF TracksIn
<1>15. \A p \in Projects, S \in SUBSET Tracks :
         S = Mine(Companies, p) => ProjectIssues(p, S)' \subseteq ProjectIssues(p, S) \ {issue}
  BY <1>9, <1>13
<1>16. \A s \in TracksIn(Companies) : TrackIssues(s)' \subseteq TrackIssues(s) \ {issue}
  BY <1>12, <1>14
<1>17. \A p \in Projects : project'[p].company = project[p].company
  BY <1>3
<1>18. Issues(Companies)' \subseteq Issues(Companies) \ {issue}
  BY <1>7, <1>8, <1>15, <1>16, <1>17, Shrinks
<1> QED
  BY <1>18 DEF issue

\* A project whose invoices are all paid is marked as done.
LEMMA HealsDone ==
    ASSUME FInv, NEW p \in Projects, track' = track, project' = [project EXCEPT ![p].done = TRUE],
           Issue("paid_not_done", p, 0) \in Issues(Companies)
    PROVE  Issues(Companies)' \subseteq Issues(Companies) \ {Issue("paid_not_done", p, 0)}
<1> DEFINE issue == Issue("paid_not_done", p, 0)
<1>0. /\ issue.project = p /\ issue.kind = "paid_not_done"
      /\ \A k, q, s : Issue(k, q, s).kind = k /\ Issue(k, q, s).project = q
  BY DEF Issue
<1>1. /\ \A q \in Projects : q # p => project'[q] = project[q]
      /\ project'[p].done = TRUE
      /\ \A q \in Projects : /\ project'[q].company = project[q].company
                             /\ project'[q].contract = project[q].contract
                             /\ project'[q].sector = project[q].sector
  BY DEF FInv, Linked, NoProject
<1>2. TracksIn(Companies)' = TracksIn(Companies) /\ \A q : Mine(Companies, q)' = Mine(Companies, q)
  <2>1. \A s \in Tracks : track[s].project # 0 => track[s].project \in Projects
    BY DEF FInv, Linked
  <2>2. TracksIn(Companies)' = TracksIn(Companies)
    BY <1>1, <2>1 DEF TracksIn, Live, Exists
  <2> QED
    BY <2>2 DEF Mine
<1>3. \A s \in Tracks : TrackIssues(s)' = TrackIssues(s)
  <2>1. \A s \in Tracks : track[s].project # 0 => track[s].project \in Projects
    BY DEF FInv, Linked
  <2>2. \A s \in Tracks : track[s].project # 0 =>
          /\ project'[track[s].project].company = project[track[s].project].company
          /\ project'[track[s].project].sector = project[track[s].project].sector
    BY <1>1, <2>1
  <2> QED
    BY <2>2 DEF TrackIssues
<1>4. issue \in ProjectIssues(p, Mine(Companies, p))
  <2>1. Told(Companies)
    BY ListedNow
  <2> QED
    BY <1>0, <2>1, Names, Reasons DEF Told
<1>5. {t \in Mine(Companies, p) : track[t].status # "done"} = {}
  BY <1>0, <1>4 DEF ProjectIssues
<1>6. ASSUME NEW S, S = Mine(Companies, p)
      PROVE  ProjectIssues(p, S)' \subseteq ProjectIssues(p, S) \ {issue}
  <2>1. [t \in Tracks |-> track'[t].amount] = [t \in Tracks |-> track[t].amount]
    OBVIOUS
  <2>2. \A R : Worth(R)' = Worth(R)
    BY <2>1 DEF Worth
  <2>3. {t \in S : track[t].status # "done"} = {} /\ {t \in S : track'[t].status # "done"} = {}
    BY <1>5, <1>6
  <2>4. {t \in S : track'[t].status = "done"} = {t \in S : track[t].status = "done"}
    OBVIOUS
  <2> QED
    BY <1>0, <1>1, <2>2, <2>3, <2>4 DEF ProjectIssues
<1>7. ASSUME NEW q \in Projects, NEW S \in SUBSET Tracks, S = Mine(Companies, q)
      PROVE  ProjectIssues(q, S)' \subseteq ProjectIssues(q, S) \ {issue}
  <2>1. CASE q = p
    BY <1>6, <1>7, <2>1
  <2>2. CASE q # p
    <3>1. ProjectIssues(q, S)' = ProjectIssues(q, S)
      BY <1>1, <2>2, SameProject
    <3> QED
      BY <1>0, <2>2, <3>1, Names
  <2> QED
    BY <2>1, <2>2
<1>8. \A s \in TracksIn(Companies) : TrackIssues(s)' \subseteq TrackIssues(s) \ {issue}
  BY <1>3, Reasons DEF TracksIn
<1>9. \A q \in Projects : project'[q].company = project[q].company
  BY <1>1
<1> HIDE DEF issue
<1>10. Issues(Companies)' \subseteq Issues(Companies) \ {issue}
  BY <1>2, <1>7, <1>8, <1>9, Shrinks
<1> QED
  BY <1>10 DEF issue

LEMMA FixHealing ==
    ASSUME FInv, NEW u \in Users, WriteFix(u)
    PROVE  FInv' /\ Healed
<1> DEFINE a == task[u]
           q == a.form.project
<1>1. /\ Commit(u) /\ UNCHANGED stage /\ a.pc \in {"company", "sector", "done"}
      /\ project' = IF a.pc = "done" /\ Known(a.id) THEN [project EXCEPT ![a.id].done = TRUE]
                    ELSE IF a.pc = "sector" /\ a.form.flag # NoSector /\ Known(q) THEN Flagged(q, a.form.flag)
                    ELSE project
      /\ track' = IF a.pc = "company" /\ Exists(a.id) THEN [track EXCEPT ![a.id].company = a.co]
                  ELSE IF a.pc = "sector" /\ Exists(a.id) THEN [track EXCEPT ![a.id].sector = NoSector]
                  ELSE track
  BY DEF WriteFix
<1>2. /\ DOMAIN track' = Tracks
      /\ \A s \in Tracks : DOMAIN track'[s] = DOMAIN NoTrack /\ track'[s].project = track[s].project
  BY <1>1 DEF FInv, Tables, NoTrack
<1>3. /\ DOMAIN project' = Projects
      /\ \A p \in Projects : DOMAIN project'[p] = DOMAIN NoProject /\ project'[p].company = project[p].company
  <2>1. CASE project' = Flagged(q, a.form.flag)
    BY <2>1, FlaggedRows DEF FInv
  <2>2. CASE project' \in {project, [project EXCEPT ![a.id].done = TRUE]}
    BY <2>2 DEF FInv, Linked, NoProject
  <2> QED
    BY <1>1, <2>1, <2>2
<1>4. Linked'
  BY <1>2, <1>3 DEF FInv, Linked, Known
<1>5. FInv'
  BY <1>1, <1>2, <1>4, FixChanges DEF FInv, Tables
<1>6. \A w \in Users : w # u => task'[w] = task[w]
  BY <1>1 DEF FInv, Tables, Commit
<1>7. ASSUME u \notin stale, <<project, track>>' # <<project, track>>,
             NEW issue, issue = IF a.pc = "done" THEN Issue("paid_not_done", a.id, 0) ELSE Issue(a.pc, q, a.id),
             issue \in Issues(Companies)
      PROVE  Issues(Companies)' \subseteq Issues(Companies) \ {issue}
  <2>1. CASE a.pc = "done"
    <3>1. a.id \in Projects
      BY <2>1 DEF FInv, Asked
    <3>2. Known(a.id) /\ project' = [project EXCEPT ![a.id].done = TRUE] /\ track' = track
      BY <1>1, <1>7, <2>1
    <3> QED
      BY <1>7, <2>1, <3>1, <3>2, HealsDone
  <2>2. CASE a.pc # "done"
    <3>1. Found(a)
      BY <1>1, <1>7, <2>2 DEF FInv, Seen
    <3>2. a.id \in Tracks /\ Exists(a.id) /\ track[a.id].project = q /\ q \in Projects /\ Known(q)
      BY <3>1 DEF Found, FInv, Linked
    <3>3. CASE a.pc = "company"
      <4>1. project' = project /\ track' = [track EXCEPT ![a.id].company = project[q].company]
        BY <1>1, <3>1, <3>2, <3>3 DEF Found
      <4> QED
        BY <1>7, <3>2, <3>3, <4>1, HealsCompany
    <3>4. CASE a.pc = "sector"
      <4>1. /\ a.form.flag = IF project[q].sector = NoSector THEN track[a.id].sector ELSE NoSector
            /\ project' = IF a.form.flag # NoSector THEN Flagged(q, a.form.flag) ELSE project
            /\ track' = [track EXCEPT ![a.id].sector = NoSector]
        BY <1>1, <3>1, <3>2, <3>4 DEF Found
      <4> QED
        BY <1>7, <3>2, <3>4, <4>1, HealsSector
    <3> QED
      BY <1>1, <2>2, <3>3, <3>4
  <2> QED
    BY <2>1, <2>2
<1>8. Healed
  BY <1>1, <1>6, <1>7 DEF Healed
<1> QED
  BY <1>5, <1>8

LEMMA FixStarts == Init => FInv
<1> SUFFICES ASSUME Init PROVE FInv
  OBVIOUS
<1>1. PICK db \in Databases :
        /\ project = [p \in Projects |-> IF p <= lastProject THEN db.projects[p] ELSE NoProject]
        /\ track = [t \in Tracks |-> IF t <= last THEN db.tracks[t] ELSE NoTrack]
        /\ lastProject = Len(db.projects) /\ last = Len(db.tracks)
  BY DEF Init
<1>2. /\ db.projects \in Seq(ProjectRow) /\ Len(db.projects) <= MaxProjects
      /\ db.tracks \in Seq(TrackRow) /\ Len(db.tracks) <= MaxTracks
      /\ \A i \in 1..Len(db.tracks) : db.tracks[i].project <= Len(db.projects)
  BY DatabaseAssumption
<1>3. Len(db.projects) \in Nat /\ Len(db.tracks) \in Nat
  BY <1>2
<1>4. \A p \in Projects : /\ p <= lastProject => project[p] \in ProjectRow
                          /\ p > lastProject => project[p] = NoProject
  BY <1>1, <1>2, <1>3, BoundAssumption DEF Projects
<1>5. \A p \in Projects : /\ DOMAIN project[p] = DOMAIN NoProject
                          /\ project[p].company \in Companies \cup {NoCompany}
                          /\ p <= lastProject => Known(p)
  <2> SUFFICES ASSUME NEW p \in Projects
               PROVE  /\ DOMAIN project[p] = DOMAIN NoProject
                      /\ project[p].company \in Companies \cup {NoCompany}
                      /\ p <= lastProject => Known(p)
    OBVIOUS
  <2>1. p \in Int /\ lastProject \in Int
    BY <1>1, <1>3 DEF Projects
  <2>2. CASE p <= lastProject
    <3>1. project[p] \in ProjectRow
      BY <1>4, <2>2
    <3>2. DOMAIN project[p] = DOMAIN NoProject /\ project[p].company \in Companies
      BY <3>1 DEF ProjectRow, NoProject
    <3> QED
      BY <3>2, CompanyAssumption DEF Known
  <2>3. CASE p > lastProject
    BY <1>4, <2>1, <2>3 DEF NoProject
  <2> QED
    BY <2>1, <2>2, <2>3
<1>6. ASSUME NEW t \in Tracks, track[t].project # 0
      PROVE  track[t].project \in Projects /\ Known(track[t].project)
  <2>1. t <= last /\ t \in 1..Len(db.tracks) /\ track[t] = db.tracks[t]
    <3>1. CASE t > last
      BY <1>1, <1>3, <1>6, <3>1, BoundAssumption DEF Tracks, NoTrack
    <3> QED
      BY <1>1, <1>3, <3>1, BoundAssumption DEF Tracks
  <2>2. track[t].project \in Projects /\ track[t].project <= lastProject
    <3>1. db.tracks[t] \in TrackRow
      BY <1>2, <2>1
    <3>2. track[t].project \in Projects
      BY <1>6, <2>1, <3>1 DEF TrackRow
    <3> QED
      BY <1>1, <1>2, <2>1, <3>2
  <2> QED
    BY <1>5, <2>2
<1>7. Linked
  <2>1. DOMAIN project = Projects
    BY <1>1
  <2> QED
    BY <1>5, <1>6, <2>1 DEF Linked
<1>8. Tables
  BY Starts DEF IInv
<1>9. Asked /\ Seen
  BY DEF Init, Asked, Seen, Idle
<1> QED
  BY <1>7, <1>8, <1>9 DEF FInv

LEMMA FixInductive == FInv /\ [Next]_vars => FInv' /\ Healed
<1> SUFFICES ASSUME FInv, [Next]_vars PROVE FInv' /\ Healed
  OBVIOUS
<1>1. CASE UNCHANGED vars
  BY <1>1 DEF vars, FInv, Tables, Linked, Asked, Seen, Found, Known, Exists, Healed
<1>2. ASSUME NEW u \in Users, NEW c \in Companies,
             \/ \E f \in ProjectForms : CreateProject(u, c, f)
             \/ \E f \in TrackForms : ReadCreate(u, c, f)
      PROVE  FInv' /\ Healed
  <2>1. CASE \E f \in ProjectForms : CreateProject(u, c, f)
    BY <2>1, CreatesProject
  <2>2. CASE \E f \in TrackForms : ReadCreate(u, c, f)
    <3> PICK f \in TrackForms : ReadCreate(u, c, f)
      BY <2>2
    <3> DEFINE t == [Idle EXCEPT !.pc = "create", !.co = c, !.form = f]
    <3>1. Begin(u, t) /\ t.pc = "create" /\ t.form = f
      BY DEF ReadCreate, Idle
    <3>2. f.project \in Projects \cup {0}
      BY FormAssumption
    <3> HIDE DEF t
    <3> QED
      BY <3>1, <3>2, FixBegins
  <2> QED
    BY <1>2, <2>1, <2>2
<1>3. ASSUME NEW u \in Users, NEW p \in Projects,
             \/ \E f \in ProjectForms : UpdateProject(u, p, f)
             \/ \E flag \in Flags : SetProjectType(u, p, flag)
             \/ DeleteProject(u, p)
             \/ \E cv \in Contracts \cup {-1}, s \in Termins : ReadPlan(u, p, cv, s)
             \/ ReadFix(u, "done", p, 0)
      PROVE  FInv' /\ Healed
  <2>1. CASE \E f \in ProjectForms : UpdateProject(u, p, f)
    BY <2>1, EditsProject
  <2>2. CASE \E flag \in Flags : SetProjectType(u, p, flag)
    BY <2>2, EditsProject
  <2>3. CASE DeleteProject(u, p)
    BY <2>3, DropsProject
  <2>4. CASE \E cv \in Contracts \cup {-1}, s \in Termins : ReadPlan(u, p, cv, s)
    <3> PICK cv \in Contracts \cup {-1}, s \in Termins : ReadPlan(u, p, cv, s)
      BY <2>4
    <3> DEFINE t == [Idle EXCEPT !.pc = "plan", !.id = p, !.co = project[p].company, !.cv = cv, !.more = s]
    <3>1. Begin(u, t) /\ t.pc = "plan" /\ t.id = p
      BY DEF ReadPlan, Idle
    <3> HIDE DEF t
    <3> QED
      BY <3>1, FixBegins
  <2>5. CASE ReadFix(u, "done", p, 0)
    <3> DEFINE t == [Idle EXCEPT !.pc = "done", !.id = p]
    <3>1. Begin(u, t) /\ t.pc = "done" /\ t.id = p
      BY <2>5 DEF ReadFix, Idle
    <3> HIDE DEF t
    <3> QED
      BY <3>1, FixBegins
  <2> QED
    BY <1>3, <2>1, <2>2, <2>3, <2>4, <2>5
<1>4. ASSUME NEW u \in Users, NEW t \in Tracks,
             \/ \E f \in TrackForms : UpdateTrack(u, t, f)
             \/ \E s \in Statuses : ReadStatus(u, t, s)
             \/ \E ph \in Phases : ReadAdvance(u, t, ph)
             \/ \E kind \in {"company", "sector"} : ReadFix(u, kind, 0, t)
             \/ DeleteTrack(u, t)
      PROVE  FInv' /\ Healed
  <2>1. CASE \E f \in TrackForms : UpdateTrack(u, t, f)
    BY <2>1, FixUpdates
  <2>2. CASE \E s \in Statuses : ReadStatus(u, t, s)
    <3> PICK s \in Statuses : ReadStatus(u, t, s)
      BY <2>2
    <3> DEFINE r == [Idle EXCEPT !.pc = "status", !.id = t, !.form.status = s]
    <3>1. Begin(u, r) /\ r.pc = "status"
      BY DEF ReadStatus, Idle
    <3> HIDE DEF r
    <3> QED
      BY <3>1, FixBegins
  <2>3. CASE \E ph \in Phases : ReadAdvance(u, t, ph)
    <3> PICK ph \in Phases : ReadAdvance(u, t, ph)
      BY <2>3
    <3> DEFINE r == [Idle EXCEPT !.pc = "advance", !.id = t, !.from = track[t].phase, !.form.phase = ph,
                                 !.had = stage[t][track[t].phase] # <<>>]
    <3>1. Begin(u, r) /\ r.pc = "advance"
      BY DEF ReadAdvance, Idle
    <3> HIDE DEF r
    <3> QED
      BY <3>1, FixBegins
  <2>4. CASE \E kind \in {"company", "sector"} : ReadFix(u, kind, 0, t)
    <3> PICK kind \in {"company", "sector"} : ReadFix(u, kind, 0, t)
      BY <2>4
    <3> DEFINE q == track[t].project
               r == [Idle EXCEPT !.pc = kind, !.id = t, !.co = project[q].company, !.form.project = q,
                                 !.form.flag = IF project[q].sector = NoSector THEN track[t].sector ELSE NoSector]
    <3>1. Begin(u, r) /\ Exists(t) /\ q # 0
      BY DEF ReadFix
    <3>2. /\ r.pc = kind /\ r.id = t /\ r.co = project[q].company /\ r.form.project = q
          /\ r.form.flag = IF project[q].sector = NoSector THEN track[t].sector ELSE NoSector
      BY DEF Idle, NoForm
    <3> HIDE DEF r
    <3>3. r.pc = kind /\ Found(r)
      BY <3>1, <3>2 DEF Found
    <3> QED
      BY <3>1, <3>3, FixBegins
  <2>5. CASE DeleteTrack(u, t)
    BY <2>5, FixDeletes
  <2> QED
    BY <1>4, <2>1, <2>2, <2>3, <2>4, <2>5
<1> QED
  BY <1>1, <1>2, <1>3, <1>4, FixInserts, FixMoves, FixPlans, FixHealing, FixAborts DEF Next

\* A repair that no other request overtakes takes the issue it was offered for
\* off the list of every company, and puts no other on it, whatever else the
\* check says of the projects (fix()).
THEOREM Repairing == Spec => FixHeals
<1>1. Init => FInv
  BY FixStarts
<1>2. FInv /\ [Next]_vars => FInv'
  BY FixInductive
<1>3. FInv /\ [Next]_vars => [Healed]_vars
  BY FixInductive
<1> QED
  BY <1>1, <1>2, <1>3, PTL DEF Spec, FixHeals, Healed

-----------------------------------------------------------------------------
(* Invoices and contracts.  What a request has compared with the contract  *)
(* is still so until it is overtaken (Compared); amounts are what people   *)
(* fill in (Amounts).                                                      *)

Amounts ==
    /\ last \in Nat
    /\ \A p \in Projects : project[p].contract \in Nat
    /\ \A t \in Tracks : track[t].amount \in Nat
    /\ \A u \in Users :
         /\ task[u].pc = "create" => task[u].form \in TrackForms
         /\ task[u].pc \in {"status", "advance"} => task[u].id \in Tracks
         /\ task[u].pc = "plan" => task[u].more \in Seq(Nat) /\ task[u].cv \in Nat \cup {-1}

Compared ==
    \A u \in Users \ stale :
      LET a == task[u]
          f == a.form
      IN
      /\ a.pc = "create" => Fits(f.project, f.amount, {}, f.status)
      /\ a.pc = "status" /\ track[a.id].status = "cancelled" =>
           Fits(track[a.id].project, track[a.id].amount, {a.id}, f.status)
      /\ a.pc = "advance" => track[a.id].status # "cancelled"
      /\ a.pc = "plan" /\ a.cv < 0 /\ a.more # <<>> => Fits(a.id, a.more[1], {}, "active")

\* The inductive invariant, together with FInv.
MInv == Amounts /\ Compared

\* What InvoicesFit says of one step.
Fitted ==
    \A p \in Projects :
      invoiced_total(p, {})' > invoiced_total(p, {}) /\ project'[p].contract > 0 =>
        \/ invoiced_total(p, {})' <= project'[p].contract
        \/ \E u \in stale : /\ task'[u].pc = "idle"
                            /\ \/ task[u].pc \in {"create", "status", "advance"}
                               \/ task[u].pc = "plan" /\ task[u].cv < 0 /\ Len(task[u].more) = 1

LEMMA FiniteTracks == IsFiniteSet(Tracks) /\ \A S \in SUBSET Tracks : IsFiniteSet(S)
<1>1. IsFiniteSet(Tracks)
  BY BoundAssumption, FS_Interval DEF Tracks
<1> QED
  BY <1>1, FS_Subset

\* A part of a project's invoices comes to no more than all of them.
LEMMA WorthOfPart ==
    ASSUME Amounts, NEW S \in SUBSET Tracks, NEW P \in SUBSET S
    PROVE  Worth(P) \in Nat /\ Worth(P) <= Worth(S)
<1> DEFINE f == [t \in Tracks |-> track[t].amount]
<1>1. (\A t \in S : f[t] \in Nat) /\ (\A t \in P : f[t] \in Nat)
  BY DEF Amounts
<1>2. IsFiniteSet(S) /\ IsFiniteSet(P)
  BY FiniteTracks
<1> HIDE DEF f
<1>3. SumFunctionOnSet(f, P) \in Nat
  BY <1>1, <1>2, SumNat
<1>4. SumFunctionOnSet(f, P) <= SumFunctionOnSet(f, S)
  BY <1>1, <1>2, SumPart
<1> QED
  BY <1>3, <1>4 DEF Worth, f

\* After a step, a project's invoices come to what the tracks of some set are
\* worth, and no more for the others than before.
LEMMA TotalAfter ==
    ASSUME Amounts, Amounts', NEW p, NEW New \in SUBSET Tracks,
           \A t \in InvoicesOf(p)' \ New : t \in InvoicesOf(p) /\ track'[t].amount = track[t].amount
    PROVE  /\ invoiced_total(p, {})' \in Nat
           /\ invoiced_total(p, {})' <= invoiced_total(p, New) + Worth(New)'
<1> DEFINE f == [t \in Tracks |-> track[t].amount]
           g == [t \in Tracks |-> track'[t].amount]
           Now == InvoicesOf(p)
           After == InvoicesOf(p)'
<1>1. Now \in SUBSET Tracks /\ After \in SUBSET Tracks
  BY DEF InvoicesOf
<1>2. (\A t \in Tracks : f[t] \in Nat) /\ (\A t \in Tracks : g[t] \in Nat)
  BY DEF Amounts
<1>3. \A t \in After \ New : f[t] = g[t]
  BY <1>1
<1>4. After \ New \subseteq Now \ New
  OBVIOUS
<1>5. invoiced_total(p, New) = SumFunctionOnSet(f, Now \ New) /\ Worth(New)' = SumFunctionOnSet(g, New)
  BY DEF invoiced_total, Worth
<1>6. invoiced_total(p, {})' = SumFunctionOnSet(g, After)
  <2>1. After \ {} = After
    OBVIOUS
  <2> QED
    BY <2>1 DEF invoiced_total, Worth
<1> HIDE DEF f, g, Now, After
<1>7. /\ IsFiniteSet(After) /\ IsFiniteSet(After \ New) /\ IsFiniteSet(After \cap New)
      /\ IsFiniteSet(Now \ New) /\ IsFiniteSet(New)
  <2>1. /\ After \ New \in SUBSET Tracks /\ After \cap New \in SUBSET Tracks /\ Now \ New \in SUBSET Tracks
    BY <1>1
  <2> QED
    BY <1>1, <2>1, FiniteTracks
<1>8. SumFunctionOnSet(g, After) = SumFunctionOnSet(g, After \cap New) + SumFunctionOnSet(g, After \ New)
  <2>1. After \ (After \cap New) = After \ New /\ After \cap New \in SUBSET After
    OBVIOUS
  <2>2. \A t \in After : g[t] \in Int
    BY <1>1, <1>2
  <2> QED
    BY <1>7, <2>1, <2>2, SumSplit
<1>9. SumFunctionOnSet(g, After \ New) = SumFunctionOnSet(f, After \ New)
  BY <1>3, <1>7, SumSame
<1>10. SumFunctionOnSet(f, After \ New) <= SumFunctionOnSet(f, Now \ New)
  <2>1. \A t \in Now \ New : f[t] \in Nat
    BY <1>1, <1>2
  <2>2. After \ New \in SUBSET (Now \ New)
    BY <1>4
  <2> QED
    BY <1>7, <2>1, <2>2, SumPart
<1>11. SumFunctionOnSet(g, After \cap New) <= SumFunctionOnSet(g, New)
  <2>1. \A t \in New : g[t] \in Nat
    BY <1>2
  <2>2. After \cap New \in SUBSET New
    OBVIOUS
  <2> QED
    BY <1>7, <2>1, <2>2, SumPart
<1>12. /\ SumFunctionOnSet(g, After \cap New) \in Nat /\ SumFunctionOnSet(g, After \ New) \in Nat
       /\ SumFunctionOnSet(f, Now \ New) \in Nat /\ SumFunctionOnSet(g, New) \in Nat
  <2>1. /\ \A t \in After \cap New : g[t] \in Nat
        /\ \A t \in After \ New : g[t] \in Nat
        /\ \A t \in Now \ New : f[t] \in Nat
        /\ \A t \in New : g[t] \in Nat
    BY <1>1, <1>2
  <2>2. SumFunctionOnSet(g, After \cap New) \in Nat
    BY <1>7, <2>1, SumNat
  <2>3. SumFunctionOnSet(g, After \ New) \in Nat
    BY <1>7, <2>1, SumNat
  <2>4. SumFunctionOnSet(f, Now \ New) \in Nat
    BY <1>7, <2>1, SumNat
  <2>5. SumFunctionOnSet(g, New) \in Nat
    BY <1>7, <2>1, SumNat
  <2> QED
    BY <2>2, <2>3, <2>4, <2>5
<1>13. \A a, b, c, d, e, h \in Nat : a = b + c /\ c = d /\ d <= e /\ b <= h => a <= e + h
  OBVIOUS
<1>14. SumFunctionOnSet(g, After) \in Nat
  BY <1>8, <1>12
<1>15. SumFunctionOnSet(f, After \ New) \in Nat
  BY <1>9, <1>12
<1>16. SumFunctionOnSet(g, After) <= SumFunctionOnSet(f, Now \ New) + SumFunctionOnSet(g, New)
  BY <1>8, <1>9, <1>10, <1>11, <1>12, <1>13, <1>14, <1>15
<1> QED
  BY <1>5, <1>6, <1>14, <1>16

\* Where no invoice is added and none grows, the total does not.
LEMMA TotalShrinks ==
    ASSUME Amounts, Amounts', NEW p,
           \A t \in InvoicesOf(p)' : t \in InvoicesOf(p) /\ track'[t].amount = track[t].amount
    PROVE  ~(invoiced_total(p, {})' > invoiced_total(p, {}))
<1>1. PICK New \in SUBSET Tracks : New = {}
  OBVIOUS
<1>2. invoiced_total(p, {})' \in Nat /\ invoiced_total(p, {})' <= invoiced_total(p, New) + Worth(New)'
  BY <1>1, TotalAfter
<1>3. Worth(New)' = 0
  BY <1>1, SumEmpty DEF Worth
<1>4. invoiced_total(p, New) \in Nat
  <2>1. InvoicesOf(p) \ New \in SUBSET InvoicesOf(p) /\ InvoicesOf(p) \in SUBSET Tracks
    BY DEF InvoicesOf
  <2> QED
    BY <2>1, WorthOfPart DEF invoiced_total
<1>5. \A a, b \in Nat : a <= b + 0 => ~(a > b)
  OBVIOUS
<1> QED
  BY <1>1, <1>2, <1>3, <1>4, <1>5

\* Where only t is added or grows, the total comes to no more than the others
\* did, and t.
LEMMA TotalGrows ==
    ASSUME Amounts, Amounts', NEW p, NEW t \in Tracks,
           \A s \in InvoicesOf(p)' \ {t} : s \in InvoicesOf(p) /\ track'[s].amount = track[s].amount
    PROVE  /\ invoiced_total(p, {})' \in Nat
           /\ invoiced_total(p, {t}) \in Nat /\ invoiced_total(p, {}) \in Nat
           /\ invoiced_total(p, {t}) <= invoiced_total(p, {})
           /\ invoiced_total(p, {})' <= invoiced_total(p, {t}) + track'[t].amount
<1>1. PICK New \in SUBSET Tracks : New = {t}
  OBVIOUS
<1>2. invoiced_total(p, {})' \in Nat /\ invoiced_total(p, {})' <= invoiced_total(p, New) + Worth(New)'
  BY <1>1, TotalAfter
<1>3. Worth(New)' = track'[t].amount
  <2> DEFINE g == [s \in Tracks |-> track'[s].amount]
  <2>1. g[t] = track'[t].amount /\ g[t] \in Int
    BY DEF Amounts
  <2>2. IsFiniteSet(New)
    BY FiniteTracks
  <2> HIDE DEF g
  <2>3. t \in New /\ \A x \in New \ {t} : g[x] = 0
    BY <1>1
  <2>4. SumFunctionOnSet(g, New) = g[t]
    BY <2>1, <2>2, <2>3, SumSingle
  <2> QED
    BY <2>1, <2>4 DEF Worth, g
<1>4. /\ invoiced_total(p, {t}) \in Nat /\ invoiced_total(p, {}) \in Nat
      /\ invoiced_total(p, {t}) <= invoiced_total(p, {})
  <2>1. InvoicesOf(p) \ {t} \in SUBSET InvoicesOf(p) /\ InvoicesOf(p) \in SUBSET Tracks
    BY DEF InvoicesOf
  <2>2. InvoicesOf(p) \ {} = InvoicesOf(p)
    OBVIOUS
  <2>3. Worth(InvoicesOf(p) \ {t}) \in Nat /\ Worth(InvoicesOf(p) \ {t}) <= Worth(InvoicesOf(p))
    BY <2>1, WorthOfPart
  <2>4. Worth(InvoicesOf(p)) \in Nat
    BY <2>1, WorthOfPart
  <2> QED
    BY <2>2, <2>3, <2>4 DEF invoiced_total
<1> QED
  BY <1>1, <1>2, <1>3, <1>4

\* What was compared with the contract fits.
LEMMA ComparedFits ==
    ASSUME Amounts, Amounts', NEW p \in Projects, NEW t \in Tracks, NEW amount, NEW except, NEW status,
           \A s \in InvoicesOf(p)' \ {t} : s \in InvoicesOf(p) /\ track'[s].amount = track[s].amount,
           except = {} \/ except = {t}, amount = track'[t].amount,
           Fits(p, amount, except, status), status # "cancelled",
           project'[p].contract = project[p].contract, project'[p].contract > 0
    PROVE  invoiced_total(p, {})' <= project'[p].contract
<1>1. /\ invoiced_total(p, {})' \in Nat
      /\ invoiced_total(p, {t}) \in Nat /\ invoiced_total(p, {}) \in Nat
      /\ invoiced_total(p, {t}) <= invoiced_total(p, {})
      /\ invoiced_total(p, {})' <= invoiced_total(p, {t}) + amount
  BY TotalGrows
<1>2. p # 0
  BY DEF Projects
<1>3. invoiced_total(p, except) + amount <= project[p].contract
  BY <1>2 DEF Fits
<1>4. amount \in Nat /\ project[p].contract \in Nat
  BY DEF Amounts
<1>5. \A a, b, c, d, e \in Nat : b <= c /\ a <= b + d /\ (b + d <= e \/ c + d <= e) => a <= e
  OBVIOUS
<1>6. invoiced_total(p, {t}) + amount <= project[p].contract \/ invoiced_total(p, {}) + amount <= project[p].contract
  BY <1>3
<1> QED
  BY <1>1, <1>4, <1>5, <1>6

-----------------------------------------------------------------------------
(* Invoices: requests that begin, end or commit.                           *)

\* Where the tables stay, what fits fits.
LEMMA FitsStays ==
    ASSUME UNCHANGED <<project, track>>
    PROVE  \A p, amount, except, status : Fits(p, amount, except, status) => Fits(p, amount, except, status)'
<1>1. \A S : Worth(S)' = Worth(S)
  BY DEF Worth
<1>2. \A p : InvoicesOf(p)' = InvoicesOf(p)
  BY DEF InvoicesOf, Live, Exists
<1>3. \A p, except : invoiced_total(p, except)' = invoiced_total(p, except)
  BY <1>1, <1>2 DEF invoiced_total
<1> QED
  BY <1>3 DEF Fits, Known

\* A step that brings no track to life and moves none adds no invoice.
LEMMA NoInvoice ==
    ASSUME Amounts, Amounts',
           \A t \in Tracks : Live(t)' => Live(t) /\ track'[t].project = track[t].project,
           \A t \in Tracks : track'[t].amount = track[t].amount
    PROVE  Fitted
<1> SUFFICES ASSUME NEW p \in Projects PROVE ~(invoiced_total(p, {})' > invoiced_total(p, {}))
  BY DEF Fitted
<1>1. \A t \in InvoicesOf(p)' : t \in InvoicesOf(p) /\ track'[t].amount = track[t].amount
  BY DEF InvoicesOf
<1> QED
  BY <1>1, TotalShrinks

\* What a request has compared, if nothing overtakes it.
ComparedOf(a) ==
    LET f == a.form IN
    /\ a.pc = "create" => Fits(f.project, f.amount, {}, f.status)
    /\ a.pc = "status" /\ track[a.id].status = "cancelled" =>
         Fits(track[a.id].project, track[a.id].amount, {a.id}, f.status)
    /\ a.pc = "advance" => track[a.id].status # "cancelled"
    /\ a.pc = "plan" /\ a.cv < 0 /\ a.more # <<>> => Fits(a.id, a.more[1], {}, "active")

AmountsOf(a) ==
    /\ a.pc = "create" => a.form \in TrackForms
    /\ a.pc \in {"status", "advance"} => a.id \in Tracks
    /\ a.pc = "plan" => a.more \in Seq(Nat) /\ a.cv \in Nat \cup {-1}

LEMMA MoneyBegins ==
    ASSUME FInv, MInv, NEW u \in Users, NEW t, Begin(u, t), AmountsOf(t), ComparedOf(t)
    PROVE  MInv' /\ Fitted
<1>1. \A w \in Users : task'[w] = IF w = u THEN t ELSE task[w]
  BY DEF FInv, Tables, Begin
<1>2. UNCHANGED <<project, lastProject, track, last, stale>>
  BY DEF Begin
<1>3. Amounts'
  BY <1>1, <1>2 DEF MInv, Amounts, AmountsOf
<1>4. Compared'
  <2>1. \A p, amount, except, status : Fits(p, amount, except, status) => Fits(p, amount, except, status)'
    BY <1>2, FitsStays
  <2>2. \A w \in Users \ stale : ComparedOf(task'[w])
    BY <1>1 DEF MInv, Compared, ComparedOf
  <2> QED
    BY <1>2, <2>1, <2>2 DEF Compared, ComparedOf
<1>5. Fitted
  BY <1>2, <1>3, NoInvoice DEF MInv, Live, Exists
<1> QED
  BY <1>3, <1>4, <1>5 DEF MInv

\* Where the tables stay, so does what a request has compared.
LEMMA ComparedStays ==
    ASSUME Compared, UNCHANGED <<project, track>>,
           \A w \in Users \ stale' : task'[w].pc = "idle" \/ (w \notin stale /\ task'[w] = task[w])
    PROVE  Compared'
<1>1. \A p, amount, except, status : Fits(p, amount, except, status) => Fits(p, amount, except, status)'
  BY FitsStays
<1>2. ASSUME NEW u \in Users \ stale' PROVE ComparedOf(task[u])'
  <2>1. CASE task'[u].pc = "idle"
    BY <2>1 DEF ComparedOf
  <2>2. CASE u \notin stale /\ task'[u] = task[u]
    <3>1. ComparedOf(task[u])
      BY <2>2 DEF Compared, ComparedOf
    <3> QED
      BY <1>1, <2>2, <3>1 DEF ComparedOf
  <2> QED
    BY <2>1, <2>2
<1> QED
  BY <1>2 DEF Compared, ComparedOf

LEMMA MoneyAborts ==
    ASSUME FInv, MInv, NEW u \in Users, Abort(u)
    PROVE  MInv' /\ Fitted
<1>1. \A w \in Users : task'[w] = IF w = u THEN Idle ELSE task[w]
  BY DEF FInv, Tables, Abort
<1>2. UNCHANGED <<project, track, last>> /\ stale' = stale \ {u} /\ Idle.pc = "idle"
  BY DEF Abort, Idle
<1>3. Amounts'
  BY <1>1, <1>2 DEF MInv, Amounts
<1>4. Compared'
  <2>1. \A w \in Users \ stale' : task'[w].pc = "idle" \/ (w \notin stale /\ task'[w] = task[w])
    BY <1>1, <1>2
  <2> QED
    BY <1>2, <2>1, ComparedStays DEF MInv
<1>5. Fitted
  BY <1>2, <1>3, NoInvoice DEF MInv, Live, Exists
<1> QED
  BY <1>3, <1>4, <1>5 DEF MInv

\* A commit that writes amounts keeps the invariant: what the others have
\* compared is overtaken.
LEMMA MoneyCommits ==
    ASSUME FInv, MInv, NEW u \in Users, Commit(u),
           last' \in Nat,
           \A p \in Projects : project'[p].contract \in Nat,
           \A t \in Tracks : track'[t].amount \in Nat
    PROVE  MInv' /\ task'[u].pc = "idle"
<1>1. \A w \in Users : task'[w] = IF w = u THEN Idle ELSE task[w]
  BY DEF FInv, Tables, Commit
<1>2. Idle.pc = "idle"
  BY DEF Idle
<1>3. Amounts'
  BY <1>1, <1>2 DEF MInv, Amounts
<1>4. CASE <<project, track, stage>>' = <<project, track, stage>>
  <2>1. project' = project /\ track' = track /\ stale' = stale \ {u}
    BY <1>4 DEF Commit
  <2>2. \A w \in Users \ stale' : task'[w].pc = "idle" \/ (w \notin stale /\ task'[w] = task[w])
    BY <1>1, <1>2, <2>1
  <2>3. Compared'
    BY <2>1, <2>2, ComparedStays DEF MInv
  <2> QED
    BY <1>1, <1>2, <1>3, <2>3 DEF MInv
<1>5. CASE <<project, track, stage>>' # <<project, track, stage>>
  <2>1. stale' = {w \in Users \ {u} : ~At(w, "idle")}
    BY <1>5 DEF Commit
  <2>2. \A w \in Users \ stale' : task'[w].pc = "idle"
    BY <1>1, <1>2, <2>1 DEF At
  <2>3. Compared'
    BY <2>2 DEF Compared
  <2> QED
    BY <1>1, <1>2, <1>3, <2>3 DEF MInv
<1> QED
  BY <1>4, <1>5

-----------------------------------------------------------------------------
(* Invoices: the commits, one by one.                                      *)

\* What only touches projects.
LEMMA MoneyProjects ==
    ASSUME FInv, MInv, NEW u \in Users, Commit(u), UNCHANGED <<track, last>>,
           \A p \in Projects : project'[p].contract \in Nat
    PROVE  MInv' /\ Fitted
<1>1. MInv'
  BY MoneyCommits DEF MInv, Amounts
<1> QED
  BY <1>1, NoInvoice DEF MInv, Live, Exists

LEMMA MoneyEdits ==
    ASSUME FInv, MInv, NEW u \in Users, NEW f \in ProjectForms,
           \/ \E c \in Companies : CreateProject(u, c, f)
           \/ \E p \in Projects : UpdateProject(u, p, f)
    PROVE  MInv' /\ Fitted
<1>1. f.contract \in Nat
  BY FormAssumption, MoneyAssumption
<1>2. Commit(u) /\ UNCHANGED <<track, last>>
  BY DEF CreateProject, UpdateProject
<1>3. \A p \in Projects : project'[p].contract \in Nat
  <2>1. CASE \E c \in Companies : CreateProject(u, c, f)
    BY <1>1, <2>1 DEF CreateProject, FInv, Linked, MInv, Amounts
  <2>2. CASE \E p \in Projects : UpdateProject(u, p, f)
    BY <1>1, <2>2 DEF UpdateProject, FInv, Linked, MInv, Amounts
  <2> QED
    BY <2>1, <2>2
<1> QED
  BY <1>2, <1>3, MoneyProjects

LEMMA MoneyFlags ==
    ASSUME FInv, MInv, NEW u \in Users, NEW p \in Projects, NEW flag \in Flags, SetProjectType(u, p, flag)
    PROVE  MInv' /\ Fitted
<1>1. Commit(u) /\ UNCHANGED <<track, last>> /\ project' = Flagged(p, flag)
  BY DEF SetProjectType
<1>2. \A q \in Projects : project'[q].contract \in Nat
  BY <1>1, FlaggedRows DEF FInv, MInv, Amounts
<1> QED
  BY <1>1, <1>2, MoneyProjects

\* The tracks of a deleted project lose it.
LEMMA MoneyDrops ==
    ASSUME FInv, MInv, NEW u \in Users, NEW p \in Projects, DeleteProject(u, p)
    PROVE  MInv' /\ Fitted
<1>1. /\ Commit(u) /\ last' = last
      /\ project' = [project EXCEPT ![p] = NoProject]
      /\ track' = [t \in Tracks |-> IF track[t].project = p THEN [track[t] EXCEPT !.project = 0] ELSE track[t]]
  BY DEF DeleteProject
<1>2. NoProject.contract = 0
  BY DEF NoProject
<1>3. \A t \in Tracks : /\ track'[t].amount = track[t].amount /\ track'[t].status = track[t].status
                        /\ track'[t].company = track[t].company /\ track'[t].project \in {0, track[t].project}
  BY <1>1 DEF FInv, Tables, NoTrack
<1>4. MInv'
  <2>1. \A t \in Tracks : track'[t].amount \in Nat
    BY <1>3 DEF MInv, Amounts
  <2>2. \A q \in Projects : project'[q].contract \in Nat
    BY <1>1, <1>2 DEF FInv, Linked, MInv, Amounts
  <2> QED
    BY <1>1, <2>1, <2>2, MoneyCommits DEF MInv, Amounts
<1>5. Fitted
  <2> SUFFICES ASSUME NEW q \in Projects PROVE ~(invoiced_total(q, {})' > invoiced_total(q, {}))
    BY DEF Fitted
  <2>1. q # 0
    BY DEF Projects
  <2>2. \A t \in InvoicesOf(q)' : t \in InvoicesOf(q) /\ track'[t].amount = track[t].amount
    BY <1>3, <2>1 DEF InvoicesOf, Live, Exists
  <2> QED
    BY <1>4, <2>2, TotalShrinks DEF MInv
<1> QED
  BY <1>4, <1>5

\* A commit that takes the invoices past the contract was overtaken, and is one
\* of those that compare in autocommit.
LEMMA MoneyTracks ==
    ASSUME MInv, MInv', NEW u \in Users, NEW t, task'[u].pc = "idle",
           \A s \in Tracks \ {t} : track'[s] = track[s],
           \A p \in Projects : project'[p].contract = project[p].contract,
           t \in Tracks /\ Live(t)' /\ track'[t].project \in Projects =>
             \/ Live(t) /\ track'[t].project = track[t].project /\ track'[t].amount = track[t].amount
             \/ \E except \in {{}, {t}} : /\ track'[t].status # "cancelled"
                                          /\ Fits(track'[t].project, track'[t].amount, except, track'[t].status)
             \/ u \in stale /\ task[u].pc \in {"create", "status", "advance"}
    PROVE  Fitted
<1>1. CASE u \in stale /\ task[u].pc \in {"create", "status", "advance"}
  BY <1>1 DEF Fitted
<1>2. CASE ~(u \in stale /\ task[u].pc \in {"create", "status", "advance"})
  <2> SUFFICES ASSUME NEW p \in Projects, invoiced_total(p, {})' > invoiced_total(p, {}), project'[p].contract > 0
               PROVE  invoiced_total(p, {})' <= project'[p].contract
    BY DEF Fitted
  <2>1. \A s \in InvoicesOf(p)' \ {t} : s \in InvoicesOf(p) /\ track'[s].amount = track[s].amount
    BY DEF InvoicesOf, Live, Exists
  <2>2. ~\A s \in InvoicesOf(p)' : s \in InvoicesOf(p) /\ track'[s].amount = track[s].amount
    BY TotalShrinks DEF MInv
  <2>3. t \in InvoicesOf(p)' /\ ~(t \in InvoicesOf(p) /\ track'[t].amount = track[t].amount)
    BY <2>1, <2>2
  <2>4. t \in Tracks /\ Live(t)' /\ track'[t].project = p
    BY <2>3 DEF InvoicesOf
  <2>5. ~(Live(t) /\ track'[t].project = track[t].project /\ track'[t].amount = track[t].amount)
    BY <2>3, <2>4 DEF InvoicesOf
  <2>6. PICK except \in {{}, {t}} : /\ track'[t].status # "cancelled"
                                    /\ Fits(p, track'[t].amount, except, track'[t].status)
    BY <1>2, <2>4, <2>5
  <2>7. project'[p].contract = project[p].contract
    OBVIOUS
  <2>8. PICK amount, status : amount = track'[t].amount /\ status = track'[t].status
    OBVIOUS
  <2>9. Fits(p, amount, except, status) /\ status # "cancelled" /\ (except = {} \/ except = {t})
    BY <2>6, <2>8
  <2> QED
    BY <2>1, <2>4, <2>7, <2>8, <2>9, ComparedFits DEF MInv
<1> QED
  BY <1>1, <1>2

LEMMA MoneyInserts ==
    ASSUME FInv, MInv, NEW u \in Users, InsertTrack(u)
    PROVE  MInv' /\ Fitted
<1> DEFINE f == task[u].form
           p == f.project
           new == NewTrack(task[u].co, f)
<1>0. PICK t : t = last + 1
  OBVIOUS
<1>1. /\ Commit(u) /\ task[u].pc = "create" /\ last' = last + 1
      /\ track' = [track EXCEPT ![last + 1] = new]
      /\ project' = project \/ project' = Flagged(p, f.flag)
  BY DEF InsertTrack, At
<1>2. f \in TrackForms /\ f.amount \in Nat
  BY <1>1, FormAssumption DEF MInv, Amounts
<1>3. new.project = p /\ new.amount = f.amount /\ new.status = f.status
  BY DEF NewTrack
<1>4. u \notin stale => Fits(p, f.amount, {}, f.status)
  BY <1>1 DEF MInv, Compared
<1> HIDE DEF f, new
<1>5. \A s \in Tracks : track'[s] = IF s = t THEN new ELSE track[s]
  BY <1>0, <1>1 DEF FInv, Tables
<1>6. \A q \in Projects : project'[q].contract = project[q].contract
  BY <1>1, FlaggedRows DEF FInv
<1>7. MInv' /\ task'[u].pc = "idle"
  <2>1. \A s \in Tracks : track'[s].amount \in Nat
    BY <1>2, <1>3, <1>5 DEF MInv, Amounts
  <2>2. last' \in Nat /\ \A q \in Projects : project'[q].contract \in Nat
    BY <1>1, <1>6 DEF MInv, Amounts
  <2> QED
    BY <1>1, <2>1, <2>2, MoneyCommits
<1>8. t \in Tracks /\ Live(t)' => track'[t] = new /\ new.status # "cancelled"
  BY <1>5 DEF Live
<1>9. t \in Tracks /\ Live(t)' =>
        \/ \E except \in {{}, {t}} : /\ track'[t].status # "cancelled"
                                     /\ Fits(track'[t].project, track'[t].amount, except, track'[t].status)
        \/ u \in stale /\ task[u].pc \in {"create", "status", "advance"}
  BY <1>1, <1>3, <1>4, <1>8
<1>10. \A s \in Tracks \ {t} : track'[s] = track[s]
  BY <1>5
<1> QED
  BY <1>6, <1>7, <1>9, <1>10, MoneyTracks

LEMMA MoneyUpdates ==
    ASSUME FInv, MInv, NEW u \in Users, NEW t \in Tracks, NEW f \in TrackForms, UpdateTrack(u, t, f)
    PROVE  MInv' /\ Fitted
<1> DEFINE p == f.project
           flag == IF f.flag = Keep THEN track[t].sector ELSE f.flag
           new == NewTrack(IF p = 0 THEN track[t].company ELSE project[p].company, f)
           row == [new EXCEPT !.sector = flag]
<1>1. /\ Commit(u) /\ last' = last
      /\ Fits(p, f.amount, {t}, f.status)
      /\ track' = IF Exists(t) THEN [track EXCEPT ![t] = row] ELSE track
      /\ project' = project \/ project' = Flagged(p, flag)
  BY DEF UpdateTrack
<1>2. row.project = p /\ row.amount = f.amount /\ row.status = f.status
  BY DEF NewTrack
<1>3. f.amount \in Nat
  BY FormAssumption
<1> HIDE DEF row, flag
<1>4. \A s \in Tracks : track'[s] = track[s] \/ (s = t /\ Exists(t) /\ track'[s] = row)
  BY <1>1 DEF FInv, Tables
<1>5. \A q \in Projects : project'[q].contract = project[q].contract
  BY <1>1, FlaggedRows DEF FInv
<1>6. MInv' /\ task'[u].pc = "idle"
  <2>1. \A s \in Tracks : track'[s].amount \in Nat
    BY <1>2, <1>3, <1>4 DEF MInv, Amounts
  <2>2. last' \in Nat /\ \A q \in Projects : project'[q].contract \in Nat
    BY <1>1, <1>5 DEF MInv, Amounts
  <2> QED
    BY <1>1, <2>1, <2>2, MoneyCommits
<1>7. Live(t)' =>
        \/ Live(t) /\ track'[t].project = track[t].project /\ track'[t].amount = track[t].amount
        \/ \E except \in {{}, {t}} : /\ track'[t].status # "cancelled"
                                     /\ Fits(track'[t].project, track'[t].amount, except, track'[t].status)
  <2>1. CASE track'[t] = track[t]
    BY <2>1 DEF Live, Exists
  <2>2. CASE track'[t] = row
    BY <1>1, <1>2, <2>2 DEF Live
  <2> QED
    BY <1>4, <2>1, <2>2
<1>8. \A s \in Tracks \ {t} : track'[s] = track[s]
  BY <1>4
<1> QED
  BY <1>5, <1>6, <1>7, <1>8, MoneyTracks

LEMMA MoneyStatus ==
    ASSUME FInv, MInv, NEW u \in Users, WriteStatus(u)
    PROVE  MInv' /\ Fitted
<1> PICK t, s : t = task[u].id /\ s = task[u].form.status
  OBVIOUS
<1>1. /\ Commit(u) /\ task[u].pc = "status" /\ UNCHANGED <<project, last>>
      /\ track' = IF Exists(t) THEN [track EXCEPT ![t].status = s] ELSE track
  BY DEF WriteStatus, At
<1>2. t \in Tracks
  BY <1>1 DEF MInv, Amounts
<1>3. u \notin stale /\ track[t].status = "cancelled" => Fits(track[t].project, track[t].amount, {t}, s)
  BY <1>1 DEF MInv, Compared
<1>4. /\ \A r \in Tracks \ {t} : track'[r] = track[r]
      /\ \A r \in Tracks : track'[r].amount = track[r].amount
      /\ track'[t].project = track[t].project /\ track'[t].company = track[t].company
      /\ track'[t].status = IF Exists(t) THEN s ELSE track[t].status
  BY <1>1, <1>2 DEF FInv, Tables, NoTrack
<1>5. MInv' /\ task'[u].pc = "idle"
  BY <1>1, <1>4, MoneyCommits DEF MInv, Amounts
<1>6. Live(t)' =>
        \/ Live(t) /\ track'[t].project = track[t].project /\ track'[t].amount = track[t].amount
        \/ \E except \in {{}, {t}} : /\ track'[t].status # "cancelled"
                                     /\ Fits(track'[t].project, track'[t].amount, except, track'[t].status)
        \/ u \in stale /\ task[u].pc \in {"create", "status", "advance"}
  <2> SUFFICES ASSUME Live(t)' PROVE
        \/ Live(t)
        \/ \E except \in {{}, {t}} : /\ track'[t].status # "cancelled"
                                     /\ Fits(track'[t].project, track'[t].amount, except, track'[t].status)
        \/ u \in stale
    BY <1>1, <1>2, <1>4
  <2>1. Exists(t) /\ track'[t].status = s /\ s # "cancelled"
    BY <1>4 DEF Live, Exists
  <2> QED
    BY <1>2, <1>3, <1>4, <2>1 DEF Live
<1>7. \A q \in Projects : project'[q].contract = project[q].contract
  BY <1>1
<1> QED
  BY <1>2, <1>4, <1>5, <1>6, <1>7, MoneyTracks

LEMMA MoneyAdvances ==
    ASSUME FInv, MInv, NEW u \in Users, WriteAdvance(u)
    PROVE  MInv' /\ Fitted
<1> PICK t : t = task[u].id
  OBVIOUS
<1> DEFINE next == task[u].form.phase
           row == [track[t] EXCEPT !.phase = next, !.status = IF next = LastPhase THEN "done" ELSE @]
<1>1. /\ Commit(u) /\ task[u].pc = "advance" /\ Exists(t) /\ UNCHANGED <<project, last>>
      /\ track' = track \/ track' = [track EXCEPT ![t] = row]
  BY DEF WriteAdvance, At
<1>2. t \in Tracks
  BY <1>1 DEF MInv, Amounts
<1>3. u \notin stale => track[t].status # "cancelled"
  BY <1>1 DEF MInv, Compared
<1>4. row.amount = track[t].amount /\ row.project = track[t].project
  BY <1>2 DEF FInv, Tables, NoTrack
<1> HIDE DEF row
<1>5. /\ \A r \in Tracks \ {t} : track'[r] = track[r]
      /\ \A r \in Tracks : track'[r].amount = track[r].amount
      /\ track'[t].project = track[t].project
  BY <1>1, <1>2, <1>4 DEF FInv, Tables
<1>6. MInv' /\ task'[u].pc = "idle"
  BY <1>1, <1>5, MoneyCommits DEF MInv, Amounts
<1>7. \/ Live(t) /\ track'[t].project = track[t].project /\ track'[t].amount = track[t].amount
      \/ u \in stale /\ task[u].pc \in {"create", "status", "advance"}
  BY <1>1, <1>2, <1>3, <1>5 DEF Live
<1>8. \A q \in Projects : project'[q].contract = project[q].contract
  BY <1>1
<1> QED
  BY <1>5, <1>6, <1>7, <1>8, MoneyTracks

LEMMA MoneyDeletes ==
    ASSUME FInv, MInv, NEW u \in Users, NEW t \in Tracks, DeleteTrack(u, t)
    PROVE  MInv' /\ Fitted
<1>1. /\ Commit(u) /\ UNCHANGED <<project, last>>
      /\ track' = [track EXCEPT ![t] = NoTrack]
  BY DEF DeleteTrack
<1>2. \A s \in Tracks : track'[s] = IF s = t THEN NoTrack ELSE track[s]
  BY <1>1 DEF FInv, Tables
<1>3. NoTrack.amount = 0 /\ NoTrack.status = "cancelled"
  BY DEF NoTrack
<1>4. MInv' /\ task'[u].pc = "idle"
  BY <1>1, <1>2, <1>3, MoneyCommits DEF MInv, Amounts
<1>5. ~Live(t)' /\ \A s \in Tracks \ {t} : track'[s] = track[s]
  BY <1>2, <1>3 DEF Live
<1>6. \A q \in Projects : project'[q].contract = project[q].contract
  BY <1>1
<1> QED
  BY <1>4, <1>5, <1>6, MoneyTracks

\* A repair moves a track between companies and sectors, not between projects.
LEMMA MoneyFixes ==
    ASSUME FInv, MInv, NEW u \in Users, WriteFix(u)
    PROVE  MInv' /\ Fitted
<1> DEFINE t == task[u].id
<1>1. /\ Commit(u) /\ last' = last
      /\ \/ project' = project
         \/ project' = [project EXCEPT ![task[u].id].done = TRUE]
         \/ project' = Flagged(task[u].form.project, task[u].form.flag)
      /\ \/ track' = track
         \/ Exists(t) /\ track' = [track EXCEPT ![t].company = task[u].co]
         \/ Exists(t) /\ track' = [track EXCEPT ![t].sector = NoSector]
  BY DEF WriteFix
<1>2. \A s \in Tracks : /\ track'[s].amount = track[s].amount /\ track'[s].project = track[s].project
                        /\ track'[s].status = track[s].status
                        /\ track'[s].company # track[s].company => Exists(s)
  BY <1>1 DEF FInv, Tables, NoTrack
<1>3. \A q \in Projects : project'[q].contract = project[q].contract
  <2>1. CASE project' = [project EXCEPT ![task[u].id].done = TRUE]
    BY <2>1 DEF FInv, Linked, NoProject
  <2>2. CASE project' = Flagged(task[u].form.project, task[u].form.flag)
    BY <2>2, FlaggedRows DEF FInv
  <2> QED
    BY <1>1, <2>1, <2>2
<1>4. MInv'
  BY <1>1, <1>2, <1>3, MoneyCommits DEF MInv, Amounts
<1>5. \A s \in Tracks : Live(s)' => Live(s)
  BY <1>2 DEF Live, Exists
<1> QED
  BY <1>2, <1>4, <1>5, NoInvoice DEF MInv

\* The termins of a plan are new invoices of one project.
LEMMA MoneyPlans ==
    ASSUME FInv, MInv, NEW u \in Users, WritePlan(u)
    PROVE  MInv' /\ Fitted
<1>0. PICK p, more, n, New : p = task[u].id /\ more = task[u].more /\ n = Len(more) /\ New = last + 1 .. last + n
  OBVIOUS
<1> DEFINE cv == IF task[u].cv >= 0 THEN task[u].cv ELSE project[p].contract
           row(t) == NewTrack(task[u].co, [NoForm EXCEPT !.project = p, !.amount = more[t - last]])
<1>1. /\ Commit(u) /\ task[u].pc = "plan" /\ last + n <= MaxTracks /\ last' = last + n
      /\ \A i \in 1..n : (cv > 0 /\ (task[u].cv >= 0 \/ i > 1)) => invoiced_total(p, {}) + Total(more, i) <= cv
      /\ project' = [project EXCEPT ![p].contract = cv]
      /\ track' = [t \in Tracks |-> IF t \in New THEN row(t) ELSE track[t]]
  BY <1>0 DEF WritePlan, At
<1>2. p \in Projects /\ p # 0
  <2>1. p \in Projects
    BY <1>0, <1>1 DEF FInv, Asked
  <2> QED
    BY <2>1 DEF Projects
<1>3. more \in Seq(Nat) /\ n \in Nat /\ task[u].cv \in Nat \cup {-1} /\ last \in Nat
  <2>1. more \in Seq(Nat) /\ task[u].cv \in Nat \cup {-1} /\ last \in Nat
    BY <1>0, <1>1 DEF MInv, Amounts
  <2> QED
    BY <1>0, <2>1
<1>4. cv \in Nat
  BY <1>2, <1>3 DEF MInv, Amounts
<1>5. \A t : row(t).project = p /\ row(t).amount = more[t - last]
  BY DEF NewTrack, NoForm
<1> HIDE DEF cv, row
<1>6. New \in SUBSET Tracks /\ \A t \in New : t - last \in 1..n
  <2>1. MaxTracks \in Nat /\ last + n <= MaxTracks
    BY <1>1, BoundAssumption
  <2>2. \A k, m, t \in Int : k \in Nat /\ t \in k + 1 .. k + m => t >= 1 /\ t <= k + m /\ t - k \in 1..m
    OBVIOUS
  <2>3. last \in Int /\ n \in Int /\ New \subseteq Int
    BY <1>0, <1>3
  <2>4. \A t \in New : t >= 1 /\ t <= last + n /\ t - last \in 1..n
    BY <1>0, <1>3, <2>2, <2>3
  <2>5. \A t \in New : t \in 1..MaxTracks
    BY <2>1, <2>3, <2>4
  <2> QED
    BY <2>4, <2>5 DEF Tracks
<1>7. \A i \in 1..n : more[i] \in Nat
  BY <1>0, <1>3
<1>8. \A t \in Tracks : track'[t] = IF t \in New THEN row(t) ELSE track[t]
  BY <1>1
<1>9. MInv' /\ task'[u].pc = "idle"
  <2>1. \A t \in Tracks : track'[t].amount \in Nat
    BY <1>5, <1>6, <1>7, <1>8 DEF MInv, Amounts
  <2>2. \A q \in Projects : project'[q].contract \in Nat
    BY <1>1, <1>4 DEF FInv, Linked, NoProject, MInv, Amounts
  <2>3. last' \in Nat
    BY <1>1, <1>3
  <2> QED
    BY <1>1, <2>1, <2>2, <2>3, MoneyCommits
<1> SUFFICES ASSUME NEW q \in Projects,
                    invoiced_total(q, {})' > invoiced_total(q, {}), project'[q].contract > 0
             PROVE  \/ invoiced_total(q, {})' <= project'[q].contract
                    \/ \E w \in stale : /\ task'[w].pc = "idle"
                                        /\ \/ task[w].pc \in {"create", "status", "advance"}
                                           \/ task[w].pc = "plan" /\ task[w].cv < 0 /\ Len(task[w].more) = 1
  BY <1>9 DEF Fitted
<1>10. \A t \in InvoicesOf(q)' \ New : t \in InvoicesOf(q) /\ track'[t].amount = track[t].amount
  BY <1>8 DEF InvoicesOf, Live, Exists
<1>11. InvoicesOf(q)' \cap New # {}
  BY <1>9, <1>10, TotalShrinks DEF MInv
<1>12. q = p /\ n # 0
  <2>1. PICK t \in New : t \in InvoicesOf(q)'
    BY <1>11
  <2>2. track'[t].project = q
    BY <2>1 DEF InvoicesOf
  <2>3. q = p
    BY <1>5, <1>6, <1>8, <2>1, <2>2
  <2>4. n # 0
    BY <1>0, <1>3, <2>1
  <2> QED
    BY <2>3, <2>4
<1>13. /\ invoiced_total(p, {})' \in Nat
       /\ invoiced_total(p, {})' <= invoiced_total(p, New) + Worth(New)'
  BY <1>6, <1>9, <1>10, <1>12, TotalAfter DEF MInv
<1>14. Worth(New)' = Total(more, n)
  <2> PICK g : g = [t \in Tracks |-> track'[t].amount]
    OBVIOUS
  <2>1. \A i \in 1..n : more[i] \in Int /\ g[last + i] = more[i]
    <3> TAKE i \in 1..n
    <3>1. last + i \in New /\ (last + i) - last = i
      BY <1>0, <1>3
    <3> QED
      BY <1>5, <1>6, <1>7, <1>8, <3>1
  <2> DEFINE Copies(f, h, k, m) == \A i \in 1..m : h[i] \in Int /\ f[k + i] = h[i]
             SameSum(f, h, k, m) ==
                 SumFunctionOnSet(f, k + 1 .. k + m) = SumFunctionOnSet(h, 1..m)
  <2>2. \A f, h : \A k \in Int, m \in Nat : Copies(f, h, k, m) => SameSum(f, h, k, m)
    BY SumShift
  <2>3. Copies(g, more, last, n)
    BY <2>1
  <2> HIDE DEF Copies, SameSum
  <2>4. SameSum(g, more, last, n)
    BY <1>3, <2>2, <2>3
  <2> QED
    BY <1>0, <2>4 DEF SameSum, Worth, Total
<1>15. /\ invoiced_total(p, New) \in Nat /\ invoiced_total(p, {}) \in Nat
       /\ invoiced_total(p, New) <= invoiced_total(p, {})
  <2>1. InvoicesOf(p) \ New \in SUBSET InvoicesOf(p) /\ InvoicesOf(p) \in SUBSET Tracks
    BY DEF InvoicesOf
  <2>2. InvoicesOf(p) \ {} = InvoicesOf(p)
    OBVIOUS
  <2>3. /\ Worth(InvoicesOf(p) \ New) \in Nat
        /\ Worth(InvoicesOf(p) \ New) <= Worth(InvoicesOf(p))
    BY <2>1, WorthOfPart DEF MInv
  <2>4. Worth(InvoicesOf(p)) \in Nat
    BY <2>1, WorthOfPart DEF MInv
  <2> QED
    BY <2>2, <2>3, <2>4 DEF invoiced_total
<1>16. Total(more, n) \in Nat
  <2> PICK S : S = 1..n
    OBVIOUS
  <2>1. IsFiniteSet(S)
    BY <1>3, FS_Interval
  <2>2. SumFunctionOnSet(more, S) \in Nat
    BY <1>7, <2>1, SumNat
  <2> QED
    BY <2>2 DEF Total
<1>17. project'[p].contract = cv
  BY <1>1, <1>2 DEF FInv, Linked, NoProject
<1>18. \A a, b, c, d, e \in Nat : a <= b + d /\ b <= c /\ c + d <= e => a <= e
  OBVIOUS
<1>19. CASE task[u].cv >= 0 \/ n > 1
  <2>1. n \in 1..n
    BY <1>3, <1>12
  <2>2. cv > 0
    BY <1>12, <1>17
  <2>3. task[u].cv >= 0 \/ n > 1
    BY <1>19
  <2>4. invoiced_total(p, {}) + Total(more, n) <= cv
    BY <1>1, <2>1, <2>2, <2>3
  <2> QED
    BY <1>4, <1>12, <1>13, <1>14, <1>15, <1>16, <1>17, <1>18, <2>4
<1>20. CASE ~(task[u].cv >= 0 \/ n > 1) /\ u \notin stale
  <2>1. n = 1 /\ task[u].cv < 0 /\ more # <<>>
    <3>1. n \in Nat /\ n # 0 /\ ~(n > 1) /\ ~(task[u].cv >= 0)
      BY <1>3, <1>12, <1>20
    <3>2. n = 1 /\ task[u].cv < 0
      BY <1>3, <3>1
    <3>3. Len(more) = 1
      BY <1>0, <3>2
    <3>4. \A s : Len(s) = 1 => s # <<>>
      OBVIOUS
    <3>5. more # <<>>
      BY ONLY <3>3, <3>4
    <3> QED
      BY <3>2, <3>5
  <2>2. Fits(p, more[1], {}, "active")
    BY <1>0, <1>1, <1>20, <2>1 DEF MInv, Compared
  <2>3. cv = project[p].contract
    BY <1>20 DEF cv
  <2>4. invoiced_total(p, {}) + more[1] <= cv
    BY <1>2, <1>12, <1>17, <2>2, <2>3 DEF Fits
  <2>5. Total(more, n) = more[1]
    <3>1. more[1] \in Int
      BY <1>7, <2>1
    <3> PICK S : S = 1..1
      OBVIOUS
    <3>2. SumFunctionOnSet(more, S) = more[1]
      <4>1. S = {1}
        OBVIOUS
      <4>2. IsFiniteSet(S)
        BY <4>1, FS_Singleton
      <4>3. 1 \in S /\ \A x \in S \ {1} : more[x] = 0
        BY <4>1
      <4> QED
        BY <3>1, <4>2, <4>3, SumSingle
    <3> QED
      BY <2>1, <3>2 DEF Total
  <2>6. invoiced_total(p, {}) + Total(more, n) <= cv
    BY <2>4, <2>5
  <2> QED
    BY <1>4, <1>12, <1>13, <1>14, <1>15, <1>16, <1>17, <1>18, <2>6
<1>21. CASE ~(task[u].cv >= 0 \/ n > 1) /\ u \in stale
  <2>1. n = 1 /\ task[u].cv < 0
    BY <1>3, <1>12, <1>21
  <2> QED
    BY <1>0, <1>1, <1>9, <1>21, <2>1
<1> QED
  BY <1>19, <1>20, <1>21

-----------------------------------------------------------------------------
(* Invoices: the specification.                                            *)

LEMMA MoneyStarts == Init => MInv
<1> SUFFICES ASSUME Init PROVE MInv
  OBVIOUS
<1>1. PICK db \in Databases :
        /\ project = [p \in Projects |-> IF p <= lastProject THEN db.projects[p] ELSE NoProject]
        /\ track = [t \in Tracks |-> IF t <= last THEN db.tracks[t] ELSE NoTrack]
        /\ lastProject = Len(db.projects) /\ last = Len(db.tracks)
  BY DEF Init
<1>2. db.projects \in Seq(ProjectRow) /\ db.tracks \in Seq(TrackRow)
  BY DatabaseAssumption
<1>3. Len(db.projects) \in Nat /\ Len(db.tracks) \in Nat
  BY <1>2
<1>4. \A p \in Projects : project[p].contract \in Nat
  <2> SUFFICES ASSUME NEW p \in Projects PROVE project[p].contract \in Nat
    OBVIOUS
  <2>1. CASE p <= lastProject
    <3>1. p \in 1..Len(db.projects) /\ project[p] = db.projects[p]
      BY <1>1, <1>3, <2>1, BoundAssumption DEF Projects
    <3>2. project[p] \in ProjectRow
      BY <1>2, <3>1
    <3> QED
      BY <3>2 DEF ProjectRow
  <2>2. CASE ~(p <= lastProject)
    BY <1>1, <2>2 DEF NoProject
  <2> QED
    BY <2>1, <2>2
<1>5. \A t \in Tracks : track[t].amount \in Nat
  <2> SUFFICES ASSUME NEW t \in Tracks PROVE track[t].amount \in Nat
    OBVIOUS
  <2>1. CASE t <= last
    <3>1. t \in 1..Len(db.tracks) /\ track[t] = db.tracks[t]
      BY <1>1, <1>3, <2>1, BoundAssumption DEF Tracks
    <3>2. track[t] \in TrackRow
      BY <1>2, <3>1
    <3> QED
      BY <3>2 DEF TrackRow
  <2>2. CASE ~(t <= last)
    BY <1>1, <2>2 DEF NoTrack
  <2> QED
    BY <2>1, <2>2
<1>6. \A u \in Users : task[u].pc = "idle"
  BY DEF Init, Idle
<1> QED
  BY <1>1, <1>3, <1>4, <1>5, <1>6 DEF MInv, Amounts, Compared

LEMMA MoneyReads ==
    ASSUME FInv, MInv, NEW u \in Users,
           \/ \E c \in Companies, f \in TrackForms : ReadCreate(u, c, f)
           \/ \E p \in Projects, cv \in Contracts \cup {-1}, s \in Termins : ReadPlan(u, p, cv, s)
           \/ \E p \in Projects : ReadFix(u, "done", p, 0)
           \/ \E t \in Tracks, s \in Statuses : ReadStatus(u, t, s)
           \/ \E t \in Tracks, ph \in Phases : ReadAdvance(u, t, ph)
           \/ \E t \in Tracks, kind \in {"company", "sector"} : ReadFix(u, kind, 0, t)
    PROVE  MInv' /\ Fitted
<1>1. CASE \E c \in Companies, f \in TrackForms : ReadCreate(u, c, f)
  <2> PICK c \in Companies, f \in TrackForms : ReadCreate(u, c, f)
    BY <1>1
  <2> DEFINE t == [Idle EXCEPT !.pc = "create", !.co = c, !.form = f]
  <2>1. Begin(u, t) /\ t.pc = "create" /\ t.form = f /\ Fits(f.project, f.amount, {}, f.status)
    BY DEF ReadCreate, Idle
  <2> HIDE DEF t
  <2>2. AmountsOf(t) /\ ComparedOf(t)
    BY <2>1 DEF AmountsOf, ComparedOf
  <2> QED
    BY <2>1, <2>2, MoneyBegins
<1>2. CASE \E p \in Projects, cv \in Contracts \cup {-1}, s \in Termins : ReadPlan(u, p, cv, s)
  <2> PICK p \in Projects, cv \in Contracts \cup {-1}, s \in Termins : ReadPlan(u, p, cv, s)
    BY <1>2
  <2> DEFINE t == [Idle EXCEPT !.pc = "plan", !.id = p, !.co = project[p].company, !.cv = cv, !.more = s]
  <2>1. /\ Begin(u, t) /\ t.pc = "plan" /\ t.id = p /\ t.cv = cv /\ t.more = s
        /\ cv < 0 /\ s # <<>> => Fits(p, s[1], {}, "active")
    BY DEF ReadPlan, Idle
  <2>2. cv \in Nat \cup {-1} /\ s \in Seq(Nat)
    <3>1. s \in Seq(Nat \ {0})
      BY MoneyAssumption
    <3>2. s \in Seq(Nat)
      BY <3>1
    <3> QED
      BY <3>2, MoneyAssumption
  <2> HIDE DEF t
  <2>3. AmountsOf(t) /\ ComparedOf(t)
    BY <2>1, <2>2 DEF AmountsOf, ComparedOf
  <2> QED
    BY <2>1, <2>3, MoneyBegins
<1>3. CASE \E p \in Projects : ReadFix(u, "done", p, 0)
  <2> PICK p \in Projects : ReadFix(u, "done", p, 0)
    BY <1>3
  <2> DEFINE t == [Idle EXCEPT !.pc = "done", !.id = p]
  <2>1. Begin(u, t) /\ t.pc = "done"
    BY DEF ReadFix, Idle
  <2> HIDE DEF t
  <2>2. AmountsOf(t) /\ ComparedOf(t)
    BY <2>1 DEF AmountsOf, ComparedOf
  <2> QED
    BY <2>1, <2>2, MoneyBegins
<1>4. CASE \E t \in Tracks, s \in Statuses : ReadStatus(u, t, s)
  <2> PICK t \in Tracks, s \in Statuses : ReadStatus(u, t, s)
    BY <1>4
  <2> DEFINE r == [Idle EXCEPT !.pc = "status", !.id = t, !.form.status = s]
  <2>1. /\ Begin(u, r) /\ r.pc = "status" /\ r.id = t /\ r.form.status = s
        /\ track[t].status = "cancelled" => Fits(track[t].project, track[t].amount, {t}, s)
    BY DEF ReadStatus, Idle, NoForm
  <2> HIDE DEF r
  <2>2. AmountsOf(r) /\ ComparedOf(r)
    BY <2>1 DEF AmountsOf, ComparedOf
  <2> QED
    BY <2>1, <2>2, MoneyBegins
<1>5. CASE \E t \in Tracks, ph \in Phases : ReadAdvance(u, t, ph)
  <2> PICK t \in Tracks, ph \in Phases : ReadAdvance(u, t, ph)
    BY <1>5
  <2> DEFINE r == [Idle EXCEPT !.pc = "advance", !.id = t, !.from = track[t].phase, !.form.phase = ph,
                               !.had = stage[t][track[t].phase] # <<>>]
  <2>1. Begin(u, r) /\ r.pc = "advance" /\ r.id = t /\ track[t].status # "cancelled"
    BY DEF ReadAdvance, Idle
  <2> HIDE DEF r
  <2>2. AmountsOf(r) /\ ComparedOf(r)
    BY <2>1 DEF AmountsOf, ComparedOf
  <2> QED
    BY <2>1, <2>2, MoneyBegins
<1>6. CASE \E t \in Tracks, kind \in {"company", "sector"} : ReadFix(u, kind, 0, t)
  <2> PICK t \in Tracks, kind \in {"company", "sector"} : ReadFix(u, kind, 0, t)
    BY <1>6
  <2> DEFINE q == track[t].project
             r == [Idle EXCEPT !.pc = kind, !.id = t, !.co = project[q].company, !.form.project = q,
                               !.form.flag = IF project[q].sector = NoSector THEN track[t].sector ELSE NoSector]
  <2>1. Begin(u, r) /\ r.pc \in {"company", "sector"}
    BY DEF ReadFix, Idle
  <2> HIDE DEF r
  <2>2. AmountsOf(r) /\ ComparedOf(r)
    BY <2>1 DEF AmountsOf, ComparedOf
  <2> QED
    BY <2>1, <2>2, MoneyBegins
<1> QED
  BY <1>1, <1>2, <1>3, <1>4, <1>5, <1>6

LEMMA MoneyInductive == FInv /\ MInv /\ [Next]_vars => MInv' /\ Fitted
<1> SUFFICES ASSUME FInv, MInv, [Next]_vars PROVE MInv' /\ Fitted
  OBVIOUS
<1>1. CASE UNCHANGED vars
  <2>1. UNCHANGED <<project, track, last, task, stale>>
    BY <1>1 DEF vars
  <2>2. Amounts'
    BY <2>1 DEF MInv, Amounts
  <2>3. \A p, amount, except, status : Fits(p, amount, except, status) => Fits(p, amount, except, status)'
    BY <2>1, FitsStays
  <2>4. Compared'
    BY <2>1, <2>3 DEF MInv, Compared
  <2> QED
    BY <2>1, <2>2, <2>4, NoInvoice DEF MInv, Live, Exists
<1>2. ASSUME NEW u \in Users, NEW c \in Companies,
             \/ \E f \in ProjectForms : CreateProject(u, c, f)
             \/ \E f \in TrackForms : ReadCreate(u, c, f)
      PROVE  MInv' /\ Fitted
  BY <1>2, MoneyEdits, MoneyReads
<1>3. ASSUME NEW u \in Users, NEW p \in Projects,
             \/ \E f \in ProjectForms : UpdateProject(u, p, f)
             \/ \E flag \in Flags : SetProjectType(u, p, flag)
             \/ DeleteProject(u, p)
             \/ \E cv \in Contracts \cup {-1}, s \in Termins : ReadPlan(u, p, cv, s)
             \/ ReadFix(u, "done", p, 0)
      PROVE  MInv' /\ Fitted
  BY <1>3, MoneyEdits, MoneyFlags, MoneyDrops, MoneyReads
<1>4. ASSUME NEW u \in Users, NEW t \in Tracks,
             \/ \E f \in TrackForms : UpdateTrack(u, t, f)
             \/ \E s \in Statuses : ReadStatus(u, t, s)
             \/ \E ph \in Phases : ReadAdvance(u, t, ph)
             \/ \E kind \in {"company", "sector"} : ReadFix(u, kind, 0, t)
             \/ DeleteTrack(u, t)
      PROVE  MInv' /\ Fitted
  BY <1>4, MoneyUpdates, MoneyReads, MoneyDeletes
<1> QED
  BY <1>1, <1>2, <1>3, <1>4, MoneyInserts, MoneyStatus, MoneyAdvances, MoneyPlans, MoneyFixes, MoneyAborts DEF Next

\* The invoices of a project pass its contract only by a request that another
\* overtook, and never by one that compares after its first write: an edit of a
\* track, a plan of several termins or with a contract of its own (check_room()).
THEOREM InvoicesStay == Spec => InvoicesFit
<1>1. Init => FInv /\ MInv
  BY FixStarts, MoneyStarts
<1>2. FInv /\ MInv /\ [Next]_vars => FInv' /\ MInv'
  BY FixInductive, MoneyInductive
<1>3. FInv /\ MInv /\ [Next]_vars => [Fitted]_vars
  BY MoneyInductive
<1> QED
  BY <1>1, <1>2, <1>3, PTL DEF Spec, InvoicesFit, Fitted

=============================================================================
