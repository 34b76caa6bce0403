------------------------------ MODULE Tracker -------------------------------
(***************************************************************************)
(* Contracts and the Money Tracker of apps/erp (server.py, harmony.py):    *)
(* a project's contract, the invoice tracks that bill it and their way     *)
(* through the phases, the rule that the invoices of a project stay within *)
(* its contract, the harmonization check and its one-click repairs.        *)
(*                                                                         *)
(* As in Plan and Books, what a handler SELECTs before its first write is  *)
(* autocommitted and may be stale when it writes; from that write to       *)
(* commit() it is alone.  A broken foreign key or a refusal rolls back.    *)
(*                                                                         *)
(* Amounts are whole rupiah, so the tolerance of half a rupiah is none.    *)
(* Posted revenue is a constant of each project.  Of a project's statuses  *)
(* only "completed" is told apart.                                         *)
(*                                                                         *)
(* Bounds: MaxProjects and MaxTracks rows are ever inserted.               *)
(***************************************************************************)
EXTENDS Integers, FiniteSets, Sequences, Functions

CONSTANTS
    Users, Companies, Sectors, NoSector,
    Contracts,          \* contract values people type, 0 for none
    TrackForms,         \* what people fill in for a track
    ProjectForms,       \* what people fill in for a project
    Termins,            \* lists of amounts planned at once
    Booked,             \* revenue posted on each project
    Statuses,           \* statuses people set by hand
    Repairs,            \* repairs people ask for
    Databases,          \* what is there at the start: projects and tracks
    LastPhase, MaxProjects, MaxTracks

Projects == 1..MaxProjects
Tracks == 1..MaxTracks
Phases == 1..LastPhase
Flags == Sectors \cup {NoSector}
Keep == "keep"                          \* the form does not name a sector
NoCompany == "none"
MONEY_STATUSES == {"prospectus", "active", "done", "on_hold", "cancelled"}

ASSUME BoundAssumption == MaxProjects \in Nat /\ MaxTracks \in Nat /\ LastPhase \in Nat \ {0}
ASSUME SectorAssumption == NoSector \notin Sectors /\ Keep \notin Flags
ASSUME CompanyAssumption == NoCompany \notin Companies
ASSUME MoneyAssumption == Contracts \subseteq Nat /\ Booked \in [Projects -> Nat]
                          /\ Termins \subseteq Seq(Nat \ {0})
ASSUME FormAssumption ==
    /\ TrackForms \subseteq [project : Projects \cup {0}, amount : Nat, phase : Phases,
                             status : MONEY_STATUSES, flag : Flags \cup {Keep}]
    /\ ProjectForms \subseteq [done : BOOLEAN, contract : Contracts, flag : Flags \cup {Keep}]
    /\ Statuses \subseteq MONEY_STATUSES /\ Repairs \subseteq {"company", "sector", "done"}

TrackRow == [company : Companies, project : Projects \cup {0}, amount : Nat,
             phase : Phases, status : MONEY_STATUSES, sector : Flags]
ProjectRow == [company : Companies, contract : Nat, done : BOOLEAN, sector : Flags]
ASSUME DatabaseAssumption ==
    \A db \in Databases : /\ db.projects \in Seq(ProjectRow) /\ Len(db.projects) <= MaxProjects
                          /\ db.tracks \in Seq(TrackRow) /\ Len(db.tracks) <= MaxTracks
                          /\ \A i \in 1..Len(db.tracks) : db.tracks[i].project <= Len(db.projects)

VARIABLES
    project,    \* projects by id
    lastProject,
    track,      \* money_tracker by id; project 0 for none
    last,
    stage,      \* money_tracker_stages: the rows of each phase of each track
    task,       \* the request each user is waiting for
    stale,      \* users whose request began before the tables changed
    handled     \* tracks whose phase was typed, or advanced by a stale request

vars == <<project, lastProject, track, last, stage, task, stale, handled>>

NoProject == [company |-> NoCompany, contract |-> 0, done |-> FALSE, sector |-> NoSector]
NoTrack == [company |-> NoCompany, project |-> 0, amount |-> 0, phase |-> 1,
            status |-> "cancelled", sector |-> NoSector]
NoForm == [project |-> 0, amount |-> 0, phase |-> 1, status |-> "active", flag |-> Keep]
NoStages == [ph \in Phases |-> <<>>]
Opened(ph) == [NoStages EXCEPT ![ph] = <<"open">>]

Idle == [pc |-> "idle", id |-> 0, co |-> NoCompany, form |-> NoForm, from |-> 1, had |-> FALSE,
         cv |-> -1, more |-> <<>>]

At(u, pc) == task[u].pc = pc
Begin(u, t) == At(u, "idle") /\ task' = [task EXCEPT ![u] = t]
               /\ UNCHANGED <<project, lastProject, track, last, stage, stale, handled>>

\* What the others have read is no longer true.
Commit(u) ==
    /\ task' = [task EXCEPT ![u] = Idle]
    /\ stale' = IF <<project, track, stage>>' = <<project, track, stage>> THEN stale \ {u}
                ELSE {w \in Users \ {u} : ~At(w, "idle")}

Known(p) == project[p].company # NoCompany
Exists(t) == track[t].company # NoCompany
Live(t) == Exists(t) /\ track[t].status # "cancelled"
Worth(S) == SumFunctionOnSet([t \in Tracks |-> track[t].amount], S)
InvoicesOf(p) == {t \in Tracks : Live(t) /\ track[t].project = p}
invoiced_total(p, except) == Worth(InvoicesOf(p) \ except)

\* check_room()
Fits(p, amount, except, status) ==
    p # 0 /\ status # "cancelled" =>
      /\ Known(p)
      /\ project[p].contract > 0 => invoiced_total(p, except) + amount <= project[p].contract

Flagged(p, flag) == [project EXCEPT ![p].sector = flag]

\* A database may hold tracks from before the check, of any company and phase.
Init ==
    /\ \E db \in Databases :
         /\ lastProject = Len(db.projects) /\ last = Len(db.tracks)
         /\ project = [p \in Projects |-> IF p <= lastProject THEN db.projects[p] ELSE NoProject]
         /\ track = [t \in Tracks |-> IF t <= last THEN db.tracks[t] ELSE NoTrack]
         /\ stage = [t \in Tracks |-> IF t <= last THEN Opened(track[t].phase) ELSE NoStages]
    /\ task = [u \in Users |-> Idle]
    /\ stale = {} /\ handled = {}

-----------------------------------------------------------------------------
(* Projects.  Their handlers write without having read anything but that   *)
(* the project exists.                                                     *)

CreateProject(u, c, f) ==
    /\ At(u, "idle") /\ lastProject < MaxProjects
    /\ lastProject' = lastProject + 1
    /\ project' = [project EXCEPT ![lastProject + 1] =
         [company |-> c, contract |-> f.contract, done |-> f.done,
          sector |-> IF f.flag = Keep THEN NoSector ELSE f.flag]]
    /\ UNCHANGED <<track, last, stage, handled>>
    /\ Commit(u)

\* The contract is overwritten, whatever has been invoiced.
UpdateProject(u, p, f) ==
    /\ At(u, "idle") /\ Known(p)
    /\ project' = [project EXCEPT ![p] = [company |-> @.company, contract |-> f.contract, done |-> f.done,
                                          sector |-> IF f.flag = Keep THEN @.sector ELSE f.flag]]
    /\ UNCHANGED <<lastProject, track, last, stage, handled>>
    /\ Commit(u)

SetProjectType(u, p, flag) ==
    /\ At(u, "idle") /\ Known(p)
    /\ project' = Flagged(p, flag)
    /\ UNCHANGED <<lastProject, track, last, stage, handled>>
    /\ Commit(u)

\* A project with journal lines stays; its tracks stay without it.
DeleteProject(u, p) ==
    /\ At(u, "idle") /\ Known(p) /\ Booked[p] = 0
    /\ project' = [project EXCEPT ![p] = NoProject]
    /\ track' = [t \in Tracks |-> IF track[t].project = p THEN [track[t] EXCEPT !.project = 0] ELSE track[t]]
    /\ UNCHANGED <<lastProject, last, stage, handled>>
    /\ Commit(u)

-----------------------------------------------------------------------------
(* Tracks.                                                                 *)

NewTrack(c, f) == [company |-> c, project |-> f.project, amount |-> f.amount, phase |-> f.phase,
                   status |-> f.status, sector |-> IF f.flag = Keep THEN NoSector ELSE f.flag]

\* create_money_tracker() compares with the contract in autocommit, ...
ReadCreate(u, c, f) ==
    /\ last < MaxTracks
    /\ f.project # 0 => Known(f.project) /\ c = project[f.project].company
    /\ Fits(f.project, f.amount, {}, f.status)
    /\ Begin(u, [Idle EXCEPT !.pc = "create", !.co = c, !.form = f])

\* ... and inserts the track, flags its project and opens its first stage.
InsertTrack(u) ==
    LET f == task[u].form
        p == f.project
    IN
    /\ At(u, "create") /\ last < MaxTracks
    /\ p # 0 => Known(p)
    /\ last' = last + 1
    /\ track' = [track EXCEPT ![last + 1] = NewTrack(task[u].co, f)]
    /\ stage' = [stage EXCEPT ![last + 1] = Opened(f.phase)]
    /\ project' = IF p # 0 /\ f.flag # Keep THEN Flagged(p, f.flag) ELSE project
    /\ UNCHANGED <<lastProject, handled>>
    /\ Commit(u)

\* Mutant: an edit is compared with the contract only when it moves the track.
UpdateTrackUncompared(u, t, f) ==
    LET p == f.project IN
    /\ At(u, "idle") /\ Exists(t)
    /\ p # 0 => Known(p)
    /\ p # track[t].project => Fits(p, f.amount, {t}, f.status)
    /\ track' = [track EXCEPT ![t] = NewTrack(IF p = 0 THEN track[t].company ELSE project[p].company, f)]
    /\ handled' = IF f.phase # track[t].phase THEN handled \cup {t} ELSE handled
    /\ UNCHANGED <<project, lastProject, last, stage>>
    /\ Commit(u)

\* update_money_tracker() writes the project's company first, so that it is
\* alone when it compares with the contract.  The phase moves and its stages
\* do not.  A flag the track has goes to a project that has none; of a track
\* that was deleted in between only the flag is left.
UpdateTrack(u, t, f) ==
    LET p == f.project
        flag == IF f.flag = Keep THEN track[t].sector ELSE f.flag
        hands == p # 0 /\ (f.flag # Keep \/ (flag # NoSector /\ project[p].sector = NoSector))
        row == [NewTrack(IF p = 0 THEN track[t].company ELSE project[p].company, f) EXCEPT !.sector = flag]
    IN
    /\ At(u, "idle") /\ t <= last
    /\ ~Exists(t) => f.flag # Keep
    /\ p # 0 => Known(p)
    /\ Fits(p, f.amount, {t}, f.status)
    /\ track' = IF Exists(t) THEN [track EXCEPT ![t] = row] ELSE track
    /\ project' = IF hands THEN Flagged(p, flag) ELSE project
    /\ handled' = IF f.phase # track[t].phase THEN handled \cup {t} ELSE handled
    /\ UNCHANGED <<lastProject, last, stage>>
    /\ Commit(u)

\* set_money_tracker_status() compares with the contract only a track that it
\* reads as cancelled.
ReadStatus(u, t, s) ==
    /\ Exists(t)
    /\ track[t].status = "cancelled" => Fits(track[t].project, track[t].amount, {t}, s)
    /\ Begin(u, [Idle EXCEPT !.pc = "status", !.id = t, !.form.status = s])

WriteStatus(u) ==
    LET t == task[u].id IN
    /\ At(u, "status")
    /\ track' = IF Exists(t) THEN [track EXCEPT ![t].status = task[u].form.status] ELSE track
    /\ UNCHANGED <<project, lastProject, last, stage, handled>>
    /\ Commit(u)

DeleteTrack(u, t) ==
    /\ At(u, "idle") /\ Exists(t)
    /\ track' = [track EXCEPT ![t] = NoTrack]
    /\ stage' = [stage EXCEPT ![t] = NoStages]
    /\ UNCHANGED <<project, lastProject, last, handled>>
    /\ Commit(u)

\* advance_money_tracker() reads phase and status, and whether the phase has a
\* stage; a parked track stays where it is, ...
ReadAdvance(u, t, ph) ==
    /\ Exists(t) /\ track[t].status \notin {"on_hold", "cancelled", "prospectus"}
    /\ Begin(u, [Idle EXCEPT !.pc = "advance", !.id = t, !.from = track[t].phase, !.form.phase = ph,
                          !.had = stage[t][track[t].phase] # <<>>])

Closed(s, ph, had) == [s EXCEPT ![ph] = IF had THEN <<"closed">> \o Tail(@) ELSE Append(@, "closed")]
Reopened(s, ph) == [s EXCEPT ![ph] = IF @ = <<>> THEN <<"open">> ELSE <<"open">> \o Tail(@)]

\* Mutant: a stage that is there already stays as it is.
WriteAdvanceOpenFirst(u) ==
    LET a == task[u]
        t == a.id
        next == a.form.phase
    IN
    /\ At(u, "advance") /\ Exists(t)
    /\ stage' = [stage EXCEPT ![t] = IF next = a.from THEN @ ELSE Reopened(@, next)]
    /\ track' = [track EXCEPT ![t].phase = next,
                              ![t].status = IF next # a.from /\ next = LastPhase THEN "done" ELSE @]
    /\ handled' = IF u \in stale THEN handled \cup {t} ELSE handled
    /\ UNCHANGED <<project, lastProject, last>>
    /\ Commit(u)

\* ... closes the stage it read, opens or opens again the one it moves to, and
\* at the last phase sets the track to done.
WriteAdvance(u) ==
    LET a == task[u]
        t == a.id
        next == a.form.phase
        closed == Closed(stage[t], a.from, a.had)
    IN
    /\ At(u, "advance") /\ Exists(t)
    /\ stage' = [stage EXCEPT ![t] = IF next = a.from THEN closed ELSE Reopened(closed, next)]
    /\ track' = IF next = a.from THEN track
                ELSE [track EXCEPT ![t].phase = next, ![t].status = IF next = LastPhase THEN "done" ELSE @]
    /\ handled' = IF u \in stale THEN handled \cup {t} ELSE handled
    /\ UNCHANGED <<project, lastProject, last>>
    /\ Commit(u)

-----------------------------------------------------------------------------
(* Planning a project's invoices.                                          *)

Total(amounts, n) == SumFunctionOnSet(amounts, 1..n)

\* plan_project_invoicing() reads what is billed before it sets a contract
\* value (-1: it does not); without one its first termin is compared in
\* autocommit.
ReadPlan(u, p, cv, amounts) ==
    /\ Known(p) /\ last + Len(amounts) <= MaxTracks
    /\ cv >= 0 => cv >= invoiced_total(p, {})
    /\ cv < 0 /\ amounts # <<>> => project[p].contract # 0 /\ Fits(p, amounts[1], {}, "active")
    /\ Begin(u, [Idle EXCEPT !.pc = "plan", !.id = p, !.co = project[p].company, !.cv = cv, !.more = amounts])

\* All termins or none.
WritePlan(u) ==
    LET a == task[u]
        p == a.id
        n == Len(a.more)
        cv == IF a.cv >= 0 THEN a.cv ELSE project[p].contract
    IN
    /\ At(u, "plan") /\ Known(p) /\ last + n <= MaxTracks
    /\ a.cv >= 0 /\ n > 0 => cv # 0
    /\ \A i \in 1..n : (cv > 0 /\ (a.cv >= 0 \/ i > 1)) => invoiced_total(p, {}) + Total(a.more, i) <= cv
    /\ project' = [project EXCEPT ![p].contract = cv]
    /\ track' = [t \in Tracks |-> IF t \in last + 1 .. last + n
                   THEN NewTrack(a.co, [NoForm EXCEPT !.project = p, !.amount = a.more[t - last]]) ELSE track[t]]
    /\ stage' = [t \in Tracks |-> IF t \in last + 1 .. last + n THEN Opened(1) ELSE stage[t]]
    /\ last' = last + n
    /\ UNCHANGED <<lastProject, handled>>
    /\ Commit(u)

-----------------------------------------------------------------------------
(* The harmonization check, for the companies of a scope.                  *)

\* Mutant: the tracks of the scope's companies.
TracksOwnedIn(C) == {t \in Tracks : Live(t) /\ track[t].company \in C}

\* Not only the tracks of its companies: those of their projects as well.
TracksIn(C) ==
    {t \in Tracks : Live(t) /\ (track[t].company \in C \/ (track[t].project # 0 /\ project[track[t].project].company \in C))}

Issue(kind, p, t) == [kind |-> kind, project |-> p, track |-> t]

ProjectIssues(p, mine) ==
    LET cv == project[p].contract
        invoiced == Worth(mine)
        received == Worth({t \in mine : track[t].status = "done"})
        open == {t \in mine : track[t].status # "done"}
        told(kind, when) == IF when THEN {Issue(kind, p, 0)} ELSE {}
    IN  told("no_contract", cv = 0 /\ mine # {})
        \cup told("not_set", cv = 0 /\ mine = {})
        \cup told("not_invoiced", cv > 0 /\ mine = {})
        \cup told("under", cv > 0 /\ mine # {} /\ invoiced < cv)
        \cup told("over", cv > 0 /\ mine # {} /\ invoiced > cv)
        \cup told("done_open", project[p].done /\ open # {})
        \cup told("paid_not_done", ~project[p].done /\ mine # {} /\ open = {} /\ cv > 0 /\ received >= cv)
        \cup told("unbooked", received > Booked[p])

TrackIssues(t) ==
    LET p == track[t].project IN
    IF p = 0 THEN IF track[t].status = "prospectus" THEN {} ELSE {Issue("no_project", 0, t)}
    ELSE (IF track[t].company # project[p].company THEN {Issue("company", p, t)} ELSE {})
         \cup (IF track[t].sector \notin {NoSector, project[p].sector} THEN {Issue("sector", p, t)} ELSE {})

\* check()
Issues(C) ==
    (UNION {ProjectIssues(p, {t \in TracksIn(C) : track[t].project = p}) : p \in {q \in Projects : project[q].company \in C}})
    \cup (UNION {TrackIssues(t) : t \in TracksIn(C)})

\* fix() reads the track and its project, ...
ReadFix(u, kind, p, t) ==
    /\ kind \in Repairs
    /\ IF kind = "done"
       THEN Known(p) /\ Begin(u, [Idle EXCEPT !.pc = "done", !.id = p])
       ELSE /\ Exists(t) /\ track[t].project # 0
            /\ LET q == track[t].project IN
               Begin(u, [Idle EXCEPT !.pc = kind, !.id = t, !.co = project[q].company, !.form.project = q,
                                  !.form.flag = IF project[q].sector = NoSector THEN track[t].sector ELSE NoSector])

\* Mutant: the project is moved to the track's company.
WriteFixMovesProject(u) ==
    LET a == task[u]
        p == a.form.project
    IN
    /\ a.pc \in {"company", "sector", "done"}
    /\ project' = IF a.pc = "company" /\ Known(p) THEN [project EXCEPT ![p].company = track[a.id].company] ELSE project
    /\ track' = IF a.pc = "sector" /\ Exists(a.id) THEN [track EXCEPT ![a.id].sector = NoSector] ELSE track
    /\ UNCHANGED <<lastProject, last, stage, handled>>
    /\ Commit(u)

\* ... and moves the track to what it read of the project: its company, or no
\* flag of its own, handed over first if the project had none.  "done" marks
\* the project.
WriteFix(u) ==
    LET a == task[u]
        p == a.form.project
    IN
    /\ a.pc \in {"company", "sector", "done"}
    /\ project' = IF a.pc = "done" /\ Known(a.id) THEN [project EXCEPT ![a.id].done = TRUE]
                  ELSE IF a.pc = "sector" /\ a.form.flag # NoSector /\ Known(p) THEN Flagged(p, a.form.flag)
                  ELSE project
    /\ track' = IF a.pc = "company" /\ Exists(a.id) THEN [track EXCEPT ![a.id].company = a.co]
                ELSE IF a.pc = "sector" /\ Exists(a.id) THEN [track EXCEPT ![a.id].sector = NoSector]
                ELSE track
    /\ UNCHANGED <<lastProject, last, stage, handled>>
    /\ Commit(u)

-----------------------------------------------------------------------------

\* A request ends with nothing committed: a refusal, a broken foreign key, a
\* lock not granted within 15 seconds, a server that stops.
Abort(u) ==
    /\ ~At(u, "idle")
    /\ task' = [task EXCEPT ![u] = Idle]
    /\ stale' = stale \ {u}
    /\ UNCHANGED <<project, lastProject, track, last, stage, handled>>

Next ==
    \E u \in Users :
       \/ \E c \in Companies : \/ \E f \in ProjectForms : CreateProject(u, c, f)
                               \/ \E f \in TrackForms : ReadCreate(u, c, f)
       \/ \E p \in Projects : \/ \E f \in ProjectForms : UpdateProject(u, p, f)
                              \/ \E flag \in Flags : SetProjectType(u, p, flag)
                              \/ DeleteProject(u, p)
                              \/ \E cv \in Contracts \cup {-1}, s \in Termins : ReadPlan(u, p, cv, s)
                              \/ ReadFix(u, "done", p, 0)
       \/ \E t \in Tracks : \/ \E f \in TrackForms : UpdateTrack(u, t, f)
                            \/ \E s \in Statuses : ReadStatus(u, t, s)
                            \/ \E ph \in Phases : ReadAdvance(u, t, ph)
                            \/ \E kind \in {"company", "sector"} : ReadFix(u, kind, 0, t)
                            \/ DeleteTrack(u, t)
       \/ InsertTrack(u) \/ WriteStatus(u) \/ WriteAdvance(u) \/ WritePlan(u) \/ WriteFix(u) \/ Abort(u)

Spec == Init /\ [][Next]_vars

-----------------------------------------------------------------------------
(* Properties.                                                             *)

\* Every row is made of what the tables hold; a row that was never inserted,
\* or was deleted, has no stages.
TypeOK ==
    /\ lastProject \in 0..MaxProjects /\ last \in 0..MaxTracks
    /\ project \in [Projects -> [company : Companies \cup {NoCompany}, contract : Nat, done : BOOLEAN, sector : Flags]]
    /\ track \in [Tracks -> [company : Companies \cup {NoCompany}, project : Projects \cup {0}, amount : Nat,
                             phase : Phases, status : MONEY_STATUSES, sector : Flags]]
    /\ stage \in [Tracks -> [Phases -> Seq({"open", "closed"})]]
    /\ stale \subseteq Users /\ handled \subseteq Tracks

\* A project's invoices pass its contract only when one request for it was
\* overtaken by another: a new track, a status, an advance to the last phase
\* or a plan of one termin under the contract as it stands.  An edit of a
\* track, and a plan of several termins or with a contract of its own, never
\* take them past it, however requests race ("the invoices of a project never
\* add up to more than its contract", harmony.py:6).
InvoicesFit ==
    [][\A p \in Projects :
         invoiced_total(p, {})' > invoiced_total(p, {}) /\ project'[p].contract > 0 =>
           \/ invoiced_total(p, {})' <= project'[p].contract
           \/ \E u \in stale : /\ task'[u].pc = "idle"
                               /\ \/ task[u].pc \in {"create", "status", "advance"}
                                  \/ task[u].pc = "plan" /\ task[u].cv < 0 /\ Len(task[u].more) = 1]_vars

\* The check says the same of a project whoever looks: in every scope that
\* holds its company, with tracks of other companies on it as well.
ScopesAgree ==
    \A C \in SUBSET Companies : \A p \in {q \in Projects : project[q].company \in C} :
      {i \in Issues(C) : i.project = p} = {i \in Issues(Companies) : i.project = p}

\* A repair that nothing overtakes takes the issue it was offered for off the
\* list, and puts no other on it.
FixHeals ==
    [][\A u \in Users \ stale :
         LET a == task[u] IN
         /\ a.pc \in {"company", "sector", "done"} /\ <<project, track>>' # <<project, track>> /\ task'[u].pc = "idle"
         => LET issue == IF a.pc = "done" THEN Issue("paid_not_done", a.id, 0) ELSE Issue(a.pc, a.form.project, a.id) IN
            issue \in Issues(Companies) => Issues(Companies)' \subseteq Issues(Companies) \ {issue}]_vars

\* Time runs in one phase: unless its phase was typed, or a request to move it
\* was overtaken, a track has at most one row for a phase and no stage open
\* but that of the phase it is in.
OneOpenStage ==
    \A t \in Tracks \ handled, ph \in Phases :
      /\ Len(stage[t][ph]) <= 1
      /\ stage[t][ph] = <<"open">> => ph = track[t].phase

=============================================================================
