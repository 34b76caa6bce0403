----------------------------- MODULE Registry ------------------------------
(***************************************************************************)
(* The databases of apps/erp as people use them (server.py): signing in,   *)
(* switching, the guard of frozen databases, the users and the profile of  *)
(* each database, making and deleting databases - while server processes   *)
(* start and die (Startup).                                                *)
(*                                                                         *)
(* A session is a cookie with the name of a database and a user id in it.  *)
(* A request opens the database its session names and is looked at by the  *)
(* guard; what its handler reads before its first write may be stale when  *)
(* it writes.  A password is right when the person typing it is that user. *)
(* Of the roles "viewer" is left out: it is a "finance" that edits less.   *)
(* Of the other writes of the program one stands for all: a budget cell.   *)
(***************************************************************************)
EXTENDS Startup

CONSTANTS
    Browsers,
    Person,         \* who uses each browser
    People, Roles,  \* "admin" is one of the roles
    Asks            \* what people ask for

ASSUME RoleAssumption == "admin" \in Roles

User == [name : People, role : Roles, active : BOOLEAN]
Accounts == User \cup {NoUser, Gone}
Profile == [frozen : BOOLEAN, enter : SUBSET Roles, edit : SUBSET Roles]

ASSUME UserAssumption ==
    /\ Uids \subseteq Nat \ {0} /\ NoUser \notin User /\ Gone \notin User
    /\ Seeds \in [Uids -> Accounts] /\ OpenProfile \in Profile

File == [there : BOOLEAN, tables : BOOLEAN, source : {"none", "added", "told"}, columns : SUBSET {"early", "class", "late"},
         old : SUBSET Rebuilt, copy : SUBSET Rebuilt, rows : [Rebuilt -> SUBSET (Cells \X Nat)], week4 : Int, week5 : Int,
         class : {"", "seeded", "set"}, types : {"none", "starting", "own"}, codes : {"none", "counted", "aside"},
         menu : {"all", "own", "widened"}, companies : SUBSET {"MDA", "HOLD"}, investments : SUBSET {"demo", "holding", "group"},
         standard : BOOLEAN, users : [Uids -> Accounts], profile : Profile]

\* Columns stand in tables.
Told(f) == f.source # "none" \/ f.columns # {} => f.tables

ASSUME FolderAssumption ==
    /\ Moved \in File /\ Told(Moved)
    /\ \A folder \in Folders :
         /\ folder.file \in [Databases -> File] /\ folder.legacy \subseteq Databases
         /\ \A d \in Databases : Told(folder.file[d])

\* A handler, the database and the user it is about, what to make of the user,
\* what to set of the profile, and for a new database whether its name is
\* typed as it will be listed (not with "_" for " "), and with demo data.
Kinds == {"write", "switch", "profile", "create", "delete", "add_user", "edit_user", "delete_user", "own_user", "own_add"}
Ask == [kind : Kinds, db : Databases, uid : Uids, user : User, keys : SUBSET {"frozen", "enter", "edit"},
        profile : Profile, listed : BOOLEAN, demo : BOOLEAN]
ASSUME AskAssumption == Asks \subseteq Ask

VARIABLES
    session,    \* the cookie of each browser
    req         \* the request each browser is waiting for

vars == <<file, legacy, worker, work, session, req>>

Nobody == 0
SignedOut == [db |-> DEFAULT_DB, uid |-> Nobody]
NoAsk == [kind |-> "none"]
Idle == [pc |-> "idle", ask |-> NoAsk, db |-> DEFAULT_DB, me |-> NoUser, seen |-> OpenProfile,
         users |-> Absent.users, lost |-> FALSE]

Init ==
    /\ StartupInit
    /\ session = [b \in Browsers |-> SignedOut]
    /\ req = [b \in Browsers |-> Idle]

-----------------------------------------------------------------------------
(* What handlers look up.                                                  *)

list_databases == {d \in Databases : file[d].there}
active_db_name(b) == IF session[b].db \in list_databases THEN session[b].db ELSE DEFAULT_DB

Row(f, u) == IF u = Nobody THEN NoUser ELSE f.users[u]
Is(r) == r \notin {NoUser, Gone}
Active(r) == Is(r) /\ r.active
Admins(users) == {u \in Uids : Active(users[u]) /\ users[u].role = "admin"}
Named(users, n) == {u \in Uids : Is(users[u]) /\ users[u].name = n}

can_enter(prof, role) == role = "admin" \/ (~prof.frozen /\ role \in prof.enter)

\* Mutant: who has entered may edit, frozen or not.
CanEditFrozen(prof, role) == role = "admin" \/ role \in prof.edit

can_edit(prof, role) == role = "admin" \/ (~prof.frozen /\ role \in prof.edit)

Waits(b, pc) == req[b].pc = pc
To(b, r) == req' = [req EXCEPT ![b] = r]
End(b) == To(b, Idle)
Does(b, kinds) == Waits(b, "handle") /\ req[b].ask.kind \in kinds
Still == UNCHANGED <<legacy, worker, work, session>>

\* The database a handler writes to: its own, or the one it names.
Own(b) == req[b].ask.kind \in {"write", "own_user", "own_add"} \/ req[b].ask.db = req[b].db
Written(b) == IF Own(b) THEN req[b].db ELSE req[b].ask.db

\* Into a file that is not in the folder any more nothing is written.
Put(b, f) == file' = IF req[b].lost THEN file ELSE [file EXCEPT ![Written(b)] = f]

\* AUTOINCREMENT: an id is not given twice.
Inserted(f, user) ==
    LET free == {u \in Uids : \A v \in Uids : v >= u => f.users[v] = NoUser}
        id == CHOOSE u \in free : \A v \in free : u <= v
    IN  IF free = {} \/ Named(f.users, user.name) # {} THEN f ELSE [f EXCEPT !.users[id] = user]

Updated(f, u, user) == IF Is(f.users[u]) THEN [f EXCEPT !.users[u].role = user.role, !.users[u].active = user.active] ELSE f

-----------------------------------------------------------------------------
(* Signing in and out.                                                     *)

\* api_login() turns to the group database first, whether or not the password
\* is right.
SignIn(b, right) ==
    LET f == Connected(file[DEFAULT_DB])
        mine == {u \in Named(f.users, Person[b]) : f.users[u].active}
    IN
    /\ Waits(b, "idle")
    /\ file' = [file EXCEPT ![DEFAULT_DB] = f]
    /\ session' = [session EXCEPT ![b] = [db |-> DEFAULT_DB, uid |-> IF right /\ mine # {} THEN CHOOSE u \in mine : TRUE ELSE @.uid]]
    /\ UNCHANGED <<legacy, worker, work, req>>

SignOut(b) ==
    /\ Waits(b, "idle") /\ session[b] # SignedOut
    /\ session' = [session EXCEPT ![b] = SignedOut]
    /\ UNCHANGED <<file, legacy, worker, work, req>>

-----------------------------------------------------------------------------
(* Requests.                                                               *)

\* db() takes the name of the database from the cookie, ...
Request(b, ask) ==
    /\ Waits(b, "idle") /\ work < MaxWork /\ session[b].uid # Nobody
    /\ work' = work + 1
    /\ To(b, [Idle EXCEPT !.pc = "open", !.ask = ask, !.db = active_db_name(b)])
    /\ UNCHANGED <<file, legacy, worker, session>>

\* _enforce_frozen_db(), then login_required and role_required.
Allowed(b, f, me) ==
    /\ req[b].ask.kind = "switch" \/ can_edit(f.profile, me.role)
    /\ req[b].ask.kind \notin {"write", "switch"} => me.role = "admin"

\* ... opens it, and lets the guard look.
OpenDb(b) ==
    LET d == req[b].db
        f == Connected(file[d])
        me == Row(f, session[b].uid)
    IN
    /\ Waits(b, "open")
    /\ file' = [file EXCEPT ![d] = f]
    /\ IF f.tables /\ Active(me) /\ Allowed(b, f, me)
       THEN To(b, [req[b] EXCEPT !.pc = "handle", !.me = me, !.seen = f.profile])
       ELSE End(b)
    /\ Still

\* A budget cell of a week.
Write(b, c) ==
    LET f == file[req[b].db] IN
    /\ Does(b, {"write"}) /\ "budgets" \notin f.old
    /\ Put(b, [f EXCEPT !.rows["budgets"] = @ \cup {<<c, 2>>}])
    /\ End(b) /\ Still

\* switch_database_api(): the same name with the same role, or for an admin
\* any admin.
Switch(b) ==
    LET d == req[b].ask.db
        f == file[d]
        me == req[b].me
        mine == {u \in Named(f.users, me.name) : f.users[u].active /\ f.users[u].role = me.role}
        there == IF mine = {} /\ me.role = "admin" THEN Admins(f.users) ELSE mine
    IN
    /\ Does(b, {"switch"}) /\ f.tables
    /\ there # {} /\ can_enter(f.profile, me.role)
    /\ session' = [session EXCEPT ![b] = [db |-> d, uid |-> CHOOSE u \in there : \A v \in there : u <= v]]
    /\ End(b) /\ UNCHANGED <<file, legacy, worker, work>>

\* update_user() and create_user(), for the database one is in.
OwnUser(b) ==
    LET f == file[req[b].db]
        a == req[b].ask
    IN
    /\ Does(b, {"own_user", "own_add"})
    /\ Put(b, IF a.kind = "own_add" THEN Inserted(f, a.user) ELSE Updated(f, a.uid, a.user))
    /\ End(b) /\ Still

\* Mutant: the admins that are not active count.
MayLoseAnyAdmin(b, users) ==
    LET a == req[b].ask
        row == users[a.uid]
        loses == a.kind = "delete_user" \/ a.user.role # "admin" \/ ~a.user.active
    IN
    /\ Is(row)
    /\ row.role = "admin" /\ loses => \E u \in Uids \ {a.uid} : Is(users[u]) /\ users[u].role = "admin"
    /\ a.kind = "delete_user" /\ a.db = req[b].db => a.uid # session[b].uid

\* update_db_user() and delete_db_user() look for another active admin.
MayLose(b, users) ==
    LET a == req[b].ask
        row == users[a.uid]
        loses == a.kind = "delete_user" \/ a.user.role # "admin" \/ ~a.user.active
    IN
    /\ Is(row)
    /\ row.role = "admin" /\ loses => Admins(users) \ {a.uid} # {}
    /\ a.kind = "delete_user" /\ a.db = req[b].db => a.uid # session[b].uid

\* The picker: users and profile of any database are read, ...
ReadPicker(b) ==
    LET f == file[req[b].ask.db] IN
    /\ Does(b, {"add_user", "edit_user", "delete_user", "profile"}) /\ f.tables
    /\ req[b].ask.kind = "add_user" => Named(f.users, req[b].ask.user.name) = {}
    /\ req[b].ask.kind \in {"edit_user", "delete_user"} => MayLose(b, f.users)
    /\ To(b, [req[b] EXCEPT !.pc = "save", !.users = f.users, !.seen = f.profile])
    /\ UNCHANGED file /\ Still

Merged(prof, a) == [frozen |-> IF "frozen" \in a.keys THEN a.profile.frozen ELSE prof.frozen,
                    enter |-> (IF "enter" \in a.keys THEN a.profile.enter ELSE prof.enter) \cup {"admin"},
                    edit |-> (IF "edit" \in a.keys THEN a.profile.edit ELSE prof.edit) \cup {"admin"}]

\* ... and then written, the profile as a whole.
SavePicker(b) ==
    LET f == file[Written(b)]
        a == req[b].ask
    IN
    /\ Waits(b, "save")
    /\ Put(b, CASE a.kind = "add_user" -> Inserted(f, a.user)
                [] a.kind = "edit_user" -> Updated(f, a.uid, a.user)
                [] a.kind = "delete_user" -> IF Is(f.users[a.uid]) THEN [f EXCEPT !.users[a.uid] = Gone] ELSE f
                [] a.kind = "profile" -> [f EXCEPT !.profile = Merged(req[b].seen, a)])
    /\ End(b) /\ Still

-----------------------------------------------------------------------------
(* Making and deleting databases.                                          *)

\* create_database() looks for the name as it is listed, ...
ReadCreate(b) ==
    LET a == req[b].ask IN
    /\ Does(b, {"create"})
    /\ ~(a.listed /\ file[a.db].there)
    /\ To(b, [req[b] EXCEPT !.pc = "init"])
    /\ UNCHANGED file /\ Still

\* ... makes the file and its tables, and seeds it.
InitOne(b) ==
    LET d == req[b].ask.db IN
    /\ Waits(b, "init")
    /\ file' = [file EXCEPT ![d] = Schema(Connected(@))]
    /\ To(b, [req[b] EXCEPT !.pc = "seed"])
    /\ Still

SeedOne(b) ==
    LET f == file[req[b].ask.db]
        demo == req[b].ask.demo
    IN
    /\ Waits(b, "seed") /\ (demo => CanSeed(f) \/ req[b].lost)
    /\ file' = IF req[b].lost THEN file ELSE [file EXCEPT ![req[b].ask.db] = IF demo THEN seed(f) ELSE seed_investments(f)]
    /\ End(b) /\ Still

\* A request that has the file open.
Holds(b, d) == \/ req[b].pc \in {"handle", "save"} /\ Own(b) /\ req[b].db = d
               \/ req[b].pc \in {"save", "seed"} /\ req[b].ask.db = d

\* delete_database(): not the group's, and not the one the caller is in.
Delete(b) ==
    LET d == req[b].ask.db IN
    /\ Does(b, {"delete"})
    /\ d # active_db_name(b) /\ d # DEFAULT_DB /\ file[d].there
    /\ file' = [file EXCEPT ![d] = Absent]
    /\ worker' = Unlinked(d)
    /\ req' = [c \in Browsers |-> IF c = b THEN Idle
                                  ELSE IF Holds(c, d) THEN [req[c] EXCEPT !.lost = TRUE] ELSE req[c]]
    /\ UNCHANGED <<legacy, work, session>>

\* A refusal, an error, a server that dies: what is not written stays so.
Abort(b) ==
    /\ ~Waits(b, "idle")
    /\ End(b) /\ UNCHANGED file /\ Still

Next ==
    \/ \E w \in Workers : StartupNext(w) /\ UNCHANGED <<session, req>>
    \/ \E b \in Browsers :
         \/ Abort(b)
         \/ /\ Serving
            /\ \/ \E right \in BOOLEAN : SignIn(b, right)
               \/ \E ask \in Asks : Request(b, ask)
               \/ \E c \in Cells : Write(b, c)
               \/ SignOut(b) \/ OpenDb(b) \/ Switch(b) \/ OwnUser(b) \/ ReadPicker(b) \/ SavePicker(b)
               \/ ReadCreate(b) \/ InitOne(b) \/ SeedOne(b) \/ Delete(b)

Spec == Init /\ [][Next]_vars

-----------------------------------------------------------------------------
(* Properties.                                                             *)

\* What somebody who is not an admin writes reaches no database that is frozen
\* or closed to the role, unless its profile was changed after the guard had
\* looked - whatever was switched, deleted or made again meanwhile
\* (_enforce_frozen_db(), server.py:106).
GuardHolds ==
    [][\A b \in Browsers :
         LET d == req[b].db IN
         /\ req[b].ask.kind = "write" /\ req[b].pc = "handle" /\ req'[b].pc = "idle"
         /\ file'[d] # file[d]
         => LET prof == file[d].profile IN
            \/ req[b].me.role = "admin" \/ (~prof.frozen /\ req[b].me.role \in prof.edit)
            \/ prof # req[b].seen]_vars

\* Through the picker no database loses its last active admin, unless its
\* users were changed between the look for another one and the write
\* ("never let the last active admin lose admin/active status", server.py:5540).
PickerKeepsAnAdmin ==
    [][\A b \in Browsers :
         LET d == req[b].ask.db IN
         /\ req[b].pc = "save" /\ req[b].users = file[d].users /\ req'[b].pc = "idle"
         /\ file[d].there /\ Admins(file[d].users) # {}
         => Admins(file'[d].users) # {}]_vars

\* "Without this the additive migrations would never execute on the web"
\* (server.py:5588): when every process that serves has migrated, a request
\* finds the current shape in the database it opens.
OpenedIsCurrent ==
    Serving /\ (\A w \in Workers : worker[w].pc \in {"up", "down"}) =>
      \A b \in Browsers : req[b].pc = "handle" /\ ~req[b].lost => file[req[b].db].columns = {"early", "class", "late"}

=============================================================================
