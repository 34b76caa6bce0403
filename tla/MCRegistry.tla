---------------------------- MODULE MCRegistry -----------------------------
(* Instances of Registry for TLC: the group database and the sandbox, old  *)
(* or current, an admin and a bookkeeper.                                  *)
EXTENDS Registry, TLC

CONSTANTS ann, bob, cat, G, S, T

MCNames == <<G, S>>
Account(n, r) == [name |-> n, role |-> r, active |-> TRUE]
MCSeeds == [u \in Uids |-> IF u = 1 THEN Account(ann, "admin") ELSE IF u = 2 THEN Account(bob, "finance") ELSE NoUser]
MCOpenProfile == [frozen |-> FALSE, enter |-> Roles, edit |-> Roles]

Seeded == [Absent EXCEPT !.there = TRUE, !.tables = TRUE, !.source = "told", !.columns = {"early", "class"},
                         !.companies = {"MDA"}, !.investments = {"demo"}, !.standard = TRUE, !.users = MCSeeds]
MCCurrent == [Seeded EXCEPT !.columns = {"early", "class", "late"}, !.class = "set", !.types = "own",
                            !.rows["budgets"] = {<<1, 1>>}, !.users[3] = [name |-> cat, role |-> "admin", active |-> FALSE]]
MCOld == [Seeded EXCEPT !.source = "none", !.columns = {}, !.old = {"money_tracker", "budgets"},
                        !.rows["budgets"] = {<<1, 0>>}, !.rows["money_tracker"] = {<<1, 0>>},
                        !.week4 = 1, !.week5 = 2, !.codes = "counted", !.menu = "own",
                        !.companies = {"HOLD", "MDA"}, !.investments = {"holding"}, !.standard = FALSE]

Folder(f, g, L) == [file |-> [d \in Databases |-> IF d = G THEN f ELSE IF d = S THEN g ELSE Absent], legacy |-> L]
MCFolders == {Folder(MCCurrent, MCCurrent, {}), Folder(MCOld, MCCurrent, {}), Folder(Absent, Absent, {}),
              Folder(Absent, MCCurrent, {G}), Folder(MCCurrent, MCOld, {})}

MCPerson == [b \in Browsers |-> IF b = "b1" THEN ann ELSE bob]
Asked(k, d, u, n, keys, on, listed, demo) ==
    [kind |-> k, db |-> d, uid |-> u, user |-> n, keys |-> keys,
     profile |-> [frozen |-> on, enter |-> Roles, edit |-> Roles], listed |-> listed, demo |-> demo]
About(k, d) == Asked(k, d, 1, Account(ann, "finance"), {}, FALSE, TRUE, FALSE)
MCAsks ==
    {About(k, G) : k \in {"write", "edit_user", "own_user"}}
    \cup {About(k, S) : k \in {"switch", "edit_user", "delete_user", "delete"}}
    \cup {Asked("profile", d, 1, Account(ann, "admin"), {"frozen"}, TRUE, TRUE, FALSE) : d \in {G, S}}
    \cup {Asked("profile", S, 1, Account(ann, "admin"), {}, TRUE, TRUE, FALSE)}
    \cup {Asked(k, S, 1, Account(cat, "admin"), {}, FALSE, FALSE, TRUE) : k \in {"create", "add_user", "own_add"}}

\* One process is up when a third database is made.
MCNewNames == <<G, S, T>>
MCNewFolders == {Folder(MCCurrent, MCCurrent, {})}
MCNewAsks == {Asked("create", T, 1, Account(bob, "admin"), {}, FALSE, TRUE, TRUE), About("switch", T), About("write", T)}
MCSymmetry == Permutations(Workers)
=============================================================================
