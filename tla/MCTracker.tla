----------------------------- MODULE MCTracker ------------------------------
(* Instances of Tracker for TLC: two users, one project with a contract of *)
(* three, two tracks of two.                                               *)
EXTENDS Tracker, TLC

CONSTANTS east, west, s

Form(p, ph, st, flag) == [project |-> p, amount |-> 2, phase |-> ph, status |-> st, flag |-> flag]
Project(cv, flag) == [done |-> FALSE, contract |-> cv, flag |-> flag]
Old(t) == [company |-> west, project |-> 1, amount |-> t, phase |-> 1, status |-> "active", sector |-> s]

\* Races: one company, no sectors, two phases.
MCTrackForms == {Form(1, 1, "active", Keep)}
MCProjectForms == {Project(3, Keep)}
MCTermins == {<<2>>, <<1, 1>>}
MCDatabases == {[projects |-> <<>>, tracks |-> <<>>]}

\* Harmony: sectors, and a track of another company from before the check.
MCHarmonyTrackForms == {Form(1, 1, "active", s), Form(0, 1, "active", Keep)}
MCNone == {}
MCOldDatabases ==
    {[projects |-> <<[company |-> east, contract |-> 2, done |-> FALSE, sector |-> NoSector]>>, tracks |-> <<Old(2)>>]}

MCBooked == [p \in 1..MaxProjects |-> 0]
MCHarmonyBooked == [p \in 1..MaxProjects |-> 1]
MCSymmetry == Permutations(Users)
=============================================================================
