----------------------------- MODULE MCReports ------------------------------
(* An instance of Reports for TLC: company east books what the project dam *)
(* of west earns and costs, west owes for its card, and money moves        *)
(* between them.                                                           *)
EXTENDS Reports, TLC

CONSTANTS east, west, dam

CashBank == 11000000
Bank == 11200000
Petty == 11300000
Card == 11700000
Between == 19000000
Sales == 41000000
Costs == 51000000
MCCodes == {CashBank, Bank, Petty, Card, Between, Sales, Costs}

MCMonthStart == <<1, 32, 60, 91, 121, 152, 182, 213, 244, 274, 305, 335>>
Form(c, code, type, parent, ic) == [company |-> c, code |-> code, type |-> type, parent |-> parent, ic |-> ic]
MCStandard == {Form(east, CashBank, "asset", NoCode, FALSE), Form(east, Bank, "asset", CashBank, FALSE),
               Form(east, Petty, "asset", CashBank, FALSE), Form(east, Card, "asset", CashBank, FALSE),
               Form(east, Between, "asset", NoCode, TRUE), Form(east, Sales, "revenue", NoCode, FALSE),
               Form(east, Costs, "expense", NoCode, FALSE)}
MCAccountForms == {Form(east, CashBank, "asset", Bank, FALSE),
                   Form(east, Bank, "asset", NoCode, FALSE), Form(east, Bank, "asset", CashBank, FALSE),
                   Form(west, Costs, "asset", NoCode, FALSE), Form(west, CashBank, "asset", Bank, FALSE)}
MCCharts == {<<Form(east, Bank, "asset", CashBank, FALSE), Form(east, CashBank, "asset", Bank, FALSE)>>}

Line(code, pr, debit, credit) == [code |-> code, project |-> pr, debit |-> debit, credit |-> credit]
Entry(c, date, posted, rows) == [company |-> c, date |-> date, posted |-> posted, lines |-> rows]
D25 == 366 * 2025 + 364
D26(day) == 366 * 2026 + day - 1
N == NoProject
Earning == Entry(east, D25, TRUE, <<Line(Bank, N, 9, 0), Line(Sales, dam, 0, 9)>>)
TopUp == Entry(east, D26(40), TRUE, <<Line(Petty, N, 5, 0), Line(Bank, N, 0, 5)>>)
Spending == Entry(east, D26(41), TRUE, <<Line(Costs, dam, 1, 0), Line(Sales, N, 2, 0), Line(Petty, N, 0, 3)>>)
Buying == Entry(west, D26(80), TRUE, <<Line(Costs, N, 4, 0), Line(Card, N, 0, 4)>>)
Draft == Entry(west, D26(81), FALSE, <<Line(Bank, N, 7, 0), Line(Sales, N, 0, 7)>>)
Sent == Entry(east, D26(365), TRUE, <<Line(Between, N, 2, 0), Line(Bank, N, 0, 2)>>)
Received == Entry(west, D26(365), TRUE, <<Line(Bank, N, 2, 0), Line(Between, N, 0, 2)>>)
MCEntryForms == {Received}

Plan(c, code, pr, month, amount) ==
    [company |-> c, code |-> code, project |-> pr, year |-> 2026, month |-> month, amount |-> amount]
Only(codes) ==
    [code \in MCCodes |-> IF code \notin codes THEN NoAccount
                          ELSE LET f == CHOOSE f \in MCStandard : f.code = code
                               IN  [type |-> f.type, parent |-> f.parent, ic |-> f.ic]]
MCDatabases ==
    {[company |-> {east, west}, account |-> (east :> Only(MCCodes) @@ west :> Only(MCCodes \ {CashBank, Petty})),
      project |-> (dam :> west), override |-> <<>>, entry |-> <<Earning, TopUp, Spending, Buying, Draft, Sent>>,
      budget |-> {Plan(east, Costs, N, 3, 6), Plan(west, Costs, dam, 3, 2), Plan(west, Sales, N, 12, 0)}],
     [company |-> {east}, account |-> (east :> Only({CashBank, Bank, Sales}) @@ west :> Only({})),
      project |-> (dam :> NoCompany), override |-> <<>>, entry |-> <<>>, budget |-> {}]}
MCCashChoices == {<<>>, (Card :> TRUE @@ Petty :> FALSE)}
Bill(c, amount, paid, due) == [company |-> c, amount |-> amount, paid |-> paid, due |-> due]
MCBills == {Bill(east, 5, 2, D26(1)), Bill(east, 3, 4, D26(1)), Bill(west, 2, 0, D26(60)), Bill(west, 1, 0, -1)}
MCSymmetry == Permutations(Users)
=============================================================================
