------------------------------ MODULE MCOracle ------------------------------
(* An instance of Oracle for TLC: a year of two months of three and five   *)
(* days, each of two weeks, of which two days have passed.                 *)
EXTENDS Oracle, TLC

CONSTANTS east, west, fund

MCMonthStart == <<1, 4, 9>>
MCOwner == [i \in Investments |-> east]
MCCommitted == [i \in Investments |-> 4]
Line(co, kind, date, amount) == [company |-> co, kind |-> kind, date |-> date, amount |-> amount]
MCPosted == {Line(east, "cash", -3, 9), Line(west, "cash", 0, 4), Line(west, "cash", 2, 1), Line(east, "opex", -1, 6)}

Budget(co, type, cls, m, w, amount, cert) ==
    [company |-> co, type |-> type, cls |-> cls, month |-> m, week |-> w, amount |-> amount, certainty |-> cert]
MCBudgetForms ==
    {Budget(east, "revenue", "operating", 1, 2, 6, "committed"), Budget(east, "expense", "operating", 1, 2, 5, "planned"),
     Budget(west, "revenue", "operating", 2, 1, 4, "speculative"), Budget(west, "expense", "noncash", 2, 2, 7, "planned"),
     Budget(west, "asset", "operating", 1, 1, 4, "planned"), Budget(east, "expense", "operating", 1, 2, 0, "planned")}
MCPlanForms == {Planned(Budget(west, "expense", "operating", 2, 2, 6, "planned"), "out"),
                Planned(Budget(west, "revenue", "operating", 1, 1, 4, "committed"), "in")}
Bill(co, due, amount, paid, date) == [company |-> co, due |-> due, amount |-> amount, paid |-> paid, date |-> date]
MCReceivableForms == {Bill(west, 2, 6, 0, NoDate), Bill(west, 2, 6, 6, NoDate)}
MCCollected == {Bill(west, 2, 5, 1, 3)}
MCPayableForms == {Bill(west, 4, 5, 1, NoDate), Bill(west, -2, 5, 0, NoDate)}
MCCommitmentForms ==
    {[investment |-> fund, thisYear |-> here, month |-> 1, week |-> 2, amount |-> 3, certainty |-> cert] :
       here \in BOOLEAN, cert \in {"committed", "expected"}}
MCPolicies ==
    {[months_cover |-> 1, absolute_floor |-> (east :> 1 @@ west :> floor), speculative_weight |-> 2,
      default_collection_lag_days |-> lag, week_settlement |-> mode] :
       floor \in {0, 2}, lag \in {3}, mode \in {"pessimistic"}}
=============================================================================
