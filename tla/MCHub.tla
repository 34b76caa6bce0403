------------------------------- MODULE MCHub --------------------------------
(* Instances of Hub for TLC: two users' wallets and one SYSTEM wallet.      *)
EXTENDS Hub, TLC

CONSTANTS alice, bob, cash, o1, o2, a1

MCOrderWallet == [o \in Orders |-> alice]
MCOrderAmount == [o \in Orders |-> 2]
MCAdjustment == [a \in Approvals |-> [from |-> alice, to |-> bob, amount |-> 2]]
MCRoutes == {<<alice, bob>>, <<bob, cash>>}
MCSymmetry == Permutations(Posters) \cup Permutations(Admins)
=============================================================================
