------------------------------ MODULE Ledger --------------------------------
(***************************************************************************)
(* The double-entry ledger of apps/api: LedgerService.post and the freeze  *)
(* of a wallet (AdminService.freezeWallet).                                *)
(*                                                                         *)
(* post() is a Prisma interactive transaction at PostgreSQL's default      *)
(* isolation, READ COMMITTED, that locks no row: what each of its reads    *)
(* returns was committed, but need not be true any more when the entries   *)
(* are inserted.  So one call is three steps: the source wallet and its    *)
(* balance are read, the destination is read, the entries are committed.   *)
(* Balances are sums of committed entries; the entries are inserted in     *)
(* pairs, so a transaction is what it does to two balances.                *)
(*                                                                         *)
(* Bound: Float limits what SYSTEM wallets pay out.                        *)
(***************************************************************************)
EXTENDS Integers, FiniteSets, Functions

CONSTANTS
    Wallets,
    System,    \* wallets of type SYSTEM: never refused for lack of funds
    Posters,   \* requests being served at once
    Keys,      \* external references (Transaction.externalRef, unique)
    NoKey,     \* a transaction without one
    NoWallet,
    MaxAmount,
    Float

ASSUME WalletAssumption == System \subseteq Wallets /\ NoWallet \notin Wallets
ASSUME KeyAssumption == NoKey \notin Keys
ASSUME PosterAssumption == IsFiniteSet(Posters) /\ Posters # {}
ASSUME AmountAssumption == MaxAmount \in Nat \ {0} /\ Float \in Nat

VARIABLES
    balance,   \* debits minus credits of the wallet's committed entries
    frozen,    \* Wallet.isFrozen
    posted,    \* committed transactions per external reference
    post       \* the post() call of each request

ledgerVars == <<balance, frozen, posted, post>>

PostStep == {"idle", "source", "dest", "commit", "done"}
NoPost == [pc |-> "idle", from |-> NoWallet, to |-> NoWallet, amount |-> 0, key |-> NoKey]

LedgerInit ==
    /\ balance = [w \in Wallets |-> 0]
    /\ frozen = [w \in Wallets |-> FALSE]
    /\ posted = [k \in Keys |-> 0]
    /\ post = [p \in Posters |-> NoPost]

\* A caller awaits ledger.post.
CallPost(p, from, to, amount, key) ==
    /\ post[p].pc = "idle"
    /\ from \in System => balance[from] - amount >= -Float
    /\ post' = [post EXCEPT ![p] = [pc |-> "source", from |-> from, to |-> to,
                                    amount |-> amount, key |-> key]]
    /\ UNCHANGED <<balance, frozen, posted>>

Covered(p) ==
    post[p].from \in System \/ balance[post[p].from] >= post[p].amount

\* Mutant: the balance is not looked at again inside the transaction.
CheckSourceNoBalance(p) ==
    /\ post[p].pc = "source"
    /\ ~frozen[post[p].from]
    /\ post' = [post EXCEPT ![p].pc = "dest"]
    /\ UNCHANGED <<balance, frozen, posted>>

CheckSource(p) ==
    /\ post[p].pc = "source"
    /\ ~frozen[post[p].from] /\ Covered(p)
    /\ post' = [post EXCEPT ![p].pc = "dest"]
    /\ UNCHANGED <<balance, frozen, posted>>

\* Mutant: only the paying wallet is checked for a freeze.
CheckDestAlways(p) ==
    /\ post[p].pc = "dest"
    /\ post' = [post EXCEPT ![p].pc = "commit"]
    /\ UNCHANGED <<balance, frozen, posted>>

CheckDest(p) ==
    /\ post[p].pc = "dest"
    /\ ~frozen[post[p].to]
    /\ post' = [post EXCEPT ![p].pc = "commit"]
    /\ UNCHANGED <<balance, frozen, posted>>

\* The unique index on externalRef refuses a second use of a key.
KeyFree(p) == \A k \in Keys : post[p].key = k => posted[k] = 0

Moved(p) ==
    [w \in Wallets |-> balance[w] + (IF w = post[p].to THEN post[p].amount ELSE 0)
                                  - (IF w = post[p].from THEN post[p].amount ELSE 0)]

CountKey(p) == [k \in Keys |-> IF post[p].key = k THEN posted[k] + 1 ELSE posted[k]]

\* Mutant: no unique index.
CommitAnyKey(p) ==
    /\ post[p].pc = "commit"
    /\ balance' = Moved(p)
    /\ posted' = CountKey(p)
    /\ post' = [post EXCEPT ![p].pc = "done"]
    /\ UNCHANGED frozen

Commit(p) ==
    /\ post[p].pc = "commit"
    /\ KeyFree(p)
    /\ balance' = Moved(p)
    /\ posted' = CountKey(p)
    /\ post' = [post EXCEPT ![p].pc = "done"]
    /\ UNCHANGED frozen

\* post() throws and its transaction is rolled back.
Refused(p) ==
    \/ post[p].pc = "source" /\ (frozen[post[p].from] \/ ~Covered(p))
    \/ post[p].pc = "dest" /\ frozen[post[p].to]
    \/ post[p].pc = "commit" /\ ~KeyFree(p)

\* The caller is no longer interested: it was refused, it finished, it died.
LeavePost(p) ==
    /\ post[p].pc # "idle"
    /\ post' = [post EXCEPT ![p] = NoPost]
    /\ UNCHANGED <<balance, frozen, posted>>

\* There is no way to unfreeze a wallet.
Freeze(w) ==
    /\ frozen' = [frozen EXCEPT ![w] = TRUE]
    /\ UNCHANGED <<balance, posted, post>>

PostStepOf(p) == CheckSource(p) \/ CheckDest(p) \/ Commit(p)

LedgerNext ==
    \/ \E p \in Posters :
         \/ \E from, to \in Wallets, amount \in 1 .. MaxAmount, key \in Keys \cup {NoKey} :
              CallPost(p, from, to, amount, key)
         \/ PostStepOf(p)
         \/ LeavePost(p)
    \/ \E w \in Wallets : Freeze(w)

LedgerSpec == LedgerInit /\ [][LedgerNext]_ledgerVars

-----------------------------------------------------------------------------
PostTypes ==
    /\ frozen \in [Wallets -> BOOLEAN]
    /\ posted \in [Keys -> Nat]
    /\ post \in [Posters -> [pc : PostStep, from : Wallets \cup {NoWallet},
                             to : Wallets \cup {NoWallet}, amount : 0 .. MaxAmount,
                             key : Keys \cup {NoKey}]]
    /\ \A p \in Posters : post[p].pc # "idle" => {post[p].from, post[p].to} \subseteq Wallets

LedgerTypeOK == PostTypes /\ balance \in [Wallets -> Int]

\* An external reference is posted once, however many requests carry it at
\* once: it is what makes a top-up safe to settle twice.
KeyOnce == \A k \in Keys : posted[k] <= 1

\* Posts out of w that have seen a sufficient balance and not committed yet.
InFlightFrom(w) == {p \in Posters : post[p].from = w /\ post[p].pc \in {"dest", "commit"}}
InFlight(w) == SumFunctionOnSet([p \in Posters |-> post[p].amount], InFlightFrom(w))

\* "Throws if the credited (paying) wallet would go negative"
\* (ledger.service.ts:55) is true of a post that runs alone.  Posts that run
\* at once can overdraw a wallet, but never by more than the posts that
\* raced, however many follow: what is committed and in flight stays above
\* minus one maximal amount per other request.
OverdraftIsBounded ==
    \A w \in Wallets \ System :
        balance[w] - InFlight(w) >= -(Cardinality(Posters) - 1) * MaxAmount

\* A wallet is at rest once it is frozen and no post that looked at it before
\* is still on its way.
AtRest(w) ==
    /\ frozen[w]
    /\ \A p \in Posters :
         /\ post[p].from = w => post[p].pc \notin {"dest", "commit"}
         /\ post[p].to = w => post[p].pc # "commit"

\* A frozen wallet comes to rest and stays there: freezeWallet() stops every
\* post that had not checked the wallet yet, in both directions, for good.
FreezeHolds ==
    [][\A w \in Wallets : AtRest(w) => AtRest(w)' /\ balance'[w] = balance[w]]_ledgerVars
=============================================================================
