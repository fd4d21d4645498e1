---------------------------- MODULE MempoolStore ----------------------------
(***************************************************************************)
(* The mempool as a data structure (core/lib/mempool): pending L1           *)
(* transactions by priority id, pending L2 transactions by account and      *)
(* nonce, and a queue with a pointer to the next L2 transaction of each      *)
(* account.  A store is a record and each method an operator from stores to *)
(* stores; Mempool runs them between the fetcher and the state keeper.       *)
(***************************************************************************)
EXTENDS Integers, FiniteSetsExt

CONSTANTS
    Account,      \* initiators of transactions
    Submitted,    \* sequence of transactions in the order of received_at
    Capacity      \* mempool capacity

Tx == DOMAIN Submitted
IsL1(t) == Submitted[t].l1
AccountOf(t) == Submitted[t].account
\* The nonce of an L2 transaction, the serial_id of an L1 transaction.
NonceOf(t) == Submitted[t].nonce
SameNonce(t, u) == ~IsL1(t) /\ ~IsL1(u) /\ AccountOf(t) = AccountOf(u) /\ NonceOf(t) = NonceOf(u)

ASSUME MempoolAssumption ==
    /\ Capacity \in Nat
    /\ Tx \subseteq Nat
    /\ \A t \in Tx : Submitted[t] \in [l1 : BOOLEAN, account : Account, nonce : Nat, fee : Nat]

NoAccount == [present |-> FALSE, nonce |-> 0, transactions |-> {}]

MempoolStore ==
    [l1_transactions : SUBSET Tx,
     accounts : [Account -> [present : BOOLEAN, nonce : Nat, transactions : SUBSET Tx]],
     queue : SUBSET Tx,
     next_priority_id : Nat,
     stashed : SUBSET Account,
     size : Nat]

NewStore(next_priority_id) ==
    [l1_transactions |-> {}, accounts |-> [a \in Account |-> NoAccount], queue |-> {},
     next_priority_id |-> next_priority_id, stashed |-> {}, size |-> 0]

\* The transaction an account has at a nonce (none, or one).
At(acc, n) == {t \in acc.transactions : NonceOf(t) = n}
TransactionsOf(s, A) == UNION {s.accounts[a].transactions : a \in A}
Pointed(s) == {AccountOf(t) : t \in s.queue}
-----------------------------------------------------------------------------
(* insert *)

\* Mutant: new entries start at nonce 0.
BugEntry(s, a, nonces) ==
    IF s.accounts[a].present THEN s.accounts[a]
    ELSE [present |-> TRUE, nonce |-> 0, transactions |-> {}]

\* The entry of an account, created with the nonce that came along if need be.
Entry(s, a, nonces) ==
    IF s.accounts[a].present THEN s.accounts[a]
    ELSE [present |-> TRUE, nonce |-> nonces[a], transactions |-> {}]

\* AccountTransactions::insert keeps what is not too old.
Fresh(s, txs, nonces) ==
    {t \in txs : ~IsL1(t) /\ NonceOf(t) >= Entry(s, AccountOf(t), nonces).nonce}

Previous(s, t) == {u \in s.accounts[AccountOf(t)].transactions : SameNonce(t, u)}

\* insert and insert_l2_transaction.  The transactions have different accounts
\* or nonces, so the order of the loop does not matter.  A transaction that
\* takes the place of another one is not counted, and replaces its pointer.
Insert(s, txs, nonces) ==
    LET fresh    == Fresh(s, txs, nonces)
        replaced == UNION {Previous(s, t) : t \in fresh}
        heads    == {t \in fresh : NonceOf(t) = Entry(s, AccountOf(t), nonces).nonce}
    IN [s EXCEPT
         !.l1_transactions = @ \cup {t \in txs : IsL1(t)},
         !.accounts = [a \in Account |->
            IF \A t \in txs : IsL1(t) \/ AccountOf(t) # a THEN @[a]
            ELSE [Entry(s, a, nonces) EXCEPT !.transactions =
                    (@ \ replaced) \cup {t \in fresh : AccountOf(t) = a}]],
         !.queue = (@ \ UNION {Previous(s, t) : t \in heads}) \cup heads,
         !.size = @ + Cardinality({t \in fresh : Previous(s, t) = {}})]
-----------------------------------------------------------------------------
(* has_next, next_transaction *)

NextL1(s) == {t \in s.l1_transactions : NonceOf(t) = s.next_priority_id}
Matching(s, filter) == {t \in s.queue : Submitted[t].fee >= filter}

HasNext(s, filter) == NextL1(s) # {} \/ Matching(s, filter) # {}

\* Pointers are visited from the earliest transaction on; the accounts passed
\* over, whose fee is too low, are stashed.
TxPointer(s, filter) == Min(Matching(s, filter))
StashedPointers(s, filter) == {t \in s.queue : t < TxPointer(s, filter)}

\* The transaction returned: that of the pointer's account at its nonce.
NextL2(s, filter) ==
    LET acc == s.accounts[AccountOf(TxPointer(s, filter))] IN At(acc, acc.nonce)

\* The expects of next_transaction and AccountTransactions::next.
NextPanics(s, filter) ==
    LET stash == {AccountOf(t) : t \in StashedPointers(s, filter)}
    IN /\ NextL1(s) = {} /\ Matching(s, filter) # {}
       /\ \/ \E a \in stash \cup {AccountOf(TxPointer(s, filter))} : ~s.accounts[a].present
          \/ Cardinality(stash) # Cardinality(StashedPointers(s, filter))
          \/ AccountOf(TxPointer(s, filter)) \in stash
          \/ NextL2(s, filter) = {}
          \/ s.size < Cardinality(TransactionsOf(s, stash)) + 1

TakeL1(s) ==
    [s EXCEPT !.l1_transactions = @ \ NextL1(s), !.next_priority_id = @ + 1]

TakeL2(s, filter) ==
    LET a     == AccountOf(TxPointer(s, filter))
        next  == [s.accounts[a] EXCEPT !.nonce = @ + 1,
                                       !.transactions = @ \ NextL2(s, filter)]
        stash == {AccountOf(t) : t \in StashedPointers(s, filter)}
    IN [s EXCEPT
         !.accounts = [b \in Account |-> CASE b \in stash -> NoAccount
                                           [] b = a -> next
                                           [] OTHER -> @[b]],
         !.queue = {t \in @ : t > TxPointer(s, filter)} \cup At(next, next.nonce),
         !.stashed = @ \cup stash,
         !.size = @ - Cardinality(TransactionsOf(s, stash)) - 1]
-----------------------------------------------------------------------------
(* rollback, get_mempool_info *)

RollbackPanics(s, t) == ~IsL1(t) /\ ~s.accounts[AccountOf(t)].present

\* Mutant: the successor keeps its pointer.
BugRollback(s, t) ==
    IF IsL1(t)
    THEN [s EXCEPT !.next_priority_id = Min({@, NonceOf(t)})]
    ELSE [s EXCEPT !.accounts[AccountOf(t)].nonce = Min({@, NonceOf(t)})]

\* The id or nonce of the transaction is next again, and its successor has no
\* pointer any more.
Rollback(s, t) ==
    IF IsL1(t)
    THEN [s EXCEPT !.next_priority_id = Min({@, NonceOf(t)})]
    ELSE [s EXCEPT !.accounts[AccountOf(t)].nonce = Min({@, NonceOf(t)}),
                   !.queue = @ \ At(s.accounts[AccountOf(t)], NonceOf(t) + 1)]

Full(s) == s.size >= Capacity

\* gc drops the accounts that have no pointer when the mempool is full.
PurgedAccounts(s) ==
    IF Full(s) THEN {a \in Account : s.accounts[a].present} \ Pointed(s) ELSE {}

Gc(s) ==
    LET kept == Account \ PurgedAccounts(s)
    IN IF ~Full(s) THEN s
       ELSE [s EXCEPT !.accounts = [a \in Account |-> IF a \in kept THEN @[a] ELSE NoAccount],
                      !.size = Cardinality(TransactionsOf(s, kept))]

TakeMempoolInfo(s) == [Gc(s) EXCEPT !.stashed = {}]
-----------------------------------------------------------------------------
(* What every store satisfies *)

\* Each pointer leads to an account of the store and is the transaction at that
\* account's nonce, and each account that has a transaction at its nonce has a
\* pointer to it: next_transaction neither panics nor overlooks an account.
PointersMatch(s) ==
    s.queue = UNION {At(s.accounts[a], s.accounts[a].nonce) : a \in Account}

\* The counter is the number of L2 transactions held, whatever was replaced,
\* stashed, rolled back or dropped.
SizeIsExact(s) == s.size = Cardinality(TransactionsOf(s, Account))
=============================================================================
