------------------------------- MODULE Mempool -------------------------------
(***************************************************************************)
(* The way of a transaction from the database into an L2 block: the API     *)
(* and BTC watch insert rows of `transactions`, the mempool fetcher          *)
(* (mempool_actor.rs) moves them into the store, the state keeper            *)
(* (io/mempool.rs, keeper.rs) takes them from there, executes them, and      *)
(* seals L2 blocks and L1 batches, and the L2 block sealer (persistence.rs)   *)
(* writes the blocks to the database behind its back.                        *)
(***************************************************************************)
EXTENDS MempoolStore, SequencesExt

CONSTANTS
    SyncBatchSize,          \* sync_batch_size
    SealQueueCapacity,      \* l2_block_seal_queue_capacity (zero: a synchronous sealer)
    RemoveStuckTxs,         \* remove_stuck_txs
    Price,                  \* fees per gas that L1 prices may ask for
    MaxSubmitted,           \* bound: transactions submitted
    MaxRestarts             \* bound: restarts of the node

ASSUME FetcherAssumption ==
    /\ SyncBatchSize \in Nat /\ SealQueueCapacity \in Nat \ {0} /\ RemoveStuckTxs \in BOOLEAN
    /\ Price \subseteq Nat /\ Price # {}
    /\ MaxSubmitted \in Nat /\ MaxRestarts \in Nat

VARIABLES
    rows,        \* [Tx -> Row]: the table `transactions`
    arrived,     \* transactions submitted so far
    ledger,      \* transactions of the L2 blocks with a header: the deposits in
                 \* their order, and the others, each at its nonce
    unbatched,   \* whether some of these blocks are in no sealed L1 batch
    store,       \* the store behind MempoolGuard's lock
    fetcher,     \* local state of the fetcher
    keeper,      \* local state of the state keeper
    sealer,      \* blocks submitted to the L2 block sealer, and its state
    restarts     \* what is left of MaxRestarts

dbVars == <<rows, arrived, ledger, unbatched>>
mempoolVars == <<dbVars, store, fetcher, keeper, sealer, restarts>>

Row == [present : BOOLEAN, in_mempool : BOOLEAN, error : BOOLEAN, in_block : BOOLEAN]
NoRow == [present |-> FALSE, in_mempool |-> FALSE, error |-> FALSE, in_block |-> FALSE]
NewRow == [NoRow EXCEPT !.present = TRUE]
Executed == [NewRow EXCEPT !.in_block = TRUE]
NoNonces == [a \in Account |-> 0]
None == 0

IdleFetcher == [pc |-> "info", stashed |-> {}, purged |-> {}, transactions |-> {},
                nonces |-> NoNonces]
IdleSealer == [queue |-> << >>, marked |-> FALSE]

\* How far the given transactions move the nonce of an account.
NonceAfter(txs, a) ==
    Cardinality({i \in DOMAIN txs : ~IsL1(txs[i]) /\ AccountOf(txs[i]) = a})
CommittedNonce(a) == Cardinality({t \in ledger.l2 : AccountOf(t) = a})
InLedger(t) == t \in ToSet(ledger.l1) \cup ledger.l2
\* Transactions executed that the database does not know of.
InMemory == FlattenSeq(sealer.queue) \o keeper.open
BatchIsEmpty == ~unbatched /\ InMemory = << >>

MempoolTypeOK ==
    /\ rows \in [Tx -> Row] /\ arrived \subseteq Tx
    /\ ledger \in [l1 : Seq(Tx), l2 : SUBSET Tx] /\ unbatched \in BOOLEAN
    /\ store \in MempoolStore
    /\ fetcher \in [pc : {"info", "stash", "purge", "select", "nonces", "insert"},
                    stashed : SUBSET Account, purged : SUBSET Account,
                    transactions : SUBSET Tx, nonces : [Account -> Nat]]
    /\ keeper \in [pc : {"batch", "ready", "execute", "reinsert", "reject", "seal",
                         "panicked"},
                   filter : Nat, tx : Tx \cup {None}, open : Seq(Tx)]
    /\ sealer \in [queue : Seq(Seq(Tx)), marked : BOOLEAN]
    /\ restarts \in 0 .. MaxRestarts

MempoolInit ==
    /\ rows = [t \in Tx |-> NoRow] /\ arrived = {}
    /\ ledger = [l1 |-> << >>, l2 |-> {}] /\ unbatched = FALSE
    /\ store = NewStore(0)
    /\ fetcher = IdleFetcher
    /\ keeper = [pc |-> "batch", filter |-> 0, tx |-> None, open |-> << >>]
    /\ sealer = IdleSealer
    /\ restarts = MaxRestarts
-----------------------------------------------------------------------------
(* The API and BTC watch *)

Rivals(t) == {u \in Tx : rows[u].present /\ SameNonce(t, u)}

MaySubmit(t) == t \notin arrived /\ Cardinality(arrived) < MaxSubmitted

\* insert_transaction_l2: a transaction replaces one with the same nonce that is
\* not in a block yet.
InsertTransactionL2(t) ==
    /\ ~IsL1(t) /\ MaySubmit(t)
    /\ arrived' = arrived \cup {t}
    /\ rows' = IF \E u \in Rivals(t) : rows[u].in_block THEN rows
               ELSE [u \in Tx |-> CASE u = t -> NewRow
                                    [] u # t /\ u \in Rivals(t) -> NoRow
                                    [] OTHER -> rows[u]]
    /\ UNCHANGED <<ledger, unbatched, store, fetcher, keeper, sealer, restarts>>

\* insert_transaction_l1: BTC watch stores deposits in the order of their ids.
InsertTransactionL1(t) ==
    /\ IsL1(t) /\ MaySubmit(t)
    /\ \A u \in Tx : IsL1(u) /\ NonceOf(u) < NonceOf(t) => u \in arrived
    /\ arrived' = arrived \cup {t}
    /\ rows' = [rows EXCEPT ![t] = NewRow]
    /\ UNCHANGED <<ledger, unbatched, store, fetcher, keeper, sealer, restarts>>
-----------------------------------------------------------------------------
(* The fetcher: one iteration of its loop *)

FetcherRest == <<arrived, ledger, unbatched, keeper, sealer, restarts>>

\* An UPDATE or DELETE for no account changes nothing and is left out.
GetMempoolInfo ==
    /\ fetcher.pc = "info" /\ keeper.pc # "panicked"
    /\ store' = TakeMempoolInfo(store)
    /\ fetcher' = [fetcher EXCEPT
         !.pc = CASE store.stashed # {} -> "stash"
                  [] store.stashed = {} /\ PurgedAccounts(store) # {} -> "purge"
                  [] OTHER -> "select",
         !.stashed = store.stashed, !.purged = PurgedAccounts(store)]
    /\ UNCHANGED <<rows, FetcherRest>>

UpdateStashed ==
    /\ fetcher.pc = "stash"
    /\ rows' = [t \in Tx |-> IF AccountOf(t) \in fetcher.stashed
                             THEN [rows[t] EXCEPT !.in_mempool = FALSE] ELSE rows[t]]
    /\ fetcher' = [fetcher EXCEPT !.pc = IF fetcher.purged # {} THEN "purge" ELSE "select",
                                  !.stashed = {}]
    /\ UNCHANGED <<store, FetcherRest>>

DeletePurged ==
    /\ fetcher.pc = "purge"
    /\ rows' = [t \in Tx |-> IF AccountOf(t) \in fetcher.purged /\ rows[t].in_mempool
                             THEN NoRow ELSE rows[t]]
    /\ fetcher' = [fetcher EXCEPT !.pc = "select", !.purged = {}]
    /\ UNCHANGED <<store, FetcherRest>>

\* ORDER BY is_priority DESC, priority_op_id, received_at.
Precedes(t, u) ==
    CASE IsL1(t) /\ IsL1(u)   -> NonceOf(t) < NonceOf(u)
      [] ~IsL1(t) /\ ~IsL1(u) -> t < u
      [] OTHER                -> IsL1(t)

SyncMempool(fee) ==
    LET found  == {t \in Tx : /\ rows[t].present /\ ~rows[t].in_block
                              /\ ~rows[t].in_mempool /\ ~rows[t].error
                              /\ IsL1(t) \/ Submitted[t].fee >= fee}
        synced == {t \in found :
                    Cardinality({u \in found : Precedes(u, t)}) < SyncBatchSize}
    IN /\ fetcher.pc = "select"
       /\ rows' = [t \in Tx |-> IF t \in synced
                                THEN [rows[t] EXCEPT !.in_mempool = TRUE] ELSE rows[t]]
       /\ fetcher' = [fetcher EXCEPT !.pc = "nonces", !.transactions = synced]
       /\ UNCHANGED <<store, FetcherRest>>

\* The nonces after the last L2 block that has a header.
GetTransactionNonces ==
    /\ fetcher.pc = "nonces"
    /\ fetcher' = [fetcher EXCEPT !.pc = "insert",
         !.nonces = [a \in Account |->
            IF \E t \in fetcher.transactions : AccountOf(t) = a THEN CommittedNonce(a) ELSE 0]]
    /\ UNCHANGED <<rows, store, FetcherRest>>

InsertTransactions ==
    /\ fetcher.pc = "insert" /\ keeper.pc # "panicked"
    /\ store' = Insert(store, fetcher.transactions, fetcher.nonces)
    /\ fetcher' = IdleFetcher
    /\ UNCHANGED <<rows, FetcherRest>>

FetcherStep ==
    \/ GetMempoolInfo \/ UpdateStashed \/ DeletePurged
    \/ \E fee \in Price : SyncMempool(fee)
    \/ GetTransactionNonces \/ InsertTransactions
-----------------------------------------------------------------------------
(* The state keeper *)

KeeperRest == <<arrived, ledger, fetcher, restarts>>

\* wait_for_new_batch_params: the filter of the whole batch is fixed here.
WaitForNewBatchParams(fee) ==
    /\ keeper.pc = "batch"
    /\ HasNext(store, fee)
    /\ keeper' = [keeper EXCEPT !.pc = "ready", !.filter = fee]
    /\ UNCHANGED <<rows, unbatched, store, sealer, KeeperRest>>

TakeTransactionL1 ==
    /\ keeper.pc = "ready"
    /\ \E t \in NextL1(store) : keeper' = [keeper EXCEPT !.pc = "execute", !.tx = t]
    /\ store' = TakeL1(store)
    /\ UNCHANGED <<rows, unbatched, sealer, KeeperRest>>

TakeTransactionL2 ==
    /\ keeper.pc = "ready"
    /\ NextL1(store) = {} /\ Matching(store, keeper.filter) # {}
    /\ ~NextPanics(store, keeper.filter)
    /\ \E t \in NextL2(store, keeper.filter) :
         keeper' = [keeper EXCEPT !.pc = "execute", !.tx = t]
    /\ store' = TakeL2(store, keeper.filter)
    /\ UNCHANGED <<rows, unbatched, sealer, KeeperRest>>

\* The VM accepts an L2 transaction at the nonce its account has after all
\* transactions before it.
VmAccepts(t) ==
    LET a == AccountOf(t)
    IN IsL1(t) \/ NonceOf(t) = CommittedNonce(a) + NonceAfter(InMemory, a)

\* NoSeal, IncludeAndSeal.
IncludeTransaction(pc) ==
    /\ keeper.pc = "execute" /\ VmAccepts(keeper.tx)
    /\ keeper' = [keeper EXCEPT !.pc = pc, !.open = Append(@, keeper.tx), !.tx = None]
    /\ UNCHANGED <<rows, unbatched, store, sealer, KeeperRest>>

\* ExcludeAndSeal, for any transaction but the first of a batch, also before its
\* nonce is looked at: io.rollback takes the lock twice.
ExcludeTransaction ==
    /\ keeper.pc = "execute" /\ ~BatchIsEmpty
    /\ ~RollbackPanics(store, keeper.tx)
    /\ store' = Rollback(store, keeper.tx)
    /\ keeper' = [keeper EXCEPT !.pc = "reinsert"]
    /\ UNCHANGED <<rows, unbatched, sealer, KeeperRest>>

\* Mutant: the transaction is not inserted again.
BugReinsertTransaction ==
    /\ keeper.pc = "reinsert"
    /\ keeper' = [keeper EXCEPT !.pc = "seal", !.tx = None]
    /\ UNCHANGED <<rows, unbatched, store, sealer, KeeperRest>>

ReinsertTransaction ==
    /\ keeper.pc = "reinsert"
    /\ store' = Insert(store, {keeper.tx}, NoNonces)
    /\ keeper' = [keeper EXCEPT !.pc = "seal", !.tx = None]
    /\ UNCHANGED <<rows, unbatched, sealer, KeeperRest>>

\* Unexecutable, or a gas limit that wait_for_next_tx refuses: the mempool
\* first, the database later.  L1 transactions are always executable.
RejectTransaction ==
    /\ keeper.pc = "execute" /\ ~IsL1(keeper.tx)
    /\ ~RollbackPanics(store, keeper.tx)
    /\ store' = Rollback(store, keeper.tx)
    /\ keeper' = [keeper EXCEPT !.pc = "reject"]
    /\ UNCHANGED <<rows, unbatched, sealer, KeeperRest>>

MarkTxAsRejected ==
    /\ keeper.pc = "reject"
    /\ rows' = IF rows[keeper.tx].present THEN [rows EXCEPT ![keeper.tx].error = TRUE]
               ELSE rows
    /\ keeper' = [keeper EXCEPT !.pc = "ready", !.tx = None]
    /\ UNCHANGED <<unbatched, store, sealer, KeeperRest>>

\* An expect of the store fails while its lock is held: the fetcher fails at the
\* lock, and the node goes down.
Panic ==
    /\ \/ keeper.pc = "ready" /\ NextPanics(store, keeper.filter)
       \/ keeper.pc = "execute" /\ RollbackPanics(store, keeper.tx)
    /\ keeper' = [keeper EXCEPT !.pc = "panicked"]
    /\ UNCHANGED <<rows, unbatched, store, sealer, KeeperRest>>

\* The L2 block is full or its deadline has passed, or its batch is sealed.
SealL2Block ==
    /\ keeper.pc \in {"ready", "seal"} /\ keeper.open # << >>
    /\ Len(sealer.queue) <= SealQueueCapacity
    /\ sealer' = [sealer EXCEPT !.queue = Append(@, keeper.open)]
    /\ keeper' = [keeper EXCEPT !.open = << >>]
    /\ UNCHANGED <<rows, unbatched, store, KeeperRest>>

\* The deadline of the batch.
SealL1BatchUnconditionally ==
    /\ keeper.pc = "ready" /\ ~BatchIsEmpty
    /\ keeper' = [keeper EXCEPT !.pc = "seal"]
    /\ UNCHANGED <<rows, unbatched, store, sealer, KeeperRest>>

\* handle_l1_batch waits for the L2 blocks of the batch.
SealL1Batch ==
    /\ keeper.pc = "seal" /\ InMemory = << >>
    /\ unbatched' = FALSE
    /\ keeper' = [keeper EXCEPT !.pc = "batch"]
    /\ UNCHANGED <<rows, store, sealer, KeeperRest>>

KeeperStep ==
    \/ \E fee \in Price : WaitForNewBatchParams(fee)
    \/ TakeTransactionL1 \/ TakeTransactionL2
    \/ \E pc \in {"ready", "seal"} : IncludeTransaction(pc)
    \/ ExcludeTransaction \/ ReinsertTransaction
    \/ RejectTransaction \/ MarkTxAsRejected
    \/ Panic
    \/ SealL2Block \/ SealL1BatchUnconditionally \/ SealL1Batch
-----------------------------------------------------------------------------
(* The L2 block sealer *)

SealerRest == <<arrived, store, fetcher, keeper, restarts>>

\* Mutant: rows are found by the hash, as those of L1 transactions are.
BugMarkTxsAsExecuted ==
    LET txs == ToSet(Head(sealer.queue))
    IN /\ sealer.queue # << >> /\ ~sealer.marked
       /\ rows' = [t \in Tx |-> IF t \in txs /\ rows[t].present THEN Executed ELSE rows[t]]
       /\ sealer' = [sealer EXCEPT !.marked = TRUE]
       /\ UNCHANGED <<ledger, unbatched, SealerRest>>

\* An executed L2 transaction takes over the row of its account and nonce, also
\* if it was replaced; nothing is updated if the row is gone.
UpdateExecutedL2(t) == IF Rivals(t) # {} THEN Executed ELSE NoRow
UpdateExecutedL1(t) == IF rows[t].present THEN Executed ELSE NoRow

MarkTxsAsExecuted ==
    LET txs == ToSet(Head(sealer.queue))
    IN /\ sealer.queue # << >> /\ ~sealer.marked
       /\ rows' = [t \in Tx |->
            CASE t \in txs /\ IsL1(t) -> UpdateExecutedL1(t)
              [] t \in txs /\ ~IsL1(t) -> UpdateExecutedL2(t)
              [] t \notin txs /\ (\E u \in txs : SameNonce(t, u)) -> NoRow
              [] OTHER -> rows[t]]
       /\ sealer' = [sealer EXCEPT !.marked = TRUE]
       /\ UNCHANGED <<ledger, unbatched, SealerRest>>

\* The header comes last: with it the block counts.
InsertL2BlockHeader ==
    /\ sealer.marked
    /\ ledger' = [l1 |-> ledger.l1 \o SelectSeq(Head(sealer.queue), IsL1),
                  l2 |-> ledger.l2 \cup {t \in ToSet(Head(sealer.queue)) : ~IsL1(t)}]
    /\ unbatched' = TRUE
    /\ sealer' = [queue |-> Tail(sealer.queue), marked |-> FALSE]
    /\ UNCHANGED <<rows, SealerRest>>

SealerStep == MarkTxsAsExecuted \/ InsertL2BlockHeader
-----------------------------------------------------------------------------
(* Restart *)

\* Mutant: blocks without a header count, too.
BugNextPriorityId ==
    Max({-1} \cup {NonceOf(t) : t \in {u \in Tx : IsL1(u) /\ rows[u].in_block}}) + 1

\* MempoolGuard::from_storage with next_priority_id.
NextPriorityId ==
    Max({-1} \cup {NonceOf(t) : t \in {u \in ToSet(ledger.l1) : rows[u].in_block}}) + 1

\* clear_pending_l2_block resets the rows of a block without header;
\* remove_stuck_txs deletes old rows, before or after that.
Pending(t) == rows[t].in_block /\ ~InLedger(t)
Stuck(t, k, late) ==
    /\ t <= k /\ ~IsL1(t) /\ rows[t].present
    /\ (~rows[t].in_block /\ ~rows[t].error) \/ (late /\ Pending(t))

\* A batch with L2 blocks in the database is restored, with its filter; these are
\* executed again with the same results.
RestoreState ==
    [keeper EXCEPT !.pc = IF unbatched THEN "ready" ELSE "batch",
                   !.tx = None, !.open = << >>]

Restart(k, late) ==
    /\ restarts > 0 /\ restarts' = restarts - 1
    /\ rows' = [t \in Tx |->
         CASE Stuck(t, k, late) -> NoRow
           [] ~Stuck(t, k, late) /\ Pending(t) -> NewRow
           [] OTHER -> [rows[t] EXCEPT !.in_mempool = FALSE]]
    /\ store' = NewStore(NextPriorityId)
    /\ fetcher' = IdleFetcher
    /\ sealer' = IdleSealer
    /\ keeper' = RestoreState
    /\ UNCHANGED <<arrived, ledger, unbatched>>

MempoolNext ==
    \/ \E t \in Tx : InsertTransactionL2(t) \/ InsertTransactionL1(t)
    \/ FetcherStep
    \/ KeeperStep
    \/ SealerStep
    \/ \E k \in IF RemoveStuckTxs THEN Tx \cup {0} ELSE {0}, late \in BOOLEAN : Restart(k, late)

MempoolSpec == MempoolInit /\ [][MempoolNext]_mempoolVars

MempoolFairSpec ==
    /\ MempoolSpec
    /\ WF_mempoolVars(FetcherStep) /\ WF_mempoolVars(KeeperStep) /\ WF_mempoolVars(SealerStep)
-----------------------------------------------------------------------------
(* Properties *)

\* The redundant parts of the store agree, although the fetcher inserts, stashes and
\* drops accounts while the keeper takes transactions and rolls them back: the
\* pointers of the priority queue point at transactions (mempool_store.rs, "dangling
\* pointer in priority queue", and types.rs, "missing transaction in mempool"), and
\* the size that decides on gc is the number of L2 transactions held.
StoreIsConsistent == PointersMatch(store) /\ SizeIsExact(store)

\* Deposits are executed in the order of their priority ids, each once, and the
\* next id of the store (next_transaction, rollback, next_priority_id) is never
\* past one that is still to be executed: across rollbacks, rows that come back
\* from the database, and a crash between marking transactions and the header.
PriorityOpsInOrder ==
    LET l1   == ledger.l1 \o SelectSeq(InMemory, IsL1)
        sent == IF keeper.pc = "execute" /\ IsL1(keeper.tx) THEN 1 ELSE 0
    IN /\ \A i \in DOMAIN l1 : NonceOf(l1[i]) = i - 1
       /\ store.next_priority_id <= Len(l1) + sent

\* The nonce of an account in the store "equals to committed nonce in db + number
\* of transactions sent to state keeper" (types.rs): blocks that are sealed in
\* memory, rejections, rollbacks, replaced transactions and restarts leave no
\* account ahead of or behind what the VM will accept.
Sent(a) ==
    NonceAfter(InMemory, a)
    + (IF keeper.pc = "execute" /\ ~IsL1(keeper.tx) /\ AccountOf(keeper.tx) = a THEN 1 ELSE 0)
NonceIsExact ==
    \A a \in Account : store.accounts[a].present =>
        store.accounts[a].nonce = CommittedNonce(a) + Sent(a)

\* Each transaction of an L2 block with a header has a row that says so, also when
\* it was replaced in the database after it was taken ("it's possible that tx has
\* been replaced, but the original was executed in memory").
ExecutedIsRecorded == \A t \in Tx : InLedger(t) => rows[t] = Executed

\* A deposit, and an L2 transaction whose nonce is the next of its account, is in
\* the end put into a block or rejected, or removed by remove_stuck_txs, also
\* after a restart.  Transactions that replace one another are left out: one that
\* is fetched while the replaced one is executed is skipped as too old, and when
\* that one is rejected nothing fetches it again before a restart.
NextIsExecuted ==
    \A t \in {u \in Tx : \A v \in Tx \ {u} : ~SameNonce(u, v)} :
        (rows[t].present /\ (IsL1(t) \/ NonceOf(t) = CommittedNonce(AccountOf(t))))
        ~> (rows[t].error \/ rows[t].in_block \/ ~rows[t].present)
=============================================================================
