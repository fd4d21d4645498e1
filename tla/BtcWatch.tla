------------------------------ MODULE BtcWatch ------------------------------
(***************************************************************************)
(* The task that turns deposits on Bitcoin into L1 transactions            *)
(* (via_btc_watch).  It polls the height of the chain, reads the blocks    *)
(* that have enough confirmations, gives each deposit it does not know the *)
(* next priority id and stores it.  The position in the chain and the next *)
(* id are kept in memory; after a start, and in part after a database      *)
(* error, they are computed again from the transactions table.             *)
(*                                                                         *)
(* Bitcoin is external: chain[n] is the sequence of the deposits in block  *)
(* n.  A reorganisation replaces at most Confirmations blocks.  A deposit  *)
(* transaction carries one message to the bridge address; other messages   *)
(* are skipped by the code and left out here.                              *)
(***************************************************************************)
EXTENDS Indexer

CONSTANTS
    Deposit,           \* Bitcoin transactions that deposit
    Confirmations,     \* confirmations_for_btc_msg
    BtcBlocksLag,      \* btc_blocks_lag
    BootstrapLists,    \* the lists of bootstrap transactions a node may be configured with
    InitialHeight,     \* height of the chain when the system is set up
    MaxHeight,         \* bound: height of the chain
    MaxReorgs,         \* bound: reorganisations
    MaxDbErrors,       \* bound: failed queries and writes
    MaxStops           \* bound: crashes and internal errors

ASSUME WatchAssumption ==
    /\ Confirmations \in Nat /\ BtcBlocksLag \in Nat
    /\ InitialHeight \in Nat /\ MaxHeight \in Nat
    /\ MaxReorgs \in Nat /\ MaxDbErrors \in Nat /\ MaxStops \in Nat

VARIABLES
    bootstrap,      \* bootstrap_txids of the configuration, which does not change
    chain,          \* Seq(Seq(Deposit))
    transactions,   \* the L1 rows of the table, in the order of insertion
    watch,          \* local state of the task
    faults          \* what is left of the bounds on faults

watchVars == <<bootstrap, chain, transactions, watch, faults>>

Row == [id : Nat, block : Nat, txid : Deposit]
Message == [block : Nat, txid : Deposit]

\* txs is what BitcoinInscriptionIndexer::new has not read, last is
\* last_processed_bitcoin_block, next is next_expected_priority_id.
StoppedWatch == [pc |-> "stopped", txs |-> << >>,
                 indexer |-> NewBootstrapState, last |-> 0, next |-> 0, to |-> 0,
                 messages |-> << >>, ops |-> << >>]

WatchTypeOK ==
    /\ bootstrap \in BootstrapLists
    /\ chain \in Seq(Seq(Deposit)) /\ Len(chain) \in InitialHeight .. MaxHeight
    /\ transactions \in Seq(Row)
    /\ IsSuffix(watch.txs, bootstrap)
    /\ watch.pc = "stopped" => watch = StoppedWatch
    /\ watch.pc \notin {"stopped", "bootstrap"} => IsComplete(watch.indexer)
    /\ watch \in [pc : {"stopped", "bootstrap", "idle", "read", "process"},
                  txs : {watch.txs}, indexer : {watch.indexer}, last : 0 .. MaxHeight,
                  next : Nat, to : 0 .. MaxHeight, messages : Seq(Message), ops : Seq(Row)]
    /\ faults \in [reorgs : 0 .. MaxReorgs, db : 0 .. MaxDbErrors, stops : 0 .. MaxStops]

WatchInit ==
    /\ bootstrap \in BootstrapLists
    /\ chain = [n \in 1 .. InitialHeight |-> << >>]
    /\ transactions = << >>
    /\ watch = StoppedWatch
    /\ faults = [reorgs |-> MaxReorgs, db |-> MaxDbErrors, stops |-> MaxStops]

SaturatingSub(m, n) == IF m > n THEN m - n ELSE 0

-----------------------------------------------------------------------------
(* Bitcoin *)

DepositsIn(blocks) == UNION {ToSet(blocks[n]) : n \in DOMAIN blocks}

\* What a new block on top of blocks may hold.
NewBlocks(blocks) ==
    LET free == Deposit \ DepositsIn(blocks)
    IN {block \in {<< >>} \cup {<<d>> : d \in free} \cup (free \X free) : IsInjective(block)}

MineBlock ==
    /\ Len(chain) < MaxHeight
    /\ \E block \in NewBlocks(chain) : chain' = Append(chain, block)
    /\ UNCHANGED <<bootstrap, transactions, watch, faults>>

\* The last k blocks give way to k + 1 others.
Reorg ==
    /\ faults.reorgs > 0
    /\ Len(chain) < MaxHeight
    /\ \E k \in 1 .. Confirmations :
          /\ k <= Len(chain)
          /\ LET stem == SubSeq(chain, 1, Len(chain) - k) \o [i \in 1 .. k |-> << >>]
             IN \E block \in NewBlocks(stem) : chain' = Append(stem, block)
    /\ faults' = [faults EXCEPT !.reorgs = @ - 1]
    /\ UNCHANGED <<bootstrap, transactions, watch>>

-----------------------------------------------------------------------------
(* The table *)

GetLastProcessedL1Block == Last(transactions).block

\* Ids are given in increasing order, so the last row has the greatest.
LastPriorityId == Last(transactions).id

TransactionExistsWithTxid(d) == \E i \in DOMAIN transactions : transactions[i].txid = d

InsertTransactionL1(op) == transactions' = Append(transactions, op)

-----------------------------------------------------------------------------
(* The task *)

\* The block of the last row is taken for finished.
BugInitialBlock ==
    IF transactions # << >>
      THEN GetLastProcessedL1Block
      ELSE SaturatingSub(Len(chain), BtcBlocksLag)

\* initialize_state: where the task goes on; the block of the last row is read again.
InitialBlock ==
    IF transactions # << >>
      THEN SaturatingSub(GetLastProcessedL1Block, 1)
      ELSE SaturatingSub(Len(chain), BtcBlocksLag)

\* The id of the last row is given again.
BugInitialPriorityId == IF transactions # << >> THEN LastPriorityId ELSE 0

InitialPriorityId == IF transactions # << >> THEN LastPriorityId + 1 ELSE 0

\* BtcWatch::new begins with BitcoinInscriptionIndexer::new ...
Start ==
    /\ watch.pc = "stopped"
    /\ watch' = [StoppedWatch EXCEPT !.pc = "bootstrap", !.txs = bootstrap]
    /\ UNCHANGED <<bootstrap, chain, transactions, faults>>

\* ... one turn of its loop, which ends early once all is known ...
ReadBootstrapTx ==
    /\ watch.pc = "bootstrap" /\ watch.txs # << >> /\ ~IsComplete(watch.indexer)
    /\ watch' = [watch EXCEPT !.txs = Tail(@),
                              !.indexer = ProcessBootstrapMessage(@, Head(watch.txs))]
    /\ UNCHANGED <<bootstrap, chain, transactions, faults>>

\* ... create_indexer and initialize_state.  With an incomplete bootstrap the node does
\* not start.
Initialize ==
    /\ watch.pc = "bootstrap"
    /\ IsComplete(watch.indexer)
    /\ watch' = [watch EXCEPT !.pc = "idle", !.last = InitialBlock, !.next = InitialPriorityId]
    /\ UNCHANGED <<bootstrap, chain, transactions, faults>>

\* The newest block counts as confirmed once more.
BugConfirmedHeight == SaturatingSub(Len(chain) + 1, Confirmations)

ConfirmedHeight == SaturatingSub(Len(chain), Confirmations)

\* loop_iteration: the height, and the early return when there is nothing new.
FetchBlockHeight ==
    /\ watch.pc = "idle"
    /\ ConfirmedHeight > watch.last
    /\ watch' = [watch EXCEPT !.pc = "read", !.to = ConfirmedHeight]
    /\ UNCHANGED <<bootstrap, chain, transactions, faults>>

\* The messages of blocks first .. to, in the order of the chain.
MessagesOf(first, to) ==
    FlattenSeq([i \in 1 .. to - first + 1 |->
        [j \in DOMAIN chain[first + i - 1] |->
            [block |-> first + i - 1, txid |-> chain[first + i - 1][j]]]])

\* process_blocks; a block before the starting block is an internal error, which
\* ends the task.
ProcessBlocks ==
    /\ watch.pc = "read"
    /\ watch' = IF watch.last + 1 < watch.indexer.start
                  THEN StoppedWatch
                  ELSE [watch EXCEPT !.pc = "process",
                                     !.messages = MessagesOf(watch.last + 1, watch.to)]
    /\ UNCHANGED <<bootstrap, chain, transactions, faults>>

\* create_l1_tx_from_message, with the next id.
CreateL1Tx(message) == [id |-> watch.next, block |-> message.block, txid |-> message.txid]

\* The question whether the deposit is known is not asked.
BugCheckMessage ==
    /\ watch.pc = "process" /\ watch.messages # << >>
    /\ LET message == Head(watch.messages)
       IN watch' = [watch EXCEPT !.messages = Tail(@), !.next = @ + 1,
                                 !.ops = Append(@, CreateL1Tx(message))]
    /\ UNCHANGED <<bootstrap, chain, transactions, faults>>

\* One turn of the first loop of process_messages.
CheckMessage ==
    /\ watch.pc = "process" /\ watch.messages # << >>
    /\ LET message == Head(watch.messages)
       IN watch' = IF TransactionExistsWithTxid(message.txid)
                     THEN [watch EXCEPT !.messages = Tail(@)]
                     ELSE [watch EXCEPT !.messages = Tail(@), !.next = @ + 1,
                                        !.ops = Append(@, CreateL1Tx(message))]
    /\ UNCHANGED <<bootstrap, chain, transactions, faults>>

\* One turn of its second loop.
InsertOp ==
    /\ watch.pc = "process" /\ watch.messages = << >> /\ watch.ops # << >>
    /\ InsertTransactionL1(Head(watch.ops))
    /\ watch' = [watch EXCEPT !.ops = Tail(@)]
    /\ UNCHANGED <<bootstrap, chain, faults>>

\* The iteration is over.
BlocksProcessed ==
    /\ watch.pc = "process" /\ watch.messages = << >> /\ watch.ops = << >>
    /\ watch' = [watch EXCEPT !.pc = "idle", !.last = watch.to]
    /\ UNCHANGED <<bootstrap, chain, transactions, faults>>

\* A failed query or write (whose row may be there all the same): the position is
\* computed again, the next id is not.
AfterDatabaseError ==
    watch' = [watch EXCEPT !.pc = "idle", !.last = InitialBlock',
                           !.messages = << >>, !.ops = << >>]

DatabaseError ==
    /\ faults.db > 0
    /\ watch.pc = "process"
    /\ \/ watch.messages # << >> /\ UNCHANGED transactions
       \/ /\ watch.messages = << >> /\ watch.ops # << >>
          /\ InsertTransactionL1(Head(watch.ops)) \/ UNCHANGED transactions
    /\ UNCHANGED <<bootstrap, chain>>
    /\ AfterDatabaseError
    /\ faults' = [faults EXCEPT !.db = @ - 1]

\* The node crashes, or a call to Bitcoin fails and the task ends with an error,
\* which shuts the node down.
Stop ==
    /\ faults.stops > 0
    /\ watch.pc # "stopped"
    /\ watch' = StoppedWatch
    /\ faults' = [faults EXCEPT !.stops = @ - 1]
    /\ UNCHANGED <<bootstrap, chain, transactions>>

WatchStep ==
    \/ Start \/ ReadBootstrapTx \/ Initialize \/ FetchBlockHeight \/ ProcessBlocks \/ CheckMessage \/ InsertOp
    \/ BlocksProcessed

WatchNext == WatchStep \/ DatabaseError \/ Stop \/ MineBlock \/ Reorg

\* The node is started again and its loop goes on; nobody has to find blocks.
WatchSpec == WatchInit /\ [][WatchNext]_watchVars /\ WF_watchVars(WatchStep)

-----------------------------------------------------------------------------
(* Properties *)

\* Whether the block at height n can no longer be reorganised away.
Final(n) == n + Confirmations <= Len(chain)

Credited(d) == TransactionExistsWithTxid(d)

\* The node works with a sequencer that a majority of its verifiers has voted for, each
\* in the last attestation that refers to the proposal.  Proposals and votes of
\* strangers, votes on something else, votes that come too early or are changed, and a
\* proposal that is replaced before the vote do not make the difference.  The exception
\* is a proposal that is replaced after a vote on it: process_bootstrap_message lets
\* that vote count for the next one.
SequencerIsElected ==
    watch.pc \notin {"stopped", "bootstrap"} =>
        LET read      == SubSeq(bootstrap, 1, Len(bootstrap) - Len(watch.txs))
            verifiers == ToSet(watch.indexer.verifiers)
        IN VoteIsSuperseded(read, verifiers) \/ Elected(read, verifiers, watch.indexer.sequencer)

\* A stored deposit is on the chain, in the block the row names: what was read is
\* not reorganised away, although the height was read some awaits earlier.
CreditedIsOnChain ==
    \A i \in DOMAIN transactions :
        LET row == transactions[i]
        IN row.block \in DOMAIN chain /\ row.txid \in ToSet(chain[row.block])

\* No deposit is credited twice and no id given twice, although blocks are read
\* again after every start and every database error.
CreditedOnce ==
    \A i, j \in DOMAIN transactions : i # j =>
        /\ transactions[i].txid # transactions[j].txid
        /\ transactions[i].id < transactions[j].id <=> i < j

\* The rows from the first one on are the deposits of the chain from there on, in
\* the order of the chain and with none left out, up to what the task has got to:
\* initialize_state concludes from the last row that all before it is done.
NothingIsSkipped ==
    transactions # << >> =>
        LET stored == [i \in DOMAIN transactions |->
                         [block |-> transactions[i].block, txid |-> transactions[i].txid]]
            final == MessagesOf(stored[1].block, ConfirmedHeight)
            first == CHOOSE k \in DOMAIN final : final[k] = stored[1]
        IN /\ stored = SubSeq(final, first, first + Len(stored) - 1)
           /\ watch.pc \notin {"stopped", "bootstrap"} =>
                \A k \in first + Len(stored) .. Len(final) : final[k].block > watch.last

\* The ids of the rows have no gap (the mempool hands out L1 transactions by
\* counting them), whenever the node stops and starts: only a failed call of the
\* database, which is handled without reading the next id again, leaves one.
IdsHaveNoGap ==
    faults.db = MaxDbErrors => \A i \in DOMAIN transactions : transactions[i].id = i - 1

\* Once some deposit is credited, every other one of its block and of the later
\* blocks is, whatever fails in between.
LaterDepositIsCredited ==
    \A d \in Deposit :
        (\E n \in DOMAIN chain : /\ d \in ToSet(chain[n]) /\ Final(n)
                                 /\ \E i \in DOMAIN transactions : transactions[i].block <= n)
        ~> Credited(d)
=============================================================================
