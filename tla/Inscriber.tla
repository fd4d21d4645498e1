----------------------------- MODULE Inscriber -----------------------------
(***************************************************************************)
(* How an inscription gets to Bitcoin (via_btc_client::inscriber): a       *)
(* commit transaction that collects the coins of the sequencer's address   *)
(* and a reveal transaction that spends its outputs and pays the change    *)
(* back.  The inscriber need not wait for confirmations: a queue in memory *)
(* holds the inscriptions sent and not known to be confirmed, and from it  *)
(* follow the coins that are spent already and one that is still to come.  *)
(* Each call to the Bitcoin node is an action; a call may fail, with or    *)
(* without effect, and the process may crash, which loses the queue.       *)
(*                                                                         *)
(* The Bitcoin node is external.  Inscription k has the transactions       *)
(* <<"commit", k>> and <<"reveal", k>>; the same pair names the change     *)
(* output of the transaction, the only one that the address can spend      *)
(* later.  Amounts are left out: a commit without any input cannot pay its *)
(* fee, every other one can.                                               *)
(***************************************************************************)
EXTENDS Integers, Sequences, FiniteSets

CONSTANTS
    Networks,          \* the networks to look at, of {"regtest", "mainnet"}
    Coin,              \* coins sent to the address from outside
    MaxRequests,       \* bound: inscriptions the caller sends
    MaxFailures,       \* bound: failed calls and crashes
    MaxReorgs          \* bound: transactions a reorganisation takes out of a block

ASSUME InscriberAssumption ==
    /\ Networks \subseteq {"regtest", "mainnet"}
    /\ MaxRequests \in Nat /\ MaxFailures \in Nat /\ MaxReorgs \in Nat

VARIABLES
    network,      \* which fetch_utxos the client uses
    coins,        \* the coins of Coin that are on the chain
    status,       \* [Txid -> Status], what the Bitcoin node knows
    inputs,       \* inscription |-> what its commit spends
    sent,         \* inscriptions for which inscribe returned Ok
    fifo_queue,   \* the inscriber's context
    inscriber,    \* local state of the call under way
    faults        \* what is left of the bounds on faults

inscriberVars == <<network, coins, status, inputs, sent, fifo_queue, inscriber, faults>>

\* A failure may leave a commit behind for which there is no inscription.
Inscription == 1 .. MaxRequests + MaxFailures
Txid == {"commit", "reveal"} \X Inscription
Outpoint == Txid \cup ({"coin"} \X Coin)
Status == {"unknown", "mempool", "confirmed"}

\* One outpoint twice among the inputs makes a transaction that no node takes.
NoInputs == [spent |-> {}, twice |-> FALSE]
Inputs == [spent : SUBSET Outpoint, twice : BOOLEAN]

Idle == [pc |-> "idle", current |-> 0]

InscriberTypeOK ==
    /\ network \in Networks
    /\ coins \subseteq Coin
    /\ status \in [Txid -> Status]
    /\ inputs \in [Inscription -> Inputs]
    /\ sent \subseteq Inscription
    /\ fifo_queue \in Seq(Inscription)
    /\ inscriber \in [pc : {"idle", "sync", "fetch", "commit", "reveal"}, current : Nat]
    /\ faults \in [failures : 0 .. MaxFailures, reorgs : 0 .. MaxReorgs]

InscriberInit ==
    /\ network \in Networks
    /\ coins \in SUBSET Coin \ {{}}
    /\ status = [t \in Txid |-> "unknown"]
    /\ inputs = [k \in Inscription |-> NoInputs]
    /\ sent = {}
    /\ fifo_queue = << >>
    /\ inscriber = Idle
    /\ faults = [failures |-> MaxFailures, reorgs |-> MaxReorgs]

-----------------------------------------------------------------------------
(* The Bitcoin node *)

Known == {t \in Txid : status[t] # "unknown"}
Mempool == {t \in Txid : status[t] = "mempool"}
Confirmed == {t \in Txid : status[t] = "confirmed"}

Spends(t) == IF t[1] = "commit" THEN inputs[t[2]].spent ELSE {<<"commit", t[2]>>}
SpentBy(txs) == UNION {Spends(t) : t \in txs}

\* The unspent outputs on the chain that pay the address.
ConfirmedUtxos == (Confirmed \cup ({"coin"} \X coins)) \ SpentBy(Confirmed)

\* A scan of the chain on regtest; elsewhere the wallet of the node, which leaves
\* out what a transaction in the mempool spends.
FetchUtxos ==
    IF network = "regtest" THEN ConfirmedUtxos ELSE ConfirmedUtxos \ SpentBy(Mempool)

\* The transactions txs of the mempool with all that descends from them.
WithDescendants(txs) ==
    {u \in Mempool : \A s \in SUBSET Mempool :
        (txs \subseteq s /\ \A v \in Mempool : Spends(v) \cap s # {} => v \in s) => u \in s}

Conflicts(t) == {u \in Mempool \ {t} : Spends(u) \cap Spends(t) # {}}

\* Transaction t is well formed and its inputs are there.
Valid(t) ==
    /\ t[1] = "commit" => ~inputs[t[2]].twice
    /\ Spends(t) \subseteq Known \cup ({"coin"} \X coins)
    /\ Spends(t) \cap SpentBy(Confirmed) = {}
    /\ Spends(t) \cap WithDescendants(Conflicts(t)) = {}

\* sendrawtransaction accepts t: the inputs signal that they may be replaced, so
\* if the fees suffice t drives out what it conflicts with.
AcceptTx(t) ==
    /\ Valid(t)
    /\ status' = [u \in Txid |-> CASE u = t -> "mempool"
                                   [] u \in WithDescendants(Conflicts(t)) -> "unknown"
                                   [] OTHER -> status[u]]

\* Or it does not, for certain only if nothing is wrong with t.
MayReject(t) == ~Valid(t) \/ Conflicts(t) # {}

\* A block with t in it.
Mine(t) ==
    /\ t \in Mempool
    /\ Spends(t) \cap Mempool = {}
    /\ status' = [status EXCEPT ![t] = "confirmed"]
    /\ UNCHANGED <<network, coins, inputs, sent, fifo_queue, inscriber, faults>>

\* t goes back to the mempool.
Reorg(t) ==
    /\ faults.reorgs > 0
    /\ t \in Confirmed
    /\ ~\E u \in Confirmed : t \in Spends(u)
    /\ status' = [status EXCEPT ![t] = "mempool"]
    /\ faults' = [faults EXCEPT !.reorgs = @ - 1]
    /\ UNCHANGED <<network, coins, inputs, sent, fifo_queue, inscriber>>

\* Somebody pays the address.
Fund(c) ==
    /\ c \notin coins
    /\ coins' = coins \cup {c}
    /\ UNCHANGED <<network, status, inputs, sent, fifo_queue, inscriber, faults>>

-----------------------------------------------------------------------------
(* The inscriber *)

Failure == faults.failures > 0 /\ faults' = [faults EXCEPT !.failures = @ - 1]

\* The manager calls inscribe, however many inscriptions are unconfirmed: a new
\* request needs a free slot, but a request that is in flight is sent again without.
Inscribe ==
    /\ inscriber.pc = "idle"
    /\ Cardinality(sent) < MaxRequests
    /\ inscriber' = [inscriber EXCEPT !.pc = "sync"]
    /\ UNCHANGED <<network, coins, status, inputs, sent, fifo_queue, faults>>

\* An entry that is confirmed is put back as well.
BugSyncContext ==
    /\ inscriber.pc = "sync"
    /\ fifo_queue # << >> => status[<<"reveal", Head(fifo_queue)>>] # "unknown"
    /\ inscriber' = [inscriber EXCEPT !.pc = "fetch"]
    /\ UNCHANGED <<network, coins, status, inputs, sent, fifo_queue, faults>>

\* One turn of sync_context_with_blockchain: check_tx_confirmation of the reveal
\* at the front, which is put back if it has no confirmation.
SyncContext ==
    /\ inscriber.pc = "sync"
    /\ fifo_queue # << >> => status[<<"reveal", Head(fifo_queue)>>] # "unknown"
    /\ IF fifo_queue # << >> /\ status[<<"reveal", Head(fifo_queue)>>] = "confirmed"
         THEN fifo_queue' = Tail(fifo_queue) /\ UNCHANGED inscriber
         ELSE inscriber' = [inscriber EXCEPT !.pc = "fetch"] /\ UNCHANGED fifo_queue
    /\ UNCHANGED <<network, coins, status, inputs, sent, faults>>

\* check_tx_confirmation fails, as it must when the node does not know the
\* transaction: the call ends, and the entry has left the queue.
SyncContextError ==
    /\ inscriber.pc = "sync"
    /\ fifo_queue # << >>
    /\ IF status[<<"reveal", Head(fifo_queue)>>] = "unknown" THEN UNCHANGED faults ELSE Failure
    /\ fifo_queue' = Tail(fifo_queue)
    /\ inscriber' = [inscriber EXCEPT !.pc = "idle"]
    /\ UNCHANGED <<network, coins, status, inputs, sent>>

\* What the inscriptions of the queue have spent: the inputs of their commits, the
\* change of the commits and that of every reveal but the last.
SpentUtxos ==
    UNION {inputs[fifo_queue[i]].spent \cup {<<"commit", fifo_queue[i]>>} :
              i \in DOMAIN fifo_queue}
    \cup {<<"reveal", fifo_queue[i]>> : i \in 1 .. Len(fifo_queue) - 1}

\* The coin the context adds: the change of the reveal at the front.
HeadUtxo == IF fifo_queue = << >> THEN {} ELSE {<<"reveal", Head(fifo_queue)>>}

\* prepare_commit_tx_input: every coin there is.
CommitTxInput ==
    LET utxos == FetchUtxos \ SpentUtxos
    IN [spent |-> utxos \cup HeadUtxo, twice |-> utxos \cap HeadUtxo # {}]

\* The rest of prepare_inscribe: the coins, the fee and the two transactions.
Prepare ==
    /\ inscriber.pc = "fetch"
    /\ CommitTxInput.spent # {}
    /\ LET k == inscriber.current + 1
       IN /\ inputs' = [inputs EXCEPT ![k] = CommitTxInput]
          /\ inscriber' = [pc |-> "commit", current |-> k]
    /\ UNCHANGED <<network, coins, status, sent, fifo_queue, faults>>

\* The coins do not pay the fee, or a call fails.
PrepareError ==
    /\ inscriber.pc = "fetch"
    /\ IF CommitTxInput.spent = {} THEN UNCHANGED faults ELSE Failure
    /\ inscriber' = [inscriber EXCEPT !.pc = "idle"]
    /\ UNCHANGED <<network, coins, status, inputs, sent, fifo_queue>>

\* broadcast_inscription: the commit.
BroadcastCommit ==
    /\ inscriber.pc = "commit"
    /\ AcceptTx(<<"commit", inscriber.current>>)
    /\ inscriber' = [inscriber EXCEPT !.pc = "reveal"]
    /\ UNCHANGED <<network, coins, inputs, sent, fifo_queue, faults>>

\* The inscription is not put into the queue.
BugBroadcastReveal ==
    /\ inscriber.pc = "reveal"
    /\ AcceptTx(<<"reveal", inscriber.current>>)
    /\ sent' = sent \cup {inscriber.current}
    /\ inscriber' = [inscriber EXCEPT !.pc = "idle"]
    /\ UNCHANGED <<network, coins, inputs, fifo_queue, faults>>

\* The reveal, and insert_inscription_to_context.
BroadcastReveal ==
    /\ inscriber.pc = "reveal"
    /\ AcceptTx(<<"reveal", inscriber.current>>)
    /\ sent' = sent \cup {inscriber.current}
    /\ fifo_queue' = Append(fifo_queue, inscriber.current)
    /\ inscriber' = [inscriber EXCEPT !.pc = "idle"]
    /\ UNCHANGED <<network, coins, inputs, faults>>

\* Nothing is left of a commit that the node has not seen.
ForgetCommit ==
    /\ inscriber' = [pc |-> "idle", current |-> inscriber.current - 1]
    /\ inputs' = [inputs EXCEPT ![inscriber.current] = NoInputs]

\* The node rejects the commit, or the call fails; the commit may have got through
\* all the same.
BroadcastCommitError ==
    /\ inscriber.pc = "commit"
    /\ LET t == <<"commit", inscriber.current>>
       IN \/ MayReject(t) /\ ForgetCommit /\ UNCHANGED <<status, faults>>
          \/ Failure /\ ForgetCommit /\ UNCHANGED status
          \/ /\ Failure /\ AcceptTx(t)
             /\ inscriber' = [inscriber EXCEPT !.pc = "idle"] /\ UNCHANGED inputs
    /\ UNCHANGED <<network, coins, sent, fifo_queue>>

\* The same for the reveal; the commit stays out.
BroadcastRevealError ==
    /\ inscriber.pc = "reveal"
    /\ LET t == <<"reveal", inscriber.current>>
       IN \/ MayReject(t) /\ UNCHANGED <<status, faults>>
          \/ Failure /\ (AcceptTx(t) \/ UNCHANGED status)
    /\ inscriber' = [inscriber EXCEPT !.pc = "idle"]
    /\ UNCHANGED <<network, coins, inputs, sent, fifo_queue>>

\* The process ends and starts again; the context is not stored.
Crash ==
    /\ Failure
    /\ IF inscriber.pc = "commit"
         THEN ForgetCommit
         ELSE inscriber' = [inscriber EXCEPT !.pc = "idle"] /\ UNCHANGED inputs
    /\ fifo_queue' = << >>
    /\ UNCHANGED <<network, coins, status, sent>>

InscriberStep ==
    \/ SyncContext \/ SyncContextError \/ Prepare \/ PrepareError
    \/ BroadcastCommit \/ BroadcastReveal \/ BroadcastCommitError \/ BroadcastRevealError

InscriberNext ==
    \/ Inscribe \/ InscriberStep \/ Crash
    \/ \E t \in Txid : Mine(t) \/ Reorg(t)
    \/ \E c \in Coin : Fund(c)

\* The manager's loop calls again after an error; miners take what is in the
\* mempool.  Nobody has to pay the address.
InscriberSpec ==
    /\ InscriberInit /\ [][InscriberNext]_inscriberVars
    /\ WF_inscriberVars(Inscribe) /\ WF_inscriberVars(InscriberStep)
    /\ WF_inscriberVars(\E t \in Txid : Mine(t))

-----------------------------------------------------------------------------
(* Properties *)

\* An inscription that inscribe has returned stays with the Bitcoin node, unless the
\* queue holds an older one: of all that is sent, and sent again, without waiting, the
\* oldest is never driven out by a commit that spends the same coin.  (A younger one
\* may be: the coin the context adds is the change of the oldest, whoever has spent
\* it.)  The exceptions: a reorganisation, and where the chain is scanned for coins
\* (regtest) a failed call or a crash, after which the queue no longer says all that
\* is spent.
OldestIsNotReplaced ==
    [][\A k \in sent : status[<<"reveal", k>>] # "unknown" /\ status'[<<"reveal", k>>] = "unknown"
          => \/ \E i \in DOMAIN fifo_queue : fifo_queue[i] < k
             \/ faults.reorgs < MaxReorgs
             \/ network = "regtest" /\ faults.failures < MaxFailures]_inscriberVars

\* An inscription that is asked for is sent at last, whatever has failed: neither a
\* lost queue nor a commit without a reveal nor an input named twice blocks the
\* calls that follow.
InscribeSucceeds ==
    \A n \in 0 .. MaxRequests - 1 :
        (inscriber.pc = "sync" /\ Cardinality(sent) = n) ~> Cardinality(sent) > n
=============================================================================
