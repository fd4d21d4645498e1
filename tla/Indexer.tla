------------------------------ MODULE Indexer ------------------------------
(***************************************************************************)
(* How the indexer of Bitcoin inscriptions is set up                       *)
(* (via_btc_client/src/indexer): the node's configuration lists bootstrap  *)
(* transactions, and BitcoinInscriptionIndexer::new reads them in this     *)
(* order until it knows the bridge, the verifiers, the first block and a   *)
(* sequencer that the verifiers have voted on.                             *)
(*                                                                         *)
(* A bootstrap transaction carries one message and is the record of it:    *)
(*   kind "system_bootstrapping":  verifiers (a sequence), start           *)
(*   kind "propose_sequencer":     from, sequencer                         *)
(*   kind "validator_attestation": from, reference (a txid), vote          *)
(* each with the txid of the transaction.  The bridge address and the two  *)
(* hashes come and go with the verifiers and are left out.                 *)
(***************************************************************************)
EXTENDS Integers, FiniteSets, FiniteSetsExt, SequencesExt

\* BootstrapState::new.
NoAddress == "none"
NewBootstrapState == [verifiers |-> << >>, sequencer |-> NoAddress, proposal |-> NoAddress,
                      votes |-> << >>, start |-> 0]

\* Not all verifiers have to vote.
BugHasMajorityVotes(state) ==
    LET positive == {v \in DOMAIN state.votes : state.votes[v] = "ok"}
    IN 2 * Cardinality(positive) > Cardinality(DOMAIN state.votes)

HasMajorityVotes(state) ==
    LET positive == {v \in DOMAIN state.votes : state.votes[v] = "ok"}
        total == Cardinality(DOMAIN state.votes)
    IN 2 * Cardinality(positive) > total /\ total = Len(state.verifiers)

IsComplete(state) ==
    /\ state.verifiers # << >> /\ state.start > 0
    /\ state.sequencer # NoAddress /\ HasMajorityVotes(state)

\* HashMap::insert: a later vote of the same verifier replaces the earlier one.
WithVote(votes, from, vote) ==
    [v \in DOMAIN votes \cup {from} |-> IF v = from THEN vote ELSE votes[v]]

\* A new proposal leaves the votes on the one before in place.
ProcessBootstrapMessage(state, tx) ==
    CASE tx.kind = "system_bootstrapping" ->
           [state EXCEPT !.verifiers = tx.verifiers, !.start = tx.start]
      [] tx.kind = "propose_sequencer" /\ Contains(state.verifiers, tx.from) ->
           [state EXCEPT !.sequencer = tx.sequencer, !.proposal = tx.txid]
      [] /\ tx.kind = "validator_attestation" /\ Contains(state.verifiers, tx.from)
         /\ tx.reference = state.proposal ->
           [state EXCEPT !.votes = WithVote(@, tx.from, tx.vote)]
      [] OTHER -> state

-----------------------------------------------------------------------------
(* What the verifiers meant, read off the list as a whole *)

\* Where one of the verifiers makes a proposal.
Proposals(txs, verifiers) ==
    {i \in DOMAIN txs : txs[i].kind = "propose_sequencer" /\ txs[i].from \in verifiers}

\* Where verifier v attests to transaction txid, wherever that is in the list.
Attestations(txs, v, txid) ==
    {j \in DOMAIN txs :
        /\ txs[j].kind = "validator_attestation"
        /\ txs[j].from = v /\ txs[j].reference = txid}

\* The verifiers whose last word on proposal i is in favour.
InFavour(txs, verifiers, i) ==
    {v \in verifiers :
        LET votes == Attestations(txs, v, txs[i].txid)
        IN votes # {} /\ txs[Max(votes)].vote = "ok"}

\* A majority of the verifiers is for one proposal that names the sequencer.
Elected(txs, verifiers, sequencer) ==
    \E i \in Proposals(txs, verifiers) :
        /\ txs[i].sequencer = sequencer
        /\ 2 * Cardinality(InFavour(txs, verifiers, i)) > Cardinality(verifiers)

\* A verifier has voted on a proposal before it was replaced by another one.
VoteIsSuperseded(txs, verifiers) ==
    \E i, j \in Proposals(txs, verifiers), v \in verifiers :
        \E k \in Attestations(txs, v, txs[i].txid) : i < k /\ k < j
============================================================================
