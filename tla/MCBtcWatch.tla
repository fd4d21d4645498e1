----------------------------- MODULE MCBtcWatch -----------------------------
(* Lists of bootstrap transactions for three verifiers. *)
EXTENDS BtcWatch

SystemBootstrapping(start) ==
    [kind |-> "system_bootstrapping", txid |-> "boot", verifiers |-> <<"v1", "v2", "v3">>,
     start |-> start]

Propose(id, v, s) ==
    [kind |-> "propose_sequencer", txid |-> id, from |-> v, sequencer |-> s]

Attest(v, id, choice) ==
    [kind |-> "validator_attestation", txid |-> "vote", from |-> v, reference |-> id,
     vote |-> choice]

\* A proposal and a vote come too early, a stranger proposes and votes, a proposal is
\* replaced before the vote, one vote is on the replaced one, a verifier changes its
\* vote twice, one vote is against, and something is left over.
Disordered ==
    <<Propose("p0", "v1", "s0"), SystemBootstrapping(2), Attest("v3", "p2", "ok"),
      Propose("p1", "v2", "s1"), Propose("p2", "v3", "s2"), Propose("p3", "x", "s3"),
      Attest("v1", "p2", "ok"), Attest("x", "p2", "ok"), Attest("v2", "p1", "ok"),
      Attest("v1", "p2", "not_ok"), Attest("v3", "p2", "not_ok"), Attest("v2", "p2", "ok"),
      Attest("v1", "p2", "ok"), Propose("p4", "v1", "s4")>>

\* Two votes are in when the proposal is replaced; they count for the next one, which
\* has one vote of its own.  The starting block is never reached.
Superseded ==
    <<SystemBootstrapping(9), Propose("p1", "v1", "s1"), Attest("v1", "p1", "ok"),
      Attest("v2", "p1", "ok"), Propose("p2", "v3", "s2"), Attest("v3", "p2", "ok")>>

\* One verifier has not voted.
NotAllVoted ==
    <<SystemBootstrapping(2), Propose("p1", "v1", "s1"), Attest("v1", "p1", "ok"),
      Attest("v2", "p1", "ok")>>

\* One vote of three is in favour.
Rejected ==
    <<SystemBootstrapping(2), Propose("p1", "v1", "s1"), Attest("v1", "p1", "ok"),
      Attest("v2", "p1", "not_ok"), Attest("v3", "p1", "not_ok")>>

Lists == {Disordered, Superseded, NotAllVoted, Rejected}
=============================================================================
