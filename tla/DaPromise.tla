----------------------------- MODULE DaPromise -----------------------------
(***************************************************************************)
(* What the data-availability dispatcher promises to the readers of        *)
(* via_data_availability, whatever the DA layer and the process do:        *)
(* pubdata blobs appear, and get their inclusion data, in batch order; a   *)
(* proof blob appears only after the pubdata blob of its batch; a stored   *)
(* value never changes.  DaDispatcher is shown to implement this           *)
(* specification, and BtcSender is checked against it.                     *)
(***************************************************************************)
EXTENDS ViaDb

CONSTANTS
    BlobId,          \* the identifiers the DA layer hands out
    InclusionProof   \* the inclusion data that can be stored

ASSUME PromiseAssumption ==
    /\ BlobId \subseteq Nat \ {Null}
    /\ InclusionProof \subseteq InclusionData \ {"null"}

promiseVars == <<sealed, commitments, generated, via_data_availability>>

PublishBatch(b) ==
    /\ b \in 1 .. sealed
    /\ Blob("batch", b) = Null
    /\ \A c \in 1 .. b - 1 : Blob("batch", c) # Null
    /\ \E id \in BlobId : InsertDa("batch", b, id)
    /\ UNCHANGED <<sealed, commitments, generated>>

IncludeBatch(b) ==
    /\ Blob("batch", b) # Null
    /\ ~Included("batch", b)
    /\ \A c \in 1 .. b - 1 : Included("batch", c)
    /\ \E data \in InclusionProof : SaveInclusionData("batch", b, data)
    /\ UNCHANGED <<sealed, commitments, generated>>

PublishProof(b) ==
    /\ b \in 1 .. commitments
    /\ Blob("batch", b) # Null
    /\ Blob("proof", b) = Null
    /\ \E id \in BlobId : InsertDa("proof", b, id)
    /\ UNCHANGED <<sealed, commitments, generated>>

IncludeProof(b) ==
    /\ Blob("proof", b) # Null
    /\ ~Included("proof", b)
    /\ \E data \in InclusionProof : SaveInclusionData("proof", b, data)
    /\ UNCHANGED <<sealed, commitments, generated>>

PromiseStep ==
    \E b \in Batch : \/ PublishBatch(b)
                     \/ IncludeBatch(b)
                     \/ PublishProof(b)
                     \/ IncludeProof(b)

PromiseInit == DbInit

PromiseNext == Upstream \/ PromiseStep

PromiseSpec == PromiseInit /\ [][PromiseNext]_promiseVars

=============================================================================
