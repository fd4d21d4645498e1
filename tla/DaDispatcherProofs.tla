------------------------- MODULE DaDispatcherProofs -------------------------
(***************************************************************************)
(* The dispatcher for any number of batches, blobs, retries and faults:    *)
(* what it stores belongs to the row, and it implements DaPromise, from    *)
(* which the proofs about the inscription sender start.                    *)
(*                                                                         *)
(* The order of the pubdata blobs rests on the list of a round: the        *)
(* batches before one that is still to be sent are stored or are on the    *)
(* list before it, because the query takes the oldest ones and an error    *)
(* ends the loop.                                                          *)
(***************************************************************************)
EXTENDS DaDispatcher, QueryLemmas

\* The rows a sending sub-task with local state s still has to send.
Todo(s) == s.queue \cup (IF s.pc \in {"send", "save"} THEN {s.batch} ELSE {})

TablesInv ==
    /\ Len(celestia) <= MaxBlobs
    /\ generated \subseteq 1 .. commitments
    /\ \A b \in Batch : CommitId(b) # Null => Blob("batch", b) # Null
    /\ \A k \in Kind, b \in Batch : Included(k, b) => Blob(k, b) # Null
    /\ \A b, c \in Batch : c < b /\ Blob("batch", b) # Null => Blob("batch", c) # Null

SlotInv(k, s) ==
    /\ s.pc \in {"send", "save"} => s.batch \in Batch
    /\ s.pc = "save" => /\ s.blob_id \in 1 .. Len(celestia)
                        /\ celestia[s.blob_id].batch = s.batch
                        /\ celestia[s.blob_id].kind = k
    /\ k = "batch" =>
          /\ \A b \in Todo(s) :
                /\ b <= sealed
                /\ \A c \in Batch : c < b => Blob("batch", c) # Null \/ c \in Todo(s)
          /\ s.pc \in {"send", "save"} => \A c \in s.queue : s.batch < c
    /\ k = "proof" =>
          \A b \in Todo(s) : b <= commitments /\ Blob("batch", b) # Null

SendingInv == \A k \in Kind : SlotInv(k, sending[k])

PollInv ==
    poll.pc \in {"ask", "save"} =>
        /\ poll.batch \in Batch
        /\ poll.blob_id = Blob(poll.kind, poll.batch) /\ poll.blob_id # Null
        /\ poll.kind = "batch" => \A c \in Batch : c < poll.batch => Included("batch", c)
        /\ poll.pc = "save" => poll.data # "null"
        /\ poll.pc = "save" /\ poll.data = "client" => celestia[poll.blob_id].available

DaInv ==
    /\ DaTypeOK /\ TablesInv /\ SendingInv /\ PollInv
    /\ StoredBlobIsOwn /\ InclusionIsOfStoredBlob

\* What an action may do to the tables and the DA layer without disturbing the
\* sub-tasks.
Grows ==
    /\ sealed \in Nat /\ sealed' \in Nat /\ sealed <= sealed'
    /\ commitments \in Nat /\ commitments' \in Nat /\ commitments <= commitments'
    /\ \A b \in Batch : Blob("batch", b) # Null => Blob("batch", b)' # Null
    /\ celestia' \in Seq([batch : Batch, kind : Kind, available : BOOLEAN])
    /\ Len(celestia) <= Len(celestia') /\ Len(celestia') <= MaxBlobs
    /\ \A i \in 1 .. Len(celestia) :
          /\ celestia'[i].batch = celestia[i].batch
          /\ celestia'[i].kind = celestia[i].kind
          /\ celestia[i].available => celestia'[i].available

-----------------------------------------------------------------------------

\* The initial state.
LEMMA DaInitInv == DaInit => DaInv
<1>. SUFFICES ASSUME DaInit PROVE DaInv
  OBVIOUS
<1>. USE DEF DaInit, DbInit, DispatcherInit
<1>1. DbTypeOK
  BY MaxBatchAssumption DEF DbTypeOK, DaRow, InclusionData, Null
<1>2. /\ IdleSending \in Sending /\ IdlePoll \in Poll
      /\ 0 \in 0 .. MaxFaults
  BY DispatcherAssumption DEF IdleSending, IdlePoll, Sending, Poll, Null, Kind, InclusionData
<1>3. DaTypeOK
  BY <1>1, <1>2 DEF DaTypeOK
<1>4. \A k \in Kind, b \in Batch : Blob(k, b) = Null /\ ~Included(k, b)
                                   /\ via_data_availability[k][b].inclusion_data = "null"
  BY DEF Blob, Included
<1>5. TablesInv
  BY <1>4, DispatcherAssumption DEF TablesInv, CommitId, Kind
<1>6. SendingInv
  BY DEF SendingInv, SlotInv, IdleSending, Todo
<1>7. PollInv
  BY DEF PollInv, IdlePoll
<1>8. StoredBlobIsOwn /\ InclusionIsOfStoredBlob
  BY <1>4 DEF StoredBlobIsOwn, InclusionIsOfStoredBlob
<1>. QED
  BY <1>3, <1>5, <1>6, <1>7, <1>8 DEF DaInv

\* The effect of insert_l1_batch_da and insert_proof_da on the table.
LEMMA InsertDaEffect ==
    ASSUME via_data_availability \in [Kind -> [Batch -> DaRow]],
           NEW k \in Kind, NEW b \in Batch, NEW id \in Nat, InsertDa(k, b, id)
    PROVE  /\ via_data_availability' \in [Kind -> [Batch -> DaRow]]
           /\ \A q \in Kind, c \in Batch :
                 /\ Blob(q, c)' = IF q = k /\ c = b /\ Blob(q, c) = Null
                                    THEN id ELSE Blob(q, c)
                 /\ via_data_availability'[q][c].inclusion_data
                       = via_data_availability[q][c].inclusion_data
           /\ Blob(k, b) # Null => UNCHANGED via_data_availability
<1> DEFINE row == via_data_availability[k][b]
           new == [row EXCEPT !.blob_id = IF @ = Null THEN id ELSE @]
<1>1. row \in DaRow
  OBVIOUS
<1>2. /\ new \in DaRow /\ new.inclusion_data = row.inclusion_data
      /\ new.blob_id = IF row.blob_id = Null THEN id ELSE row.blob_id
      /\ row.blob_id # Null => new = row
  BY <1>1 DEF DaRow
<1>3. via_data_availability' = [via_data_availability EXCEPT ![k] = [@ EXCEPT ![b] = new]]
  BY DEF InsertDa
<1>. HIDE DEF new
<1>4. /\ via_data_availability' \in [Kind -> [Batch -> DaRow]]
      /\ \A q \in Kind, c \in Batch :
            via_data_availability'[q][c] = IF q = k /\ c = b THEN new
                                           ELSE via_data_availability[q][c]
  BY <1>2, <1>3
<1>5. row.blob_id # Null => UNCHANGED via_data_availability
  BY <1>2, <1>4
<1>. QED
  BY <1>2, <1>4, <1>5 DEF Blob

\* The effect of save_l1_batch_inclusion_data and save_proof_inclusion_data.
LEMMA SaveInclusionDataEffect ==
    ASSUME via_data_availability \in [Kind -> [Batch -> DaRow]],
           NEW k \in Kind, NEW b \in Batch, NEW data \in InclusionData,
           SaveInclusionData(k, b, data)
    PROVE  /\ via_data_availability' \in [Kind -> [Batch -> DaRow]]
           /\ \A q \in Kind, c \in Batch :
                 /\ Blob(q, c)' = Blob(q, c)
                 /\ via_data_availability'[q][c].inclusion_data
                       = IF q = k /\ c = b /\ ~Included(q, c) THEN data
                         ELSE via_data_availability[q][c].inclusion_data
           /\ Included(k, b) => UNCHANGED via_data_availability
<1> DEFINE row == via_data_availability[k][b]
           new == [row EXCEPT !.inclusion_data = IF @ = "null" THEN data ELSE @]
<1>1. row \in DaRow
  OBVIOUS
<1>2. /\ new \in DaRow /\ new.blob_id = row.blob_id
      /\ new.inclusion_data = IF row.inclusion_data = "null" THEN data ELSE row.inclusion_data
      /\ row.inclusion_data # "null" => new = row
  BY <1>1 DEF DaRow
<1>3. via_data_availability' = [via_data_availability EXCEPT ![k] = [@ EXCEPT ![b] = new]]
  BY DEF SaveInclusionData
<1>. HIDE DEF new
<1>4. /\ via_data_availability' \in [Kind -> [Batch -> DaRow]]
      /\ \A q \in Kind, c \in Batch :
            via_data_availability'[q][c] = IF q = k /\ c = b THEN new
                                           ELSE via_data_availability[q][c]
  BY <1>2, <1>3
<1>5. row.inclusion_data # "null" => UNCHANGED via_data_availability
  BY <1>2, <1>4
<1>. QED
  BY <1>2, <1>4, <1>5 DEF Blob, Included

-----------------------------------------------------------------------------

\* A sub-task that does not move keeps its part of the invariant.
LEMMA SlotFrame ==
    ASSUME DaInv, Grows, NEW k \in Kind, sending'[k] = sending[k]
    PROVE  SlotInv(k, sending[k])'
<1>1. SlotInv(k, sending[k]) /\ sending[k] \in Sending
  BY DEF DaInv, SendingInv, DaTypeOK
<1>2. Todo(sending[k])' = Todo(sending[k]) /\ Todo(sending[k]) \subseteq Batch
  BY <1>1 DEF Todo, SlotInv, Sending
<1>3. Batch \subseteq Nat /\ Len(celestia) \in Nat /\ Len(celestia') \in Nat
  BY MaxBatchAssumption DEF Batch, DaInv, DaTypeOK, Grows
<1>4. k = "batch" => /\ \A b \in Todo(sending[k])' :
                           /\ b <= sealed'
                           /\ \A c \in Batch : c < b => \/ Blob("batch", c)' # Null
                                                        \/ c \in Todo(sending[k])'
                     /\ sending'[k].pc \in {"send", "save"} =>
                           \A c \in sending'[k].queue : sending'[k].batch < c
  <2>1. ASSUME k = "batch", NEW b \in Todo(sending[k])
        PROVE  b <= sealed'
    <3>1. b \in Nat /\ b <= sealed
      BY <1>1, <1>2, <1>3, <2>1, Zenon DEF SlotInv
    <3>. QED
      BY <3>1 DEF Grows
  <2>. QED
    BY <1>1, <1>2, <2>1 DEF SlotInv, Grows
<1>5. k = "proof" => \A b \in Todo(sending[k])' : b <= commitments' /\ Blob("batch", b)' # Null
  <2>1. ASSUME k = "proof", NEW b \in Todo(sending[k])
        PROVE  b <= commitments' /\ Blob("batch", b)' # Null
    <3>1. b \in Nat /\ b \in Batch /\ b <= commitments /\ Blob("batch", b) # Null
      BY <1>1, <1>2, <1>3, <2>1, Zenon DEF SlotInv
    <3>. QED
      BY <3>1 DEF Grows
  <2>. QED
    BY <1>2, <2>1
<1>6. sending'[k].pc = "save" => /\ sending'[k].blob_id \in 1 .. Len(celestia')
                                 /\ celestia'[sending'[k].blob_id].batch = sending'[k].batch
                                 /\ celestia'[sending'[k].blob_id].kind = k
  BY <1>1, <1>3 DEF SlotInv, Grows
<1>7. sending'[k].pc \in {"send", "save"} => sending'[k].batch \in Batch
  BY <1>1 DEF SlotInv
<1>. QED
  BY <1>4, <1>5, <1>6, <1>7 DEF SlotInv

\* Nothing that is stored is disturbed while the tables stay as they are.
LEMMA StoredFrame ==
    ASSUME DaInv, Grows, UNCHANGED dbVars
    PROVE  TablesInv' /\ StoredBlobIsOwn' /\ InclusionIsOfStoredBlob'
<1>1. \A k \in Kind, b \in Batch : /\ Blob(k, b) \in Nat
                                   /\ Blob(k, b)' = Blob(k, b)
                                   /\ Included(k, b)' = Included(k, b)
                                   /\ via_data_availability'[k][b] = via_data_availability[k][b]
                                   /\ CommitId(b)' = CommitId(b)
  BY DEF dbVars, Blob, Included, CommitId, DaInv, DaTypeOK, DbTypeOK, DaRow
<1>2. TablesInv'
  BY <1>1 DEF TablesInv, DaInv, Grows, dbVars, Kind
<1>3. \A k \in Kind, b \in Batch : Blob(k, b) # Null => Blob(k, b) \in 1 .. Len(celestia)
  BY <1>1 DEF DaInv, StoredBlobIsOwn, Null, DaTypeOK
<1>4. ASSUME NEW k \in Kind, NEW b \in Batch, Blob(k, b) # Null
      PROVE  /\ Blob(k, b) <= Len(celestia')
             /\ celestia'[Blob(k, b)].batch = b
             /\ celestia'[Blob(k, b)].kind = k
             /\ celestia[Blob(k, b)].available => celestia'[Blob(k, b)].available
  <2>1. Blob(k, b) \in 1 .. Len(celestia)
    BY <1>3, <1>4
  <2>2. celestia[Blob(k, b)].batch = b /\ celestia[Blob(k, b)].kind = k
    BY <1>4 DEF DaInv, StoredBlobIsOwn
  <2>3. Len(celestia) \in Nat /\ Len(celestia') \in Nat /\ Len(celestia) <= Len(celestia')
    BY DEF DaInv, DaTypeOK, Grows
  <2>. QED
    BY <2>1, <2>2, <2>3 DEF Grows
<1>5. StoredBlobIsOwn'
  BY <1>1, <1>4 DEF StoredBlobIsOwn
<1>6. InclusionIsOfStoredBlob'
  BY <1>1, <1>4 DEF InclusionIsOfStoredBlob, DaInv
<1>. QED
  BY <1>2, <1>5, <1>6

\* The answer a poll waits for stays about the stored blob while the tables and
\* the sub-task stay as they are.
LEMMA PollFrame ==
    ASSUME DaInv, Grows, UNCHANGED <<via_data_availability, poll>>
    PROVE  PollInv'
<1>1. poll \in Poll /\ PollInv
  BY DEF DaInv, DaTypeOK
<1>2. \A k \in Kind, b \in Batch : Blob(k, b)' = Blob(k, b) /\ Included(k, b)' = Included(k, b)
  BY DEF Blob, Included
<1>3. \A k \in Kind, b \in Batch : Blob(k, b) # Null => Blob(k, b) \in 1 .. Len(celestia)
  BY DEF DaInv, StoredBlobIsOwn, Null, DaTypeOK, DbTypeOK, Blob, DaRow
<1>. QED
  BY <1>1, <1>2, <1>3 DEF PollInv, Poll, Grows, Kind

\* A state that changes neither the tables nor the DA layer.
LEMMA GrowsUnchanged ==
    ASSUME DaInv, UNCHANGED <<dbVars, celestia>>
    PROVE  Grows
<1>1. DbTypeOK /\ celestia \in Seq([batch : Batch, kind : Kind, available : BOOLEAN])
      /\ Len(celestia) <= MaxBlobs
  BY DEF DaInv, DaTypeOK, TablesInv
<1>2. sealed \in Nat /\ commitments \in Nat
  BY <1>1, MaxBatchAssumption DEF DbTypeOK
<1>3. \A b \in Batch : Blob("batch", b)' = Blob("batch", b)
  BY DEF dbVars, Blob
<1>. QED
  BY <1>1, <1>2, <1>3 DEF Grows, dbVars

\* A step of one sending sub-task that leaves the tables alone.
LEMMA SendingLocal ==
    ASSUME DaInv, Grows, UNCHANGED <<dbVars, poll>>, faults' \in 0 .. MaxFaults,
           NEW k \in Kind, NEW s \in Sending, sending' = [sending EXCEPT ![k] = s],
           SlotInv(k, sending[k])'
    PROVE  DaInv'
<1>1. sending' \in [Kind -> Sending] /\ \A q \in Kind \ {k} : sending'[q] = sending[q]
  BY DEF DaInv, DaTypeOK
<1>2. DbTypeOK'
  BY DEF DaInv, DaTypeOK, DbTypeOK, dbVars
<1>3. DaTypeOK'
  BY <1>1, <1>2 DEF DaTypeOK, DaInv, Grows
<1>4. SendingInv'
  BY <1>1, SlotFrame DEF SendingInv
<1>5. PollInv'
  BY PollFrame DEF dbVars
<1>. QED
  BY <1>3, <1>4, <1>5, StoredFrame DEF DaInv

-----------------------------------------------------------------------------
(* The sending sub-tasks *)

\* The query of the sub-task: the batches before a listed one are stored or
\* listed, and a listed proof has its commitment and its pubdata blob.
LEMMA QueryRows ==
    ASSUME DaInv, NEW k \in Kind, NEW S \in SUBSET Batch, QueryResult(k, S)
    PROVE  /\ k = "batch" => \A b \in S :
                 /\ b <= sealed
                 /\ \A c \in Batch : c < b => Blob("batch", c) # Null \/ c \in S
           /\ k = "proof" => \A b \in S : b <= commitments /\ Blob("batch", b) # Null
<1>0. /\ sealed \in Nat /\ commitments \in Nat /\ commitments <= sealed
      /\ Batch \subseteq Nat /\ generated \subseteq 1 .. commitments
  BY MaxBatchAssumption DEF DaInv, DaTypeOK, DbTypeOK, TablesInv, Batch
<1>1. CASE k = "batch"
  <2>1. S = Limit(ReadyForDaDispatchL1Batches, MaxRowsToDispatch)
    BY <1>1 DEF QueryResult, Unordered, ReadyRows
  <2>2. ReadyForDaDispatchL1Batches \in SUBSET (0 .. sealed)
    BY <1>0 DEF ReadyForDaDispatchL1Batches
  <2>3. /\ S \subseteq ReadyForDaDispatchL1Batches
        /\ \A b \in S, c \in ReadyForDaDispatchL1Batches : c <= b => c \in S
    BY <1>0, <2>1, <2>2, LimitIsPrefix, DispatcherAssumption
  <2>4. ASSUME NEW b \in S PROVE b <= sealed
    BY <1>0, <2>3 DEF ReadyForDaDispatchL1Batches
  <2>5. ASSUME NEW b \in S, NEW c \in Batch, c < b, Blob("batch", c) = Null PROVE c \in S
    <3>1. b \in Nat /\ c \in Nat /\ c # 0
      BY <1>0, <2>5 DEF Batch
    <3>2. c \in 1 .. sealed
      BY <1>0, <2>4, <2>5, <3>1
    <3>3. CommitId(c) = Null
      BY <2>5 DEF DaInv, TablesInv
    <3>4. c \in ReadyForDaDispatchL1Batches
      BY <2>5, <3>2, <3>3 DEF ReadyForDaDispatchL1Batches
    <3>. QED
      BY <2>3, <2>5, <3>1, <3>4
  <2>. QED
    BY <1>1, <2>4, <2>5
<1>2. CASE k = "proof"
  <2>1. S \subseteq ReadyRows(k)
    <3>1. CASE Unordered(k)
      BY <3>1 DEF QueryResult
    <3>2. CASE ~Unordered(k)
      BY <1>2, <3>2 DEF QueryResult, Limit
    <3>. QED
      BY <3>1, <3>2
  <2>2. ReadyRows(k) \subseteq ReadyForDaDispatchProofs \cup ReadyForDummyProofDispatch
    BY <1>2 DEF ReadyRows
  <2>. QED
    BY <1>0, <1>2, <2>1, <2>2 DEF ReadyForDaDispatchProofs, ReadyForDummyProofDispatch
<1>. QED
  BY <1>1, <1>2 DEF Kind

\* A sub-task with nothing left to send.
LEMMA SlotEmpty ==
    ASSUME NEW k \in Kind, sending'[k].queue = {}, sending'[k].pc \notin {"send", "save"}
    PROVE  SlotInv(k, sending[k])'
BY DEF SlotInv, Todo

\* The query at the head of a sending sub-task.
LEMMA DispatchStartInv ==
    ASSUME DaInv, NEW k \in Kind, DispatchStart(k)
    PROVE  DaInv'
<1>1. PICK S \in SUBSET Batch :
         QueryResult(k, S) /\ sending' = [sending EXCEPT ![k].pc = "load", ![k].queue = S]
  BY DEF DispatchStart
<1> DEFINE s == [sending[k] EXCEPT !.pc = "load", !.queue = S]
<1>2. /\ UNCHANGED <<dbVars, poll, celestia, faults>> /\ faults \in 0 .. MaxFaults
      /\ sending \in [Kind -> Sending]
  BY DEF DispatchStart, DaInv, DaTypeOK
<1>3. Grows
  BY <1>2, GrowsUnchanged
<1>4. s \in Sending /\ s.pc = "load" /\ s.queue = S
  BY <1>2 DEF Sending
<1>5. sending' = [sending EXCEPT ![k] = s] /\ sending'[k] = s
  BY <1>1, <1>2
<1>. HIDE DEF s
<1>6. Todo(sending[k])' = S
  BY <1>4, <1>5 DEF Todo
<1>7. sealed' = sealed /\ commitments' = commitments /\ \A b \in Batch : Blob("batch", b)' = Blob("batch", b)
  BY <1>2 DEF dbVars, Blob
<1>8. SlotInv(k, sending[k])'
  BY <1>1, <1>4, <1>5, <1>6, <1>7, QueryRows DEF SlotInv
<1>. QED
  BY <1>2, <1>3, <1>4, <1>5, <1>8, SendingLocal

\* The loop takes the next row.
LEMMA DispatchLoadInv ==
    ASSUME DaInv, NEW k \in Kind, NEW b \in Batch, DispatchLoad(k, b)
    PROVE  DaInv'
<1> DEFINE s == [sending[k] EXCEPT !.pc = "send", !.batch = b, !.retries = 1, !.queue = @ \ {b}]
<1>1. /\ UNCHANGED <<dbVars, poll, celestia, faults>> /\ faults \in 0 .. MaxFaults
      /\ sending \in [Kind -> Sending] /\ sending[k].pc = "load" /\ NextRow(k, b)
  BY DEF DispatchLoad, DaInv, DaTypeOK
<1>2. Grows
  BY <1>1, GrowsUnchanged
<1>3. s \in Sending /\ s.pc = "send" /\ s.batch = b /\ s.queue = sending[k].queue \ {b}
  <2>1. sending[k] \in Sending /\ 1 \in 1 .. MaxRetries + 1
    BY <1>1, DispatcherAssumption
  <2>2. sending[k].queue \ {b} \in SUBSET Batch
    BY <2>1 DEF Sending
  <2>. QED
    BY <2>1, <2>2 DEF Sending
<1>4. sending' = [sending EXCEPT ![k] = s] /\ sending'[k] = s
  BY <1>1 DEF DispatchLoad
<1>. HIDE DEF s
<1>5. b \in sending[k].queue
  BY <1>1 DEF NextRow
<1>6. Todo(sending[k])' = Todo(sending[k])
  BY <1>1, <1>3, <1>4, <1>5 DEF Todo
<1>7. sealed' = sealed /\ commitments' = commitments /\ \A c \in Batch : Blob("batch", c)' = Blob("batch", c)
  BY <1>1 DEF dbVars, Blob
<1>8. k = "batch" => \A c \in sending[k].queue \ {b} : b < c
  <2>. SUFFICES ASSUME k = "batch", NEW c \in sending[k].queue \ {b} PROVE b < c
    OBVIOUS
  <2>1. sending[k].queue \in SUBSET Nat /\ sending[k].queue # {}
    BY <1>1, <1>5, MaxBatchAssumption DEF Sending, Batch
  <2>2. b = Min(sending[k].queue)
    BY <1>1 DEF NextRow, Unordered
  <2>3. b <= c
    BY <2>1, <2>2, MinOfNats
  <2>. QED
    BY <1>5, <2>1, <2>3
<1>9. SlotInv(k, sending[k]) /\ Todo(sending[k]) \subseteq Batch
  BY <1>1 DEF DaInv, SendingInv, Todo, Sending
<1>10. SlotInv(k, sending[k])'
  BY <1>3, <1>4, <1>6, <1>7, <1>8, <1>9 DEF SlotInv
<1>. QED
  BY <1>1, <1>2, <1>3, <1>4, <1>10, SendingLocal

\* The loop over the rows ends, or the sub-task does.
LEMMA DoneInv ==
    ASSUME DaInv, NEW k \in Kind, sending' = [sending EXCEPT ![k] = DoneSending],
           Grows, UNCHANGED <<dbVars, poll>>, faults' \in 0 .. MaxFaults
    PROVE  DaInv'
<1>1. /\ DoneSending \in Sending
      /\ DoneSending.queue = {} /\ DoneSending.pc \notin {"send", "save"}
  BY DispatcherAssumption DEF DoneSending, IdleSending, Sending, Null
<1>2. sending'[k] = DoneSending
  BY DEF DaInv, DaTypeOK
<1>. QED
  BY <1>1, <1>2, SlotEmpty, SendingLocal

\* A proof cannot be loaded.
LEMMA ProofLoadErrorInv ==
    ASSUME DaInv, NEW b \in Batch, ProofLoadError(b)
    PROVE  DaInv'
<1> DEFINE s == [sending["proof"] EXCEPT !.queue = @ \ {b}]
<1>1. /\ UNCHANGED <<dbVars, poll, celestia, faults>> /\ faults' \in 0 .. MaxFaults
      /\ sending["proof"] \in Sending /\ sending["proof"].pc = "load" /\ "proof" \in Kind
      /\ sending \in [Kind -> Sending]
  BY DEF ProofLoadError, DaInv, DaTypeOK, Kind
<1>2. Grows
  BY <1>1, GrowsUnchanged
<1>3. CASE ~DispatchRealProof
  <2>1. sending' = [sending EXCEPT !["proof"] = DoneSending]
    BY <1>3 DEF ProofLoadError
  <2>. QED
    BY <1>1, <1>2, <2>1, DoneInv
<1>4. CASE DispatchRealProof
  <2>1. sending' = [sending EXCEPT !["proof"] = s] /\ sending'["proof"] = s
    BY <1>1, <1>4 DEF ProofLoadError
  <2>2. s \in Sending /\ s.pc = "load" /\ s.queue \subseteq sending["proof"].queue
    BY <1>1 DEF Sending
  <2>. HIDE DEF s
  <2>3. Todo(sending["proof"])' \subseteq Todo(sending["proof"])
    BY <1>1, <2>1, <2>2 DEF Todo
  <2>4. commitments' = commitments /\ \A c \in Batch : Blob("batch", c)' = Blob("batch", c)
    BY <1>1 DEF dbVars, Blob
  <2>5. SlotInv("proof", sending["proof"]) /\ Todo(sending["proof"]) \subseteq Batch
    BY <1>1 DEF DaInv, SendingInv, Todo, Sending
  <2>6. SlotInv("proof", sending["proof"])'
    BY <2>1, <2>2, <2>3, <2>4, <2>5 DEF SlotInv
  <2>. QED
    BY <1>1, <1>2, <2>1, <2>2, <2>6, SendingLocal
<1>. QED
  BY <1>3, <1>4

\* A blob reaches the DA layer.
LEMMA SubmitBlobGrows ==
    ASSUME DaInv, NEW k \in Kind, sending[k].pc = "send", SubmitBlob(k), UNCHANGED dbVars
    PROVE  /\ Grows
           /\ Len(celestia) + 1 \in 1 .. Len(celestia')
           /\ celestia'[Len(celestia) + 1].batch = sending[k].batch
           /\ celestia'[Len(celestia) + 1].kind = k
<1> DEFINE blob == [batch |-> sending[k].batch, kind |-> k, available |-> FALSE]
<1>1. DbTypeOK /\ celestia \in Seq([batch : Batch, kind : Kind, available : BOOLEAN])
  BY DEF DaInv, DaTypeOK
<1>2. sending[k].batch \in Batch
  BY DEF DaInv, SendingInv, SlotInv
<1>3. blob \in [batch : Batch, kind : Kind, available : BOOLEAN]
  BY <1>2
<1>4. celestia' = Append(celestia, blob) /\ Len(celestia) < MaxBlobs
  BY DEF SubmitBlob
<1>5. blob.batch = sending[k].batch /\ blob.kind = k
  OBVIOUS
<1>. HIDE DEF blob
<1>6. /\ celestia' \in Seq([batch : Batch, kind : Kind, available : BOOLEAN])
      /\ Len(celestia') = Len(celestia) + 1
      /\ \A i \in 1 .. Len(celestia) : celestia'[i] = celestia[i]
      /\ celestia'[Len(celestia) + 1] = blob
      /\ Len(celestia) \in Nat
  BY <1>1, <1>3, <1>4
<1>7. sealed \in Nat /\ commitments \in Nat
  BY <1>1, MaxBatchAssumption DEF DbTypeOK
<1>8. \A b \in Batch : Blob("batch", b)' = Blob("batch", b)
  BY DEF dbVars, Blob
<1>9. Grows
  BY <1>4, <1>6, <1>7, <1>8, DispatcherAssumption DEF Grows, dbVars
<1>. QED
  BY <1>5, <1>6, <1>9

\* dispatch_blob returns the id of the blob.
LEMMA DispatchBlobOkInv ==
    ASSUME DaInv, NEW k \in Kind, DispatchBlobOk(k)
    PROVE  DaInv'
<1> DEFINE s == [sending[k] EXCEPT !.pc = "save", !.blob_id = Len(celestia) + 1]
<1>1. /\ UNCHANGED <<dbVars, poll, faults>> /\ faults' \in 0 .. MaxFaults
      /\ sending \in [Kind -> Sending] /\ sending[k].pc = "send" /\ SubmitBlob(k)
      /\ Len(celestia) \in Nat
  BY DEF DispatchBlobOk, DaInv, DaTypeOK
<1>2. /\ Grows
      /\ Len(celestia) + 1 \in 1 .. Len(celestia')
      /\ celestia'[Len(celestia) + 1].batch = sending[k].batch
      /\ celestia'[Len(celestia) + 1].kind = k
  BY <1>1, SubmitBlobGrows
<1>3. /\ s \in Sending /\ s.pc = "save" /\ s.blob_id = Len(celestia) + 1
      /\ s.batch = sending[k].batch /\ s.queue = sending[k].queue
  <2>1. sending[k] \in Sending /\ Len(celestia) + 1 \in Nat
    BY <1>1
  <2>. QED
    BY <2>1 DEF Sending
<1>4. sending' = [sending EXCEPT ![k] = s] /\ sending'[k] = s
  BY <1>1 DEF DispatchBlobOk
<1>. HIDE DEF s
<1>5. Todo(sending[k])' = Todo(sending[k])
  BY <1>1, <1>3, <1>4 DEF Todo
<1>6. sealed' = sealed /\ commitments' = commitments /\ \A c \in Batch : Blob("batch", c)' = Blob("batch", c)
  BY <1>1 DEF dbVars, Blob
<1>7. SlotInv(k, sending[k])
  BY DEF DaInv, SendingInv
<1>8. Todo(sending[k]) \subseteq Batch
  BY <1>1, <1>7 DEF Todo, Sending, SlotInv
<1>9. SlotInv(k, sending[k])'
  BY <1>1, <1>2, <1>3, <1>4, <1>5, <1>6, <1>7, <1>8 DEF SlotInv
<1>. QED
  BY <1>1, <1>2, <1>3, <1>4, <1>9, SendingLocal

\* After an error the row is tried again or the sub-task ends.
LEMMA AfterErrorInv ==
    ASSUME DaInv, NEW k \in Kind, NEW retriable \in BOOLEAN, sending[k].pc = "send",
           sending' = [sending EXCEPT ![k] = AfterError(k, retriable)],
           Grows, UNCHANGED <<dbVars, poll>>, faults' \in 0 .. MaxFaults
    PROVE  DaInv'
<1>1. CASE ~retriable \/ sending[k].retries > MaxRetries
  BY <1>1, DoneInv DEF AfterError
<1>2. CASE retriable /\ ~(sending[k].retries > MaxRetries)
  <2> DEFINE s == [sending[k] EXCEPT !.retries = @ + 1]
  <2>1. sending' = [sending EXCEPT ![k] = s]
    BY <1>2 DEF AfterError
  <2>2. sending \in [Kind -> Sending] /\ sending[k] \in Sending
    BY DEF DaInv, DaTypeOK
  <2>3. sending[k].retries + 1 \in 1 .. MaxRetries + 1
    BY <1>2, <2>2, DispatcherAssumption DEF Sending
  <2>4. /\ s \in Sending /\ s.pc = "send" /\ s.batch = sending[k].batch
        /\ s.queue = sending[k].queue
    BY <2>2, <2>3 DEF Sending
  <2>5. sending'[k] = s
    BY <2>1, <2>2
  <2>. HIDE DEF s
  <2>6. SlotInv(k, sending[k])
    BY DEF DaInv, SendingInv
  <2>7. Todo(sending[k])' = Todo(sending[k]) /\ Todo(sending[k]) \subseteq Batch
    BY <2>2, <2>4, <2>5, <2>6 DEF Todo, Sending, SlotInv
  <2>8. sealed' = sealed /\ commitments' = commitments /\ \A c \in Batch : Blob("batch", c)' = Blob("batch", c)
    BY DEF dbVars, Blob
  <2>9. SlotInv(k, sending[k])'
    BY <2>4, <2>5, <2>6, <2>7, <2>8 DEF SlotInv
  <2>. QED
    BY <2>1, <2>4, <2>9, SendingLocal
<1>. QED
  BY <1>1, <1>2

\* The pubdata blobs before the one that is saved are stored.
LEMMA SavedInOrder ==
    ASSUME DaInv, sending["batch"].pc = "save", NEW c \in Batch, c < sending["batch"].batch
    PROVE  Blob("batch", c) # Null
<1>1. SlotInv("batch", sending["batch"]) /\ sending["batch"] \in Sending
  BY DEF DaInv, SendingInv, Kind, DaTypeOK
<1>2. sending["batch"].batch \in Todo(sending["batch"])
  BY DEF Todo
<1>3. Blob("batch", c) # Null \/ c \in Todo(sending["batch"])
  BY <1>1, <1>2 DEF SlotInv
<1>4. c \notin Todo(sending["batch"])
  <2>1. \A q \in sending["batch"].queue : sending["batch"].batch < q
    BY <1>1 DEF SlotInv
  <2>2. Batch \subseteq Nat
    BY MaxBatchAssumption DEF Batch
  <2>3. sending["batch"].batch \in Batch /\ sending["batch"].queue \subseteq Batch
    BY <1>1 DEF SlotInv, Sending
  <2>4. c # sending["batch"].batch
    BY <2>2, <2>3
  <2>5. c \notin sending["batch"].queue
    <3>1. c \in Nat /\ sending["batch"].batch \in Nat
      BY <2>2, <2>3, Zenon
    <3>2. ~(sending["batch"].batch < c)
      BY <3>1
    <3>. QED
      BY <2>1, <3>2, Zenon
  <2>. QED
    BY <2>4, <2>5 DEF Todo
<1>. QED
  BY <1>3, <1>4

\* The blob id is stored in the row of its batch.
LEMMA DispatchSaveInv ==
    ASSUME DaInv, NEW k \in Kind, DispatchSave(k)
    PROVE  DaInv'
<1> DEFINE b == sending[k].batch
           id == sending[k].blob_id
           s == [IdleSending EXCEPT !.pc = "load", !.queue = sending[k].queue]
<1>1. /\ UNCHANGED <<upstreamVars, senderTables, poll, celestia, faults>>
      /\ sending[k].pc = "save" /\ faults' \in 0 .. MaxFaults
      /\ sending \in [Kind -> Sending] /\ sending[k] \in Sending
  BY DEF DispatchSave, DaInv, DaTypeOK
<1>2. CASE InsertDaConflict(k, b, id)
  <2>1. sending' = [sending EXCEPT ![k] = DoneSending] /\ UNCHANGED dbVars
    BY <1>1, <1>2 DEF DispatchSave, upstreamVars, senderTables, dbVars
  <2>. QED
    BY <1>1, <2>1, GrowsUnchanged, DoneInv
<1>3. CASE ~InsertDaConflict(k, b, id)
  <2>1. sending' = [sending EXCEPT ![k] = s] /\ InsertDa(k, b, id)
    BY <1>3 DEF DispatchSave
  <2>2. SlotInv(k, sending[k]) /\ DaTypeOK /\ TablesInv
    BY DEF DaInv, SendingInv
  <2>3. /\ b \in Batch /\ id \in 1 .. Len(celestia) /\ id \in Nat /\ id # Null
        /\ celestia[id].batch = b /\ celestia[id].kind = k
    BY <1>1, <2>2 DEF SlotInv, DaTypeOK, Null
  <2>4. s \in Sending /\ s.pc = "load" /\ s.queue = sending[k].queue
    <3>1. IdleSending \in Sending /\ sending[k].queue \in SUBSET Batch
      <4>1. IdleSending \in Sending
        BY DispatcherAssumption DEF IdleSending, Sending, Null
      <4>2. sending[k] \in Sending
        BY <1>1
      <4>. QED
        BY <4>1, <4>2 DEF Sending
    <3>. QED
      BY <3>1 DEF Sending
  <2>5. sending' \in [Kind -> Sending] /\ sending'[k] = s
        /\ \A q \in Kind \ {k} : sending'[q] = sending[q]
    BY <1>1, <2>1, <2>4
  <2>6. via_data_availability \in [Kind -> [Batch -> DaRow]]
    BY <2>2 DEF DaTypeOK, DbTypeOK
  <2>7. /\ via_data_availability' \in [Kind -> [Batch -> DaRow]]
        /\ \A q \in Kind, c \in Batch :
              /\ Blob(q, c)' = IF q = k /\ c = b /\ Blob(q, c) = Null THEN id ELSE Blob(q, c)
              /\ via_data_availability'[q][c].inclusion_data
                    = via_data_availability[q][c].inclusion_data
    <3>. HIDE DEF b, id
    <3>. QED
      BY <2>1, <2>3, <2>6, InsertDaEffect
  <2>. HIDE DEF b, id, s
  <2>8. /\ \A q \in Kind, c \in Batch : /\ Blob(q, c) # Null => Blob(q, c)' = Blob(q, c)
                                        /\ Included(q, c)' = Included(q, c)
                                        /\ CommitId(c)' = CommitId(c)
        /\ \A c \in Batch : c = b => Blob(k, c)' # Null
    <3>1. \A q \in Kind, c \in Batch : Blob(q, c) # Null => Blob(q, c)' = Blob(q, c)
      BY <2>7
    <3>2. \A q \in Kind, c \in Batch : Included(q, c)' = Included(q, c)
      BY <2>7 DEF Included
    <3>3. \A c \in Batch : CommitId(c)' = CommitId(c)
      BY <1>1 DEF CommitId, senderTables
    <3>4. \A c \in Batch : c = b => Blob(k, c)' # Null
      BY <2>3, <2>7
    <3>. QED
      BY <3>1, <3>2, <3>3, <3>4
  <2>9. DaTypeOK'
    <3>1. DbTypeOK'
      BY <1>1, <2>2, <2>7 DEF DaTypeOK, DbTypeOK, upstreamVars, senderTables
    <3>. QED
      BY <1>1, <2>2, <2>5, <3>1 DEF DaTypeOK
  <2>10. TablesInv'
    <3>1. \A q \in Kind, c \in Batch : Included(q, c)' => Blob(q, c)' # Null
      BY <2>2, <2>8 DEF TablesInv
    <3>2. ASSUME NEW x \in Batch, NEW c \in Batch, c < x, Blob("batch", x)' # Null
          PROVE  Blob("batch", c)' # Null
      <4>1. CASE Blob("batch", x) # Null
        BY <2>2, <2>8, <3>2, <4>1 DEF TablesInv, Kind
      <4>2. CASE Blob("batch", x) = Null
        <5>1. k = "batch" /\ x = b
          BY <2>7, <3>2, <4>2 DEF Kind
        <5>2. Blob("batch", c) # Null
          BY <1>1, <3>2, <5>1, SavedInOrder DEF b
        <5>. QED
          BY <2>8, <5>2 DEF Kind
      <4>. QED
        BY <4>1, <4>2
    <3>3. \A c \in Batch : CommitId(c)' # Null => Blob("batch", c)' # Null
      BY <2>2, <2>8 DEF TablesInv, Kind
    <3>. QED
      BY <1>1, <2>2, <3>1, <3>2, <3>3 DEF TablesInv, upstreamVars
  <2>11. Grows
    <3>1. sealed \in Nat /\ commitments \in Nat
      BY <2>2, MaxBatchAssumption DEF DaTypeOK, DbTypeOK
    <3>. QED
      BY <1>1, <2>2, <2>8, <3>1 DEF Grows, upstreamVars, DaTypeOK, TablesInv, Kind
  <2>12. SlotInv(k, sending[k])'
    <3>1. /\ Todo(sending[k])' = sending[k].queue
          /\ Todo(sending[k]) = sending[k].queue \cup {b}
          /\ sending[k].queue \subseteq Batch
      BY <1>1, <2>4, <2>5 DEF Todo, b, Sending
    <3>2. sealed' = sealed /\ commitments' = commitments
      BY <1>1 DEF upstreamVars
    <3>3. sending'[k].pc = "load" /\ sending'[k].queue = sending[k].queue
      BY <2>4, <2>5
    <3>4. ASSUME k = "batch", NEW x \in sending[k].queue, NEW c \in Batch, c < x,
                 Blob("batch", c)' = Null
          PROVE  c \in sending[k].queue
      <4>1. Blob("batch", c) = Null /\ c # b
        BY <2>3, <2>7, <3>4 DEF Kind, Null
      <4>2. c \in Todo(sending[k])
        BY <2>2, <3>1, <3>4, <4>1 DEF SlotInv
      <4>. QED
        BY <3>1, <4>1, <4>2
    <3>5. k = "batch" => \A x \in sending[k].queue : x <= sealed
      BY <2>2, <3>1 DEF SlotInv
    <3>6. k = "proof" => \A x \in sending[k].queue : x <= commitments /\ Blob("batch", x)' # Null
      BY <2>2, <2>8, <3>1 DEF SlotInv, Kind
    <3>. QED
      BY <3>1, <3>2, <3>3, <3>4, <3>5, <3>6 DEF SlotInv
  <2>13. SendingInv'
    BY <2>5, <2>11, <2>12, SlotFrame DEF SendingInv
  <2>14. PollInv'
    <3>1. poll \in Poll /\ PollInv
      BY <2>2 DEF DaInv, DaTypeOK
    <3>. QED
      BY <1>1, <2>8, <3>1 DEF PollInv, Poll, Kind
  <2>15. StoredBlobIsOwn'
    BY <1>1, <2>3, <2>7 DEF StoredBlobIsOwn, DaInv
  <2>16. InclusionIsOfStoredBlob'
    <3>1. InclusionIsOfStoredBlob /\ celestia' = celestia
      BY <1>1 DEF DaInv
    <3>. QED
      BY <2>7, <2>8, <3>1 DEF InclusionIsOfStoredBlob
  <2>. QED
    BY <2>9, <2>10, <2>13, <2>14, <2>15, <2>16 DEF DaInv
<1>. QED
  BY <1>2, <1>3

\* Every step of dispatch and dispatch_proofs.
LEMMA SendingStepInv ==
    ASSUME DaInv, NEW k \in Kind, SendingStep(k)
    PROVE  DaInv'
<1>1. CASE DispatchStart(k) \/ \E b \in Batch : DispatchLoad(k, b)
  BY <1>1, DispatchStartInv, DispatchLoadInv
<1>2. CASE DispatchFinish(k)
  <2>1. /\ sending' = [sending EXCEPT ![k] = DoneSending]
        /\ UNCHANGED <<dbVars, poll, celestia, faults>> /\ faults' \in 0 .. MaxFaults
    BY <1>2 DEF DispatchFinish, DaInv, DaTypeOK
  <2>. QED
    BY <2>1, GrowsUnchanged, DoneInv
<1>3. CASE DispatchBlobOk(k)
  BY <1>3, DispatchBlobOkInv
<1>4. ASSUME NEW retriable \in BOOLEAN, DispatchBlobError(k, retriable)
      PROVE  DaInv'
  <2>1. /\ sending' = [sending EXCEPT ![k] = AfterError(k, retriable)] /\ sending[k].pc = "send"
        /\ UNCHANGED <<dbVars, poll, celestia, faults>> /\ faults' \in 0 .. MaxFaults
    BY <1>4 DEF DispatchBlobError, DaInv, DaTypeOK
  <2>. QED
    BY <2>1, GrowsUnchanged, AfterErrorInv
<1>5. CASE DispatchBlobLostAnswer(k)
  <2>1. /\ sending' = [sending EXCEPT ![k] = AfterError(k, TRUE)] /\ sending[k].pc = "send"
        /\ UNCHANGED <<dbVars, poll>> /\ SubmitBlob(k)
    BY <1>5 DEF DispatchBlobLostAnswer
  <2>2. faults' \in 0 .. MaxFaults
    BY <1>5, DispatcherAssumption DEF DispatchBlobLostAnswer, Fault, DaInv, DaTypeOK
  <2>. QED
    BY <2>1, <2>2, SubmitBlobGrows, AfterErrorInv
<1>6. CASE DispatchSave(k)
  BY <1>6, DispatchSaveInv
<1>7. CASE DispatchDbError(k)
  <2>1. /\ sending' = [sending EXCEPT ![k] = DoneSending]
        /\ UNCHANGED <<dbVars, poll, celestia>>
    BY <1>7 DEF DispatchDbError
  <2>2. faults' \in 0 .. MaxFaults
    BY <1>7, DispatcherAssumption DEF DispatchDbError, Fault, DaInv, DaTypeOK
  <2>. QED
    BY <2>1, <2>2, GrowsUnchanged, DoneInv
<1>. QED
  BY <1>1, <1>2, <1>3, <1>4, <1>5, <1>6, <1>7 DEF SendingStep

-----------------------------------------------------------------------------
(* poll_for_inclusion *)

\* A step of the poll that leaves the tables alone.
LEMMA PollLocal ==
    ASSUME DaInv, UNCHANGED <<dbVars, sending, celestia>>, faults' \in 0 .. MaxFaults,
           poll' \in Poll, PollInv'
    PROVE  DaInv'
<1>1. Grows
  BY GrowsUnchanged
<1>2. DaTypeOK'
  BY DEF DaInv, DaTypeOK, DbTypeOK, dbVars
<1>3. SendingInv'
  BY <1>1, SlotFrame DEF SendingInv
<1>. QED
  BY <1>1, <1>2, <1>3, StoredFrame DEF DaInv

\* A poll that waits for nothing.
LEMMA PollAtInv ==
    ASSUME NEW pc \in {"batch", "proof", "done"}, poll' = PollAt(pc)
    PROVE  poll' \in Poll /\ PollInv'
BY DEF PollAt, IdlePoll, Poll, Kind, Null, InclusionData, PollInv

\* The poll picks the oldest blob of the kind without inclusion data.
LEMMA PollReadInv ==
    ASSUME DaInv, PollRead
    PROVE  DaInv'
<1> DEFINE k == poll.pc
           b == Min(AwaitingInclusion(k))
<1>1. /\ UNCHANGED <<dbVars, sending, celestia, faults>> /\ faults' \in 0 .. MaxFaults
      /\ poll \in Poll /\ k \in Kind
  BY DEF PollRead, DaInv, DaTypeOK
<1>2. CASE AwaitingInclusion(k) = {}
  <2>1. poll' = PollAt(AfterPoll(k)) /\ AfterPoll(k) \in {"batch", "proof", "done"}
    BY <1>2 DEF PollRead, AfterPoll
  <2>. HIDE DEF k
  <2>2. poll' \in Poll /\ PollInv'
    BY <2>1, PollAtInv
  <2>. QED
    BY <1>1, <2>2, PollLocal
<1>3. CASE AwaitingInclusion(k) # {}
  <2>1. poll' = [poll EXCEPT !.pc = "ask", !.kind = k, !.batch = b, !.blob_id = Blob(k, b)]
    BY <1>3 DEF PollRead
  <2>2. b \in AwaitingInclusion(k) /\ \A c \in AwaitingInclusion(k) : b <= c
    <3>1. AwaitingInclusion(k) \in SUBSET Nat
      BY MaxBatchAssumption DEF AwaitingInclusion, Batch
    <3>. QED
      BY <1>3, <3>1, MinOfNats
  <2>. HIDE DEF k, b
  <2>3. b \in Batch /\ Blob(k, b) # Null /\ Blob(k, b) \in Nat
    BY <1>1, <2>2 DEF AwaitingInclusion, Blob, DaInv, DaTypeOK, DbTypeOK, DaRow
  <2>4. ASSUME k = "batch", NEW c \in Batch, c < b
        PROVE  Included("batch", c)
    <3>1. Blob("batch", c) # Null
      BY <2>3, <2>4 DEF DaInv, TablesInv
    <3>2. c \in Nat /\ b \in Nat
      BY <2>3, MaxBatchAssumption DEF Batch
    <3>3. c \notin AwaitingInclusion(k)
      BY <2>2, <2>4, <3>2
    <3>. QED
      BY <2>4, <3>1, <3>3 DEF AwaitingInclusion
  <2>5. /\ poll' \in Poll /\ poll'.pc = "ask" /\ poll'.kind = k /\ poll'.batch = b
        /\ poll'.blob_id = Blob(k, b)
    BY <1>1, <2>1, <2>3 DEF Poll
  <2>6. \A q \in Kind, c \in Batch : Blob(q, c)' = Blob(q, c) /\ Included(q, c)' = Included(q, c)
    BY <1>1 DEF dbVars, Blob, Included
  <2>7. PollInv'
    <3>1. poll'.batch \in Batch
      BY <2>3, <2>5
    <3>2. poll'.blob_id = Blob(poll.kind, poll.batch)' /\ poll'.blob_id # Null
      BY <1>1, <2>3, <2>5 DEF dbVars, Blob
    <3>3. poll'.kind = "batch" => \A c \in Batch : c < poll'.batch => Included("batch", c)'
      BY <2>4, <2>5, <2>6 DEF Kind
    <3>. QED
      BY <2>5, <3>1, <3>2, <3>3 DEF PollInv
  <2>. QED
    BY <1>1, <2>5, <2>7, PollLocal
<1>. QED
  BY <1>2, <1>3

\* The client has answered.
LEMMA PollAskInv ==
    ASSUME DaInv, PollAsk
    PROVE  DaInv'
<1> DEFINE data == IF UseDummyInclusionData THEN "client" ELSE "empty"
<1>1. /\ UNCHANGED <<dbVars, sending, celestia, faults>> /\ faults' \in 0 .. MaxFaults
      /\ poll \in Poll /\ poll.pc = "ask" /\ PollInv
  BY DEF PollAsk, DaInv, DaTypeOK
<1>2. /\ poll' \in Poll /\ poll'.pc = "save" /\ poll'.kind = poll.kind /\ poll'.batch = poll.batch
      /\ poll'.blob_id = poll.blob_id /\ poll'.data = data
  BY <1>1 DEF PollAsk, Poll, InclusionData
<1>3. data # "null" /\ (data = "client" => celestia[poll.blob_id].available)
  BY DEF PollAsk
<1>. HIDE DEF data
<1>4. \A q \in Kind, c \in Batch : Included(q, c)' = Included(q, c)
  BY <1>1 DEF dbVars, Included
<1>5. Blob(poll.kind, poll.batch)' = Blob(poll.kind, poll.batch)
  BY <1>1, <1>2 DEF dbVars, Blob
<1>6. PollInv'
  BY <1>1, <1>2, <1>3, <1>4, <1>5 DEF PollInv, Kind
<1>. QED
  BY <1>1, <1>2, <1>6, PollLocal

\* The inclusion data is stored in the row that was read.
LEMMA PollSaveInv ==
    ASSUME DaInv, PollSave
    PROVE  DaInv'
<1> DEFINE k == poll.kind
           b == poll.batch
           data == poll.data
<1>1. /\ UNCHANGED <<upstreamVars, senderTables, sending, celestia, faults>>
      /\ poll \in Poll /\ poll.pc = "save" /\ PollInv /\ DaTypeOK /\ TablesInv
      /\ SaveInclusionData(k, b, data)
  BY DEF PollSave, DaInv, DaTypeOK
<1>2. /\ k \in Kind /\ b \in Batch /\ data \in InclusionData /\ data # "null"
      /\ Blob(k, b) # Null
      /\ data = "client" => celestia[Blob(k, b)].available
  BY <1>1 DEF Poll, PollInv
<1>3. via_data_availability \in [Kind -> [Batch -> DaRow]]
  BY <1>1 DEF DaTypeOK, DbTypeOK
<1>4. poll' \in Poll /\ PollInv'
  <2>1. \E pc \in {"batch", "proof", "done"} : poll' = PollAt(pc)
    BY DEF PollSave, AfterPoll
  <2>. QED
    BY <2>1, PollAtInv
<1>. HIDE DEF k, b, data
<1>5. /\ via_data_availability' \in [Kind -> [Batch -> DaRow]]
      /\ \A q \in Kind, c \in Batch :
            /\ Blob(q, c)' = Blob(q, c)
            /\ via_data_availability'[q][c].inclusion_data
                  = IF q = k /\ c = b /\ ~Included(q, c) THEN data
                    ELSE via_data_availability[q][c].inclusion_data
  BY <1>1, <1>2, <1>3, SaveInclusionDataEffect
<1>6. \A c \in Batch : CommitId(c)' = CommitId(c)
  BY <1>1 DEF CommitId, senderTables
<1>7. DaTypeOK'
  <2>1. DbTypeOK'
    BY <1>1, <1>5 DEF DaTypeOK, DbTypeOK, upstreamVars, senderTables
  <2>. QED
    BY <1>1, <1>4, <2>1 DEF DaTypeOK
<1>8. TablesInv'
  <2>1. \A q \in Kind, c \in Batch : Included(q, c)' => Blob(q, c)' # Null
    <3>1. \A q \in Kind, c \in Batch : Included(q, c) => Blob(q, c) # Null
      BY <1>1 DEF TablesInv
    <3>. QED
      BY <1>2, <1>5, <3>1 DEF Included
  <2>. QED
    BY <1>1, <1>5, <1>6, <2>1 DEF TablesInv, upstreamVars, Kind
<1>9. Grows
  <2>1. sealed \in Nat /\ commitments \in Nat
    BY <1>1, MaxBatchAssumption DEF DaTypeOK, DbTypeOK
  <2>2. \A c \in Batch : Blob("batch", c)' = Blob("batch", c)
    BY <1>5 DEF Kind
  <2>3. /\ celestia \in Seq([batch : Batch, kind : Kind, available : BOOLEAN])
        /\ Len(celestia) \in Nat /\ Len(celestia) <= MaxBlobs
    BY <1>1 DEF DaTypeOK, TablesInv
  <2>4. sealed' = sealed /\ commitments' = commitments /\ celestia' = celestia
    BY <1>1 DEF upstreamVars
  <2>. QED
    BY <2>1, <2>2, <2>3, <2>4 DEF Grows
<1>10. SendingInv'
  BY <1>1, <1>9, SlotFrame DEF SendingInv
<1>11. StoredBlobIsOwn'
  <2>1. StoredBlobIsOwn /\ celestia' = celestia
    BY <1>1 DEF DaInv
  <2>. QED
    BY <1>5, <2>1 DEF StoredBlobIsOwn
<1>12. InclusionIsOfStoredBlob'
  <2>1. InclusionIsOfStoredBlob /\ celestia' = celestia
    BY <1>1 DEF DaInv
  <2>. QED
    BY <1>2, <1>5, <2>1 DEF InclusionIsOfStoredBlob
<1>. QED
  BY <1>4, <1>7, <1>8, <1>10, <1>11, <1>12 DEF DaInv

\* Every step of poll_for_inclusion.
LEMMA PollStepInv ==
    ASSUME DaInv, PollStep
    PROVE  DaInv'
<1>1. CASE PollNone \/ PollError \/ PollDbError
  <2>1. /\ \E pc \in {"batch", "proof", "done"} : poll' = PollAt(pc)
        /\ UNCHANGED <<dbVars, sending, celestia>>
    BY <1>1 DEF PollNone, PollError, PollDbError, AfterPoll
  <2>2. faults' \in 0 .. MaxFaults
    BY <1>1, DispatcherAssumption
    DEF PollNone, PollError, PollDbError, Fault, DaInv, DaTypeOK
  <2>. QED
    BY <2>1, <2>2, PollAtInv, PollLocal
<1>. QED
  BY <1>1, PollReadInv, PollAskInv, PollSaveInv DEF PollStep

-----------------------------------------------------------------------------
(* The other steps *)

\* A new round, and a restart, start the three sub-tasks afresh.
LEMMA ForgetInv ==
    ASSUME DaInv, ForgetDispatcher, UNCHANGED <<dbVars, celestia>>, faults' \in 0 .. MaxFaults
    PROVE  DaInv'
<1>1. /\ IdleSending \in Sending
      /\ IdleSending.queue = {} /\ IdleSending.pc \notin {"send", "save"}
  BY DispatcherAssumption DEF IdleSending, Sending, Null
<1>2. poll' \in Poll /\ PollInv'
  BY DEF ForgetDispatcher, IdlePoll, Poll, Kind, Null, InclusionData, PollInv
<1>3. sending' \in [Kind -> Sending] /\ \A k \in Kind : sending'[k] = IdleSending
  BY <1>1 DEF ForgetDispatcher
<1>4. DaTypeOK'
  BY <1>2, <1>3 DEF DaInv, DaTypeOK, DbTypeOK, dbVars
<1>5. SendingInv'
  BY <1>1, <1>3, SlotEmpty DEF SendingInv
<1>. QED
  BY <1>2, <1>4, <1>5, GrowsUnchanged, StoredFrame DEF DaInv

\* A blob becomes available on the DA layer.
LEMMA BlobAvailableInv ==
    ASSUME DaInv, NEW i \in 1 .. Len(celestia), BlobAvailable(i)
    PROVE  DaInv'
<1> DEFINE blob == [celestia[i] EXCEPT !.available = TRUE]
           Blobs == [batch : Batch, kind : Kind, available : BOOLEAN]
<1>1. /\ UNCHANGED <<dbVars, sending, poll, faults>> /\ DaTypeOK
      /\ celestia' = [celestia EXCEPT ![i] = blob]
      /\ celestia \in Seq(Blobs) /\ Len(celestia) <= MaxBlobs
  BY DEF BlobAvailable, DaInv, DaTypeOK, TablesInv
<1>0. celestia[i] \in Blobs
  <2>. HIDE DEF Blobs
  <2>. QED
    BY <1>1
<1>2. blob \in Blobs /\ blob.batch = celestia[i].batch /\ blob.kind = celestia[i].kind
  BY <1>0
<1>3. blob.available
  BY <1>0, Zenon
<1>. HIDE DEF blob
<1>4. /\ celestia' \in Seq(Blobs) /\ Len(celestia') = Len(celestia)
      /\ \A j \in 1 .. Len(celestia) : celestia'[j] = IF j = i THEN blob ELSE celestia[j]
  <2>. HIDE DEF Blobs
  <2>. QED
    BY <1>1, <1>2
<1>5. Grows
  <2>1. sealed \in Nat /\ commitments \in Nat /\ Len(celestia) \in Nat
    BY <1>1, MaxBatchAssumption DEF DaTypeOK, DbTypeOK
  <2>2. \A b \in Batch : Blob("batch", b)' = Blob("batch", b)
    BY <1>1 DEF dbVars, Blob
  <2>3. \A j \in 1 .. Len(celestia) :
           celestia'[j].batch = celestia[j].batch /\ celestia'[j].kind = celestia[j].kind
    BY <1>2, <1>4
  <2>4. \A j \in 1 .. Len(celestia) : celestia[j].available => celestia'[j].available
    BY <1>3, <1>4, Zenon
  <2>. QED
    BY <1>1, <1>4, <2>1, <2>2, <2>3, <2>4 DEF Grows, dbVars
<1>6. DaTypeOK'
  BY <1>1, <1>4 DEF DaTypeOK, DbTypeOK, dbVars
<1>7. SendingInv'
  BY <1>1, <1>5, SlotFrame DEF SendingInv
<1>8. PollInv'
  BY <1>1, <1>5, PollFrame DEF dbVars
<1>. QED
  BY <1>1, <1>5, <1>6, <1>7, <1>8, StoredFrame DEF DaInv

\* The tables upstream of the dispatcher grow; a commit request is queued for
\* an included batch.
LEMMA TablesGrowInv ==
    ASSUME DaInv, \/ DaUpstream /\ UNCHANGED dispatcherVars
                  \/ \E b \in Batch : CommitRequested(b)
    PROVE  DaInv'
<1>1. /\ UNCHANGED <<via_data_availability, sending, poll, celestia, faults>>
      /\ DaTypeOK /\ TablesInv /\ DbTypeOK
  BY DEF DaUpstream, SealL1Batch, SaveL1BatchCommitmentArtifacts, SaveProofArtifacts,
         CommitRequested, dispatcherVars, DaInv, DaTypeOK
<1>2. /\ sealed \in Nat /\ commitments \in Nat
      /\ sealed' \in 0 .. MaxBatch /\ commitments' \in 0 .. sealed'
      /\ sealed <= sealed' /\ commitments <= commitments'
      /\ generated' \in SUBSET Batch /\ generated' \subseteq 1 .. commitments'
  <2>0. /\ sealed \in 0 .. MaxBatch /\ commitments \in 0 .. sealed
        /\ generated \in SUBSET Batch /\ generated \subseteq 1 .. commitments
    BY <1>1 DEF DbTypeOK, TablesInv
  <2>1. CASE SealL1Batch
    BY <2>0, <2>1, MaxBatchAssumption DEF SealL1Batch
  <2>2. CASE SaveL1BatchCommitmentArtifacts
    BY <2>0, <2>2, MaxBatchAssumption DEF SaveL1BatchCommitmentArtifacts
  <2>3. CASE \E b \in Batch : SaveProofArtifacts(b)
    BY <2>0, <2>3, MaxBatchAssumption DEF SaveProofArtifacts
  <2>4. CASE \E b \in Batch : CommitRequested(b)
    BY <2>0, <2>4, MaxBatchAssumption DEF CommitRequested, upstreamVars
  <2>. QED
    BY <2>1, <2>2, <2>3, <2>4 DEF DaUpstream
<1>3. /\ inscription_request' \in [Batch -> [commit_id : Nat, proof_id : Nat]]
      /\ \A b \in Batch : CommitId(b)' # Null => Blob("batch", b) # Null
      /\ UNCHANGED <<requests, history>>
  <2>1. CASE DaUpstream
    BY <1>1, <2>1
    DEF DaUpstream, SealL1Batch, SaveL1BatchCommitmentArtifacts, SaveProofArtifacts,
        DbTypeOK, TablesInv, CommitId
  <2>2. ASSUME NEW b \in Batch, CommitRequested(b)
        PROVE  /\ inscription_request' \in [Batch -> [commit_id : Nat, proof_id : Nat]]
               /\ \A c \in Batch : CommitId(c)' # Null => Blob("batch", c) # Null
               /\ UNCHANGED <<requests, history>>
    <3>1. b \in Nat
      BY MaxBatchAssumption DEF Batch
    <3>2. inscription_request \in [Batch -> [commit_id : Nat, proof_id : Nat]]
      BY <1>1 DEF DbTypeOK
    <3>3. /\ inscription_request' = [inscription_request EXCEPT ![b].commit_id = b]
          /\ Included("batch", b) /\ UNCHANGED <<requests, history>>
      BY <2>2 DEF CommitRequested, ReadyForCommitL1Batches
    <3>4. Blob("batch", b) # Null
      BY <1>1, <3>3 DEF TablesInv, Kind
    <3>. QED
      BY <1>1, <3>1, <3>2, <3>3, <3>4 DEF CommitId, TablesInv
  <2>. QED
    BY <2>1, <2>2
<1>4. DaTypeOK'
  BY <1>1, <1>2, <1>3 DEF DaTypeOK, DbTypeOK
<1>5. \A k \in Kind, b \in Batch : Blob(k, b)' = Blob(k, b) /\ Included(k, b)' = Included(k, b)
  BY <1>1 DEF Blob, Included
<1>6. TablesInv'
  BY <1>1, <1>2, <1>3, <1>5 DEF TablesInv, Kind
<1>7. Grows
  BY <1>1, <1>2, <1>5, MaxBatchAssumption DEF Grows, DaTypeOK, TablesInv, Kind
<1>8. SendingInv'
  BY <1>1, <1>7, SlotFrame DEF SendingInv
<1>9. PollInv'
  BY <1>1, <1>7, PollFrame
<1>10. StoredBlobIsOwn' /\ InclusionIsOfStoredBlob'
  <2>1. celestia' = celestia /\ via_data_availability' = via_data_availability
    BY <1>1
  <2>2. StoredBlobIsOwn /\ InclusionIsOfStoredBlob
    BY DEF DaInv
  <2>3. StoredBlobIsOwn'
    BY <1>5, <2>1, <2>2 DEF StoredBlobIsOwn
  <2>4. InclusionIsOfStoredBlob'
    BY <1>5, <2>1, <2>2 DEF InclusionIsOfStoredBlob
  <2>. QED
    BY <2>3, <2>4
<1>. QED
  BY <1>4, <1>6, <1>8, <1>9, <1>10 DEF DaInv

-----------------------------------------------------------------------------

\* Every step of the dispatcher and of the tasks around it.
LEMMA DaNextInv == DaInv /\ [DaNext]_daVars => DaInv'
<1>. SUFFICES ASSUME DaInv, [DaNext]_daVars PROVE DaInv'
  OBVIOUS
<1>1. CASE UNCHANGED daVars
  <2>1. /\ UNCHANGED <<dbVars, sending, celestia>> /\ poll' \in Poll /\ faults' \in 0 .. MaxFaults
        /\ UNCHANGED <<via_data_availability, poll>>
    BY <1>1 DEF daVars, dispatcherVars, dbVars, DaInv, DaTypeOK
  <2>. QED
    BY <2>1, GrowsUnchanged, PollFrame, PollLocal
<1>2. CASE NextRound
  <2>1. ForgetDispatcher /\ UNCHANGED <<dbVars, celestia>> /\ faults' \in 0 .. MaxFaults
    BY <1>2 DEF NextRound, ForgetDispatcher, DaInv, DaTypeOK
  <2>. QED
    BY <2>1, ForgetInv
<1>3. CASE DispatcherRestart
  <2>1. ForgetDispatcher /\ UNCHANGED <<dbVars, celestia>>
    BY <1>3 DEF DispatcherRestart
  <2>2. faults' \in 0 .. MaxFaults
    BY <1>3, DispatcherAssumption DEF DispatcherRestart, Fault, DaInv, DaTypeOK
  <2>. QED
    BY <2>1, <2>2, ForgetInv
<1>4. CASE \E k \in Kind : SendingStep(k)
  BY <1>4, SendingStepInv
<1>5. CASE \E b \in Batch : ProofLoadError(b)
  BY <1>5, ProofLoadErrorInv
<1>6. CASE PollStep
  BY <1>6, PollStepInv
<1>7. CASE \E i \in 1 .. Len(celestia) : BlobAvailable(i)
  BY <1>7, BlobAvailableInv
<1>. QED
  BY <1>1, <1>2, <1>3, <1>4, <1>5, <1>6, <1>7, TablesGrowInv DEF DaNext, DispatcherStep

\* The invariant of the dispatcher.
LEMMA DaInvariant == DaSpec => []DaInv
BY DaInitInv, DaNextInv, PTL DEF DaSpec

\* Type correctness of the dispatcher; in particular the retry counter of
\* retry() stays within max_retries + 1.
THEOREM DispatcherTypes == DaSpec => []DaTypeOK
<1>1. DaInv => DaTypeOK
  BY DEF DaInv
<1>. QED
  BY <1>1, DaInvariant, PTL

\* A stored blob id is that of a blob with the pubdata (or the proof) of that
\* batch, across retries, lost answers, orphaned blobs and restarts.
THEOREM StoredBlobs == DaSpec => []StoredBlobIsOwn
<1>1. DaInv => StoredBlobIsOwn
  BY DEF DaInv
<1>. QED
  BY <1>1, DaInvariant, PTL

\* Inclusion data of the client is stored only for a row whose stored blob is
\* available, although poll_for_inclusion saves it some awaits after it read
\* the blob id.
THEOREM InclusionIsOfBlob == DaSpec => []InclusionIsOfStoredBlob
<1>1. DaInv => InclusionIsOfStoredBlob
  BY DEF DaInv
<1>. QED
  BY <1>1, DaInvariant, PTL

\* dispatch stores a pubdata blob only when the blobs of the earlier batches
\* are stored, dispatch_proofs a proof blob only after the pubdata blob.
LEMMA DispatchSaveKeepsPromise ==
    ASSUME DaInv, NEW k \in Kind, DispatchSave(k)
    PROVE  [Promise!PromiseNext]_(Promise!promiseVars)
<1> DEFINE b == sending[k].batch
           id == sending[k].blob_id
<1>1. /\ UNCHANGED upstreamVars /\ sending[k].pc = "save"
      /\ UNCHANGED via_data_availability \/ InsertDa(k, b, id)
  BY DEF DispatchSave
<1>2. /\ b \in Batch /\ id \in 1 .. MaxBlobs /\ id \in Nat
      /\ k = "batch" => b \in 1 .. sealed
      /\ k = "proof" => b \in 1 .. commitments /\ Blob("batch", b) # Null
  <2>1. SlotInv(k, sending[k]) /\ b \in Todo(sending[k])
    BY <1>1 DEF DaInv, SendingInv, Todo
  <2>2. b \in Batch /\ id \in 1 .. Len(celestia) /\ Len(celestia) <= MaxBlobs
    BY <1>1, <2>1 DEF SlotInv, DaInv, TablesInv
  <2>3. sealed \in Nat /\ commitments \in Nat /\ b \in Nat /\ b # 0 /\ Len(celestia) \in Nat
    <3>1. sealed \in Nat /\ commitments \in Nat /\ Len(celestia) \in Nat
      BY MaxBatchAssumption DEF DaInv, DaTypeOK, DbTypeOK
    <3>2. b \in Nat /\ b # 0
      BY <2>2, MaxBatchAssumption DEF Batch
    <3>. QED
      BY <3>1, <3>2
  <2>4. id \in 1 .. MaxBlobs /\ id \in Nat
    BY <2>2, <2>3, DispatcherAssumption
  <2>5. k = "batch" => b <= sealed
    BY <2>1 DEF SlotInv
  <2>6. k = "proof" => b <= commitments /\ Blob("batch", b) # Null
    BY <2>1 DEF SlotInv
  <2>. QED
    BY <2>2, <2>3, <2>4, <2>5, <2>6
<1>3. via_data_availability \in [Kind -> [Batch -> DaRow]]
  BY DEF DaInv, DaTypeOK, DbTypeOK
<1>4. \A c \in 1 .. b - 1 : c \in Batch /\ c < b
  BY <1>2, MaxBatchAssumption DEF Batch
<1>5. k = "batch" => \A c \in 1 .. b - 1 : Blob("batch", c) # Null
  BY <1>1, <1>4, SavedInOrder
<1>. HIDE DEF b, id
<1>6. CASE UNCHANGED via_data_availability
  BY <1>1, <1>6 DEF Promise!promiseVars, upstreamVars
<1>7. CASE InsertDa(k, b, id) /\ Blob(k, b) # Null
  <2>1. UNCHANGED via_data_availability
    BY <1>2, <1>3, <1>7, InsertDaEffect
  <2>. QED
    BY <1>1, <2>1 DEF Promise!promiseVars, upstreamVars
<1>8. CASE InsertDa(k, b, id) /\ Blob(k, b) = Null
  <2>1. Promise!InsertDa(k, b, id)
    BY <1>8 DEF InsertDa, Promise!InsertDa, Null, Promise!Null
  <2>2. CASE k = "batch"
    <3>1. Promise!PublishBatch(b)
      BY <1>1, <1>2, <1>5, <1>8, <2>1, <2>2
      DEF Promise!PublishBatch, Promise!Blob, Blob, Null, Promise!Null, upstreamVars
    <3>. QED
      BY <1>2, <3>1 DEF Promise!PromiseNext, Promise!PromiseStep, Promise!Batch, Batch
  <2>3. CASE k = "proof"
    <3>1. Promise!PublishProof(b)
      BY <1>1, <1>2, <1>8, <2>1, <2>3
      DEF Promise!PublishProof, Promise!Blob, Blob, Null, Promise!Null, upstreamVars
    <3>. QED
      BY <1>2, <3>1 DEF Promise!PromiseNext, Promise!PromiseStep, Promise!Batch, Batch
  <2>. QED
    BY <2>2, <2>3 DEF Kind
<1>. QED
  BY <1>1, <1>6, <1>7, <1>8

\* poll_for_inclusion completes the pubdata rows in batch order.
LEMMA PollSaveKeepsPromise ==
    ASSUME DaInv, PollSave
    PROVE  [Promise!PromiseNext]_(Promise!promiseVars)
<1> DEFINE k == poll.kind
           b == poll.batch
           data == poll.data
<1>1. /\ UNCHANGED upstreamVars /\ SaveInclusionData(k, b, data)
      /\ poll.pc = "save" /\ poll \in Poll
  BY DEF PollSave, DaInv, DaTypeOK
<1>2. /\ k \in Kind /\ b \in Batch /\ data \in {"empty", "client"}
      /\ data \in InclusionData /\ Blob(k, b) # Null
      /\ k = "batch" => \A c \in 1 .. b - 1 : Included("batch", c)
  <2>1. /\ k \in Kind /\ b \in Batch /\ data \in InclusionData /\ data # "null"
        /\ Blob(k, b) # Null
        /\ k = "batch" => \A c \in Batch : c < b => Included("batch", c)
    BY <1>1 DEF DaInv, PollInv, Poll
  <2>2. \A c \in 1 .. b - 1 : c \in Batch /\ c < b
    BY <2>1, MaxBatchAssumption DEF Batch
  <2>. QED
    BY <2>1, <2>2 DEF InclusionData
<1>3. via_data_availability \in [Kind -> [Batch -> DaRow]]
  BY DEF DaInv, DaTypeOK, DbTypeOK
<1>. HIDE DEF k, b, data
<1>4. CASE Included(k, b)
  <2>1. UNCHANGED via_data_availability
    BY <1>1, <1>2, <1>3, <1>4, SaveInclusionDataEffect
  <2>. QED
    BY <1>1, <2>1 DEF Promise!promiseVars, upstreamVars
<1>5. CASE ~Included(k, b)
  <2>1. Promise!SaveInclusionData(k, b, data)
    BY <1>1 DEF SaveInclusionData, Promise!SaveInclusionData
  <2>2. CASE k = "batch"
    <3>1. Promise!IncludeBatch(b)
      BY <1>1, <1>2, <1>5, <2>1, <2>2
      DEF Promise!IncludeBatch, Promise!Blob, Blob, Promise!Included, Included, Null,
          Promise!Null, upstreamVars
    <3>. QED
      BY <1>2, <3>1 DEF Promise!PromiseNext, Promise!PromiseStep, Promise!Batch, Batch
  <2>3. CASE k = "proof"
    <3>1. Promise!IncludeProof(b)
      BY <1>1, <1>2, <1>5, <2>1, <2>3
      DEF Promise!IncludeProof, Promise!Blob, Blob, Promise!Included, Included, Null,
          Promise!Null, upstreamVars
    <3>. QED
      BY <1>2, <3>1 DEF Promise!PromiseNext, Promise!PromiseStep, Promise!Batch, Batch
  <2>. QED
    BY <1>2, <2>2, <2>3 DEF Kind
<1>. QED
  BY <1>4, <1>5

\* Every other step leaves what is promised alone or is one of the upstream tasks.
LEMMA StepKeepsPromise ==
    ASSUME DaInv, [DaNext]_daVars
    PROVE  [Promise!PromiseNext]_(Promise!promiseVars)
<1>1. CASE DaUpstream
  <2>1. Promise!Upstream
    BY <1>1 DEF DaUpstream, Promise!Upstream, SealL1Batch, Promise!SealL1Batch,
                SaveL1BatchCommitmentArtifacts, Promise!SaveL1BatchCommitmentArtifacts,
                SaveProofArtifacts, Promise!SaveProofArtifacts, Batch, Promise!Batch
  <2>. QED
    BY <2>1 DEF Promise!PromiseNext
<1>2. CASE UNCHANGED dbVars \/ UNCHANGED daVars \/ \E b \in Batch : CommitRequested(b)
  BY <1>2 DEF Promise!promiseVars, dbVars, daVars, CommitRequested, upstreamVars
<1>3. ASSUME NEW k \in Kind, SendingStep(k), ~DispatchSave(k) PROVE UNCHANGED dbVars
  BY <1>3 DEF SendingStep, DispatchStart, DispatchLoad, DispatchFinish, DispatchBlobOk,
              DispatchBlobError, DispatchBlobLostAnswer, DispatchDbError
<1>4. ASSUME PollStep, ~PollSave PROVE UNCHANGED dbVars
  BY <1>4 DEF PollStep, PollRead, PollAsk, PollNone, PollError, PollDbError
<1>5. ASSUME \/ NextRound \/ DispatcherRestart
             \/ \E b \in Batch : ProofLoadError(b)
             \/ \E i \in 1 .. Len(celestia) : BlobAvailable(i)
      PROVE  UNCHANGED dbVars
  BY <1>5 DEF NextRound, DispatcherRestart, ProofLoadError, BlobAvailable
<1>. QED
  BY <1>1, <1>2, <1>3, <1>4, <1>5, DispatchSaveKeepsPromise, PollSaveKeepsPromise
  DEF DaNext, DispatcherStep

\* The dispatcher implements DaPromise: pubdata blobs are stored, and get their
\* inclusion data, in batch order, a proof blob follows the pubdata blob of its
\* batch, and a stored value never changes, for every number of batches, rows
\* per round, retries and faults.
THEOREM DispatcherKeepsPromise == DaSpec => ImplementsPromise
<1>1. DaInit => Promise!PromiseInit
  BY DEF DaInit, Promise!PromiseInit, DbInit, Promise!DbInit, Kind, Promise!Kind, Batch,
         Promise!Batch, Null, Promise!Null
<1>2. DaInv /\ [DaNext]_daVars => [Promise!PromiseNext]_(Promise!promiseVars)
  BY StepKeepsPromise
<1>. QED
  BY <1>1, <1>2, DaInvariant, PTL DEF DaSpec, ImplementsPromise, Promise!PromiseSpec

=============================================================================
