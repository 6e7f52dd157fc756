------------------------------ MODULE Ingestion ------------------------------
(***************************************************************************)
(* IngestionService.accept_sequence: the idempotency key is claimed first, *)
(* then the active mode is checked, the frames are uploaded and the entry  *)
(* is appended to the stream; any failure in between gives the key back.   *)
(***************************************************************************)
EXTENDS IngestStore

VARIABLE call   \* where each request is, or how it was answered

\* refused: a 4xx or 5xx answer, which asks the edge device to try again;
\* cut: the server was killed before it answered.
CallState == { "new", "check", "upload", "enqueue", "cleanup",
               "queued", "duplicate", "refused", "cut" }

CallTypeOK == call \in [Call -> CallState]

CallInit == call = [c \in Call |-> "new"]

InTry == { "check", "upload", "enqueue", "cleanup" }

CallEnded(c) == call[c] \in { "queued", "duplicate", "refused", "cut" }

CallGoes(c, s) == call' = [call EXCEPT ![c] = s]

Key(c) == IngestionOf[c]

-----------------------------------------------------------------------------

\* Mutant: a plain SET instead of SET NX.
ClaimBlindly(c) ==
    /\ call[c] = "new"
    /\ idem' = [idem EXCEPT ![Key(c)] = c]
    /\ CallGoes(c, "check")
    /\ UNCHANGED << stream, dlq, evidence, aggregated >>

\* SET NX of the idempotency key.
Claim(c) ==
    /\ call[c] = "new"
    /\ \/ /\ idem[Key(c)] = NoCall
          /\ idem' = [idem EXCEPT ![Key(c)] = c]
          /\ CallGoes(c, "check")
       \/ /\ idem[Key(c)] # NoCall
          /\ CallGoes(c, "duplicate")
          /\ UNCHANGED idem
    /\ UNCHANGED << stream, dlq, evidence, aggregated >>

\* SET NX raises, executed or not: this is outside the try block.
ClaimFails(c) ==
    /\ Faulty("redis") /\ call[c] = "new"
    /\ idem' \in { idem, [idem EXCEPT ![Key(c)] = IF @ = NoCall THEN c ELSE @] }
    /\ CallGoes(c, "refused")
    /\ UNCHANGED << stream, dlq, evidence, aggregated >>

\* _validate_active_mode and _upload_frames: either goes on or raises.
CheckActiveMode(c) ==
    /\ call[c] = "check"
    /\ CallGoes(c, "upload") \/ CallGoes(c, "cleanup")
    /\ UNCHANGED ingestStoreVars

UploadFrames(c) ==
    /\ call[c] = "upload"
    /\ CallGoes(c, "enqueue") \/ CallGoes(c, "cleanup")
    /\ UNCHANGED ingestStoreVars

Appended(c) == [stream EXCEPT ![c] = "new"]

\* XADD to ingest:sequences, and the 202.
Enqueue(c) ==
    /\ call[c] = "enqueue"
    /\ stream' = Appended(c)
    /\ CallGoes(c, "queued")
    /\ UNCHANGED << idem, dlq, evidence, aggregated >>

\* XADD raises, executed or not.
EnqueueFails(c) ==
    /\ Faulty("redis") /\ call[c] = "enqueue"
    /\ stream' \in { stream, Appended(c) }
    /\ CallGoes(c, "cleanup")
    /\ UNCHANGED << idem, dlq, evidence, aggregated >>

\* Mutant: the except branch raises without giving the key back.
CleanUpKeepsKey(c) ==
    /\ call[c] = "cleanup"
    /\ CallGoes(c, "refused")
    /\ UNCHANGED ingestStoreVars

\* delete_key in the except branch, whoever holds the key by now.
CleanUp(c) ==
    /\ call[c] = "cleanup"
    /\ idem' = [idem EXCEPT ![Key(c)] = NoCall]
    /\ CallGoes(c, "refused")
    /\ UNCHANGED << stream, dlq, evidence, aggregated >>

CleanUpFails(c) ==
    /\ Faulty("redis") /\ call[c] = "cleanup"
    /\ CallGoes(c, "refused")
    /\ UNCHANGED ingestStoreVars

\* The API process is killed.
CutOff(c) ==
    /\ Faulty("crash") /\ call[c] \in InTry
    /\ CallGoes(c, "cut")
    /\ UNCHANGED ingestStoreVars

CallProgress(c) ==
    \/ Claim(c) \/ CheckActiveMode(c) \/ UploadFrames(c) \/ Enqueue(c)
    \/ CleanUp(c)

CallFault(c) ==
    \/ ClaimFails(c) \/ EnqueueFails(c) \/ CleanUpFails(c) \/ CutOff(c)

=============================================================================
