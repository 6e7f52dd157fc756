----------------------------- MODULE IngestStore -----------------------------
(***************************************************************************)
(* What the ingest API and the VLM workers share: the idempotency keys and *)
(* the ingest stream in Redis, with the consumer group's pending list, the *)
(* dead-letter stream, the evidences table, and what was handed on to the  *)
(* aggregator's queue.                                                     *)
(*                                                                         *)
(* A stream entry is named by the HTTP call that appended it: a call       *)
(* appends at most one.                                                    *)
(***************************************************************************)
EXTENDS Integers, FiniteSets

CONSTANTS
    Call,           \* POST /v1/ingest/sequences requests
    Ingestion,      \* (tenant_id, ingestion_id) pairs
    IngestionOf,    \* the ingestion a call carries
    Faults,         \* which kinds of fault happen
    NoCall

\* analysis: no lens, or the model's call fails; redis: a Redis or broker call
\* raises, whether it was executed or not; crash: a process is killed;
\* expiry: the idempotency key's 24 hours run out.
FaultKind == { "analysis", "redis", "crash", "expiry" }

ASSUME IngestAssumption ==
    /\ IngestionOf \in [Call -> Ingestion]
    /\ Faults \subseteq FaultKind
    /\ NoCall \notin Call

VARIABLES
    idem,         \* the call that set the idempotency key, or NoCall
    stream,       \* none, new, pending (read by a consumer) or acked
    dlq,          \* entries copied to the dead-letter stream
    evidence,     \* ingestions with a committed evidences row
    aggregated    \* aggregate_evidence messages queued for each ingestion

ingestStoreVars == << idem, stream, dlq, evidence, aggregated >>

EntryStatus == { "none", "new", "pending", "acked" }

IngestStoreTypeOK ==
    /\ idem \in [Ingestion -> Call \cup {NoCall}]
    /\ stream \in [Call -> EntryStatus]
    /\ dlq \subseteq Call
    /\ evidence \subseteq Ingestion
    /\ aggregated \in [Ingestion -> Nat]

IngestStoreInit ==
    /\ idem = [i \in Ingestion |-> NoCall]
    /\ stream = [c \in Call |-> "none"]
    /\ dlq = {}
    /\ evidence = {}
    /\ aggregated = [i \in Ingestion |-> 0]

Entries == { c \in Call : stream[c] # "none" }

Fresh == { c \in Call : stream[c] = "new" }

Faulty(kind) == kind \in Faults

\* IDEMPOTENCY_TTL_SECS has passed.
ExpireIdemKey(i) ==
    /\ Faulty("expiry") /\ idem[i] # NoCall
    /\ idem' = [idem EXCEPT ![i] = NoCall]
    /\ UNCHANGED << stream, dlq, evidence, aggregated >>

=============================================================================
