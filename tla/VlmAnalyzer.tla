----------------------------- MODULE VlmAnalyzer -----------------------------
(***************************************************************************)
(* workers/vlm_analyzer.py.  A poll reads new entries of the stream into   *)
(* its batch and queues one analyze_ingest_message task for each.  A task  *)
(* analyses, inserts the evidence in a transaction, acknowledges the entry *)
(* and queues the aggregation; any exception retries it from the start,    *)
(* and after the last retry the entry goes to the dead-letter stream.      *)
(***************************************************************************)
EXTENDS IngestStore

CONSTANTS
    Poll,          \* runs of process_ingest_stream that may overlap
    BatchSize,     \* count of xreadgroup: 10
    MaxRetries     \* max_retries of analyze_ingest_message: 3

ASSUME AnalyzerAssumption ==
    /\ BatchSize \in Nat \ {0}
    /\ MaxRetries \in Nat

VARIABLES
    batch,    \* entries each poll has read and not queued yet
    task      \* the analyze_ingest_message task of each entry

analyzerVars == << batch, task >>

TaskPc == { "none", "queued", "insert", "ack", "aggregate", "dlq", "dlq_ack",
            "done", "dead" }

AnalyzerTypeOK ==
    /\ batch \in [Poll -> SUBSET Call]
    /\ task \in [Call -> [ pc : TaskPc, retries : 0..MaxRetries ]]

AnalyzerInit ==
    /\ batch = [p \in Poll |-> {}]
    /\ task = [c \in Call |-> [ pc |-> "none", retries |-> 0 ]]

TaskAt(c, pc) == task[c].pc = pc

TaskGoes(c, pc) == task' = [task EXCEPT ![c].pc = pc]

TaskRunning(c) == task[c].pc \in { "insert", "ack", "aggregate", "dlq", "dlq_ack" }

-----------------------------------------------------------------------------
\* Polling

Read(entries) ==
    [ c \in Call |-> IF c \in entries THEN "pending" ELSE stream[c] ]

\* What XREADGROUP may deliver: all new entries, or as many as count allows.
Deliverable ==
    { s \in SUBSET Fresh : /\ s # {}
                           /\ s = Fresh \/ Cardinality(s) = BatchSize
                           /\ Cardinality(s) <= BatchSize }

\* XREADGROUP with ">": an entry is delivered once, to one poll.
ReadBatch(p) ==
    /\ batch[p] = {}
    /\ \E s \in Deliverable :
         /\ batch' = [batch EXCEPT ![p] = s]
         /\ stream' = Read(s)
    /\ UNCHANGED << idem, dlq, evidence, aggregated, task >>

\* The reply of XREADGROUP is lost: the entries are pending, with nobody.
LoseBatch(p) ==
    /\ Faulty("redis") /\ batch[p] = {}
    /\ \E s \in Deliverable : stream' = Read(s)
    /\ UNCHANGED << idem, dlq, evidence, aggregated, analyzerVars >>

\* analyze_ingest_message.delay for the next entry of the batch.
Dispatch(p, c) ==
    /\ c \in batch[p]
    /\ batch' = [batch EXCEPT ![p] = @ \ {c}]
    /\ TaskGoes(c, "queued")
    /\ UNCHANGED ingestStoreVars

\* delay raises, the message published or not; or the poll is killed.  The
\* rest of the batch stays in the pending list and is not read again.
StopPoll(p) ==
    /\ batch[p] # {}
    /\ batch' = [batch EXCEPT ![p] = {}]
    /\ \/ Faulty("crash") /\ UNCHANGED task
       \/ /\ Faulty("redis")
          /\ \/ UNCHANGED task
             \/ \E c \in batch[p] : TaskGoes(c, "queued")
    /\ UNCHANGED ingestStoreVars

-----------------------------------------------------------------------------
\* Analysing

\* Mutant: the last exception is raised like the others, without a dead letter.
RetriedUnheard(c) ==
    task' = [task EXCEPT ![c] =
        IF @.retries >= MaxRetries THEN [@ EXCEPT !.pc = "dead"]
        ELSE [ pc |-> "queued", retries |-> @.retries + 1 ]]

\* Mutant: one retry more than max_retries.
RetriedOnceMore(c) ==
    task' = [task EXCEPT ![c] =
        IF @.retries > MaxRetries THEN [@ EXCEPT !.pc = "dlq"]
        ELSE [ pc |-> "queued", retries |-> @.retries + 1 ]]

\* The exception handler of analyze_ingest_message and autoretry_for.
Retried(c) ==
    task' = [task EXCEPT ![c] =
        IF @.retries >= MaxRetries THEN [@ EXCEPT !.pc = "dlq"]
        ELSE [ pc |-> "queued", retries |-> @.retries + 1 ]]

Acked(c) == [stream EXCEPT ![c] = "acked"]

\* Mutant: the entry is acknowledged before its evidence is stored.
AnalyzeAcks(c) ==
    /\ TaskAt(c, "queued")
    /\ TaskGoes(c, "insert")
    /\ stream' = Acked(c)
    /\ UNCHANGED << idem, dlq, evidence, aggregated, batch >>

\* Lens, rules, feedback and the model's answer.
Analyze(c) ==
    /\ TaskAt(c, "queued")
    /\ TaskGoes(c, "insert")
    /\ UNCHANGED << ingestStoreVars, batch >>

AnalyzeFails(c) ==
    /\ Faulty("analysis") /\ TaskAt(c, "queued")
    /\ Retried(c)
    /\ UNCHANGED << ingestStoreVars, batch >>

\* Mutant: uq_evidences_tenant_ingestion is missing.
InsertAgain(c) ==
    /\ TaskAt(c, "insert")
    /\ evidence' = evidence \cup {IngestionOf[c]}
    /\ TaskGoes(c, "ack")
    /\ UNCHANGED << idem, stream, dlq, aggregated, batch >>

\* Mutant: the transaction is left without a commit.
InsertUncommitted(c) ==
    /\ TaskAt(c, "insert")
    /\ TaskGoes(c, "ack")
    /\ UNCHANGED << ingestStoreVars, batch >>

\* INSERT and COMMIT of the evidence; a second row of the same ingestion
\* violates uq_evidences_tenant_ingestion.
InsertEvidence(c) ==
    /\ TaskAt(c, "insert")
    /\ \/ /\ IngestionOf[c] \notin evidence
          /\ evidence' = evidence \cup {IngestionOf[c]}
          /\ TaskGoes(c, "ack")
       \/ /\ IngestionOf[c] \in evidence
          /\ Retried(c)
          /\ UNCHANGED evidence
    /\ UNCHANGED << idem, stream, dlq, aggregated, batch >>

\* XACK after the commit.
Acknowledge(c) ==
    /\ TaskAt(c, "ack")
    /\ stream' = Acked(c)
    /\ TaskGoes(c, "aggregate")
    /\ UNCHANGED << idem, dlq, evidence, aggregated, batch >>

AcknowledgeFails(c) ==
    /\ Faulty("redis") /\ TaskAt(c, "ack")
    /\ stream' \in { stream, Acked(c) }
    /\ Retried(c)
    /\ UNCHANGED << idem, dlq, evidence, aggregated, batch >>

HandedOn(c) == [aggregated EXCEPT ![IngestionOf[c]] = @ + 1]

\* aggregate_evidence.delay.
HandOn(c) ==
    /\ TaskAt(c, "aggregate")
    /\ aggregated' = HandedOn(c)
    /\ TaskGoes(c, "done")
    /\ UNCHANGED << idem, stream, dlq, evidence, batch >>

\* delay raises, the message published or not: the retry finds the evidence
\* inserted and ends in the dead-letter stream.
HandOnFails(c) ==
    /\ Faulty("redis") /\ TaskAt(c, "aggregate")
    /\ aggregated' \in { aggregated, HandedOn(c) }
    /\ Retried(c)
    /\ UNCHANGED << idem, stream, dlq, evidence, batch >>

\* move_to_dlq, then xack.
MoveToDlq(c) ==
    /\ TaskAt(c, "dlq")
    /\ dlq' = dlq \cup {c}
    /\ TaskGoes(c, "dlq_ack")
    /\ UNCHANGED << idem, stream, evidence, aggregated, batch >>

AcknowledgeDead(c) ==
    /\ TaskAt(c, "dlq_ack")
    /\ stream' = Acked(c)
    /\ TaskGoes(c, "done")
    /\ UNCHANGED << idem, dlq, evidence, aggregated, batch >>

\* An exception of the handler itself is past the last retry.
GiveUp(c) ==
    /\ Faulty("redis") /\ task[c].pc \in { "dlq", "dlq_ack" }
    /\ TaskGoes(c, "dead")
    /\ dlq' \in { dlq, dlq \cup {c} }
    /\ UNCHANGED << idem, stream, evidence, aggregated, batch >>

\* The worker is killed: the task's message was acknowledged when it began.
KillTask(c) ==
    /\ Faulty("crash")
    /\ TaskAt(c, "queued") \/ TaskRunning(c)
    /\ TaskGoes(c, "dead")
    /\ UNCHANGED << ingestStoreVars, batch >>

TaskProgress(c) ==
    \/ Analyze(c) \/ InsertEvidence(c) \/ Acknowledge(c) \/ HandOn(c)
    \/ MoveToDlq(c) \/ AcknowledgeDead(c)

TaskFault(c) ==
    \/ AnalyzeFails(c) \/ AcknowledgeFails(c) \/ HandOnFails(c) \/ GiveUp(c)
    \/ KillTask(c)

PollProgress(p) == ReadBatch(p) \/ \E c \in Call : Dispatch(p, c)

PollFault(p) == LoseBatch(p) \/ StopPoll(p)

=============================================================================
