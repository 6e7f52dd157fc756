---------------------------- MODULE IngestPipeline ----------------------------
(***************************************************************************)
(* The ingest API and the VLM workers together: from an edge device's POST *)
(* to the evidence that the aggregator is told of.                         *)
(***************************************************************************)
EXTENDS Ingestion, VlmAnalyzer

vars == << ingestStoreVars, call, analyzerVars >>

TypeOK == IngestStoreTypeOK /\ CallTypeOK /\ AnalyzerTypeOK

Init == IngestStoreInit /\ CallInit /\ AnalyzerInit

CallStep(c) == (CallProgress(c) \/ CallFault(c)) /\ UNCHANGED analyzerVars

PollStep(p) == (PollProgress(p) \/ PollFault(p)) /\ UNCHANGED call

TaskStep(c) == (TaskProgress(c) \/ TaskFault(c)) /\ UNCHANGED call

\* Nothing is left to do; what is pending without a task stays so.
Quiescent ==
    /\ \A c \in Call : /\ CallEnded(c)
                       /\ stream[c] # "new"
                       /\ task[c].pc \in { "none", "done", "dead" }
    /\ \A p \in Poll : batch[p] = {}
    /\ UNCHANGED vars

Next ==
    \/ \E c \in Call : CallStep(c) \/ TaskStep(c)
    \/ \E p \in Poll : PollStep(p)
    \/ \E i \in Ingestion : ExpireIdemKey(i) /\ UNCHANGED << call, analyzerVars >>
    \/ Quiescent

Spec == Init /\ [][Next]_vars

\* Requests, polls (beat starts one every two seconds) and tasks keep running;
\* an analysis ends, well or badly.
Fairness ==
    /\ \A c \in Call : /\ WF_vars(CallProgress(c) /\ UNCHANGED analyzerVars)
                       /\ WF_vars((TaskProgress(c) \/ AnalyzeFails(c)) /\ UNCHANGED call)
    /\ \A p \in Poll : WF_vars(PollProgress(p) /\ UNCHANGED call)

FairSpec == Spec /\ Fairness

-----------------------------------------------------------------------------
\* Safety under every fault

\* No entry is acknowledged into the void: it has its evidence, or a copy in
\* the dead-letter stream, whatever fails, is killed or is retried.
AckedIsAccounted ==
    \A c \in Call : stream[c] = "acked" => IngestionOf[c] \in evidence \/ c \in dlq

\* An ingestion is aggregated at most once, even if it was appended twice, its
\* tasks are retried, or the broker took a message and the call raised: only
\* the attempt that commits the evidence row gets to hand it on.
AggregatedAtMostOnce == \A i \in Ingestion : aggregated[i] <= 1

\* The aggregator is never told of evidence it cannot find.
AggregatedIsStored == \A i \in Ingestion : aggregated[i] > 0 => i \in evidence

-----------------------------------------------------------------------------
\* Safety as long as Redis answers, no process is killed, no key expires

\* A sequence the API refused can be sent again: a key that is set belongs to
\* a call that is still being served or whose entry is in the stream.
KeyMeansAccepted ==
    \A i \in Ingestion : idem[i] # NoCall =>
        call[idem[i]] \in InTry \/ stream[idem[i]] # "none"

\* The same ingestion is appended once, however many calls carry it.
EnqueuedOnce ==
    \A i \in Ingestion : Cardinality({ c \in Entries : IngestionOf[c] = i }) <= 1

-----------------------------------------------------------------------------
\* Liveness under the same conditions

\* What was accepted is handed to the aggregator or lands in the dead-letter
\* stream, acknowledged either way: nothing stays pending.
EventuallyAccounted ==
    \A c \in Call : (stream[c] = "new") ~>
        /\ stream[c] = "acked"
        /\ c \in dlq \/ aggregated[IngestionOf[c]] = 1

=============================================================================
