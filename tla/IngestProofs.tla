----------------------------- MODULE IngestProofs -----------------------------
(***************************************************************************)
(* Safety of the ingest pipeline for any number of requests, ingestions,   *)
(* polls and retries: first whatever fails, then what holds as long as     *)
(* Redis answers, no process is killed and no key expires.                 *)
(***************************************************************************)
EXTENDS IngestPipeline, FiniteSetTheorems, TLAPS

-----------------------------------------------------------------------------
(* Types.                                                                  *)

TaskState == [ pc : TaskPc, retries : 0..MaxRetries ]

LEMMA RetriedType ==
    ASSUME AnalyzerTypeOK, NEW c \in Call, Retried(c)
    PROVE  task' \in [Call -> TaskState]
<1>1. task[c] \in TaskState /\ MaxRetries \in Nat
  BY AnalyzerAssumption DEF AnalyzerTypeOK, TaskState
<1> DEFINE x == IF task[c].retries >= MaxRetries THEN [task[c] EXCEPT !.pc = "dlq"]
                ELSE [ pc |-> "queued", retries |-> task[c].retries + 1 ]
<1>2. x \in TaskState
  BY <1>1 DEF TaskState, TaskPc
<1>3. task' = [task EXCEPT ![c] = x]
  BY DEF Retried
<1> QED
  BY <1>2, <1>3 DEF AnalyzerTypeOK, TaskState

LEMMA TaskGoesType ==
    ASSUME AnalyzerTypeOK, NEW c \in Call, NEW p \in TaskPc, TaskGoes(c, p)
    PROVE  task' \in [Call -> TaskState]
BY DEF TaskGoes, AnalyzerTypeOK, TaskState

LEMMA CallStepType ==
    ASSUME TypeOK, NEW c \in Call, CallStep(c)
    PROVE  TypeOK'
BY IngestAssumption
   DEF TypeOK, IngestStoreTypeOK, CallTypeOK, AnalyzerTypeOK, CallStep,
       CallProgress, CallFault, Claim, ClaimFails, CheckActiveMode, UploadFrames,
       Enqueue, EnqueueFails, CleanUp, CleanUpFails, CutOff, CallGoes, CallState,
       Appended, EntryStatus, Key, ingestStoreVars, analyzerVars

LEMMA PollStepType ==
    ASSUME TypeOK, NEW p \in Poll, PollStep(p)
    PROVE  TypeOK'
<1>1. CASE ReadBatch(p) \/ LoseBatch(p)
  BY <1>1 DEF ReadBatch, LoseBatch, Deliverable, Fresh, Read, PollStep, TypeOK,
     IngestStoreTypeOK, CallTypeOK, AnalyzerTypeOK, EntryStatus, analyzerVars
<1>2. CASE \E c \in Call : Dispatch(p, c)
  <2>1. PICK c \in Call : Dispatch(p, c)
    BY <1>2
  <2>2. task' \in [Call -> TaskState]
    BY <2>1, TaskGoesType DEF TypeOK, Dispatch, TaskPc
  <2> QED
    BY <2>1, <2>2 DEF Dispatch, PollStep, TypeOK, IngestStoreTypeOK, CallTypeOK,
       AnalyzerTypeOK, ingestStoreVars, TaskState
<1>3. CASE StopPoll(p)
  <2>1. task' \in [Call -> TaskState]
    <3>1. CASE UNCHANGED task
      BY <3>1 DEF TypeOK, AnalyzerTypeOK, TaskState
    <3>2. CASE \E c \in batch[p] : TaskGoes(c, "queued")
      <4>1. PICK c \in Call : TaskGoes(c, "queued")
        BY <3>2 DEF TypeOK, AnalyzerTypeOK
      <4> QED
        BY <4>1, TaskGoesType DEF TypeOK, TaskPc
    <3> QED
      BY <1>3, <3>1, <3>2 DEF StopPoll
  <2> QED
    BY <1>3, <2>1 DEF StopPoll, PollStep, TypeOK, IngestStoreTypeOK, CallTypeOK,
       AnalyzerTypeOK, ingestStoreVars, TaskState
<1> QED
  BY <1>1, <1>2, <1>3 DEF PollStep, PollProgress, PollFault

LEMMA TaskStepType ==
    ASSUME TypeOK, NEW c \in Call, TaskStep(c)
    PROVE  TypeOK'
<1>1. task' \in [Call -> TaskState]
  <2>1. \/ Retried(c)
        \/ \E p \in TaskPc : TaskGoes(c, p)
    BY DEF TaskStep, TaskProgress, TaskFault, Analyze, InsertEvidence, Acknowledge,
       HandOn, MoveToDlq, AcknowledgeDead, AnalyzeFails, AcknowledgeFails,
       HandOnFails, GiveUp, KillTask, TaskPc
  <2> QED
    BY <2>1, RetriedType, TaskGoesType DEF TypeOK
<1>2. IngestionOf[c] \in Ingestion
  BY IngestAssumption
<1>3. IngestStoreTypeOK'
  BY <1>2 DEF TypeOK, IngestStoreTypeOK, TaskStep, TaskProgress, TaskFault, Analyze,
     InsertEvidence, Acknowledge, HandOn, MoveToDlq, AcknowledgeDead, AnalyzeFails,
     AcknowledgeFails, HandOnFails, GiveUp, KillTask, Acked, HandedOn, EntryStatus,
     ingestStoreVars
<1>4. UNCHANGED << call, batch >>
  BY DEF TaskStep, TaskProgress, TaskFault, Analyze, InsertEvidence, Acknowledge,
     HandOn, MoveToDlq, AcknowledgeDead, AnalyzeFails, AcknowledgeFails,
     HandOnFails, GiveUp, KillTask
<1> QED
  BY <1>1, <1>3, <1>4 DEF TypeOK, CallTypeOK, AnalyzerTypeOK, TaskState

LEMMA TypeInit == Init => TypeOK
BY AnalyzerAssumption
   DEF Init, IngestStoreInit, CallInit, AnalyzerInit, TypeOK, IngestStoreTypeOK,
       CallTypeOK, AnalyzerTypeOK, EntryStatus, CallState, TaskPc

LEMMA TypeStep == TypeOK /\ [Next]_vars => TypeOK'
<1> SUFFICES ASSUME TypeOK, [Next]_vars PROVE TypeOK'
  OBVIOUS
<1>1. CASE \E i \in Ingestion : ExpireIdemKey(i) /\ UNCHANGED << call, analyzerVars >>
  BY <1>1 DEF ExpireIdemKey, TypeOK, IngestStoreTypeOK, CallTypeOK, AnalyzerTypeOK,
     analyzerVars
<1>2. CASE UNCHANGED vars
  BY <1>2 DEF vars, ingestStoreVars, analyzerVars, TypeOK, IngestStoreTypeOK,
     CallTypeOK, AnalyzerTypeOK
<1> QED
  BY <1>1, <1>2, CallStepType, PollStepType, TaskStepType DEF Next, Quiescent

\* Keys, stream, tables, requests, polls and tasks keep their types, and no task
\* is retried more often than max_retries (workers/vlm_analyzer.py).
THEOREM IngestTyped == Spec => []TypeOK
BY TypeInit, TypeStep, PTL DEF Spec

-----------------------------------------------------------------------------
(* Whatever fails: what tasks know about the tables.                       *)

\* The task has committed the evidence row and still has to hand it on.
Owns(c) == task[c].pc \in {"ack", "aggregate"}

TaskInv(c) ==
    /\ Owns(c) => /\ IngestionOf[c] \in evidence
                  /\ aggregated[IngestionOf[c]] = 0
    /\ TaskAt(c, "dlq_ack") => c \in dlq

\* Only the attempt that inserts the row comes to own the ingestion, and the
\* row stays, so there is one owner at most and nothing was handed on before.
FaultInv ==
    /\ AckedIsAccounted
    /\ AggregatedAtMostOnce
    /\ AggregatedIsStored
    /\ \A c \in Call : TaskInv(c)
    /\ \A c, o \in Call :
          Owns(c) /\ Owns(o) /\ IngestionOf[c] = IngestionOf[o] => c = o

LEMMA FaultInit == Init => FaultInv
BY IngestAssumption
   DEF Init, IngestStoreInit, CallInit, AnalyzerInit, FaultInv, AckedIsAccounted,
       AggregatedAtMostOnce, AggregatedIsStored, TaskInv, Owns, TaskAt

\* Steps that take no task on and acknowledge nothing.
LEMMA FaultQuiet ==
    ASSUME TypeOK, FaultInv, UNCHANGED << dlq, evidence, aggregated >>,
           \A c \in Call : stream'[c] = "acked" => stream[c] = "acked",
           \A c \in Call : \/ task'[c] = task[c]
                           \/ task'[c].pc \notin {"ack", "aggregate", "dlq_ack"}
    PROVE  FaultInv'
<1>1. \A c \in Call : Owns(c)' => Owns(c)
  BY DEF Owns
<1>2. \A c \in Call : TaskInv(c)'
  BY <1>1 DEF FaultInv, TaskInv, Owns, TaskAt
<1> QED
  BY <1>1, <1>2 DEF FaultInv, AckedIsAccounted, AggregatedAtMostOnce, AggregatedIsStored

\* What a retry makes of a task.
LEMMA RetriedTask ==
    ASSUME TypeOK, NEW c \in Call, Retried(c)
    PROVE  /\ task'[c].pc \in {"queued", "dlq"}
           /\ \A o \in Call \ {c} : task'[o] = task[o]
BY DEF Retried, TypeOK, AnalyzerTypeOK

LEMMA TaskGoesTo ==
    ASSUME TypeOK, NEW c \in Call, NEW p, TaskGoes(c, p)
    PROVE  /\ task'[c].pc = p
           /\ \A o \in Call \ {c} : task'[o] = task[o]
BY DEF TaskGoes, TypeOK, AnalyzerTypeOK

LEMMA FaultPollStep ==
    ASSUME TypeOK, FaultInv, NEW p \in Poll, PollStep(p)
    PROVE  FaultInv'
<1>1. UNCHANGED << dlq, evidence, aggregated >>
  BY DEF PollStep, PollProgress, PollFault, ReadBatch, LoseBatch, Dispatch, StopPoll,
     ingestStoreVars
<1>2. \A c \in Call : stream'[c] = "acked" => stream[c] = "acked"
  BY DEF PollStep, PollProgress, PollFault, ReadBatch, LoseBatch, Dispatch, StopPoll,
     ingestStoreVars, Read
<1>3. UNCHANGED task \/ \E c \in Call : TaskGoes(c, "queued")
  BY DEF PollStep, PollProgress, PollFault, ReadBatch, LoseBatch, Dispatch, StopPoll,
     analyzerVars, TypeOK, AnalyzerTypeOK
<1>4. \A c \in Call : \/ task'[c] = task[c]
                      \/ task'[c].pc \notin {"ack", "aggregate", "dlq_ack"}
  BY <1>3, TaskGoesTo
<1> QED
  BY <1>1, <1>2, <1>4, FaultQuiet

LEMMA FaultCallStep ==
    ASSUME TypeOK, FaultInv, NEW c \in Call, CallStep(c)
    PROVE  FaultInv'
<1>1. UNCHANGED << dlq, evidence, aggregated, task >>
  BY DEF CallStep, CallProgress, CallFault, Claim, ClaimFails, CheckActiveMode,
     UploadFrames, Enqueue, EnqueueFails, CleanUp, CleanUpFails, CutOff,
     ingestStoreVars, analyzerVars
<1>2. stream' \in {stream, Appended(c)}
  BY DEF CallStep, CallProgress, CallFault, Claim, ClaimFails, CheckActiveMode,
     UploadFrames, Enqueue, EnqueueFails, CleanUp, CleanUpFails, CutOff,
     ingestStoreVars
<1>3. \A o \in Call : stream'[o] = "acked" => stream[o] = "acked"
  BY <1>2 DEF Appended, TypeOK, IngestStoreTypeOK
<1> QED
  BY <1>1, <1>3, FaultQuiet

LEMMA FaultTaskStep ==
    ASSUME TypeOK, FaultInv, NEW c \in Call, TaskStep(c)
    PROVE  FaultInv'
<1>i. IngestionOf \in [Call -> Ingestion] /\ IngestionOf[c] \in Ingestion
  BY IngestAssumption
<1>1. CASE Analyze(c) \/ AnalyzeFails(c) \/ KillTask(c)
  <2>1. task'[c].pc \in {"insert", "queued", "dlq", "dead"}
        /\ \A o \in Call \ {c} : task'[o] = task[o]
    BY <1>1, RetriedTask, TaskGoesTo DEF Analyze, AnalyzeFails, KillTask
  <2> QED
    BY <1>1, <2>1, FaultQuiet DEF Analyze, AnalyzeFails, KillTask, ingestStoreVars
<1>2. CASE InsertEvidence(c)
  <2>1. CASE IngestionOf[c] \notin evidence
    <3>1. /\ evidence' = evidence \cup {IngestionOf[c]}
          /\ TaskGoes(c, "ack") /\ UNCHANGED << stream, dlq, aggregated >>
      BY <1>2, <2>1 DEF InsertEvidence
    <3>2. aggregated[IngestionOf[c]] = 0
      BY <1>i, <2>1 DEF FaultInv, AggregatedIsStored, TypeOK, IngestStoreTypeOK
    <3>3. task'[c].pc = "ack" /\ \A o \in Call \ {c} : task'[o] = task[o]
      BY <3>1, TaskGoesTo
    <3>4. \A o \in Call : Owns(o) => IngestionOf[o] # IngestionOf[c]
      BY <2>1 DEF FaultInv, TaskInv
    <3>5. \A o \in Call : TaskInv(o)'
      BY <3>1, <3>2, <3>3 DEF FaultInv, TaskInv, Owns, TaskAt
    <3>6. \A x, o \in Call :
             Owns(x)' /\ Owns(o)' /\ IngestionOf[x] = IngestionOf[o] => x = o
      BY <3>3, <3>4 DEF FaultInv, Owns
    <3> QED
      BY <3>1, <3>5, <3>6 DEF FaultInv, AckedIsAccounted, AggregatedAtMostOnce,
         AggregatedIsStored
  <2>2. CASE IngestionOf[c] \in evidence
    BY <1>2, <2>2, RetriedTask, FaultQuiet DEF InsertEvidence
  <2> QED
    BY <2>1, <2>2
<1>3. CASE Acknowledge(c) \/ AcknowledgeFails(c)
  <2>1. Owns(c) /\ IngestionOf[c] \in evidence
    BY <1>3 DEF Acknowledge, AcknowledgeFails, TaskAt, Owns, FaultInv, TaskInv
  <2>2. /\ task'[c].pc \in {"aggregate", "queued", "dlq"}
        /\ \A o \in Call \ {c} : task'[o] = task[o]
    BY <1>3, RetriedTask, TaskGoesTo DEF Acknowledge, AcknowledgeFails
  <2>3. UNCHANGED << dlq, evidence, aggregated >> /\ stream' \in {stream, Acked(c)}
    BY <1>3 DEF Acknowledge, AcknowledgeFails
  <2>4. AckedIsAccounted'
    BY <2>1, <2>3 DEF FaultInv, AckedIsAccounted, Acked, TypeOK, IngestStoreTypeOK
  <2>5. \A o \in Call : Owns(o)' => Owns(o)
    BY <2>1, <2>2 DEF Owns
  <2>6. \A o \in Call : TaskInv(o)'
    BY <2>2, <2>3, <2>5 DEF FaultInv, TaskInv, Owns, TaskAt
  <2> QED
    BY <2>3, <2>4, <2>5, <2>6 DEF FaultInv, AggregatedAtMostOnce, AggregatedIsStored
<1>4. CASE HandOn(c) \/ HandOnFails(c)
  <2>1. /\ Owns(c) /\ IngestionOf[c] \in evidence
        /\ aggregated[IngestionOf[c]] = 0
    BY <1>4 DEF HandOn, HandOnFails, TaskAt, Owns, FaultInv, TaskInv
  <2>2. /\ task'[c].pc \in {"done", "queued", "dlq"}
        /\ \A o \in Call \ {c} : task'[o] = task[o]
    BY <1>4, RetriedTask, TaskGoesTo DEF HandOn, HandOnFails
  <2>3. /\ UNCHANGED << stream, dlq, evidence >>
        /\ aggregated' \in {aggregated, HandedOn(c)}
    BY <1>4 DEF HandOn, HandOnFails
  <2>4. \A i \in Ingestion : /\ i # IngestionOf[c] => aggregated'[i] = aggregated[i]
                             /\ aggregated'[IngestionOf[c]] \in {0, 1}
    BY <1>i, <2>1, <2>3 DEF HandedOn, TypeOK, IngestStoreTypeOK
  <2>5. \A o \in Call : Owns(o)' => Owns(o) /\ o # c
    BY <2>2 DEF Owns
  <2>6. \A o \in Call : Owns(o)' => IngestionOf[o] # IngestionOf[c]
    BY <2>1, <2>5 DEF FaultInv
  <2>7. \A o \in Call : TaskInv(o)'
    BY <1>i, <2>2, <2>3, <2>4, <2>5, <2>6 DEF FaultInv, TaskInv, Owns, TaskAt
  <2> QED
    BY <1>i, <2>1, <2>3, <2>4, <2>5, <2>7
       DEF FaultInv, AckedIsAccounted, AggregatedAtMostOnce, AggregatedIsStored
<1>5. CASE MoveToDlq(c) \/ GiveUp(c)
  <2>1. /\ task'[c].pc \in {"dlq_ack", "dead"}
        /\ task'[c].pc = "dlq_ack" => c \in dlq'
        /\ \A o \in Call \ {c} : task'[o] = task[o]
    BY <1>5, TaskGoesTo DEF MoveToDlq, GiveUp
  <2>2. UNCHANGED << stream, evidence, aggregated >> /\ dlq \subseteq dlq'
    BY <1>5 DEF MoveToDlq, GiveUp
  <2>3. \A o \in Call : Owns(o)' => Owns(o)
    BY <2>1 DEF Owns
  <2>4. \A o \in Call : TaskInv(o)'
    BY <2>1, <2>2, <2>3 DEF FaultInv, TaskInv, Owns, TaskAt
  <2> QED
    BY <2>2, <2>3, <2>4
       DEF FaultInv, AckedIsAccounted, AggregatedAtMostOnce, AggregatedIsStored
<1>6. CASE AcknowledgeDead(c)
  <2>1. task'[c].pc = "done" /\ \A o \in Call \ {c} : task'[o] = task[o]
    BY <1>6, TaskGoesTo DEF AcknowledgeDead
  <2>2. UNCHANGED << dlq, evidence, aggregated >> /\ stream' = Acked(c) /\ c \in dlq
    BY <1>6 DEF AcknowledgeDead, FaultInv, TaskInv
  <2>3. AckedIsAccounted'
    BY <2>2 DEF FaultInv, AckedIsAccounted, Acked, TypeOK, IngestStoreTypeOK
  <2>4. \A o \in Call : Owns(o)' => Owns(o)
    BY <2>1 DEF Owns
  <2>5. \A o \in Call : TaskInv(o)'
    BY <2>1, <2>2, <2>4 DEF FaultInv, TaskInv, Owns, TaskAt
  <2> QED
    BY <2>2, <2>3, <2>4, <2>5 DEF FaultInv, AggregatedAtMostOnce, AggregatedIsStored
<1> QED
  BY <1>1, <1>2, <1>3, <1>4, <1>5, <1>6 DEF TaskStep, TaskProgress, TaskFault

LEMMA FaultStep == TypeOK /\ FaultInv /\ [Next]_vars => FaultInv'
<1> SUFFICES ASSUME TypeOK, FaultInv, [Next]_vars PROVE FaultInv'
  OBVIOUS
<1>1. CASE \E i \in Ingestion : ExpireIdemKey(i) /\ UNCHANGED << call, analyzerVars >>
  BY <1>1, FaultQuiet DEF ExpireIdemKey, analyzerVars
<1>2. CASE UNCHANGED vars
  BY <1>2, FaultQuiet DEF vars, ingestStoreVars, analyzerVars
<1> QED
  BY <1>1, <1>2, FaultCallStep, FaultPollStep, FaultTaskStep DEF Next, Quiescent

LEMMA FaultInvariant == Spec => [](TypeOK /\ FaultInv)
BY TypeInit, TypeStep, FaultInit, FaultStep, PTL DEF Spec

\* Whatever fails, is killed, expires or is retried: an entry is acknowledged
\* only with its evidence committed or a copy of it in the dead-letter stream
\* (analyze_ingest_message, move_to_dlq).
THEOREM NoSilentLoss == Spec => []AckedIsAccounted
<1>1. TypeOK /\ FaultInv => AckedIsAccounted
  BY DEF FaultInv
<1> QED
  BY <1>1, FaultInvariant, PTL

\* However many calls append an ingestion and however often its tasks are
\* retried, the aggregator is told of it once at most.
THEOREM NeverAggregatedTwice == Spec => []AggregatedAtMostOnce
<1>1. TypeOK /\ FaultInv => AggregatedAtMostOnce
  BY DEF FaultInv
<1> QED
  BY <1>1, FaultInvariant, PTL

\* The aggregator is told only of evidence that is committed.
THEOREM AggregatesWhatIsStored == Spec => []AggregatedIsStored
<1>1. TypeOK /\ FaultInv => AggregatedIsStored
  BY DEF FaultInv
<1> QED
  BY <1>1, FaultInvariant, PTL

-----------------------------------------------------------------------------
(* Whatever fails: what is read or worked on is in the stream.             *)

EntryInv ==
    /\ \A c \in Call : task[c].pc # "none" => c \in Entries
    /\ \A p \in Poll : batch[p] \subseteq Entries

LEMMA EntryInit == Init => EntryInv
BY DEF Init, AnalyzerInit, EntryInv

LEMMA EntryCallStep ==
    ASSUME TypeOK, EntryInv, NEW c \in Call, CallStep(c)
    PROVE  EntryInv'
<1>1. UNCHANGED << batch, task >>
  BY DEF CallStep, analyzerVars
<1>2. stream' \in {stream, Appended(c)}
  BY DEF CallStep, CallProgress, CallFault, Claim, ClaimFails, CheckActiveMode,
     UploadFrames, Enqueue, EnqueueFails, CleanUp, CleanUpFails, CutOff,
     ingestStoreVars
<1>3. Entries \subseteq Entries'
  BY <1>2 DEF Entries, Appended, TypeOK, IngestStoreTypeOK
<1> QED
  BY <1>1, <1>3 DEF EntryInv

LEMMA EntryPollStep ==
    ASSUME TypeOK, EntryInv, NEW p \in Poll, PollStep(p)
    PROVE  EntryInv'
<1>1. CASE ReadBatch(p) \/ LoseBatch(p)
  BY <1>1 DEF ReadBatch, LoseBatch, Read, Deliverable, Fresh, analyzerVars, EntryInv,
     Entries, TypeOK, AnalyzerTypeOK
<1>2. CASE (\E c \in Call : Dispatch(p, c)) \/ StopPoll(p)
  <2>1. /\ UNCHANGED stream /\ \A o \in Poll : batch'[o] \subseteq batch[o]
        /\ UNCHANGED task \/ \E c \in batch[p] : TaskGoes(c, "queued")
    BY <1>2 DEF Dispatch, StopPoll, ingestStoreVars, TypeOK, AnalyzerTypeOK
  <2> QED
    BY <2>1, TaskGoesTo DEF EntryInv, Entries, TypeOK, AnalyzerTypeOK
<1> QED
  BY <1>1, <1>2 DEF PollStep, PollProgress, PollFault

LEMMA EntryTaskStep ==
    ASSUME TypeOK, EntryInv, NEW c \in Call, TaskStep(c)
    PROVE  EntryInv'
<1>1. /\ UNCHANGED batch /\ task[c].pc # "none" /\ stream' \in {stream, Acked(c)}
      /\ Retried(c) \/ \E p \in TaskPc : TaskGoes(c, p)
  BY DEF TaskStep, TaskProgress, TaskFault, Analyze, InsertEvidence, Acknowledge,
     HandOn, MoveToDlq, AcknowledgeDead, AnalyzeFails, AcknowledgeFails,
     HandOnFails, GiveUp, KillTask, ingestStoreVars, TaskAt, TaskRunning, TaskPc
<1>2. \A o \in Call \ {c} : task'[o] = task[o]
  BY <1>1, RetriedTask, TaskGoesTo
<1>3. Entries \subseteq Entries'
  BY <1>1 DEF Entries, Acked, TypeOK, IngestStoreTypeOK
<1> QED
  BY <1>1, <1>2, <1>3 DEF EntryInv

LEMMA EntryStep == ASSUME TypeOK, EntryInv, [Next]_vars PROVE EntryInv'
<1>1. CASE \E i \in Ingestion : ExpireIdemKey(i) /\ UNCHANGED << call, analyzerVars >>
  BY <1>1 DEF ExpireIdemKey, analyzerVars, EntryInv, Entries
<1>2. CASE UNCHANGED vars
  BY <1>2 DEF vars, ingestStoreVars, analyzerVars, EntryInv, Entries
<1> QED
  BY <1>1, <1>2, EntryCallStep, EntryPollStep, EntryTaskStep DEF Next, Quiescent

-----------------------------------------------------------------------------
(* Redis answers, no process is killed, no key expires.  Analyses may fail. *)

Undisturbed == Faults \subseteq {"analysis"}

\* A call that is served holds its ingestion's key, and so does one that has
\* appended an entry: nobody but the holder gives a key back.
SoundInv ==
    /\ \A i \in Ingestion : idem[i] # NoCall => IngestionOf[idem[i]] = i
    /\ \A c \in Call : call[c] \in InTry => /\ idem[IngestionOf[c]] = c
                                            /\ stream[c] = "none"
    /\ \A c \in Entries : idem[IngestionOf[c]] = c /\ call[c] = "queued"
    /\ KeyMeansAccepted

LEMMA SoundInit == Init => SoundInv
BY DEF Init, IngestStoreInit, CallInit, SoundInv, InTry, Entries, KeyMeansAccepted

\* Polls and tasks only move entries that are there.
LEMMA SoundQuiet ==
    ASSUME TypeOK, SoundInv, UNCHANGED << idem, call >>,
           \A c \in Call : stream'[c] = "none" <=> stream[c] = "none"
    PROVE  SoundInv'
BY DEF SoundInv, Entries, KeyMeansAccepted, TypeOK, IngestStoreTypeOK

LEMMA SoundPollStep ==
    ASSUME TypeOK, SoundInv, NEW p \in Poll, PollStep(p)
    PROVE  SoundInv'
<1>1. UNCHANGED << idem, call >>
  BY DEF PollStep, PollProgress, PollFault, ReadBatch, LoseBatch, Dispatch, StopPoll,
     ingestStoreVars
<1>2. \A c \in Call : stream'[c] = "none" <=> stream[c] = "none"
  BY DEF PollStep, PollProgress, PollFault, ReadBatch, LoseBatch, Dispatch, StopPoll,
     ingestStoreVars, Read, Deliverable, Fresh
<1> QED
  BY <1>1, <1>2, SoundQuiet

LEMMA SoundCallStep ==
    ASSUME TypeOK, SoundInv, Undisturbed, NEW c \in Call, CallStep(c)
    PROVE  SoundInv'
<1>i. /\ IngestionOf \in [Call -> Ingestion] /\ IngestionOf[c] \in Ingestion
      /\ NoCall \notin Call
  BY IngestAssumption
<1>t. /\ idem \in [Ingestion -> Call \cup {NoCall}] /\ call \in [Call -> CallState]
      /\ stream \in [Call -> EntryStatus]
  BY DEF TypeOK, IngestStoreTypeOK, CallTypeOK
<1>1. CASE Claim(c)
  <2>1. call[c] = "new" /\ c \notin Entries /\ UNCHANGED stream
    BY <1>1 DEF Claim, SoundInv
  <2>2. CASE idem[IngestionOf[c]] = NoCall
    <3>1. /\ idem' = [idem EXCEPT ![IngestionOf[c]] = c]
          /\ call' = [call EXCEPT ![c] = "check"]
      BY <1>1, <2>2 DEF Claim, CallGoes, Key
    <3>2. \A o \in Call : call[o] \in InTry \/ o \in Entries
                            => IngestionOf[o] # IngestionOf[c]
      BY <1>i, <2>2 DEF SoundInv, Entries
    <3> QED
      BY <1>i, <1>t, <2>1, <3>1, <3>2 DEF SoundInv, Entries, InTry, KeyMeansAccepted
  <2>3. CASE idem[IngestionOf[c]] # NoCall
    BY <1>1, <1>i, <1>t, <2>1, <2>3
       DEF Claim, CallGoes, Key, SoundInv, Entries, InTry, KeyMeansAccepted
  <2> QED
    BY <2>2, <2>3
<1>2. CASE CheckActiveMode(c) \/ UploadFrames(c)
  BY <1>2, <1>i, <1>t DEF CheckActiveMode, UploadFrames, CallGoes, ingestStoreVars,
     SoundInv, Entries, InTry, KeyMeansAccepted
<1>3. CASE Enqueue(c)
  BY <1>3, <1>i, <1>t DEF Enqueue, CallGoes, Appended, SoundInv, Entries, InTry,
     KeyMeansAccepted
<1>4. CASE CleanUp(c)
  <2>1. /\ idem' = [idem EXCEPT ![IngestionOf[c]] = NoCall]
        /\ call' = [call EXCEPT ![c] = "refused"] /\ UNCHANGED stream
        /\ idem[IngestionOf[c]] = c /\ c \notin Entries
    BY <1>4 DEF CleanUp, CallGoes, Key, SoundInv, InTry, Entries
  <2>2. \A o \in Call : o # c /\ (call[o] \in InTry \/ o \in Entries)
                            => IngestionOf[o] # IngestionOf[c]
    BY <2>1 DEF SoundInv
  <2> QED
    BY <1>i, <1>t, <2>1, <2>2 DEF SoundInv, Entries, InTry, KeyMeansAccepted
<1> QED
  BY <1>1, <1>2, <1>3, <1>4 DEF CallStep, CallProgress, CallFault, ClaimFails,
     EnqueueFails, CleanUpFails, CutOff, Faulty, Undisturbed

LEMMA SoundTaskStep ==
    ASSUME TypeOK, SoundInv, EntryInv, NEW c \in Call, TaskStep(c)
    PROVE  SoundInv'
<1>1. UNCHANGED << idem, call >>
  BY DEF TaskStep, TaskProgress, TaskFault, Analyze, InsertEvidence, Acknowledge,
     HandOn, MoveToDlq, AcknowledgeDead, AnalyzeFails, AcknowledgeFails,
     HandOnFails, GiveUp, KillTask, ingestStoreVars
<1>2. /\ task[c].pc # "none"
      /\ stream' \in {stream, Acked(c)}
  BY DEF TaskStep, TaskProgress, TaskFault, Analyze, InsertEvidence, Acknowledge,
     HandOn, MoveToDlq, AcknowledgeDead, AnalyzeFails, AcknowledgeFails,
     HandOnFails, GiveUp, KillTask, ingestStoreVars, TaskAt, TaskRunning
<1>3. \A o \in Call : stream'[o] = "none" <=> stream[o] = "none"
  BY <1>2 DEF EntryInv, Entries, Acked, TypeOK, IngestStoreTypeOK
<1> QED
  BY <1>1, <1>3, SoundQuiet

LEMMA SoundStep ==
    ASSUME TypeOK, EntryInv, SoundInv, Undisturbed, [Next]_vars PROVE SoundInv'
<1>1. CASE \E i \in Ingestion : ExpireIdemKey(i) /\ UNCHANGED << call, analyzerVars >>
  BY <1>1 DEF ExpireIdemKey, Faulty, Undisturbed
<1>2. CASE UNCHANGED vars
  BY <1>2, SoundQuiet DEF vars, ingestStoreVars
<1> QED
  BY <1>1, <1>2, SoundCallStep, SoundPollStep, SoundTaskStep DEF Next, Quiescent

LEMMA SoundInvariant == ASSUME Undisturbed PROVE Spec => [](TypeOK /\ EntryInv /\ SoundInv)
<1> DEFINE I == TypeOK /\ EntryInv /\ SoundInv
<1>1. Init => I
  BY TypeInit, EntryInit, SoundInit
<1>2. I /\ [Next]_vars => I'
  BY TypeStep, EntryStep, SoundStep
<1> QED
  BY <1>1, <1>2, PTL DEF Spec

\* A sequence that was refused can be sent again: while a key is set, its call
\* is still served or its entry is in the stream (accept_sequence).
THEOREM RefusedCanRetry == ASSUME Undisturbed PROVE Spec => []KeyMeansAccepted
<1>1. TypeOK /\ EntryInv /\ SoundInv => KeyMeansAccepted
  BY DEF SoundInv
<1> QED
  BY <1>1, SoundInvariant, PTL

\* An ingestion is appended once, however many calls carry it.
THEOREM AppendedOnce == ASSUME Undisturbed PROVE Spec => []EnqueuedOnce
<1>1. TypeOK /\ EntryInv /\ SoundInv => EnqueuedOnce
  <2> SUFFICES ASSUME SoundInv, NEW i \in Ingestion
               PROVE  Cardinality({ c \in Entries : IngestionOf[c] = i }) <= 1
    BY DEF EnqueuedOnce
  <2>1. { c \in Entries : IngestionOf[c] = i } \subseteq {idem[i]}
    BY DEF SoundInv
  <2>2. IsFiniteSet({idem[i]}) /\ Cardinality({idem[i]}) = 1
    BY FS_Singleton
  <2> QED
    BY <2>1, <2>2, FS_Subset
<1> QED
  BY <1>1, SoundInvariant, PTL

=============================================================================
