---------------------------- MODULE DecisionStore ----------------------------
(***************************************************************************)
(* The state that the aggregation worker and the triage API share: the     *)
(* PostgreSQL tables of a decision (decisions, decision_evidences,         *)
(* audit_records, feedback), the Redis key that names the open decision of *)
(* a (tenant, camera, region), the published events and the notification   *)
(* queue.                                                                  *)
(*                                                                         *)
(* The tables hold what is COMMITTED.  What a transaction has buffered in  *)
(* its SQLAlchemy session or flushed without committing is private to the  *)
(* task or request that runs it; READ COMMITTED shows it to nobody else.   *)
(* An UPDATE takes the row's lock when it is flushed and keeps it until    *)
(* the transaction ends.                                                   *)
(***************************************************************************)
EXTENDS Integers, FiniteSets, Sequences

CONSTANTS
    Task,               \* deliveries of aggregate_evidence
    Request,            \* watchers' attempts to resolve a decision
    Evidence,           \* rows of evidences, all committed before their tasks
    Region,             \* (tenant, camera, region) triples, one open key each
    EvidenceOf,         \* the evidence a task aggregates
    RegionOf,           \* the triple of an evidence
    CapturedAt,         \* its captured_at, in units of the window
    Severity,           \* its severity_score
    Window,             \* tenant.aggregation_window_secs
    WeirdThreshold,     \* tenant.weird_threshold
    WarningThreshold,   \* tenant.warning_threshold
    Dispositions,       \* the dispositions each watcher chooses from
    None

\* _DISPOSITION_TO_STATE of api/triage/decisions.py.
DispositionToState ==
    [ true_positive  |-> "resolved_true_positive",
      false_positive |-> "resolved_false_positive",
      false_negative |-> "resolved_false_negative" ]

Resolved == { "resolved_true_positive", "resolved_false_positive",
              "resolved_false_negative" }

DecisionState == { "normal", "weird", "warning" } \cup Resolved

\* A transaction is named by the task or the request that runs it.
Txn == Task \cup Request

ASSUME StoreAssumption ==
    /\ EvidenceOf \in [Task -> Evidence]
    /\ RegionOf \in [Evidence -> Region]
    /\ CapturedAt \in [Evidence -> Int]
    /\ Severity \in [Evidence -> Int]
    /\ Window \in Nat
    /\ WeirdThreshold \in Int
    /\ WarningThreshold \in Int
    /\ Dispositions \in [Request -> SUBSET DOMAIN DispositionToState]
    /\ Task \cap Request = {}
    /\ None \notin Txn

ASSUME FiniteEvidence == IsFiniteSet(Evidence)

-----------------------------------------------------------------------------

VARIABLES
    decisions,    \* committed row of each decision id, None before its INSERT
    lock,         \* the transaction that holds the row's lock, or None
    links,        \* committed decision_evidences rows
    audit,        \* committed audit_records of each decision, in the order of
                  \* their commits, which the table does not keep
    feedback,     \* committed feedback row of each decision, or None
    openKey,      \* decision:open:{tenant}:{camera}:{region}
    events,       \* messages published to ws:room:{tenant}
    notifyQueue   \* notify_warning messages handed to Celery

storeVars == << decisions, lock, links, audit, feedback, openKey, events,
                notifyQueue >>

\* A decision's id is a uuid drawn by the task that inserts it, and a task
\* inserts at most one: the task names the decision.
DecisionRow ==
    [ region     : Region,
      state      : DecisionState,
      severity   : Int,
      count      : Nat,
      windowEnd  : Int,
      lastAt     : Int,
      resolvedBy : Request \cup {None},
      updatedAt  : Txn ]

ASSUME NoneIsNoRow == None \notin DecisionRow

AuditEntry == [ event : {"state_change", "resolved"}, to : DecisionState,
                by : Txn ]

FeedbackRow == [ state : Resolved, by : Request ]

ASSUME NoneIsNoFeedback == None \notin FeedbackRow

Event == [ decision : Task,
           type : {"decision.state_changed", "decision.resolved"},
           state : DecisionState,
           by : Txn ]

StoreTypeOK ==
    /\ decisions \in [Task -> DecisionRow \cup {None}]
    /\ lock \in [Task -> Txn \cup {None}]
    /\ links \subseteq Task \X Evidence
    /\ audit \in [Task -> Seq(AuditEntry)]
    /\ feedback \in [Task -> FeedbackRow \cup {None}]
    /\ openKey \in [Region -> Task \cup {None}]
    /\ events \subseteq Event
    /\ notifyQueue \subseteq [ decision : Task, by : Task ]

StoreInit ==
    /\ decisions = [d \in Task |-> None]
    /\ lock = [d \in Task |-> None]
    /\ links = {}
    /\ audit = [d \in Task |-> << >>]
    /\ feedback = [d \in Task |-> None]
    /\ openKey = [r \in Region |-> None]
    /\ events = {}
    /\ notifyQueue = {}

-----------------------------------------------------------------------------

Committed(d) == decisions[d] # None

LinksOf(d) == { e \in Evidence : << d, e >> \in links }

\* Whether transaction x may write the row of d now.  The inserter of a row
\* holds it from the INSERT on.
MayLock(x, d) == lock[d] \in {None, x}

Locked(x, d) == [lock EXCEPT ![d] = x]

\* Mutant: the connection of x goes back to the pool with its lock.
KeptLocks(x) == lock

\* Every lock of x is released at its COMMIT or ROLLBACK.
Released(x) == [d \in Task |-> IF lock[d] = x THEN None ELSE lock[d]]

\* SQLAlchemy writes only the columns whose value differs from the one that
\* was loaded, so a column the session did not change keeps the value that
\* other transactions committed in the meantime.
Column(stored, loaded, current) == IF current = loaded THEN stored ELSE current

\* Mutant: the UPDATE writes every column of the session's copy.
UpdatedWholeRow(row, loaded, current, x) == [current EXCEPT !.updatedAt = x]

\* UPDATE decisions by transaction x, whose session loaded the row `loaded`
\* and holds `current`; onupdate=func.now() stamps the row.
Updated(row, loaded, current, x) ==
    [ region     |-> row.region,
      state      |-> Column(row.state, loaded.state, current.state),
      severity   |-> Column(row.severity, loaded.severity, current.severity),
      count      |-> Column(row.count, loaded.count, current.count),
      windowEnd  |-> row.windowEnd,
      lastAt     |-> Column(row.lastAt, loaded.lastAt, current.lastAt),
      resolvedBy |-> Column(row.resolvedBy, loaded.resolvedBy,
                            current.resolvedBy),
      updatedAt  |-> IF current = loaded THEN row.updatedAt ELSE x ]

\* The open key's TTL (aggregation_window_secs + 300) runs on the wall clock,
\* captured_at on the edge device's: it may run out at any moment.
ExpireOpenKey(r) ==
    /\ openKey[r] # None
    /\ openKey' = [openKey EXCEPT ![r] = None]
    /\ UNCHANGED << decisions, lock, links, audit, feedback, events,
                    notifyQueue >>

=============================================================================
