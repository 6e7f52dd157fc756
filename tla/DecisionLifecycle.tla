-------------------------- MODULE DecisionLifecycle --------------------------
(***************************************************************************)
(* Aggregation workers and watchers on the same decisions.  The two        *)
(* components share the tables, the row locks, the open keys and the       *)
(* queues of DecisionStore; each keeps its own transactions.               *)
(*                                                                         *)
(* The table audit_records has no order but created_at, the now() of the   *)
(* transaction: the instant of its BEGIN, not of its COMMIT.  began keeps  *)
(* what that instant tells of two records; audit keeps the order of the    *)
(* commits, a history that no query returns.                               *)
(***************************************************************************)
EXTENDS Aggregation, Triage, FiniteSetsExt

\* None before the BEGIN of a transaction; then history: the transactions whose
\* audit records were committed before it, so that created_at sorts them before
\* any that it writes.
VARIABLE began

vars == << storeVars, agg, overlapped, req, began >>

BeganTypeOK == began \in [Txn -> (SUBSET Txn) \cup {None}]

TypeOK == StoreTypeOK /\ AggTypeOK /\ ReqTypeOK /\ BeganTypeOK

Init ==
    /\ StoreInit /\ AggInit /\ ReqInit
    /\ began = [x \in Txn |-> None]

Begun(x) == began[x] # None

\* The transactions that have committed an audit record.
Writers == { x \in Txn : \E d \in Task : \E i \in DOMAIN audit[d] :
                            audit[d][i].by = x }

\* The first statement of a session, the set_config of its context: once a worker
\* process has taken the task, or when a request to resolve arrives.
Begin(x) ==
    /\ ~Begun(x)
    /\ \/ /\ x \in Task
          /\ Cardinality({ t \in Task : Begun(t) /\ ~Finished(t) })
               < AggregatorConcurrency
       \/ x \in Request /\ req[x].pc = "viewed"
    /\ began' = [began EXCEPT ![x] = Writers]
    /\ UNCHANGED << storeVars, agg, overlapped, req >>

\* The workload is finite: when it is over the system may rest.
WorkIsOver ==
    /\ \A t \in Task : Finished(t)
    /\ \A q \in Request : Answered(q) \/ req[q].pc = "idle"

Quiescent == WorkIsOver /\ UNCHANGED vars

AggStep(t) == /\ Begun(t)
              /\ AggProgress(t) \/ Fail(t)
              /\ UNCHANGED << req, began >>

ReqStep(q) == /\ \/ FetchDecision(q)
                 \/ Begun(q) /\ (ResolveProgress(q) \/ FailResolve(q))
              /\ UNCHANGED << agg, overlapped, began >>

Next ==
    \/ \E x \in Txn : Begin(x)
    \/ \E t \in Task : AggStep(t)
    \/ \E q \in Request : ReqStep(q)
    \/ \E r \in Region :
         ExpireOpenKey(r) /\ UNCHANGED << agg, overlapped, req, began >>
    \/ Quiescent

Spec == Init /\ [][Next]_vars

\* Workers and the API server keep running what they started; nobody has to
\* look at a decision, keys need not expire and nothing has to fail.
Fairness ==
    /\ \A t \in Task :
         WF_vars(\/ Begin(t)
                 \/ Begun(t) /\ AggProgress(t) /\ UNCHANGED << req, began >>)
    /\ \A q \in Request :
         WF_vars(\/ Begin(q)
                 \/ Begun(q) /\ ResolveProgress(q)
                             /\ UNCHANGED << agg, overlapped, began >>)

FairSpec == Spec /\ Fairness

-----------------------------------------------------------------------------
\* Safety

\* A decision never claims more evidence than it has: evidence_count may lose
\* an update but never counts a link twice or a link that was rolled back
\* (services/aggregation.py _link_evidence).
CountWithinLinks ==
    \A d \in Task : Committed(d) =>
        decisions[d].count <= Cardinality(LinksOf(d))

\* Evidence is linked only to a committed decision of its own camera and
\* region whose window was not over when it was captured, whatever key or row
\* the task had read before (_merge_or_create_decision).
LinksInWindow ==
    \A d \in Task : \A e \in LinksOf(d) :
        /\ Committed(d)
        /\ decisions[d].region = RegionOf[e]
        /\ CapturedAt[e] <= decisions[d].windowEnd

LastCommitted(d) == audit[d][Len(audit[d])]

\* created_at is certain to sort record a after record b: the transaction of b
\* was over when that of a began.  Records of transactions that overlapped may
\* sort either way.
CreatedAfter(a, b) == b.by \in began[a.by]

\* A decision is in the state to which its last committed record moved it.
StateFollowsCommits ==
    \A d \in Task :
        /\ ~Committed(d) => audit[d] = << >>
        /\ Committed(d) =>
             decisions[d].state = IF audit[d] = << >> THEN "normal"
                                  ELSE LastCommitted(d).to

\* No record is certain to sort after it.
NothingSortsAfter ==
    \A d \in Task : \A i \in DOMAIN audit[d] :
        ~CreatedAfter(audit[d][i], LastCommitted(d))

\* The audit trail explains the state, as far as created_at can tell, also when
\* workers and watchers race (_apply_state_transitions, resolve_decision): the
\* state of a decision is the one that the record committed last moved it to,
\* and no record is certain to sort after that one.  The trail in the order of
\* created_at may end in another record - a task that began before a resolve
\* and commits after it leaves "resolved" at the end - but then the
\* transactions of the two overlapped.
AuditMatchesState == StateFollowsCommits /\ NothingSortsAfter

\* No transition is committed unannounced: watchers were sent its event, and
\* a transition to warning has its notification queued (_emit_state_change
\* and resolve_decision publish before they commit).
TransitionsAnnounced ==
    \A d \in Task : \A i \in DOMAIN audit[d] :
        LET a == audit[d][i] IN
          /\ \E ev \in events : /\ ev.decision = d
                                /\ ev.state = a.to
                                /\ ev.by = a.by
          /\ a.to = "warning" => [ decision |-> d, by |-> a.by ] \in notifyQueue

\* Two watchers and the aggregator together leave at most one resolution per
\* decision, and its feedback, its audit record and resolved_by name the same
\* watcher and disposition (feedback.decision_id is unique).
OneResolution ==
    \A d \in Task :
        LET resolutions == { i \in DOMAIN audit[d] : audit[d][i].event = "resolved" }
        IN  IF feedback[d] = None
            THEN /\ resolutions = {}
                 /\ Committed(d) => decisions[d].resolvedBy = None
            ELSE /\ Committed(d)
                 /\ decisions[d].resolvedBy = feedback[d].by
                 /\ \E i \in DOMAIN audit[d] :
                      /\ resolutions = {i}
                      /\ audit[d][i].by = feedback[d].by
                      /\ audit[d][i].to = feedback[d].state

\* A watcher who is refused has changed nothing that lasts: no feedback, no
\* audit record, no resolved_by (get_db rolls back).
RefusedLeavesNothing ==
    \A q \in Request : Answered(q) /\ req[q].reply # "ok" =>
        \A d \in Task :
            /\ feedback[d] # None => feedback[d].by # q
            /\ Committed(d) => decisions[d].resolvedBy # q
            /\ \A i \in DOMAIN audit[d] : audit[d][i].by # q

\* Totals are exact as long as no two tasks had the decision loaded at the
\* same time: they are what the linked evidence adds up to, and an unresolved
\* decision is in the state they give (the read-modify-write of
\* _link_evidence takes no lock, so overlapping tasks lose updates).
ExactUnlessOverlapped ==
    \A d \in Task : Committed(d) /\ d \notin overlapped =>
        LET row == decisions[d] IN
          /\ row.count = Cardinality(LinksOf(d))
          /\ row.severity = MapThenSumSet(LAMBDA e : Severity[e], LinksOf(d))
          /\ row.state \notin Resolved => row.state = ComputeState(row)

-----------------------------------------------------------------------------
\* Action properties

\* Once a watcher's resolution is committed no transaction takes resolved_by
\* back or hands it to someone else, not even one that had loaded the row
\* before: an UPDATE writes only the columns its session changed.
ResolutionKept ==
    [][ \A d \in Task :
          (Committed(d) /\ decisions[d].resolvedBy # None) =>
              decisions'[d].resolvedBy = decisions[d].resolvedBy ]_vars

-----------------------------------------------------------------------------
\* Liveness

\* Every delivered task ends and every resolve is answered: from every state
\* one follows in which all work is over, so no task or request waits for ever on
\* a row lock, whatever fails or is killed while holding it.
EveryTransactionEnds == []<>WorkIsOver

-----------------------------------------------------------------------------
\* Refinement

\* What a reader of the tables sees of a row.
Entry(row) == [ state |-> row.state, count |-> row.count,
                resolvedBy |-> row.resolvedBy ]

ASSUME NoneIsNoEntry ==
    None \notin [ state : DecisionState, count : Nat,
                   resolvedBy : Request \cup {None} ]

Ledger == INSTANCE DecisionLedger WITH
    Decision  <- Task,
    Worker    <- Task,
    Watcher   <- Request,
    ledger    <- [ d \in Task |-> IF Committed(d) THEN Entry(decisions[d])
                                                 ELSE None ],
    linked    <- [ d \in Task |-> LinksOf(d) ],
    trail     <- audit,
    announced <- { [ decision |-> ev.decision, state |-> ev.state,
                     by |-> ev.by ] : ev \in events }

\* To whoever reads the committed tables, the interleaved transactions of
\* workers and watchers are the single steps of the ledger.
ImplementsLedger == Ledger!LedgerSpec

-----------------------------------------------------------------------------
\* What the messages of the 409 answers say, and the code does not keep

\* decisions.py:121-125: a watcher who loses to another watcher is told so by
\* a 409; two resolves that load the row before either commits end in the
\* unique violation of feedback instead, a 500.
LoserGetsConflict ==
    \A q \in Request : req[q].reply = "feedback_exists" =>
        req[q].loaded.resolvedBy # None

\* decisions.py:127-135: a decision that is already resolved is not resolved
\* again; late evidence resets the state, and the check lets a second resolve
\* pass.
ResolvedIsRefused ==
    \A q \in Request : req[q].loaded # None => req[q].loaded.resolvedBy = None

=============================================================================
