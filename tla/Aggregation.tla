----------------------------- MODULE Aggregation -----------------------------
(***************************************************************************)
(* The evidence aggregator (services/aggregation.py, run by the Celery     *)
(* task of workers/aggregator.py).  A task is one transaction: it reads    *)
(* the open key, loads or creates a decision, links its evidence, computes *)
(* the new state, flushes, publishes, enqueues the notification and        *)
(* commits.  Every await is a point where other tasks and watchers run, so *)
(* every step below is an action.                                          *)
(***************************************************************************)
EXTENDS DecisionStore

CONSTANT AggregatorConcurrency   \* worker processes: celery --concurrency

ASSUME ConcurrencyAssumption == AggregatorConcurrency \in Nat \ {0}

VARIABLES
    agg,          \* the transaction of each task
    overlapped    \* history: decisions two tasks had loaded at the same time

AggPc == { "queued", "get", "drop_key", "create", "link", "flush", "publish",
           "notify", "commit", "done", "failed" }

\* dec: the decision the task works on; loaded, current: its row as the
\* session read it and as the session holds it; insert: the decision_evidences
\* rows the session holds to insert.
AggTxn == [ pc : AggPc, dec : Task \cup {None},
            loaded : DecisionRow \cup {None},
            current : DecisionRow \cup {None},
            insert : SUBSET (Task \X Evidence) ]

AggTypeOK ==
    /\ agg \in [Task -> AggTxn]
    /\ overlapped \subseteq Task

AggInit ==
    /\ agg = [t \in Task |-> [ pc |-> "queued", dec |-> None, loaded |-> None,
                               current |-> None, insert |-> {} ]]
    /\ overlapped = {}

At(t, pc) == agg[t].pc = pc

Finished(t) == agg[t].pc \in {"done", "failed"}

Running(t) == ~At(t, "queued") /\ ~Finished(t)

Goto(t, pc) == agg' = [agg EXCEPT ![t].pc = pc]

\* The task works on a decision it has loaded or inserted.
Holds(t, d) == Running(t) /\ agg[t].dec = d /\ agg[t].loaded # None

-----------------------------------------------------------------------------

\* tenant thresholds decide; a resolution does not enter the computation.
ComputeState(row) ==
    IF row.severity >= WarningThreshold THEN "warning"
    ELSE IF row.count >= WeirdThreshold THEN "weird"
    ELSE "normal"

\* Mutants of NewDecision and WithEvidence: the insert already counts the
\* first evidence; the count goes down.
NewDecisionCounted(t) ==
    [ region     |-> RegionOf[EvidenceOf[t]],
      state      |-> "normal",
      severity   |-> 0,
      count      |-> 1,
      windowEnd  |-> CapturedAt[EvidenceOf[t]] + Window,
      lastAt     |-> CapturedAt[EvidenceOf[t]],
      resolvedBy |-> None,
      updatedAt  |-> t ]

WithEvidenceDecremented(row, e) ==
    [row EXCEPT !.count = @ - 1, !.severity = @ + Severity[e],
                !.lastAt = CapturedAt[e]]

\* Decision(...) of _create_decision, as inserted by task t.
NewDecision(t) ==
    [ region     |-> RegionOf[EvidenceOf[t]],
      state      |-> "normal",
      severity   |-> 0,
      count      |-> 0,
      windowEnd  |-> CapturedAt[EvidenceOf[t]] + Window,
      lastAt     |-> CapturedAt[EvidenceOf[t]],
      resolvedBy |-> None,
      updatedAt  |-> t ]

\* The row after _link_evidence has counted evidence e.
WithEvidence(row, e) ==
    [row EXCEPT !.count = @ + 1, !.severity = @ + Severity[e],
                !.lastAt = CapturedAt[e]]

StateChanged(t) == agg[t].current.state # agg[t].loaded.state

LinkOf(t) == << agg[t].dec, EvidenceOf[t] >>

\* Mutant: the grace of the key's TTL is taken for the end of the window.
InWindowWithGrace(t, row) == CapturedAt[EvidenceOf[t]] <= row.windowEnd + 300

\* Only the end of the window is tested: evidence captured before the window
\* began is merged too.
InWindow(t, row) == CapturedAt[EvidenceOf[t]] <= row.windowEnd

\* Mutant: only an escalation from weird is notified.
EscalatesFromWeird(t) ==
    agg[t].current.state = "warning" /\ agg[t].loaded.state = "weird"

NeedsNotification(t) == agg[t].current.state = "warning"

-----------------------------------------------------------------------------

\* The task, in its transaction, reads the open key.  Early acknowledgement: it
\* is gone from the queue from here on.
ReadOpenKey(t) ==
    /\ At(t, "queued")
    /\ LET id == openKey[RegionOf[EvidenceOf[t]]] IN
         agg' = [agg EXCEPT ![t].pc = IF id = None THEN "create" ELSE "get",
                            ![t].dec = id]
    /\ UNCHANGED << storeVars, overlapped >>

\* session.get(Decision, id): None while the inserting transaction has not
\* committed, or if it was rolled back after it had set the key.
GetDecision(t) ==
    /\ At(t, "get")
    /\ LET d   == agg[t].dec
           row == decisions[d]
       IN  \/ /\ row # None /\ InWindow(t, row)
              /\ agg' = [agg EXCEPT ![t].pc = "link", ![t].loaded = row,
                                    ![t].current = row]
              /\ overlapped' = IF \E u \in Task \ {t} : Holds(u, d)
                                 THEN overlapped \cup {d} ELSE overlapped
           \/ /\ row # None /\ ~InWindow(t, row)
              /\ agg' = [agg EXCEPT ![t].pc = "drop_key", ![t].dec = None]
              /\ UNCHANGED overlapped
           \/ /\ row = None
              /\ agg' = [agg EXCEPT ![t].pc = "create", ![t].dec = None]
              /\ UNCHANGED overlapped
    /\ UNCHANGED storeVars

\* delete_key of a decision whose window is over: whatever the key holds now.
DropOpenKey(t) ==
    /\ At(t, "drop_key")
    /\ openKey' = [openKey EXCEPT ![RegionOf[EvidenceOf[t]]] = None]
    /\ Goto(t, "create")
    /\ UNCHANGED << decisions, lock, links, audit, feedback, events,
                    notifyQueue, overlapped >>

\* INSERT and flush, then set_key: the key names a row nobody else can see
\* until the commit.
CreateDecision(t) ==
    /\ At(t, "create")
    /\ agg' = [agg EXCEPT ![t].pc = "link", ![t].dec = t,
                          ![t].loaded = NewDecision(t),
                          ![t].current = NewDecision(t)]
    /\ lock' = Locked(t, t)
    /\ openKey' = [openKey EXCEPT ![RegionOf[EvidenceOf[t]]] = t]
    /\ UNCHANGED << decisions, links, audit, feedback, events, notifyQueue,
                    overlapped >>

\* Mutant: evidence that is linked already is counted again.
LinkEvidenceRecounts(t) ==
    /\ At(t, "link")
    /\ LET row == WithEvidence(agg[t].loaded, EvidenceOf[t])
           state == ComputeState(row)
       IN  agg' = [agg EXCEPT
                     ![t].current = [row EXCEPT !.state = state],
                     ![t].insert = {LinkOf(t)} \ links,
                     ![t].pc = IF state # agg[t].loaded.state
                                 THEN "flush" ELSE "commit"]
    /\ UNCHANGED << storeVars, overlapped >>

\* _link_evidence and _compute_state, on the session's copy of the row.
LinkEvidence(t) ==
    /\ At(t, "link")
    /\ LET new == {LinkOf(t)} \ links
           row == IF new = {} THEN agg[t].loaded
                              ELSE WithEvidence(agg[t].loaded, EvidenceOf[t])
           state == ComputeState(row)
       IN  agg' = [agg EXCEPT
                     ![t].current = [row EXCEPT !.state = state],
                     ![t].insert = new,
                     ![t].pc = IF state # agg[t].loaded.state
                                 THEN "flush" ELSE "commit"]
    /\ UNCHANGED << storeVars, overlapped >>

\* write_audit_record flushes the UPDATE, the link and the audit record.
FlushStateChange(t) ==
    /\ At(t, "flush")
    /\ MayLock(t, agg[t].dec)
    /\ agg[t].insert \cap links = {}
    /\ lock' = Locked(t, agg[t].dec)
    /\ Goto(t, "publish")
    /\ UNCHANGED << decisions, links, audit, feedback, openKey, events,
                    notifyQueue, overlapped >>

\* The first half of _emit_state_change, before the commit.  The event sink's
\* copy follows; when it raises the task fails with the message already out.
PublishStateChange(t) ==
    /\ At(t, "publish")
    /\ events' = events \cup
         { [ decision |-> agg[t].dec, type |-> "decision.state_changed",
             state |-> agg[t].current.state, by |-> t ] }
    /\ Goto(t, IF NeedsNotification(t) THEN "notify" ELSE "commit")
    /\ UNCHANGED << decisions, lock, links, audit, feedback, openKey,
                    notifyQueue, overlapped >>

\* notify_warning.delay, still before the commit.
NotifyWarning(t) ==
    /\ At(t, "notify")
    /\ notifyQueue' = notifyQueue \cup { [ decision |-> agg[t].dec, by |-> t ] }
    /\ Goto(t, "commit")
    /\ UNCHANGED << decisions, lock, links, audit, feedback, openKey, events,
                    overlapped >>

\* session.commit(); when the state did not change it also flushes, and then
\* waits for the row's lock first.
Commit(t) ==
    /\ At(t, "commit")
    /\ LET d == agg[t].dec
           loaded == agg[t].loaded
           current == agg[t].current
       IN  /\ MayLock(t, d)
           /\ agg[t].insert \cap links = {}
           /\ decisions' = [decisions EXCEPT ![d] =
                              IF d = t THEN current
                                       ELSE Updated(@, loaded, current, t)]
           /\ links' = links \cup agg[t].insert
           /\ audit' = IF StateChanged(t)
                         THEN [audit EXCEPT ![d] = Append(@,
                                 [ event |-> "state_change",
                                   to |-> current.state, by |-> t ])]
                         ELSE audit
           /\ lock' = Released(t)
    /\ Goto(t, "done")
    /\ UNCHANGED << feedback, openKey, events, notifyQueue, overlapped >>

\* ROLLBACK: the tables keep what they had, Redis keeps what the task did.
RollBack(t) ==
    /\ lock' = Released(t)
    /\ Goto(t, "failed")
    /\ UNCHANGED << decisions, links, audit, feedback, openKey, events,
                    notifyQueue, overlapped >>

\* The primary key of decision_evidences refuses a link that a second delivery
\* of the same evidence has committed since this one looked for it.
RejectDuplicateLink(t) ==
    /\ agg[t].pc \in {"flush", "commit"}
    /\ MayLock(t, agg[t].dec)
    /\ agg[t].insert \cap links # {}
    /\ RollBack(t)

\* Any await may raise and the process may be killed.  The task has no retry.
Fail(t) ==
    /\ Running(t)
    /\ RollBack(t)

AggProgress(t) ==
    \/ ReadOpenKey(t) \/ GetDecision(t) \/ DropOpenKey(t) \/ CreateDecision(t)
    \/ LinkEvidence(t) \/ FlushStateChange(t) \/ PublishStateChange(t)
    \/ NotifyWarning(t) \/ Commit(t) \/ RejectDuplicateLink(t)

=============================================================================
