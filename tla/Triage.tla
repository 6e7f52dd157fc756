-------------------------------- MODULE Triage --------------------------------
(***************************************************************************)
(* The watcher's side of a decision (api/triage/decisions.py): a request   *)
(* is one fetch of a decision followed by one POST .../resolve with the    *)
(* updated_at that the fetch returned.  The resolve runs in the session of *)
(* get_db: it checks the row it loaded, flushes the UPDATE, the feedback   *)
(* and the audit record, publishes, and get_db commits when the handler    *)
(* has returned.                                                           *)
(***************************************************************************)
EXTENDS DecisionStore

VARIABLE req   \* each watcher request

ReqPc == { "idle", "viewed", "flush", "publish", "commit", "answered" }

\* 200; the 409 of a stale updated_at and of a resolved decision; the 500 of
\* the unique violation of a second feedback, and of any other failure.
Reply == { "ok", "conflict_updated", "conflict_resolved", "feedback_exists",
           "server_error" }

ReqTxn == [ pc : ReqPc, dec : Task \cup {None}, seen : Txn \cup {None},
            loaded : DecisionRow \cup {None},
            current : DecisionRow \cup {None},
            reply : Reply \cup {None} ]

ReqTypeOK == req \in [Request -> ReqTxn]

ReqInit ==
    req = [q \in Request |-> [ pc |-> "idle", dec |-> None, seen |-> None,
                               loaded |-> None, current |-> None,
                               reply |-> None ]]

Answered(q) == req[q].pc = "answered"

Answer(q, reply) ==
    req' = [req EXCEPT ![q].pc = "answered", ![q].reply = reply]

-----------------------------------------------------------------------------

\* GET: the watcher's page shows a committed row.
FetchDecision(q) ==
    /\ req[q].pc = "idle"
    /\ \E d \in Task :
         /\ Committed(d)
         /\ req' = [req EXCEPT ![q].pc = "viewed", ![q].dec = d,
                               ![q].seen = decisions[d].updatedAt]
    /\ UNCHANGED storeVars

\* The checks of resolve_decision on the row it loads, in the code's order,
\* then the assignments, which stay in the session until the flush.
LoadForResolve(q) ==
    /\ req[q].pc = "viewed"
    /\ LET row == decisions[req[q].dec] IN
         \/ /\ row.updatedAt # req[q].seen
            /\ Answer(q, "conflict_updated")
         \/ /\ row.updatedAt = req[q].seen
            /\ row.state \in Resolved
            /\ Answer(q, "conflict_resolved")
         \/ /\ row.updatedAt = req[q].seen
            /\ row.state \notin Resolved
            /\ \E disposition \in Dispositions[q] :
                 req' = [req EXCEPT
                           ![q].pc = "flush",
                           ![q].loaded = row,
                           ![q].current =
                             [row EXCEPT
                                !.state = DispositionToState[disposition],
                                !.resolvedBy = q]]
    /\ UNCHANGED storeVars

\* Mutant: feedback.decision_id is not unique.
FlushResolveUnchecked(q) ==
    /\ req[q].pc = "flush"
    /\ MayLock(q, req[q].dec)
    /\ lock' = Locked(q, req[q].dec)
    /\ req' = [req EXCEPT ![q].pc = "publish"]
    /\ UNCHANGED << decisions, links, audit, feedback, openKey, events,
                    notifyQueue >>

\* create_feedback_with_embedding flushes UPDATE decisions (which waits for
\* the row's lock) and INSERT feedback, then the audit record is flushed.
FlushResolve(q) ==
    /\ req[q].pc = "flush"
    /\ MayLock(q, req[q].dec)
    /\ feedback[req[q].dec] = None
    /\ lock' = Locked(q, req[q].dec)
    /\ req' = [req EXCEPT ![q].pc = "publish"]
    /\ UNCHANGED << decisions, links, audit, feedback, openKey, events,
                    notifyQueue >>

\* feedback.decision_id is unique: the INSERT of a second feedback raises an
\* IntegrityError, which no handler turns into a 409.
RejectSecondFeedback(q) ==
    /\ req[q].pc = "flush"
    /\ MayLock(q, req[q].dec)
    /\ feedback[req[q].dec] # None
    /\ Answer(q, "feedback_exists")
    /\ UNCHANGED storeVars

\* decision.resolved goes to the watchers before the commit.
PublishResolved(q) ==
    /\ req[q].pc = "publish"
    /\ events' = events \cup
         { [ decision |-> req[q].dec, type |-> "decision.resolved",
             state |-> req[q].current.state, by |-> q ] }
    /\ req' = [req EXCEPT ![q].pc = "commit"]
    /\ UNCHANGED << decisions, lock, links, audit, feedback, openKey,
                    notifyQueue >>

\* The commit in the teardown of get_db.
CommitResolve(q) ==
    /\ req[q].pc = "commit"
    /\ LET d == req[q].dec IN
         /\ decisions' = [decisions EXCEPT ![d] =
                            Updated(@, req[q].loaded, req[q].current, q)]
         /\ feedback' = [feedback EXCEPT ![d] =
                            [ state |-> req[q].current.state, by |-> q ]]
         /\ audit' = [audit EXCEPT ![d] = Append(@,
                            [ event |-> "resolved",
                              to |-> req[q].current.state, by |-> q ])]
    /\ lock' = Released(q)
    /\ Answer(q, "ok")
    /\ UNCHANGED << links, openKey, events, notifyQueue >>

\* Mutant: the feedback is committed in a session of its own.
FailResolveKeepsFeedback(q) ==
    /\ req[q].pc \in {"viewed", "flush", "publish", "commit"}
    /\ lock' = Released(q)
    /\ Answer(q, "server_error")
    /\ feedback' = IF req[q].pc \in {"viewed", "flush"} THEN feedback
                   ELSE [feedback EXCEPT ![req[q].dec] =
                           [ state |-> req[q].current.state, by |-> q ]]
    /\ UNCHANGED << decisions, links, audit, openKey, events, notifyQueue >>

\* Any await of the resolve may raise, and the server may be killed.  When the
\* commit itself fails the client may already hold the 200: FastAPI releases
\* that satisfy the requirement differ in whether the response is sent before
\* or after the teardown of the dependency.
FailResolve(q) ==
    /\ req[q].pc \in {"viewed", "flush", "publish", "commit"}
    /\ lock' = Released(q)
    /\ \/ Answer(q, "server_error")
       \/ req[q].pc = "commit" /\ Answer(q, "ok")
    /\ UNCHANGED << decisions, links, audit, feedback, openKey, events,
                    notifyQueue >>

ResolveProgress(q) ==
    \/ LoadForResolve(q) \/ FlushResolve(q) \/ RejectSecondFeedback(q)
    \/ PublishResolved(q) \/ CommitResolve(q)

=============================================================================
