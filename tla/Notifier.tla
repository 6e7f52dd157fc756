------------------------------- MODULE Notifier -------------------------------
(***************************************************************************)
(* The notification worker (workers/notifier.py): for every queued warning *)
(* it loads the decision and the active configurations, hands one message  *)
(* per configuration to the provider, and commits the delivery rows of all *)
(* of them together.  Any exception rolls the rows back and retries the    *)
(* whole task, but what the provider has accepted stays sent.              *)
(***************************************************************************)
EXTENDS Integers, FiniteSets

CONSTANTS
    Notice,        \* notify_warning messages
    Decision,
    DecisionOf,    \* the decision a notice is about
    Config,        \* notification_configs rows of the tenant
    MaxRetries     \* max_retries of the task: 3

ASSUME NotifierAssumption ==
    /\ DecisionOf \in [Notice -> Decision]
    /\ MaxRetries \in Nat

VARIABLES
    notice,       \* the task of each notice
    decided,      \* decisions the aggregator has committed
    active,       \* committed configurations
    deliveries,   \* committed notification_deliveries rows
    sent          \* messages the provider accepted, per notice and config

notifierVars == << notice, decided, active, deliveries, sent >>

NoticePc == { "queued", "send", "commit", "done", "given_up", "lost" }

Ended == { "done", "given_up", "lost" }

\* The rows the session holds for the configurations handled so far.
Row == [ config : Config, status : {"sent", "failed"} ]

\* configs: the configurations this attempt has loaded; todo: those it has not
\* come to yet.
NoticeTask == [ pc : NoticePc, retries : 0..MaxRetries,
                configs : SUBSET Config, todo : SUBSET Config,
                rows : SUBSET Row ]

NotifierTypeOK ==
    /\ notice \in [Notice -> NoticeTask]
    /\ decided \subseteq Decision
    /\ active \subseteq Config
    /\ deliveries \subseteq [ notice : Notice, row : Row ]
    /\ sent \in [Notice -> [Config -> Nat]]

Init ==
    /\ notice = [n \in Notice |-> [ pc |-> "queued", retries |-> 0,
                                    configs |-> {}, todo |-> {}, rows |-> {} ]]
    /\ decided = {}
    /\ active = {}
    /\ deliveries = {}
    /\ sent = [n \in Notice |-> [c \in Config |-> 0]]

-----------------------------------------------------------------------------

\* The aggregator enqueues the notice before it commits, and may roll back.
DecisionCommits(d) ==
    /\ d \notin decided
    /\ decided' = decided \cup {d}
    /\ UNCHANGED << notice, active, deliveries, sent >>

\* create_notification_config; no route deactivates or deletes one.
CreateConfig(c) ==
    /\ c \notin active
    /\ active' = active \cup {c}
    /\ UNCHANGED << notice, decided, deliveries, sent >>

Emptied(n) == [notice[n] EXCEPT !.configs = {}, !.todo = {}, !.rows = {}]

\* Mutant: the retry does not count.
RaiseUncounted(n) ==
    notice' = [notice EXCEPT ![n] = [Emptied(n) EXCEPT !.pc = "queued"]]

\* Mutant: one retry more than max_retries.
RaiseOnceMore(n) ==
    notice' = [notice EXCEPT ![n] =
        IF notice[n].retries <= MaxRetries
          THEN [Emptied(n) EXCEPT !.pc = "queued", !.retries = @ + 1]
          ELSE [Emptied(n) EXCEPT !.pc = "given_up"]]

\* autoretry_for=(Exception,): the session is rolled back, the task queued
\* again with one retry more, or failed for good after the last one.
Raise(n) ==
    notice' = [notice EXCEPT ![n] =
        IF notice[n].retries < MaxRetries
          THEN [Emptied(n) EXCEPT !.pc = "queued", !.retries = @ + 1]
          ELSE [Emptied(n) EXCEPT !.pc = "given_up"]]

Found(n) == DecisionOf[n] \in decided

\* The decision is there: the active configurations are loaded.
Load(n) ==
    /\ notice[n].pc = "queued"
    /\ Found(n)
    /\ notice' = [notice EXCEPT ![n].configs = active, ![n].todo = active,
                                ![n].pc = IF active = {} THEN "commit" ELSE "send"]
    /\ UNCHANGED << decided, active, deliveries, sent >>

\* ValueError("Decision not found").
DecisionNotFound(n) ==
    /\ notice[n].pc = "queued"
    /\ ~Found(n)
    /\ Raise(n)
    /\ UNCHANGED << decided, active, deliveries, sent >>

Accepted(n, c) == [sent EXCEPT ![n][c] = @ + 1]

\* send_sms or send_whatsapp returns a message id.
Deliver(n, c) ==
    /\ notice[n].pc = "send" /\ c \in notice[n].todo
    /\ sent' = Accepted(n, c)
    /\ LET rest == notice[n].todo \ {c} IN
         notice' = [notice EXCEPT
                      ![n].todo = rest,
                      ![n].rows = @ \cup { [ config |-> c, status |-> "sent" ] },
                      ![n].pc = IF rest = {} THEN "commit" ELSE "send"]
    /\ UNCHANGED << decided, active, deliveries >>

\* Mutant: a provider failure is swallowed and the loop goes on.
DeliveryFailsQuietly(n, c) ==
    /\ notice[n].pc = "send" /\ c \in notice[n].todo
    /\ sent' \in { sent, Accepted(n, c) }
    /\ LET rest == notice[n].todo \ {c} IN
         notice' = [notice EXCEPT
                      ![n].todo = rest,
                      ![n].rows = @ \cup { [ config |-> c, status |-> "sent" ] },
                      ![n].pc = IF rest = {} THEN "commit" ELSE "send"]
    /\ UNCHANGED << decided, active, deliveries >>

\* The provider refuses, or accepts and its answer is lost.  The row is marked
\* failed in the session, and the exception raised again.
DeliveryFails(n, c) ==
    /\ notice[n].pc = "send" /\ c \in notice[n].todo
    /\ sent' \in { sent, Accepted(n, c) }
    /\ Raise(n)
    /\ UNCHANGED << decided, active, deliveries >>

RowsOf(n) == { [ notice |-> n, row |-> r ] : r \in notice[n].rows }

CommitDeliveries(n) ==
    /\ notice[n].pc = "commit"
    /\ deliveries' = deliveries \cup RowsOf(n)
    /\ notice' = [notice EXCEPT ![n].pc = "done"]
    /\ UNCHANGED << decided, active, sent >>

\* A query, a flush or the commit raises.
DatabaseFails(n) ==
    /\ notice[n].pc \in {"queued", "send", "commit"}
    /\ Raise(n)
    /\ UNCHANGED << decided, active, deliveries, sent >>

\* The worker is killed: the message was acknowledged when the task began.
Crash(n) ==
    /\ notice[n].pc \in {"queued", "send", "commit"}
    /\ notice' = [notice EXCEPT ![n] = [Emptied(n) EXCEPT !.pc = "lost"]]
    /\ UNCHANGED << decided, active, deliveries, sent >>

NoticeProgress(n) ==
    \/ Load(n) \/ DecisionNotFound(n) \/ CommitDeliveries(n)
    \/ \E c \in Config : Deliver(n, c) \/ DeliveryFails(n, c)

Quiescent ==
    /\ \A n \in Notice : notice[n].pc \in Ended
    /\ UNCHANGED notifierVars

Next ==
    \/ \E n \in Notice : NoticeProgress(n) \/ DatabaseFails(n) \/ Crash(n)
    \/ \E d \in Decision : DecisionCommits(d)
    \/ \E c \in Config : CreateConfig(c)
    \/ Quiescent

Spec == Init /\ [][Next]_notifierVars

\* The worker runs what is queued; nothing else has to happen.
FairSpec == Spec /\ \A n \in Notice : WF_notifierVars(NoticeProgress(n))

-----------------------------------------------------------------------------
\* Properties

\* A committed delivery row says sent only of a message the provider has
\* accepted, and a task that has ended well has one for every configuration it
\* loaded: a failure half way through the list leaves no row behind.
RowsMatchProvider ==
    /\ \A x \in deliveries :
         /\ x.row.status = "sent"
         /\ sent[x.notice][x.row.config] > 0
         /\ notice[x.notice].pc = "done"
    /\ \A n \in Notice : notice[n].pc = "done" =>
         \A c \in notice[n].configs :
           [ notice |-> n, row |-> [ config |-> c, status |-> "sent" ] ] \in deliveries

\* Nobody is sent the same notice more often than the task is tried, although
\* every retry begins with the first configuration again (max_retries=3).
ResendsBounded ==
    \A n \in Notice, c \in Config : sent[n][c] <= 1 + notice[n].retries

\* Every notice is sent, given up or lost with its worker in the end: retries
\* run out even if the decision never appears.
NoticesEnd == \A n \in Notice : <>(notice[n].pc \in Ended)

\* admin/notifications.py:1, "delivery status routes", and notifier.py:72-76: a
\* delivery that fails leaves a row with status failed to be read.  The
\* exception that is raised again rolls that row back, at every try.
FailureIsRecorded ==
    [][ \A n \in Notice, c \in Config : DeliveryFails(n, c) =>
          [ notice |-> n, row |-> [ config |-> c, status |-> "failed" ] ]
              \in deliveries' ]_notifierVars

=============================================================================
