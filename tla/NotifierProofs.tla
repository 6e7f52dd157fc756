---------------------------- MODULE NotifierProofs ----------------------------
(***************************************************************************)
(* Safety of the notification worker for any number of notices,            *)
(* configurations and retries, whatever the provider and the database do.  *)
(***************************************************************************)
EXTENDS Notifier, TLAPS

\* A task that is still tried: it has not committed its rows.
Trying(n) == notice[n].pc \in {"queued", "send", "commit"}

-----------------------------------------------------------------------------
(* What the steps of a task do to it.                                      *)

\* The task begins anew with one retry more, or is over, without rows.
Restarts(n) ==
    /\ \A o \in Notice \ {n} : notice'[o] = notice[o]
    /\ notice'[n] \in NoticeTask
    /\ notice'[n].pc \in {"queued", "given_up", "lost"}
    /\ notice'[n].rows = {}
    /\ notice'[n].pc = "queued" => notice'[n].retries = notice[n].retries + 1
    /\ notice'[n].pc # "queued" => notice'[n].retries = notice[n].retries

LEMMA EmptiedType ==
    ASSUME NotifierTypeOK, NEW n \in Notice
    PROVE  /\ Emptied(n) \in NoticeTask
           /\ Emptied(n).rows = {}
           /\ Emptied(n).retries = notice[n].retries
BY DEF Emptied, NotifierTypeOK, NoticeTask

LEMMA RaiseRestarts ==
    ASSUME NotifierTypeOK, NEW n \in Notice, Raise(n)
    PROVE  Restarts(n) /\ notice' \in [Notice -> NoticeTask]
<1> DEFINE x == IF notice[n].retries < MaxRetries
                THEN [Emptied(n) EXCEPT !.pc = "queued", !.retries = @ + 1]
                ELSE [Emptied(n) EXCEPT !.pc = "given_up"]
<1>1. MaxRetries \in Nat /\ notice[n].retries \in 0..MaxRetries
  BY NotifierAssumption DEF NotifierTypeOK, NoticeTask
<1>2. /\ x \in NoticeTask /\ x.pc \in {"queued", "given_up"} /\ x.rows = {}
      /\ x.pc = "queued" => x.retries = notice[n].retries + 1
      /\ x.pc # "queued" => x.retries = notice[n].retries
  <2> DEFINE again == [Emptied(n) EXCEPT !.pc = "queued", !.retries = @ + 1]
             over  == [Emptied(n) EXCEPT !.pc = "given_up"]
  <2>1. CASE notice[n].retries < MaxRetries
    <3>1. notice[n].retries + 1 \in 0..MaxRetries
      BY <1>1, <2>1
    <3>2. /\ again \in NoticeTask /\ again.pc = "queued" /\ again.rows = {}
          /\ again.retries = notice[n].retries + 1
      BY <3>1, EmptiedType DEF NoticeTask, NoticePc
    <3> QED
      BY <2>1, <3>2
  <2>2. CASE ~ (notice[n].retries < MaxRetries)
    <3>1. /\ over \in NoticeTask /\ over.pc = "given_up" /\ over.rows = {}
          /\ over.retries = notice[n].retries
      BY EmptiedType DEF NoticeTask, NoticePc
    <3> QED
      BY <2>2, <3>1
  <2> QED
    BY <2>1, <2>2
<1>3. notice' = [notice EXCEPT ![n] = x]
  BY DEF Raise
<1> HIDE DEF x
<1> QED
  BY <1>2, <1>3 DEF Restarts, NotifierTypeOK

LEMMA CrashRestarts ==
    ASSUME NotifierTypeOK, NEW n \in Notice, Crash(n)
    PROVE  Restarts(n) /\ notice' \in [Notice -> NoticeTask]
<1>1. [Emptied(n) EXCEPT !.pc = "lost"] \in NoticeTask
  BY EmptiedType DEF NoticeTask, NoticePc
<1> QED
  BY <1>1, EmptiedType DEF Crash, Restarts, NotifierTypeOK, NoticeTask

LEMMA LoadType ==
    ASSUME NotifierTypeOK, NEW n \in Notice, Load(n)
    PROVE  notice' \in [Notice -> NoticeTask]
<1> DEFINE x == [notice[n] EXCEPT !.configs = active, !.todo = active,
                                  !.pc = IF active = {} THEN "commit" ELSE "send"]
<1>1. x \in NoticeTask
  BY DEF NotifierTypeOK, NoticeTask, NoticePc
<1>2. notice' = [notice EXCEPT ![n] = x]
  BY DEF Load, NotifierTypeOK, NoticeTask
<1> QED
  BY <1>1, <1>2 DEF NotifierTypeOK

LEMMA DeliverType ==
    ASSUME NotifierTypeOK, NEW n \in Notice, NEW c \in Config, Deliver(n, c)
    PROVE  notice' \in [Notice -> NoticeTask]
<1> DEFINE rest == notice[n].todo \ {c}
           x == [notice[n] EXCEPT
                    !.todo = rest,
                    !.rows = @ \cup { [ config |-> c, status |-> "sent" ] },
                    !.pc = IF rest = {} THEN "commit" ELSE "send"]
<1>1. [ config |-> c, status |-> "sent" ] \in Row
  BY DEF Row
<1>2. x \in NoticeTask
  BY <1>1 DEF NotifierTypeOK, NoticeTask, NoticePc
<1>3. notice' = [notice EXCEPT ![n] = x]
  BY DEF Deliver, NotifierTypeOK, NoticeTask
<1> HIDE DEF x
<1> QED
  BY <1>2, <1>3 DEF NotifierTypeOK

LEMMA AcceptedType ==
    ASSUME NotifierTypeOK, NEW n \in Notice, NEW c \in Config
    PROVE  Accepted(n, c) \in [Notice -> [Config -> Nat]]
BY DEF Accepted, NotifierTypeOK

LEMMA TypeInit == Init => NotifierTypeOK
BY NotifierAssumption DEF Init, NotifierTypeOK, NoticeTask, NoticePc

\* Every way in which a step of Next is one of a task, or of others.
StepOf(n) ==
    \/ Load(n) \/ DecisionNotFound(n) \/ CommitDeliveries(n)
    \/ \E c \in Config : Deliver(n, c) \/ DeliveryFails(n, c)
    \/ DatabaseFails(n) \/ Crash(n)

LEMMA StepType ==
    ASSUME NotifierTypeOK, NEW n \in Notice, StepOf(n)
    PROVE  NotifierTypeOK'
<1>1. CASE Load(n)
  BY <1>1, LoadType DEF Load, NotifierTypeOK
<1>2. CASE DecisionNotFound(n)
  BY <1>2, RaiseRestarts DEF DecisionNotFound, NotifierTypeOK
<1>3. CASE CommitDeliveries(n)
  <2>1. notice' \in [Notice -> NoticeTask]
    <3>1. [notice[n] EXCEPT !.pc = "done"] \in NoticeTask
      BY DEF NotifierTypeOK, NoticeTask, NoticePc
    <3>2. notice' = [notice EXCEPT ![n] = [notice[n] EXCEPT !.pc = "done"]]
      BY <1>3 DEF CommitDeliveries, NotifierTypeOK, NoticeTask
    <3> QED
      BY <3>1, <3>2 DEF NotifierTypeOK
  <2>2. RowsOf(n) \subseteq [ notice : Notice, row : Row ]
    BY DEF RowsOf, NotifierTypeOK, NoticeTask
  <2> QED
    BY <1>3, <2>1, <2>2 DEF CommitDeliveries, NotifierTypeOK
<1>4. ASSUME NEW c \in Config, Deliver(n, c) PROVE NotifierTypeOK'
  BY <1>4, DeliverType, AcceptedType DEF Deliver, NotifierTypeOK
<1>5. ASSUME NEW c \in Config, DeliveryFails(n, c) PROVE NotifierTypeOK'
  BY <1>5, RaiseRestarts, AcceptedType DEF DeliveryFails, NotifierTypeOK
<1>6. CASE DatabaseFails(n)
  BY <1>6, RaiseRestarts DEF DatabaseFails, NotifierTypeOK
<1>7. CASE Crash(n)
  BY <1>7, CrashRestarts DEF Crash, NotifierTypeOK
<1> QED
  BY <1>1, <1>2, <1>3, <1>4, <1>5, <1>6, <1>7 DEF StepOf

\* What others do: decisions are committed, configurations created, or nothing.
OthersStep == UNCHANGED << notice, deliveries, sent >>

LEMMA NextCases ==
    ASSUME [Next]_notifierVars
    PROVE  OthersStep \/ \E n \in Notice : StepOf(n)
BY DEF Next, NoticeProgress, DecisionCommits, CreateConfig, Quiescent, OthersStep,
   StepOf, notifierVars

LEMMA TypeStep == NotifierTypeOK /\ [Next]_notifierVars => NotifierTypeOK'
<1> SUFFICES ASSUME NotifierTypeOK, [Next]_notifierVars PROVE NotifierTypeOK'
  OBVIOUS
<1>1. CASE \E n \in Notice : StepOf(n)
  BY <1>1, StepType
<1>2. CASE UNCHANGED notifierVars
  BY <1>2 DEF notifierVars, NotifierTypeOK
<1>3. CASE \/ \E d \in Decision : DecisionCommits(d)
           \/ \E c \in Config : CreateConfig(c)
  BY <1>3 DEF DecisionCommits, CreateConfig, NotifierTypeOK
<1> QED
  BY <1>1, <1>2, <1>3 DEF Next, NoticeProgress, Quiescent, StepOf

\* Tasks, tables and the provider's counts keep their types, and no task is
\* retried more often than max_retries (workers/notifier.py).
THEOREM NotifierTyped == Spec => []NotifierTypeOK
BY TypeInit, TypeStep, PTL DEF Spec

-----------------------------------------------------------------------------
(* Rows and what the provider has accepted.                                *)

SentRow(c) == [ config |-> c, status |-> "sent" ]

TaskRows(n) ==
    /\ \A r \in notice[n].rows : r.status = "sent" /\ sent[n][r.config] > 0
    /\ notice[n].pc = "send" =>
         \A c \in notice[n].configs : c \in notice[n].todo \/ SentRow(c) \in notice[n].rows
    /\ notice[n].pc = "commit" =>
         \A c \in notice[n].configs : SentRow(c) \in notice[n].rows

RowsInv == RowsMatchProvider /\ \A n \in Notice : TaskRows(n)

LEMMA RowsInit == Init => RowsInv
BY DEF Init, RowsInv, RowsMatchProvider, TaskRows

\* A step of a task that commits nothing.
LEMMA RowsQuiet ==
    ASSUME NotifierTypeOK, RowsInv, NEW n \in Notice, Trying(n), UNCHANGED deliveries,
           \A o \in Notice \ {n} : notice'[o] = notice[o],
           \A o \in Notice, c \in Config : sent'[o][c] >= sent[o][c],
           sent' \in [Notice -> [Config -> Nat]],
           notice'[n].pc # "done", TaskRows(n)'
    PROVE  RowsInv'
<1>1. \A o \in Notice, c \in Config : sent[o][c] > 0 => sent'[o][c] > 0
  BY DEF NotifierTypeOK
<1>2. \A x \in deliveries : x.notice \in Notice \ {n} /\ x.row.config \in Config
  BY DEF RowsInv, RowsMatchProvider, Trying, NotifierTypeOK, Row
<1>3. RowsMatchProvider'
  BY <1>1, <1>2 DEF RowsInv, RowsMatchProvider
<1>4. \A o \in Notice \ {n} : TaskRows(o)'
  <2> TAKE o \in Notice \ {n}
  <2>1. TaskRows(o) /\ notice'[o] = notice[o] /\ notice[o] \in NoticeTask
    BY DEF RowsInv, NotifierTypeOK
  <2>2. \A r \in notice[o].rows : r.config \in Config
    BY <2>1 DEF NoticeTask, Row
  <2> QED
    BY <1>1, <2>1, <2>2 DEF TaskRows
<1> QED
  BY <1>3, <1>4 DEF RowsInv

LEMMA RowsRestart ==
    ASSUME NotifierTypeOK, RowsInv, NEW n \in Notice, Trying(n), UNCHANGED deliveries,
           Restarts(n), sent' = sent \/ \E c \in Config : sent' = Accepted(n, c)
    PROVE  RowsInv'
<1>1. \A o \in Notice, k \in Config : sent'[o][k] >= sent[o][k]
  BY DEF Accepted, NotifierTypeOK
<1>2. sent' \in [Notice -> [Config -> Nat]]
  BY AcceptedType DEF NotifierTypeOK
<1>3. TaskRows(n)' /\ notice'[n].pc # "done"
  BY DEF Restarts, TaskRows
<1> QED
  BY <1>1, <1>2, <1>3, RowsQuiet DEF Restarts

LEMMA RowsStep ==
    ASSUME NotifierTypeOK, RowsInv, NEW n \in Notice, StepOf(n)
    PROVE  RowsInv'
<1>t. notice[n] \in NoticeTask /\ sent \in [Notice -> [Config -> Nat]]
  BY DEF NotifierTypeOK
<1>1. CASE Load(n)
  <2>1. /\ notice'[n].rows = notice[n].rows
        /\ notice'[n].configs = active /\ notice'[n].todo = active
        /\ notice'[n].pc = IF active = {} THEN "commit" ELSE "send"
        /\ \A o \in Notice \ {n} : notice'[o] = notice[o]
        /\ UNCHANGED << deliveries, sent >> /\ Trying(n)
    BY <1>1 DEF Load, Trying, NotifierTypeOK, NoticeTask
  <2>2. TaskRows(n)'
    BY <2>1 DEF RowsInv, TaskRows
  <2> QED
    BY <1>t, <2>1, <2>2, RowsQuiet
<1>2. CASE CommitDeliveries(n)
  <2>1. /\ deliveries' = deliveries \cup RowsOf(n) /\ UNCHANGED sent
        /\ notice'[n] = [notice[n] EXCEPT !.pc = "done"] /\ notice[n].pc = "commit"
        /\ \A o \in Notice \ {n} : notice'[o] = notice[o]
    BY <1>2 DEF CommitDeliveries, NotifierTypeOK
  <2>2. notice'[n].pc = "done" /\ notice'[n].rows = notice[n].rows
        /\ notice'[n].configs = notice[n].configs
    BY <1>t, <2>1 DEF NoticeTask
  <2>3. \A x \in deliveries' : /\ x.row.status = "sent"
                               /\ sent'[x.notice][x.row.config] > 0
                               /\ notice'[x.notice].pc = "done"
    <3>1. \A x \in deliveries : /\ x.row.status = "sent" /\ x.notice \in Notice
                                /\ sent[x.notice][x.row.config] > 0
                                /\ notice[x.notice].pc = "done"
      BY DEF RowsInv, RowsMatchProvider, NotifierTypeOK
    <3>2. \A x \in RowsOf(n) : /\ x.row.status = "sent" /\ x.notice = n
                               /\ sent[x.notice][x.row.config] > 0
      BY DEF RowsInv, TaskRows, RowsOf
    <3> QED
      BY <2>1, <2>2, <3>1, <3>2
  <2>4. \A c \in notice[n].configs :
           [ notice |-> n, row |-> SentRow(c) ] \in deliveries'
    <3>1. \A c \in notice[n].configs : SentRow(c) \in notice[n].rows
      BY <2>1 DEF RowsInv, TaskRows
    <3> QED
      BY <2>1, <3>1 DEF RowsOf
  <2>5. RowsMatchProvider'
    <3>1. ASSUME NEW o \in Notice, notice'[o].pc = "done", NEW c \in notice'[o].configs
          PROVE  [ notice |-> o, row |-> SentRow(c) ] \in deliveries'
      <4>1. CASE o = n
        BY <2>2, <2>4, <3>1, <4>1
      <4>2. CASE o # n
        BY <2>1, <3>1, <4>2 DEF RowsInv, RowsMatchProvider, SentRow
      <4> QED
        BY <4>1, <4>2
    <3> QED
      BY <2>3, <3>1 DEF RowsMatchProvider, SentRow
  <2>6. \A o \in Notice : TaskRows(o)'
    BY <2>1, <2>2 DEF RowsInv, TaskRows
  <2> QED
    BY <2>5, <2>6 DEF RowsInv
<1>3. ASSUME NEW c \in Config, Deliver(n, c) PROVE RowsInv'
  <2>1. /\ notice'[n].rows = notice[n].rows \cup {SentRow(c)}
        /\ notice'[n].configs = notice[n].configs
        /\ notice'[n].todo = notice[n].todo \ {c}
        /\ notice'[n].pc = IF notice'[n].todo = {} THEN "commit" ELSE "send"
        /\ \A o \in Notice \ {n} : notice'[o] = notice[o]
        /\ UNCHANGED deliveries /\ sent' = Accepted(n, c) /\ notice[n].pc = "send"
    BY <1>t, <1>3 DEF Deliver, SentRow, NotifierTypeOK, NoticeTask
  <2>2. /\ sent' \in [Notice -> [Config -> Nat]] /\ sent'[n][c] > 0
        /\ \A o \in Notice, k \in Config : sent'[o][k] >= sent[o][k]
    BY <1>t, <2>1 DEF Accepted
  <2>3. \A r \in notice[n].rows : r.config \in Config
    BY <1>t DEF NoticeTask, Row
  <2>4. \A r \in notice'[n].rows : r.status = "sent" /\ sent'[n][r.config] > 0
    <3>1. \A r \in notice[n].rows : r.status = "sent" /\ sent[n][r.config] > 0
      BY DEF RowsInv, TaskRows
    <3>2. SentRow(c).status = "sent" /\ SentRow(c).config = c
      BY DEF SentRow
    <3>3. \A k \in Config : sent[n][k] > 0 => sent'[n][k] > 0
      BY <1>t, <2>2
    <3> QED
      BY <2>1, <2>2, <2>3, <3>1, <3>2, <3>3
  <2>5. TaskRows(n)'
    <3>1. \A k \in notice[n].configs : k \in notice[n].todo \/ SentRow(k) \in notice[n].rows
      BY <2>1 DEF RowsInv, TaskRows
    <3>2. \A k \in notice'[n].configs :
             k \in notice'[n].todo \/ SentRow(k) \in notice'[n].rows
      BY <2>1, <3>1
    <3> QED
      BY <2>1, <2>4, <3>2 DEF TaskRows, SentRow
  <2> QED
    BY <2>1, <2>2, <2>5, RowsQuiet DEF Trying
<1>4. CASE \/ DecisionNotFound(n) \/ DatabaseFails(n) \/ Crash(n)
           \/ \E c \in Config : DeliveryFails(n, c)
  <2>1. /\ Trying(n) /\ UNCHANGED deliveries
        /\ sent' = sent \/ \E c \in Config : sent' = Accepted(n, c)
        /\ Raise(n) \/ Crash(n)
    BY <1>4 DEF DecisionNotFound, DatabaseFails, Crash, DeliveryFails, Trying
  <2> QED
    BY <2>1, RaiseRestarts, CrashRestarts, RowsRestart
<1> QED
  BY <1>1, <1>2, <1>3, <1>4 DEF StepOf

LEMMA RowsNext ==
    NotifierTypeOK /\ RowsInv /\ [Next]_notifierVars => RowsInv'
<1> SUFFICES ASSUME NotifierTypeOK, RowsInv, [Next]_notifierVars PROVE RowsInv'
  OBVIOUS
<1>1. CASE OthersStep
  BY <1>1 DEF OthersStep, RowsInv, RowsMatchProvider, TaskRows
<1> QED
  BY <1>1, NextCases, RowsStep

\* A committed row says sent only of what the provider has accepted, and a task
\* that ended well has one for every configuration it loaded: a failure half way
\* leaves none (notify_warning commits all rows together).
THEOREM DeliveriesAreTrue == Spec => []RowsMatchProvider
<1>1. NotifierTypeOK /\ RowsInv => RowsMatchProvider
  BY DEF RowsInv
<1>2. Spec => [](NotifierTypeOK /\ RowsInv)
  BY TypeInit, TypeStep, RowsInit, RowsNext, PTL DEF Spec
<1> QED
  BY <1>1, <1>2, PTL

-----------------------------------------------------------------------------
(* Resends.                                                                *)

\* Until an attempt comes to a configuration, the provider has accepted its
\* message at most once in each attempt before.
TaskResends(n) ==
    /\ notice[n].pc = "queued" =>
         \A c \in Config : sent[n][c] <= notice[n].retries
    /\ notice[n].pc = "send" =>
         \A c \in notice[n].todo : sent[n][c] <= notice[n].retries

ResendInv == ResendsBounded /\ \A n \in Notice : TaskResends(n)

LEMMA ResendInit == Init => ResendInv
BY DEF Init, ResendInv, ResendsBounded, TaskResends

LEMMA ResendQuiet ==
    ASSUME NotifierTypeOK, ResendInv, NEW n \in Notice,
           \A o \in Notice \ {n} : notice'[o] = notice[o] /\ sent'[o] = sent[o],
           \A c \in Config : sent'[n][c] <= 1 + notice'[n].retries,
           TaskResends(n)'
    PROVE  ResendInv'
BY DEF ResendInv, ResendsBounded, TaskResends

LEMMA ResendStep ==
    ASSUME NotifierTypeOK, ResendInv, NEW n \in Notice, StepOf(n)
    PROVE  ResendInv'
<1>t. /\ notice[n] \in NoticeTask /\ sent \in [Notice -> [Config -> Nat]]
      /\ notice[n].retries \in Nat
  BY NotifierAssumption DEF NotifierTypeOK, NoticeTask
<1>b. \A c \in Config : sent[n][c] \in Nat /\ sent[n][c] <= 1 + notice[n].retries
  BY <1>t DEF ResendInv, ResendsBounded
<1>1. CASE Load(n)
  <2>1. /\ notice'[n].retries = notice[n].retries /\ notice'[n].todo \subseteq Config
        /\ notice'[n].pc \in {"commit", "send"} /\ notice[n].pc = "queued"
        /\ \A o \in Notice \ {n} : notice'[o] = notice[o]
        /\ UNCHANGED sent
    BY <1>1 DEF Load, NotifierTypeOK, NoticeTask
  <2>2. TaskResends(n)'
    BY <2>1 DEF ResendInv, TaskResends
  <2> QED
    BY <1>b, <2>1, <2>2, ResendQuiet
<1>2. CASE CommitDeliveries(n)
  <2>1. /\ notice'[n].retries = notice[n].retries /\ notice'[n].pc = "done"
        /\ \A o \in Notice \ {n} : notice'[o] = notice[o]
        /\ UNCHANGED sent
    BY <1>2 DEF CommitDeliveries, NotifierTypeOK, NoticeTask
  <2> QED
    BY <1>b, <2>1, ResendQuiet DEF TaskResends
<1>3. ASSUME NEW c \in Config, Deliver(n, c) PROVE ResendInv'
  <2>1. /\ notice'[n].retries = notice[n].retries
        /\ notice'[n].todo = notice[n].todo \ {c}
        /\ notice'[n].pc \in {"commit", "send"} /\ notice[n].pc = "send"
        /\ c \in notice[n].todo /\ notice[n].todo \subseteq Config
        /\ \A o \in Notice \ {n} : notice'[o] = notice[o]
        /\ sent' = [sent EXCEPT ![n][c] = @ + 1]
    BY <1>t, <1>3 DEF Deliver, Accepted, NotifierTypeOK, NoticeTask
  <2>2. /\ \A o \in Notice \ {n} : sent'[o] = sent[o]
        /\ \A k \in Config \ {c} : sent'[n][k] = sent[n][k]
        /\ sent'[n][c] = sent[n][c] + 1
    BY <1>t, <2>1
  <2>3. \A k \in notice[n].todo : sent[n][k] <= notice[n].retries
    BY <2>1 DEF ResendInv, TaskResends
  <2>4. \A k \in Config : sent'[n][k] <= 1 + notice'[n].retries
    BY <1>t, <1>b, <2>1, <2>2, <2>3
  <2>5. TaskResends(n)'
    BY <2>1, <2>2, <2>3 DEF TaskResends
  <2> QED
    BY <2>1, <2>2, <2>4, <2>5, ResendQuiet
<1>4. CASE \/ DecisionNotFound(n) \/ DatabaseFails(n) \/ Crash(n)
  <2>1. Restarts(n) /\ UNCHANGED sent
    BY <1>4, RaiseRestarts, CrashRestarts DEF DecisionNotFound, DatabaseFails, Crash
  <2>2. /\ \A c \in Config : sent'[n][c] <= 1 + notice'[n].retries
        /\ TaskResends(n)'
    BY <1>t, <1>b, <2>1 DEF Restarts, TaskResends
  <2> QED
    BY <2>1, <2>2, ResendQuiet DEF Restarts
<1>5. ASSUME NEW c \in Config, DeliveryFails(n, c) PROVE ResendInv'
  <2>1. /\ Restarts(n) /\ notice[n].pc = "send" /\ c \in notice[n].todo
        /\ sent' = sent \/ sent' = [sent EXCEPT ![n][c] = @ + 1]
    BY <1>5, RaiseRestarts DEF DeliveryFails, Accepted
  <2>2. /\ \A o \in Notice \ {n} : sent'[o] = sent[o]
        /\ \A k \in Config \ {c} : sent'[n][k] = sent[n][k]
        /\ sent'[n][c] \in {sent[n][c], sent[n][c] + 1}
    BY <1>t, <2>1
  <2>3. sent[n][c] <= notice[n].retries
    BY <2>1 DEF ResendInv, TaskResends
  <2>4. \A k \in Config : sent'[n][k] <= 1 + notice[n].retries
    BY <1>t, <1>b, <2>2, <2>3
  <2>5. /\ \A k \in Config : sent'[n][k] <= 1 + notice'[n].retries
        /\ TaskResends(n)'
    <3>1. CASE notice'[n].pc = "queued"
      <4>1. notice'[n].retries = notice[n].retries + 1
        BY <2>1, <3>1 DEF Restarts
      <4>2. \A k \in Config : sent'[n][k] \in Nat
        BY <1>t, <1>b, <2>2
      <4> QED
        BY <1>t, <2>4, <3>1, <4>1, <4>2 DEF TaskResends
    <3>2. CASE notice'[n].pc # "queued"
      BY <2>1, <2>4, <3>2 DEF Restarts, TaskResends
    <3> QED
      BY <3>1, <3>2
  <2> QED
    BY <2>1, <2>2, <2>5, ResendQuiet DEF Restarts
<1> QED
  BY <1>1, <1>2, <1>3, <1>4, <1>5 DEF StepOf

LEMMA ResendNext ==
    NotifierTypeOK /\ ResendInv /\ [Next]_notifierVars => ResendInv'
<1> SUFFICES ASSUME NotifierTypeOK, ResendInv, [Next]_notifierVars PROVE ResendInv'
  OBVIOUS
<1>1. CASE OthersStep
  BY <1>1 DEF OthersStep, ResendInv, ResendsBounded, TaskResends
<1> QED
  BY <1>1, NextCases, ResendStep

\* Nobody is sent the same notice more often than the task is tried, although
\* each retry begins with the first configuration again (max_retries=3).
THEOREM ResendsAreBounded == Spec => []ResendsBounded
<1>1. NotifierTypeOK /\ ResendInv => ResendsBounded
  BY DEF ResendInv
<1>2. Spec => [](NotifierTypeOK /\ ResendInv)
  BY TypeInit, TypeStep, ResendInit, ResendNext, PTL DEF Spec
<1> QED
  BY <1>1, <1>2, PTL

=============================================================================
