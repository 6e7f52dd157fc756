------------------------ MODULE DecisionLedgerProofs ------------------------
(***************************************************************************)
(* What the committed tables promise their readers, for every workload and *)
(* every number of workers and watchers: evidence stays in its window, no  *)
(* transition is secret, totals are exact unless tasks overlap, and the    *)
(* interleaved transactions implement the ledger of DecisionLedger.        *)
(***************************************************************************)
EXTENDS DecisionSafetyProofs, WeighedDecisions

\* What _link_evidence makes of the session's copy.
LEMMA LinkFacts ==
    ASSUME TypeInv, NEW t \in Task, LinkEvidence(t)
    PROVE  /\ agg[t].pc = "link" /\ Working(t) /\ UNCHANGED storeVars
           /\ agg[t].dec \in Task /\ agg[t].loaded \in DecisionRow
           /\ agg'[t].pc \in {"flush", "commit"}
           /\ agg'[t].pc = "commit" => ~StateChanged(t)'
           /\ agg'[t].dec = agg[t].dec /\ agg'[t].loaded = agg[t].loaded
           /\ agg'[t].insert = {LinkOf(t)} \ links
           /\ agg'[t].current \in DecisionRow
           /\ agg'[t].current.region = agg[t].loaded.region
           /\ agg'[t].current.windowEnd = agg[t].loaded.windowEnd
           /\ agg'[t].current.resolvedBy = agg[t].loaded.resolvedBy
           /\ agg'[t].current.count = IF LinkOf(t) \in links
                THEN agg[t].loaded.count ELSE agg[t].loaded.count + 1
           /\ agg'[t].current.severity = IF LinkOf(t) \in links
                THEN agg[t].loaded.severity
                ELSE agg[t].loaded.severity + Severity[EvidenceOf[t]]
           /\ agg'[t].current.state = ComputeState(agg'[t].current)
<1> DEFINE new == {LinkOf(t)} \ links
           row == IF new = {} THEN agg[t].loaded
                  ELSE WithEvidence(agg[t].loaded, EvidenceOf[t])
           next == [row EXCEPT !.state = ComputeState(row)]
<1>t. agg \in [Task -> AggTxn] /\ agg[t] \in AggTxn
  BY DEF TypeInv, TypeOK, AggTypeOK
<1>1. /\ agg[t].pc = "link" /\ Working(t) /\ UNCHANGED storeVars
      /\ agg[t].dec \in Task /\ agg[t].loaded \in DecisionRow
  BY <1>t DEF LinkEvidence, At, Working, AggTxn, TypeInv, AggShape
<1>2. /\ row \in DecisionRow
      /\ row.region = agg[t].loaded.region
      /\ row.windowEnd = agg[t].loaded.windowEnd
      /\ row.resolvedBy = agg[t].loaded.resolvedBy
      /\ row.count = IF LinkOf(t) \in links
           THEN agg[t].loaded.count ELSE agg[t].loaded.count + 1
      /\ row.severity = IF LinkOf(t) \in links
           THEN agg[t].loaded.severity
           ELSE agg[t].loaded.severity + Severity[EvidenceOf[t]]
  <2>1. CASE LinkOf(t) \in links
    BY <1>1, <2>1
  <2>2. CASE LinkOf(t) \notin links
    <3>1. row = WithEvidence(agg[t].loaded, EvidenceOf[t])
      BY <2>2
    <3>2. row \in DecisionRow
      BY <1>1, <3>1, WithEvidenceType, StoreAssumption
    <3> HIDE DEF row
    <3> QED
      BY <1>1, <2>2, <3>1, <3>2 DEF WithEvidence, DecisionRow
  <2> QED
    BY <2>1, <2>2
<1>3. agg' = [agg EXCEPT ![t].current = next, ![t].insert = new,
                ![t].pc = IF ComputeState(row) # agg[t].loaded.state
                            THEN "flush" ELSE "commit"]
  BY DEF LinkEvidence
<1> HIDE DEF row
<1>4. /\ next \in DecisionRow /\ next.state = ComputeState(row)
      /\ next.region = row.region /\ next.windowEnd = row.windowEnd
      /\ next.resolvedBy = row.resolvedBy /\ next.count = row.count
      /\ next.severity = row.severity
  BY <1>2, ComputeStateType DEF DecisionRow, DecisionState
<1> HIDE DEF next
<1>5. ComputeState(next) = ComputeState(row)
  BY <1>4 DEF ComputeState
<1>6. /\ agg'[t].current = next /\ agg'[t].insert = new
      /\ agg'[t].dec = agg[t].dec /\ agg'[t].loaded = agg[t].loaded
      /\ agg'[t].pc = IF ComputeState(row) # agg[t].loaded.state
                        THEN "flush" ELSE "commit"
  BY <1>t, <1>3 DEF AggTxn
<1>7. agg'[t].pc = "commit" => ~StateChanged(t)'
  BY <1>4, <1>6 DEF StateChanged
<1> QED
  BY <1>1, <1>2, <1>4, <1>5, <1>6, <1>7

\* What session.get makes of the transaction.
LEMMA GetFacts ==
    ASSUME TypeInv, NEW t \in Task, GetDecision(t)
    PROVE  /\ agg[t].pc = "get" /\ UNCHANGED storeVars
           /\ agg[t].dec \in Task /\ agg'[t].insert = agg[t].insert
           /\ \/ /\ agg'[t].pc = "link" /\ agg'[t].dec = agg[t].dec
                 /\ Committed(agg[t].dec)
                 /\ decisions[agg[t].dec] \in DecisionRow
                 /\ agg'[t].loaded = decisions[agg[t].dec]
                 /\ agg'[t].current = decisions[agg[t].dec]
                 /\ InWindow(t, decisions[agg[t].dec])
                 /\ overlapped' = IF \E u \in Task \ {t} : Holds(u, agg[t].dec)
                      THEN overlapped \cup {agg[t].dec} ELSE overlapped
              \/ agg'[t].pc \in {"drop_key", "create"} /\ UNCHANGED overlapped
BY DEF GetDecision, At, Committed, TypeInv, TypeOK, AggTypeOK, AggTxn, AggShape,
   StoreTypeOK

LEMMA CreateFacts ==
    ASSUME TypeInv, NEW t \in Task, CreateDecision(t)
    PROVE  /\ agg[t].pc = "create" /\ agg'[t].pc = "link" /\ agg'[t].dec = t
           /\ agg'[t].loaded = NewDecision(t) /\ agg'[t].current = NewDecision(t)
           /\ agg'[t].insert = agg[t].insert
           /\ openKey' = [openKey EXCEPT ![RegionOf[EvidenceOf[t]]] = t]
           /\ UNCHANGED << decisions, links, audit, feedback, events,
                           notifyQueue, overlapped >>
BY DEF CreateDecision, At, TypeInv, TypeOK, AggTypeOK, AggTxn

\* All other steps of a task only move its program counter, within the work on
\* its decision or out of it.
LEMMA GotoFacts ==
    ASSUME TypeInv, NEW t \in Task, AggStep(t),
           ~ReadOpenKey(t), ~GetDecision(t), ~CreateDecision(t), ~LinkEvidence(t)
    PROVE  \E p \in AggPc :
             /\ agg'[t] = [agg[t] EXCEPT !.pc = p] /\ UNCHANGED overlapped
             /\ p \in {"publish", "notify", "commit"} => agg[t].pc \in LinkedPc
             /\ p \in {"publish", "notify", "commit", "create", "done", "failed"}
BY DEF AggStep, AggProgress, DropOpenKey, FlushStateChange, PublishStateChange,
   NotifyWarning, Commit, RejectDuplicateLink, Fail, RollBack, Goto, AggPc, At,
   LinkedPc, TypeInv, TypeOK, AggTypeOK

-----------------------------------------------------------------------------
\* Evidence stays in the window of its decision.
\*
\* Keys may be stale, and what a task loads may be overwritten, but the window
\* and the region of a decision are given by the evidence of the task that
\* inserts it and never change, and the key of a region only ever names
\* decisions of that region.

Fits(e, d) == /\ RegionOf[e] = RegionOf[EvidenceOf[d]]
              /\ CapturedAt[e] <= CapturedAt[EvidenceOf[d]] + Window

Opened(d, row) == /\ row.region = RegionOf[EvidenceOf[d]]
                  /\ row.windowEnd = CapturedAt[EvidenceOf[d]] + Window

TaskWindow(t) ==
    /\ At(t, "get") => RegionOf[EvidenceOf[t]] = RegionOf[EvidenceOf[agg[t].dec]]
    /\ Working(t) => /\ Fits(EvidenceOf[t], agg[t].dec)
                     /\ agg[t].dec = t => /\ Opened(t, agg[t].loaded)
                                          /\ Opened(t, agg[t].current)

WindowInv ==
    /\ \A d \in Task : Committed(d) => Opened(d, decisions[d])
    /\ \A d \in Task : \A e \in LinksOf(d) : Committed(d) /\ Fits(e, d)
    /\ \A r \in Region : openKey[r] # None => RegionOf[EvidenceOf[openKey[r]]] = r
    /\ \A t \in Task : TaskWindow(t)

LEMMA WindowInit == Init => WindowInv
BY DEF Init, StoreInit, AggInit, WindowInv, TaskWindow, Committed, LinksOf, At,
   Working

LEMMA TaskWindowStep ==
    ASSUME TypeInv, WindowInv, NEW t \in Task, AggStep(t)
    PROVE  TaskWindow(t)'
<1>t. TaskWindow(t) /\ agg[t] \in AggTxn /\ agg \in [Task -> AggTxn]
  BY DEF WindowInv, TypeInv, TypeOK, AggTypeOK
<1>1. CASE ReadOpenKey(t)
  BY <1>1, <1>t, StoreAssumption DEF ReadOpenKey, WindowInv, TaskWindow, At,
     Working, AggTxn
<1>2. CASE GetDecision(t)
  <2>1. \/ agg'[t].pc \in {"drop_key", "create"}
        \/ /\ agg'[t].pc = "link" /\ agg'[t].dec = agg[t].dec
           /\ agg'[t].loaded = decisions[agg[t].dec]
           /\ agg'[t].current = decisions[agg[t].dec]
           /\ agg[t].dec \in Task /\ Committed(agg[t].dec)
           /\ InWindow(t, decisions[agg[t].dec]) /\ agg[t].pc = "get"
    BY <1>2, GetFacts
  <2> QED
    BY <1>t, <2>1 DEF TaskWindow, WindowInv, Opened, Fits, InWindow, At, Working
<1>3. CASE CreateDecision(t)
  <2>1. Fits(EvidenceOf[t], t) /\ Opened(t, NewDecision(t))
    BY StoreAssumption DEF Fits, Opened, NewDecision
  <2> QED
    BY <1>3, <2>1, CreateFacts DEF TaskWindow, At
<1>4. CASE LinkEvidence(t)
  <2>1. /\ Working(t) /\ agg'[t].pc \in {"flush", "commit"}
        /\ agg'[t].dec = agg[t].dec /\ agg'[t].loaded = agg[t].loaded
        /\ agg'[t].current.region = agg[t].loaded.region
        /\ agg'[t].current.windowEnd = agg[t].loaded.windowEnd
    BY <1>4, LinkFacts
  <2> QED
    BY <1>t, <2>1 DEF TaskWindow, Opened, At
<1>5. CASE \E p \in AggPc :
             /\ agg'[t] = [agg[t] EXCEPT !.pc = p]
             /\ p \in {"publish", "notify", "commit"} => agg[t].pc \in LinkedPc
             /\ p \in {"publish", "notify", "commit", "create", "done", "failed"}
  BY <1>5, <1>t DEF TaskWindow, Working, At, AggTxn, LinkedPc
<1> QED
  BY <1>1, <1>2, <1>3, <1>4, <1>5, GotoFacts

LEMMA WindowStepTask ==
    ASSUME TypeInv, AuditInv, CountInv, WindowInv, NEW t \in Task, AggStep(t)
    PROVE  WindowInv'
<1>1. /\ \A u \in Task \ {t} : agg'[u] = agg[u]
      /\ Commit(t) \/ UNCHANGED tables
  BY TaskFrame
<1>2. \A u \in Task : TaskWindow(u)'
  BY <1>1, TaskWindowStep DEF WindowInv, TaskWindow, At, Working
<1>3. \A r \in Region : openKey'[r] # None
                          => RegionOf[EvidenceOf[openKey'[r]]] = r
  <2>1. CASE CreateDecision(t) \/ DropOpenKey(t)
    <3>1. openKey \in [Region -> Task \cup {None}]
      BY DEF TypeInv, TypeOK, StoreTypeOK
    <3>2. \E k \in {t, None} :
             openKey' = [openKey EXCEPT ![RegionOf[EvidenceOf[t]]] = k]
      BY <2>1 DEF CreateDecision, DropOpenKey
    <3> QED
      BY <3>1, <3>2 DEF WindowInv
  <2>2. CASE UNCHANGED openKey
    BY <2>2 DEF WindowInv
  <2> QED
    BY <2>1, <2>2 DEF AggStep, AggProgress, ReadOpenKey, GetDecision,
       LinkEvidence, FlushStateChange, PublishStateChange, NotifyWarning, Commit,
       RejectDuplicateLink, Fail, RollBack, storeVars
<1>4. CASE UNCHANGED tables
  BY <1>2, <1>3, <1>4 DEF WindowInv, Committed, LinksOf, tables
<1>5. CASE Commit(t)
  <2>1. PICK d \in Task : d = agg[t].dec /\ Commits(t, d)
    BY <1>5, CommitFacts
  <2>9. /\ d # t => Committed(d)
        /\ decisions'[d] = IF d = t THEN agg[t].current
                           ELSE Updated(decisions[d], agg[t].loaded,
                                        agg[t].current, t)
    BY <2>1 DEF Commits
  <2>2. /\ \A x \in Task \ {d} : /\ decisions'[x] = decisions[x]
                                 /\ Committed(x)' = Committed(x)
        /\ Committed(d)' /\ Working(t) /\ agg[t].pc = "commit"
        /\ links' = links \cup agg[t].insert
    BY <2>1 DEF Commits
  <2>3. Fits(EvidenceOf[t], d) /\ (d = t => Opened(t, agg[t].current))
    BY <2>1, <2>2 DEF WindowInv, TaskWindow
  <2>4. Opened(d, decisions'[d])
    BY <2>3, <2>9 DEF WindowInv, Opened, Updated
  <2>5. agg[t].insert \subseteq { << d, EvidenceOf[t] >> }
    BY <2>1, <2>2 DEF CountInv, TaskCount, LinkedPc, LinkOf
  <2>6. \A x \in Task : \A e \in LinksOf(x)' :
           e \in LinksOf(x) \/ (x = d /\ e = EvidenceOf[t])
    BY <2>2, <2>5 DEF LinksOf
  <2>7. \A x \in Task : \A e \in LinksOf(x)' : Committed(x)' /\ Fits(e, x)
    BY <2>2, <2>3, <2>6 DEF WindowInv
  <2>8. \A x \in Task : Committed(x)' => Opened(x, decisions'[x])
    BY <2>2, <2>4 DEF WindowInv
  <2> QED
    BY <1>2, <1>3, <2>7, <2>8 DEF WindowInv, Fits, Opened
<1> QED
  BY <1>1, <1>4, <1>5

LEMMA WindowStepReq ==
    ASSUME TypeInv, WindowInv, NEW q \in Request, ReqStep(q)
    PROVE  WindowInv'
<1>1. /\ UNCHANGED << agg, links, openKey >>
      /\ CommitResolve(q) \/ UNCHANGED tables
  BY RequestFrame
<1>2. \A x \in Task : /\ Committed(x) <=> Committed(x)'
                      /\ Committed(x) => Opened(x, decisions'[x])
  <2>1. CASE UNCHANGED tables
    BY <2>1 DEF WindowInv, Committed, tables
  <2>2. CASE CommitResolve(q)
    <3>1. PICK d \in Task : d = req[q].dec /\ CommitsResolve(q, d)
      BY <2>2, CommitResolveFacts
    <3>2. /\ Committed(d) /\ Committed(d)'
          /\ decisions'[d] = Updated(decisions[d], req[q].loaded,
                                     req[q].current, q)
      BY <3>1 DEF CommitsResolve
    <3>3. \A x \in Task \ {d} : /\ decisions'[x] = decisions[x]
                                /\ Committed(x)' = Committed(x)
      BY <3>1 DEF CommitsResolve
    <3>4. Opened(d, decisions[d]) => Opened(d, decisions'[d])
      BY <3>2 DEF Opened, Updated
    <3> QED
      BY <3>2, <3>3, <3>4 DEF WindowInv, Opened
  <2> QED
    BY <1>1, <2>1, <2>2
<1> QED
  BY <1>1, <1>2 DEF WindowInv, TaskWindow, At, Working, LinksOf

LEMMA WindowStep ==
    TypeInv /\ AuditInv /\ CountInv /\ WindowInv /\ [Next]_vars => WindowInv'
<1> SUFFICES ASSUME TypeInv, AuditInv, CountInv, WindowInv, [Next]_vars
             PROVE  WindowInv'
  OBVIOUS
<1>1. ASSUME NEW t \in Task, AggStep(t) PROVE WindowInv'
  BY <1>1, WindowStepTask
<1>2. ASSUME NEW q \in Request, ReqStep(q) PROVE WindowInv'
  BY <1>2, WindowStepReq
<1>3. CASE UNCHANGED << decisions, links, agg >>
           /\ \A r \in Region : openKey'[r] \in {openKey[r], None}
  BY <1>3 DEF WindowInv, TaskWindow, Committed, LinksOf, At, Working
<1>4. ASSUME NEW r \in Region, ExpireOpenKey(r)
      PROVE  \A s \in Region : openKey'[s] \in {openKey[s], None}
  BY <1>4 DEF ExpireOpenKey, TypeInv, TypeOK, StoreTypeOK
<1> QED
  BY <1>1, <1>2, <1>3, <1>4 DEF Next, Quiescent, ExpireOpenKey, vars, storeVars,
     Begin

\* The invariants that the last two sections rest on.
LedgerBase == TypeInv /\ AuditInv /\ CountInv /\ WindowInv

LEMMA BaseInvariant ==
    /\ Init => LedgerBase
    /\ LedgerBase /\ [Next]_vars => LedgerBase'
BY TypeInit, AuditInit, CountInit, WindowInit, TypeStep, AuditStep, CountStep,
   WindowStep DEF LedgerBase

\* Whatever key a task had read, whatever row it had loaded and whoever
\* committed meanwhile: evidence is linked to a committed decision of its own
\* region whose window was not over when it was captured.
THEOREM EvidenceFitsItsDecision == Spec => []LinksInWindow
<1>1. LedgerBase => LinksInWindow
  BY DEF LedgerBase, WindowInv, LinksInWindow, Opened, Fits
<1> QED
  BY <1>1, BaseInvariant, PTL DEF Spec

-----------------------------------------------------------------------------
\* No transition is secret.
\*
\* A transaction publishes before it commits, and what is published stays; so
\* it is enough that a transaction about to commit a new state has announced
\* it, and that its state has not changed since.

ComputedState == { "normal", "weird", "warning" }

ChangeEvent(t) == [ decision |-> agg[t].dec, type |-> "decision.state_changed",
                    state |-> agg[t].current.state, by |-> t ]

ResolveEvent(q) == [ decision |-> req[q].dec, type |-> "decision.resolved",
                     state |-> req[q].current.state, by |-> q ]

TaskAnnounced(t) ==
    /\ agg[t].pc \in {"notify", "commit"} /\ StateChanged(t) =>
           ChangeEvent(t) \in events
    /\ agg[t].pc = "commit" /\ StateChanged(t) /\ NeedsNotification(t) =>
           [ decision |-> agg[t].dec, by |-> t ] \in notifyQueue

\* The inserter of a decision works on a fresh row and links its evidence;
\* what any task writes is a computed state.
TaskEntry(t) ==
    /\ agg[t].pc \in LinkedPc => agg[t].current.state \in ComputedState
    /\ Working(t) /\ agg[t].dec = t =>
           /\ agg[t].loaded = NewDecision(t)
           /\ agg[t].pc \in LinkedPc => agg[t].insert = {LinkOf(t)}

ReqAnnounced(q) == req[q].pc = "commit" => ResolveEvent(q) \in events

AnnounceInv ==
    /\ TransitionsAnnounced
    /\ \A t \in Task : TaskAnnounced(t) /\ TaskEntry(t)
    /\ \A q \in Request : ReqAnnounced(q)

LEMMA AnnounceInit == Init => AnnounceInv
BY DEF Init, StoreInit, AggInit, ReqInit, AnnounceInv, TransitionsAnnounced,
   TaskAnnounced, TaskEntry, ReqAnnounced, Working, LinkedPc

\* Nobody takes an event or a notification back.
LEMMA Published ==
    ASSUME [Next]_vars
    PROVE  events \subseteq events' /\ notifyQueue \subseteq notifyQueue'
<1>1. ASSUME NEW t \in Task, AggStep(t)
      PROVE  events \subseteq events' /\ notifyQueue \subseteq notifyQueue'
  <2>1. CASE PublishStateChange(t)
    BY <2>1 DEF PublishStateChange
  <2>2. CASE NotifyWarning(t)
    BY <2>2 DEF NotifyWarning
  <2>3. CASE Commit(t)
    BY <2>3 DEF Commit
  <2>4. CASE ReadOpenKey(t) \/ GetDecision(t) \/ DropOpenKey(t) \/ CreateDecision(t)
    BY <2>4 DEF ReadOpenKey, GetDecision, DropOpenKey, CreateDecision, storeVars
  <2>5. CASE LinkEvidence(t) \/ FlushStateChange(t)
    BY <2>5 DEF LinkEvidence, FlushStateChange, storeVars
  <2>6. CASE RejectDuplicateLink(t) \/ Fail(t)
    BY <2>6 DEF RejectDuplicateLink, Fail, RollBack
  <2> QED
    BY <1>1, <2>1, <2>2, <2>3, <2>4, <2>5, <2>6 DEF AggStep, AggProgress
<1>2. ASSUME NEW q \in Request, ReqStep(q)
      PROVE  events \subseteq events' /\ notifyQueue \subseteq notifyQueue'
  <2>1. CASE PublishResolved(q)
    BY <2>1 DEF PublishResolved
  <2>2. CASE CommitResolve(q)
    BY <2>2 DEF CommitResolve
  <2>3. CASE FetchDecision(q) \/ LoadForResolve(q) \/ FlushResolve(q)
    BY <2>3 DEF FetchDecision, LoadForResolve, FlushResolve, storeVars
  <2>4. CASE RejectSecondFeedback(q) \/ FailResolve(q)
    BY <2>4 DEF RejectSecondFeedback, FailResolve, storeVars
  <2> QED
    BY <1>2, <2>1, <2>2, <2>3, <2>4 DEF ReqStep, ResolveProgress
<1>3. ASSUME NEW r \in Region, ExpireOpenKey(r)
      PROVE  events \subseteq events' /\ notifyQueue \subseteq notifyQueue'
  BY <1>3 DEF ExpireOpenKey
<1>4. ASSUME NEW x \in Txn, Begin(x)
      PROVE  events \subseteq events' /\ notifyQueue \subseteq notifyQueue'
  BY <1>4 DEF Begin, storeVars
<1>5. CASE UNCHANGED vars
  BY <1>5 DEF vars, storeVars
<1> QED
  BY <1>1, <1>2, <1>3, <1>4, <1>5 DEF Next, Quiescent

LEMMA TaskEntryStep ==
    ASSUME LedgerBase, AnnounceInv, NEW t \in Task, AggStep(t)
    PROVE  TaskEntry(t)'
<1>t. /\ TaskEntry(t) /\ agg[t] \in AggTxn /\ agg \in [Task -> AggTxn] /\ TypeInv
  BY DEF LedgerBase, AnnounceInv, TypeInv, TypeOK, AggTypeOK
<1>1. CASE ReadOpenKey(t)
  BY <1>1, <1>t DEF ReadOpenKey, TaskEntry, Working, LinkedPc, AggTxn
<1>2. CASE GetDecision(t)
  <2>1. /\ ~Committed(t)
        /\ \/ agg'[t].pc \in {"drop_key", "create"}
           \/ agg'[t].pc = "link" /\ agg'[t].dec = agg[t].dec /\ Committed(agg[t].dec)
    BY <1>2, <1>t, GetFacts DEF LedgerBase, AuditInv, TaskAudit, At
  <2> QED
    BY <2>1 DEF TaskEntry, Working, LinkedPc
<1>3. CASE CreateDecision(t)
  BY <1>3, <1>t, CreateFacts DEF TaskEntry, LinkedPc, NewDecision
<1>4. CASE LinkEvidence(t)
  <2>1. /\ Working(t) /\ agg'[t].pc \in {"flush", "commit"} /\ agg[t].pc = "link"
        /\ agg'[t].dec = agg[t].dec /\ agg'[t].loaded = agg[t].loaded
        /\ agg'[t].insert = {LinkOf(t)} \ links
        /\ agg'[t].current.state = ComputeState(agg'[t].current)
    BY <1>4, <1>t, LinkFacts
  <2>2. agg'[t].current.state \in ComputedState
    BY <2>1, ComputeStateType DEF ComputedState
  <2>3. ASSUME agg[t].dec = t PROVE LinkOf(t) \notin links
    <3>1. ~Committed(t)
      BY <2>1 DEF LedgerBase, AuditInv, TaskAudit, At
    <3> QED
      BY <2>3, <3>1, StoreAssumption DEF LedgerBase, WindowInv, LinksOf, LinkOf
  <2>4. LinkOf(t)' = LinkOf(t)
    BY <2>1 DEF LinkOf
  <2> QED
    BY <1>t, <2>1, <2>2, <2>3, <2>4 DEF TaskEntry
<1>5. CASE \E p \in AggPc :
             /\ agg'[t] = [agg[t] EXCEPT !.pc = p]
             /\ p \in {"publish", "notify", "commit"} => agg[t].pc \in LinkedPc
             /\ p \in {"publish", "notify", "commit", "create", "done", "failed"}
  BY <1>5, <1>t DEF TaskEntry, Working, LinkedPc, LinkOf, AggTxn
<1> QED
  BY <1>1, <1>2, <1>3, <1>4, <1>5, <1>t, GotoFacts

LEMMA TaskAnnouncedStep ==
    ASSUME LedgerBase, AnnounceInv, NEW t \in Task, AggStep(t)
    PROVE  TaskAnnounced(t)'
<1>t. /\ TaskAnnounced(t) /\ agg[t] \in AggTxn /\ agg \in [Task -> AggTxn]
      /\ TypeInv
  BY DEF LedgerBase, AnnounceInv, TypeInv, TypeOK, AggTypeOK
<1>1. CASE LinkEvidence(t)
  BY <1>1, <1>t, LinkFacts DEF TaskAnnounced
<1>2. CASE PublishStateChange(t)
  <2>1. agg'[t] = [agg[t] EXCEPT !.pc = IF NeedsNotification(t) THEN "notify"
                                                                ELSE "commit"]
        /\ ChangeEvent(t) \in events'
    BY <1>2, <1>t DEF PublishStateChange, Goto, ChangeEvent
  <2> QED
    BY <1>t, <2>1 DEF TaskAnnounced, ChangeEvent, NeedsNotification, AggTxn
<1>3. CASE NotifyWarning(t)
  <2>1. /\ agg'[t] = [agg[t] EXCEPT !.pc = "commit"] /\ agg[t].pc = "notify"
        /\ [ decision |-> agg[t].dec, by |-> t ] \in notifyQueue'
        /\ UNCHANGED events
    BY <1>3, <1>t DEF NotifyWarning, Goto, At
  <2> QED
    BY <1>t, <2>1 DEF TaskAnnounced, ChangeEvent, StateChanged, AggTxn
<1>4. CASE agg'[t].pc \notin {"notify", "commit"}
  BY <1>4 DEF TaskAnnounced
<1>5. CASE ReadOpenKey(t) \/ GetDecision(t) \/ CreateDecision(t)
  <2>1. agg'[t].pc \notin {"notify", "commit"}
    BY <1>5, <1>t DEF ReadOpenKey, GetDecision, CreateDecision, AggTxn
  <2> QED
    BY <1>4, <2>1
<1>6. CASE DropOpenKey(t) \/ FlushStateChange(t) \/ Commit(t) \/ RejectDuplicateLink(t)
           \/ Fail(t)
  <2>1. agg'[t].pc \notin {"notify", "commit"}
    BY <1>6, <1>t DEF DropOpenKey, FlushStateChange, Commit, RejectDuplicateLink,
       Fail, RollBack, Goto, AggTxn
  <2> QED
    BY <1>4, <2>1
<1> QED
  BY <1>1, <1>2, <1>3, <1>5, <1>6 DEF AggStep, AggProgress

\* A record that is appended to a trail after its event keeps every transition
\* announced.
LEMMA AnnouncedMoved ==
    ASSUME TypeInv, TransitionsAnnounced, NEW d \in Task, NEW e \in AuditEntry,
           events \subseteq events', notifyQueue \subseteq notifyQueue',
           \A x \in Task \ {d} : audit'[x] = audit[x],
           audit'[d] = Append(audit[d], e),
           \E ev \in events' : /\ ev.decision = d /\ ev.state = e.to
                               /\ ev.by = e.by,
           e.to = "warning" => [ decision |-> d, by |-> e.by ] \in notifyQueue'
    PROVE  TransitionsAnnounced'
<1>1. audit[d] \in Seq(AuditEntry)
  BY DEF TypeInv, TypeOK, StoreTypeOK
<1>2. \A x \in Task : \A i \in DOMAIN audit'[x] :
         \/ i \in DOMAIN audit[x] /\ audit'[x][i] = audit[x][i]
         \/ x = d /\ audit'[x][i] = e
  BY <1>1, AppendFacts
<1>3. ASSUME NEW x \in Task, NEW i \in DOMAIN audit'[x]
      PROVE  /\ \E ev \in events' : /\ ev.decision = x
                                    /\ ev.state = audit'[x][i].to
                                    /\ ev.by = audit'[x][i].by
             /\ audit'[x][i].to = "warning" =>
                  [ decision |-> x, by |-> audit'[x][i].by ] \in notifyQueue'
  <2>1. CASE i \in DOMAIN audit[x] /\ audit'[x][i] = audit[x][i]
    <3>1. /\ \E ev \in events : /\ ev.decision = x
                                /\ ev.state = audit[x][i].to
                                /\ ev.by = audit[x][i].by
          /\ audit[x][i].to = "warning" =>
               [ decision |-> x, by |-> audit[x][i].by ] \in notifyQueue
      BY <2>1 DEF TransitionsAnnounced
    <3> QED
      BY <2>1, <3>1
  <2>2. CASE x = d /\ audit'[x][i] = e
    BY <2>2
  <2> QED
    BY <1>2, <2>1, <2>2
<1> QED
  BY <1>3 DEF TransitionsAnnounced

LEMMA AnnounceStep == LedgerBase /\ AnnounceInv /\ [Next]_vars => AnnounceInv'
<1> SUFFICES ASSUME LedgerBase, AnnounceInv, [Next]_vars PROVE AnnounceInv'
  OBVIOUS
<1>t. TypeInv /\ events \subseteq events' /\ notifyQueue \subseteq notifyQueue'
  BY Published DEF LedgerBase
<1>1. ASSUME UNCHANGED audit PROVE TransitionsAnnounced'
  BY <1>1, <1>t DEF AnnounceInv, TransitionsAnnounced
<1>2. ASSUME NEW t \in Task, agg'[t] = agg[t]
      PROVE  TaskAnnounced(t)' /\ TaskEntry(t)'
  BY <1>2, <1>t DEF AnnounceInv, TaskAnnounced, TaskEntry, StateChanged,
     NeedsNotification, ChangeEvent, Working, LinkOf
<1>3. ASSUME NEW q \in Request, req'[q] = req[q] PROVE ReqAnnounced(q)'
  BY <1>3, <1>t DEF AnnounceInv, ReqAnnounced, ResolveEvent
<1>4. ASSUME NEW t \in Task, AggStep(t) PROVE AnnounceInv'
  <2>1. /\ \A u \in Task \ {t} : agg'[u] = agg[u]
        /\ UNCHANGED req /\ (Commit(t) \/ UNCHANGED tables)
    BY <1>4, <1>t, TaskFrame
  <2>2. \A u \in Task : TaskAnnounced(u)' /\ TaskEntry(u)'
    BY <1>2, <1>4, <2>1, TaskAnnouncedStep, TaskEntryStep
  <2>3. \A q \in Request : ReqAnnounced(q)'
    BY <1>3, <2>1
  <2>4. ASSUME Commit(t) PROVE TransitionsAnnounced'
    <3>1. PICK d \in Task : d = agg[t].dec /\ Commits(t, d)
      BY <1>t, <2>4, CommitFacts
    <3>2. CASE ~StateChanged(t)
      <4>1. audit[d] = audit'[d] /\ \A x \in Task \ {d} : audit'[x] = audit[x]
        BY <3>1, <3>2 DEF Commits
      <4>2. UNCHANGED audit
        BY <2>4, <3>2 DEF Commit
      <4> QED
        BY <1>1, <4>2
    <3>3. CASE StateChanged(t)
      <4>1. /\ ChangeEvent(t) \in events'
            /\ agg[t].current.state = "warning" =>
                 [ decision |-> d, by |-> t ] \in notifyQueue'
        BY <1>t, <3>1, <3>3 DEF Commits, AnnounceInv, TaskAnnounced,
           NeedsNotification
      <4>2. PICK e \in AuditEntry :
               /\ e = [ event |-> "state_change", to |-> agg[t].current.state,
                        by |-> t ]
               /\ audit'[d] = Append(audit[d], e)
        BY <3>1, <3>3 DEF Commits
      <4>3. \A x \in Task \ {d} : audit'[x] = audit[x]
        BY <3>1 DEF Commits
      <4>4. \E ev \in events' : /\ ev.decision = d /\ ev.state = e.to
                                /\ ev.by = e.by
        BY <3>1, <4>1, <4>2 DEF ChangeEvent
      <4> QED
        BY <1>t, <4>1, <4>2, <4>3, <4>4, AnnouncedMoved DEF AnnounceInv
    <3> QED
      BY <3>2, <3>3
  <2> QED
    BY <1>1, <2>1, <2>2, <2>3, <2>4 DEF AnnounceInv, tables
<1>5. ASSUME NEW q \in Request, ReqStep(q) PROVE AnnounceInv'
  <2>1. /\ \A p \in Request \ {q} : req'[p] = req[p]
        /\ UNCHANGED agg /\ (CommitResolve(q) \/ UNCHANGED tables)
    BY <1>5, <1>t, RequestFrame
  <2>2. ReqAnnounced(q)'
    <3>1. req \in [Request -> ReqTxn] /\ req[q] \in ReqTxn
      BY <1>t DEF TypeInv, TypeOK, ReqTypeOK
    <3>2. CASE PublishResolved(q)
      <4>1. /\ ResolveEvent(q) \in events'
            /\ req'[q] = [req[q] EXCEPT !.pc = "commit"]
        BY <3>1, <3>2 DEF PublishResolved, ResolveEvent
      <4> QED
        BY <3>1, <4>1 DEF ReqAnnounced, ResolveEvent, ReqTxn
    <3>3. CASE req'[q].pc # "commit"
      BY <3>3 DEF ReqAnnounced
    <3>4. CASE \E reply \in Reply : Answer(q, reply)
      BY <3>1, <3>3, <3>4 DEF Answer, ReqTxn
    <3>5. CASE FetchDecision(q) \/ FlushResolve(q)
      <4>1. CASE FetchDecision(q)
        <5>1. req'[q].pc = "viewed"
          BY <3>1, <4>1 DEF FetchDecision, ReqTxn
        <5> QED
          BY <3>3, <5>1
      <4>2. CASE FlushResolve(q)
        <5>1. req'[q].pc = "publish"
          BY <3>1, <4>2 DEF FlushResolve, ReqTxn
        <5> QED
          BY <3>3, <5>1
      <4> QED
        BY <3>5, <4>1, <4>2
    <3>6. CASE LoadForResolve(q)
      <4>1. CASE \E row, next : req' = [req EXCEPT ![q].pc = "flush",
                                          ![q].loaded = row, ![q].current = next]
        BY <3>1, <3>3, <4>1 DEF ReqTxn
      <4> QED
        BY <3>4, <3>6, <4>1 DEF LoadForResolve, Reply
    <3>7. CASE RejectSecondFeedback(q) \/ CommitResolve(q) \/ FailResolve(q)
      BY <3>4, <3>7 DEF RejectSecondFeedback, CommitResolve, FailResolve, Reply
    <3> QED
      BY <1>5, <3>2, <3>5, <3>6, <3>7 DEF ReqStep, ResolveProgress
  <2>3. ASSUME CommitResolve(q) PROVE TransitionsAnnounced'
    <3>1. PICK d \in Task : d = req[q].dec /\ CommitsResolve(q, d)
      BY <1>t, <2>3, CommitResolveFacts
    <3>2. ResolveEvent(q) \in events' /\ req[q].current.state # "warning"
      BY <1>t, <3>1 DEF CommitsResolve, AnnounceInv, ReqAnnounced, Resolved
    <3>3. PICK e \in AuditEntry :
             /\ e = [ event |-> "resolved", to |-> req[q].current.state, by |-> q ]
             /\ audit'[d] = Append(audit[d], e)
      BY <3>1 DEF CommitsResolve
    <3>4. \A x \in Task \ {d} : audit'[x] = audit[x]
      BY <3>1 DEF CommitsResolve
    <3>5. \E ev \in events' : /\ ev.decision = d /\ ev.state = e.to
                              /\ ev.by = e.by
      BY <3>1, <3>2, <3>3 DEF ResolveEvent
    <3> QED
      BY <1>t, <3>2, <3>3, <3>4, <3>5, AnnouncedMoved DEF AnnounceInv
  <2> QED
    BY <1>1, <1>2, <1>3, <2>1, <2>2, <2>3 DEF AnnounceInv, tables
<1>6. CASE UNCHANGED << audit, agg, req >>
  BY <1>1, <1>2, <1>3, <1>6 DEF AnnounceInv
<1> QED
  BY <1>4, <1>5, <1>6 DEF Next, Quiescent, ExpireOpenKey, vars, storeVars, Begin

LEMMA AnnounceInvariant == Spec => [](LedgerBase /\ AnnounceInv)
<1>1. Init => LedgerBase /\ AnnounceInv
  BY BaseInvariant, AnnounceInit
<1>2. LedgerBase /\ AnnounceInv /\ [Next]_vars => (LedgerBase /\ AnnounceInv)'
  BY BaseInvariant, AnnounceStep
<1> QED
  BY <1>1, <1>2, PTL DEF Spec

\* For every committed transition the watchers were sent its event, and for
\* one to warning the notification is queued, whatever fails around it.
THEOREM NothingMovesInSecret == Spec => []TransitionsAnnounced
<1>1. AnnounceInv => TransitionsAnnounced
  BY DEF AnnounceInv
<1> QED
  BY <1>1, AnnounceInvariant, PTL

-----------------------------------------------------------------------------
\* The transactions implement the ledger.
\*
\* The ledger's variables are functions of the committed tables and of the
\* published events, so a step of a transaction that is not a commit or a
\* publication is a stutter.  A publication is Announce; the commit of a task
\* is Open, Absorb, Restate or a stutter, according to whether it inserted
\* the decision, linked its evidence or changed the state; the commit of a
\* watcher is Resolve.

ledgerOf == [ d \in Task |-> IF Committed(d) THEN Entry(decisions[d]) ELSE None ]
linkedOf == [ d \in Task |-> LinksOf(d) ]
announcedOf == { [ decision |-> ev.decision, state |-> ev.state, by |-> ev.by ] :
                   ev \in events }

\* Two fields of an entry rewritten together.
Counted(d, n, s) == [ledgerOf EXCEPT ![d].count = n, ![d].state = s]
Settled(d, s, q) == [ledgerOf EXCEPT ![d].state = s, ![d].resolvedBy = q]

\* The steps of the ledger, in these terms.

LEMMA IsAnnounce ==
    ASSUME NEW d \in Task, NEW s, NEW w,
           announcedOf' = announcedOf
             \cup { [ decision |-> d, state |-> s, by |-> w ] },
           UNCHANGED << ledgerOf, linkedOf, audit >>
    PROVE  Ledger!Announce(d, s, w)
BY DEF Ledger!Announce, ledgerOf, linkedOf, announcedOf

Record(d, event, s, w) ==
    /\ [ decision |-> d, state |-> s, by |-> w ] \in announcedOf
    /\ audit' = [audit EXCEPT ![d] =
                   Append(@, [ event |-> event, to |-> s, by |-> w ])]

LEMMA IsOpen ==
    ASSUME NEW d \in Task, NEW e, NEW w, NEW s \in ComputedState,
           ledgerOf[d] = None,
           ledgerOf' = [ledgerOf EXCEPT ![d] =
                          [ state |-> s, count |-> 1, resolvedBy |-> None ]],
           IF s = "normal" THEN UNCHANGED audit
                           ELSE Record(d, "state_change", s, w),
           linkedOf' = [linkedOf EXCEPT ![d] = {e}],
           UNCHANGED announcedOf
    PROVE  Ledger!Open(d, e, w)
BY DEF Ledger!Open, Ledger!Recorded, Ledger!Computed, Record, ComputedState,
   ledgerOf, linkedOf, announcedOf

\* The cardinality that the ledger's module speaks of is the usual one.
LEMMA LedgerCardinality ==
    ASSUME NEW S
    PROVE  Ledger!Cardinality(S) = Cardinality(S)
BY DEF Ledger!Cardinality, Cardinality

LEMMA IsAbsorb ==
    ASSUME NEW d \in Task, NEW e, NEW w, ledgerOf[d] # None, e \notin linkedOf[d],
           linkedOf' = [linkedOf EXCEPT ![d] = @ \cup {e}],
           NEW n \in 1..(Cardinality(linkedOf[d]) + 1),
           \/ /\ ledgerOf' = [ledgerOf EXCEPT ![d].count = n]
              /\ UNCHANGED audit
           \/ \E s \in ComputedState :
                /\ ledgerOf' = Counted(d, n, s)
                /\ Record(d, "state_change", s, w),
           UNCHANGED announcedOf
    PROVE  Ledger!Absorb(d, e, w)
<1>1. \E m \in 1..(Ledger!Cardinality(linkedOf[d]) + 1) :
         \/ /\ ledgerOf' = [ledgerOf EXCEPT ![d].count = m]
            /\ UNCHANGED audit
         \/ \E s \in ComputedState :
              /\ ledgerOf' = [ledgerOf EXCEPT ![d].count = m, ![d].state = s]
              /\ Record(d, "state_change", s, w)
  BY LedgerCardinality, Zenon DEF Counted
<1> QED
  BY <1>1, Zenon DEF Ledger!Absorb, Ledger!Recorded, Ledger!Computed, Record,
     ComputedState, ledgerOf, linkedOf, announcedOf

LEMMA IsRestate ==
    ASSUME NEW d \in Task, NEW w, NEW s \in ComputedState, ledgerOf[d] # None,
           ledgerOf' = [ledgerOf EXCEPT ![d].state = s],
           Record(d, "state_change", s, w),
           UNCHANGED << linkedOf, announcedOf >>
    PROVE  Ledger!Restate(d, w)
BY DEF Ledger!Restate, Ledger!Recorded, Ledger!Computed, Record, ComputedState,
   ledgerOf, linkedOf, announcedOf

LEMMA IsResolve ==
    ASSUME NEW d \in Task, NEW q, NEW s \in Resolved, ledgerOf[d] # None,
           ledgerOf[d].resolvedBy = None,
           ledgerOf' = Settled(d, s, q), Record(d, "resolved", s, q),
           UNCHANGED << linkedOf, announcedOf >>
    PROVE  Ledger!Resolve(d, q)
BY DEF Ledger!Resolve, Ledger!Recorded, Ledger!Final, Resolved, Record,
   Settled, ledgerOf, linkedOf, announcedOf

LEMMA EntryThere ==
    ASSUME NEW d \in Task, Committed(d), decisions[d] \in DecisionRow
    PROVE  ledgerOf[d] # None
<1>1. Entry(decisions[d]) \in [ state : DecisionState, count : Nat,
                               resolvedBy : Request \cup {None} ]
  BY DEF Entry, DecisionRow
<1> QED
  BY <1>1, NoneIsNoEntry DEF ledgerOf

\* The entry of d is replaced and no other.
LEMMA LedgerMoved ==
    ASSUME NEW d \in Task, Committed(d)',
           \A x \in Task \ {d} : /\ decisions'[x] = decisions[x]
                                 /\ Committed(x)' = Committed(x)
    PROVE  ledgerOf' = [ledgerOf EXCEPT ![d] = Entry(decisions'[d])]
BY DEF ledgerOf, Entry

LEMMA EntryFields ==
    ASSUME NEW d \in Task, Committed(d)
    PROVE  /\ ledgerOf[d] = [ state      |-> decisions[d].state,
                              count      |-> decisions[d].count,
                              resolvedBy |-> decisions[d].resolvedBy ]
           /\ ledgerOf[d].resolvedBy = decisions[d].resolvedBy
BY DEF ledgerOf, Entry

\* Rewriting one field of an entry.
LEMMA RewriteField ==
    ASSUME NEW a, NEW b, NEW c, NEW n, NEW s, NEW q, NEW r,
           r = [ state |-> a, count |-> b, resolvedBy |-> c ]
    PROVE  /\ [r EXCEPT !.count = n]
                = [ state |-> a, count |-> n, resolvedBy |-> c ]
           /\ [r EXCEPT !.state = s]
                = [ state |-> s, count |-> b, resolvedBy |-> c ]
           /\ [r EXCEPT !.resolvedBy = q]
                = [ state |-> a, count |-> b, resolvedBy |-> q ]
<1>1. r \in [ state : {a}, count : {b}, resolvedBy : {c} ]
  OBVIOUS
<1>2. [r EXCEPT !.count = n] = [ state |-> a, count |-> n, resolvedBy |-> c ]
  BY <1>1
<1>3. [r EXCEPT !.state = s] = [ state |-> s, count |-> b, resolvedBy |-> c ]
  BY <1>1
<1>4. [r EXCEPT !.resolvedBy = q] = [ state |-> a, count |-> b, resolvedBy |-> q ]
  BY <1>1
<1> QED
  BY <1>2, <1>3, <1>4

\* Rewriting one field of an entry of the ledger, then two.
LEMMA EntryExcept ==
    ASSUME NEW d \in Task, Committed(d), NEW n, NEW s
    PROVE  /\ [ledgerOf EXCEPT ![d].count = n]
                = [ledgerOf EXCEPT ![d] =
                     [ state |-> decisions[d].state, count |-> n,
                       resolvedBy |-> decisions[d].resolvedBy ]]
           /\ [ledgerOf EXCEPT ![d].state = s]
                = [ledgerOf EXCEPT ![d] =
                     [ state |-> s, count |-> decisions[d].count,
                       resolvedBy |-> decisions[d].resolvedBy ]]
<1> DEFINE f == ledgerOf
           r == f[d]
           st == decisions[d].state
           co == decisions[d].count
           by == decisions[d].resolvedBy
<1>1. r = [ state |-> st, count |-> co, resolvedBy |-> by ]
  BY EntryFields
<1>2. f = [x \in Task |-> f[x]]
  BY DEF ledgerOf
<1> HIDE DEF f
<1>3. /\ [f EXCEPT ![d].count = n] = [f EXCEPT ![d] = [r EXCEPT !.count = n]]
      /\ [f EXCEPT ![d].state = s] = [f EXCEPT ![d] = [r EXCEPT !.state = s]]
  BY <1>2
<1> HIDE DEF r, st, co, by
<1>4. /\ [r EXCEPT !.count = n] = [ state |-> st, count |-> n, resolvedBy |-> by ]
      /\ [r EXCEPT !.state = s] = [ state |-> s, count |-> co, resolvedBy |-> by ]
  BY <1>1, RewriteField
<1> QED
  BY <1>3, <1>4 DEF f, st, co, by

LEMMA EntryCounted ==
    ASSUME NEW d \in Task, Committed(d), NEW n, NEW s
    PROVE  Counted(d, n, s)
             = [ledgerOf EXCEPT ![d] =
                  [ state |-> s, count |-> n,
                    resolvedBy |-> decisions[d].resolvedBy ]]
<1> DEFINE f == ledgerOf
           by == decisions[d].resolvedBy
           mid == [ state |-> decisions[d].state, count |-> n, resolvedBy |-> by ]
           g == [f EXCEPT ![d] = mid]
<1>1. [f EXCEPT ![d].count = n] = g /\ f = [x \in Task |-> f[x]]
  BY EntryExcept DEF ledgerOf
<1>2. [mid EXCEPT !.state = s] = [ state |-> s, count |-> n, resolvedBy |-> by ]
  BY RewriteField
<1> HIDE DEF f, mid, by
<1>3. [f EXCEPT ![d].count = n, ![d].state = s]
        = [[f EXCEPT ![d].count = n] EXCEPT ![d].state = s]
  OBVIOUS
<1>4. [g EXCEPT ![d].state = s] = [f EXCEPT ![d] = [mid EXCEPT !.state = s]]
  BY <1>1
<1> HIDE DEF g
<1>5. [f EXCEPT ![d].count = n, ![d].state = s] = [g EXCEPT ![d].state = s]
  BY <1>1, <1>3, Zenon
<1>6. [f EXCEPT ![d].count = n, ![d].state = s]
        = [f EXCEPT ![d] = [ state |-> s, count |-> n, resolvedBy |-> by ]]
  BY <1>2, <1>4, <1>5, Zenon
<1> QED
  BY <1>6, Zenon DEF f, by, Counted

LEMMA EntryResolved ==
    ASSUME NEW d \in Task, Committed(d), NEW s, NEW q
    PROVE  Settled(d, s, q)
             = [ledgerOf EXCEPT ![d] =
                  [ state |-> s, count |-> decisions[d].count,
                    resolvedBy |-> q ]]
<1> DEFINE f == ledgerOf
           co == decisions[d].count
           mid == [ state |-> s, count |-> co,
                    resolvedBy |-> decisions[d].resolvedBy ]
           g == [f EXCEPT ![d] = mid]
<1>1. [f EXCEPT ![d].state = s] = g /\ f = [x \in Task |-> f[x]]
  BY EntryExcept DEF ledgerOf
<1>2. [mid EXCEPT !.resolvedBy = q]
        = [ state |-> s, count |-> co, resolvedBy |-> q ]
  BY RewriteField
<1> HIDE DEF f, mid, co
<1>3. [f EXCEPT ![d].state = s, ![d].resolvedBy = q]
        = [[f EXCEPT ![d].state = s] EXCEPT ![d].resolvedBy = q]
  OBVIOUS
<1>4. [g EXCEPT ![d].resolvedBy = q]
        = [f EXCEPT ![d] = [mid EXCEPT !.resolvedBy = q]]
  BY <1>1
<1> HIDE DEF g
<1>5. [f EXCEPT ![d].state = s, ![d].resolvedBy = q]
        = [g EXCEPT ![d].resolvedBy = q]
  BY <1>1, <1>3, Zenon
<1>6. [f EXCEPT ![d].state = s, ![d].resolvedBy = q]
        = [f EXCEPT ![d] = [ state |-> s, count |-> co, resolvedBy |-> q ]]
  BY <1>2, <1>4, <1>5, Zenon
<1> QED
  BY <1>6, Zenon DEF f, co, Settled

LEMMA Unseen ==
    ASSUME UNCHANGED << decisions, links, audit, events >>
    PROVE  UNCHANGED << ledgerOf, linkedOf, audit, announcedOf >>
BY DEF ledgerOf, linkedOf, announcedOf, Committed, LinksOf

\* The links of d gain e, and those of no other decision.
LEMMA LinkedMoved ==
    ASSUME NEW d \in Task, NEW e \in Evidence, links' = links \cup { << d, e >> }
    PROVE  linkedOf' = [linkedOf EXCEPT ![d] = @ \cup {e}]
<1>1. \A x \in Task : LinksOf(x)' = IF x = d THEN LinksOf(d) \cup {e}
                                             ELSE LinksOf(x)
  BY DEF LinksOf
<1> QED
  BY <1>1 DEF linkedOf

\* The commit of a task, as its decision's entry, links and trail see it.
LEMMA CommitEntry ==
    ASSUME LedgerBase, AnnounceInv, ResolveInv, NEW t \in Task, Commit(t),
           NEW d \in Task, d = agg[t].dec
    PROVE  /\ agg[t].current.state \in ComputedState
           /\ UNCHANGED announcedOf
           /\ StateChanged(t) =>
                Record(d, "state_change", agg[t].current.state, t)
           /\ ~StateChanged(t) => UNCHANGED audit
           /\ Committed(d)'
           /\ \A x \in Task \ {d} : /\ decisions'[x] = decisions[x]
                                    /\ Committed(x)' = Committed(x)
<1>1. Commits(t, d)
  BY CommitOf DEF LedgerBase
<1>2. agg[t].pc = "commit" /\ Working(t) /\ UNCHANGED events
  BY <1>1 DEF Commits
<1>3. agg[t].current.state \in ComputedState
  BY <1>2 DEF AnnounceInv, TaskEntry, LinkedPc
<1>4. UNCHANGED announcedOf
  BY <1>2 DEF announcedOf
<1>5. ASSUME StateChanged(t)
      PROVE  Record(d, "state_change", agg[t].current.state, t)
  <2>1. ChangeEvent(t) \in events
    BY <1>2, <1>5 DEF AnnounceInv, TaskAnnounced
  <2>2. [ decision |-> d, state |-> agg[t].current.state, by |-> t ]
          \in announcedOf
    BY <2>1 DEF ChangeEvent, announcedOf
  <2>3. audit' = [audit EXCEPT ![d] = Append(@, [ event |-> "state_change",
                    to |-> agg[t].current.state, by |-> t ])]
    BY <1>5 DEF Commit
  <2> QED
    BY <2>2, <2>3 DEF Record
<1>6. ~StateChanged(t) => UNCHANGED audit
  BY DEF Commit
<1> QED
  BY <1>1, <1>3, <1>4, <1>5, <1>6 DEF Commits

LEMMA CommitOpens ==
    ASSUME LedgerBase, AnnounceInv, ResolveInv, NEW t \in Task, Commit(t),
           agg[t].dec = t
    PROVE  Ledger!Open(t, EvidenceOf[t], t)
<1>1. Commits(t, t)
  BY CommitOf DEF LedgerBase
<1>2. agg[t].pc = "commit" /\ Working(t) /\ decisions'[t] = agg[t].current
  BY <1>1 DEF Commits
<1>3. ~Committed(t)
  BY <1>2 DEF LedgerBase, AuditInv, TaskAudit, At
<1>4. agg[t].insert = { << t, EvidenceOf[t] >> } /\ agg[t].loaded = NewDecision(t)
  BY <1>2 DEF AnnounceInv, TaskEntry, LinkedPc, LinkOf
<1>5. /\ agg[t].loaded.state = "normal" /\ agg[t].loaded.count = 0
      /\ agg[t].loaded.resolvedBy = None
  BY <1>4 DEF NewDecision
<1>6. /\ agg[t].current.count = 1 /\ agg[t].current.resolvedBy = None
  <2>1. agg[t].current.count = agg[t].loaded.count + 1
    BY <1>2, <1>4 DEF LedgerBase, CountInv, TaskCount, LinkedPc
  <2>2. agg[t].current.resolvedBy = agg[t].loaded.resolvedBy
    BY <1>2 DEF ResolveInv, TaskResolve
  <2> QED
    BY <1>5, <2>1, <2>2
<1>7. ledgerOf' = [ledgerOf EXCEPT ![t] = [ state |-> agg[t].current.state,
                     count |-> 1, resolvedBy |-> None ]]
  BY <1>2, <1>6, CommitEntry, LedgerMoved DEF Entry
<1>8. linkedOf' = [linkedOf EXCEPT ![t] = {EvidenceOf[t]}]
  <2>1. linkedOf[t] = {}
    BY <1>3 DEF linkedOf, LedgerBase, WindowInv
  <2>2. links' = links \cup { << t, EvidenceOf[t] >> }
    BY <1>1, <1>4 DEF Commits
  <2>3. linkedOf' = [linkedOf EXCEPT ![t] = linkedOf[t] \cup {EvidenceOf[t]}]
    BY <2>2, LinkedMoved, StoreAssumption
  <2> QED
    BY <2>1, <2>3
<1>9. ledgerOf[t] = None
  BY <1>3 DEF ledgerOf
<1>10. IF agg[t].current.state = "normal" THEN UNCHANGED audit
       ELSE Record(t, "state_change", agg[t].current.state, t)
  BY <1>5, CommitEntry DEF StateChanged
<1>11. agg[t].current.state \in ComputedState /\ UNCHANGED announcedOf
  BY CommitEntry
<1> QED
  BY <1>7, <1>8, <1>9, <1>10, <1>11, IsOpen

LEMMA CommitMoves ==
    ASSUME LedgerBase, AnnounceInv, ResolveInv, NEW t \in Task, Commit(t),
           NEW d \in Task \ {t}, d = agg[t].dec
    PROVE  \/ Ledger!Absorb(d, EvidenceOf[t], t)
           \/ Ledger!Restate(d, t)
           \/ UNCHANGED << ledgerOf, linkedOf, audit, announcedOf >>
<1>1. Commits(t, d)
  BY CommitOf DEF LedgerBase
<1>2. /\ agg[t].pc = "commit" /\ Working(t) /\ Committed(d)
      /\ decisions[d] \in DecisionRow /\ agg[t].loaded \in DecisionRow
      /\ decisions'[d] = Updated(decisions[d], agg[t].loaded,
                                 agg[t].current, t)
      /\ agg[t].insert \cap links = {} /\ links' = links \cup agg[t].insert
  BY <1>1 DEF Commits
<1> DEFINE s == agg[t].current.state
           n == agg[t].loaded.count + 1
           row == decisions[d]
<1>3. ledgerOf' = [ledgerOf EXCEPT ![d] =
        [ state      |-> IF StateChanged(t) THEN s ELSE row.state,
          count      |-> IF agg[t].insert = {} THEN row.count ELSE n,
          resolvedBy |-> row.resolvedBy ]]
  <2>1. decisions'[d].state = IF StateChanged(t) THEN s ELSE row.state
    BY <1>2 DEF Updated, Column, StateChanged
  <2>2. decisions'[d].count = IF agg[t].insert = {} THEN row.count ELSE n
    <3>1. IF agg[t].insert = {} THEN agg[t].current.count = agg[t].loaded.count
                                ELSE agg[t].current.count = n
      BY <1>2 DEF LedgerBase, CountInv, TaskCount, LinkedPc
    <3>2. agg[t].loaded.count \in Nat
      BY <1>2 DEF DecisionRow
    <3> QED
      BY <1>2, <3>1, <3>2 DEF Updated, Column
  <2>3. decisions'[d].resolvedBy = row.resolvedBy
    <3>1. agg[t].current.resolvedBy = agg[t].loaded.resolvedBy
      BY <1>2 DEF ResolveInv, TaskResolve
    <3> QED
      BY <1>2, <3>1 DEF Updated, Column
  <2> QED
    BY <2>1, <2>2, <2>3, CommitEntry, LedgerMoved DEF Entry
<1>4. /\ s \in ComputedState /\ UNCHANGED announcedOf
      /\ StateChanged(t) => Record(d, "state_change", s, t)
      /\ ~StateChanged(t) => UNCHANGED audit
  BY CommitEntry
<1>5. ledgerOf[d] # None
  BY <1>2, EntryThere
<1>6. CASE agg[t].insert = {}
  <2>1. UNCHANGED linkedOf
    BY <1>2, <1>6 DEF linkedOf, LinksOf
  <2>2. CASE StateChanged(t)
    <3>1. ledgerOf' = [ledgerOf EXCEPT ![d].state = s]
      BY <1>2, <1>3, <1>6, <2>2, EntryExcept
    <3> QED
      BY <1>4, <1>5, <2>1, <2>2, <3>1, IsRestate
  <2>3. CASE ~StateChanged(t)
    <3>1. ledgerOf[d] = [ state      |-> IF StateChanged(t) THEN s ELSE row.state,
                          count      |-> IF agg[t].insert = {} THEN row.count ELSE n,
                          resolvedBy |-> row.resolvedBy ]
      BY <1>2, <1>6, <2>3, EntryFields
    <3>2. ledgerOf' = [ledgerOf EXCEPT ![d] = ledgerOf[d]]
      BY <1>3, <3>1
    <3>3. DOMAIN ledgerOf = Task /\ ledgerOf = [x \in Task |-> ledgerOf[x]]
      BY DEF ledgerOf
    <3>4. UNCHANGED ledgerOf
      BY <3>2, <3>3
    <3> QED
      BY <1>4, <2>1, <2>3, <3>4
  <2> QED
    BY <2>2, <2>3
<1>7. CASE agg[t].insert # {}
  <2>1. agg[t].insert = { << d, EvidenceOf[t] >> }
    BY <1>2, <1>7 DEF LedgerBase, CountInv, TaskCount, LinkedPc, LinkOf
  <2>2. EvidenceOf[t] \notin linkedOf[d]
    BY <1>2, <2>1 DEF linkedOf, LinksOf
  <2>3. linkedOf' = [linkedOf EXCEPT ![d] = @ \cup {EvidenceOf[t]}]
    BY <1>2, <2>1, LinkedMoved, StoreAssumption
  <2>4. n \in 1..(Cardinality(linkedOf[d]) + 1)
    <3>1. /\ agg[t].loaded.count <= Cardinality(LinksOf(d))
          /\ agg[t].loaded.count \in Nat
      BY <1>2 DEF LedgerBase, CountInv, TaskCount, DecisionRow
    <3>2. Cardinality(LinksOf(d)) \in Nat /\ linkedOf[d] = LinksOf(d)
      BY LinksOfFinite DEF linkedOf
    <3> QED
      BY <3>1, <3>2
  <2>5. \/ /\ ledgerOf' = [ledgerOf EXCEPT ![d].count = n]
           /\ UNCHANGED audit
        \/ /\ ledgerOf' = Counted(d, n, s)
           /\ Record(d, "state_change", s, t)
    <3> HIDE DEF n, s
    <3> QED
      <4>1. Counted(d, n, s) = [ledgerOf EXCEPT ![d] =
              [ state |-> s, count |-> n, resolvedBy |-> row.resolvedBy ]]
        BY <1>2, EntryCounted
      <4>2. CASE StateChanged(t)
        BY <1>3, <1>4, <1>7, <4>1, <4>2
      <4>3. CASE ~StateChanged(t)
        BY <1>2, <1>3, <1>4, <1>7, <4>3, EntryExcept
      <4> QED
        BY <4>2, <4>3
  <2> HIDE DEF n, s
  <2> QED
    BY <1>4, <1>5, <2>2, <2>3, <2>4, <2>5, IsAbsorb
<1> QED
  BY <1>6, <1>7

\* A watcher's commit.
LEMMA CommitResolves ==
    ASSUME LedgerBase, AnnounceInv, ResolveInv, NEW q \in Request,
           CommitResolve(q), NEW d \in Task, d = req[q].dec
    PROVE  Ledger!Resolve(d, q)
<1>1. CommitsResolve(q, d)
  BY CommitResolveOf DEF LedgerBase
<1> DEFINE s == req[q].current.state
<1>2. /\ req[q].pc = "commit" /\ Resolving(q) /\ Committed(d) /\ Committed(d)'
      /\ s \in Resolved /\ decisions[d] \in DecisionRow
      /\ decisions'[d] = Updated(decisions[d], req[q].loaded, req[q].current, q)
      /\ \A x \in Task \ {d} : /\ decisions'[x] = decisions[x]
                               /\ Committed(x)' = Committed(x)
      /\ UNCHANGED << links, events >>
  BY <1>1 DEF CommitsResolve
<1>3. /\ req[q].loaded.state \notin Resolved
      /\ req[q].current.count = req[q].loaded.count
  BY <1>2 DEF LedgerBase, AuditInv, ReqAudit, CountInv, ReqCount
<1>4. /\ req[q].current.resolvedBy = q /\ req[q].loaded.resolvedBy # q
      /\ feedback[d] = None
  BY <1>2 DEF ResolveInv, ReqResolve
<1>5. decisions[d].resolvedBy = None
  BY <1>2, <1>4 DEF ResolveInv, OneResolution
<1>6. /\ decisions'[d].state = s /\ decisions'[d].count = decisions[d].count
      /\ decisions'[d].resolvedBy = q
  BY <1>2, <1>3, <1>4 DEF Updated, Column
<1>7. ledgerOf' = [ledgerOf EXCEPT ![d] =
         [ state |-> s, count |-> decisions[d].count, resolvedBy |-> q ]]
  BY <1>2, <1>6, LedgerMoved DEF Entry
<1>8. ledgerOf' = Settled(d, s, q)
  <2> HIDE DEF s
  <2>1. Settled(d, s, q) = [ledgerOf EXCEPT ![d] =
           [ state |-> s, count |-> decisions[d].count, resolvedBy |-> q ]]
    BY <1>2, EntryResolved
  <2> QED
    BY <1>7, <2>1
<1>9. Record(d, "resolved", s, q)
  <2>1. ResolveEvent(q) \in events
    BY <1>2 DEF AnnounceInv, ReqAnnounced
  <2>2. [ decision |-> d, state |-> s, by |-> q ] \in announcedOf
    BY <2>1 DEF ResolveEvent, announcedOf
  <2>3. audit' = [audit EXCEPT ![d] = Append(@, [ event |-> "resolved",
                    to |-> req[q].current.state, by |-> q ])]
    BY DEF CommitResolve
  <2> QED
    BY <2>2, <2>3 DEF Record
<1>10. UNCHANGED << linkedOf, announcedOf >>
  BY <1>2 DEF linkedOf, announcedOf, LinksOf
<1>11. ledgerOf[d] # None /\ ledgerOf[d].resolvedBy = None
  BY <1>2, <1>5, EntryThere, EntryFields
<1> HIDE DEF s
<1> QED
  BY <1>2, <1>8, <1>9, <1>10, <1>11, IsResolve

\* A publication.
LEMMA AnnouncedOne ==
    ASSUME NEW ev, events' = events \cup {ev}
    PROVE  announcedOf' = announcedOf \cup
             { [ decision |-> ev.decision, state |-> ev.state, by |-> ev.by ] }
BY DEF announcedOf

LEMMA PublishAnnounces ==
    ASSUME LedgerBase, AnnounceInv, NEW t \in Task, PublishStateChange(t),
           NEW d \in Task, d = agg[t].dec
    PROVE  Ledger!Announce(d, agg[t].current.state, t)
<1>1. events' = events \cup {ChangeEvent(t)}
  BY DEF PublishStateChange, ChangeEvent
<1>2. announcedOf' = announcedOf \cup
        { [ decision |-> d, state |-> agg[t].current.state, by |-> t ] }
  <2>1. /\ ChangeEvent(t).decision = d /\ ChangeEvent(t).by = t
        /\ ChangeEvent(t).state = agg[t].current.state
    BY DEF ChangeEvent
  <2> QED
    BY <1>1, <2>1, AnnouncedOne
<1>3. UNCHANGED << ledgerOf, linkedOf, audit >>
  BY DEF PublishStateChange, ledgerOf, linkedOf, Committed, LinksOf
<1> QED
  BY <1>2, <1>3, IsAnnounce

LEMMA PublishResolvedAnnounces ==
    ASSUME NEW q \in Request, PublishResolved(q), NEW d \in Task, d = req[q].dec
    PROVE  Ledger!Announce(d, req[q].current.state, q)
<1>1. events' = events \cup {ResolveEvent(q)}
  BY DEF PublishResolved, ResolveEvent
<1>2. announcedOf' = announcedOf \cup
        { [ decision |-> d, state |-> req[q].current.state, by |-> q ] }
  <2>1. /\ ResolveEvent(q).decision = d /\ ResolveEvent(q).by = q
        /\ ResolveEvent(q).state = req[q].current.state
    BY DEF ResolveEvent
  <2> QED
    BY <1>1, <2>1, AnnouncedOne
<1>3. UNCHANGED << ledgerOf, linkedOf, audit >>
  BY DEF PublishResolved, ledgerOf, linkedOf, Committed, LinksOf
<1> QED
  BY <1>2, <1>3, IsAnnounce

\* One step of the ledger, before it is asked whether anything changed.
LedgerMove ==
    \E d \in Task :
       \/ \E s \in ComputedState, w \in Task : Ledger!Announce(d, s, w)
       \/ \E s \in Resolved, q \in Request : Ledger!Announce(d, s, q)
       \/ \E w \in Task, e \in Evidence :
            Ledger!Open(d, e, w) \/ Ledger!Absorb(d, e, w)
       \/ \E w \in Task : Ledger!Restate(d, w)
       \/ \E q \in Request : Ledger!Resolve(d, q)

Unmoved == UNCHANGED << ledgerOf, linkedOf, audit, announcedOf >>

LEMMA TaskMoves ==
    ASSUME LedgerBase, AnnounceInv, ResolveInv, NEW t \in Task, AggStep(t)
    PROVE  LedgerMove \/ Unmoved
<1>t. TypeInv /\ EvidenceOf[t] \in Evidence
  BY StoreAssumption DEF LedgerBase
<1>1. CASE Commit(t)
  <2>1. PICK d \in Task : d = agg[t].dec
    BY <1>t, <1>1, CommitFacts
  <2>2. CASE d = t
    BY <1>t, <1>1, <2>1, <2>2, CommitOpens DEF LedgerMove
  <2>3. CASE d # t
    BY <1>t, <1>1, <2>1, <2>3, CommitMoves DEF LedgerMove, Unmoved
  <2> QED
    BY <2>2, <2>3
<1>2. CASE PublishStateChange(t)
  <2>1. Working(t) /\ agg[t].pc \in LinkedPc
    BY <1>2 DEF PublishStateChange, At, Working, LinkedPc
  <2>2. agg[t].dec \in Task
    BY <1>t, <2>1 DEF TypeInv, TypeOK, AggTypeOK, AggTxn, AggShape
  <2>3. agg[t].current.state \in ComputedState
    BY <2>1 DEF AnnounceInv, TaskEntry
  <2>4. PICK d \in Task : d = agg[t].dec
    BY <2>2
  <2> QED
    BY <1>2, <2>3, <2>4, PublishAnnounces DEF LedgerMove
<1>3. CASE UNCHANGED << decisions, links, audit, events >>
  BY <1>3, Unseen DEF Unmoved
<1> QED
  BY <1>1, <1>2, <1>3 DEF AggStep, AggProgress, ReadOpenKey, GetDecision,
     DropOpenKey, CreateDecision, LinkEvidence, FlushStateChange, NotifyWarning,
     RejectDuplicateLink, Fail, RollBack, storeVars

LEMMA RequestMoves ==
    ASSUME LedgerBase, AnnounceInv, ResolveInv, NEW q \in Request, ReqStep(q)
    PROVE  LedgerMove \/ Unmoved
<1>t. TypeInv
  BY DEF LedgerBase
<1>1. CASE CommitResolve(q)
  <2>1. PICK d \in Task : d = req[q].dec
    BY <1>t, <1>1, CommitResolveFacts
  <2> QED
    BY <1>1, <2>1, CommitResolves DEF LedgerMove
<1>2. CASE PublishResolved(q)
  <2>1. Resolving(q)
    BY <1>2 DEF PublishResolved, Resolving
  <2>2. req[q].dec \in Task /\ req[q].current.state \in Resolved
    BY <1>t, <2>1 DEF TypeInv, TypeOK, ReqTypeOK, ReqTxn, ReqShape
  <2>3. PICK d \in Task : d = req[q].dec
    BY <2>2
  <2> QED
    BY <1>2, <2>2, <2>3, PublishResolvedAnnounces DEF LedgerMove
<1>3. CASE UNCHANGED << decisions, links, audit, events >>
  BY <1>3, Unseen DEF Unmoved
<1> QED
  BY <1>1, <1>2, <1>3 DEF ReqStep, FetchDecision, ResolveProgress,
     LoadForResolve, FlushResolve, RejectSecondFeedback, FailResolve, storeVars

\* Every step is a step of the ledger or leaves it as it is.
LEMMA StepSimulates ==
    LedgerBase /\ AnnounceInv /\ ResolveInv /\ [Next]_vars
        => [Ledger!LedgerNext]_(Ledger!ledgerVars)
<1> SUFFICES ASSUME LedgerBase, AnnounceInv, ResolveInv, [Next]_vars
             PROVE  [Ledger!LedgerNext]_(Ledger!ledgerVars)
  OBVIOUS
<1>1. LedgerMove \/ Unmoved
  <2>1. CASE UNCHANGED << decisions, links, audit, events >>
    BY <2>1, Unseen DEF Unmoved
  <2> QED
    BY <2>1, TaskMoves, RequestMoves
       DEF Next, Quiescent, ExpireOpenKey, vars, storeVars, Begin
<1>2. Unmoved <=> UNCHANGED Ledger!ledgerVars
  BY DEF Unmoved, Ledger!ledgerVars, ledgerOf, linkedOf, announcedOf
<1>3. LedgerMove /\ ~UNCHANGED Ledger!ledgerVars => Ledger!LedgerNext
  BY DEF LedgerMove, Ledger!LedgerNext, Ledger!Computed, Ledger!Final,
     ComputedState, Resolved
<1> QED
  BY <1>1, <1>2, <1>3

LEMMA InitSimulates == Init => Ledger!LedgerInit
BY DEF Init, StoreInit, Ledger!LedgerInit, Committed, LinksOf

\* To whoever reads the committed tables and hears the published events, any
\* interleaving of workers and watchers, with any of them failing anywhere, is
\* a sequence of the ledger's atomic entries.
THEOREM LedgerImplemented == Spec => ImplementsLedger
<1>1. Spec => []ResolveInv
  BY ResolveInvariant, PTL
<1> QED
  BY <1>1, InitSimulates, StepSimulates, AnnounceInvariant, PTL
     DEF Spec, ImplementsLedger, Ledger!LedgerSpec

-----------------------------------------------------------------------------
\* The totals are exact unless tasks overlap.
\*
\* The library's sum over a set picks the elements in an order of its own, by
\* a recursive function; that the sum of one more element is that much more
\* needs a function that satisfies the recursion for every subset, which is
\* built up by their size, and that no other does, by the smallest set on which
\* two would differ.

SumOver(w, S) == MapThenSumSet(LAMBDA x : w[x], S)
Pick(S) == CHOOSE x \in S : TRUE

Unfolded(w, f, s) == IF s = {} THEN 0 ELSE w[Pick(s)] + f[s \ {Pick(s)}]
Sums(w, f, S) == f = [ s \in SUBSET S |-> Unfolded(w, f, s) ]

LEMMA SumIsChosen ==
    ASSUME NEW w, NEW S
    PROVE  SumOver(w, S) = (CHOOSE f : Sums(w, f, S))[S]
BY DEF SumOver, MapThenSumSet, MapThenFoldSet, Sums, Pick, Unfolded

LEMMA PickIn ==
    ASSUME NEW s, s # {}
    PROVE  Pick(s) \in s
BY DEF Pick

\* Any collection of subsets has a smallest member.
LEMMA SmallestSet ==
    ASSUME NEW E, IsFiniteSet(E), NEW T \in SUBSET SUBSET E, T # {}
    PROVE  \E s \in T : \A u \in T : u \subseteq s => u = s
<1>1. \A s \in SUBSET E : IsFiniteSet(s)
  BY FS_Subset
<1>2. T \subseteq FiniteSubsetsOf(E)
  BY <1>1 DEF FiniteSubsetsOf
<1>3. PICK s \in T : \A u \in T : << u, s >> \notin StrictSubsetOrdering(E)
  BY <1>2, FS_StrictSubsetOrderingWellFounded, WFMin
<1>4. \A u \in T : u \subseteq s /\ u # s => << u, s >> \in StrictSubsetOrdering(E)
  BY <1>2 DEF StrictSubsetOrdering
<1>5. \A u \in T : u \subseteq s => u = s
  BY <1>3, <1>4
<1> QED
  BY <1>5, Zenon

\* What sums the subsets of two sets gives the same sum wherever both do.
LEMMA SumsAgree ==
    ASSUME NEW E, IsFiniteSet(E), NEW w,
           NEW S \in SUBSET E, NEW U \in SUBSET E, NEW f, NEW g,
           Sums(w, f, S), Sums(w, g, U), NEW s \in SUBSET (S \cap U)
    PROVE  f[s] = g[s]
<1> DEFINE T == { u \in SUBSET (S \cap U) : f[u] # g[u] }
<1> SUFFICES ASSUME T # {} PROVE FALSE
  OBVIOUS
<1>1. PICK m \in T : \A u \in T : u \subseteq m => u = m
  <2>1. T \in SUBSET SUBSET E
    OBVIOUS
  <2> HIDE DEF T
  <2> QED
    BY <2>1, SmallestSet
<1>2. f[m] = Unfolded(w, f, m) /\ g[m] = Unfolded(w, g, m)
  BY DEF Sums
<1>3. m # {}
  BY <1>2 DEF Unfolded
<1>4. Pick(m) \in m
  BY <1>3, PickIn
<1>5. f[m \ {Pick(m)}] = g[m \ {Pick(m)}]
  BY <1>1, <1>4
<1> QED
  BY <1>2, <1>5 DEF Unfolded

LEMMA SomeSums ==
    ASSUME NEW E, IsFiniteSet(E), NEW w \in [E -> Int]
    PROVE  \E f \in [SUBSET E -> Int] : Sums(w, f, E)
<1> DEFINE Upto(f, n) == \A s \in SUBSET E :
                           Cardinality(s) <= n => f[s] = Unfolded(w, f, s)
           Good(n) == \E f \in [SUBSET E -> Int] : Upto(f, n)
           T == { n \in Nat : ~Good(n) }
<1>1. \A s \in SUBSET E :
        /\ IsFiniteSet(s) /\ Cardinality(s) \in Nat
        /\ Cardinality(s) <= Cardinality(E)
        /\ Cardinality(s) = 0 <=> s = {}
        /\ s # {} => /\ Pick(s) \in s
                     /\ s \ {Pick(s)} \in SUBSET E
                     /\ Cardinality(s \ {Pick(s)}) = Cardinality(s) - 1
  <2> TAKE s \in SUBSET E
  <2>1. IsFiniteSet(s) /\ Cardinality(s) <= Cardinality(E)
    BY FS_Subset
  <2>2. Cardinality(s) \in Nat /\ (Cardinality(s) = 0 <=> s = {})
    BY <2>1, FS_CardinalityType, FS_EmptySet
  <2>3. s # {} => /\ Pick(s) \in s
                  /\ Cardinality(s \ {Pick(s)}) = Cardinality(s) - 1
    BY <2>1, PickIn, FS_RemoveElement
  <2> QED
    BY <2>1, <2>2, <2>3
<1>2. Good(0)
  <2> DEFINE z == [ s \in SUBSET E |-> 0 ]
  <2>1. z \in [SUBSET E -> Int]
    OBVIOUS
  <2>2. ASSUME NEW s \in SUBSET E, Cardinality(s) <= 0 PROVE s = {}
    <3>1. Cardinality(s) \in Nat
      BY <1>1
    <3>2. Cardinality(s) = 0
      BY <2>2, <3>1
    <3> QED
      BY <1>1, <3>2
  <2>3. Upto(z, 0)
    BY <2>2 DEF Unfolded
  <2> QED
    BY <2>1, <2>3
<1>3. ASSUME NEW n \in Nat, Good(n) PROVE Good(n + 1)
  <2>1. PICK f \in [SUBSET E -> Int] : Upto(f, n)
    BY <1>3
  <2> DEFINE g == [ s \in SUBSET E |-> Unfolded(w, f, s) ]
  <2>2. \A s \in SUBSET E : Unfolded(w, f, s) \in Int
    <3> TAKE s \in SUBSET E
    <3>1. CASE s = {}
      BY <3>1 DEF Unfolded
    <3>2. CASE s # {}
      <4>1. w[Pick(s)] \in Int /\ f[s \ {Pick(s)}] \in Int
        BY <1>1, <3>2
      <4> QED
        BY <3>2, <4>1 DEF Unfolded
    <3> QED
      BY <3>1, <3>2
  <2>3. g \in [SUBSET E -> Int]
    BY <2>2
  <2>4. ASSUME NEW s \in SUBSET E, Cardinality(s) <= n + 1
        PROVE  g[s] = Unfolded(w, g, s)
    <3>1. CASE s = {}
      BY <3>1 DEF Unfolded
    <3>2. CASE s # {}
      <4> DEFINE u == s \ {Pick(s)}
      <4>1. u \in SUBSET E /\ Cardinality(u) <= n
        BY <1>1, <2>4, <3>2
      <4>2. g[u] = f[u]
        BY <2>1, <4>1
      <4> QED
        BY <3>2, <4>2 DEF Unfolded
    <3> QED
      BY <3>1, <3>2
  <2> QED
    BY <2>3, <2>4
<1>4. T = {}
  <2> SUFFICES ASSUME T # {} PROVE FALSE
    OBVIOUS
  <2> HIDE DEF Good
  <2>1. PICK n \in T : \A m \in T : << m, n >> \notin OpToRel(<, Nat)
    BY NatLessThanWellFounded, WFMin
  <2>2. n # 0 /\ n - 1 \in Nat /\ n - 1 < n
    BY <1>2
  <2>3. << n - 1, n >> \in OpToRel(<, Nat)
    BY <2>2 DEF OpToRel
  <2>4. Good(n - 1)
    BY <2>1, <2>2, <2>3
  <2>5. Good((n - 1) + 1)
    BY <1>3, <2>2, <2>4
  <2> QED
    BY <2>2, <2>5
<1>5. Good(Cardinality(E))
  BY <1>1, <1>4
<1>6. PICK f \in [SUBSET E -> Int] : Upto(f, Cardinality(E))
  BY <1>5
<1>7. \A s \in SUBSET E : f[s] = Unfolded(w, f, s)
  BY <1>1, <1>6
<1> QED
  BY <1>7 DEF Sums

\* f gives the sum of every subset of E, and unfolds as the sum does.
Summing(w, f, E) ==
    /\ f \in [SUBSET E -> Int]
    /\ \A S \in SUBSET E : SumOver(w, S) = f[S] /\ f[S] = Unfolded(w, f, S)

LEMMA SumUnfolds ==
    ASSUME NEW E, IsFiniteSet(E), NEW w \in [E -> Int]
    PROVE  \E f : Summing(w, f, E)
<1>1. PICK f \in [SUBSET E -> Int] : Sums(w, f, E)
  BY SomeSums
<1>2. ASSUME NEW S \in SUBSET E PROVE SumOver(w, S) = f[S]
  <2> DEFINE g == [ s \in SUBSET S |-> f[s] ]
             h == CHOOSE x : Sums(w, x, S)
  <2>1. Sums(w, g, S)
    <3>1. \A s \in SUBSET S : f[s] = Unfolded(w, f, s)
      BY <1>1 DEF Sums
    <3>2. \A s \in SUBSET S : Unfolded(w, g, s) = Unfolded(w, f, s)
      BY DEF Unfolded
    <3> QED
      BY <3>1, <3>2 DEF Sums
  <2>2. Sums(w, h, S)
    BY <2>1
  <2>3. h[S] = f[S]
    <3> HIDE DEF h
    <3> QED
      BY <1>1, <2>2, SumsAgree
  <2> QED
    BY <2>3, SumIsChosen
<1>3. \A S \in SUBSET E : f[S] = Unfolded(w, f, S)
  BY <1>1 DEF Sums
<1> QED
  BY <1>1, <1>2, <1>3 DEF Summing

\* One more element adds its severity, whichever element is picked first: the
\* smallest set to which adding fails would fail without the picked one.
LEMMA SumOfOneMore ==
    ASSUME NEW E, IsFiniteSet(E), NEW w \in [E -> Int],
           NEW S \in SUBSET E, NEW e \in E \ S
    PROVE  SumOver(w, S \cup {e}) = SumOver(w, S) + w[e]
<1>1. PICK f : Summing(w, f, E)
  BY SumUnfolds
<1>f. /\ f \in [SUBSET E -> Int]
      /\ \A U \in SUBSET E : SumOver(w, U) = f[U] /\ f[U] = Unfolded(w, f, U)
  BY <1>1 DEF Summing
<1> DEFINE Adds(U) == \A x \in E \ U : f[U \cup {x}] = f[U] + w[x]
           T == { U \in SUBSET E : ~Adds(U) }
<1>2. T = {}
  <2> SUFFICES ASSUME T # {} PROVE FALSE
    OBVIOUS
  <2>1. PICK m \in T : \A u \in T : u \subseteq m => u = m
    <3>1. T \in SUBSET SUBSET E
      OBVIOUS
    <3> HIDE DEF T
    <3> QED
      BY <3>1, SmallestSet
  <2>2. PICK x \in E \ m : f[m \cup {x}] # f[m] + w[x]
    BY <2>1
  <2> DEFINE y == Pick(m \cup {x})
  <2>3. y \in m \cup {x}
    <3>1. m \cup {x} # {}
      OBVIOUS
    <3> QED
      BY <3>1, PickIn
  <2>4. f[m \cup {x}] = w[y] + f[(m \cup {x}) \ {y}]
    BY <1>f, <2>1, <2>2 DEF Unfolded
  <2>5. /\ w[x] \in Int /\ w[y] \in Int /\ f[m] \in Int
        /\ m \in SUBSET E
    BY <1>f, <2>1, <2>2, <2>3
  <2> HIDE DEF y
  <2>6. CASE y = x
    <3>1. (m \cup {x}) \ {y} = m
      BY <2>2, <2>6
    <3>2. f[m \cup {x}] = w[x] + f[m]
      BY <2>4, <2>6, <3>1
    <3> QED
      BY <2>2, <2>5, <3>2
  <2>7. CASE y # x
    <3>1. y \in m /\ (m \cup {x}) \ {y} = (m \ {y}) \cup {x}
      BY <2>2, <2>3, <2>7
    <3>2. Adds(m \ {y})
      <4>1. m \ {y} \in SUBSET E /\ m \ {y} \subseteq m /\ m \ {y} # m
        BY <2>5, <3>1
      <4>2. m \ {y} \notin T
        BY <2>1, <4>1
      <4> HIDE DEF Adds
      <4> QED
        BY <4>1, <4>2
    <3>3. f[(m \ {y}) \cup {x}] = f[m \ {y}] + w[x]
      BY <2>2, <3>2
    <3>4. f[m] = f[m \ {y}] + w[y]
      <4>1. (m \ {y}) \cup {y} = m /\ y \in E \ (m \ {y})
        BY <2>5, <3>1
      <4> QED
        BY <3>2, <4>1
    <3>5. f[m \ {y}] \in Int
      BY <1>f, <2>5
    <3>6. f[m \cup {x}] = w[y] + f[(m \ {y}) \cup {x}]
      BY <2>4, <3>1
    <3> QED
      BY <2>2, <2>5, <3>3, <3>4, <3>5, <3>6
  <2> QED
    BY <2>6, <2>7
<1>3. Adds(S)
  BY <1>2
<1>4. f[S \cup {e}] = f[S] + w[e]
  BY <1>3
<1> QED
  BY <1>f, <1>4

LEMMA SumOfNone ==
    ASSUME NEW E, IsFiniteSet(E), NEW w \in [E -> Int]
    PROVE  SumOver(w, {}) = 0
<1>1. PICK f : Summing(w, f, E)
  BY SumUnfolds
<1> QED
  BY <1>1 DEF Summing, Unfolded

LEMMA SumType ==
    ASSUME NEW E, IsFiniteSet(E), NEW w \in [E -> Int],
           NEW S \in SUBSET E
    PROVE  SumOver(w, S) \in Int
<1>1. PICK f : Summing(w, f, E)
  BY SumUnfolds
<1> QED
  BY <1>1 DEF Summing

\* No summand is lost: what weighs at least 1 each weighs as much as there is
\* of it together, when nothing else weighs less than 0.
LEMMA SumAtLeast ==
    ASSUME NEW E, IsFiniteSet(E), NEW w \in [E -> Int],
           NEW P, \A x \in E : w[x] >= 0 /\ (x \in P => w[x] >= 1),
           NEW S \in SUBSET E
    PROVE  SumOver(w, S) >= Cardinality(S \cap P)
<1>1. PICK f : Summing(w, f, E)
  BY SumUnfolds
<1>f. /\ f \in [SUBSET E -> Int]
      /\ \A U \in SUBSET E : SumOver(w, U) = f[U] /\ f[U] = Unfolded(w, f, U)
  BY <1>1 DEF Summing
<1> DEFINE T == { U \in SUBSET E : ~(f[U] >= Cardinality(U \cap P)) }
<1>2. T = {}
  <2> SUFFICES ASSUME T # {} PROVE FALSE
    OBVIOUS
  <2>1. PICK m \in T : \A u \in T : u \subseteq m => u = m
    <3>1. T \in SUBSET SUBSET E
      OBVIOUS
    <3> HIDE DEF T
    <3> QED
      BY <3>1, SmallestSet
  <2>2. m \in SUBSET E /\ ~(f[m] >= Cardinality(m \cap P)) /\ f[m] = Unfolded(w, f, m)
    BY <1>f, <2>1
  <2>3. m # {}
    <3>1. {} \cap P = {} /\ Cardinality({}) = 0
      BY FS_EmptySet
    <3>2. SUFFICES ASSUME m = {} PROVE FALSE
      OBVIOUS
    <3>3. f[m] = 0
      BY <2>2, <3>2 DEF Unfolded
    <3>4. Cardinality(m \cap P) = 0
      BY <3>1, <3>2
    <3> QED
      BY <2>2, <3>3, <3>4
  <2> DEFINE y == Pick(m)
             r == m \ {y}
  <2>4. y \in m /\ y \in E /\ f[m] = w[y] + f[r]
    BY <2>2, <2>3, PickIn DEF Unfolded
  <2> HIDE DEF y
  <2>5. r \in SUBSET E /\ r \subseteq m /\ r # m
    BY <2>2, <2>4
  <2>6. f[r] >= Cardinality(r \cap P)
    <3>1. r \notin T
      BY <2>1, <2>5
    <3> QED
      BY <2>5, <3>1
  <2>7. IsFiniteSet(m \cap P) /\ Cardinality(m \cap P) \in Nat
    <3>1. m \cap P \subseteq E
      BY <2>2
    <3> QED
      BY <3>1, FS_Subset, FS_CardinalityType
  <2>8. Cardinality(r \cap P) = IF y \in P THEN Cardinality(m \cap P) - 1
                                           ELSE Cardinality(m \cap P)
    <3>1. CASE y \in P
      <4>1. r \cap P = (m \cap P) \ {y} /\ y \in m \cap P
        BY <2>4, <3>1
      <4> QED
        <5>1. Cardinality((m \cap P) \ {y}) = Cardinality(m \cap P) - 1
          BY <2>7, <4>1, FS_RemoveElement
        <5> QED
          BY <3>1, <4>1, <5>1
    <3>2. CASE y \notin P
      <4>1. r \cap P = m \cap P
        BY <3>2
      <4> QED
        BY <3>2, <4>1
    <3> QED
      BY <3>1, <3>2
  <2>9. w[y] \in Int /\ f[r] \in Int /\ w[y] >= 0 /\ (y \in P => w[y] >= 1)
    BY <1>f, <2>4, <2>5
  <2> QED
    BY <2>2, <2>4, <2>6, <2>7, <2>8, <2>9
<1>3. f[S] >= Cardinality(S \cap P)
  BY <1>2
<1> QED
  BY <1>f, <1>3

SeveritySum(S) == MapThenSumSet(LAMBDA e : Severity[e], S)

LEMMA SeverityOver ==
    /\ IsFiniteSet(Evidence) /\ Severity \in [Evidence -> Int]
    /\ \A S : SeveritySum(S) = SumOver(Severity, S)
<1>1. \A S : SeveritySum(S) = SumOver(Severity, S)
  BY DEF SeveritySum, SumOver
<1> QED
  BY <1>1, FiniteEvidence, StoreAssumption

LEMMA SeverityOfOneMore ==
    ASSUME NEW S \in SUBSET Evidence, NEW e \in Evidence \ S
    PROVE  SeveritySum(S \cup {e}) = SeveritySum(S) + Severity[e]
<1>1. SumOver(Severity, S \cup {e}) = SumOver(Severity, S) + Severity[e]
  BY SeverityOver, SumOfOneMore
<1> QED
  BY <1>1, SeverityOver

LEMMA SeverityOfNone == SeveritySum({}) = 0
<1>1. SumOver(Severity, {}) = 0
  BY SeverityOver, SumOfNone
<1> QED
  BY <1>1, SeverityOver

\* The row has the totals of its links, and the state they give.
Exact(d) ==
    /\ decisions[d].count = Cardinality(LinksOf(d))
    /\ decisions[d].severity = SeveritySum(LinksOf(d))
    /\ decisions[d].state \notin Resolved =>
           decisions[d].state = ComputeState(decisions[d])

\* What the task has loaded is what the row still holds, but for a resolution.
Fresh(t, d) ==
    /\ agg[t].loaded.count = decisions[d].count
    /\ agg[t].loaded.severity = decisions[d].severity
    /\ decisions[d].state \in Resolved \cup {agg[t].loaded.state}

TaskTotals(t) ==
    agg[t].pc \in LinkedPc =>
        /\ agg[t].current.state = ComputeState(agg[t].current)
        /\ agg[t].current.severity =
               IF agg[t].insert = {} THEN agg[t].loaded.severity
               ELSE agg[t].loaded.severity + Severity[EvidenceOf[t]]

\* Only a task that has its decision to itself goes on to what is exact.
TaskAlone(t) ==
    Working(t) /\ agg[t].dec \notin overlapped =>
        /\ \A u \in Task \ {t} : Working(u) => agg[u].dec # agg[t].dec
        /\ agg[t].dec # t => Fresh(t, agg[t].dec)

ReqTotals(q) ==
    Resolving(q) => req[q].current.severity = req[q].loaded.severity

ExactInv ==
    /\ \A d \in Task : Committed(d) /\ d \notin overlapped => Exact(d)
    /\ \A t \in Task : TaskTotals(t) /\ TaskAlone(t)
    /\ \A q \in Request : ReqTotals(q)

LEMMA ExactInit == Init => ExactInv
BY DEF Init, StoreInit, AggInit, ReqInit, ExactInv, TaskTotals, TaskAlone,
   ReqTotals, Committed, Working, Resolving, LinkedPc

LEMMA SameTotals ==
    ASSUME NEW x, NEW y, x.count = y.count, x.severity = y.severity
    PROVE  ComputeState(x) = ComputeState(y)
BY DEF ComputeState

LEMMA TaskTotalsStep ==
    ASSUME LedgerBase, ExactInv, NEW t \in Task, AggStep(t)
    PROVE  TaskTotals(t)'
<1>t. TaskTotals(t) /\ TypeInv /\ agg[t] \in AggTxn
  BY DEF ExactInv, LedgerBase, TypeInv, TypeOK, AggTypeOK
<1>1. CASE LinkEvidence(t)
  <2>1. /\ agg'[t].loaded = agg[t].loaded /\ agg'[t].insert = {LinkOf(t)} \ links
        /\ agg'[t].current.severity = IF LinkOf(t) \in links
             THEN agg[t].loaded.severity
             ELSE agg[t].loaded.severity + Severity[EvidenceOf[t]]
        /\ agg'[t].current.state = ComputeState(agg'[t].current)
    BY <1>1, <1>t, LinkFacts
  <2>2. agg'[t].insert = {} <=> LinkOf(t) \in links
    BY <2>1
  <2>3. ComputeState(agg[t].current)' = ComputeState(agg'[t].current)
    BY DEF ComputeState
  <2> QED
    BY <2>1, <2>2, <2>3 DEF TaskTotals
<1>2. CASE \E p \in AggPc :
             /\ agg'[t] = [agg[t] EXCEPT !.pc = p]
             /\ p \in {"publish", "notify", "commit"} => agg[t].pc \in LinkedPc
             /\ p \in {"publish", "notify", "commit", "create", "done", "failed"}
  <2>1. /\ agg'[t].current = agg[t].current /\ agg'[t].loaded = agg[t].loaded
        /\ agg'[t].insert = agg[t].insert
        /\ agg'[t].pc \in LinkedPc => agg[t].pc \in LinkedPc
    BY <1>2, <1>t DEF AggTxn, LinkedPc
  <2> QED
    BY <1>t, <2>1 DEF TaskTotals, ComputeState
<1>3. CASE agg'[t].pc \notin LinkedPc
  BY <1>3 DEF TaskTotals
<1>4. CASE ReadOpenKey(t) \/ GetDecision(t) \/ CreateDecision(t)
  <2>1. agg'[t].pc \notin LinkedPc
    BY <1>4, <1>t, GetFacts, CreateFacts DEF ReadOpenKey, LinkedPc, TypeInv,
       TypeOK, AggTypeOK, AggTxn
  <2> QED
    BY <1>3, <2>1
<1> QED
  BY <1>1, <1>2, <1>4, <1>t, GotoFacts

LEMMA HoldsWhatItWorksOn ==
    ASSUME TypeInv, NEW t \in Task, Working(t)
    PROVE  Holds(t, agg[t].dec) /\ agg[t].dec \in Task
BY DEF Working, Holds, Running, Finished, At, TypeInv, TypeOK, AggTypeOK, AggTxn,
   AggShape

\* A step that keeps a task's decision, what it loaded and the rows keeps it
\* alone, if nobody else has joined.
LEMMA AloneKept ==
    ASSUME ExactInv, NEW t \in Task, Working(t)' => Working(t),
           agg'[t].dec = agg[t].dec, agg'[t].loaded = agg[t].loaded,
           overlapped \subseteq overlapped',
           \A u \in Task \ {t} : Working(u)' =>
               \/ Working(u) /\ agg'[u].dec = agg[u].dec
               \/ agg'[u].dec # agg[t].dec \/ agg[t].dec \in overlapped',
           Working(t)' /\ agg[t].dec \notin overlapped' /\ agg[t].dec # t =>
               \/ decisions'[agg[t].dec] = decisions[agg[t].dec]
               \/ /\ decisions'[agg[t].dec].count = decisions[agg[t].dec].count
                  /\ decisions'[agg[t].dec].severity
                       = decisions[agg[t].dec].severity
                  /\ decisions'[agg[t].dec].state \in Resolved
    PROVE  TaskAlone(t)'
BY DEF ExactInv, TaskAlone, Fresh

LEMMA AloneStepTask ==
    ASSUME LedgerBase, ExactInv, NEW t \in Task, AggStep(t), NEW u \in Task
    PROVE  TaskAlone(u)'
<1>t. TypeInv /\ agg \in [Task -> AggTxn]
  BY DEF LedgerBase, TypeInv, TypeOK, AggTypeOK
<1>f. /\ \A x \in Task \ {t} : agg'[x] = agg[x]
      /\ Commit(t) \/ UNCHANGED tables
      /\ \A x \in Task \ {t} : Working(x)' = Working(x)
  BY <1>t, TaskFrame DEF Working
<1>1. CASE GetDecision(t)
  <2>1. UNCHANGED decisions /\ ~Working(t)
    BY <1>1, <1>t, GetFacts DEF storeVars, Working
  <2>2. CASE agg'[t].pc \in {"drop_key", "create"} /\ UNCHANGED overlapped
    <3>1. ~Working(t)'
      BY <2>2 DEF Working
    <3>2. CASE u = t
      BY <3>1, <3>2 DEF TaskAlone
    <3>3. CASE u # t
      BY <1>f, <2>1, <2>2, <3>1, <3>3, AloneKept
    <3> QED
      BY <3>2, <3>3
  <2>3. CASE /\ agg'[t].pc = "link" /\ agg'[t].dec = agg[t].dec
             /\ agg'[t].loaded = decisions[agg[t].dec]
             /\ overlapped' = IF \E x \in Task \ {t} : Holds(x, agg[t].dec)
                  THEN overlapped \cup {agg[t].dec} ELSE overlapped
    <3>1. \A x \in Task \ {t} : Working(x) /\ agg[x].dec = agg[t].dec
             => agg[t].dec \in overlapped'
      BY <1>t, <2>3, HoldsWhatItWorksOn
    <3>2. CASE u = t
      <4>1. \A x \in Task \ {t} : Working(x)' /\ agg'[x].dec = agg'[t].dec
               => agg'[t].dec \in overlapped'
        BY <1>f, <2>3, <3>1
      <4>2. Fresh(t, agg[t].dec)'
        BY <2>1, <2>3 DEF Fresh
      <4> QED
        BY <2>3, <3>2, <4>1, <4>2 DEF TaskAlone
    <3>3. CASE u # t
      <4>1. ASSUME Working(u)
            PROVE  agg'[t].dec # agg[u].dec \/ agg[u].dec \in overlapped'
        BY <2>3, <3>1, <3>3, <4>1
      <4>2. CASE Working(u)
        BY <1>f, <2>1, <2>3, <3>3, <4>1, <4>2, AloneKept
      <4>3. CASE ~Working(u)
        BY <1>f, <3>3, <4>3 DEF TaskAlone
      <4> QED
        BY <4>2, <4>3
    <3> QED
      BY <3>2, <3>3
  <2> QED
    BY <1>1, <1>t, <2>2, <2>3, GetFacts
<1>2. CASE CreateDecision(t)
  <2>1. /\ agg[t].pc = "create" /\ agg'[t].dec = t
        /\ UNCHANGED << decisions, overlapped >>
    BY <1>2, <1>t, CreateFacts
  <2>2. ~Committed(t)
    BY <2>1 DEF LedgerBase, AuditInv, TaskAudit, At
  <2>3. \A x \in Task \ {t} : Working(x) => agg[x].dec # t
    BY <1>t, <2>2 DEF TypeInv, AggShape
  <2>4. CASE u = t
    BY <1>f, <2>1, <2>3, <2>4 DEF TaskAlone
  <2>5. CASE u # t
    BY <1>f, <2>1, <2>3, <2>5, AloneKept DEF ExactInv, TaskAlone
  <2> QED
    BY <2>4, <2>5
<1>3. CASE Commit(t)
  <2>1. PICK d \in Task : d = agg[t].dec /\ Commits(t, d)
    BY <1>3, <1>t, CommitFacts
  <2>2. /\ Working(t) /\ agg'[t] = [agg[t] EXCEPT !.pc = "done"]
        /\ UNCHANGED overlapped
        /\ \A x \in Task \ {d} : decisions'[x] = decisions[x]
    BY <2>1 DEF Commits
  <2>3. ~Working(t)'
    BY <1>t, <2>2 DEF Working, AggTxn
  <2>4. CASE u = t
    BY <2>3, <2>4 DEF TaskAlone
  <2>5. CASE u # t /\ Working(u)
    <3>1. agg[u].dec \in Task
      BY <1>t, <2>5, HoldsWhatItWorksOn
    <3>2. agg[u].dec = d => d \in overlapped
      BY <2>1, <2>2, <2>5 DEF ExactInv, TaskAlone
    <3> QED
      BY <1>f, <2>2, <2>3, <2>5, <3>1, <3>2, AloneKept
  <2>6. CASE u # t /\ ~Working(u)
    BY <1>f, <2>6 DEF TaskAlone
  <2> QED
    BY <2>4, <2>5, <2>6
<1>4. ASSUME UNCHANGED << decisions, overlapped >>, agg'[t].dec = agg[t].dec,
             agg'[t].loaded = agg[t].loaded, Working(t)' => Working(t)
      PROVE  TaskAlone(u)'
  BY <1>4, <1>f, AloneKept
<1>5. CASE LinkEvidence(t)
  BY <1>4, <1>5, <1>t, LinkFacts DEF LinkEvidence, storeVars
<1>6. CASE ReadOpenKey(t)
  <2>1. ~Working(t)' /\ UNCHANGED << decisions, overlapped >>
    BY <1>6, <1>t DEF ReadOpenKey, storeVars, Working, AggTxn
  <2>2. CASE u = t
    BY <2>1, <2>2 DEF TaskAlone
  <2>3. CASE u # t
    BY <1>f, <2>1, <2>3, AloneKept
  <2> QED
    BY <2>2, <2>3
<1>7. ASSUME UNCHANGED decisions, ~ReadOpenKey(t), ~GetDecision(t),
             ~CreateDecision(t), ~LinkEvidence(t)
      PROVE  TaskAlone(u)'
  <2>1. PICK p \in AggPc :
          /\ agg'[t] = [agg[t] EXCEPT !.pc = p] /\ UNCHANGED overlapped
          /\ p \in {"publish", "notify", "commit"} => agg[t].pc \in LinkedPc
          /\ p \in {"publish", "notify", "commit", "create", "done", "failed"}
    BY <1>t, <1>7, GotoFacts
  <2>2. /\ agg'[t].dec = agg[t].dec /\ agg'[t].loaded = agg[t].loaded
        /\ Working(t)' => Working(t)
    BY <1>t, <2>1 DEF AggTxn, Working, LinkedPc
  <2> QED
    BY <1>4, <1>7, <2>1, <2>2
<1> QED
  BY <1>1, <1>2, <1>3, <1>5, <1>6, <1>7, <1>f DEF tables

\* A commit on a decision that is not overlapped makes the totals of its row
\* those of its links again.
LEMMA CommitExact ==
    ASSUME LedgerBase, AnnounceInv, ExactInv, NEW t \in Task, Commit(t),
           NEW d \in Task, d = agg[t].dec, d \notin overlapped
    PROVE  Exact(d)'
<1>1. Commits(t, d)
  BY CommitOf DEF LedgerBase
<1> DEFINE e == EvidenceOf[t]
           loaded == agg[t].loaded
           current == agg[t].current
           row == decisions'[d]
<1>2. /\ Working(t) /\ agg[t].pc \in LinkedPc
      /\ loaded \in DecisionRow /\ current \in DecisionRow
      /\ row = IF d = t THEN current
               ELSE Updated(decisions[d], loaded, current, t)
      /\ d # t => Committed(d) /\ decisions[d] \in DecisionRow
      /\ agg[t].insert \cap links = {} /\ links' = links \cup agg[t].insert
  BY <1>1 DEF Commits, LinkedPc
<1>3. /\ current.state = ComputeState(current)
      /\ \/ /\ agg[t].insert = {}
            /\ current.count = loaded.count /\ current.severity = loaded.severity
         \/ /\ agg[t].insert = { << d, e >> }
            /\ current.count = loaded.count + 1
            /\ current.severity = loaded.severity + Severity[e]
  BY <1>2 DEF LedgerBase, CountInv, TaskCount, ExactInv, TaskTotals, LinkOf
<1>4. /\ e \in Evidence /\ Severity[e] \in Int
      /\ LinksOf(d) \in SUBSET Evidence /\ IsFiniteSet(LinksOf(d))
      /\ Cardinality(LinksOf(d)) \in Nat
  BY StoreAssumption, LinksOfFinite DEF LinksOf
\* The totals that the task loaded are those of the links it loaded with.
<1>5. /\ loaded.count = Cardinality(LinksOf(d))
      /\ loaded.severity = SeveritySum(LinksOf(d))
  <2>1. CASE d = t
    <3>1. loaded = NewDecision(t)
      BY <1>2, <2>1 DEF AnnounceInv, TaskEntry
    <3>2. ~Committed(t)
      BY <1>1, <2>1 DEF Commits, LedgerBase, AuditInv, TaskAudit, At
    <3>3. LinksOf(d) = {}
      BY <2>1, <3>2 DEF LedgerBase, WindowInv
    <3> QED
      BY <3>1, <3>3, FS_EmptySet, SeverityOfNone DEF NewDecision
  <2>2. CASE d # t
    <3>1. Fresh(t, d) /\ Exact(d)
      BY <1>2, <2>2 DEF ExactInv, TaskAlone
    <3> QED
      BY <3>1 DEF Fresh, Exact
  <2> QED
    BY <2>1, <2>2
\* What it commits are those of the links it leaves.
<1>6. /\ current.count = Cardinality(LinksOf(d)')
      /\ current.severity = SeveritySum(LinksOf(d)')
  <2>1. CASE agg[t].insert = {}
    <3>1. /\ LinksOf(d)' = LinksOf(d)
          /\ current.count = loaded.count /\ current.severity = loaded.severity
      BY <1>2, <1>3, <2>1 DEF LinksOf
    <3> QED
      BY <1>5, <3>1
  <2>2. CASE agg[t].insert = { << d, e >> }
    <3>1. LinksOf(d)' = LinksOf(d) \cup {e} /\ e \notin LinksOf(d)
      BY <1>2, <1>4, <2>2 DEF LinksOf
    <3>2. /\ current.count = loaded.count + 1
          /\ current.severity = loaded.severity + Severity[e]
      BY <1>3, <2>2
    <3>3. Cardinality(LinksOf(d) \cup {e}) = Cardinality(LinksOf(d)) + 1
      BY <1>4, <3>1, FS_AddElement
    <3>4. SeveritySum(LinksOf(d) \cup {e})
            = SeveritySum(LinksOf(d)) + Severity[e]
      BY <1>4, <3>1, SeverityOfOneMore
    <3> QED
      BY <1>5, <3>1, <3>2, <3>3, <3>4
  <2> QED
    BY <1>3, <2>1, <2>2
<1>7. row.count = current.count /\ row.severity = current.severity
  <2>1. CASE d = t
    BY <1>2, <2>1
  <2>2. CASE d # t
    <3>1. Fresh(t, d)
      BY <1>2, <2>2 DEF ExactInv, TaskAlone
    <3> QED
      BY <1>2, <2>2, <3>1 DEF Fresh, Updated, Column
  <2> QED
    BY <2>1, <2>2
<1>8. row.state \notin Resolved => row.state = current.state
  <2>1. CASE d = t
    BY <1>2, <2>1
  <2>2. CASE d # t
    <3>1. Fresh(t, d)
      BY <1>2, <2>2 DEF ExactInv, TaskAlone
    <3> QED
      BY <1>2, <2>2, <3>1 DEF Fresh, Updated, Column
  <2> QED
    BY <2>1, <2>2
<1>9. ComputeState(row) = ComputeState(current)
  BY <1>7 DEF ComputeState
<1>10. SeveritySum(LinksOf(d))' = SeveritySum(LinksOf(d)')
  BY DEF SeveritySum, MapThenSumSet, MapThenFoldSet
<1>11. /\ decisions'[d].count = Cardinality(LinksOf(d)')
       /\ decisions'[d].severity = SeveritySum(LinksOf(d))'
       /\ decisions'[d].state \notin Resolved =>
             decisions'[d].state = ComputeState(decisions'[d])
  BY <1>3, <1>6, <1>7, <1>8, <1>9, <1>10
<1> QED
  BY <1>11 DEF Exact, ComputeState

\* Nothing else moves the totals or the links of a committed decision.
LEMMA ExactKept ==
    ASSUME ExactInv, NEW d \in Task, Committed(d), d \notin overlapped,
           UNCHANGED links,
           \/ decisions'[d] = decisions[d]
           \/ /\ decisions'[d].count = decisions[d].count
              /\ decisions'[d].severity = decisions[d].severity
              /\ decisions'[d].state \in Resolved
    PROVE  Exact(d)'
<1>1. Exact(d) /\ LinksOf(d)' = LinksOf(d)
  BY DEF ExactInv, LinksOf
<1>2. SeveritySum(LinksOf(d))' = SeveritySum(LinksOf(d))
  <2>1. SeveritySum(LinksOf(d))' = SeveritySum(LinksOf(d)')
    BY DEF SeveritySum, MapThenSumSet, MapThenFoldSet
  <2> QED
    BY <1>1, <2>1
<1> QED
  BY <1>1, <1>2 DEF Exact, ComputeState

LEMMA ExactStepTask ==
    ASSUME LedgerBase, AnnounceInv, ExactInv, NEW t \in Task, AggStep(t)
    PROVE  ExactInv'
<1>t. TypeInv
  BY DEF LedgerBase
<1>1. /\ \A u \in Task \ {t} : agg'[u] = agg[u]
      /\ UNCHANGED req /\ (Commit(t) \/ UNCHANGED tables)
  BY <1>t, TaskFrame
<1>2. \A u \in Task : TaskTotals(u)'
  BY <1>1, TaskTotalsStep DEF ExactInv, TaskTotals, ComputeState
<1>3. \A u \in Task : TaskAlone(u)'
  BY AloneStepTask
<1>4. \A q \in Request : ReqTotals(q)'
  BY <1>1 DEF ExactInv, ReqTotals, Resolving
<1>5. overlapped \subseteq overlapped'
  BY DEF AggStep, AggProgress, ReadOpenKey, GetDecision, DropOpenKey,
     CreateDecision, LinkEvidence, FlushStateChange, PublishStateChange,
     NotifyWarning, Commit, RejectDuplicateLink, Fail, RollBack
<1>6. ASSUME NEW x \in Task, Committed(x)', x \notin overlapped'
      PROVE  Exact(x)'
  <2>1. CASE UNCHANGED tables
    BY <1>5, <1>6, <2>1, ExactKept DEF tables, Committed
  <2>2. CASE Commit(t)
    <3>1. PICK d \in Task : d = agg[t].dec /\ Commits(t, d)
      BY <1>t, <2>2, CommitFacts
    <3>2. CASE x = d
      BY <1>5, <1>6, <2>2, <3>1, <3>2, CommitExact
    <3>3. CASE x # d
      <4>1. /\ decisions'[x] = decisions[x] /\ Committed(x)
            /\ links' = links \cup agg[t].insert
            /\ Working(t) /\ agg[t].pc \in LinkedPc
        BY <1>6, <3>1, <3>3 DEF Commits, LinkedPc
      <4>2. agg[t].insert \subseteq { << d, EvidenceOf[t] >> }
        BY <3>1, <4>1 DEF LedgerBase, CountInv, TaskCount, LinkOf
      <4>3. LinksOf(x)' = LinksOf(x)
        BY <3>3, <4>1, <4>2 DEF LinksOf
      <4>4. Exact(x)
        BY <1>5, <1>6, <4>1 DEF ExactInv
      <4>5. SeveritySum(LinksOf(x))' = SeveritySum(LinksOf(x))
        <5>1. SeveritySum(LinksOf(x))' = SeveritySum(LinksOf(x)')
          BY DEF SeveritySum, MapThenSumSet, MapThenFoldSet
        <5> QED
          BY <4>3, <5>1
      <4> QED
        BY <4>1, <4>3, <4>4, <4>5 DEF Exact, ComputeState
    <3> QED
      BY <3>2, <3>3
  <2> QED
    BY <1>1, <2>1, <2>2
<1> QED
  BY <1>2, <1>3, <1>4, <1>6 DEF ExactInv

LEMMA ReqTotalsStep ==
    ASSUME TypeInv, ExactInv, NEW q \in Request, ReqStep(q)
    PROVE  ReqTotals(q)'
<1>t. ReqTotals(q) /\ req \in [Request -> ReqTxn] /\ req[q] \in ReqTxn
  BY DEF ExactInv, TypeInv, TypeOK, ReqTypeOK
<1>1. CASE ~Resolving(q)'
  BY <1>1 DEF ReqTotals
<1>2. CASE \E reply \in Reply : Answer(q, reply)
  BY <1>t, <1>1, <1>2 DEF Answer, Resolving, ReqTxn
<1>3. CASE FetchDecision(q)
  BY <1>t, <1>1, <1>3 DEF FetchDecision, Resolving, ReqTxn
<1>4. CASE FlushResolve(q) \/ PublishResolved(q)
  BY <1>t, <1>4 DEF FlushResolve, PublishResolved, Resolving, ReqTotals, ReqTxn
<1>5. CASE LoadForResolve(q) /\ ~ \E reply \in Reply : Answer(q, reply)
  <2> DEFINE row == decisions[req[q].dec]
  <2>1. row \in DecisionRow
    BY <1>5, <1>t DEF LoadForResolve, TypeInv, TypeOK, StoreTypeOK, ReqTxn,
       ReqShape, Committed
  <2>2. PICK s : req' = [req EXCEPT ![q].pc = "flush", ![q].loaded = row,
                           ![q].current = [row EXCEPT !.state = s,
                                                      !.resolvedBy = q]]
    BY <1>5 DEF LoadForResolve, Reply
  <2> HIDE DEF row
  <2>3. [row EXCEPT !.state = s, !.resolvedBy = q].severity = row.severity
    BY <2>1 DEF DecisionRow
  <2> QED
    BY <1>t, <2>2, <2>3 DEF ReqTotals, ReqTxn
<1> QED
  BY <1>2, <1>3, <1>4, <1>5 DEF ReqStep, ResolveProgress, RejectSecondFeedback,
     CommitResolve, FailResolve, Reply

LEMMA ExactStepReq ==
    ASSUME LedgerBase, ExactInv, NEW q \in Request, ReqStep(q)
    PROVE  ExactInv'
<1>t. TypeInv
  BY DEF LedgerBase
<1>1. /\ \A p \in Request \ {q} : req'[p] = req[p]
      /\ UNCHANGED << agg, overlapped, links >>
      /\ CommitResolve(q) \/ UNCHANGED tables
  BY <1>t, RequestFrame
<1>2. \A p \in Request : ReqTotals(p)'
  BY <1>t, <1>1, ReqTotalsStep DEF ExactInv, ReqTotals, Resolving
<1>3. \A u \in Task : TaskTotals(u)'
  BY <1>1 DEF ExactInv, TaskTotals, ComputeState
<1>4. /\ \A x \in Task : Committed(x)' => Committed(x)
      /\ \A x \in Task : Committed(x) =>
           \/ decisions'[x] = decisions[x]
           \/ /\ decisions'[x].count = decisions[x].count
              /\ decisions'[x].severity = decisions[x].severity
              /\ decisions'[x].state \in Resolved
  <2>1. CASE UNCHANGED tables
    BY <2>1 DEF tables, Committed
  <2>2. CASE CommitResolve(q)
    <3>1. PICK d \in Task : d = req[q].dec /\ CommitsResolve(q, d)
      BY <1>t, <2>2, CommitResolveFacts
    <3>2. /\ Resolving(q) /\ Committed(d) /\ req[q].current.state \in Resolved
          /\ decisions'[d] = Updated(decisions[d], req[q].loaded,
                                     req[q].current, q)
          /\ \A x \in Task \ {d} : /\ decisions'[x] = decisions[x]
                                   /\ Committed(x)' = Committed(x)
      BY <3>1 DEF CommitsResolve
    <3>3. /\ req[q].current.severity = req[q].loaded.severity
          /\ req[q].current.count = req[q].loaded.count
          /\ req[q].loaded.state \notin Resolved
      BY <3>2 DEF ExactInv, ReqTotals, LedgerBase, CountInv, ReqCount, AuditInv,
         ReqAudit
    <3>4. /\ decisions'[d].count = decisions[d].count
          /\ decisions'[d].severity = decisions[d].severity
          /\ decisions'[d].state \in Resolved
      BY <3>2, <3>3 DEF Updated, Column
    <3> QED
      BY <3>2, <3>4
  <2> QED
    BY <1>1, <2>1, <2>2
<1>5. \A x \in Task : Committed(x)' /\ x \notin overlapped' => Exact(x)'
  BY <1>1, <1>4, ExactKept
<1>6. ASSUME NEW u \in Task PROVE TaskAlone(u)'
  <2>1. CASE ~Working(u)
    BY <1>1, <2>1 DEF TaskAlone, Working
  <2>2. CASE Working(u)
    <3>1. agg[u].dec \in Task /\ (agg[u].dec # u => Committed(agg[u].dec))
      BY <1>t, <2>2, HoldsWhatItWorksOn DEF TypeInv, AggShape
    <3>2. \A x \in Task : Working(x)' = Working(x)
      BY <1>1 DEF Working
    <3>3. agg[u].dec # u =>
             \/ decisions'[agg[u].dec] = decisions[agg[u].dec]
             \/ /\ decisions'[agg[u].dec].count = decisions[agg[u].dec].count
                /\ decisions'[agg[u].dec].severity
                     = decisions[agg[u].dec].severity
                /\ decisions'[agg[u].dec].state \in Resolved
      BY <1>4, <3>1
    <3>4. agg' = agg /\ overlapped' = overlapped
      BY <1>1
    <3> QED
      BY <2>2, <3>2, <3>3, <3>4, AloneKept
  <2> QED
    BY <2>1, <2>2
<1> QED
  BY <1>2, <1>3, <1>5, <1>6 DEF ExactInv

LEMMA ExactStep == LedgerBase /\ AnnounceInv /\ ExactInv /\ [Next]_vars => ExactInv'
<1> SUFFICES ASSUME LedgerBase, AnnounceInv, ExactInv, [Next]_vars
             PROVE  ExactInv'
  OBVIOUS
<1>1. ASSUME NEW t \in Task, AggStep(t) PROVE ExactInv'
  BY <1>1, ExactStepTask
<1>2. ASSUME NEW q \in Request, ReqStep(q) PROVE ExactInv'
  BY <1>2, ExactStepReq
<1>3. CASE UNCHANGED << decisions, links, agg, req, overlapped >>
  <2>1. \A x \in Task : Committed(x)' /\ x \notin overlapped' => Exact(x)'
    BY <1>3, ExactKept DEF Committed
  <2>2. \A u \in Task : TaskTotals(u)' /\ TaskAlone(u)'
    BY <1>3 DEF ExactInv, TaskTotals, TaskAlone, Fresh, Working, ComputeState
  <2>3. \A q \in Request : ReqTotals(q)'
    BY <1>3 DEF ExactInv, ReqTotals, Resolving
  <2> QED
    BY <2>1, <2>2, <2>3 DEF ExactInv
<1> QED
  BY <1>1, <1>2, <1>3 DEF Next, Quiescent, ExpireOpenKey, vars, storeVars, Begin

\* Lost updates have one cause.  A decision that no two tasks had loaded at the
\* same time has exactly the count and the severity of its links, and unless it
\* is resolved the state they give, however watchers and failing or repeated
\* tasks interleave with them.
THEOREM TotalsAreExact == Spec => []ExactUnlessOverlapped
<1>1. ExactInv => ExactUnlessOverlapped
  BY DEF ExactInv, Exact, ExactUnlessOverlapped, SeveritySum
<1>2. Spec => []ExactInv
  BY ExactInit, ExactStep, AnnounceInvariant, PTL DEF Spec
<1> QED
  BY <1>1, <1>2, PTL

-----------------------------------------------------------------------------
\* What the rules give is not lost on its way into the totals.

Matching(e) == { rule \in Rules[e] : MatchesCondition(rule.condition, Result[e]) }
Weights(e) == [ rule \in Rules[e] |-> rule.severity_weight ]

\* The rules that match an answer weigh what the sum over them gives.
LEMMA WeightIsSum ==
    ASSUME NEW e \in Evidence
    PROVE  /\ IsFiniteSet(Rules[e]) /\ Matching(e) \in SUBSET Rules[e]
           /\ Weights(e) \in [Rules[e] -> Int]
           /\ WeightOf(Result[e], Rules[e]) = SumOver(Weights(e), Matching(e))
<1> DEFINE w == Weights(e)
           M == Matching(e)
           Step(f, s) == IF s = {} THEN 0
                         ELSE Pick(s).severity_weight + f[s \ {Pick(s)}]
           Is(f) == f = [ s \in SUBSET M |-> Step(f, s) ]
           h == CHOOSE f : Is(f)
<1>1. IsFiniteSet(Rules[e]) /\ M \in SUBSET Rules[e] /\ w \in [Rules[e] -> Int]
  BY WeighedAssumption DEF Matching, Weights
<1>2. \A f : \A s \in SUBSET M : Step(f, s) = Unfolded(w, f, s)
  <2> TAKE f
  <2> TAKE s \in SUBSET M
  <2>1. CASE s = {}
    BY <2>1 DEF Unfolded
  <2>2. CASE s # {}
    <3>1. Pick(s) \in Rules[e]
      BY <1>1, <2>2, PickIn
    <3>2. w[Pick(s)] = Pick(s).severity_weight
      BY <3>1 DEF Weights
    <3> QED
      BY <2>2, <3>2 DEF Unfolded
  <2> QED
    BY <2>1, <2>2
<1>3. \A f : Is(f) <=> Sums(w, f, M)
  <2> TAKE f
  <2>1. [ s \in SUBSET M |-> Step(f, s) ] = [ s \in SUBSET M |-> Unfolded(w, f, s) ]
    <3> HIDE DEF M, Step, w
    <3> QED
      BY <1>2
  <2> QED
    BY <2>1 DEF Sums
<1>4. IsFiniteSet(M) /\ w \in [Rules[e] -> Int]
  BY <1>1, FS_Subset
<1>5. PICK f : Summing(w, f, Rules[e])
  BY <1>1, SumUnfolds
<1> DEFINE g == [ s \in SUBSET M |-> f[s] ]
<1>6. Sums(w, g, M)
  <2>1. \A s \in SUBSET M : f[s] = Unfolded(w, f, s)
    BY <1>1, <1>5 DEF Summing
  <2>2. \A s \in SUBSET M : Unfolded(w, g, s) = Unfolded(w, f, s)
    BY DEF Unfolded
  <2> HIDE DEF M, w
  <2> QED
    BY <2>1, <2>2 DEF Sums
<1>7. Is(h)
  <2>1. Is(g)
    BY <1>3, <1>6
  <2> HIDE DEF Is
  <2> QED
    BY <2>1
<1>8. Sums(w, h, M)
  <2> HIDE DEF h, Is
  <2> QED
    BY <1>3, <1>7
<1>9. h[M] = g[M]
  <2> HIDE DEF h, g, M, w
  <2> QED
    BY <1>4, <1>6, <1>8, SumsAgree
<1>10. g[M] = f[M] /\ f[M] = SumOver(w, M)
  BY <1>1, <1>5 DEF Summing
<1>11. WeightOf(Result[e], Rules[e]) = h[M]
  BY DEF WeightOf, MapThenSumSet, MapThenFoldSet, Pick, Matching
<1> QED
  BY <1>1, <1>9, <1>10, <1>11

\* A score is never negative, and a suspicious scene scores at least 1, whatever
\* rules match it (compute_severity_score), if none subtracts and hints weigh.
THEOREM ScoreWeighs ==
    ASSUME NoNegativeWeight, HintsWeigh, NEW e \in Evidence
    PROVE  Severity[e] >= 0 /\ (Suspicious(e) => Severity[e] >= 1)
<1> DEFINE score == WeightOf(Result[e], Rules[e])
           hint == HintOf(Result[e])
<1>1. score \in Int /\ score >= 0
  <2>1. /\ IsFiniteSet(Rules[e]) /\ Matching(e) \in SUBSET Rules[e]
        /\ Weights(e) \in [Rules[e] -> Int]
        /\ score = SumOver(Weights(e), Matching(e))
    BY WeightIsSum
  <2>2. \A rule \in Rules[e] : Weights(e)[rule] >= 0
    BY DEF NoNegativeWeight, Weights
  <2>3. SumOver(Weights(e), Matching(e)) \in Int
    BY <2>1, SumType
  <2>4. SumOver(Weights(e), Matching(e)) >= Cardinality(Matching(e) \cap {})
    <3>1. \A rule \in Rules[e] : Weights(e)[rule] >= 0
                                 /\ (rule \in {} => Weights(e)[rule] >= 1)
      BY <2>2
    <3> QED
      BY <2>1, <3>1, SumAtLeast
  <2>5. Cardinality(Matching(e) \cap {}) = 0
    <3>1. Matching(e) \cap {} = {}
      OBVIOUS
    <3> QED
      BY <3>1, FS_EmptySet
  <2> QED
    BY <2>1, <2>3, <2>4, <2>5
<1>2. Severity[e] = IF score = 0 /\ Suspicious(e) THEN Hinted(hint) ELSE score
  BY WeighedAssumption DEF ComputeSeverityScore, Suspicious
<1>3. score = 0 /\ Suspicious(e) => Hinted(hint) \in Int /\ Hinted(hint) >= 1
  <2> SUFFICES ASSUME score = 0, Suspicious(e)
               PROVE  Hinted(hint) \in Int /\ Hinted(hint) >= 1
    OBVIOUS
  <2>1. hint \in Number
    <3>1. /\ Result[e].severity_hint \in Number \cup {Absent}
          /\ Result[e].confidence_score \in Number \cup {Absent}
      BY WeighedAssumption DEF ScoredFields
    <3>2. Whole(1) \in Number
      BY DEF Whole, Number
    <3> QED
      BY <3>1, <3>2 DEF HintOf, Truthy
  <2>2. hint.float \/ hint.tenths >= 10
    BY DEF HintsWeigh, Whole
  <2> HIDE DEF hint
  <2> QED
    BY <2>1, <2>2 DEF Hinted, Number
<1> HIDE DEF score, hint
<1> QED
  BY <1>1, <1>2, <1>3

\* An alarm keeps its weight.  With rules that never subtract and hints that are
\* floats or at least 1, a decision that no two tasks had loaded at the same
\* time is at least as severe as it has suspicious scenes: what
\* compute_severity_score made of them is neither rounded away nor lost when
\* workers, watchers, failures and repeated deliveries interleave.
THEOREM AlarmsKeepTheirWeight ==
    NoNegativeWeight /\ HintsWeigh => (Spec => []SuspicionWeighs)
<1> SUFFICES ASSUME NoNegativeWeight, HintsWeigh PROVE Spec => []SuspicionWeighs
  OBVIOUS
<1>1. ExactInv => SuspicionWeighs
  <2> SUFFICES ASSUME ExactInv, NEW d \in Task, Committed(d), d \notin overlapped
               PROVE  decisions[d].severity
                        >= Cardinality({ e \in LinksOf(d) : Suspicious(e) })
    BY DEF SuspicionWeighs
  <2> DEFINE P == { e \in Evidence : Suspicious(e) }
  <2>1. decisions[d].severity = SumOver(Severity, LinksOf(d))
    BY SeverityOver DEF ExactInv, Exact
  <2>2. LinksOf(d) \in SUBSET Evidence
    BY DEF LinksOf
  <2>3. { e \in LinksOf(d) : Suspicious(e) } = LinksOf(d) \cap P
    BY <2>2
  <2>4. \A x \in Evidence : Severity[x] >= 0 /\ (x \in P => Severity[x] >= 1)
    BY ScoreWeighs
  <2>5. SumOver(Severity, LinksOf(d)) >= Cardinality(LinksOf(d) \cap P)
    <3> HIDE DEF P
    <3> QED
      BY <2>2, <2>4, SeverityOver, SumAtLeast
  <2> QED
    BY <2>1, <2>3, <2>5
<1>2. Spec => []ExactInv
  BY ExactInit, ExactStep, AnnounceInvariant, PTL DEF Spec
<1> QED
  BY <1>1, <1>2, PTL

=============================================================================
