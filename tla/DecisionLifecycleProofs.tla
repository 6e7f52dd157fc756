----------------------- MODULE DecisionLifecycleProofs -----------------------
(***************************************************************************)
(* Invariance proofs about DecisionLifecycle, for every workload, every    *)
(* number of workers and watchers and every choice of thresholds.          *)
(***************************************************************************)
EXTENDS DecisionLifecycle, TLAPS, FiniteSetTheorems

\* A task that works on a row it has loaded or inserted.
Working(t) == agg[t].pc \in {"link", "flush", "publish", "notify", "commit"}

\* A request whose checks have passed.
Resolving(q) == req[q].pc \in {"flush", "publish", "commit"}

\* A task's program counter says which fields of its transaction are set, and
\* the decision it loaded exists.
AggShape ==
    \A t \in Task :
        /\ At(t, "get") => agg[t].dec # None
        /\ Working(t) => /\ agg[t].dec # None
                         /\ agg[t].loaded # None
                         /\ agg[t].current # None
                         /\ agg[t].dec # t => Committed(agg[t].dec)

ReqShape ==
    \A q \in Request :
        /\ req[q].pc = "viewed" \/ Resolving(q) =>
               req[q].dec # None /\ Committed(req[q].dec)
        /\ Resolving(q) => /\ req[q].loaded # None
                           /\ req[q].current # None
                           /\ req[q].current.state \in Resolved

TypeInv == TypeOK /\ AggShape /\ ReqShape

-----------------------------------------------------------------------------
\* The operators return rows.

LEMMA UpdatedType ==
    ASSUME NEW row \in DecisionRow, NEW loaded \in DecisionRow,
           NEW current \in DecisionRow, NEW x \in Txn
    PROVE  Updated(row, loaded, current, x) \in DecisionRow
BY DEF Updated, Column, DecisionRow

LEMMA NewDecisionType ==
    ASSUME NEW t \in Task
    PROVE  NewDecision(t) \in DecisionRow
BY StoreAssumption DEF NewDecision, DecisionRow, DecisionState, Txn

LEMMA WithEvidenceType ==
    ASSUME NEW row \in DecisionRow, NEW e \in Evidence
    PROVE  WithEvidence(row, e) \in DecisionRow
<1>1. \A n \in Nat, v, at \in Int :
        [row EXCEPT !.count = n, !.severity = v, !.lastAt = at] \in DecisionRow
  BY DEF DecisionRow
<1>2. /\ row.count + 1 \in Nat
      /\ row.severity + Severity[e] \in Int
      /\ CapturedAt[e] \in Int
  BY StoreAssumption DEF DecisionRow
<1> QED
  BY <1>1, <1>2 DEF WithEvidence

LEMMA ComputeStateType ==
    ASSUME NEW row
    PROVE  ComputeState(row) \in {"normal", "weird", "warning"}
BY DEF ComputeState

LEMMA TypeInit == Init => TypeInv
<1>1. Init => BeganTypeOK
  BY DEF Init, BeganTypeOK
<1>2. Init => StoreTypeOK /\ AggTypeOK /\ ReqTypeOK /\ AggShape /\ ReqShape
  BY DEF Init, StoreInit, AggInit, ReqInit, StoreTypeOK, AggTypeOK, ReqTypeOK,
     AggShape, ReqShape, At, Working, Resolving, AggTxn, AggPc, ReqTxn, ReqPc,
     Committed
<1> QED
  BY <1>1, <1>2 DEF TypeInv, TypeOK

\* The updates of a transaction record keep its type.

LEMMA GotoType ==
    ASSUME agg \in [Task -> AggTxn], NEW t \in Task, NEW p \in AggPc
    PROVE  [agg EXCEPT ![t].pc = p] \in [Task -> AggTxn]
BY DEF AggTxn

\* Several fields of one record change at a time: it is enough that the new
\* record is one of the type.
LEMMA ReplaceType ==
    ASSUME agg \in [Task -> AggTxn], NEW t \in Task, NEW x \in AggTxn
    PROVE  [agg EXCEPT ![t] = x] \in [Task -> AggTxn]
OBVIOUS

LEMMA RedirectType ==
    ASSUME agg \in [Task -> AggTxn], NEW t \in Task, NEW p \in AggPc,
           NEW d \in Task \cup {None}
    PROVE  [agg EXCEPT ![t].pc = p, ![t].dec = d] \in [Task -> AggTxn]
<1> DEFINE x == [agg[t] EXCEPT !.pc = p, !.dec = d]
<1>1. x \in AggTxn
  BY DEF AggTxn
<1>2. [agg EXCEPT ![t].pc = p, ![t].dec = d] = [agg EXCEPT ![t] = x]
  OBVIOUS
<1> QED
  <2> HIDE DEF x
  <2> QED
    BY <1>1, <1>2, ReplaceType

LEMMA LoadType ==
    ASSUME agg \in [Task -> AggTxn], NEW t \in Task, NEW p \in AggPc,
           NEW row \in DecisionRow
    PROVE  [agg EXCEPT ![t].pc = p, ![t].loaded = row, ![t].current = row]
             \in [Task -> AggTxn]
<1> DEFINE x == [agg[t] EXCEPT !.pc = p, !.loaded = row, !.current = row]
<1>1. x \in AggTxn
  BY DEF AggTxn
<1>2. [agg EXCEPT ![t].pc = p, ![t].loaded = row, ![t].current = row]
        = [agg EXCEPT ![t] = x]
  OBVIOUS
<1> QED
  <2> HIDE DEF x
  <2> QED
    BY <1>1, <1>2, ReplaceType

LEMMA CreateType ==
    ASSUME agg \in [Task -> AggTxn], NEW t \in Task, NEW p \in AggPc,
           NEW row \in DecisionRow
    PROVE  [agg EXCEPT ![t].pc = p, ![t].dec = t, ![t].loaded = row,
                       ![t].current = row] \in [Task -> AggTxn]
<1> DEFINE x == [agg[t] EXCEPT !.pc = p, !.dec = t, !.loaded = row,
                               !.current = row]
<1>1. x \in AggTxn
  BY DEF AggTxn
<1>2. [agg EXCEPT ![t].pc = p, ![t].dec = t, ![t].loaded = row,
                  ![t].current = row]
        = [agg EXCEPT ![t] = x]
  OBVIOUS
<1> QED
  <2> HIDE DEF x
  <2> QED
    BY <1>1, <1>2, ReplaceType

LEMMA LinkType ==
    ASSUME agg \in [Task -> AggTxn], NEW t \in Task, NEW p \in AggPc,
           NEW row \in DecisionRow, NEW new \in SUBSET (Task \X Evidence)
    PROVE  [agg EXCEPT ![t].current = row, ![t].insert = new, ![t].pc = p]
             \in [Task -> AggTxn]
<1> DEFINE x == [agg[t] EXCEPT !.current = row, !.insert = new, !.pc = p]
<1>1. x \in AggTxn
  BY DEF AggTxn
<1>2. [agg EXCEPT ![t].current = row, ![t].insert = new, ![t].pc = p]
        = [agg EXCEPT ![t] = x]
  OBVIOUS
<1> QED
  <2> HIDE DEF x
  <2> QED
    BY <1>1, <1>2, ReplaceType

-----------------------------------------------------------------------------
\* Every step of a task preserves the type invariant.

LEMMA ReadOpenKeyType ==
    ASSUME TypeInv, NEW t \in Task, ReadOpenKey(t), UNCHANGED << req, began >>
    PROVE  TypeInv'
<1> DEFINE id == openKey[RegionOf[EvidenceOf[t]]]
           p == IF id = None THEN "create" ELSE "get"
<1>1. UNCHANGED << storeVars, overlapped >>
  BY DEF ReadOpenKey
<1>2. id \in Task \cup {None}
  BY StoreAssumption DEF TypeInv, TypeOK, StoreTypeOK
<1>3. agg' = [agg EXCEPT ![t].pc = p, ![t].dec = id]
  BY DEF ReadOpenKey
<1>4. p \in AggPc
  BY DEF AggPc
<1>5. agg' \in [Task -> AggTxn]
  BY <1>2, <1>3, <1>4, RedirectType DEF TypeInv, TypeOK, AggTypeOK
<1>6. AggShape'
  BY <1>1, <1>3 DEF TypeInv, TypeOK, AggTypeOK, AggTxn, AggShape, storeVars,
     Committed, At, Working
<1> QED
  BY <1>1, <1>5, <1>6 DEF TypeInv, TypeOK, StoreTypeOK, AggTypeOK, ReqTypeOK,
     ReqShape, Resolving, storeVars, Committed, BeganTypeOK

LEMMA GetDecisionType ==
    ASSUME TypeInv, NEW t \in Task, GetDecision(t), UNCHANGED << req, began >>
    PROVE  TypeInv'
<1> DEFINE row == decisions[agg[t].dec]
<1>1. UNCHANGED storeVars /\ At(t, "get")
  BY DEF GetDecision
<1>2. agg[t].dec \in Task /\ row \in DecisionRow \cup {None}
  BY <1>1 DEF TypeInv, TypeOK, AggTypeOK, StoreTypeOK, AggShape, AggTxn
<1>3. overlapped' \subseteq Task
  BY <1>2 DEF GetDecision, TypeInv, TypeOK, AggTypeOK
<1>4. agg' \in [Task -> AggTxn] /\ AggShape'
  <2>1. CASE row # None /\ InWindow(t, row)
    <3>1. agg' = [agg EXCEPT ![t].pc = "link", ![t].loaded = row,
                             ![t].current = row]
      BY <2>1 DEF GetDecision
    <3>2. agg' \in [Task -> AggTxn]
      BY <1>2, <2>1, <3>1, LoadType DEF AggPc, TypeInv, TypeOK, AggTypeOK
    <3> QED
      BY <1>1, <1>2, <2>1, <3>1, <3>2 DEF TypeInv, TypeOK, AggTypeOK, AggTxn,
         AggShape, storeVars, Committed, At, Working
  <2>2. CASE row # None /\ ~InWindow(t, row)
    <3>1. agg' = [agg EXCEPT ![t].pc = "drop_key", ![t].dec = None]
      BY <2>2 DEF GetDecision
    <3>2. agg' \in [Task -> AggTxn]
      BY <3>1, RedirectType DEF AggPc, TypeInv, TypeOK, AggTypeOK
    <3> QED
      BY <1>1, <3>1, <3>2 DEF TypeInv, TypeOK, AggTypeOK, AggTxn,
         AggShape, storeVars, Committed, At, Working
  <2>3. CASE row = None
    <3>1. agg' = [agg EXCEPT ![t].pc = "create", ![t].dec = None]
      BY <2>3 DEF GetDecision
    <3>2. agg' \in [Task -> AggTxn]
      BY <3>1, RedirectType DEF AggPc, TypeInv, TypeOK, AggTypeOK
    <3> QED
      BY <1>1, <3>1, <3>2 DEF TypeInv, TypeOK, AggTypeOK, AggTxn,
         AggShape, storeVars, Committed, At, Working
  <2> QED
    BY <2>1, <2>2, <2>3
<1> QED
  BY <1>1, <1>3, <1>4 DEF TypeInv, TypeOK, StoreTypeOK, AggTypeOK, ReqTypeOK,
     ReqShape, Resolving, storeVars, Committed, BeganTypeOK

LEMMA DropOpenKeyType ==
    ASSUME TypeInv, NEW t \in Task, DropOpenKey(t), UNCHANGED << req, began >>
    PROVE  TypeInv'
<1>1. agg' = [agg EXCEPT ![t].pc = "create"]
  BY DEF DropOpenKey, Goto
<1>2. agg' \in [Task -> AggTxn]
  BY <1>1, GotoType DEF AggPc, TypeInv, TypeOK, AggTypeOK
<1>3. StoreTypeOK' /\ UNCHANGED << decisions, overlapped >>
  BY StoreAssumption DEF DropOpenKey, TypeInv, TypeOK, StoreTypeOK
<1>4. AggShape'
  BY <1>1, <1>3 DEF TypeInv, TypeOK, AggTypeOK, AggTxn, AggShape, Committed,
     At, Working
<1> QED
  BY <1>2, <1>3, <1>4 DEF TypeInv, TypeOK, AggTypeOK, ReqTypeOK, ReqShape,
     Resolving, Committed, BeganTypeOK

LEMMA CreateDecisionType ==
    ASSUME TypeInv, NEW t \in Task, CreateDecision(t), UNCHANGED << req, began >>
    PROVE  TypeInv'
<1>1. agg' = [agg EXCEPT ![t].pc = "link", ![t].dec = t,
                         ![t].loaded = NewDecision(t),
                         ![t].current = NewDecision(t)]
  BY DEF CreateDecision
<1>2. agg' \in [Task -> AggTxn]
  BY <1>1, CreateType, NewDecisionType DEF AggPc, TypeInv, TypeOK, AggTypeOK
<1>3. StoreTypeOK' /\ UNCHANGED << decisions, overlapped >>
  BY StoreAssumption
     DEF CreateDecision, TypeInv, TypeOK, StoreTypeOK, Locked, Txn
<1>4. t # None /\ NewDecision(t) # None
  BY NewDecisionType, NoneIsNoRow, StoreAssumption DEF Txn
<1>5. AggShape'
  BY <1>1, <1>3, <1>4 DEF TypeInv, TypeOK, AggTypeOK, AggTxn, AggShape,
     Committed, At, Working
<1> QED
  BY <1>2, <1>3, <1>5 DEF TypeInv, TypeOK, AggTypeOK, ReqTypeOK, ReqShape,
     Resolving, Committed, BeganTypeOK

LEMMA LinkEvidenceType ==
    ASSUME TypeInv, NEW t \in Task, LinkEvidence(t), UNCHANGED << req, began >>
    PROVE  TypeInv'
<1> DEFINE new == {LinkOf(t)} \ links
           row == IF new = {} THEN agg[t].loaded
                              ELSE WithEvidence(agg[t].loaded, EvidenceOf[t])
           state == ComputeState(row)
           next == [row EXCEPT !.state = state]
           p == IF state # agg[t].loaded.state THEN "flush" ELSE "commit"
<1>1. UNCHANGED << storeVars, overlapped >> /\ Working(t)
  BY DEF LinkEvidence, At, Working
<1>2. agg[t].dec \in Task /\ agg[t].loaded \in DecisionRow
  BY <1>1 DEF TypeInv, TypeOK, AggTypeOK, AggShape, AggTxn
<1>3. row \in DecisionRow
  BY <1>2, WithEvidenceType, StoreAssumption
<1>4. state \in DecisionState
  BY ComputeStateType DEF DecisionState
<1>5. next \in DecisionRow
  BY <1>3, <1>4 DEF DecisionRow
<1>6. new \in SUBSET (Task \X Evidence)
  BY <1>2, StoreAssumption DEF LinkOf
<1>7. p \in AggPc
  BY DEF AggPc
<1>8. agg' = [agg EXCEPT ![t].current = next, ![t].insert = new, ![t].pc = p]
  BY DEF LinkEvidence
<1>9. agg' \in [Task -> AggTxn]
  <2> HIDE DEF next, new, p
  <2> QED
    BY <1>5, <1>6, <1>7, <1>8, LinkType DEF TypeInv, TypeOK, AggTypeOK
<1>10. AggShape'
  <2>1. next # None
    BY <1>5, NoneIsNoRow
  <2>2. p \in {"flush", "commit"}
    OBVIOUS
  <2> HIDE DEF next, new, p
  <2> QED
    BY <1>1, <1>8, <2>1, <2>2 DEF TypeInv, TypeOK, AggTypeOK, AggTxn, AggShape,
       storeVars, Committed, At, Working
<1> QED
  BY <1>1, <1>9, <1>10 DEF TypeInv, TypeOK, StoreTypeOK, AggTypeOK, ReqTypeOK,
     ReqShape, Resolving, storeVars, Committed, BeganTypeOK

LEMMA FlushStateChangeType ==
    ASSUME TypeInv, NEW t \in Task, FlushStateChange(t), UNCHANGED << req, began >>
    PROVE  TypeInv'
<1>1. agg' = [agg EXCEPT ![t].pc = "publish"] /\ Working(t)
  BY DEF FlushStateChange, Goto, At, Working
<1>2. agg' \in [Task -> AggTxn]
  BY <1>1, GotoType DEF AggPc, TypeInv, TypeOK, AggTypeOK
<1>3. agg[t].dec \in Task
  BY <1>1 DEF TypeInv, TypeOK, AggTypeOK, AggShape, AggTxn
<1>4. StoreTypeOK' /\ UNCHANGED << decisions, overlapped >>
  BY <1>3 DEF FlushStateChange, TypeInv, TypeOK, StoreTypeOK, Locked, Txn
<1>5. AggShape'
  BY <1>1, <1>4 DEF TypeInv, TypeOK, AggTypeOK, AggTxn, AggShape, Committed,
     At, Working
<1> QED
  BY <1>2, <1>4, <1>5 DEF TypeInv, TypeOK, AggTypeOK, ReqTypeOK, ReqShape,
     Resolving, Committed, BeganTypeOK

LEMMA PublishStateChangeType ==
    ASSUME TypeInv, NEW t \in Task, PublishStateChange(t), UNCHANGED << req, began >>
    PROVE  TypeInv'
<1> DEFINE p == IF NeedsNotification(t) THEN "notify" ELSE "commit"
<1>1. agg' = [agg EXCEPT ![t].pc = p] /\ Working(t)
  BY DEF PublishStateChange, Goto, At, Working
<1>2. p \in {"notify", "commit"} /\ p \in AggPc
  BY DEF AggPc
<1> HIDE DEF p
<1>3. agg' \in [Task -> AggTxn]
  BY <1>1, <1>2, GotoType DEF TypeInv, TypeOK, AggTypeOK
<1>4. agg[t].dec \in Task /\ agg[t].current \in DecisionRow
  BY <1>1 DEF TypeInv, TypeOK, AggTypeOK, AggShape, AggTxn
<1>5. [ decision |-> agg[t].dec, type |-> "decision.state_changed",
        state |-> agg[t].current.state, by |-> t ] \in Event
  BY <1>4 DEF Event, DecisionRow, Txn
<1>6. StoreTypeOK' /\ UNCHANGED << decisions, overlapped >>
  BY <1>5 DEF PublishStateChange, TypeInv, TypeOK, StoreTypeOK
<1>7. AggShape'
  BY <1>1, <1>2, <1>6 DEF TypeInv, TypeOK, AggTypeOK, AggTxn, AggShape,
     Committed, At, Working
<1> QED
  BY <1>3, <1>6, <1>7 DEF TypeInv, TypeOK, AggTypeOK, ReqTypeOK, ReqShape,
     Resolving, Committed, PublishStateChange, BeganTypeOK

LEMMA NotifyWarningType ==
    ASSUME TypeInv, NEW t \in Task, NotifyWarning(t), UNCHANGED << req, began >>
    PROVE  TypeInv'
<1>1. agg' = [agg EXCEPT ![t].pc = "commit"] /\ Working(t)
  BY DEF NotifyWarning, Goto, At, Working
<1>2. agg' \in [Task -> AggTxn]
  BY <1>1, GotoType DEF AggPc, TypeInv, TypeOK, AggTypeOK
<1>3. agg[t].dec \in Task
  BY <1>1 DEF TypeInv, TypeOK, AggTypeOK, AggShape, AggTxn
<1>4. StoreTypeOK' /\ UNCHANGED << decisions, overlapped >>
  BY <1>3 DEF NotifyWarning, TypeInv, TypeOK, StoreTypeOK
<1>5. AggShape'
  BY <1>1, <1>4 DEF TypeInv, TypeOK, AggTypeOK, AggTxn, AggShape, Committed,
     At, Working
<1> QED
  BY <1>2, <1>4, <1>5 DEF TypeInv, TypeOK, AggTypeOK, ReqTypeOK, ReqShape,
     Resolving, Committed, BeganTypeOK

LEMMA CommitType ==
    ASSUME TypeInv, NEW t \in Task, Commit(t), UNCHANGED << req, began >>
    PROVE  TypeInv'
<1> DEFINE d == agg[t].dec
           loaded == agg[t].loaded
           current == agg[t].current
           row == IF d = t THEN current
                           ELSE Updated(decisions[d], loaded, current, t)
<1>1. agg' = [agg EXCEPT ![t].pc = "done"] /\ Working(t)
  BY DEF Commit, Goto, At, Working
<1>2. agg' \in [Task -> AggTxn]
  BY <1>1, GotoType DEF AggPc, TypeInv, TypeOK, AggTypeOK
<1>3. /\ d \in Task /\ loaded \in DecisionRow /\ current \in DecisionRow
      /\ d # t => Committed(d)
  BY <1>1 DEF TypeInv, TypeOK, AggTypeOK, AggShape, AggTxn
<1>4. d # t => decisions[d] \in DecisionRow
  BY <1>3 DEF TypeInv, TypeOK, StoreTypeOK, Committed
<1>5. row \in DecisionRow
  BY <1>3, <1>4, UpdatedType DEF Txn
<1>6. decisions' = [decisions EXCEPT ![d] = row]
  BY DEF Commit
<1>7. agg[t].insert \subseteq Task \X Evidence
  BY DEF TypeInv, TypeOK, AggTypeOK, AggTxn
<1>8. audit' \in [Task -> Seq(AuditEntry)]
  <2>1. [ event |-> "state_change", to |-> current.state, by |-> t ] \in AuditEntry
    BY <1>3 DEF AuditEntry, DecisionRow, Txn
  <2>2. Append(audit[d], [ event |-> "state_change", to |-> current.state,
                           by |-> t ]) \in Seq(AuditEntry)
    BY <1>3, <2>1 DEF TypeInv, TypeOK, StoreTypeOK
  <2> QED
    BY <2>2 DEF Commit, TypeInv, TypeOK, StoreTypeOK
<1>9. StoreTypeOK' /\ UNCHANGED overlapped
  <2>1. decisions' \in [Task -> DecisionRow \cup {None}]
    <3> HIDE DEF row
    <3> QED
      BY <1>5, <1>6 DEF TypeInv, TypeOK, StoreTypeOK
  <2>2. lock' \in [Task -> Txn \cup {None}]
    BY DEF Commit, Released, TypeInv, TypeOK, StoreTypeOK
  <2> QED
    BY <1>7, <1>8, <2>1, <2>2 DEF Commit, TypeInv, TypeOK, StoreTypeOK
<1>10. \A x \in Task : Committed(x) => Committed(x)'
  <2> HIDE DEF row
  <2> QED
    BY <1>3, <1>5, <1>6, NoneIsNoRow DEF Committed, TypeInv, TypeOK, StoreTypeOK
<1>11. AggShape'
  BY <1>1, <1>10 DEF TypeInv, TypeOK, AggTypeOK, AggTxn, AggShape, At, Working
<1>12. ReqShape'
  BY <1>10 DEF TypeInv, TypeOK, ReqTypeOK, ReqTxn, ReqShape, Resolving
<1> QED
  BY <1>2, <1>9, <1>11, <1>12 DEF TypeInv, TypeOK, AggTypeOK, ReqTypeOK,
     BeganTypeOK

LEMMA RollBackType ==
    ASSUME TypeInv, NEW t \in Task, RollBack(t), UNCHANGED << req, began >>
    PROVE  TypeInv'
<1>1. agg' = [agg EXCEPT ![t].pc = "failed"]
  BY DEF RollBack, Goto
<1>2. agg' \in [Task -> AggTxn]
  BY <1>1, GotoType DEF AggPc, TypeInv, TypeOK, AggTypeOK
<1>3. StoreTypeOK' /\ UNCHANGED << decisions, overlapped >>
  BY DEF RollBack, Released, TypeInv, TypeOK, StoreTypeOK
<1>4. AggShape'
  BY <1>1, <1>3 DEF TypeInv, TypeOK, AggTypeOK, AggTxn, AggShape, Committed,
     At, Working
<1> QED
  BY <1>2, <1>3, <1>4 DEF TypeInv, TypeOK, AggTypeOK, ReqTypeOK, ReqShape,
     Resolving, Committed, BeganTypeOK

LEMMA AggStepType ==
    ASSUME TypeInv, NEW t \in Task, AggStep(t)
    PROVE  TypeInv'
BY ReadOpenKeyType, GetDecisionType, DropOpenKeyType, CreateDecisionType,
   LinkEvidenceType, FlushStateChangeType, PublishStateChangeType,
   NotifyWarningType, CommitType, RollBackType
   DEF AggStep, AggProgress, RejectDuplicateLink, Fail

-----------------------------------------------------------------------------
\* Every step of a watcher's request preserves the type invariant.

LEMMA ViewType ==
    ASSUME req \in [Request -> ReqTxn], NEW q \in Request, NEW d \in Task,
           NEW x \in Txn
    PROVE  [req EXCEPT ![q].pc = "viewed", ![q].dec = d, ![q].seen = x]
             \in [Request -> ReqTxn]
<1> DEFINE new == [req[q] EXCEPT !.pc = "viewed", !.dec = d, !.seen = x]
<1>1. new \in ReqTxn
  BY DEF ReqTxn, ReqPc
<1>2. [req EXCEPT ![q].pc = "viewed", ![q].dec = d, ![q].seen = x]
        = [req EXCEPT ![q] = new]
  OBVIOUS
<1> HIDE DEF new
<1> QED
  BY <1>1, <1>2

LEMMA AssignType ==
    ASSUME req \in [Request -> ReqTxn], NEW q \in Request,
           NEW row \in DecisionRow, NEW next \in DecisionRow
    PROVE  [req EXCEPT ![q].pc = "flush", ![q].loaded = row,
                       ![q].current = next] \in [Request -> ReqTxn]
<1> DEFINE new == [req[q] EXCEPT !.pc = "flush", !.loaded = row,
                                 !.current = next]
<1>1. new \in ReqTxn
  BY DEF ReqTxn, ReqPc
<1>2. [req EXCEPT ![q].pc = "flush", ![q].loaded = row, ![q].current = next]
        = [req EXCEPT ![q] = new]
  OBVIOUS
<1> HIDE DEF new
<1> QED
  BY <1>1, <1>2

LEMMA AnswerType ==
    ASSUME TypeInv, NEW q \in Request, NEW reply \in Reply, Answer(q, reply)
    PROVE  /\ req' \in [Request -> ReqTxn]
           /\ \A p \in Request :
                /\ req'[p].pc = "viewed" \/ Resolving(p)' =>
                     p # q /\ req'[p] = req[p]
                /\ p # q => req'[p] = req[p]
<1> DEFINE new == [req[q] EXCEPT !.pc = "answered", !.reply = reply]
<1>1. req \in [Request -> ReqTxn]
  BY DEF TypeInv, TypeOK, ReqTypeOK
<1>2. new \in ReqTxn /\ new.pc = "answered"
  BY <1>1 DEF ReqTxn, ReqPc
<1>3. req' = [req EXCEPT ![q] = new]
  BY DEF Answer
<1> HIDE DEF new
<1>4. req'[q] = new /\ \A p \in Request : p # q => req'[p] = req[p]
  BY <1>1, <1>3
<1> QED
  BY <1>1, <1>2, <1>3, <1>4 DEF Resolving

LEMMA FetchDecisionType ==
    ASSUME TypeInv, NEW q \in Request, FetchDecision(q),
           UNCHANGED << agg, overlapped, began >>
    PROVE  TypeInv'
<1>1. PICK d \in Task :
         /\ Committed(d)
         /\ req' = [req EXCEPT ![q].pc = "viewed", ![q].dec = d,
                               ![q].seen = decisions[d].updatedAt]
  BY DEF FetchDecision
<1>2. UNCHANGED storeVars
  BY DEF FetchDecision
<1>3. decisions[d].updatedAt \in Txn
  BY <1>1 DEF Committed, TypeInv, TypeOK, StoreTypeOK, DecisionRow
<1>4. req' \in [Request -> ReqTxn]
  BY <1>1, <1>3, ViewType DEF TypeInv, TypeOK, ReqTypeOK
<1>5. d # None
  BY StoreAssumption DEF Txn
<1>6. ReqShape'
  BY <1>1, <1>2, <1>5 DEF TypeInv, TypeOK, ReqTypeOK, ReqTxn, ReqShape,
     Resolving, Committed, storeVars
<1> QED
  BY <1>2, <1>4, <1>6 DEF TypeInv, TypeOK, StoreTypeOK, AggTypeOK, ReqTypeOK,
     AggShape, At, Working, storeVars, Committed, BeganTypeOK

LEMMA LoadForResolveType ==
    ASSUME TypeInv, NEW q \in Request, LoadForResolve(q),
           UNCHANGED << agg, overlapped, began >>
    PROVE  TypeInv'
<1> DEFINE row == decisions[req[q].dec]
<1>1. UNCHANGED storeVars
  BY DEF LoadForResolve
<1>2. req[q].dec \in Task /\ Committed(req[q].dec) /\ row \in DecisionRow
  BY DEF LoadForResolve, TypeInv, TypeOK, StoreTypeOK, ReqTypeOK, ReqTxn,
     ReqShape, Committed
<1>3. req' \in [Request -> ReqTxn] /\ ReqShape'
  <2>1. CASE \E reply \in Reply : Answer(q, reply)
    BY <1>1, <2>1, AnswerType
       DEF TypeInv, ReqShape, Resolving, storeVars, Committed
  <2>2. CASE \E disposition \in Dispositions[q] :
                req' = [req EXCEPT
                          ![q].pc = "flush",
                          ![q].loaded = row,
                          ![q].current =
                            [row EXCEPT
                               !.state = DispositionToState[disposition],
                               !.resolvedBy = q]]
    <3>1. PICK disposition \in Dispositions[q] :
                req' = [req EXCEPT
                          ![q].pc = "flush",
                          ![q].loaded = row,
                          ![q].current =
                            [row EXCEPT
                               !.state = DispositionToState[disposition],
                               !.resolvedBy = q]]
      BY <2>2
    <3> DEFINE next == [row EXCEPT !.state = DispositionToState[disposition],
                                   !.resolvedBy = q]
    <3>2. DispositionToState[disposition] \in Resolved
      BY StoreAssumption DEF DispositionToState, Resolved
    <3>3. next \in DecisionRow /\ next.state \in Resolved
      BY <1>2, <3>2 DEF DecisionRow, DecisionState
    <3>4. next # None /\ row # None
      BY <1>2, <3>3, NoneIsNoRow
    <3>5. req' = [req EXCEPT ![q].pc = "flush", ![q].loaded = row,
                             ![q].current = next]
      BY <3>1
    <3> HIDE DEF next, row
    <3>6. req' \in [Request -> ReqTxn]
      BY <1>2, <3>3, <3>5, AssignType DEF row, TypeInv, TypeOK, ReqTypeOK
    <3>7. req[q].dec # None
      BY <1>2, StoreAssumption DEF Txn
    <3> QED
      BY <1>1, <1>2, <3>3, <3>4, <3>5, <3>6, <3>7
         DEF TypeInv, TypeOK, ReqTypeOK, ReqTxn, ReqShape, Resolving, storeVars,
         Committed
  <2> QED
    BY <2>1, <2>2 DEF LoadForResolve, Reply
<1> QED
  BY <1>1, <1>3 DEF TypeInv, TypeOK, StoreTypeOK, AggTypeOK, ReqTypeOK,
     AggShape, At, Working, storeVars, Committed, BeganTypeOK

LEMMA FlushResolveType ==
    ASSUME TypeInv, NEW q \in Request, FlushResolve(q),
           UNCHANGED << agg, overlapped, began >>
    PROVE  TypeInv'
<1>1. req' = [req EXCEPT ![q].pc = "publish"] /\ Resolving(q)
  BY DEF FlushResolve, Resolving
<1>2. req[q].dec \in Task
  BY <1>1 DEF TypeInv, TypeOK, ReqTypeOK, ReqTxn, ReqShape
<1>3. StoreTypeOK' /\ UNCHANGED decisions
  BY <1>2 DEF FlushResolve, TypeInv, TypeOK, StoreTypeOK, Locked, Txn
<1>4. ReqTypeOK' /\ ReqShape'
  BY <1>1, <1>3 DEF TypeInv, TypeOK, ReqTypeOK, ReqTxn, ReqPc, ReqShape,
     Resolving, Committed
<1> QED
  BY <1>3, <1>4 DEF TypeInv, TypeOK, AggTypeOK, AggShape, At, Working, Committed,
     BeganTypeOK

LEMMA RejectSecondFeedbackType ==
    ASSUME TypeInv, NEW q \in Request, RejectSecondFeedback(q),
           UNCHANGED << agg, overlapped, began >>
    PROVE  TypeInv'
<1>1. UNCHANGED storeVars /\ Answer(q, "feedback_exists")
  BY DEF RejectSecondFeedback
<1>2. ReqTypeOK' /\ ReqShape'
  BY <1>1, AnswerType
     DEF Reply, TypeInv, ReqTypeOK, ReqShape, Resolving, storeVars, Committed
<1> QED
  BY <1>1, <1>2 DEF TypeInv, TypeOK, StoreTypeOK, AggTypeOK, AggShape, At,
     Working, storeVars, Committed, BeganTypeOK

LEMMA PublishResolvedType ==
    ASSUME TypeInv, NEW q \in Request, PublishResolved(q),
           UNCHANGED << agg, overlapped, began >>
    PROVE  TypeInv'
<1>1. req' = [req EXCEPT ![q].pc = "commit"] /\ Resolving(q)
  BY DEF PublishResolved, Resolving
<1>2. req[q].dec \in Task /\ req[q].current \in DecisionRow
  BY <1>1 DEF TypeInv, TypeOK, ReqTypeOK, ReqTxn, ReqShape
<1>3. [ decision |-> req[q].dec, type |-> "decision.resolved",
        state |-> req[q].current.state, by |-> q ] \in Event
  BY <1>2 DEF Event, DecisionRow, Txn
<1>4. StoreTypeOK' /\ UNCHANGED decisions
  BY <1>3 DEF PublishResolved, TypeInv, TypeOK, StoreTypeOK
<1>5. ReqTypeOK' /\ ReqShape'
  BY <1>1, <1>4 DEF TypeInv, TypeOK, ReqTypeOK, ReqTxn, ReqPc, ReqShape,
     Resolving, Committed
<1> QED
  BY <1>4, <1>5 DEF TypeInv, TypeOK, AggTypeOK, AggShape, At, Working, Committed,
     BeganTypeOK

LEMMA CommitResolveType ==
    ASSUME TypeInv, NEW q \in Request, CommitResolve(q),
           UNCHANGED << agg, overlapped, began >>
    PROVE  TypeInv'
<1> DEFINE d == req[q].dec
           row == Updated(decisions[d], req[q].loaded, req[q].current, q)
           entry == [ event |-> "resolved", to |-> req[q].current.state,
                      by |-> q ]
<1>1. Answer(q, "ok") /\ Resolving(q)
  BY DEF CommitResolve, Resolving
<1>2. /\ d \in Task /\ Committed(d)
      /\ req[q].loaded \in DecisionRow /\ req[q].current \in DecisionRow
      /\ req[q].current.state \in Resolved
  BY <1>1 DEF TypeInv, TypeOK, ReqTypeOK, ReqTxn, ReqShape
<1>3. row \in DecisionRow
  <2>1. decisions[d] \in DecisionRow /\ q \in Txn
    BY <1>2 DEF TypeInv, TypeOK, StoreTypeOK, Committed, Txn
  <2> QED
    BY <1>2, <2>1, UpdatedType
<1>4. decisions' = [decisions EXCEPT ![d] = row]
  BY DEF CommitResolve
<1>5. decisions' \in [Task -> DecisionRow \cup {None}]
  <2> HIDE DEF row
  <2> QED
    BY <1>3, <1>4 DEF TypeInv, TypeOK, StoreTypeOK
<1>6. audit' \in [Task -> Seq(AuditEntry)]
  <2>1. entry \in AuditEntry
    BY <1>2 DEF AuditEntry, DecisionRow, Txn
  <2>2. Append(audit[d], entry) \in Seq(AuditEntry)
    BY <1>2, <2>1 DEF TypeInv, TypeOK, StoreTypeOK
  <2>3. audit' = [audit EXCEPT ![d] = Append(audit[d], entry)]
    BY DEF CommitResolve
  <2> HIDE DEF entry
  <2> QED
    BY <2>2, <2>3 DEF TypeInv, TypeOK, StoreTypeOK
<1>7. feedback' \in [Task -> FeedbackRow \cup {None}]
  BY <1>2 DEF CommitResolve, FeedbackRow, TypeInv, TypeOK, StoreTypeOK
<1>8. StoreTypeOK'
  BY <1>5, <1>6, <1>7 DEF CommitResolve, Released, TypeInv, TypeOK, StoreTypeOK
<1>9. \A x \in Task : Committed(x) => Committed(x)'
  <2> HIDE DEF row
  <2> QED
    BY <1>3, <1>4, NoneIsNoRow DEF Committed, TypeInv, TypeOK, StoreTypeOK
<1>10. ReqTypeOK' /\ ReqShape'
  <2>1. "ok" \in Reply
    BY DEF Reply
  <2>2. ReqTypeOK'
    BY <1>1, <2>1, AnswerType DEF ReqTypeOK
  <2>3. ASSUME NEW p \in Request, req'[p].pc = "viewed" \/ Resolving(p)'
        PROVE  req'[p] = req[p] /\ req'[p].dec \in Task \cup {None}
    BY <1>1, <2>1, <2>2, <2>3, AnswerType DEF ReqTypeOK, ReqTxn
  <2> QED
    BY <1>9, <2>2, <2>3 DEF TypeInv, ReqShape, Resolving
<1>11. AggShape'
  BY <1>9 DEF TypeInv, TypeOK, AggTypeOK, AggTxn, AggShape, At, Working
<1> QED
  BY <1>8, <1>10, <1>11 DEF TypeInv, TypeOK, AggTypeOK, BeganTypeOK

LEMMA FailResolveType ==
    ASSUME TypeInv, NEW q \in Request, FailResolve(q),
           UNCHANGED << agg, overlapped, began >>
    PROVE  TypeInv'
<1>1. PICK reply \in Reply : Answer(q, reply)
  BY DEF FailResolve, Reply
<1>2. StoreTypeOK' /\ UNCHANGED decisions
  BY DEF FailResolve, Released, TypeInv, TypeOK, StoreTypeOK
<1>3. ReqTypeOK' /\ ReqShape'
  BY <1>1, <1>2, AnswerType
     DEF TypeInv, ReqTypeOK, ReqShape, Resolving, Committed
<1> QED
  BY <1>2, <1>3 DEF TypeInv, TypeOK, AggTypeOK, AggShape, At, Working, Committed,
     BeganTypeOK

LEMMA ReqStepType ==
    ASSUME TypeInv, NEW q \in Request, ReqStep(q)
    PROVE  TypeInv'
BY FetchDecisionType, LoadForResolveType, FlushResolveType,
   RejectSecondFeedbackType, PublishResolvedType, CommitResolveType,
   FailResolveType DEF ReqStep, ResolveProgress

LEMMA BeginType ==
    ASSUME TypeInv, NEW x \in Txn, Begin(x)
    PROVE  TypeInv'
<1>1. /\ began' = [began EXCEPT ![x] = Writers]
      /\ UNCHANGED << storeVars, agg, overlapped, req >>
  BY DEF Begin
<1>2. Writers \subseteq Txn
  BY DEF Writers
<1>3. BeganTypeOK'
  BY <1>1, <1>2 DEF TypeInv, TypeOK, BeganTypeOK
<1> QED
  BY <1>1, <1>3 DEF storeVars, TypeInv, TypeOK, StoreTypeOK, AggTypeOK, ReqTypeOK,
     AggShape, ReqShape, At, Working, Resolving, Committed

LEMMA ExpireOpenKeyType ==
    ASSUME TypeInv, NEW r \in Region, ExpireOpenKey(r),
           UNCHANGED << agg, overlapped, req, began >>
    PROVE  TypeInv'
BY DEF ExpireOpenKey, TypeInv, TypeOK, StoreTypeOK, AggTypeOK, ReqTypeOK,
   AggShape, ReqShape, At, Working, Resolving, Committed, BeganTypeOK

LEMMA TypeStep == TypeInv /\ [Next]_vars => TypeInv'
<1> SUFFICES ASSUME TypeInv, [Next]_vars PROVE TypeInv'
  OBVIOUS
<1>1. ASSUME NEW t \in Task, AggStep(t) PROVE TypeInv'
  BY <1>1, AggStepType
<1>2. ASSUME NEW q \in Request, ReqStep(q) PROVE TypeInv'
  BY <1>2, ReqStepType
<1>3. ASSUME NEW r \in Region, ExpireOpenKey(r),
             UNCHANGED << agg, overlapped, req, began >>
      PROVE  TypeInv'
  BY <1>3, ExpireOpenKeyType
<1>5. ASSUME NEW x \in Txn, Begin(x) PROVE TypeInv'
  BY <1>5, BeginType
<1>4. CASE UNCHANGED vars
  BY <1>4 DEF vars, storeVars, TypeInv, TypeOK, StoreTypeOK, AggTypeOK,
     ReqTypeOK, BeganTypeOK, AggShape, ReqShape, At, Working, Resolving, Committed
<1> QED
  BY <1>1, <1>2, <1>3, <1>4, <1>5 DEF Next, Quiescent

\* In every reachable state the tables, the Redis keys and the transactions of
\* workers and watchers are well formed: no committed row is half written and
\* no transaction works on a decision that is missing.
THEOREM TypeCorrect == Spec => []TypeOK
<1>1. Spec => []TypeInv
  BY TypeInit, TypeStep, PTL DEF Spec
<1>2. TypeInv => TypeOK
  BY DEF TypeInv
<1> QED
  BY <1>1, <1>2, PTL

=============================================================================
