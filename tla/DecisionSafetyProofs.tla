------------------------ MODULE DecisionSafetyProofs ------------------------
(***************************************************************************)
(* Safety of the decision tables, for every workload and every number of   *)
(* workers and watchers.  Each section has an inductive invariant, the     *)
(* lemma that every step preserves it, and the theorem.                    *)
(***************************************************************************)
EXTENDS DecisionLifecycleProofs, SequenceTheorems

\* The task has been through _link_evidence.
LinkedPc == {"flush", "publish", "notify", "commit"}

-----------------------------------------------------------------------------
\* evidence_count never exceeds the links.
\*
\* The count a session writes is the one it read, plus one if it also inserts
\* a link.  The links it saw stay, and its own is not among them, so the sum
\* fits even when another task has committed to the same decision meanwhile.

TaskCount(t) ==
    /\ agg[t].insert # {} => agg[t].pc \in LinkedPc \cup {"done", "failed"}
    /\ Working(t) => agg[t].loaded.count <= Cardinality(LinksOf(agg[t].dec))
    /\ agg[t].pc \in LinkedPc =>
         \/ /\ agg[t].insert = {}
            /\ agg[t].current.count = agg[t].loaded.count
         \/ /\ agg[t].insert = {LinkOf(t)}
            /\ agg[t].current.count = agg[t].loaded.count + 1

ReqCount(q) == Resolving(q) => req[q].current.count = req[q].loaded.count

CountInv ==
    /\ CountWithinLinks
    /\ \A t \in Task : TaskCount(t)
    /\ \A q \in Request : ReqCount(q)

LEMMA LinksOfFinite ==
    ASSUME NEW d
    PROVE  IsFiniteSet(LinksOf(d)) /\ Cardinality(LinksOf(d)) \in Nat
<1>1. IsFiniteSet(LinksOf(d))
  BY FiniteEvidence, FS_Subset DEF LinksOf
<1> QED
  BY <1>1, FS_CardinalityType

LEMMA CountInit == Init => CountInv
<1> SUFFICES ASSUME Init PROVE CountInv
  OBVIOUS
<1>1. CountWithinLinks
  BY DEF Init, StoreInit, CountWithinLinks, Committed
<1> QED
  BY <1>1 DEF Init, AggInit, ReqInit, CountInv, TaskCount, ReqCount, Working,
     Resolving, LinkedPc

\* Steps that change neither the rows nor the links.
LEMMA CountQuietTask ==
    ASSUME CountInv, NEW t \in Task, UNCHANGED << decisions, links, req >>,
           \A u \in Task \ {t} : agg'[u] = agg[u], TaskCount(t)'
    PROVE  CountInv'
<1>1. CountWithinLinks'
  BY DEF CountInv, CountWithinLinks, Committed, LinksOf
<1>2. \A u \in Task \ {t} : TaskCount(u)'
  BY DEF CountInv, TaskCount, LinksOf, Working, LinkOf
<1>3. \A q \in Request : ReqCount(q)'
  BY DEF CountInv, ReqCount, Resolving
<1> QED
  BY <1>1, <1>2, <1>3 DEF CountInv

LEMMA CountQuietReq ==
    ASSUME CountInv, NEW q \in Request, UNCHANGED << decisions, links, agg >>,
           \A p \in Request \ {q} : req'[p] = req[p], ReqCount(q)'
    PROVE  CountInv'
BY DEF CountInv, CountWithinLinks, TaskCount, ReqCount, Committed, LinksOf,
   Working, Resolving, LinkOf

\* A task that only moves its program counter, from a state where it has been
\* through _link_evidence or to a final one.
LEMMA CountGoto ==
    ASSUME TypeInv, CountInv, NEW t \in Task, NEW p,
           Goto(t, p), UNCHANGED << decisions, links, req >>,
           \/ p \in {"done", "failed"}
           \/ p = "create" /\ At(t, "drop_key")
           \/ p \in LinkedPc /\ agg[t].pc \in LinkedPc
    PROVE  CountInv'
<1>1. \A u \in Task \ {t} : agg'[u] = agg[u]
  BY DEF Goto, TypeInv, TypeOK, AggTypeOK
<1>2. agg'[t] = [agg[t] EXCEPT !.pc = p] /\ agg[t] \in AggTxn
  BY DEF Goto, TypeInv, TypeOK, AggTypeOK
<1>3. TaskCount(t)'
  BY <1>2 DEF CountInv, TaskCount, LinkedPc, Working, LinksOf, LinkOf, AggTxn, At
<1> QED
  BY <1>1, <1>3, CountQuietTask

\* d names the decision rigidly, so that primes do not reach it.
LEMMA CountCommit ==
    ASSUME TypeInv, CountInv, NEW t \in Task, Commit(t), UNCHANGED req,
           NEW d \in Task, d = agg[t].dec
    PROVE  CountInv'
<1> DEFINE loaded == agg[t].loaded
           current == agg[t].current
           row == IF d = t THEN current
                           ELSE Updated(decisions[d], loaded, current, t)
<1>1. /\ d \in Task /\ loaded \in DecisionRow /\ current \in DecisionRow
      /\ d # t => Committed(d) /\ decisions[d] \in DecisionRow
      /\ agg[t].pc \in LinkedPc
  BY DEF Commit, At, Working, LinkedPc, Committed, TypeInv, TypeOK,
     AggTypeOK, AggTxn, AggShape, StoreTypeOK
<1>2. /\ decisions' = [decisions EXCEPT ![d] = row]
      /\ links' = links \cup agg[t].insert
      /\ agg[t].insert \cap links = {}
  BY DEF Commit
<1>3. ASSUME NEW x \in Task
      PROVE  /\ LinksOf(x) \subseteq LinksOf(x)'
             /\ Cardinality(LinksOf(x)) \in Nat
             /\ Cardinality(LinksOf(x)') \in Nat
             /\ Cardinality(LinksOf(x)) <= Cardinality(LinksOf(x)')
  <2>1. LinksOf(x) \subseteq LinksOf(x)'
    BY <1>2 DEF LinksOf
  <2>2. IsFiniteSet(LinksOf(x)')
    BY FiniteEvidence, FS_Subset DEF LinksOf
  <2> QED
    BY <2>1, <2>2, FS_Subset, FS_CardinalityType, LinksOfFinite
<1>4. current.count <= Cardinality(LinksOf(d)')
  <2>1. /\ loaded.count <= Cardinality(LinksOf(d))
        /\ \/ agg[t].insert = {} /\ current.count = loaded.count
           \/ agg[t].insert = {LinkOf(t)} /\ current.count = loaded.count + 1
    BY <1>1 DEF CountInv, TaskCount, Working, LinkedPc
  <2>2. CASE agg[t].insert = {}
    BY <1>1, <1>3, <2>1, <2>2, LinksOfFinite DEF DecisionRow
  <2>3. CASE agg[t].insert = {LinkOf(t)}
    <3>1. LinksOf(d)' = LinksOf(d) \cup {EvidenceOf[t]}
      BY <1>2, <2>3, StoreAssumption DEF LinksOf, LinkOf
    <3>2. EvidenceOf[t] \notin LinksOf(d)
      BY <1>2, <2>3 DEF LinksOf, LinkOf
    <3>3. Cardinality(LinksOf(d)') = Cardinality(LinksOf(d)) + 1
      BY <3>1, <3>2, LinksOfFinite, FS_AddElement
    <3>4. current.count <= loaded.count + 1
      BY <1>1, <2>1 DEF DecisionRow
    <3> QED
      BY <1>1, <2>1, <3>3, <3>4, LinksOfFinite DEF DecisionRow
  <2> QED
    BY <2>1, <2>2, <2>3
<1>5. CountWithinLinks'
  <2> SUFFICES ASSUME NEW x \in Task, Committed(x)'
               PROVE  decisions'[x].count <= Cardinality(LinksOf(x)')
    BY DEF CountWithinLinks
  <2>1. CASE x # d
    <3>1. decisions'[x] = decisions[x] /\ Committed(x)
      BY <1>1, <1>2, <2>1 DEF Committed, TypeInv, TypeOK, StoreTypeOK
    <3>2. decisions[x].count <= Cardinality(LinksOf(x))
      BY <3>1 DEF CountInv, CountWithinLinks
    <3>3. decisions[x].count \in Nat
      BY <3>1 DEF Committed, TypeInv, TypeOK, StoreTypeOK, DecisionRow
    <3>4. Cardinality(LinksOf(x)) \in Nat /\ Cardinality(LinksOf(x)') \in Nat
      <4>1. IsFiniteSet(LinksOf(x)')
        BY FiniteEvidence, FS_Subset DEF LinksOf
      <4> QED
        BY <4>1, LinksOfFinite, FS_CardinalityType
    <3> QED
      BY <1>3, <3>1, <3>2, <3>3, <3>4
  <2>2. CASE x = d
    <3>1. decisions'[d].count \in {current.count, decisions[d].count}
      BY <1>1, <1>2 DEF Updated, Column, TypeInv, TypeOK, StoreTypeOK
    <3>2. decisions'[d].count = current.count \/ d # t
      BY <1>1, <1>2 DEF TypeInv, TypeOK, StoreTypeOK
    <3>3. d # t => decisions[d].count <= Cardinality(LinksOf(d)')
      <4>1. d # t => decisions[d].count <= Cardinality(LinksOf(d))
        BY <1>1 DEF CountInv, CountWithinLinks
      <4>2. IsFiniteSet(LinksOf(d)')
        BY FiniteEvidence, FS_Subset DEF LinksOf
      <4>3. Cardinality(LinksOf(d)) \in Nat /\ Cardinality(LinksOf(d)') \in Nat
        BY <4>2, LinksOfFinite, FS_CardinalityType
      <4> QED
        BY <1>1, <1>3, <4>1, <4>3 DEF DecisionRow
    <3> QED
      BY <1>4, <2>2, <3>1, <3>2, <3>3
  <2> QED
    BY <2>1, <2>2
<1>6. \A u \in Task : TaskCount(u)'
  <2> SUFFICES ASSUME NEW u \in Task PROVE TaskCount(u)'
    OBVIOUS
  <2>1. agg' = [agg EXCEPT ![t].pc = "done"]
    BY DEF Commit, Goto
  <2>2. CASE u = t
    BY <2>1, <2>2 DEF TypeInv, TypeOK, AggTypeOK, AggTxn, TaskCount, LinkedPc,
       Working
  <2>3. CASE u # t
    <3>1. agg'[u] = agg[u] /\ TaskCount(u)
      BY <2>1, <2>3 DEF TypeInv, TypeOK, AggTypeOK, CountInv
    <3>2. ASSUME Working(u)
          PROVE  agg[u].loaded.count <= Cardinality(LinksOf(agg[u].dec)')
      <4>1. agg[u].dec \in Task /\ agg[u].loaded \in DecisionRow
        BY <3>2 DEF TypeInv, TypeOK, AggTypeOK, AggTxn, AggShape
      <4>2. IsFiniteSet(LinksOf(agg[u].dec)')
        BY FiniteEvidence, FS_Subset DEF LinksOf
      <4>3. /\ Cardinality(LinksOf(agg[u].dec)) \in Nat
            /\ Cardinality(LinksOf(agg[u].dec)') \in Nat
        BY <4>2, LinksOfFinite, FS_CardinalityType
      <4> QED
        BY <1>3, <3>1, <3>2, <4>1, <4>3 DEF TaskCount, DecisionRow
    <3> QED
      BY <3>1, <3>2 DEF TaskCount, Working, LinkOf, LinksOf
  <2> QED
    BY <2>2, <2>3
<1>7. \A q \in Request : ReqCount(q)'
  BY DEF CountInv, ReqCount, Resolving
<1> QED
  BY <1>5, <1>6, <1>7 DEF CountInv

LEMMA CountStepTask ==
    ASSUME TypeInv, CountInv, NEW t \in Task, AggStep(t)
    PROVE  CountInv'
<1>r. UNCHANGED req
  BY DEF AggStep
<1>1. CASE ReadOpenKey(t)
  <2>1. \A u \in Task \ {t} : agg'[u] = agg[u]
    BY <1>1 DEF ReadOpenKey, TypeInv, TypeOK, AggTypeOK
  <2>2. TaskCount(t)'
    BY <1>1 DEF ReadOpenKey, At, TypeInv, TypeOK, AggTypeOK, AggTxn, CountInv,
       TaskCount, LinkedPc, Working
  <2> QED
    BY <1>1, <1>r, <2>1, <2>2, CountQuietTask DEF ReadOpenKey, storeVars
<1>2. CASE GetDecision(t)
  <2>1. \A u \in Task \ {t} : agg'[u] = agg[u]
    BY <1>2 DEF GetDecision, TypeInv, TypeOK, AggTypeOK
  <2>2. agg[t].dec \in Task /\ agg[t].insert = {} /\ UNCHANGED storeVars
    BY <1>2 DEF GetDecision, At, TypeInv, TypeOK, AggTypeOK, AggTxn, AggShape,
       CountInv, TaskCount, LinkedPc
  <2>3. Committed(agg[t].dec) =>
          decisions[agg[t].dec].count <= Cardinality(LinksOf(agg[t].dec))
    BY <2>2 DEF CountInv, CountWithinLinks
  <2>4. TaskCount(t)'
    <3>1. /\ agg'[t].insert = {}
          /\ agg'[t].pc \in {"link", "drop_key", "create"}
      BY <1>2, <2>2 DEF GetDecision, TypeInv, TypeOK, AggTypeOK, AggTxn
    <3>2. ASSUME agg'[t].pc = "link"
          PROVE  (agg[t].loaded.count <= Cardinality(LinksOf(agg[t].dec)))'
      <4>1. Committed(agg[t].dec)
        BY <1>2, <3>2 DEF GetDecision, TypeInv, TypeOK, AggTypeOK, AggTxn,
           Committed
      <4>2. /\ agg'[t].loaded = decisions[agg[t].dec]
            /\ agg'[t].dec = agg[t].dec
        BY <1>2, <3>2 DEF GetDecision, TypeInv, TypeOK, AggTypeOK, AggTxn
      <4> QED
        BY <2>2, <2>3, <4>1, <4>2 DEF LinksOf, storeVars
    <3> QED
      BY <3>1, <3>2 DEF TaskCount, LinkedPc, Working, LinksOf
  <2> QED
    BY <1>r, <2>1, <2>2, <2>4, CountQuietTask DEF storeVars
<1>3. CASE DropOpenKey(t)
  BY <1>3, <1>r, CountGoto DEF DropOpenKey
<1>4. CASE CreateDecision(t)
  <2>1. \A u \in Task \ {t} : agg'[u] = agg[u]
    BY <1>4 DEF CreateDecision, TypeInv, TypeOK, AggTypeOK
  <2>2. NewDecision(t).count = 0
    BY DEF NewDecision
  <2>3. agg'[t].loaded.count = 0 /\ agg'[t].insert = {} /\ agg'[t].pc = "link"
    BY <1>4, <2>2 DEF CreateDecision, At, TypeInv, TypeOK, AggTypeOK, AggTxn,
       CountInv, TaskCount, LinkedPc
  <2>4. UNCHANGED << decisions, links >>
    BY <1>4 DEF CreateDecision
  <2>5. 0 <= Cardinality(LinksOf(agg'[t].dec))
    BY LinksOfFinite
  <2>6. TaskCount(t)'
    BY <2>3, <2>4, <2>5 DEF TaskCount, LinkedPc, LinksOf
  <2> QED
    BY <1>r, <2>1, <2>4, <2>6, CountQuietTask
<1>5. CASE LinkEvidence(t)
  <2> DEFINE new == {LinkOf(t)} \ links
             row == IF new = {} THEN agg[t].loaded
                    ELSE WithEvidence(agg[t].loaded, EvidenceOf[t])
             next == [row EXCEPT !.state = ComputeState(row)]
             p == IF ComputeState(row) # agg[t].loaded.state
                    THEN "flush" ELSE "commit"
  <2>1. \A u \in Task \ {t} : agg'[u] = agg[u]
    BY <1>5 DEF LinkEvidence, TypeInv, TypeOK, AggTypeOK
  <2>2. At(t, "link") /\ UNCHANGED storeVars
    BY <1>5 DEF LinkEvidence
  <2>3. agg[t].loaded \in DecisionRow /\ agg[t].dec \in Task
    BY <2>2 DEF At, Working, TypeInv, TypeOK, AggTypeOK, AggTxn, AggShape
  <2>4. agg' = [agg EXCEPT ![t].current = next, ![t].insert = new, ![t].pc = p]
    BY <1>5 DEF LinkEvidence
  <2>5. next.count = IF new = {} THEN agg[t].loaded.count
                                 ELSE agg[t].loaded.count + 1
    <3>1. WithEvidence(agg[t].loaded, EvidenceOf[t]).count = agg[t].loaded.count + 1
      BY <2>3 DEF WithEvidence, DecisionRow
    <3>2. row \in DecisionRow
      BY <2>3, WithEvidenceType, StoreAssumption
    <3>3. next.count = row.count
      <4> HIDE DEF row
      <4> QED
        BY <3>2 DEF DecisionRow
    <3> QED
      BY <3>1, <3>3
  <2>6. new = {} \/ new = {LinkOf(t)}
    OBVIOUS
  <2>7. p \in {"flush", "commit"}
    OBVIOUS
  <2> HIDE DEF next, new, p
  <2>8. /\ agg'[t].current = next /\ agg'[t].insert = new /\ agg'[t].pc = p
        /\ agg'[t].dec = agg[t].dec /\ agg'[t].loaded = agg[t].loaded
    BY <2>4 DEF TypeInv, TypeOK, AggTypeOK, AggTxn
  <2>9. agg[t].loaded.count <= Cardinality(LinksOf(agg[t].dec))
    BY <2>2 DEF At, Working, CountInv, TaskCount
  <2>10. TaskCount(t)'
    BY <2>2, <2>5, <2>6, <2>7, <2>8, <2>9
       DEF TaskCount, LinkedPc, LinkOf, LinksOf, storeVars
  <2> QED
    BY <1>r, <2>1, <2>2, <2>10, CountQuietTask DEF storeVars
<1>6. CASE FlushStateChange(t)
  BY <1>6, <1>r, CountGoto DEF FlushStateChange, LinkedPc, At
<1>7. CASE PublishStateChange(t)
  BY <1>7, <1>r, CountGoto DEF PublishStateChange, LinkedPc, At
<1>8. CASE NotifyWarning(t)
  BY <1>8, <1>r, CountGoto DEF NotifyWarning, LinkedPc, At
<1>9. CASE RollBack(t)
  BY <1>9, <1>r, CountGoto DEF RollBack
<1>10. CASE Commit(t)
  <2>1. agg[t].dec \in Task
    BY <1>10 DEF Commit, At, Working, TypeInv, TypeOK, AggTypeOK, AggTxn, AggShape
  <2> QED
    BY <1>10, <1>r, <2>1, CountCommit
<1> QED
  BY <1>1, <1>2, <1>3, <1>4, <1>5, <1>6, <1>7, <1>8, <1>9, <1>10
     DEF AggStep, AggProgress, RejectDuplicateLink, Fail

LEMMA CountStepReq ==
    ASSUME TypeInv, CountInv, NEW q \in Request, ReqStep(q)
    PROVE  CountInv'
<1>a. UNCHANGED agg
  BY DEF ReqStep
<1>1. \A p \in Request \ {q} : req'[p] = req[p]
  BY DEF ReqStep, FetchDecision, ResolveProgress, LoadForResolve, FlushResolve,
     RejectSecondFeedback, PublishResolved, CommitResolve, FailResolve, Answer,
     TypeInv, TypeOK, ReqTypeOK
<1>2. CASE LoadForResolve(q)
  <2> DEFINE row == decisions[req[q].dec]
  <2>1. UNCHANGED storeVars /\ row \in DecisionRow
    BY <1>2 DEF LoadForResolve, TypeInv, TypeOK, StoreTypeOK, ReqTypeOK, ReqTxn,
       ReqShape, Committed
  <2>2. ReqCount(q)'
    <3>1. CASE \E reply \in Reply : Answer(q, reply)
      BY <3>1 DEF Answer, ReqCount, Resolving, TypeInv, TypeOK, ReqTypeOK, ReqTxn
    <3>2. CASE \E disposition \in Dispositions[q] :
                 req' = [req EXCEPT
                          ![q].pc = "flush",
                          ![q].loaded = row,
                          ![q].current =
                            [row EXCEPT
                               !.state = DispositionToState[disposition],
                               !.resolvedBy = q]]
      <4>1. PICK s : req' = [req EXCEPT ![q].pc = "flush", ![q].loaded = row,
                               ![q].current = [row EXCEPT !.state = s,
                                                          !.resolvedBy = q]]
        BY <3>2
      <4> HIDE DEF row
      <4>2. [row EXCEPT !.state = s, !.resolvedBy = q].count = row.count
        BY <2>1 DEF DecisionRow
      <4> QED
        BY <4>1, <4>2 DEF ReqCount, TypeInv, TypeOK, ReqTypeOK, ReqTxn
    <3> QED
      BY <1>2, <3>1, <3>2 DEF LoadForResolve, Reply
  <2> QED
    BY <1>a, <1>1, <2>1, <2>2, CountQuietReq DEF storeVars
<1>3. CASE CommitResolve(q)
  <2>1. PICK d \in Task : d = req[q].dec
    BY <1>3 DEF CommitResolve, Resolving, TypeInv, TypeOK, ReqTypeOK, ReqTxn,
       ReqShape
  <2>2. /\ Committed(d)
        /\ req[q].current.count = req[q].loaded.count
    BY <1>3, <2>1 DEF CommitResolve, Resolving, TypeInv, ReqShape, CountInv,
       ReqCount
  <2>3. decisions' = [decisions EXCEPT ![d] =
                        Updated(decisions[d], req[q].loaded, req[q].current, q)]
    BY <1>3, <2>1 DEF CommitResolve
  <2>4. decisions'[d].count = decisions[d].count
    BY <2>2, <2>3 DEF Updated, Column, TypeInv, TypeOK, StoreTypeOK
  <2>5. \A x \in Task \ {d} : decisions'[x] = decisions[x]
    BY <2>3 DEF TypeInv, TypeOK, StoreTypeOK
  <2>6. UNCHANGED links
    BY <1>3 DEF CommitResolve
  <2>7. CountWithinLinks'
    BY <2>2, <2>4, <2>5, <2>6
       DEF CountInv, CountWithinLinks, Committed, LinksOf
  <2>8. ReqCount(q)'
    BY <1>3 DEF CommitResolve, Answer, ReqCount, Resolving, TypeInv, TypeOK,
       ReqTypeOK, ReqTxn
  <2> QED
    BY <1>a, <1>1, <2>6, <2>7, <2>8
       DEF CountInv, TaskCount, ReqCount, Resolving, Working, LinkOf, LinksOf
<1>4. CASE /\ UNCHANGED << decisions, links >>
           /\ ReqCount(q)'
  BY <1>a, <1>1, <1>4, CountQuietReq
<1>5. ASSUME NEW pc, NEW reply, req[q].pc \in ReqPc,
             \/ req' = [req EXCEPT ![q].pc = pc] /\ Resolving(q)
             \/ req' = [req EXCEPT ![q].pc = "answered", ![q].reply = reply]
      PROVE  ReqCount(q)'
  BY <1>5 DEF CountInv, ReqCount, Resolving, TypeInv, TypeOK, ReqTypeOK, ReqTxn
<1>6. CASE FetchDecision(q)
  BY <1>4, <1>6 DEF FetchDecision, ReqCount, Resolving, storeVars, TypeInv,
     TypeOK, ReqTypeOK, ReqTxn
<1>7. CASE FlushResolve(q) \/ PublishResolved(q)
  BY <1>4, <1>5, <1>7 DEF FlushResolve, PublishResolved, Resolving, ReqPc
<1>8. CASE RejectSecondFeedback(q) \/ FailResolve(q)
  BY <1>4, <1>5, <1>8
     DEF RejectSecondFeedback, FailResolve, Answer, ReqPc, storeVars
<1> QED
  BY <1>2, <1>3, <1>6, <1>7, <1>8 DEF ReqStep, ResolveProgress

LEMMA CountStep == TypeInv /\ CountInv /\ [Next]_vars => CountInv'
<1> SUFFICES ASSUME TypeInv, CountInv, [Next]_vars PROVE CountInv'
  OBVIOUS
<1>1. ASSUME NEW t \in Task, AggStep(t) PROVE CountInv'
  BY <1>1, CountStepTask
<1>2. ASSUME NEW q \in Request, ReqStep(q) PROVE CountInv'
  BY <1>2, CountStepReq
<1>3. CASE UNCHANGED << decisions, links, agg, req >>
  BY <1>3 DEF CountInv, CountWithinLinks, TaskCount, ReqCount, Committed,
     LinksOf, Working, Resolving, LinkOf
<1> QED
  BY <1>1, <1>2, <1>3 DEF Next, Quiescent, ExpireOpenKey, vars, storeVars, Begin

\* However many tasks race on a decision, with whatever failures, repeated
\* deliveries and resolutions in between, its committed evidence_count is at
\* most the number of evidences linked to it.
THEOREM CountIsBounded == Spec => []CountWithinLinks
<1>1. Init => TypeInv /\ CountInv
  BY TypeInit, CountInit
<1>2. TypeInv /\ CountInv /\ [Next]_vars => (TypeInv /\ CountInv)'
  BY TypeStep, CountStep
<1>3. CountInv => CountWithinLinks
  BY DEF CountInv
<1> QED
  BY <1>1, <1>2, <1>3, PTL DEF Spec

-----------------------------------------------------------------------------
\* The audit trail explains the state, in the order of the commits.
\*
\* Only a session that changes the state writes the column, and the same
\* transaction appends the record; a session that leaves the state alone keeps
\* whatever others have committed, and with it their record.

\* Updates of a transaction record by an action whose effect on the others
\* does not matter.
Others(t) == \A u \in Task \ {t} : agg'[u] = agg[u]

\* A row exists only once its inserter has committed, and was inserted normal.
TaskAudit(t) ==
    /\ Committed(t) => At(t, "done")
    /\ Working(t) /\ agg[t].dec = t => agg[t].loaded.state = "normal"

ReqAudit(q) == Resolving(q) => req[q].loaded.state \notin Resolved

AuditInv ==
    /\ StateFollowsCommits
    /\ \A t \in Task : TaskAudit(t)
    /\ \A q \in Request : ReqAudit(q)

LEMMA AuditInit == Init => AuditInv
BY DEF Init, StoreInit, AggInit, ReqInit, AuditInv, StateFollowsCommits,
   TaskAudit, ReqAudit, Committed, Working, Resolving, At

LEMMA AuditQuiet ==
    ASSUME AuditInv, UNCHANGED << decisions, audit >>,
           \A t \in Task : TaskAudit(t)', \A q \in Request : ReqAudit(q)'
    PROVE  AuditInv'
BY DEF AuditInv, StateFollowsCommits, Committed, LastCommitted

\* A task that has not committed moves its program counter.
LEMMA AuditGoto ==
    ASSUME TypeInv, AuditInv, NEW t \in Task, NEW p, Goto(t, p), ~At(t, "done"),
           UNCHANGED << decisions, audit, req >>,
           \/ p \in {"failed", "create"}
           \/ Working(t)
    PROVE  AuditInv'
<1>1. \A u \in Task \ {t} : agg'[u] = agg[u]
  BY DEF Goto, TypeInv, TypeOK, AggTypeOK
<1>2. agg'[t] = [agg[t] EXCEPT !.pc = p] /\ agg[t] \in AggTxn
  BY DEF Goto, TypeInv, TypeOK, AggTypeOK
<1>3. TaskAudit(t)'
  BY <1>2 DEF AuditInv, TaskAudit, Working, Committed, AggTxn, At
<1>4. \A u \in Task : TaskAudit(u)'
  BY <1>1, <1>3 DEF AuditInv, TaskAudit, Working, Committed, At
<1> QED
  BY <1>4, AuditQuiet DEF AuditInv, ReqAudit, Resolving

\* The row and the trail of d move together, and no other decision changes.
LEMMA AuditMoved ==
    ASSUME TypeInv, StateFollowsCommits, NEW d \in Task,
           NEW row \in DecisionRow, NEW entry \in AuditEntry,
           decisions' = [decisions EXCEPT ![d] = row],
           \/ /\ audit' = [audit EXCEPT ![d] = Append(@, entry)]
              /\ row.state = entry.to
           \/ /\ audit' = audit
              /\ Committed(d) => row.state = decisions[d].state
              /\ ~Committed(d) => row.state = "normal"
    PROVE  StateFollowsCommits'
<1>1. decisions'[d] = row /\ Committed(d)'
  BY NoneIsNoRow DEF TypeInv, TypeOK, StoreTypeOK, Committed
<1>2. \A x \in Task \ {d} : decisions'[x] = decisions[x] /\ audit'[x] = audit[x]
  BY DEF TypeInv, TypeOK, StoreTypeOK
<1>3. CASE audit' = [audit EXCEPT ![d] = Append(@, entry)] /\ row.state = entry.to
  <2>1. audit[d] \in Seq(AuditEntry) /\ audit'[d] = Append(audit[d], entry)
    BY <1>3 DEF TypeInv, TypeOK, StoreTypeOK
  <2>2. audit'[d] # << >> /\ audit'[d][Len(audit'[d])] = entry
    BY <2>1, AppendProperties
  <2> QED
    BY <1>1, <1>2, <1>3, <2>2 DEF StateFollowsCommits, LastCommitted, Committed
<1>4. CASE /\ audit' = audit
           /\ Committed(d) => row.state = decisions[d].state
           /\ ~Committed(d) => row.state = "normal"
  BY <1>1, <1>2, <1>4 DEF StateFollowsCommits, LastCommitted, Committed
<1> QED
  BY <1>3, <1>4

LEMMA AuditStepTask ==
    ASSUME TypeInv, AuditInv, NEW t \in Task, AggStep(t)
    PROVE  AuditInv'
<1>r. UNCHANGED req /\ \A q \in Request : ReqAudit(q)'
  BY DEF AggStep, AuditInv, ReqAudit, Resolving
<1>1. ASSUME UNCHANGED << decisions, audit >>, Others(t), TaskAudit(t)'
      PROVE  AuditInv'
  <2>1. \A u \in Task : TaskAudit(u)'
    BY <1>1 DEF Others, AuditInv, TaskAudit, Committed, At, Working
  <2> QED
    BY <1>1, <1>r, <2>1, AuditQuiet
<1>2. CASE ReadOpenKey(t)
  <2>1. Others(t) /\ UNCHANGED << decisions, audit >>
    BY <1>2 DEF ReadOpenKey, Others, storeVars, TypeInv, TypeOK, AggTypeOK
  <2>2. TaskAudit(t)'
    BY <1>2, <2>1 DEF ReadOpenKey, At, Working, Committed, TaskAudit, AuditInv,
       TypeInv, TypeOK, AggTypeOK, AggTxn
  <2> QED
    BY <1>1, <2>1, <2>2
<1>3. CASE GetDecision(t)
  <2>1. Others(t) /\ UNCHANGED << decisions, audit >>
    BY <1>3 DEF GetDecision, Others, storeVars, TypeInv, TypeOK, AggTypeOK
  <2>2. At(t, "get") /\ ~Committed(t)
    BY <1>3 DEF GetDecision, At, AuditInv, TaskAudit
  <2>3. agg'[t].pc = "link" => agg'[t].dec # t
    BY <1>3, <2>2 DEF GetDecision, Committed, TypeInv, TypeOK, AggTypeOK, AggTxn
  <2>4. agg'[t].pc \in {"link", "drop_key", "create"}
    BY <1>3 DEF GetDecision, TypeInv, TypeOK, AggTypeOK, AggTxn
  <2>5. TaskAudit(t)'
    BY <2>1, <2>2, <2>3, <2>4 DEF TaskAudit, Committed, Working
  <2> QED
    BY <1>1, <2>1, <2>5
<1>4. CASE DropOpenKey(t)
  BY <1>4, <1>r, AuditGoto DEF DropOpenKey, At
<1>5. CASE CreateDecision(t)
  <2>1. Others(t) /\ UNCHANGED << decisions, audit >>
    BY <1>5 DEF CreateDecision, Others, TypeInv, TypeOK, AggTypeOK
  <2>2. At(t, "create") /\ ~Committed(t)
    BY <1>5 DEF CreateDecision, At, AuditInv, TaskAudit
  <2>3. agg'[t].loaded.state = "normal"
    BY <1>5 DEF CreateDecision, NewDecision, TypeInv, TypeOK, AggTypeOK, AggTxn
  <2>4. TaskAudit(t)'
    BY <2>1, <2>2, <2>3 DEF TaskAudit, Committed
  <2> QED
    BY <1>1, <2>1, <2>4
<1>6. CASE LinkEvidence(t)
  <2>1. Others(t) /\ UNCHANGED << decisions, audit >>
    BY <1>6 DEF LinkEvidence, Others, storeVars, TypeInv, TypeOK, AggTypeOK
  <2>2. At(t, "link") /\ ~Committed(t)
    BY <1>6 DEF LinkEvidence, At, AuditInv, TaskAudit
  <2>3. agg'[t].dec = agg[t].dec /\ agg'[t].loaded = agg[t].loaded
    BY <1>6 DEF LinkEvidence, TypeInv, TypeOK, AggTypeOK, AggTxn
  <2>4. TaskAudit(t)'
    BY <2>1, <2>2, <2>3 DEF TaskAudit, Committed, At, Working, AuditInv
  <2> QED
    BY <1>1, <2>1, <2>4
<1>7. CASE FlushStateChange(t)
  BY <1>7, <1>r, AuditGoto DEF FlushStateChange, At, Working
<1>8. CASE PublishStateChange(t)
  BY <1>8, <1>r, AuditGoto DEF PublishStateChange, At, Working
<1>9. CASE NotifyWarning(t)
  BY <1>9, <1>r, AuditGoto DEF NotifyWarning, At, Working
<1>10. CASE RejectDuplicateLink(t) \/ Fail(t)
  BY <1>10, <1>r, AuditGoto
     DEF RejectDuplicateLink, Fail, RollBack, Running, Finished, At
<1>11. CASE Commit(t)
  <2>1. PICK d \in Task : d = agg[t].dec
    BY <1>11 DEF Commit, At, Working, TypeInv, TypeOK, AggTypeOK, AggTxn, AggShape
  <2>2. PICK row, entry :
           /\ row = IF d = t THEN agg[t].current
                   ELSE Updated(decisions[d], agg[t].loaded, agg[t].current, t)
           /\ entry = [ event |-> "state_change", to |-> agg[t].current.state,
                        by |-> t ]
    OBVIOUS
  <2>3. /\ agg[t].loaded \in DecisionRow /\ agg[t].current \in DecisionRow
        /\ d # t => Committed(d) /\ decisions[d] \in DecisionRow
        /\ At(t, "commit") /\ Working(t)
    BY <1>11, <2>1 DEF Commit, At, Working, Committed, TypeInv, TypeOK,
       AggTypeOK, AggTxn, AggShape, StoreTypeOK
  <2>4. row \in DecisionRow
    BY <2>2, <2>3, UpdatedType DEF Txn
  <2>5. entry \in AuditEntry
    BY <2>2, <2>3 DEF AuditEntry, DecisionRow, Txn
  <2>6. decisions' = [decisions EXCEPT ![d] = row]
    BY <1>11, <2>1, <2>2 DEF Commit
  <2>7. ASSUME StateChanged(t) PROVE StateFollowsCommits'
    <3>1. audit' = [audit EXCEPT ![d] = Append(@, entry)]
      BY <1>11, <2>1, <2>2, <2>7 DEF Commit
    <3>2. row.state = entry.to
      BY <2>2, <2>7 DEF StateChanged, Updated, Column
    <3> QED
      BY <2>4, <2>5, <2>6, <3>1, <3>2, AuditMoved DEF AuditInv
  <2>8. ASSUME ~StateChanged(t) PROVE StateFollowsCommits'
    <3>1. audit' = audit
      BY <1>11, <2>8 DEF Commit
    <3>2. ~Committed(t)
      BY <2>3 DEF At, AuditInv, TaskAudit
    <3>3. /\ Committed(d) => row.state = decisions[d].state
          /\ ~Committed(d) => row.state = "normal"
      BY <2>1, <2>2, <2>3, <2>8, <3>2
         DEF StateChanged, Updated, Column, AuditInv, TaskAudit
    <3> QED
      BY <2>4, <2>5, <2>6, <3>1, <3>3, AuditMoved DEF AuditInv
  <2>9. StateFollowsCommits'
    BY <2>7, <2>8
  <2>10. \A u \in Task : TaskAudit(u)'
    <3>1. agg' = [agg EXCEPT ![t].pc = "done"]
      BY <1>11 DEF Commit, Goto
    <3>2. \A x \in Task : Committed(x)' => Committed(x) \/ x = t
      BY <2>3, <2>6 DEF Committed, TypeInv, TypeOK, StoreTypeOK
    <3> QED
      BY <3>1, <3>2 DEF AuditInv, TaskAudit, At, Working, TypeInv, TypeOK,
         AggTypeOK, AggTxn
  <2> QED
    BY <1>r, <2>9, <2>10 DEF AuditInv
<1> QED
  BY <1>2, <1>3, <1>4, <1>5, <1>6, <1>7, <1>8, <1>9, <1>10, <1>11
     DEF AggStep, AggProgress

LEMMA AuditStepReq ==
    ASSUME TypeInv, AuditInv, NEW q \in Request, ReqStep(q)
    PROVE  AuditInv'
<1>1. \A p \in Request \ {q} : req'[p] = req[p]
  BY DEF ReqStep, FetchDecision, ResolveProgress, LoadForResolve, FlushResolve,
     RejectSecondFeedback, PublishResolved, CommitResolve, FailResolve, Answer,
     TypeInv, TypeOK, ReqTypeOK
<1>2. ReqAudit(q)'
  <2>1. CASE LoadForResolve(q)
    <3>1. Resolving(q)' => /\ decisions[req[q].dec].state \notin Resolved
                           /\ req'[q].loaded = decisions[req[q].dec]
      <4>1. CASE \E reply \in Reply : Answer(q, reply)
        <5>1. req'[q].pc = "answered"
          BY <4>1 DEF Answer, TypeInv, TypeOK, ReqTypeOK
        <5> QED
          BY <5>1 DEF Resolving
      <4>2. CASE ~ \E reply \in Reply : Answer(q, reply)
        <5>1. PICK disposition \in Dispositions[q] :
                /\ decisions[req[q].dec].state \notin Resolved
                /\ req' = [req EXCEPT
                             ![q].pc = "flush",
                             ![q].loaded = decisions[req[q].dec],
                             ![q].current =
                               [decisions[req[q].dec] EXCEPT
                                  !.state = DispositionToState[disposition],
                                  !.resolvedBy = q]]
          BY <2>1, <4>2 DEF LoadForResolve, Reply
        <5>2. req'[q].loaded = decisions[req[q].dec]
          BY <5>1 DEF TypeInv, TypeOK, ReqTypeOK, ReqTxn
        <5> QED
          BY <5>1, <5>2
      <4> QED
        BY <4>1, <4>2
    <3> QED
      BY <3>1 DEF ReqAudit
  <2>2. CASE /\ req'[q].loaded = req[q].loaded
             /\ Resolving(q)' => Resolving(q)
    BY <2>2 DEF AuditInv, ReqAudit, Resolving
  <2>3. CASE FetchDecision(q)
    BY <2>3 DEF FetchDecision, ReqAudit, Resolving, TypeInv, TypeOK, ReqTypeOK,
       ReqTxn
  <2>4. CASE FlushResolve(q) \/ PublishResolved(q)
    BY <2>2, <2>4 DEF FlushResolve, PublishResolved, Resolving, TypeInv, TypeOK,
       ReqTypeOK, ReqTxn
  <2>5. CASE RejectSecondFeedback(q) \/ CommitResolve(q) \/ FailResolve(q)
    BY <2>2, <2>5 DEF RejectSecondFeedback, CommitResolve, FailResolve, Answer,
       Resolving, TypeInv, TypeOK, ReqTypeOK, ReqTxn
  <2> QED
    BY <2>1, <2>3, <2>4, <2>5 DEF ReqStep, ResolveProgress
<1>3. \A p \in Request : ReqAudit(p)'
  BY <1>1, <1>2 DEF AuditInv, ReqAudit, Resolving
<1>4. CASE UNCHANGED << decisions, audit >>
  <2>1. \A t \in Task : TaskAudit(t)'
    BY <1>4 DEF ReqStep, AuditInv, TaskAudit, Committed, At, Working
  <2> QED
    BY <1>3, <1>4, <2>1, AuditQuiet
<1>5. CASE CommitResolve(q)
  <2>1. PICK d \in Task : d = req[q].dec
    BY <1>5 DEF CommitResolve, Resolving, TypeInv, TypeOK, ReqTypeOK, ReqTxn,
       ReqShape
  <2>2. PICK row, entry :
           /\ row = Updated(decisions[d], req[q].loaded, req[q].current, q)
           /\ entry = [ event |-> "resolved", to |-> req[q].current.state,
                        by |-> q ]
    OBVIOUS
  <2>3. /\ req[q].loaded \in DecisionRow /\ req[q].current \in DecisionRow
        /\ Committed(d) /\ decisions[d] \in DecisionRow
        /\ req[q].current.state \in Resolved
        /\ req[q].loaded.state \notin Resolved
    BY <1>5, <2>1 DEF CommitResolve, Resolving, Committed, TypeInv, TypeOK,
       ReqTypeOK, ReqTxn, ReqShape, StoreTypeOK, AuditInv, ReqAudit
  <2>4. row \in DecisionRow
    BY <2>2, <2>3, UpdatedType DEF Txn
  <2>5. entry \in AuditEntry
    BY <2>2, <2>3 DEF AuditEntry, DecisionState, Txn
  <2>6. /\ decisions' = [decisions EXCEPT ![d] = row]
        /\ audit' = [audit EXCEPT ![d] = Append(@, entry)]
    BY <1>5, <2>1, <2>2 DEF CommitResolve
  <2>7. row.state = entry.to
    BY <2>2, <2>3 DEF Updated, Column
  <2>8. StateFollowsCommits'
    BY <2>4, <2>5, <2>6, <2>7, AuditMoved DEF AuditInv
  <2>9. \A x \in Task : Committed(x)' => Committed(x)
    BY <2>3, <2>6 DEF Committed, TypeInv, TypeOK, StoreTypeOK
  <2>10. \A t \in Task : TaskAudit(t)'
    BY <2>9 DEF ReqStep, AuditInv, TaskAudit, At, Working
  <2> QED
    BY <1>3, <2>8, <2>10 DEF AuditInv
<1> QED
  BY <1>4, <1>5 DEF ReqStep, FetchDecision, ResolveProgress, LoadForResolve,
     FlushResolve, RejectSecondFeedback, PublishResolved, FailResolve, storeVars

LEMMA AuditStep == TypeInv /\ AuditInv /\ [Next]_vars => AuditInv'
<1> SUFFICES ASSUME TypeInv, AuditInv, [Next]_vars PROVE AuditInv'
  OBVIOUS
<1>1. ASSUME NEW t \in Task, AggStep(t) PROVE AuditInv'
  BY <1>1, AuditStepTask
<1>2. ASSUME NEW q \in Request, ReqStep(q) PROVE AuditInv'
  BY <1>2, AuditStepReq
<1>3. CASE UNCHANGED << decisions, audit, agg, req >>
  BY <1>3 DEF AuditInv, StateFollowsCommits, TaskAudit, ReqAudit, Committed,
     LastCommitted, Working, Resolving, At
<1> QED
  BY <1>1, <1>2, <1>3 DEF Next, Quiescent, ExpireOpenKey, vars, storeVars, Begin

-----------------------------------------------------------------------------
\* The frame of a step, and what the two commits write.

tables == << decisions, links, audit, feedback >>

-----------------------------------------------------------------------------
\* Only the two commits write the tables; everything else is private to one
\* transaction, or not in the tables.

LEMMA TaskFrame ==
    ASSUME TypeInv, NEW t \in Task, AggStep(t)
    PROVE  /\ \A u \in Task \ {t} : agg'[u] = agg[u]
           /\ UNCHANGED << req, feedback >>
           /\ Commit(t) \/ UNCHANGED tables
BY DEF AggStep, AggProgress, ReadOpenKey, GetDecision, DropOpenKey,
   CreateDecision, LinkEvidence, FlushStateChange, PublishStateChange,
   NotifyWarning, Commit, RejectDuplicateLink, Fail, RollBack, Goto, storeVars,
   tables, TypeInv, TypeOK, AggTypeOK

LEMMA RequestFrame ==
    ASSUME TypeInv, NEW q \in Request, ReqStep(q)
    PROVE  /\ \A p \in Request \ {q} : req'[p] = req[p]
           /\ UNCHANGED << agg, overlapped, links, openKey, notifyQueue >>
           /\ CommitResolve(q) \/ UNCHANGED tables
BY DEF ReqStep, FetchDecision, ResolveProgress, LoadForResolve, FlushResolve,
   RejectSecondFeedback, PublishResolved, CommitResolve, FailResolve, Answer,
   storeVars, tables, TypeInv, TypeOK, ReqTypeOK

\* What a task writes when it commits its work on d.
Commits(t, d) ==
    /\ Working(t) /\ agg[t].pc = "commit"
    /\ agg[t].loaded \in DecisionRow /\ agg[t].current \in DecisionRow
    /\ d # t => Committed(d) /\ decisions[d] \in DecisionRow
    /\ agg[t].insert \cap links = {}
    /\ links' = links \cup agg[t].insert
    /\ decisions'[d] = IF d = t THEN agg[t].current
                       ELSE Updated(decisions[d], agg[t].loaded,
                                    agg[t].current, t)
    /\ decisions'[d] \in DecisionRow /\ Committed(d)'
    /\ \A x \in Task \ {d} : /\ decisions'[x] = decisions[x]
                             /\ audit'[x] = audit[x]
                             /\ Committed(x)' = Committed(x)
    /\ audit'[d] = IF StateChanged(t)
                     THEN Append(audit[d], [ event |-> "state_change",
                            to |-> agg[t].current.state, by |-> t ])
                     ELSE audit[d]
    /\ audit[d] \in Seq(AuditEntry)
    /\ [ event |-> "state_change", to |-> agg[t].current.state,
         by |-> t ] \in AuditEntry
    /\ agg'[t] = [agg[t] EXCEPT !.pc = "done"]
    /\ UNCHANGED << feedback, openKey, events, notifyQueue, overlapped >>

\* d names the decision rigidly, so that primes do not reach it.
LEMMA CommitOf ==
    ASSUME TypeInv, NEW t \in Task, Commit(t), NEW d \in Task, d = agg[t].dec
    PROVE  Commits(t, d)
<1>1. /\ Working(t) /\ agg[t].pc = "commit"
      /\ agg[t].loaded \in DecisionRow /\ agg[t].current \in DecisionRow
      /\ d # t => Committed(d) /\ decisions[d] \in DecisionRow
  BY DEF Commit, At, Working, Committed, TypeInv, TypeOK, AggTypeOK, AggTxn,
     AggShape, StoreTypeOK
<1>2. decisions'[d] = IF d = t THEN agg[t].current
                      ELSE Updated(decisions[d], agg[t].loaded, agg[t].current, t)
  BY DEF Commit, TypeInv, TypeOK, StoreTypeOK
<1>3. decisions'[d] \in DecisionRow
  BY <1>1, <1>2, UpdatedType DEF Txn
<1>4. \A x \in Task \ {d} : decisions'[x] = decisions[x] /\ audit'[x] = audit[x]
  BY DEF Commit, TypeInv, TypeOK, StoreTypeOK
<1>5. Committed(d)' /\ \A x \in Task \ {d} : Committed(x)' = Committed(x)
  BY <1>3, <1>4, NoneIsNoRow DEF Committed
<1>6. audit[d] \in Seq(AuditEntry)
      /\ audit'[d] = IF StateChanged(t)
                       THEN Append(audit[d], [ event |-> "state_change",
                              to |-> agg[t].current.state, by |-> t ])
                       ELSE audit[d]
  BY DEF Commit, TypeInv, TypeOK, StoreTypeOK
<1>7. [ event |-> "state_change", to |-> agg[t].current.state, by |-> t ]
        \in AuditEntry
  BY <1>1 DEF AuditEntry, DecisionRow, Txn
<1>8. agg'[t] = [agg[t] EXCEPT !.pc = "done"]
  BY DEF Commit, Goto, TypeInv, TypeOK, AggTypeOK
<1>9. /\ agg[t].insert \cap links = {} /\ links' = links \cup agg[t].insert
      /\ UNCHANGED << feedback, openKey, events, notifyQueue, overlapped >>
  BY DEF Commit
<1> QED
  BY <1>1, <1>2, <1>3, <1>4, <1>5, <1>6, <1>7, <1>8, <1>9 DEF Commits

LEMMA CommitFacts ==
    ASSUME TypeInv, NEW t \in Task, Commit(t)
    PROVE  \E d \in Task : d = agg[t].dec /\ Commits(t, d)
<1>1. agg[t].dec \in Task
  BY DEF Commit, At, Working, TypeInv, TypeOK, AggTypeOK, AggTxn, AggShape
<1> QED
  BY <1>1, CommitOf

\* What a watcher writes when the resolve of d commits.
CommitsResolve(q, d) ==
    /\ Resolving(q) /\ req[q].pc = "commit" /\ Committed(d)
    /\ req[q].loaded \in DecisionRow /\ req[q].current \in DecisionRow
    /\ req[q].current.state \in Resolved
    /\ decisions[d] \in DecisionRow
    /\ decisions'[d] = Updated(decisions[d], req[q].loaded,
                               req[q].current, q)
    /\ decisions'[d] \in DecisionRow /\ Committed(d)'
    /\ feedback'[d] = [ state |-> req[q].current.state, by |-> q ]
    /\ feedback'[d] # None
    /\ audit[d] \in Seq(AuditEntry)
    /\ audit'[d] = Append(audit[d], [ event |-> "resolved",
                     to |-> req[q].current.state, by |-> q ])
    /\ [ event |-> "resolved", to |-> req[q].current.state, by |-> q ]
         \in AuditEntry
    /\ \A x \in Task \ {d} : /\ decisions'[x] = decisions[x]
                             /\ audit'[x] = audit[x]
                             /\ feedback'[x] = feedback[x]
                             /\ Committed(x)' = Committed(x)
    /\ req'[q] = [req[q] EXCEPT !.pc = "answered", !.reply = "ok"]
    /\ lock' = Released(q)
    /\ UNCHANGED << links, openKey, events, notifyQueue >>

LEMMA CommitResolveOf ==
    ASSUME TypeInv, NEW q \in Request, CommitResolve(q),
           NEW d \in Task, d = req[q].dec
    PROVE  CommitsResolve(q, d)
<1>1. /\ Resolving(q) /\ req[q].pc = "commit" /\ Committed(d)
      /\ req[q].loaded \in DecisionRow /\ req[q].current \in DecisionRow
      /\ req[q].current.state \in Resolved /\ decisions[d] \in DecisionRow
  BY DEF CommitResolve, Resolving, Committed, TypeInv, TypeOK, ReqTypeOK,
     ReqTxn, ReqShape, StoreTypeOK
<1>2. decisions'[d] = Updated(decisions[d], req[q].loaded, req[q].current, q)
  BY DEF CommitResolve, TypeInv, TypeOK, StoreTypeOK
<1>3. decisions'[d] \in DecisionRow
  BY <1>1, <1>2, UpdatedType DEF Txn
<1>4. \A x \in Task \ {d} : /\ decisions'[x] = decisions[x]
                            /\ audit'[x] = audit[x] /\ feedback'[x] = feedback[x]
  BY DEF CommitResolve, TypeInv, TypeOK, StoreTypeOK
<1>5. Committed(d)' /\ \A x \in Task \ {d} : Committed(x)' = Committed(x)
  BY <1>3, <1>4, NoneIsNoRow DEF Committed
<1>6. /\ audit[d] \in Seq(AuditEntry)
      /\ audit'[d] = Append(audit[d], [ event |-> "resolved",
                       to |-> req[q].current.state, by |-> q ])
      /\ feedback'[d] = [ state |-> req[q].current.state, by |-> q ]
  BY DEF CommitResolve, TypeInv, TypeOK, StoreTypeOK
<1>7. [ event |-> "resolved", to |-> req[q].current.state, by |-> q ]
        \in AuditEntry
  BY <1>1 DEF AuditEntry, DecisionState, Txn
<1>8. feedback'[d].by = q /\ feedback'[d] # None
  BY <1>1, <1>6, NoneIsNoFeedback DEF FeedbackRow
<1>9. req'[q] = [req[q] EXCEPT !.pc = "answered", !.reply = "ok"]
  BY DEF CommitResolve, Answer, TypeInv, TypeOK, ReqTypeOK
<1>10. lock' = Released(q) /\ UNCHANGED << links, openKey, events, notifyQueue >>
  BY DEF CommitResolve
<1> QED
  BY <1>1, <1>2, <1>3, <1>4, <1>5, <1>6, <1>7, <1>8, <1>9, <1>10
     DEF CommitsResolve

LEMMA CommitResolveFacts ==
    ASSUME TypeInv, NEW q \in Request, CommitResolve(q)
    PROVE  \E d \in Task : d = req[q].dec /\ CommitsResolve(q, d)
<1>1. req[q].dec \in Task
  BY DEF CommitResolve, Resolving, TypeInv, TypeOK, ReqTypeOK, ReqTxn, ReqShape
<1> QED
  BY <1>1, CommitResolveOf

\* The trail keeps its records and gains one at its end.
LEMMA AppendFacts ==
    ASSUME NEW trail \in Seq(AuditEntry), NEW e \in AuditEntry
    PROVE  /\ Append(trail, e) # << >>
           /\ Len(trail) + 1 \in DOMAIN Append(trail, e)
           /\ Len(trail) + 1 \notin DOMAIN trail
           /\ Append(trail, e)[Len(trail) + 1] = e
           /\ \A i \in DOMAIN trail : /\ i \in DOMAIN Append(trail, e)
                                      /\ Append(trail, e)[i] = trail[i]
           /\ \A i \in DOMAIN Append(trail, e) :
                i \in DOMAIN trail \/ i = Len(trail) + 1
BY AppendProperties, LenProperties

-----------------------------------------------------------------------------
\* No record is certain to sort after the one committed last: a transaction
\* writes its records when it ends, so what had been written before another one
\* began was written before that one writes.

\* A transaction that has ended.
Over(x) == IF x \in Task THEN Finished(x) ELSE Answered(x)

OrderInv ==
    /\ NothingSortsAfter
    /\ \A x \in Txn : Begun(x) => began[x] \subseteq Writers
    /\ \A x \in Writers : Begun(x) /\ Over(x)

LEMMA OrderInit == Init => OrderInv
BY DEF Init, StoreInit, OrderInv, NothingSortsAfter, Writers, Begun

\* No record is added, and what is over stays so.
LEMMA OrderQuiet ==
    ASSUME OrderInv, UNCHANGED << audit, began >>,
           \A x \in Txn : Over(x) => Over(x)'
    PROVE  OrderInv'
BY DEF OrderInv, NothingSortsAfter, CreatedAfter, LastCommitted, Writers, Begun

\* A transaction that ends appends a record.
LEMMA OrderAppend ==
    ASSUME TypeInv, OrderInv, NEW d \in Task, NEW entry \in AuditEntry,
           audit'[d] = Append(audit[d], entry),
           \A e \in Task \ {d} : audit'[e] = audit[e],
           Begun(entry.by), ~Over(entry.by), Over(entry.by)', UNCHANGED began,
           \A x \in Txn : Over(x) => Over(x)'
    PROVE  OrderInv'
<1>1. audit[d] \in Seq(AuditEntry) /\ audit'[d] \in Seq(AuditEntry)
  BY DEF TypeInv, TypeOK, StoreTypeOK
<1>2. /\ Len(audit'[d]) = Len(audit[d]) + 1 /\ audit'[d] # << >>
      /\ audit'[d][Len(audit'[d])] = entry
      /\ \A i \in DOMAIN audit[d] :
            i \in DOMAIN audit'[d] /\ audit'[d][i] = audit[d][i]
      /\ \A i \in DOMAIN audit'[d] : i \in DOMAIN audit[d] \/ audit'[d][i] = entry
  BY <1>1, AppendProperties
<1>3. LastCommitted(d)' = entry
  BY <1>2 DEF LastCommitted
<1>4. entry.by \in Txn /\ entry.by \notin Writers
  BY DEF AuditEntry, OrderInv
<1>5. \A e \in Task : \A i \in DOMAIN audit'[e] :
         audit'[e][i].by \in Writers \cup {entry.by}
  <2>1. ASSUME NEW e \in Task, NEW i \in DOMAIN audit[e]
        PROVE  audit[e][i].by \in Writers
    <3>1. audit[e] \in Seq(AuditEntry)
      BY DEF TypeInv, TypeOK, StoreTypeOK
    <3>2. audit[e][i] \in AuditEntry
      BY <3>1
    <3> QED
      BY <3>2 DEF Writers, AuditEntry
  <2> QED
    BY <1>2, <2>1
<1>6. Writers \subseteq Writers'
  <2> SUFFICES ASSUME NEW x \in Writers
               PROVE  x \in Writers'
    OBVIOUS
  <2>1. PICK e \in Task : \E i \in DOMAIN audit[e] : audit[e][i].by = x
    BY DEF Writers
  <2>2. PICK i \in DOMAIN audit[e] : audit[e][i].by = x
    BY <2>1
  <2>3. i \in DOMAIN audit'[e] /\ audit'[e][i].by = x
    BY <1>2, <2>2
  <2> QED
    BY <2>3 DEF Writers
<1>7. Writers' \subseteq Writers \cup {entry.by}
  BY <1>5 DEF Writers
<1>8. \A x \in Txn : Begun(x) => entry.by \notin began[x]
  BY <1>4 DEF OrderInv
<1>9. \A x \in Writers \cup {entry.by} : x \in Txn /\ Begun(x)
  BY <1>4 DEF OrderInv, Writers
<1>10. NothingSortsAfter'
  <2>1. \A i \in DOMAIN audit'[d] : entry.by \notin began[audit'[d][i].by]
    BY <1>5, <1>8, <1>9
  <2>2. \A i \in DOMAIN audit'[d] : ~CreatedAfter(audit[d][i], LastCommitted(d))'
    BY <1>3, <2>1 DEF CreatedAfter
  <2>3. ASSUME NEW e \in Task \ {d}, NEW i \in DOMAIN audit'[e]
        PROVE  ~CreatedAfter(audit[e][i], LastCommitted(e))'
    BY <2>3 DEF OrderInv, NothingSortsAfter, CreatedAfter, LastCommitted
  <2> QED
    BY <2>2, <2>3 DEF NothingSortsAfter
<1>11. \A x \in Txn : Begun(x)' => began'[x] \subseteq Writers'
  BY <1>6 DEF OrderInv, Begun
<1>12. \A x \in Writers' : Begun(x)' /\ Over(x)'
  <2> SUFFICES ASSUME NEW x \in Writers'
               PROVE  Begun(x)' /\ Over(x)'
    OBVIOUS
  <2>1. CASE x = entry.by
    BY <2>1 DEF Begun
  <2>2. CASE x \in Writers
    BY <1>9, <2>2 DEF OrderInv, Begun
  <2> QED
    BY <1>7, <2>1, <2>2
<1> QED
  BY <1>10, <1>11, <1>12 DEF OrderInv

LEMMA OrderBegin ==
    ASSUME TypeInv, OrderInv, NEW x \in Txn, Begin(x)
    PROVE  OrderInv'
<1>1. /\ ~Begun(x) /\ began' = [began EXCEPT ![x] = Writers]
      /\ UNCHANGED << audit, agg, req >>
  BY DEF Begin, storeVars
<1>2. Writers' = Writers
  BY <1>1 DEF Writers
<1>3. \A y \in Txn \ {x} : began'[y] = began[y]
  BY <1>1 DEF TypeInv, TypeOK, BeganTypeOK
<1>4. began'[x] = Writers
  BY <1>1 DEF TypeInv, TypeOK, BeganTypeOK
<1>5. \A e \in Task : \A i \in DOMAIN audit[e] : audit[e][i].by \in Txn \ {x}
  <2>1. ASSUME NEW e \in Task, NEW i \in DOMAIN audit[e]
        PROVE  audit[e][i].by \in Txn \ {x}
    <3>1. audit[e] \in Seq(AuditEntry)
      BY DEF TypeInv, TypeOK, StoreTypeOK
    <3>2. audit[e][i] \in AuditEntry
      BY <3>1
    <3>3. audit[e][i].by \in Txn
      BY <3>2 DEF AuditEntry
    <3>4. audit[e][i].by \in Writers
      BY <3>3 DEF Writers
    <3> QED
      BY <1>1, <3>3, <3>4 DEF OrderInv
  <2> QED
    BY <2>1
<1>6. NothingSortsAfter'
  BY <1>1, <1>3, <1>5 DEF OrderInv, NothingSortsAfter, CreatedAfter, LastCommitted
<1>7. \A y \in Txn : Begun(y)' => began'[y] \subseteq Writers'
  BY <1>2, <1>3, <1>4 DEF OrderInv, Begun
<1>8. \A y \in Writers' : Begun(y)' /\ Over(y)'
  BY <1>1, <1>2, <1>3, <1>5 DEF OrderInv, Begun, Over, Finished, Answered, Writers
<1> QED
  BY <1>6, <1>7, <1>8 DEF OrderInv

LEMMA TaskIsNotOver ==
    ASSUME TypeInv, NEW t \in Task, AggStep(t)
    PROVE  ~Finished(t)
BY DEF AggStep, AggProgress, ReadOpenKey, GetDecision, DropOpenKey,
   CreateDecision, LinkEvidence, FlushStateChange, PublishStateChange,
   NotifyWarning, Commit, RejectDuplicateLink, Fail, At, Finished, Running

LEMMA RequestIsNotOver ==
    ASSUME TypeInv, NEW q \in Request, ReqStep(q)
    PROVE  ~Answered(q)
BY DEF ReqStep, FetchDecision, ResolveProgress, LoadForResolve, FlushResolve,
   RejectSecondFeedback, PublishResolved, CommitResolve, FailResolve, Answered

LEMMA OrderStepTask ==
    ASSUME TypeInv, OrderInv, NEW t \in Task, AggStep(t)
    PROVE  OrderInv'
<1>1. Begun(t) /\ UNCHANGED << req, began >>
  BY DEF AggStep
<1>2. \A u \in Task \ {t} : agg'[u] = agg[u]
  BY TaskFrame
<1>3. \A x \in Txn : Over(x) => Over(x)'
  BY <1>1, <1>2, TaskIsNotOver DEF Over, Finished, Answered
<1>4. CASE audit' = audit
  BY <1>1, <1>3, <1>4, OrderQuiet
<1>5. CASE Commit(t)
  <2>1. PICK d \in Task : d = agg[t].dec /\ Commits(t, d)
    BY <1>5, CommitFacts
  <2>2. CASE ~StateChanged(t)
    <3>1. audit' = audit
      BY <1>5, <2>2 DEF Commit
    <3> QED
      BY <3>1, <1>4
  <2>3. CASE StateChanged(t)
    <3>1. PICK entry \in AuditEntry :
             entry.by = t /\ audit'[d] = Append(audit[d], entry)
      BY <2>1, <2>3 DEF Commits
    <3>2. \A e \in Task \ {d} : audit'[e] = audit[e]
      BY <2>1 DEF Commits
    <3>3. agg[t] \in AggTxn /\ agg'[t] = [agg[t] EXCEPT !.pc = "done"]
      BY <2>1 DEF Commits, TypeInv, TypeOK, AggTypeOK
    <3>4. Over(t)' /\ ~Over(t)
      BY <3>3, TaskIsNotOver DEF Over, Finished, AggTxn
    <3> QED
      BY <1>1, <1>3, <3>1, <3>2, <3>4, OrderAppend
  <2> QED
    BY <2>2, <2>3
<1>6. Commit(t) \/ UNCHANGED tables
  BY TaskFrame
<1> QED
  BY <1>4, <1>5, <1>6 DEF tables

LEMMA OrderStepReq ==
    ASSUME TypeInv, OrderInv, NEW q \in Request, ReqStep(q)
    PROVE  OrderInv'
<1>1. UNCHANGED << agg, began >>
  BY DEF ReqStep
<1>2. \A p \in Request \ {q} : req'[p] = req[p]
  BY RequestFrame
<1>3. \A x \in Txn : Over(x) => Over(x)'
  BY <1>1, <1>2, RequestIsNotOver DEF Over, Finished, Answered, Txn
<1>4. CASE audit' = audit
  BY <1>1, <1>3, <1>4, OrderQuiet
<1>5. CASE CommitResolve(q)
  <2>1. PICK d \in Task : d = req[q].dec /\ CommitsResolve(q, d)
    BY <1>5, CommitResolveFacts
  <2>2. PICK entry \in AuditEntry :
           entry.by = q /\ audit'[d] = Append(audit[d], entry)
    BY <2>1 DEF CommitsResolve
  <2>3. \A e \in Task \ {d} : audit'[e] = audit[e]
    BY <2>1 DEF CommitsResolve
  <2>4. /\ req[q] \in ReqTxn
        /\ req'[q] = [req[q] EXCEPT !.pc = "answered", !.reply = "ok"]
    BY <2>1 DEF CommitsResolve, TypeInv, TypeOK, ReqTypeOK
  <2>5. Over(q)' /\ ~Over(q)
    BY <2>4, RequestIsNotOver, StoreAssumption DEF Over, Answered, ReqTxn
  <2>6. Begun(q)
    BY <1>5 DEF ReqStep, FetchDecision, CommitResolve
  <2> QED
    BY <1>1, <1>3, <2>2, <2>3, <2>5, <2>6, OrderAppend
<1>6. CommitResolve(q) \/ UNCHANGED tables
  BY RequestFrame
<1> QED
  BY <1>4, <1>5, <1>6 DEF tables

LEMMA OrderStep == TypeInv /\ OrderInv /\ [Next]_vars => OrderInv'
<1> SUFFICES ASSUME TypeInv, OrderInv, [Next]_vars PROVE OrderInv'
  OBVIOUS
<1>1. ASSUME NEW t \in Task, AggStep(t) PROVE OrderInv'
  BY <1>1, OrderStepTask
<1>2. ASSUME NEW q \in Request, ReqStep(q) PROVE OrderInv'
  BY <1>2, OrderStepReq
<1>3. ASSUME NEW x \in Txn, Begin(x) PROVE OrderInv'
  BY <1>3, OrderBegin
<1>4. CASE UNCHANGED << audit, agg, req, began >>
  <2>1. \A x \in Txn : Over(x) => Over(x)'
    BY <1>4 DEF Over, Finished, Answered
  <2> QED
    BY <1>4, <2>1, OrderQuiet
<1> QED
  BY <1>1, <1>2, <1>3, <1>4 DEF Next, Quiescent, ExpireOpenKey, vars, storeVars

\* The state of a committed decision is always the one to which the record
\* committed last moved it, and created_at sorts after that record at most those
\* of transactions that overlapped with its own: no race of workers and watchers
\* makes the trail tell another story.
THEOREM AuditExplainsState == Spec => []AuditMatchesState
<1>1. Init => TypeInv /\ AuditInv /\ OrderInv
  BY TypeInit, AuditInit, OrderInit
<1>2. TypeInv /\ AuditInv /\ OrderInv /\ [Next]_vars
         => (TypeInv /\ AuditInv /\ OrderInv)'
  BY TypeStep, AuditStep, OrderStep
<1>3. AuditInv /\ OrderInv => AuditMatchesState
  BY DEF AuditInv, OrderInv, AuditMatchesState
<1> QED
  BY <1>1, <1>2, <1>3, PTL DEF Spec

-----------------------------------------------------------------------------
\* A decision is resolved once, by one watcher.
\*
\* The row lock makes the unique feedback row a right to resolve: a request
\* that has flushed holds the row of a decision without feedback, and no other
\* request can flush until it has ended.  Tasks never touch resolved_by, and
\* an answer other than 200 is given before the request has written anything
\* or after it has rolled everything back.

Untouched(q) ==
    \A d \in Task :
        /\ feedback[d] # None => feedback[d].by # q
        /\ Committed(d) => decisions[d].resolvedBy # q
        /\ \A i \in DOMAIN audit[d] : audit[d][i].by # q

TaskResolve(t) ==
    Working(t) => /\ agg[t].current.resolvedBy = agg[t].loaded.resolvedBy
                  /\ agg[t].dec = t => agg[t].loaded.resolvedBy = None

ReqResolve(q) ==
    /\ ~Answered(q) \/ req[q].reply # "ok" => Untouched(q)
    /\ Resolving(q) => /\ req[q].current.resolvedBy = q
                       /\ req[q].loaded.resolvedBy # q
    /\ req[q].pc \in {"publish", "commit"} =>
           /\ feedback[req[q].dec] = None
           /\ lock[req[q].dec] = q

ResolveInv ==
    /\ OneResolution
    /\ \A t \in Task : TaskResolve(t)
    /\ \A q \in Request : ReqResolve(q)

LEMMA ResolveInit == Init => ResolveInv
BY DEF Init, StoreInit, AggInit, ReqInit, ResolveInv, OneResolution, TaskResolve,
   ReqResolve, Untouched, Committed, Working, Resolving, Answered

\* Steps that leave the tables alone.
LEMMA ResolveQuiet ==
    ASSUME ResolveInv, UNCHANGED tables,
           \A t \in Task : TaskResolve(t)', \A q \in Request : ReqResolve(q)'
    PROVE  ResolveInv'
BY DEF ResolveInv, OneResolution, Committed, tables

\* Whatever a task does, a request keeps its rights as long as no row it holds
\* is taken and no trace of it appears.
LEMMA ReqResolveKept ==
    ASSUME ResolveInv, NEW q \in Request, req'[q] = req[q],
           Untouched(q) => Untouched(q)',
           req[q].pc \in {"publish", "commit"} =>
               /\ feedback'[req[q].dec] = feedback[req[q].dec]
               /\ lock[req[q].dec] = q => lock'[req[q].dec] = q
    PROVE  ReqResolve(q)'
BY DEF ResolveInv, ReqResolve, Resolving, Answered

\* A task does not take a lock that a watcher holds.
LEMMA TaskKeepsLocks ==
    ASSUME TypeInv, AuditInv, NEW t \in Task, AggStep(t),
           NEW q \in Request, NEW d \in Task, Committed(d), lock[d] = q
    PROVE  lock'[d] = q
<1>1. t # q
  BY StoreAssumption
<1>2. CASE UNCHANGED lock \/ lock' = Released(t)
  BY <1>1, <1>2 DEF Released
<1>3. CASE FlushStateChange(t)
  <2>1. agg[t].dec # d
    BY <1>1, <1>3, StoreAssumption DEF FlushStateChange, MayLock, Txn
  <2> QED
    BY <1>3, <2>1 DEF FlushStateChange, Locked, TypeInv, TypeOK, StoreTypeOK
<1>4. CASE CreateDecision(t)
  <2>1. t # d
    BY <1>4 DEF CreateDecision, At, AuditInv, TaskAudit
  <2> QED
    BY <1>4, <2>1 DEF CreateDecision, Locked, TypeInv, TypeOK, StoreTypeOK
<1> QED
  BY <1>2, <1>3, <1>4 DEF AggStep, AggProgress, ReadOpenKey, GetDecision,
     DropOpenKey, LinkEvidence, PublishStateChange, NotifyWarning, Commit,
     RejectDuplicateLink, Fail, RollBack, storeVars

LEMMA RequestKeepsLocks ==
    ASSUME TypeInv, NEW p \in Request, ReqStep(p),
           NEW q \in Request \ {p}, NEW d \in Task, lock[d] = q
    PROVE  lock'[d] = q
<1>1. CASE UNCHANGED lock \/ lock' = Released(p)
  BY <1>1 DEF Released
<1>2. CASE FlushResolve(p)
  <2>1. req[p].dec # d
    BY <1>2, StoreAssumption DEF FlushResolve, MayLock, Txn
  <2> QED
    BY <1>2, <2>1 DEF FlushResolve, Locked, TypeInv, TypeOK, StoreTypeOK
<1> QED
  BY <1>1, <1>2 DEF ReqStep, FetchDecision, ResolveProgress, LoadForResolve,
     RejectSecondFeedback, PublishResolved, CommitResolve, FailResolve, storeVars

LEMMA TaskResolveStep ==
    ASSUME TypeInv, AuditInv, ResolveInv, NEW t \in Task, AggStep(t)
    PROVE  TaskResolve(t)'
<1>t. TaskResolve(t) /\ agg[t] \in AggTxn /\ agg \in [Task -> AggTxn]
  BY DEF ResolveInv, TypeInv, TypeOK, AggTypeOK
<1>1. CASE GetDecision(t)
  <2>1. /\ ~Committed(t)
        /\ Working(t)' => /\ agg'[t].current = agg'[t].loaded
                          /\ agg'[t].dec = agg[t].dec /\ Committed(agg[t].dec)
    BY <1>1, <1>t DEF GetDecision, Working, Committed, At, AggTxn, AuditInv,
       TaskAudit
  <2> QED
    BY <2>1 DEF TaskResolve
<1>2. CASE CreateDecision(t)
  <2>1. agg'[t].current = NewDecision(t) /\ agg'[t].loaded = NewDecision(t)
    BY <1>2, <1>t DEF CreateDecision, AggTxn
  <2> QED
    BY <2>1 DEF TaskResolve, NewDecision
<1>3. CASE LinkEvidence(t)
  <2>1. /\ Working(t) /\ agg[t].loaded \in DecisionRow
        /\ agg'[t].dec = agg[t].dec /\ agg'[t].loaded = agg[t].loaded
    BY <1>3, <1>t DEF LinkEvidence, At, Working, AggTxn, TypeInv, AggShape
  <2>2. agg'[t].current.resolvedBy = agg[t].loaded.resolvedBy
    <3> DEFINE new == {LinkOf(t)} \ links
               row == IF new = {} THEN agg[t].loaded
                      ELSE WithEvidence(agg[t].loaded, EvidenceOf[t])
    <3>1. row \in DecisionRow /\ row.resolvedBy = agg[t].loaded.resolvedBy
      <4>1. WithEvidence(agg[t].loaded, EvidenceOf[t]).resolvedBy
              = agg[t].loaded.resolvedBy
        BY <2>1 DEF WithEvidence, DecisionRow
      <4> QED
        BY <2>1, <4>1, WithEvidenceType, StoreAssumption
    <3>2. agg'[t].current = [row EXCEPT !.state = ComputeState(row)]
      BY <1>3, <1>t DEF LinkEvidence, AggTxn
    <3> HIDE DEF row
    <3> QED
      BY <3>1, <3>2 DEF DecisionRow
  <2> QED
    BY <1>t, <2>1, <2>2 DEF TaskResolve, Working
<1>4. CASE \E p \in AggPc : Goto(t, p) /\ (Working(t)' => Working(t))
  BY <1>4, <1>t DEF TaskResolve, Working, Goto, AggTxn
<1>5. CASE ReadOpenKey(t)
  BY <1>5, <1>t DEF TaskResolve, Working, ReadOpenKey, AggTxn
<1> QED
  BY <1>1, <1>2, <1>3, <1>4, <1>5, <1>t DEF AggStep, AggProgress, DropOpenKey,
     FlushStateChange, PublishStateChange, NotifyWarning, Commit,
     RejectDuplicateLink, Fail, RollBack, Goto, AggPc, AggTxn, Working, At

LEMMA ResolveStepTask ==
    ASSUME TypeInv, AuditInv, ResolveInv, NEW t \in Task, AggStep(t)
    PROVE  ResolveInv'
<1>1. /\ \A u \in Task \ {t} : agg'[u] = agg[u]
      /\ UNCHANGED << req, feedback >>
      /\ Commit(t) \/ UNCHANGED tables
  BY TaskFrame
<1>2. \A u \in Task : TaskResolve(u)'
  BY <1>1, TaskResolveStep DEF ResolveInv, TaskResolve, Working
<1>3. ASSUME \A q \in Request : Untouched(q) => Untouched(q)'
      PROVE  \A q \in Request : ReqResolve(q)'
  <2> TAKE q \in Request
  <2>1. ASSUME req[q].pc \in {"publish", "commit"}
        PROVE  req[q].dec \in Task /\ Committed(req[q].dec)
    BY <2>1 DEF Resolving, TypeInv, TypeOK, ReqTypeOK, ReqTxn, ReqShape
  <2> QED
    BY <1>1, <1>3, <2>1, TaskKeepsLocks, ReqResolveKept
<1>4. CASE UNCHANGED tables
  <2>1. \A q \in Request : Untouched(q) => Untouched(q)'
    BY <1>4 DEF Untouched, Committed, tables
  <2> QED
    BY <1>2, <1>3, <1>4, <2>1, ResolveQuiet
<1>5. CASE Commit(t)
  <2>1. PICK d \in Task : d = agg[t].dec /\ Commits(t, d)
    BY <1>5, CommitFacts
  <2>2. /\ \A x \in Task \ {d} : /\ decisions'[x] = decisions[x]
                                 /\ audit'[x] = audit[x]
                                 /\ Committed(x)' = Committed(x)
        /\ UNCHANGED feedback /\ Committed(d)'
        /\ d = t \/ Committed(d)
    BY <2>1 DEF Commits
  <2>3. d = t => ~Committed(d)
    BY <1>5 DEF Commit, At, AuditInv, TaskAudit
  <2>4. IF d = t THEN decisions'[d].resolvedBy = None
                 ELSE decisions'[d].resolvedBy = decisions[d].resolvedBy
    <3>1. /\ agg[t].current.resolvedBy = agg[t].loaded.resolvedBy
          /\ d = t => agg[t].loaded.resolvedBy = None
      BY <1>5, <2>1 DEF ResolveInv, TaskResolve, Commit, Working, At
    <3>2. decisions'[d] = IF d = t THEN agg[t].current
                          ELSE Updated(decisions[d], agg[t].loaded,
                                       agg[t].current, t)
      BY <1>5, <2>1 DEF Commit, TypeInv, TypeOK, StoreTypeOK
    <3> QED
      BY <3>1, <3>2 DEF Updated, Column
  <2>5. \/ audit'[d] = audit[d]
        \/ \E e \in AuditEntry : /\ e.event = "state_change" /\ e.by = t
                                 /\ audit'[d] = Append(audit[d], e)
    BY <2>1 DEF Commits
  <2>6. audit[d] \in Seq(AuditEntry)
    BY DEF TypeInv, TypeOK, StoreTypeOK
  <2>7. /\ { i \in DOMAIN audit'[d] : audit'[d][i].event = "resolved" }
             = { i \in DOMAIN audit[d] : audit[d][i].event = "resolved" }
        /\ \A i \in DOMAIN audit'[d] :
             \/ i \in DOMAIN audit[d] /\ audit'[d][i] = audit[d][i]
             \/ audit'[d][i].event = "state_change" /\ audit'[d][i].by = t
        /\ \A i \in DOMAIN audit[d] :
             i \in DOMAIN audit'[d] /\ audit'[d][i] = audit[d][i]
    <3>1. CASE audit'[d] = audit[d]
      BY <3>1
    <3>2. ASSUME NEW e \in AuditEntry, e.event = "state_change", e.by = t,
                 audit'[d] = Append(audit[d], e)
          PROVE  /\ \A i \in DOMAIN audit'[d] :
                      \/ i \in DOMAIN audit[d] /\ audit'[d][i] = audit[d][i]
                      \/ audit'[d][i].event = "state_change" /\ audit'[d][i].by = t
                 /\ \A i \in DOMAIN audit[d] :
                      i \in DOMAIN audit'[d] /\ audit'[d][i] = audit[d][i]
      BY <2>6, <3>2, AppendFacts
    <3> QED
      BY <2>5, <3>1, <3>2
  <2>8. \A q \in Request : Untouched(q) => Untouched(q)'
    <3> SUFFICES ASSUME NEW q \in Request, Untouched(q), NEW x \in Task
                 PROVE  /\ feedback'[x] # None => feedback'[x].by # q
                        /\ Committed(x)' => decisions'[x].resolvedBy # q
                        /\ \A i \in DOMAIN audit'[x] : audit'[x][i].by # q
      BY DEF Untouched
    <3>1. q # t /\ q # None
      BY StoreAssumption DEF Txn
    <3>2. CASE x # d
      BY <2>2, <3>2 DEF Untouched
    <3>3. CASE x = d
      BY <2>2, <2>4, <2>7, <3>1, <3>3 DEF Untouched
    <3> QED
      BY <3>2, <3>3
  <2>9. OneResolution'
    <3>1. ASSUME NEW x \in Task, feedback[x] = None
          PROVE  /\ { i \in DOMAIN audit'[x] : audit'[x][i].event = "resolved" } = {}
                 /\ Committed(x)' => decisions'[x].resolvedBy = None
      BY <2>2, <2>4, <2>7, <3>1 DEF ResolveInv, OneResolution
    <3>2. ASSUME NEW x \in Task, feedback[x] # None
          PROVE  /\ Committed(x)'
                 /\ decisions'[x].resolvedBy = feedback[x].by
                 /\ \E i \in DOMAIN audit'[x] :
                      /\ { j \in DOMAIN audit'[x] :
                             audit'[x][j].event = "resolved" } = {i}
                      /\ audit'[x][i].by = feedback[x].by
                      /\ audit'[x][i].to = feedback[x].state
      <4>1. /\ Committed(x) /\ decisions[x].resolvedBy = feedback[x].by
            /\ \E i \in DOMAIN audit[x] :
                 /\ { j \in DOMAIN audit[x] : audit[x][j].event = "resolved" } = {i}
                 /\ audit[x][i].by = feedback[x].by
                 /\ audit[x][i].to = feedback[x].state
        BY <3>2 DEF ResolveInv, OneResolution
      <4> QED
        BY <2>2, <2>3, <2>4, <2>7, <4>1
    <3> QED
      BY <2>2, <3>1, <3>2 DEF OneResolution
  <2> QED
    BY <1>2, <1>3, <2>8, <2>9 DEF ResolveInv
<1> QED
  BY <1>1, <1>4, <1>5

\* The request's own clauses, when it does not commit.
LEMMA ReqResolveStep ==
    ASSUME TypeInv, AuditInv, ResolveInv, NEW q \in Request, ReqStep(q),
           UNCHANGED tables
    PROVE  ReqResolve(q)'
<1>t. ReqResolve(q) /\ req \in [Request -> ReqTxn] /\ req[q] \in ReqTxn
  BY DEF ResolveInv, TypeInv, TypeOK, ReqTypeOK
<1>u. Untouched(q) => Untouched(q)'
  BY DEF Untouched, Committed, tables
<1>1. CASE \E reply \in Reply : ~Answered(q) /\ Answer(q, reply)
  <2>1. req'[q].pc = "answered" /\ Untouched(q)'
    BY <1>1, <1>t, <1>u DEF Answer, ReqResolve, ReqTxn
  <2> QED
    BY <2>1 DEF ReqResolve, Resolving
<1>2. CASE FetchDecision(q)
  <2>1. req'[q].pc = "viewed" /\ ~Answered(q)
    BY <1>2, <1>t DEF FetchDecision, ReqTxn, Answered
  <2> QED
    BY <1>t, <1>u, <2>1 DEF ReqResolve, Resolving
<1>3. CASE FlushResolve(q)
  <2>1. /\ req'[q] = [req[q] EXCEPT !.pc = "publish"] /\ req[q].pc = "flush"
        /\ req[q].dec \in Task
    BY <1>3, <1>t DEF FlushResolve, Resolving, TypeInv, ReqShape, ReqTxn
  <2>2. lock'[req[q].dec] = q /\ feedback'[req[q].dec] = None
    BY <1>3, <2>1 DEF FlushResolve, Locked, TypeInv, TypeOK, StoreTypeOK
  <2> QED
    BY <1>t, <1>u, <2>1, <2>2 DEF ReqResolve, Resolving, Answered, ReqTxn
<1>4. CASE PublishResolved(q)
  <2>1. /\ req'[q] = [req[q] EXCEPT !.pc = "commit"] /\ req[q].pc = "publish"
        /\ UNCHANGED << lock, feedback >>
    BY <1>4, <1>t DEF PublishResolved
  <2> QED
    BY <1>t, <1>u, <2>1 DEF ReqResolve, Resolving, Answered, ReqTxn
<1>5. CASE LoadForResolve(q) /\ ~ \E reply \in Reply : Answer(q, reply)
  <2>1. PICK s \in Resolved :
          req' = [req EXCEPT
                    ![q].pc = "flush",
                    ![q].loaded = decisions[req[q].dec],
                    ![q].current = [decisions[req[q].dec] EXCEPT
                                      !.state = s, !.resolvedBy = q]]
    <3>1. \A disposition \in Dispositions[q] :
             DispositionToState[disposition] \in Resolved
      BY StoreAssumption DEF DispositionToState, Resolved
    <3> QED
      BY <1>5, <3>1 DEF LoadForResolve, Reply
  <2>2. /\ decisions[req[q].dec] \in DecisionRow /\ req[q].dec \in Task
        /\ ~Answered(q) /\ Committed(req[q].dec)
    BY <1>5, <1>t DEF LoadForResolve, Answered, Committed, TypeInv, TypeOK,
       StoreTypeOK, ReqTxn, ReqShape
  <2>3. decisions[req[q].dec].resolvedBy # q
    BY <1>t, <2>2 DEF ReqResolve, Untouched
  <2>4. /\ req'[q].pc = "flush" /\ req'[q].loaded = decisions[req[q].dec]
        /\ req'[q].current.resolvedBy = q
    <3> DEFINE row == decisions[req[q].dec]
               next == [row EXCEPT !.state = s, !.resolvedBy = q]
    <3>1. next.resolvedBy = q
      BY <2>2 DEF DecisionRow
    <3>2. req' = [req EXCEPT ![q].pc = "flush", ![q].loaded = row,
                             ![q].current = next]
      BY <2>1
    <3> HIDE DEF next, row
    <3>3. /\ req'[q].pc = "flush" /\ req'[q].loaded = row
          /\ req'[q].current = next
      BY <1>t, <3>2 DEF ReqTxn
    <3> QED
      BY <3>1, <3>3 DEF row
  <2> QED
    BY <1>t, <1>u, <2>2, <2>3, <2>4 DEF ReqResolve
<1>6. ~CommitResolve(q)
  <2>1. ASSUME CommitResolve(q) PROVE FALSE
    <3>1. feedback[req[q].dec] = None
      BY <1>t, <2>1 DEF CommitResolve, ReqResolve
    <3> QED
      BY <2>1, <3>1, CommitResolveFacts DEF CommitsResolve, tables
  <2> QED
    BY <2>1
<1> QED
  BY <1>1, <1>2, <1>3, <1>4, <1>5, <1>6 DEF ReqStep, ResolveProgress,
     LoadForResolve, RejectSecondFeedback, FailResolve, Answered, Reply

LEMMA ResolveStepReq ==
    ASSUME TypeInv, AuditInv, ResolveInv, NEW q \in Request, ReqStep(q)
    PROVE  ResolveInv'
<1>1. /\ \A p \in Request \ {q} : req'[p] = req[p]
      /\ UNCHANGED agg
      /\ CommitResolve(q) \/ UNCHANGED tables
  BY RequestFrame
<1>2. \A u \in Task : TaskResolve(u)'
  BY <1>1 DEF ResolveInv, TaskResolve, Working
<1>3. CASE UNCHANGED tables
  <2>1. \A p \in Request : Untouched(p) => Untouched(p)'
    BY <1>3 DEF Untouched, Committed, tables
  <2>2. ASSUME NEW p \in Request \ {q} PROVE ReqResolve(p)'
    <3>1. req[p].pc \in {"publish", "commit"} => req[p].dec \in Task
      BY DEF Resolving, TypeInv, TypeOK, ReqTypeOK, ReqTxn, ReqShape
    <3> QED
      BY <1>1, <1>3, <2>1, <3>1, RequestKeepsLocks, ReqResolveKept DEF tables
  <2>3. ReqResolve(q)'
    BY <1>3, ReqResolveStep
  <2> QED
    BY <1>2, <1>3, <2>2, <2>3, ResolveQuiet
<1>4. CASE CommitResolve(q)
  <2>1. PICK d \in Task : d = req[q].dec /\ CommitsResolve(q, d)
    BY <1>4, CommitResolveFacts
  <2> DEFINE entry == [ event |-> "resolved", to |-> req[q].current.state,
                        by |-> q ]
             last == Len(audit[d]) + 1
  <2>2. /\ Committed(d) /\ Committed(d)' /\ entry \in AuditEntry
        /\ audit[d] \in Seq(AuditEntry) /\ audit'[d] = Append(audit[d], entry)
        /\ feedback'[d] = [ state |-> req[q].current.state, by |-> q ]
        /\ feedback'[d] # None
        /\ decisions'[d] = Updated(decisions[d], req[q].loaded,
                                   req[q].current, q)
    BY <2>1 DEF CommitsResolve
  <2>3. /\ \A x \in Task \ {d} : /\ decisions'[x] = decisions[x]
                                 /\ audit'[x] = audit[x]
                                 /\ feedback'[x] = feedback[x]
                                 /\ Committed(x)' = Committed(x)
        /\ req'[q] = [req[q] EXCEPT !.pc = "answered", !.reply = "ok"]
        /\ lock' = Released(q)
    BY <2>1 DEF CommitsResolve
  <2>4. /\ feedback[d] = None /\ lock[d] = q
        /\ req[q].current.resolvedBy = q /\ req[q].loaded.resolvedBy # q
    BY <1>4, <2>1 DEF CommitResolve, Resolving, ResolveInv, ReqResolve
  <2>5. decisions'[d].resolvedBy = q
    BY <2>2, <2>4 DEF Updated, Column
  <2>6. /\ last \in DOMAIN audit'[d] /\ last \notin DOMAIN audit[d]
        /\ audit'[d][last] = entry
        /\ \A i \in DOMAIN audit[d] : /\ i \in DOMAIN audit'[d]
                                      /\ audit'[d][i] = audit[d][i]
        /\ \A i \in DOMAIN audit'[d] : i \in DOMAIN audit[d] \/ i = last
    <3> HIDE DEF entry
    <3> QED
      BY <2>2, AppendFacts
  <2>7. OneResolution'
    <3>1. { i \in DOMAIN audit[d] : audit[d][i].event = "resolved" } = {}
      BY <2>4 DEF ResolveInv, OneResolution
    <3>2. { i \in DOMAIN audit'[d] : audit'[d][i].event = "resolved" } = {last}
      BY <2>6, <3>1
    <3>3. \E i \in DOMAIN audit'[d] :
            /\ { j \in DOMAIN audit'[d] : audit'[d][j].event = "resolved" } = {i}
            /\ audit'[d][i].by = feedback'[d].by
            /\ audit'[d][i].to = feedback'[d].state
      BY <2>2, <2>6, <3>2
    <3>4. /\ Committed(d)' /\ decisions'[d].resolvedBy = feedback'[d].by
          /\ feedback'[d] # None
      BY <2>2, <2>5
    <3> SUFFICES ASSUME NEW x \in Task
                 PROVE  LET resolutions == { i \in DOMAIN audit'[x] :
                                               audit'[x][i].event = "resolved" }
                        IN  IF feedback'[x] = None
                            THEN /\ resolutions = {}
                                 /\ Committed(x)' => decisions'[x].resolvedBy = None
                            ELSE /\ Committed(x)'
                                 /\ decisions'[x].resolvedBy = feedback'[x].by
                                 /\ \E i \in DOMAIN audit'[x] :
                                      /\ resolutions = {i}
                                      /\ audit'[x][i].by = feedback'[x].by
                                      /\ audit'[x][i].to = feedback'[x].state
      BY DEF OneResolution
    <3>5. CASE x = d
      BY <3>3, <3>4, <3>5
    <3>6. CASE x # d
      BY <2>3, <3>6 DEF ResolveInv, OneResolution
    <3> QED
      BY <3>5, <3>6
  <2>8. \A p \in Request \ {q} : Untouched(p) => Untouched(p)'
    <3> SUFFICES ASSUME NEW p \in Request \ {q}, Untouched(p), NEW x \in Task
                 PROVE  /\ feedback'[x] # None => feedback'[x].by # p
                        /\ Committed(x)' => decisions'[x].resolvedBy # p
                        /\ \A i \in DOMAIN audit'[x] : audit'[x][i].by # p
      BY DEF Untouched
    <3>1. CASE x # d
      BY <2>3, <3>1 DEF Untouched
    <3>2. CASE x = d
      <4>1. feedback'[d].by = q /\ decisions'[d].resolvedBy = q /\ entry.by = q
        BY <2>2, <2>5
      <4>2. \A i \in DOMAIN audit[d] : audit[d][i].by # p
        BY DEF Untouched
      <4> HIDE DEF entry, last
      <4>3. ASSUME NEW i \in DOMAIN audit'[d] PROVE audit'[d][i].by # p
        <5>1. CASE i = last
          BY <2>6, <4>1, <5>1
        <5>2. CASE i \in DOMAIN audit[d]
          BY <2>6, <4>2, <5>2
        <5> QED
          BY <2>6, <5>1, <5>2
      <4> QED
        BY <3>2, <4>1, <4>3
    <3> QED
      BY <3>1, <3>2
  <2>9. ASSUME NEW p \in Request \ {q} PROVE ReqResolve(p)'
    <3>1. ASSUME req[p].pc \in {"publish", "commit"}
          PROVE  /\ req[p].dec \in Task \ {d}
                 /\ lock[req[p].dec] = p /\ feedback[req[p].dec] = None
      BY <2>4, <3>1 DEF ResolveInv, ReqResolve, Resolving, TypeInv, TypeOK,
         ReqTypeOK, ReqTxn, ReqShape
    <3>2. ASSUME req[p].pc \in {"publish", "commit"}
          PROVE  /\ feedback'[req[p].dec] = feedback[req[p].dec]
                 /\ lock'[req[p].dec] = p
      BY <2>3, <3>1, <3>2 DEF Released
    <3> QED
      BY <1>1, <2>8, <3>2, ReqResolveKept
  <2>10. ReqResolve(q)'
    BY <2>3 DEF ReqResolve, Resolving, Answered, TypeInv, TypeOK, ReqTypeOK,
       ReqTxn
  <2> QED
    BY <1>2, <2>7, <2>9, <2>10 DEF ResolveInv
<1> QED
  BY <1>1, <1>3, <1>4

LEMMA ResolveStep == TypeInv /\ AuditInv /\ ResolveInv /\ [Next]_vars => ResolveInv'
<1> SUFFICES ASSUME TypeInv, AuditInv, ResolveInv, [Next]_vars PROVE ResolveInv'
  OBVIOUS
<1>1. ASSUME NEW t \in Task, AggStep(t) PROVE ResolveInv'
  BY <1>1, ResolveStepTask
<1>2. ASSUME NEW q \in Request, ReqStep(q) PROVE ResolveInv'
  BY <1>2, ResolveStepReq
<1>3. CASE UNCHANGED << decisions, audit, feedback, lock, agg, req >>
  BY <1>3 DEF ResolveInv, OneResolution, TaskResolve, ReqResolve, Untouched,
     Committed, Working, Resolving, Answered
<1> QED
  BY <1>1, <1>2, <1>3 DEF Next, Quiescent, ExpireOpenKey, vars, storeVars, Begin

LEMMA ResolveInvariant == Spec => [](TypeInv /\ AuditInv /\ ResolveInv)
<1>1. Init => TypeInv /\ AuditInv /\ ResolveInv
  BY TypeInit, AuditInit, ResolveInit
<1>2. TypeInv /\ AuditInv /\ ResolveInv /\ [Next]_vars
        => (TypeInv /\ AuditInv /\ ResolveInv)'
  BY TypeStep, AuditStep, ResolveStep
<1> QED
  BY <1>1, <1>2, PTL DEF Spec

\* However many watchers and tasks race on it, a decision has at most one
\* feedback row and one audit record of a resolution, and the two and
\* resolved_by name the same watcher and the same verdict.
THEOREM ResolvedOnce == Spec => []OneResolution
<1>1. ResolveInv => OneResolution
  BY DEF ResolveInv
<1> QED
  BY <1>1, ResolveInvariant, PTL

\* A watcher who gets any answer but 200 has left no feedback, no audit record
\* and no resolved_by behind.
THEOREM RefusalIsClean == Spec => []RefusedLeavesNothing
<1>1. ResolveInv => RefusedLeavesNothing
  BY DEF ResolveInv, ReqResolve, Untouched, RefusedLeavesNothing
<1> QED
  BY <1>1, ResolveInvariant, PTL

\* No step of any transaction takes back or hands over a committed resolution.
THEOREM ResolutionLasts == Spec => ResolutionKept
<1> DEFINE Kept == \A d \in Task :
                     (Committed(d) /\ decisions[d].resolvedBy # None) =>
                         decisions'[d].resolvedBy = decisions[d].resolvedBy
<1>1. ASSUME TypeInv, AuditInv, ResolveInv, [Next]_vars PROVE Kept
  <2>1. ASSUME NEW t \in Task, Commit(t) PROVE Kept
    <3>1. PICK d \in Task : d = agg[t].dec /\ Commits(t, d)
      BY <1>1, <2>1, CommitFacts
    <3>2. \A x \in Task \ {d} : decisions'[x] = decisions[x]
      BY <3>1 DEF Commits
    <3>3. agg[t].current.resolvedBy = agg[t].loaded.resolvedBy
      BY <1>1, <2>1 DEF ResolveInv, TaskResolve, Commit, Working, At
    <3>4. d # t => decisions'[d] = Updated(decisions[d], agg[t].loaded,
                                           agg[t].current, t)
      BY <1>1, <2>1, <3>1 DEF Commit, TypeInv, TypeOK, StoreTypeOK
    <3>5. d # t => decisions'[d].resolvedBy = decisions[d].resolvedBy
      BY <3>3, <3>4 DEF Updated, Column
    <3>6. d = t => ~Committed(d)
      BY <1>1, <2>1 DEF Commit, At, AuditInv, TaskAudit
    <3> QED
      BY <3>2, <3>5, <3>6
  <2>2. ASSUME NEW q \in Request, CommitResolve(q) PROVE Kept
    <3>1. PICK d \in Task : d = req[q].dec /\ CommitsResolve(q, d)
      BY <1>1, <2>2, CommitResolveFacts
    <3>2. \A x \in Task \ {d} : decisions'[x] = decisions[x]
      BY <1>1, <2>2, <3>1 DEF CommitResolve, TypeInv, TypeOK, StoreTypeOK
    <3>3. feedback[d] = None
      BY <1>1, <2>2, <3>1 DEF CommitResolve, ResolveInv, ReqResolve
    <3>4. Committed(d) => decisions[d].resolvedBy = None
      BY <1>1, <3>3 DEF ResolveInv, OneResolution
    <3> QED
      BY <3>2, <3>4
  <2>3. CASE UNCHANGED decisions
    BY <2>3
  <2> QED
    BY <1>1, <2>1, <2>2, <2>3, TaskFrame, RequestFrame
       DEF Next, Quiescent, ExpireOpenKey, vars, storeVars, tables, Begin
<1>2. ResolutionKept <=> [][Kept]_vars
  BY DEF ResolutionKept
<1> QED
  BY <1>1, <1>2, ResolveInvariant, PTL DEF Spec

=============================================================================
