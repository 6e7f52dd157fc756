---------------------------- MODULE TenancyProofs ---------------------------
(***************************************************************************)
(* Theorems about Tenancy: whose settings a session runs under, what it    *)
(* reads and what it leaves behind, for every set of calls, sessions and   *)
(* connections.  The invariants grow from one theorem to the next: shape   *)
(* and settings, what was seen, what was written and types (Sound); unique *)
(* values, what handlers have found and where references go (Linked); and  *)
(* from these, each on its own, what readers of several statements see     *)
(* (Reads, Listings) and how far the seeds are (Seeding, Queueing).        *)
(***************************************************************************)
EXTENDS Tenancy, TLAPS

\* Sessions are records of the same fields, whatever the steps put into them.
Fields == {"pc", "call", "auth", "conn", "step", "own", "added", "seen", "reply"}

Shape ==
    /\ DOMAIN sess = Session
    /\ \A s \in Session : DOMAIN sess[s] = Fields
    /\ DOMAIN settings = Conn

Active(pc) == pc \in {"open", "running", "commit"}
Holds(pc)  == pc \in {"open", "running", "commit", "key", "leaving", "failed"}

\* Connections are held by one session at most, free ones carry no settings, and
\* a session in its transaction has the settings of its own context.
ContextInv ==
    /\ \A s \in Session : sess[s].conn \in Conn \cup {None}
    /\ \A s \in Session : sess[s].conn # None <=> Holds(sess[s].pc)
    /\ \A s, o \in Session : s # o /\ sess[s].conn # None => sess[s].conn # sess[o].conn
    /\ \A c \in Conn : Free(c) => settings[c] = NoContext
    /\ \A s \in Session : Active(sess[s].pc) => Here(s) = ContextOf(s)

LEMMA InitShape == TenancyInit => Shape
<1> SUFFICES ASSUME TenancyInit PROVE Shape
  OBVIOUS
<1>1. PICK calls \in Scenarios : sess = [s \in Session |-> NewSession(calls[s])]
  BY DEF TenancyInit
<1>2. DOMAIN sess = Session /\ DOMAIN settings = Conn
  BY <1>1 DEF TenancyInit
<1>3. ASSUME NEW s \in Session PROVE DOMAIN sess[s] = Fields
  BY <1>1 DEF NewSession, Fields
<1> QED
  BY <1>2, <1>3 DEF Shape

LEMMA ShapeKept ==
    ASSUME Shape, TenancyNext PROVE Shape'
<1> PICK s \in Session :
      \/ Arrive(s) \/ PoolTimeout(s) \/ Begin(s) \/ Read(s) \/ Insert(s)
      \/ SeedStep(s) \/ Commit(s) \/ SetActiveMode(s) \/ Fail(s) \/ CloseSession(s)
      \/ \E c \in Conn : OpenSession(s, c)
  BY DEF TenancyNext
<1>0. DOMAIN settings' = Conn
  BY DEF Shape, Arrive, PoolTimeout, Begin, Read, Insert, SeedStep, Commit,
         SetActiveMode, Fail, CloseSession, OpenSession
<1>1. CASE Arrive(s)
  BY <1>0, <1>1 DEF Shape, Arrive
<1>2. CASE PoolTimeout(s)
  BY <1>0, <1>2 DEF Shape, PoolTimeout
<1>3. CASE Begin(s)
  BY <1>0, <1>3 DEF Shape, Begin, Failed
<1>4. CASE Read(s)
  BY <1>0, <1>4 DEF Shape, Read, Failed
<1>5. CASE Insert(s)
  BY <1>0, <1>5 DEF Shape, Insert, Failed
<1>6. CASE SeedStep(s)
  BY <1>0, <1>6 DEF Shape, SeedStep, Failed
<1>7. CASE Commit(s)
  BY <1>0, <1>7 DEF Shape, Commit
<1>8. CASE SetActiveMode(s)
  BY <1>0, <1>8 DEF Shape, SetActiveMode
<1>9. CASE Fail(s)
  <2>1. PICK status : sess' = Failed(s, status)
    BY <1>9 DEF Fail
  <2> QED
    BY <1>0, <2>1 DEF Shape, Failed
<1>10. CASE CloseSession(s)
  BY <1>0, <1>10 DEF Shape, CloseSession
<1>11. CASE \E c \in Conn : OpenSession(s, c)
  BY <1>0, <1>11 DEF Shape, OpenSession
<1> QED
  BY <1>1, <1>2, <1>3, <1>4, <1>5, <1>6, <1>7, <1>8, <1>9, <1>10, <1>11

\* A step of the seed fails, or flushes and goes on.
LEMMA SeedStepUpdates ==
    ASSUME NEW s \in Session, SeedStep(s)
    PROVE  \/ sess' = Failed(s, 500)
           \/ \E own, added, step, pc :
                /\ sess' = [sess EXCEPT ![s].own = own, ![s].added = added,
                                        ![s].step = step, ![s].pc = pc]
                /\ pc \in {"open", "commit"}
<1>1. CASE Rejected(s, sess[s].added)
  BY <1>1 DEF SeedStep
<1>2. CASE ~Rejected(s, sess[s].added)
  BY <1>2, ZenonT(60) DEF SeedStep
<1> QED
  BY <1>1, <1>2

\* So does a SELECT of a handler.
LEMMA ReadUpdates ==
    ASSUME NEW s \in Session, Read(s)
    PROVE  \/ sess' = Failed(s, 500)
           \/ \E seen, step, pc, reply :
                /\ sess' = [sess EXCEPT ![s].seen = seen, ![s].step = step,
                                        ![s].pc = pc, ![s].reply = reply]
                /\ pc \in {"commit", "running"}
BY ZenonT(60) DEF Read

\* A handler begins with a refusal, a 404, or what its gets have found.
LEMMA BeginUpdates ==
    ASSUME NEW s \in Session, Begin(s)
    PROVE  LET asked == { id \in sess[s].call.refs : id[1] \in Of(s).loads }
           IN  \/ sess' = Failed(s, 403)
               \/ sess' = Failed(s, 404)
               \/ sess' = [sess EXCEPT ![s].pc = "running", ![s].step = 1,
                                       ![s].seen = UNION { Loaded(s, id) : id \in asked }]
<1> DEFINE asked   == { id \in sess[s].call.refs : id[1] \in Of(s).loads }
           refused == Of(s).roles # {} /\ ~HasRole(sess[s].auth, Of(s).roles)
           missing == \E id \in asked : Loaded(s, id) = {}
           begun   == [sess EXCEPT ![s].pc = "running", ![s].step = 1,
                                   ![s].seen = UNION { Loaded(s, id) : id \in asked }]
<1>1. sess' = IF refused THEN Failed(s, 403) ELSE IF missing THEN Failed(s, 404) ELSE begun
  BY Zenon DEF Begin
<1>2. sess' = Failed(s, 403) \/ sess' = Failed(s, 404) \/ sess' = begun
  <2> HIDE DEF refused, missing, begun
  <2> QED
    BY <1>1
<1> QED
  BY <1>2, Zenon

(* Steps that leave calls, identities and connections as they are.         *)
Still ==
    /\ settings' = settings
    /\ \A o \in Session :
        /\ sess'[o].call = sess[o].call
        /\ sess'[o].auth = sess[o].auth
        /\ sess'[o].conn = sess[o].conn
        /\ Active(sess'[o].pc) => Active(sess[o].pc)
        /\ Holds(sess'[o].pc) <=> Holds(sess[o].pc)

LEMMA StillSteps ==
    ASSUME Shape, NEW s \in Session,
           \/ Begin(s) \/ Read(s) \/ Insert(s) \/ SeedStep(s) \/ SetActiveMode(s) \/ Fail(s)
    PROVE  Still
<1>0. settings' = settings
  BY DEF Begin, Read, Insert, SeedStep, SetActiveMode, Fail
<1>2. CASE Begin(s)
  BY <1>0, <1>2 DEF Shape, Fields, Still, Active, Holds, Begin, Failed
<1>3. CASE Read(s)
  <2>1. sess[s].pc = "running"
    BY <1>3 DEF Read
  <2>2. CASE sess' = Failed(s, 500)
    BY <1>0, <2>1, <2>2 DEF Shape, Fields, Still, Active, Holds, Failed
  <2>3. CASE \E seen, step, pc, reply :
             /\ sess' = [sess EXCEPT ![s].seen = seen, ![s].step = step,
                                     ![s].pc = pc, ![s].reply = reply]
             /\ pc \in {"commit", "running"}
    BY <1>0, <2>1, <2>3 DEF Shape, Fields, Still, Active, Holds
  <2> QED
    BY <1>3, <2>2, <2>3, ReadUpdates
<1>4. CASE Insert(s)
  BY <1>0, <1>4 DEF Shape, Fields, Still, Active, Holds, Insert, Failed
<1>5. CASE SeedStep(s)
  <2>1. sess[s].pc = "open"
    BY <1>5 DEF SeedStep
  <2>2. CASE sess' = Failed(s, 500)
    BY <1>0, <2>1, <2>2 DEF Shape, Fields, Still, Active, Holds, Failed
  <2>3. CASE \E own, added, step, pc :
               /\ sess' = [sess EXCEPT ![s].own = own, ![s].added = added,
                                       ![s].step = step, ![s].pc = pc]
               /\ pc \in {"open", "commit"}
    BY <1>0, <2>1, <2>3 DEF Shape, Fields, Still, Active, Holds
  <2> QED
    BY <1>5, <2>2, <2>3, SeedStepUpdates
<1>6. CASE SetActiveMode(s)
  BY <1>0, <1>6 DEF Shape, Fields, Still, Active, Holds, SetActiveMode
<1>7. CASE Fail(s)
  <2>1. PICK status : sess' = Failed(s, status)
    BY <1>7 DEF Fail
  <2>2. sess[s].pc \in {"open", "running", "commit", "key"}
    BY <1>7 DEF Fail
  <2> QED
    BY <1>0, <2>1, <2>2 DEF Shape, Fields, Still, Active, Holds, Failed
<1> QED
  BY <1>2, <1>3, <1>4, <1>5, <1>6, <1>7

LEMMA StillKeepsContext ==
    ASSUME ContextInv, Still PROVE ContextInv'
<1>1. ASSUME NEW o \in Session PROVE ContextOf(o)' = ContextOf(o)
  BY DEF Still, ContextOf, Of, Tenant
<1>2. ASSUME NEW o \in Session PROVE Here(o)' = Here(o)
  BY DEF Still, Here
<1>3. ASSUME NEW c \in Conn PROVE Free(c)' <=> Free(c)
  BY DEF Still, Free
<1> QED
  BY <1>1, <1>2, <1>3 DEF ContextInv, Still


\* Another session's context depends on that session's record alone.
LEMMA OthersContext ==
    ASSUME NEW s \in Session, NEW o \in Session, sess'[o] = sess[o]
    PROVE  ContextOf(o)' = ContextOf(o)
BY DEF ContextOf, Of, Tenant

\* A session that has no connection before and after changes nobody's context.
LEMMA ArriveKeepsContext ==
    ASSUME Shape, ContextInv, TenancyAssumption, NEW s \in Session,
           Arrive(s) \/ PoolTimeout(s)
    PROVE  ContextInv'
<1>1. settings' = settings
  BY DEF Arrive, PoolTimeout
<1>2. /\ sess[s].pc \in {"idle", "waiting"}
      /\ sess'[s].pc \in {"waiting", "done"}
      /\ sess'[s].conn = sess[s].conn
  <2>1. CASE Arrive(s)
    BY <2>1 DEF Shape, Fields, Arrive
  <2>2. CASE PoolTimeout(s)
    BY <2>2 DEF Shape, Fields, PoolTimeout
  <2> QED
    BY <2>1, <2>2
<1>3. \A o \in Session : o # s => sess'[o] = sess[o]
  BY DEF Shape, Arrive, PoolTimeout
<1>4. \A o \in Session : sess'[o].conn = sess[o].conn
  BY <1>2, <1>3
<1>5. \A o \in Session : Holds(sess'[o].pc) <=> Holds(sess[o].pc)
  BY <1>2, <1>3 DEF Holds
<1>6. \A c \in Conn : Free(c)' <=> Free(c)
  BY <1>4 DEF Free
<1>7. ASSUME NEW o \in Session, Active(sess'[o].pc) PROVE Here(o)' = ContextOf(o)'
  <2>1. o # s
    BY <1>2, <1>7 DEF Active
  <2>2. ContextOf(o)' = ContextOf(o)
    BY <2>1, <1>3, OthersContext
  <2> QED
    BY <2>1, <2>2, <1>1, <1>3, <1>7 DEF ContextInv, Here
<1> QED
  BY <1>1, <1>4, <1>5, <1>6, <1>7 DEF ContextInv

\* set_session_context on a free connection yields the session's own context.
LEMMA OpenKeepsContext ==
    ASSUME Shape, ContextInv, TenancyAssumption, NEW s \in Session, NEW c \in Conn,
           OpenSession(s, c)
    PROVE  ContextInv'
<1>1. /\ sess[s].pc = "waiting"
      /\ sess'[s].pc = "open" /\ sess'[s].conn = c
      /\ sess'[s].call = sess[s].call /\ sess'[s].auth = sess[s].auth
      /\ c # None /\ Free(c)
  BY DEF Shape, Fields, OpenSession, TenancyAssumption
<1>2. \A o \in Session : o # s => sess'[o] = sess[o]
  BY DEF Shape, OpenSession
<1>3. \A d \in Conn : d # c => settings'[d] = settings[d]
  BY DEF Shape, OpenSession
<1>4. settings'[c] = SetSessionContext(settings[c], ContextOf(s))
  BY DEF Shape, OpenSession
<1>5. ContextOf(s)' = ContextOf(s)
  BY <1>1 DEF ContextOf, Of, Tenant
<1>6. SetSessionContext(NoContext, ContextOf(s)) = ContextOf(s)
  BY DEF SetSessionContext, NoContext, ContextOf
<1>7. settings'[c] = ContextOf(s)
  BY <1>1, <1>4, <1>6 DEF ContextInv
<1>8. \A o \in Session : sess[o].conn # c
  BY <1>1 DEF Free
<1>9. /\ \A o \in Session : sess'[o].conn \in Conn \cup {None}
      /\ \A o \in Session : sess'[o].conn # None <=> Holds(sess'[o].pc)
  BY <1>1, <1>2 DEF ContextInv, Holds
<1>10. \A o, p \in Session :
         o # p /\ sess'[o].conn # None => sess'[o].conn # sess'[p].conn
  BY <1>1, <1>2, <1>8 DEF ContextInv
<1>11. ASSUME NEW d \in Conn, Free(d)' PROVE settings'[d] = NoContext
  <2>1. d # c
    BY <1>1, <1>11 DEF Free
  <2>2. sess[s].conn = None
    BY <1>1 DEF ContextInv, Holds
  <2>3. Free(d)
    BY <1>2, <1>11, <2>2, TenancyAssumption DEF Free, TenancyAssumption
  <2> QED
    BY <2>1, <2>3, <1>3 DEF ContextInv
<1>12. ASSUME NEW o \in Session, Active(sess'[o].pc) PROVE Here(o)' = ContextOf(o)'
  <2>1. CASE o = s
    BY <2>1, <1>1, <1>5, <1>7 DEF Here
  <2>2. CASE o # s
    <3>1. ContextOf(o)' = ContextOf(o)
      BY <2>2, <1>2, OthersContext
    <3>2. sess[o].conn \in Conn /\ sess[o].conn # c
      BY <2>2, <1>2, <1>8, <1>12 DEF ContextInv, Active, Holds
    <3> QED
      BY <2>2, <3>1, <3>2, <1>2, <1>3, <1>12 DEF ContextInv, Here
  <2> QED
    BY <2>1, <2>2
<1> QED
  BY <1>9, <1>10, <1>11, <1>12 DEF ContextInv

\* COMMIT and ROLLBACK: the session keeps its connection or gives it back, and
\* its settings are gone either way.
LEMMA EndKeepsContext ==
    ASSUME Shape, ContextInv, TenancyAssumption, NEW s \in Session,
           Commit(s) \/ CloseSession(s)
    PROVE  ContextInv'
<1>1. /\ sess[s].pc \in {"commit", "failed", "leaving"}
      /\ ~Active(sess'[s].pc)
      /\ sess'[s].conn = IF Holds(sess'[s].pc) THEN sess[s].conn ELSE None
  <2>1. CASE Commit(s)
    <3>1. CASE Of(s).db = "seed"
      BY <2>1, <3>1 DEF Shape, Fields, Commit, Active, Holds
    <3>2. CASE Of(s).db # "seed" /\ sess[s].call.endpoint = "notify_warning"
      BY <2>1, <3>2 DEF Shape, Fields, Commit, Active, Holds
    <3>3. CASE Of(s).db # "seed" /\ sess[s].call.endpoint # "notify_warning"
      BY <2>1, <3>3 DEF Shape, Fields, Commit, Active, Holds
    <3> QED
      BY <3>1, <3>2, <3>3
  <2>2. CASE CloseSession(s)
    BY <2>2 DEF Shape, Fields, CloseSession, Active, Holds
  <2> QED
    BY <2>1, <2>2
<1>2. \A o \in Session : o # s => sess'[o] = sess[o]
  BY DEF Shape, Commit, CloseSession
<1> DEFINE c == sess[s].conn
<1>3. c \in Conn /\ c # None
  BY <1>1 DEF ContextInv, Holds
<1>4. /\ settings'[c] = NoContext
      /\ \A d \in Conn : d # c => settings'[d] = settings[d]
  BY <1>3 DEF Shape, Commit, CloseSession, AfterTransaction
<1>5. \A o \in Session : o # s => sess[o].conn # c
  BY <1>3 DEF ContextInv
<1>6. /\ \A o \in Session : sess'[o].conn \in Conn \cup {None}
      /\ \A o \in Session : sess'[o].conn # None <=> Holds(sess'[o].pc)
  BY <1>1, <1>2, <1>3 DEF ContextInv
<1>7. \A o, p \in Session :
         o # p /\ sess'[o].conn # None => sess'[o].conn # sess'[p].conn
  BY <1>1, <1>2, <1>3, <1>5 DEF ContextInv
<1>8. ASSUME NEW d \in Conn, Free(d)' PROVE settings'[d] = NoContext
  <2>1. CASE d = c
    BY <2>1, <1>4
  <2>2. CASE d # c
    <3>1. Free(d)
      BY <2>2, <1>2, <1>8 DEF Free
    <3> QED
      BY <2>2, <3>1, <1>4 DEF ContextInv
  <2> QED
    BY <2>1, <2>2
<1>9. ASSUME NEW o \in Session, Active(sess'[o].pc) PROVE Here(o)' = ContextOf(o)'
  <2>1. o # s
    BY <1>1, <1>9
  <2>2. ContextOf(o)' = ContextOf(o)
    BY <2>1, <1>2, OthersContext
  <2>3. sess[o].conn \in Conn /\ sess[o].conn # c
    BY <2>1, <1>2, <1>5, <1>9 DEF ContextInv, Active, Holds
  <2> QED
    BY <2>1, <2>2, <2>3, <1>2, <1>4, <1>9 DEF ContextInv, Here
<1> QED
  BY <1>6, <1>7, <1>8, <1>9 DEF ContextInv

LEMMA InitContext == ASSUME TenancyInit, TenancyAssumption PROVE ContextInv
<1>1. PICK calls \in Scenarios : sess = [s \in Session |-> NewSession(calls[s])]
  BY DEF TenancyInit
<1>2. \A s \in Session : sess[s].conn = None /\ sess[s].pc = "idle"
  BY <1>1 DEF NewSession
<1>3. \A c \in Conn : settings[c] = NoContext
  BY DEF TenancyInit
<1> QED
  BY <1>2, <1>3 DEF ContextInv, Holds, Active

LEMMA ContextKept == ASSUME Shape, ContextInv, TenancyNext PROVE ContextInv'
<1> PICK s \in Session :
      \/ Arrive(s) \/ PoolTimeout(s) \/ Begin(s) \/ Read(s) \/ Insert(s)
      \/ SeedStep(s) \/ Commit(s) \/ SetActiveMode(s) \/ Fail(s) \/ CloseSession(s)
      \/ \E c \in Conn : OpenSession(s, c)
  BY DEF TenancyNext
<1>1. CASE \/ Begin(s) \/ Read(s) \/ Insert(s) \/ SeedStep(s) \/ SetActiveMode(s) \/ Fail(s)
  BY <1>1, StillSteps, StillKeepsContext
<1>2. CASE Arrive(s) \/ PoolTimeout(s)
  BY <1>2, ArriveKeepsContext, TenancyAssumption
<1>3. CASE Commit(s) \/ CloseSession(s)
  BY <1>3, EndKeepsContext, TenancyAssumption
<1>4. CASE \E c \in Conn : OpenSession(s, c)
  BY <1>4, OpenKeepsContext, TenancyAssumption
<1> QED
  BY <1>1, <1>2, <1>3, <1>4

\* A session runs under the settings of its own caller and no connection that
\* is given back carries them along, however many sessions share the pool.
THEOREM OwnContext == TenancySpec => []ContextIsOwn
<1> DEFINE I == Shape /\ ContextInv
<1>1. TenancyInit => I
  BY InitShape, InitContext, TenancyAssumption
<1>2. I /\ [TenancyNext]_tenancyVars => I'
  <2>1. ASSUME I, TenancyNext PROVE I'
    BY <2>1, ShapeKept, ContextKept
  <2>2. ASSUME I, UNCHANGED tenancyVars PROVE I'
    <3>1. Shape'
      BY <2>2 DEF Shape, tenancyVars
    <3>2. Still
      BY <2>2 DEF Still, tenancyVars
    <3> QED
      BY <2>2, <3>1, <3>2, StillKeepsContext
  <2> QED
    BY <2>1, <2>2
<1>3. I => ContextIsOwn
  BY DEF ContextInv, ContextIsOwn, Active, Holds
<1> QED
  BY <1>1, <1>2, <1>3, PTL DEF TenancySpec

-----------------------------------------------------------------------------
(* Reads.  What a session has seen came through the policies under its own *)
(* context, which for the sessions of one tenant is never root's.          *)

Confined(s) == Of(s).db \in {"tenant", "tenant_job"}

\* A request that has been let in and not ended may go to the tenant it names.
Admitted(s) ==
    sess[s].pc \notin {"idle", "done"} /\ Of(s).db = "tenant"
        => TenantAccess(sess[s].auth, Tenant(s))

ReadInv ==
    \A s \in Session :
        /\ Admitted(s)
        /\ Confined(s) => \A r \in sess[s].seen : r.tenant = Tenant(s)

LEMMA VisibleIsOwn ==
    ASSUME ContextInv, NEW s \in Session, Active(sess[s].pc), Admitted(s),
           Confined(s), NEW r \in Visible(s)
    PROVE  r.tenant = Tenant(s)
<1>1. CanSee(ContextOf(s), r)
  BY DEF Visible, ContextInv
<1>2. CASE Of(s).db = "tenant"
  <2>1. TenantAccess(sess[s].auth, Tenant(s))
    BY <1>2 DEF Admitted, Active
  <2>2. CASE sess[s].auth.role = "root_admin"
    BY <1>1, <1>2, <2>2 DEF ContextOf, CanSee, OfTenant
  <2>3. CASE sess[s].auth.role # "root_admin"
    BY <1>1, <1>2, <2>1, <2>3 DEF ContextOf, CanSee, OfTenant, TenantAccess
  <2> QED
    BY <2>2, <2>3
<1>3. CASE Of(s).db = "tenant_job"
  BY <1>1, <1>3 DEF ContextOf, CanSee, OfTenant
<1> QED
  BY <1>2, <1>3 DEF Confined

\* Arrival lets a request of a tenant in only if it may go there.
LEMMA AdmissionChecksTenant ==
    ASSUME NEW call, Endpoint[call.endpoint].db = "tenant", Admission(call).status = 200
    PROVE  TenantAccess(Admission(call), call.tenant)
<1> DEFINE auth == AuthContextFromToken(call.token)
<1>1. Admission(call) = IF auth.status = 200 /\ ~TenantAccess(auth, call.tenant)
                        THEN Refused(403) ELSE auth
  BY DEF Admission
<1>2. Refused(403).status # 200
  BY DEF Refused
<1> QED
  BY <1>1, <1>2

\* What a step of s does to the calls of all and to the seen rows of the others.
LEMMA OnlyOwnSeen ==
    ASSUME Shape, NEW s \in Session,
           \/ Arrive(s) \/ PoolTimeout(s) \/ Begin(s) \/ Read(s) \/ Insert(s)
           \/ SeedStep(s) \/ Commit(s) \/ SetActiveMode(s) \/ Fail(s) \/ CloseSession(s)
           \/ \E c \in Conn : OpenSession(s, c)
    PROVE  /\ \A o \in Session : o # s => sess'[o] = sess[o]
           /\ sess'[s].call = sess[s].call
<1>1. CASE Fail(s)
  <2>1. PICK status : sess' = Failed(s, status)
    BY <1>1 DEF Fail
  <2> QED
    BY <2>1 DEF Shape, Fields, Failed
<1>2. CASE SeedStep(s)
  <2>1. CASE sess' = Failed(s, 500)
    BY <1>2, <2>1 DEF Shape, Fields, Failed
  <2>2. CASE \E own, added, step, pc :
               /\ sess' = [sess EXCEPT ![s].own = own, ![s].added = added,
                                       ![s].step = step, ![s].pc = pc]
               /\ pc \in {"open", "commit"}
    BY <1>2, <2>2 DEF Shape, Fields
  <2> QED
    BY <1>2, <2>1, <2>2, SeedStepUpdates
<1>3. CASE Insert(s)
  BY <1>3 DEF Shape, Fields, Insert, Failed
<1>4. CASE Read(s)
  <2>1. sess[s].pc = "running"
    BY <1>4 DEF Read
  <2>2. CASE sess' = Failed(s, 500)
    BY <2>1, <2>2 DEF Shape, Fields, Failed
  <2>3. CASE \E seen, step, pc, reply :
             /\ sess' = [sess EXCEPT ![s].seen = seen, ![s].step = step,
                                     ![s].pc = pc, ![s].reply = reply]
             /\ pc \in {"commit", "running"}
    BY <2>1, <2>3 DEF Shape, Fields
  <2> QED
    BY <1>4, <2>2, <2>3, ReadUpdates
<1>5. CASE Begin(s)
  BY <1>5 DEF Shape, Fields, Begin, Failed
<1>6. CASE Arrive(s) \/ PoolTimeout(s)
  BY <1>6 DEF Shape, Fields, Arrive, PoolTimeout
<1>7. CASE Commit(s)
  BY <1>7 DEF Shape, Fields, Commit
<1>8. CASE SetActiveMode(s) \/ CloseSession(s)
  BY <1>8 DEF Shape, Fields, SetActiveMode, CloseSession
<1>9. CASE \E c \in Conn : OpenSession(s, c)
  <2>1. PICK c \in Conn : OpenSession(s, c)
    BY <1>9
  <2>2. sess' = [sess EXCEPT ![s].pc = "open", ![s].conn = c]
    BY <2>1 DEF OpenSession
  <2>3. sess[s].pc = "waiting"
    BY <2>1 DEF OpenSession
  <2> QED
    BY <2>2, <2>3 DEF Shape, Fields
<1> QED
  BY <1>1, <1>2, <1>3, <1>4, <1>5, <1>6, <1>7, <1>8, <1>9

\* Every step but an arrival and the reads leaves identity and seen rows alone.
LEMMA QuietSteps ==
    ASSUME Shape, NEW s \in Session,
           \/ PoolTimeout(s) \/ Insert(s) \/ SeedStep(s) \/ Commit(s)
           \/ SetActiveMode(s) \/ Fail(s) \/ CloseSession(s)
           \/ \E c \in Conn : OpenSession(s, c)
    PROVE  /\ sess'[s].auth = sess[s].auth
           /\ sess'[s].seen = sess[s].seen
           /\ sess[s].pc \in {"idle", "done"} => sess'[s].pc \in {"idle", "done"}
<1>1. CASE Fail(s)
  <2>1. PICK status : sess' = Failed(s, status)
    BY <1>1 DEF Fail
  <2>2. sess[s].pc \notin {"idle", "done"}
    BY <1>1 DEF Fail
  <2> QED
    BY <2>1, <2>2 DEF Shape, Fields, Failed
<1>2. CASE SeedStep(s)
  <2>1. sess[s].pc = "open"
    BY <1>2 DEF SeedStep
  <2>2. CASE sess' = Failed(s, 500)
    BY <2>1, <2>2 DEF Shape, Fields, Failed
  <2>3. CASE \E own, added, step, pc :
               /\ sess' = [sess EXCEPT ![s].own = own, ![s].added = added,
                                       ![s].step = step, ![s].pc = pc]
               /\ pc \in {"open", "commit"}
    BY <2>1, <2>3 DEF Shape, Fields
  <2> QED
    BY <1>2, <2>2, <2>3, SeedStepUpdates
<1>3. CASE Insert(s)
  BY <1>3 DEF Shape, Fields, Insert, Failed
<1>4. CASE PoolTimeout(s)
  BY <1>4 DEF Shape, Fields, PoolTimeout
<1>5. CASE Commit(s)
  BY <1>5 DEF Shape, Fields, Commit
<1>6. CASE SetActiveMode(s) \/ CloseSession(s)
  BY <1>6 DEF Shape, Fields, SetActiveMode, CloseSession
<1>7. CASE \E c \in Conn : OpenSession(s, c)
  <2>1. PICK c \in Conn : OpenSession(s, c)
    BY <1>7
  <2>2. sess' = [sess EXCEPT ![s].pc = "open", ![s].conn = c]
    BY <2>1 DEF OpenSession
  <2>3. sess[s].pc = "waiting"
    BY <2>1 DEF OpenSession
  <2> QED
    BY <2>2, <2>3 DEF Shape, Fields
<1> QED
  BY <1>1, <1>2, <1>3, <1>4, <1>5, <1>6, <1>7

\* Handlers read what is visible to them, and nothing else.
LEMMA ReadSteps ==
    ASSUME Shape, NEW s \in Session, Begin(s) \/ Read(s)
    PROVE  /\ sess'[s].auth = sess[s].auth
           /\ Active(sess[s].pc)
           /\ sess'[s].seen \subseteq sess[s].seen \cup Visible(s)
<1>1. CASE Begin(s)
  <2> DEFINE asked == { id \in sess[s].call.refs : id[1] \in Of(s).loads }
  <2>1. UNION { Loaded(s, id) : id \in asked } \subseteq Visible(s)
    BY DEF Loaded
  <2> HIDE DEF asked
  <2>2. \/ \E status : sess' = Failed(s, status)
        \/ sess' = [sess EXCEPT ![s].pc = "running", ![s].step = 1,
                                ![s].seen = UNION { Loaded(s, id) : id \in asked }]
    BY <1>1, ZenonT(60) DEF Begin, asked
  <2>3. CASE \E status : sess' = Failed(s, status)
    <3>1. PICK status : sess' = Failed(s, status)
      BY <2>3
    <3> QED
      BY <3>1, <1>1 DEF Shape, Fields, Failed, Begin, Active
  <2>4. CASE sess' = [sess EXCEPT ![s].pc = "running", ![s].step = 1,
                                  ![s].seen = UNION { Loaded(s, id) : id \in asked }]
    <3>1. sess'[s].seen = UNION { Loaded(s, id) : id \in asked }
      BY <2>4 DEF Shape, Fields
    <3>2. sess'[s].auth = sess[s].auth
      BY <2>4 DEF Shape, Fields
    <3> QED
      BY <2>1, <3>1, <3>2, <1>1 DEF Begin, Active
  <2> QED
    BY <2>2, <2>3, <2>4
<1>2. CASE Read(s)
  <2> DEFINE query == Of(s).scan[sess[s].step]
  <2>1. Selected(s, query) \subseteq Visible(s)
    BY DEF Selected
  <2>2. \/ sess' = Failed(s, 500)
        \/ \E pc, reply :
             sess' = [sess EXCEPT ![s].seen = @ \cup Selected(s, query), ![s].step = @ + 1,
                                  ![s].pc = pc, ![s].reply = reply]
    BY <1>2, ZenonT(60) DEF Read
  <2>3. CASE sess' = Failed(s, 500)
    <3>1. sess[s].pc = "running"
      BY <1>2 DEF Read
    <3>2. sess'[s].auth = sess[s].auth /\ sess'[s].seen = sess[s].seen
      BY <2>3 DEF Shape, Fields, Failed
    <3> QED
      BY <3>1, <3>2 DEF Active
  <2>4. CASE \E pc, reply :
             sess' = [sess EXCEPT ![s].seen = @ \cup Selected(s, query), ![s].step = @ + 1,
                                  ![s].pc = pc, ![s].reply = reply]
    <3> HIDE DEF query
    <3>1. /\ sess'[s].seen = sess[s].seen \cup Selected(s, query)
          /\ sess'[s].auth = sess[s].auth
      BY <2>4 DEF Shape, Fields
    <3> QED
      BY <2>1, <3>1, <1>2 DEF Read, Active
  <2> QED
    BY <2>2, <2>3, <2>4
<1> QED
  BY <1>1, <1>2

LEMMA ReadKept ==
    ASSUME Shape, ContextInv, ReadInv, TenancyNext PROVE ReadInv'
<1> PICK s \in Session :
      \/ Arrive(s) \/ PoolTimeout(s) \/ Begin(s) \/ Read(s) \/ Insert(s)
      \/ SeedStep(s) \/ Commit(s) \/ SetActiveMode(s) \/ Fail(s) \/ CloseSession(s)
      \/ \E c \in Conn : OpenSession(s, c)
  BY DEF TenancyNext
<1>1. /\ \A o \in Session : o # s => sess'[o] = sess[o]
      /\ sess'[s].call = sess[s].call
  BY OnlyOwnSeen
<1>2. \A o \in Session : Of(o)' = Of(o) /\ Tenant(o)' = Tenant(o)
  BY <1>1 DEF Of, Tenant
<1>3. ASSUME NEW o \in Session, o # s
      PROVE  Admitted(o)' /\ (Confined(o)' => \A r \in sess'[o].seen : r.tenant = Tenant(o)')
  BY <1>1, <1>2, <1>3 DEF ReadInv, Admitted, Confined
<1>4. Admitted(s)' /\ (Confined(s)' => \A r \in sess'[s].seen : r.tenant = Tenant(s)')
  <2>1. CASE Arrive(s)
    <3>1. sess'[s].auth = Admission(sess[s].call) /\ sess'[s].seen = sess[s].seen
      BY <2>1 DEF Shape, Fields, Arrive
    <3>2. sess'[s].pc # "done" => Admission(sess[s].call).status = 200
      BY <2>1 DEF Shape, Fields, Arrive
    <3>3. Admitted(s)'
      BY <3>1, <3>2, <1>2, AdmissionChecksTenant DEF Admitted, Of, Tenant
    <3> QED
      BY <3>1, <3>3, <1>2 DEF ReadInv, Confined
  <2>2. CASE Begin(s) \/ Read(s)
    <3>1. /\ sess'[s].auth = sess[s].auth
          /\ Active(sess[s].pc)
          /\ sess'[s].seen \subseteq sess[s].seen \cup Visible(s)
      BY <2>2, ReadSteps
    <3>2. Admitted(s)'
      BY <3>1, <1>2 DEF ReadInv, Admitted, Active
    <3>3. Confined(s) => \A r \in Visible(s) : r.tenant = Tenant(s)
      BY <3>1, VisibleIsOwn DEF ReadInv
    <3> QED
      BY <3>1, <3>2, <3>3, <1>2 DEF ReadInv, Confined
  <2>3. CASE \/ PoolTimeout(s) \/ Insert(s) \/ SeedStep(s) \/ Commit(s)
             \/ SetActiveMode(s) \/ Fail(s) \/ CloseSession(s)
             \/ \E c \in Conn : OpenSession(s, c)
    BY <2>3, <1>2, QuietSteps DEF ReadInv, Admitted, Confined
  <2> QED
    BY <2>1, <2>2, <2>3
<1> QED
  BY <1>3, <1>4 DEF ReadInv

LEMMA InitReads == ASSUME TenancyInit PROVE ReadInv
<1>1. PICK calls \in Scenarios : sess = [s \in Session |-> NewSession(calls[s])]
  BY DEF TenancyInit
<1> QED
  BY <1>1 DEF ReadInv, NewSession, Admitted

\* Whatever is read for a tenant is that tenant's, for every set of calls, of
\* sessions and of connections.
THEOREM ReadsStayInTenant == TenancySpec => []ReadsConfined
<1> DEFINE I == Shape /\ ContextInv /\ ReadInv
<1>1. TenancyInit => I
  BY InitShape, InitContext, InitReads, TenancyAssumption
<1>2. I /\ [TenancyNext]_tenancyVars => I'
  <2>1. ASSUME I, TenancyNext PROVE I'
    BY <2>1, ShapeKept, ContextKept, ReadKept
  <2>2. ASSUME I, UNCHANGED tenancyVars PROVE I'
    <3>1. Still
      BY <2>2 DEF Still, tenancyVars
    <3>2. Shape'
      BY <2>2 DEF Shape, tenancyVars
    <3>3. ReadInv'
      BY <2>2 DEF ReadInv, Admitted, Confined, Of, Tenant, tenancyVars
    <3> QED
      BY <2>2, <3>1, <3>2, <3>3, StillKeepsContext
  <2> QED
    BY <2>1, <2>2
<1>3. I => ReadsConfined
  BY DEF ReadInv, ReadsConfined, Confined
<1> QED
  BY <1>1, <1>2, <1>3, PTL DEF TenancySpec

-----------------------------------------------------------------------------
(* Writes.  Rows reach the database through Insert and SeedStep, carry the *)
(* session that made them, and are committed only after a reply of 201.    *)

\* In a tenant's session rows are added by administrators, to tables of tenants.
LEMMA WhoInserts ==
    ASSUME NEW e \in DOMAIN Endpoint
    PROVE  /\ Endpoint[e].db = "root" => Endpoint[e].roles = {"root_admin"}
           /\ Endpoint[e].db = "tenant" /\ Endpoint[e].inserts # None =>
                /\ Endpoint[e].roles = Admins
                /\ Endpoint[e].inserts \notin {"tenants"} \cup Assembled
<1> DEFINE P(x) == /\ x.db = "root" => x.roles = {"root_admin"}
                   /\ x.db = "tenant" /\ x.inserts # None =>
                        /\ x.roles = Admins
                        /\ x.inserts \notin {"tenants"} \cup Assembled
<1>1. P(CreateTenant) /\ P(ListTenants) /\ P(AssignTenantAdmin)
  BY DEF CreateTenant, ListTenants, AssignTenantAdmin, AsRoot, Creates, Lists, Select
<1>2. /\ P(CreateMarket) /\ P(CreateCamera) /\ P(CreateRegion) /\ P(CreateContextMode)
      /\ P(CreateSchedule) /\ P(CreateLens) /\ P(CreateRule) /\ P(CreateNotificationConfig)
  BY DEF CreateMarket, CreateCamera, CreateRegion, CreateContextMode, CreateSchedule,
         CreateLens, CreateRule, CreateNotificationConfig, Creates, Assembled
<1>3. /\ P(ListMarkets) /\ P(ListCameras) /\ P(ListContextModes) /\ P(ListRules)
      /\ P(ListNotificationConfigs) /\ P(ListDecisionDeliveries) /\ P(ListDecisions)
      /\ P(GetDecision) /\ P(GetEvidencePlayback)
  BY DEF ListMarkets, ListCameras, ListContextModes, ListRules, ListNotificationConfigs,
         ListDecisionDeliveries, ListDecisions, GetDecision, GetEvidencePlayback, Lists
<1>4. /\ P(ActivateScheduledModes) /\ P(NotifyWarning) /\ P(AnalyzeMessage)
      /\ P(StoreEvidence) /\ P(AggregateEvidence) /\ P(IngestSequence) /\ P(Seed)
  BY DEF ActivateScheduledModes, NotifyWarning, AnalyzeMessage, StoreEvidence,
         AggregateEvidence, IngestSequence, Seed, Job
<1> HIDE DEF P
<1>5. P(Endpoint[e])
  BY <1>1, <1>2, <1>3, <1>4 DEF Endpoint
<1> QED
  BY <1>5 DEF P

\* The seed signs every row it adds.
LEMMA SeedSigns ==
    ASSUME NEW t, NEW s, NEW i \in DOMAIN SeedPlan(t, s), NEW r \in SeedPlan(t, s)[i].rows
    PROVE  r.by = s
<1> DEFINE P(x) == \A y \in x.rows : y.by = s
<1>1. ASSUME NEW table, NEW n, NEW tenant, NEW refs, NEW u
      PROVE  Row(table, n, tenant, refs, u, s).by = s
  BY DEF Row
<1>2. ASSUME NEW table, NEW n, NEW tenant, NEW refs, NEW u, NEW key
      PROVE  /\ P(Missing(key, {Row(table, n, tenant, refs, u, s)}))
             /\ P(Missing(key, {[Row(table, n, tenant, refs, u, s) EXCEPT !.keys = @ \cup {key}]}))
  BY DEF Row, Missing
<1>3. ASSUME NEW key, NEW x, NEW y, x.by = s, y.by = s
      PROVE  P(Missing(key, {x, y}))
  BY <1>3 DEF Missing
<1> HIDE DEF P
<1>4. i \in 1..12
  BY DEF SeedPlan
<1>5. P(SeedPlan(t, s)[1])
  BY <1>1, <1>2, <1>3 DEF SeedPlan
<1>6. P(SeedPlan(t, s)[2])
  BY <1>1, <1>2, <1>3 DEF SeedPlan
<1>7. P(SeedPlan(t, s)[3])
  BY <1>1, <1>2, <1>3 DEF SeedPlan
<1>8. P(SeedPlan(t, s)[4])
  BY <1>1, <1>2, <1>3 DEF SeedPlan
<1>9. P(SeedPlan(t, s)[5])
  BY <1>1, <1>2, <1>3 DEF SeedPlan
<1>10. P(SeedPlan(t, s)[6])
  BY <1>1, <1>2, <1>3 DEF SeedPlan
<1>11. P(SeedPlan(t, s)[7])
  BY <1>1, <1>2, <1>3 DEF SeedPlan
<1>12. P(SeedPlan(t, s)[8])
  BY <1>1, <1>2, <1>3 DEF SeedPlan
<1>13. P(SeedPlan(t, s)[9])
  BY <1>1, <1>2, <1>3 DEF SeedPlan
<1>14. P(SeedPlan(t, s)[10])
  BY <1>1, <1>2, <1>3 DEF SeedPlan
<1>15. P(SeedPlan(t, s)[11])
  BY <1>1, <1>2, <1>3 DEF SeedPlan
<1>16. P(SeedPlan(t, s)[12])
  BY <1>1, <1>2, <1>3 DEF SeedPlan
<1>17. P(SeedPlan(t, s)[i])
  BY <1>4, <1>5, <1>6, <1>7, <1>8, <1>9, <1>10, <1>11, <1>12, <1>13, <1>14, <1>15, <1>16
<1> QED
  BY <1>17 DEF P

Authorised(s, r) ==
    Of(s).db \in {"tenant", "root"} =>
        \/ sess[s].auth.role = "root_admin"
        \/ sess[s].auth.role = "tenant_admin" /\ sess[s].auth.tenant = r.tenant

\* A session's rows are its own; a handler has some only between its INSERT and
\* its end, and has then answered 201 or failed.
OwnInv(s) ==
    /\ \A r \in sess[s].own \cup sess[s].added : r.by = s
    /\ sess[s].own # {} => sess[s].pc \notin {"idle", "waiting"}
    /\ sess[s].own # {} /\ Of(s).db # "seed" =>
         /\ sess[s].pc \in {"commit", "failed"}
         /\ sess[s].pc = "commit" => sess[s].reply = 201
    /\ \A r \in sess[s].own : Authorised(s, r)
    /\ sess[s].pc = "running" => Of(s).roles = {} \/ HasRole(sess[s].auth, Of(s).roles)
    /\ sess[s].call.endpoint \in DOMAIN Endpoint

\* So are committed ones, whose session is past its COMMIT.
RowInv(r) ==
    r.by # None =>
        /\ r.by \in Session
        /\ sess[r.by].pc \in {"key", "leaving", "failed", "done"}
        /\ Of(r.by).db # "seed" =>
             sess[r.by].pc \in {"leaving", "done"} /\ sess[r.by].reply = 201
        /\ Authorised(r.by, r)

WriteInv ==
    /\ \A s \in Session : OwnInv(s)
    /\ \A r \in rows : RowInv(r)

LEMMA WritesStutter ==
    ASSUME WriteInv, UNCHANGED tenancyVars
    PROVE  WriteInv'
<1>1. sess' = sess /\ rows' = rows
  BY DEF tenancyVars
<1>2. \A s, r : Authorised(s, r)' = Authorised(s, r)
  BY <1>1 DEF Authorised, Of, Tenant
<1>3. ASSUME NEW s \in Session PROVE OwnInv(s)'
  <2>1. OwnInv(s)
    BY DEF WriteInv
  <2> QED
    BY <1>1, <1>2, <2>1 DEF OwnInv, Of
<1>4. ASSUME NEW r \in rows PROVE RowInv(r)'
  <2>1. RowInv(r)
    BY <1>4 DEF WriteInv
  <2> QED
    BY <1>1, <1>2, <2>1 DEF RowInv, Of
<1> QED
  BY <1>1, <1>3, <1>4 DEF WriteInv

\* What a handler inserts into a tenant's tables is of the tenant in the path.
LEMMA NewRowsOfTenant ==
    ASSUME NEW s \in Session, Of(s).db = "tenant",
           Of(s).inserts \notin {"tenants"} \cup Assembled,
           NEW r \in NewRows(s)
    PROVE  r.tenant = Tenant(s)
BY DEF NewRows, Created, MappingsOf, Row, Assembled

LEMMA NewRowsSigned ==
    ASSUME NEW s \in Session, NEW r \in NewRows(s)
    PROVE  r.by = s
BY DEF NewRows, Created, MappingsOf, DeliveriesOf, MergedOf, NewDecision, LinksOf, Row

\* Insert adds authorised rows, as require_role has let the session go on.
LEMMA InsertsAuthorised ==
    ASSUME NEW s \in Session, ReadInv, OwnInv(s), Insert(s), NEW r \in NewRows(s)
    PROVE  Authorised(s, r)
<1>1. Of(s).inserts # None /\ sess[s].pc = "running"
  BY DEF Insert
<1>2. Of(s).roles = {} \/ sess[s].auth.role \in Of(s).roles
  BY <1>1 DEF OwnInv, HasRole
<1>3. CASE Of(s).db = "root"
  <2>1. Of(s).roles = {"root_admin"}
    BY <1>3, WhoInserts DEF OwnInv, Of
  <2> QED
    BY <1>2, <2>1 DEF Authorised
<1>4. CASE Of(s).db = "tenant"
  <2>1. /\ Of(s).roles = Admins
        /\ Of(s).inserts \notin {"tenants"} \cup Assembled
    BY <1>1, <1>4, WhoInserts DEF OwnInv, Of
  <2>2. sess[s].auth.role \in Admins
    BY <1>2, <2>1 DEF Admins
  <2>3. r.tenant = Tenant(s)
    BY <1>4, <2>1, NewRowsOfTenant
  <2>4. TenantAccess(sess[s].auth, Tenant(s))
    BY <1>1, <1>4 DEF ReadInv, Admitted
  <2> QED
    BY <2>2, <2>3, <2>4 DEF Authorised, TenantAccess, Admins
<1> QED
  BY <1>3, <1>4 DEF Authorised

\* What a step of the seed flushes is its own, and what it adds it signs.
LEMMA SeedStepAdds ==
    ASSUME Shape, NEW s \in Session, OwnInv(s), SeedStep(s)
    PROVE  \A r \in sess'[s].own \cup sess'[s].added : r.by = s
<1> DEFINE plan == SeedPlan(SeedTenant(s), s)
           next == sess[s].step + 1
<1>1. \/ sess' = Failed(s, 500)
      \/ \E added, pc :
           /\ sess' = [sess EXCEPT ![s].own = @ \cup sess[s].added, ![s].added = added,
                                   ![s].step = next, ![s].pc = pc]
           /\ added = {} \/ (next \in DOMAIN plan /\ added = plan[next].rows)
  <2>1. CASE Rejected(s, sess[s].added)
    BY <2>1 DEF SeedStep
  <2>2. CASE ~Rejected(s, sess[s].added)
    BY <2>2, ZenonT(60) DEF SeedStep
  <2> QED
    BY <2>1, <2>2
<1> HIDE DEF next
<1>2. next \in DOMAIN plan => \A r \in plan[next].rows : r.by = s
  BY SeedSigns
<1> HIDE DEF plan
<1>3. CASE sess' = Failed(s, 500)
  BY <1>3 DEF Shape, Fields, Failed, OwnInv
<1>4. CASE \E added, pc :
             /\ sess' = [sess EXCEPT ![s].own = @ \cup sess[s].added, ![s].added = added,
                                     ![s].step = next, ![s].pc = pc]
             /\ added = {} \/ (next \in DOMAIN plan /\ added = plan[next].rows)
  <2>1. PICK added, pc :
             /\ sess' = [sess EXCEPT ![s].own = @ \cup sess[s].added, ![s].added = added,
                                     ![s].step = next, ![s].pc = pc]
             /\ added = {} \/ (next \in DOMAIN plan /\ added = plan[next].rows)
    BY <1>4
  <2>2. /\ sess'[s].own = sess[s].own \cup sess[s].added
        /\ sess'[s].added = added
    BY <2>1 DEF Shape, Fields
  <2> QED
    BY <1>2, <2>1, <2>2 DEF OwnInv
<1> QED
  BY <1>1, <1>3, <1>4

\* Steps that neither insert nor end a session: rows stay where they are, roles
\* are checked before a handler runs, and a session's pc only goes forward.
LEMMA EarlySteps ==
    ASSUME Shape, NEW s \in Session,
           \/ Arrive(s) \/ PoolTimeout(s) \/ Begin(s) \/ Read(s)
           \/ SetActiveMode(s) \/ Fail(s) \/ \E c \in Conn : OpenSession(s, c)
    PROVE  /\ rows' = rows
           /\ sess'[s].own = sess[s].own /\ sess'[s].added = sess[s].added
           /\ sess[s].pc \notin {"leaving", "failed", "done"}
           /\ sess[s].pc # "idle" => sess'[s].auth = sess[s].auth
           /\ sess'[s].pc = "running" =>
                /\ sess[s].pc # "idle"
                /\ \/ sess[s].pc = "running"
                   \/ Of(s).roles = {} \/ HasRole(sess[s].auth, Of(s).roles)
           /\ sess[s].pc = "commit" => sess'[s].pc = "failed"
           /\ sess[s].pc = "key" => sess'[s].pc \in {"leaving", "failed"}
           /\ sess'[s].pc \in {"idle", "waiting"} => sess[s].pc = "idle"
<1>1. CASE Arrive(s)
  BY <1>1 DEF Shape, Fields, Arrive
<1>2. CASE PoolTimeout(s)
  BY <1>2 DEF Shape, Fields, PoolTimeout
<1>3. CASE Begin(s)
  <2>1. CASE Of(s).roles # {} /\ ~HasRole(sess[s].auth, Of(s).roles)
    <3>1. sess' = Failed(s, 403)
      BY <1>3, <2>1 DEF Begin
    <3> QED
      BY <1>3, <3>1 DEF Shape, Fields, Begin, Failed
  <2>2. CASE Of(s).roles = {} \/ HasRole(sess[s].auth, Of(s).roles)
    <3>1. rows' = rows /\ sess[s].pc = "open"
      BY <1>3 DEF Begin
    <3>2. \/ \E status : sess' = Failed(s, status)
          \/ \E seen : sess' = [sess EXCEPT ![s].pc = "running", ![s].step = 1, ![s].seen = seen]
      BY <1>3, ZenonT(60) DEF Begin
    <3>3. CASE \E status : sess' = Failed(s, status)
      BY <3>1, <3>3 DEF Shape, Fields, Failed
    <3>4. CASE \E seen : sess' = [sess EXCEPT ![s].pc = "running", ![s].step = 1,
                                              ![s].seen = seen]
      BY <2>2, <3>1, <3>4 DEF Shape, Fields
    <3> QED
      BY <3>2, <3>3, <3>4
  <2> QED
    BY <2>1, <2>2
<1>4. CASE Read(s)
  <2>1. rows' = rows /\ sess[s].pc = "running"
    BY <1>4 DEF Read
  <2>3. CASE sess' = Failed(s, 500)
    BY <2>1, <2>3 DEF Shape, Fields, Failed
  <2>4. CASE \E seen, step, pc, reply :
             /\ sess' = [sess EXCEPT ![s].seen = seen, ![s].step = step,
                                     ![s].pc = pc, ![s].reply = reply]
             /\ pc \in {"commit", "running"}
    BY <2>1, <2>4 DEF Shape, Fields
  <2> QED
    BY <1>4, <2>3, <2>4, ReadUpdates
<1>5. CASE SetActiveMode(s)
  BY <1>5 DEF Shape, Fields, SetActiveMode
<1>6. CASE Fail(s)
  <2>1. PICK status : sess' = Failed(s, status)
    BY <1>6 DEF Fail
  <2>2. rows' = rows /\ sess[s].pc \in {"open", "running", "commit", "key"}
    BY <1>6 DEF Fail
  <2> QED
    BY <2>1, <2>2 DEF Shape, Fields, Failed
<1>7. CASE \E c \in Conn : OpenSession(s, c)
  <2>1. PICK c \in Conn : OpenSession(s, c)
    BY <1>7
  <2>2. /\ sess' = [sess EXCEPT ![s].pc = "open", ![s].conn = c]
        /\ rows' = rows /\ sess[s].pc = "waiting"
    BY <2>1 DEF OpenSession
  <2> QED
    BY <2>2 DEF Shape, Fields
<1> QED
  BY <1>1, <1>2, <1>3, <1>4, <1>5, <1>6, <1>7

LEMMA InsertUpdates ==
    ASSUME Shape, NEW s \in Session, Insert(s)
    PROVE  /\ rows' = rows
           /\ sess'[s].added = sess[s].added
           /\ sess'[s].own \subseteq sess[s].own \cup NewRows(s)
           /\ sess[s].pc = "running"
           /\ sess'[s].pc \in {"commit", "failed"}
           /\ sess'[s].pc = "commit" => sess'[s].reply = 201
<1> DEFINE new == NewRows(s)
<1>1. rows' = rows /\ sess[s].pc = "running"
  BY DEF Insert
<1>2. \/ sess' = Failed(s, 500)
      \/ sess' = [Failed(s, 400) EXCEPT ![s].own = @ \cup new]
      \/ sess' = [sess EXCEPT ![s].own = @ \cup new, ![s].reply = 201, ![s].pc = "commit"]
  <2>1. CASE Rejected(s, new)
    BY <2>1 DEF Insert
  <2>2. CASE ~Rejected(s, new)
    BY <2>2, ZenonT(60) DEF Insert
  <2> QED
    BY <2>1, <2>2
<1> HIDE DEF new
<1>3. CASE sess' = Failed(s, 500)
  BY <1>1, <1>3 DEF Shape, Fields, Failed
<1>4. CASE sess' = [Failed(s, 400) EXCEPT ![s].own = @ \cup new]
  BY <1>1, <1>4 DEF Shape, Fields, Failed, new
<1>5. CASE sess' = [sess EXCEPT ![s].own = @ \cup new, ![s].reply = 201, ![s].pc = "commit"]
  BY <1>1, <1>5 DEF Shape, Fields, new
<1> QED
  BY <1>2, <1>3, <1>4, <1>5

LEMMA CommitUpdates ==
    ASSUME Shape, NEW s \in Session, Commit(s)
    PROVE  /\ rows' = rows \cup sess[s].own
           /\ sess[s].pc = "commit"
           /\ sess'[s].own = {}
           /\ sess'[s].added = sess[s].added
           /\ sess'[s].reply = sess[s].reply
           /\ sess'[s].pc \in {"key", "leaving", "done"}
           /\ Of(s).db # "seed" => sess'[s].pc # "key"
BY DEF Shape, Fields, Commit

LEMMA CloseUpdates ==
    ASSUME Shape, NEW s \in Session, CloseSession(s)
    PROVE  /\ rows' = rows
           /\ sess[s].pc \in {"failed", "leaving"}
           /\ sess'[s].own = {} /\ sess'[s].added = {}
           /\ sess'[s].reply = sess[s].reply
           /\ sess'[s].pc = "done"
BY DEF Shape, Fields, CloseSession

LEMMA SeedStepPc ==
    ASSUME Shape, NEW s \in Session, SeedStep(s)
    PROVE  /\ rows' = rows
           /\ Of(s).db = "seed" /\ sess[s].pc = "open"
           /\ sess'[s].pc \in {"open", "commit", "failed"}
<1>1. /\ rows' = rows
      /\ Of(s).db = "seed" /\ sess[s].pc = "open"
  BY DEF SeedStep
<1>2. CASE sess' = Failed(s, 500)
  BY <1>1, <1>2 DEF Shape, Fields, Failed
<1>3. CASE \E own, added, step, pc :
               /\ sess' = [sess EXCEPT ![s].own = own, ![s].added = added,
                                       ![s].step = step, ![s].pc = pc]
               /\ pc \in {"open", "commit"}
  BY <1>1, <1>3 DEF Shape, Fields
<1> QED
  BY <1>2, <1>3, SeedStepUpdates

LEMMA WriteKept ==
    ASSUME Shape, ReadInv, WriteInv, TenancyNext PROVE WriteInv'
<1> PICK s \in Session :
      \/ Arrive(s) \/ PoolTimeout(s) \/ Begin(s) \/ Read(s) \/ Insert(s)
      \/ SeedStep(s) \/ Commit(s) \/ SetActiveMode(s) \/ Fail(s) \/ CloseSession(s)
      \/ \E c \in Conn : OpenSession(s, c)
  BY DEF TenancyNext
<1>1. /\ \A o \in Session : o # s => sess'[o] = sess[o]
      /\ sess'[s].call = sess[s].call
  BY OnlyOwnSeen
<1>2. \A o \in Session : Of(o)' = Of(o)
  BY <1>1 DEF Of
<1>3. ASSUME NEW o \in Session, o # s PROVE OwnInv(o)'
  BY <1>1, <1>2, <1>3 DEF WriteInv, OwnInv, Authorised
<1>4. ASSUME NEW r \in rows, r.by # s PROVE RowInv(r)'
  BY <1>1, <1>2, <1>4 DEF WriteInv, RowInv, Authorised
<1> SUFFICES /\ OwnInv(s)'
             /\ \A r \in rows' : r \notin rows \/ r.by = s => RowInv(r)'
  BY <1>3, <1>4 DEF WriteInv
<1>5. CASE \/ Arrive(s) \/ PoolTimeout(s) \/ Begin(s) \/ Read(s)
           \/ SetActiveMode(s) \/ Fail(s) \/ \E c \in Conn : OpenSession(s, c)
  <2>1. OwnInv(s)'
    BY <1>1, <1>2, <1>5, EarlySteps DEF WriteInv, OwnInv, Authorised
  <2>2. ASSUME NEW r \in rows, r.by = s PROVE RowInv(r)'
    BY <1>1, <1>2, <1>5, <2>2, EarlySteps DEF WriteInv, RowInv, Authorised
  <2> QED
    BY <2>1, <2>2, <1>5, EarlySteps
<1>6. CASE Insert(s)
  <2>1. sess'[s].auth = sess[s].auth
    BY <1>6, QuietSteps
  <2>2. \A r \in sess'[s].own : r.by = s /\ Authorised(s, r)
    BY <1>6, InsertUpdates, InsertsAuthorised, NewRowsSigned DEF WriteInv, OwnInv
  <2>3. OwnInv(s)'
    BY <1>1, <1>2, <1>6, <2>1, <2>2, InsertUpdates DEF WriteInv, OwnInv, Authorised
  <2>4. ASSUME NEW r \in rows, r.by = s PROVE FALSE
    BY <1>6, <2>4, InsertUpdates, TenancyAssumption
      DEF WriteInv, RowInv, TenancyAssumption
  <2> QED
    BY <1>6, <2>3, <2>4, InsertUpdates
<1>7. CASE SeedStep(s)
  <2>1. sess'[s].auth = sess[s].auth
    BY <1>7, QuietSteps
  <2>2. \A r \in sess'[s].own \cup sess'[s].added : r.by = s
    BY <1>7, SeedStepAdds DEF WriteInv
  <2>3. OwnInv(s)'
    BY <1>1, <1>2, <1>7, <2>1, <2>2, SeedStepPc DEF WriteInv, OwnInv, Authorised
  <2>4. ASSUME NEW r \in rows, r.by = s PROVE FALSE
    BY <1>7, <2>4, SeedStepPc, TenancyAssumption
      DEF WriteInv, RowInv, TenancyAssumption
  <2> QED
    BY <1>7, <2>3, <2>4, SeedStepPc
<1>8. CASE Commit(s)
  <2>1. sess'[s].auth = sess[s].auth
    BY <1>8, QuietSteps
  <2>2. OwnInv(s)'
    BY <1>1, <1>2, <1>8, CommitUpdates DEF WriteInv, OwnInv, Authorised
  <2>3. ASSUME NEW r \in sess[s].own PROVE RowInv(r)'
    BY <1>1, <1>2, <1>8, <2>1, CommitUpdates DEF WriteInv, OwnInv, RowInv, Authorised
  <2>4. ASSUME NEW r \in rows, r.by = s PROVE FALSE
    BY <1>8, <2>4, CommitUpdates, TenancyAssumption
      DEF WriteInv, RowInv, TenancyAssumption
  <2> QED
    BY <1>8, <2>2, <2>3, <2>4, CommitUpdates
<1>9. CASE CloseSession(s)
  <2>1. sess'[s].auth = sess[s].auth
    BY <1>9, QuietSteps
  <2>2. OwnInv(s)'
    BY <1>1, <1>2, <1>9, CloseUpdates DEF WriteInv, OwnInv, Authorised
  <2>3. ASSUME NEW r \in rows, r.by = s PROVE RowInv(r)'
    BY <1>1, <1>2, <1>9, <2>1, <2>3, CloseUpdates DEF WriteInv, RowInv, Authorised
  <2> QED
    BY <1>9, <2>2, <2>3, CloseUpdates
<1> QED
  BY <1>5, <1>6, <1>7, <1>8, <1>9

LEMMA InitWrites == ASSUME TenancyInit, TenancyAssumption PROVE WriteInv
<1>1. PICK calls \in Scenarios : sess = [s \in Session |-> NewSession(calls[s])]
  BY DEF TenancyInit
<1>2. ASSUME NEW s \in Session PROVE OwnInv(s)
  <2>1. /\ sess[s].own = {} /\ sess[s].added = {} /\ sess[s].pc = "idle"
        /\ sess[s].call = calls[s]
    BY <1>1 DEF NewSession
  <2> QED
    BY <2>1 DEF OwnInv, TenancyAssumption
<1>3. \A r \in rows : r.by = None
  BY DEF TenancyInit, TenancyAssumption
<1> QED
  BY <1>2, <1>3 DEF WriteInv, RowInv

\* A committed row was written by root or by an administrator of its tenant, and
\* by a request that was answered 201, whoever else was at work.
THEOREM WritesAreAuthorised == TenancySpec => []WritesAuthorised
<1> DEFINE I == Shape /\ ContextInv /\ ReadInv /\ WriteInv
<1>1. TenancyInit => I
  BY InitShape, InitContext, InitReads, InitWrites, TenancyAssumption
<1>2. I /\ [TenancyNext]_tenancyVars => I'
  <2>1. ASSUME I, TenancyNext PROVE I'
    BY <2>1, ShapeKept, ContextKept, ReadKept, WriteKept
  <2>2. ASSUME I, UNCHANGED tenancyVars PROVE I'
    <3>1. Still
      BY <2>2 DEF Still, tenancyVars
    <3>2. Shape'
      BY <2>2 DEF Shape, tenancyVars
    <3>3. ReadInv'
      BY <2>2 DEF ReadInv, Admitted, Confined, Of, Tenant, tenancyVars
    <3>4. WriteInv'
      BY <2>2, WritesStutter
    <3> QED
      BY <2>2, <3>1, <3>2, <3>3, <3>4, StillKeepsContext
  <2> QED
    BY <2>1, <2>2
<1>3. I => WritesAuthorised
  BY DEF WriteInv, RowInv, Authorised, WritesAuthorised
<1> QED
  BY <1>1, <1>2, <1>3, PTL DEF TenancySpec

-----------------------------------------------------------------------------
(* Types.                                                                  *)

RowTyped(r) == r.table \in DOMAIN Parents /\ r.id[1] = r.table /\ r.id \in r.keys

Pcs == { "idle", "waiting", "open", "running", "commit", "key", "leaving", "failed", "done" }

Statuses == {None, 200, 201, 400, 401, 403, 404, 500}

TypeInv ==
    /\ \A r \in rows : RowTyped(r)
    /\ \A s \in Session : \A r \in sess[s].own \cup sess[s].added : RowTyped(r)
    /\ \A c \in Conn : settings[c].role \in UserRole \cup {None}
    /\ \A s \in Session :
        /\ sess[s].pc \in Pcs
        /\ sess[s].conn \in PoolOf[s] \cup {None}
        /\ sess[s].reply \in Statuses
        /\ Of(s).db = "tenant" => sess[s].auth.role \in UserRole \cup {None}
        /\ sess[s].call.endpoint \in DOMAIN Endpoint

LEMMA JoinIs ==
    ASSUME NEW f, NEW g
    PROVE  /\ DOMAIN Join(f, g) = DOMAIN f \cup DOMAIN g
           /\ \A x \in DOMAIN f : Join(f, g)[x] = f[x]
           /\ \A x \in DOMAIN g : x \notin DOMAIN f => Join(f, g)[x] = g[x]
BY DEF Join

\* The tables of the schema and, for those a handler or the seed adds to, what
\* their foreign keys refer to.
LEMMA Tables ==
    /\ DOMAIN Parents =
         { "tenants", "tenant_users", "markets", "cameras", "regions_of_interest",
           "context_modes", "context_mode_schedules", "context_mode_camera_assignments",
           "lenses", "rules", "rule_region_mappings", "evidences", "decisions",
           "decision_evidences", "feedback", "audit_records", "notification_configs",
           "notification_deliveries" }
    /\ Parents["tenants"] = {}
    /\ Parents["tenant_users"] = {"tenants"}
    /\ Parents["markets"] = {"tenants"}
    /\ Parents["cameras"] = {"tenants", "markets"}
    /\ Parents["regions_of_interest"] = {"tenants", "cameras"}
    /\ Parents["context_modes"] = {"tenants"}
    /\ Parents["context_mode_schedules"] = {"tenants", "context_modes", "markets"}
    /\ Parents["context_mode_camera_assignments"] = {"tenants", "context_modes", "cameras"}
    /\ Parents["lenses"] = {"tenants", "context_modes"}
    /\ Parents["rules"] = {"tenants", "context_modes"}
    /\ Parents["rule_region_mappings"] = {"tenants", "rules", "regions_of_interest"}
    /\ Parents["evidences"]
         = {"tenants", "cameras", "regions_of_interest", "context_modes"}
    /\ Parents["decisions"] = {"tenants", "cameras", "regions_of_interest"}
    /\ Parents["decision_evidences"] = {"tenants", "decisions", "evidences"}
    /\ Parents["notification_configs"] = {"tenants"}
    /\ Parents["notification_deliveries"] = {"tenants", "decisions", "notification_configs"}
    /\ \A t \in DOMAIN Parents \ {"tenants"} : "tenants" \in Parents[t]
<1> DEFINE P1 == Join(DecisionTables, RecordTables)
           P2 == Join(ContextTables, P1)
           P3 == Join(CameraTables, P2)
           P4 == Join(IdentityTables, P3)
<1>1. /\ DOMAIN DecisionTables = {"evidences", "decisions", "decision_evidences"}
      /\ DecisionTables["evidences"]
           = {"tenants", "cameras", "regions_of_interest", "context_modes"}
      /\ DecisionTables["decisions"] = {"tenants", "cameras", "regions_of_interest"}
      /\ DecisionTables["decision_evidences"] = {"tenants", "decisions", "evidences"}
      /\ DOMAIN RecordTables = {"feedback", "audit_records", "notification_configs",
                                "notification_deliveries"}
      /\ RecordTables["notification_configs"] = {"tenants"}
      /\ RecordTables["notification_deliveries"]
           = {"tenants", "decisions", "notification_configs"}
  BY DEF DecisionTables, RecordTables
<1>2. /\ DOMAIN P1 = DOMAIN DecisionTables \cup DOMAIN RecordTables
      /\ \A x \in DOMAIN DecisionTables : P1[x] = DecisionTables[x]
      /\ \A x \in DOMAIN RecordTables : x \notin DOMAIN DecisionTables => P1[x] = RecordTables[x]
  BY JoinIs
<1>3. /\ DOMAIN ContextTables = {"context_modes", "context_mode_schedules",
           "context_mode_camera_assignments", "lenses", "rules", "rule_region_mappings"}
      /\ ContextTables["context_modes"] = {"tenants"}
      /\ ContextTables["context_mode_schedules"] = {"tenants", "context_modes", "markets"}
      /\ ContextTables["context_mode_camera_assignments"]
           = {"tenants", "context_modes", "cameras"}
      /\ ContextTables["lenses"] = {"tenants", "context_modes"}
      /\ ContextTables["rules"] = {"tenants", "context_modes"}
      /\ ContextTables["rule_region_mappings"] = {"tenants", "rules", "regions_of_interest"}
  BY DEF ContextTables
<1> HIDE DEF P1
<1>4. /\ DOMAIN P2 = DOMAIN ContextTables \cup DOMAIN P1
      /\ \A x \in DOMAIN ContextTables : P2[x] = ContextTables[x]
      /\ \A x \in DOMAIN P1 : x \notin DOMAIN ContextTables => P2[x] = P1[x]
  BY JoinIs
<1>5. /\ DOMAIN CameraTables = {"markets", "cameras", "regions_of_interest"}
      /\ CameraTables["markets"] = {"tenants"}
      /\ CameraTables["cameras"] = {"tenants", "markets"}
      /\ CameraTables["regions_of_interest"] = {"tenants", "cameras"}
  BY DEF CameraTables
<1> HIDE DEF P2
<1>6. /\ DOMAIN P3 = DOMAIN CameraTables \cup DOMAIN P2
      /\ \A x \in DOMAIN CameraTables : P3[x] = CameraTables[x]
      /\ \A x \in DOMAIN P2 : x \notin DOMAIN CameraTables => P3[x] = P2[x]
  BY JoinIs
<1>7. /\ DOMAIN IdentityTables = {"tenants", "tenant_users"}
      /\ IdentityTables["tenants"] = {}
      /\ IdentityTables["tenant_users"] = {"tenants"}
  BY DEF IdentityTables
<1> HIDE DEF P3
<1>8. /\ DOMAIN P4 = DOMAIN IdentityTables \cup DOMAIN P3
      /\ \A x \in DOMAIN IdentityTables : P4[x] = IdentityTables[x]
      /\ \A x \in DOMAIN P3 : x \notin DOMAIN IdentityTables => P4[x] = P3[x]
  BY JoinIs
<1>9. /\ \A t \in DOMAIN DecisionTables : "tenants" \in DecisionTables[t]
      /\ \A t \in DOMAIN RecordTables : "tenants" \in RecordTables[t]
  BY DEF DecisionTables, RecordTables
<1>10. \A t \in DOMAIN P1 : "tenants" \in P1[t]
  <2>1. \A t \in DOMAIN DecisionTables : P1[t] = DecisionTables[t]
    BY JoinIs DEF P1
  <2> QED
    BY <1>2, <1>9, <2>1
<1>11. \A t \in DOMAIN P4 \ {"tenants"} : "tenants" \in P4[t]
  BY <1>3, <1>4, <1>5, <1>6, <1>7, <1>8, <1>10
<1>12. P4 = Parents
  BY DEF P1, P2, P3, P4, Parents
<1> HIDE DEF P4
<1> QED
  BY <1>1, <1>2, <1>3, <1>4, <1>5, <1>6, <1>7, <1>8, <1>11, <1>12

LEMMA UncheckedIs ==
    ASSUME NEW table, NEW parent
    PROVE  << table, parent >> \in Unchecked <=>
             \/ table = "context_mode_schedules" /\ parent = "markets"
             \/ table \in {"evidences", "decisions"}
                /\ parent \in {"cameras", "regions_of_interest"}
BY DEF Unchecked

\* Which tables the endpoints add to, and that a handler has loaded and checked
\* the parents of what it adds - all but those that nobody compares, and the mode
\* of an evidence.
LEMMA WhatInserts ==
    ASSUME NEW e \in DOMAIN Endpoint, Endpoint[e].inserts # None
    PROVE  LET x == Endpoint[e]
           IN  /\ x.inserts \in DOMAIN Parents /\ x.db # "seed"
               /\ x.inserts = "notification_deliveries" =>
                    /\ x.loads = {"decisions"}
                    /\ x.scan = << Select("notification_configs", "tenant") >>
               /\ x.inserts = "decisions" => x.db = "tenant_job"
               /\ x.inserts = "evidences" => e = "store_evidence"
               /\ x.inserts \notin Assembled =>
                    \A t \in Parents[x.inserts] \ {"tenants"} :
                       \/ t \in x.loads /\ t \in x.checks
                       \/ << x.inserts, t >> \in Unchecked
                       \/ x.inserts = "evidences" /\ t = "context_modes"
<1> DEFINE P(x) ==
      x.inserts # None =>
        /\ x.inserts \in DOMAIN Parents /\ x.db # "seed"
        /\ x.inserts = "notification_deliveries" =>
             /\ x.loads = {"decisions"}
             /\ x.scan = << Select("notification_configs", "tenant") >>
        /\ x.inserts = "decisions" => x.db = "tenant_job"
        /\ x.inserts \notin Assembled =>
             \A t \in Parents[x.inserts] \ {"tenants"} :
                \/ t \in x.loads /\ t \in x.checks
                \/ << x.inserts, t >> \in Unchecked
                \/ x.inserts = "evidences" /\ t = "context_modes"
<1>1. ASSUME NEW table \in DOMAIN Parents, table \notin Assembled, NEW loads,
             \A t \in Parents[table] \ {"tenants"} :
                t \in loads \/ << table, t >> \in Unchecked
      PROVE  P(Creates(table, loads)) /\ P(AsRoot(Creates(table, loads)))
  BY <1>1 DEF Creates, AsRoot, Assembled
<1>2. P(CreateTenant) /\ P(AssignTenantAdmin) /\ P(CreateMarket) /\ P(CreateContextMode)
      /\ P(CreateNotificationConfig)
  BY <1>1, Tables DEF CreateTenant, AssignTenantAdmin, CreateMarket, CreateContextMode,
                      CreateNotificationConfig, Assembled
<1>3. P(CreateCamera) /\ P(CreateRegion) /\ P(CreateSchedule) /\ P(CreateLens) /\ P(CreateRule)
  BY <1>1, Tables, UncheckedIs
    DEF CreateCamera, CreateRegion, CreateSchedule, CreateLens, CreateRule, Assembled
<1>4. /\ P(ListMarkets) /\ P(ListCameras) /\ P(ListContextModes) /\ P(ListRules)
      /\ P(ListNotificationConfigs) /\ P(ListDecisionDeliveries) /\ P(ListDecisions)
      /\ P(GetDecision) /\ P(GetEvidencePlayback) /\ P(ListTenants)
  BY DEF ListMarkets, ListCameras, ListContextModes, ListRules, ListNotificationConfigs,
         ListDecisionDeliveries, ListDecisions, GetDecision, GetEvidencePlayback, Lists,
         ListTenants, AsRoot
<1>5. /\ P(ActivateScheduledModes) /\ P(AnalyzeMessage) /\ P(IngestSequence) /\ P(Seed)
  BY DEF ActivateScheduledModes, AnalyzeMessage, IngestSequence, Seed, Job
<1>6. P(NotifyWarning) /\ P(AggregateEvidence)
  BY Tables DEF NotifyWarning, AggregateEvidence, Job, Assembled
<1>8. P(StoreEvidence)
  BY Tables, UncheckedIs DEF StoreEvidence, Job, Assembled
<1>9. Endpoint[e].inserts = "evidences" => e = "store_evidence"
  <2> DEFINE Q(x) == x.inserts # None => x.inserts # "evidences"
  <2>1. /\ Q(CreateTenant) /\ Q(AssignTenantAdmin) /\ Q(CreateMarket) /\ Q(CreateContextMode)
        /\ Q(CreateNotificationConfig) /\ Q(CreateCamera) /\ Q(CreateRegion)
        /\ Q(CreateSchedule) /\ Q(CreateLens) /\ Q(CreateRule)
    BY DEF CreateTenant, AssignTenantAdmin, CreateMarket, CreateContextMode,
           CreateNotificationConfig, CreateCamera, CreateRegion, CreateSchedule,
           CreateLens, CreateRule, Creates, AsRoot
  <2>2. /\ Q(ListMarkets) /\ Q(ListCameras) /\ Q(ListContextModes) /\ Q(ListRules)
        /\ Q(ListNotificationConfigs) /\ Q(ListDecisionDeliveries) /\ Q(ListDecisions)
        /\ Q(GetDecision) /\ Q(GetEvidencePlayback) /\ Q(ListTenants)
    BY DEF ListMarkets, ListCameras, ListContextModes, ListRules,
           ListNotificationConfigs, ListDecisionDeliveries, ListDecisions, GetDecision,
           GetEvidencePlayback, Lists, ListTenants, AsRoot, Select
  <2>3. /\ Q(ActivateScheduledModes) /\ Q(NotifyWarning) /\ Q(AnalyzeMessage)
        /\ Q(AggregateEvidence) /\ Q(IngestSequence) /\ Q(Seed)
    BY DEF ActivateScheduledModes, NotifyWarning, AnalyzeMessage, AggregateEvidence,
           IngestSequence, Seed, Job
  <2> HIDE DEF Q
  <2>4. e # "store_evidence" => Q(Endpoint[e])
    BY <2>1, <2>2, <2>3 DEF Endpoint
  <2> QED
    BY <2>4 DEF Q
<1> HIDE DEF P
<1>7. P(Endpoint[e])
  BY <1>2, <1>3, <1>4, <1>5, <1>6, <1>8 DEF Endpoint
<1> QED
  BY <1>7, <1>9 DEF P

\* A delivery joins a decision and a configuration that the session has seen.
LEMMA DeliveryParts ==
    ASSUME NEW s \in Session, NEW x \in DeliveriesOf(s)
    PROVE  \E d, c \in sess[s].seen :
             /\ d.table = "decisions" /\ c.table = "notification_configs"
             /\ x = Row("notification_deliveries", << s, c.id >>, d.tenant, {d.id, c.id}, {}, s)
<1> DEFINE D == Seen(s, "decisions")
           C == Seen(s, "notification_configs")
           F(d, c) == Row("notification_deliveries", << s, c.id >>, d.tenant, {d.id, c.id}, {}, s)
<1>1. DeliveriesOf(s) = { F(d, c) : d \in D, c \in C }
  BY DEF DeliveriesOf
<1> HIDE DEF F
<1>2. PICK d \in D, c \in C : x = F(d, c)
  BY <1>1
<1> QED
  BY <1>2 DEF F, Seen

\* The evidence that is aggregated has been seen; a new decision has its camera
\* and its region, and a link joins it to a decision, the new one if there is one.
LEMMA DecisionParts ==
    ASSUME NEW s \in Session, NEW x \in NewDecision(s)
    PROVE  \E e \in sess[s].seen :
             /\ e.table = "evidences"
             /\ x = Row("decisions", s, e.tenant,
                       { id \in e.refs : id[1] \in {"cameras", "regions_of_interest"} },
                       {}, s)
<1> DEFINE E == { e \in Aggregated(s) : Seen(s, "decisions") = {} }
           F(e) == Row("decisions", s, e.tenant,
                       { id \in e.refs : id[1] \in {"cameras", "regions_of_interest"} },
                       {}, s)
<1>1. NewDecision(s) = { F(e) : e \in E }
  BY DEF NewDecision
<1> HIDE DEF F
<1>2. PICK e \in E : x = F(e)
  BY <1>1
<1> QED
  BY <1>2 DEF F, Aggregated, Seen

LEMMA LinkParts ==
    ASSUME NEW s \in Session, NEW x \in LinksOf(s)
    PROVE  \E d \in Seen(s, "decisions") \cup NewDecision(s), e \in sess[s].seen :
             /\ e.table = "evidences"
             /\ x = Row("decision_evidences", << d.id, e.id >>, e.tenant, {d.id, e.id}, {}, s)
<1> DEFINE D == Seen(s, "decisions") \cup NewDecision(s)
           F(d, e) == Row("decision_evidences", << d.id, e.id >>, e.tenant, {d.id, e.id}, {}, s)
<1>1. LinksOf(s) = { F(d, e) : d \in D, e \in Aggregated(s) }
  BY DEF LinksOf
<1> HIDE DEF F, D
<1>2. PICK d \in D, e \in Aggregated(s) : x = F(d, e)
  BY <1>1
<1>3. e \in sess[s].seen /\ e.table = "evidences"
  BY DEF Aggregated, Seen
<1> QED
  BY <1>2, <1>3 DEF F, D

LEMMA NewRowsTyped ==
    ASSUME NEW s \in Session, sess[s].call.endpoint \in DOMAIN Endpoint,
           Of(s).inserts # None, NEW r \in NewRows(s)
    PROVE  RowTyped(r)
<1>1. Of(s).inserts \in DOMAIN Parents
  BY WhatInserts DEF Of
<1>2. ASSUME NEW table \in DOMAIN Parents, NEW n, NEW t, NEW refs, NEW u, NEW by
      PROVE  RowTyped(Row(table, n, t, refs, u, by))
  BY DEF Row, RowTyped
<1>3. /\ "notification_deliveries" \in DOMAIN Parents /\ "rule_region_mappings" \in DOMAIN Parents
      /\ "decisions" \in DOMAIN Parents /\ "decision_evidences" \in DOMAIN Parents
  BY Tables
<1>4. RowTyped(Created(s))
  BY <1>1, <1>2 DEF Created
<1>5. \A x \in MappingsOf(s) : RowTyped(x)
  BY <1>2, <1>3 DEF MappingsOf
<1>6. ASSUME NEW x \in DeliveriesOf(s) PROVE RowTyped(x)
  <2> PICK d, c \in sess[s].seen :
        /\ d.table = "decisions" /\ c.table = "notification_configs"
        /\ x = Row("notification_deliveries", << s, c.id >>, d.tenant, {d.id, c.id}, {}, s)
    BY DeliveryParts
  <2> QED
    BY <1>2, <1>3
<1>7. ASSUME NEW x \in NewDecision(s) PROVE RowTyped(x)
  <2> PICK e \in sess[s].seen :
        x = Row("decisions", s, e.tenant,
                { id \in e.refs : id[1] \in {"cameras", "regions_of_interest"} }, {}, s)
    BY <1>7, DecisionParts
  <2> QED
    BY <1>2, <1>3
<1>8. ASSUME NEW x \in LinksOf(s) PROVE RowTyped(x)
  <2> PICK d \in Seen(s, "decisions") \cup NewDecision(s), e \in sess[s].seen :
        /\ e.table = "evidences"
        /\ x = Row("decision_evidences", << d.id, e.id >>, e.tenant, {d.id, e.id}, {}, s)
    BY <1>8, LinkParts
  <2> QED
    BY <1>2, <1>3
<1> QED
  BY <1>4, <1>5, <1>6, <1>7, <1>8 DEF NewRows, MergedOf

LEMMA SeedPlanTyped ==
    ASSUME NEW t, NEW s, NEW i \in DOMAIN SeedPlan(t, s), NEW r \in SeedPlan(t, s)[i].rows
    PROVE  RowTyped(r)
<1> DEFINE P(x) == \A y \in x.rows : RowTyped(y)
<1>1. ASSUME NEW table \in DOMAIN Parents, NEW n, NEW tenant, NEW refs, NEW u, NEW key
      PROVE  LET row == Row(table, n, tenant, refs, u, s)
             IN  /\ RowTyped(row)
                 /\ P(Missing(key, {row}))
                 /\ P(Missing(key, {[row EXCEPT !.keys = @ \cup {key}]}))
  BY DEF Row, Missing, RowTyped
<1>2. ASSUME NEW key, NEW x, NEW y, RowTyped(x), RowTyped(y)
      PROVE  P(Missing(key, {x, y}))
  BY <1>2 DEF Missing
<1> HIDE DEF P
<1>3. i \in 1..12
  BY DEF SeedPlan
<1> USE <1>1, <1>2, Tables
<1>5. P(SeedPlan(t, s)[1])
  BY DEF SeedPlan
<1>6. P(SeedPlan(t, s)[2])
  BY DEF SeedPlan
<1>7. P(SeedPlan(t, s)[3])
  BY DEF SeedPlan
<1>8. P(SeedPlan(t, s)[4])
  BY DEF SeedPlan
<1>9. P(SeedPlan(t, s)[5])
  BY DEF SeedPlan
<1>10. P(SeedPlan(t, s)[6])
  BY DEF SeedPlan
<1>11. P(SeedPlan(t, s)[7])
  BY DEF SeedPlan
<1>12. P(SeedPlan(t, s)[8])
  BY DEF SeedPlan
<1>13. P(SeedPlan(t, s)[9])
  BY DEF SeedPlan
<1>14. P(SeedPlan(t, s)[10])
  BY DEF SeedPlan
<1>15. P(SeedPlan(t, s)[11])
  BY DEF SeedPlan
<1>16. P(SeedPlan(t, s)[12])
  BY DEF SeedPlan
<1> QED
  BY <1>3, <1>5, <1>6, <1>7, <1>8, <1>9, <1>10, <1>11, <1>12, <1>13, <1>14, <1>15, <1>16
    DEF P

\* A step of the seed that does not fail flushes what is pending and adds what it
\* does not find.
LEMMA SeedStepEffect ==
    ASSUME Shape, NEW s \in Session, SeedStep(s)
    PROVE  LET plan  == SeedPlan(SeedTenant(s), s)
               next  == sess[s].step + 1
               there == Visible(s) \cup sess[s].added
               found == next \in DOMAIN plan /\ \E r \in there : plan[next].key \in r.keys
           IN  /\ rows' = rows /\ settings' = settings /\ activeMode' = activeMode
               /\ Of(s).db = "seed" /\ sess[s].pc = "open" /\ ~Waits(s, sess[s].added)
               /\ sess'[s].conn = sess[s].conn /\ sess'[s].auth = sess[s].auth
               /\ \/ sess' = Failed(s, 500)
                  \/ /\ ~Rejected(s, sess[s].added)
                     /\ sess'[s].own = sess[s].own \cup sess[s].added
                     /\ sess'[s].added = IF found \/ next \notin DOMAIN plan
                                         THEN {} ELSE plan[next].rows
                     /\ sess'[s].step = next
                     /\ sess'[s].reply = sess[s].reply
                     /\ sess'[s].pc = IF next \in DOMAIN plan THEN "open" ELSE "commit"
<1> DEFINE plan  == SeedPlan(SeedTenant(s), s)
           next  == sess[s].step + 1
           there == Visible(s) \cup sess[s].added
           found == next \in DOMAIN plan /\ \E r \in there : plan[next].key \in r.keys
           add   == IF found \/ next \notin DOMAIN plan THEN {} ELSE plan[next].rows
           to    == IF next \in DOMAIN plan THEN "open" ELSE "commit"
<1>1. /\ rows' = rows /\ settings' = settings /\ activeMode' = activeMode
      /\ Of(s).db = "seed" /\ sess[s].pc = "open" /\ ~Waits(s, sess[s].added)
  BY DEF SeedStep
<1>2. \/ sess' = Failed(s, 500)
      \/ /\ ~Rejected(s, sess[s].added)
         /\ sess' = [sess EXCEPT ![s].own = @ \cup sess[s].added, ![s].added = add,
                                 ![s].step = next, ![s].pc = to]
  BY ZenonT(60) DEF SeedStep
<1> HIDE DEF next, add, to
<1>3. CASE sess' = Failed(s, 500)
  <2>1. sess'[s].conn = sess[s].conn /\ sess'[s].auth = sess[s].auth
    BY <1>3 DEF Shape, Fields, Failed
  <2> QED
    BY <1>1, <1>3, <2>1
<1>4. CASE /\ ~Rejected(s, sess[s].added)
           /\ sess' = [sess EXCEPT ![s].own = @ \cup sess[s].added, ![s].added = add,
                                   ![s].step = next, ![s].pc = to]
  <2>1. /\ sess'[s].conn = sess[s].conn /\ sess'[s].auth = sess[s].auth
        /\ sess'[s].own = sess[s].own \cup sess[s].added
        /\ sess'[s].added = add /\ sess'[s].step = next /\ sess'[s].pc = to
        /\ sess'[s].reply = sess[s].reply
    BY <1>4 DEF Shape, Fields
  <2> QED
    BY <1>1, <1>4, <2>1, Zenon DEF add, next, to
<1> QED
  BY <1>2, <1>3, <1>4

LEMMA AdmissionTyped ==
    ASSUME NEW call
    PROVE  /\ Admission(call).status \in Statuses
           /\ Endpoint[call.endpoint].db = "tenant"
                => Admission(call).role \in UserRole \cup {None}
<1> DEFINE auth == AuthContextFromToken(call.token)
           edge == EdgeAuthContext(call.token)
<1>1. \A n : Refused(n).status = n /\ Refused(n).role = None
  BY DEF Refused
<1>2. auth.status \in Statuses /\ auth.role \in UserRole \cup {None}
  <2> DEFINE claims == ExtractStandardClaims(call.token.payload)
             status == ParseTenantId(claims.tenant_id, claims.role)
  <2>1. status \in {200, 401, 500}
    BY DEF ParseTenantId
  <2>2. ParseRole(claims.role) = 200 => claims.role \in UserRole
    BY DEF ParseRole
  <2>3. \/ auth = Refused(401)
        \/ auth = Refused(status)
        \/ ParseRole(claims.role) = 200
           /\ auth = [status |-> 200, role |-> claims.role, tenant |-> claims.tenant_id]
    BY DEF AuthContextFromToken
  <2> HIDE DEF auth, status, claims
  <2> QED
    BY <1>1, <2>1, <2>2, <2>3 DEF Statuses
<1>3. edge.status \in Statuses
  BY <1>1 DEF EdgeAuthContext, Statuses
<1> HIDE DEF auth, edge
<1>4. \/ Admission(call) \in {auth, Refused(403)}
      \/ Admission(call) = edge /\ Endpoint[call.endpoint].db = "none"
      \/ Admission(call) = [status |-> 200, role |-> None, tenant |-> None]
  BY DEF Admission, auth, edge
<1> QED
  BY <1>1, <1>2, <1>3, <1>4 DEF Statuses

\* What pc, connection and reply of a session, and the settings, become.
LEMMA TypesOfStep ==
    ASSUME Shape, TypeInv, TenancyAssumption, NEW s \in Session,
           \/ Arrive(s) \/ PoolTimeout(s) \/ Begin(s) \/ Read(s) \/ Insert(s)
           \/ SeedStep(s) \/ Commit(s) \/ SetActiveMode(s) \/ Fail(s) \/ CloseSession(s)
           \/ \E c \in Conn : OpenSession(s, c)
    PROVE  /\ sess'[s].pc \in Pcs
           /\ sess'[s].conn \in PoolOf[s] \cup {None}
           /\ sess'[s].reply \in Statuses
           /\ \A c \in Conn : settings'[c].role \in UserRole \cup {None}
           /\ Of(s).db = "tenant" => sess'[s].auth.role \in UserRole \cup {None}
<1> USE DEF TypeInv
<1>0. \A status \in {200, 201, 400, 403, 404, 500} : status \in Statuses
  BY DEF Statuses
<1>1. CASE Arrive(s)
  <2> DEFINE auth == Admission(sess[s].call)
             to   == IF auth.status = 200 /\ Of(s).db # "none" THEN "waiting" ELSE "done"
             re   == IF auth.status = 200 /\ Of(s).db # "none" THEN None ELSE auth.status
  <2>1. /\ sess' = [sess EXCEPT ![s].auth = auth, ![s].pc = to, ![s].reply = re]
        /\ settings' = settings
    BY <1>1 DEF Arrive
  <2>2. to \in Pcs /\ re \in Statuses
    BY AdmissionTyped DEF Pcs, Statuses
  <2>3. Of(s).db = "tenant" => auth.role \in UserRole \cup {None}
    BY AdmissionTyped DEF Of
  <2> HIDE DEF auth, to, re
  <2> QED
    BY <2>1, <2>2, <2>3 DEF Shape, Fields
<1>2. CASE \E status \in Statuses : sess' = Failed(s, status) /\ settings' = settings
  BY <1>2 DEF Shape, Fields, Failed, Pcs
<1>3. CASE PoolTimeout(s)
  BY <1>3 DEF PoolTimeout, Shape, Fields, Pcs, Statuses
<1>4. CASE Begin(s)
  <2> DEFINE asked == { id \in sess[s].call.refs : id[1] \in Of(s).loads }
             seen  == UNION { Loaded(s, id) : id \in asked }
             begun == [sess EXCEPT ![s].pc = "running", ![s].step = 1, ![s].seen = seen]
  <2>1. sess' = Failed(s, 403) \/ sess' = Failed(s, 404) \/ sess' = begun
    BY <1>4, BeginUpdates, Zenon
  <2>2. settings' = settings
    BY <1>4 DEF Begin
  <2> HIDE DEF asked, seen
  <2>3. CASE sess' = begun
    BY <2>2, <2>3 DEF Shape, Fields, Pcs
  <2> HIDE DEF begun
  <2>4. 403 \in Statuses /\ 404 \in Statuses
    BY <1>0
  <2> QED
    BY <1>2, <2>1, <2>2, <2>3, <2>4
<1>5. CASE Read(s)
  <2> DEFINE found == Selected(s, Of(s).scan[sess[s].step])
             last  == sess[s].step = Len(Of(s).scan) /\ Of(s).inserts = None
             to    == IF last THEN "commit" ELSE "running"
             re    == IF last THEN 200 ELSE None
             next  == [sess EXCEPT ![s].seen = @ \cup found, ![s].step = @ + 1,
                                   ![s].pc = to, ![s].reply = re]
  <2>1. sess' = Failed(s, 500) \/ sess' = next
    BY <1>5, Zenon DEF Read
  <2>2. settings' = settings
    BY <1>5 DEF Read
  <2>3. to \in Pcs /\ re \in Statuses
    BY DEF Pcs, Statuses
  <2> HIDE DEF found, to, re
  <2>4. CASE sess' = next
    BY <2>2, <2>3, <2>4 DEF Shape, Fields
  <2> HIDE DEF next
  <2>5. 500 \in Statuses
    BY <1>0
  <2> QED
    BY <1>2, <2>1, <2>2, <2>4, <2>5
<1>6. CASE Insert(s)
  <2>1. \/ sess' = Failed(s, 500)
        \/ sess' = [Failed(s, 400) EXCEPT ![s].own = @ \cup NewRows(s)]
        \/ sess' = [sess EXCEPT ![s].own = @ \cup NewRows(s), ![s].reply = 201,
                                ![s].pc = "commit"]
    BY <1>6, ZenonT(60) DEF Insert
  <2>2. settings' = settings
    BY <1>6 DEF Insert
  <2>3. CASE sess' = [Failed(s, 400) EXCEPT ![s].own = @ \cup NewRows(s)]
    BY <2>2, <2>3 DEF Shape, Fields, Failed, Pcs, Statuses
  <2>4. CASE sess' = [sess EXCEPT ![s].own = @ \cup NewRows(s), ![s].reply = 201,
                                  ![s].pc = "commit"]
    BY <2>2, <2>4 DEF Shape, Fields, Pcs, Statuses
  <2>5. CASE sess' = Failed(s, 500)
    <3> 500 \in Statuses
      BY <1>0
    <3> QED
      BY <1>2, <2>2, <2>5
  <2> QED
    BY <2>1, <2>3, <2>4, <2>5, ZenonT(40)
<1>7. CASE SeedStep(s)
  <2>1. /\ settings' = settings
        /\ sess'[s].conn = sess[s].conn /\ sess'[s].auth = sess[s].auth
        /\ \/ sess' = Failed(s, 500)
           \/ sess'[s].reply = sess[s].reply /\ sess'[s].pc \in {"open", "commit"}
    BY <1>7, SeedStepEffect
  <2> QED
    BY <1>0, <1>2, <2>1 DEF Pcs
<1>8. CASE Commit(s)
  <2>1. /\ sess'[s].pc \in {"key", "leaving", "done"}
        /\ sess'[s].reply = sess[s].reply
    BY <1>8, CommitUpdates
  <2>2. sess'[s].auth = sess[s].auth
    BY <1>8, QuietSteps
  <2>3. sess'[s].conn \in {sess[s].conn, None}
    BY <1>8 DEF Shape, Fields, Commit
  <2>4. \A c \in Conn : settings'[c] \in {settings[c], NoContext}
    BY <1>8 DEF Shape, Commit, AfterTransaction
  <2>5. \A c \in Conn : settings'[c].role \in UserRole \cup {None}
    BY <2>4 DEF NoContext
  <2>6. sess'[s].reply \in Statuses
    BY <2>1
  <2>7. Of(s).db = "tenant" => sess'[s].auth.role \in UserRole \cup {None}
    BY <2>2
  <2>8. sess'[s].pc \in Pcs /\ sess'[s].conn \in PoolOf[s] \cup {None}
    BY <2>1, <2>3 DEF Pcs
  <2> QED
    BY <2>5, <2>6, <2>7, <2>8
<1>9. CASE CloseSession(s)
  <2>1. /\ sess'[s].pc \in Pcs /\ sess'[s].conn \in PoolOf[s] \cup {None}
        /\ sess'[s].reply = sess[s].reply /\ sess'[s].auth = sess[s].auth
    BY <1>9 DEF Shape, Fields, CloseSession, Pcs
  <2>2. \A c \in Conn : settings'[c] \in {settings[c], NoContext}
    BY <1>9 DEF Shape, CloseSession, AfterTransaction
  <2>3. \A c \in Conn : settings'[c].role \in UserRole \cup {None}
    BY <2>2 DEF NoContext
  <2>4. sess'[s].reply \in Statuses
    BY <2>1
  <2>5. Of(s).db = "tenant" => sess'[s].auth.role \in UserRole \cup {None}
    BY <2>1
  <2> QED
    BY <2>1, <2>3, <2>4, <2>5
<1>10. CASE SetActiveMode(s)
  BY <1>10 DEF Shape, Fields, SetActiveMode, Pcs
<1>11. CASE Fail(s)
  <2>1. PICK status \in {500, sess[s].reply} : sess' = Failed(s, status)
    BY <1>11 DEF Fail
  <2>2. settings' = settings /\ status \in Statuses
    BY <1>0, <1>11 DEF Fail
  <2> QED
    BY <1>2, <2>1, <2>2
<1>12. CASE \E c \in Conn : OpenSession(s, c)
  <2> PICK c \in Conn : OpenSession(s, c)
    BY <1>12
  <2>1. /\ sess' = [sess EXCEPT ![s].pc = "open", ![s].conn = c]
        /\ settings' = [settings EXCEPT ![c] = SetSessionContext(@, ContextOf(s))]
        /\ c \in PoolOf[s]
    BY DEF OpenSession
  <2>2. ContextOf(s).role \in UserRole \cup {None}
    BY DEF ContextOf, UserRole
  <2>3. SetSessionContext(settings[c], ContextOf(s)).role \in UserRole \cup {None}
    BY <2>2 DEF SetSessionContext
  <2>4. \A d \in Conn : settings'[d].role \in UserRole \cup {None}
    BY <2>1, <2>3 DEF Shape
  <2>5. /\ sess'[s].pc = "open" /\ sess'[s].conn = c
        /\ sess'[s].reply = sess[s].reply /\ sess'[s].auth = sess[s].auth
    BY <2>1 DEF Shape, Fields
  <2> QED
    BY <2>1, <2>4, <2>5 DEF Pcs
<1> QED
  BY <1>1, <1>3, <1>4, <1>5, <1>6, <1>7, <1>8, <1>9, <1>10, <1>11, <1>12

\* Rows come from the handlers and from the plan of the seed.
LEMMA RowsOfStep ==
    ASSUME Shape, TypeInv, NEW s \in Session,
           \/ Arrive(s) \/ PoolTimeout(s) \/ Begin(s) \/ Read(s) \/ Insert(s)
           \/ SeedStep(s) \/ Commit(s) \/ SetActiveMode(s) \/ Fail(s) \/ CloseSession(s)
           \/ \E c \in Conn : OpenSession(s, c)
    PROVE  /\ \A r \in rows' : RowTyped(r)
           /\ \A r \in sess'[s].own \cup sess'[s].added : RowTyped(r)
<1> USE DEF TypeInv
<1>1. CASE \/ Arrive(s) \/ PoolTimeout(s) \/ Begin(s) \/ Read(s)
           \/ SetActiveMode(s) \/ Fail(s) \/ \E c \in Conn : OpenSession(s, c)
  BY <1>1, EarlySteps
<1>2. CASE Insert(s)
  <2>1. \A r \in NewRows(s) : RowTyped(r)
    BY <1>2, NewRowsTyped DEF Insert
  <2> QED
    BY <1>2, <2>1, InsertUpdates
<1>3. CASE SeedStep(s)
  <2> DEFINE Planned(x) == \A r \in x : RowTyped(r)
  <2>2. /\ rows' = rows
        /\ \/ sess' = Failed(s, 500)
           \/ /\ sess'[s].own = sess[s].own \cup sess[s].added
              /\ Planned(sess'[s].added)
    BY <1>3, SeedStepEffect, SeedPlanTyped
  <2>3. sess' = Failed(s, 500) => sess'[s].own = sess[s].own /\ sess'[s].added = sess[s].added
    BY DEF Shape, Fields, Failed
  <2> QED
    BY <2>2, <2>3
<1>4. CASE Commit(s)
  BY <1>4, CommitUpdates
<1>5. CASE CloseSession(s)
  BY <1>5, CloseUpdates
<1> QED
  BY <1>1, <1>2, <1>3, <1>4, <1>5

LEMMA TypesKept ==
    ASSUME Shape, TypeInv, TenancyNext PROVE TypeInv'
<1> PICK s \in Session :
      \/ Arrive(s) \/ PoolTimeout(s) \/ Begin(s) \/ Read(s) \/ Insert(s)
      \/ SeedStep(s) \/ Commit(s) \/ SetActiveMode(s) \/ Fail(s) \/ CloseSession(s)
      \/ \E c \in Conn : OpenSession(s, c)
  BY DEF TenancyNext
<1>1. /\ \A o \in Session : o # s => sess'[o] = sess[o]
      /\ sess'[s].call = sess[s].call
  BY OnlyOwnSeen
<1>2. \A o \in Session : Of(o)' = Of(o)
  BY <1>1 DEF Of
<1>3. /\ \A r \in rows' : RowTyped(r)
      /\ \A r \in sess'[s].own \cup sess'[s].added : RowTyped(r)
  BY RowsOfStep
<1>4. /\ sess'[s].pc \in Pcs
      /\ sess'[s].conn \in PoolOf[s] \cup {None}
      /\ sess'[s].reply \in Statuses
      /\ \A c \in Conn : settings'[c].role \in UserRole \cup {None}
      /\ Of(s).db = "tenant" => sess'[s].auth.role \in UserRole \cup {None}
  BY TypesOfStep, TenancyAssumption
<1> QED
  BY <1>1, <1>2, <1>3, <1>4 DEF TypeInv

LEMMA InitTypes == ASSUME TenancyInit PROVE TypeInv
<1>1. PICK calls \in Scenarios : sess = [s \in Session |-> NewSession(calls[s])]
  BY DEF TenancyInit
<1>2. \A r \in rows : RowTyped(r)
  BY InitialRowsAssumption DEF TenancyInit, RowTyped
<1>3. \A c \in Conn : settings[c].role \in UserRole \cup {None}
  BY DEF TenancyInit, NoContext
<1>4. ASSUME NEW s \in Session
      PROVE  /\ sess[s].pc \in Pcs /\ sess[s].conn \in PoolOf[s] \cup {None}
             /\ sess[s].reply \in Statuses
             /\ sess[s].auth.role \in UserRole \cup {None}
             /\ sess[s].own = {} /\ sess[s].added = {}
             /\ sess[s].call = calls[s]
    BY <1>1 DEF NewSession, Refused, Pcs, Statuses
<1> QED
  BY <1>2, <1>3, <1>4, TenancyAssumption DEF TypeInv

\* Everything about rows, settings and sessions that later proofs rely on.
Sound == Shape /\ ContextInv /\ ReadInv /\ WriteInv /\ TypeInv

LEMMA SoundInit == TenancyInit => Sound
BY InitShape, InitContext, InitReads, InitWrites, InitTypes, TenancyAssumption DEF Sound

LEMMA SoundNext == Sound /\ [TenancyNext]_tenancyVars => Sound'
<1>1. ASSUME Sound, TenancyNext PROVE Sound'
  BY <1>1, ShapeKept, ContextKept, ReadKept, WriteKept, TypesKept DEF Sound
<1>2. ASSUME Sound, UNCHANGED tenancyVars PROVE Sound'
  <2>1. Still
    BY <1>2 DEF Still, tenancyVars
  <2>2. Shape'
    BY <1>2 DEF Sound, Shape, tenancyVars
  <2>3. ReadInv'
    BY <1>2 DEF Sound, ReadInv, Admitted, Confined, Of, Tenant, tenancyVars
  <2>4. WriteInv'
    BY <1>2, WritesStutter DEF Sound
  <2>5. TypeInv'
    BY <1>2, SMTT(30) DEF Sound, TypeInv, Of, tenancyVars
  <2> QED
    BY <1>2, <2>1, <2>2, <2>3, <2>4, <2>5, StillKeepsContext DEF Sound
<1> QED
  BY <1>1, <1>2

LEMMA SoundInvariant == TenancySpec => []Sound
BY SoundInit, SoundNext, PTL DEF TenancySpec

\* Rows carry the name of their table, settings hold roles the policies know, and
\* a session has a connection exactly from its first statement to its end.
THEOREM TenancyTyped == TenancySpec => []TenancyTypeOK
<1>1. Sound => TenancyTypeOK
  <2> SUFFICES ASSUME Sound PROVE TenancyTypeOK
    OBVIOUS
  <2>1. \A r \in rows : /\ r.table \in DOMAIN Parents /\ r.id[1] = r.table
                        /\ r.by \in Session \cup {None}
    BY DEF Sound, TypeInv, RowTyped, WriteInv, RowInv
  <2>2. ASSUME NEW s \in Session
        PROVE  sess[s].conn = None <=> sess[s].pc \in {"idle", "waiting", "done"}
    BY DEF Sound, TypeInv, ContextInv, Holds, Pcs
  <2> QED
    BY <2>1, <2>2 DEF Sound, TypeInv, TenancyTypeOK, Pcs, Statuses
<1> QED
  BY <1>1, SoundInvariant, PTL

-----------------------------------------------------------------------------
(* References.  No two rows share a key, whoever is still to commit them;  *)
(* so what a handler has found under an id is what its new row refers to.  *)

NoClash(R) == \A x, y \in R : x # y => x.keys \cap y.keys = {}

\* What a session works on: what is committed and what it has inserted.
There(s) == rows \cup sess[s].own

UniqueInv ==
    /\ NoClash(rows)
    /\ \A s \in Session : NoClash(There(s))
    /\ \A s, o \in Session : s # o => ~Collide(sess[s].own, sess[o].own)

Flushes(s, new) ==
    /\ ~Waits(s, new) /\ ~Rejected(s, new)
    /\ rows' = rows /\ sess'[s].own = sess[s].own \cup new

\* How rows move: from a session, by way of its own, to what is committed.
LEMMA RowsMove ==
    ASSUME Shape, NEW s \in Session,
           \/ Arrive(s) \/ PoolTimeout(s) \/ Begin(s) \/ Read(s) \/ Insert(s)
           \/ SeedStep(s) \/ Commit(s) \/ SetActiveMode(s) \/ Fail(s) \/ CloseSession(s)
           \/ \E c \in Conn : OpenSession(s, c)
    PROVE  \/ rows' = rows /\ sess'[s].own = sess[s].own
           \/ rows' = rows /\ sess'[s].own = {}
           \/ Insert(s) /\ Flushes(s, NewRows(s))
           \/ SeedStep(s) /\ Flushes(s, sess[s].added)
           \/ Commit(s) /\ rows' = rows \cup sess[s].own /\ sess'[s].own = {}
<1>1. CASE \/ Arrive(s) \/ PoolTimeout(s) \/ Begin(s) \/ Read(s)
           \/ SetActiveMode(s) \/ Fail(s) \/ \E c \in Conn : OpenSession(s, c)
  BY <1>1, EarlySteps
<1>2. CASE Insert(s)
  <2> DEFINE new == NewRows(s)
  <2>1. rows' = rows /\ ~Waits(s, new)
    BY <1>2 DEF Insert
  <2>2. CASE Rejected(s, new)
    <3>1. sess' = Failed(s, 500)
      BY <1>2, <2>2 DEF Insert
    <3> QED
      BY <2>1, <3>1 DEF Shape, Fields, Failed
  <2>3. CASE ~Rejected(s, new)
    <3>1. \/ sess' = [Failed(s, 400) EXCEPT ![s].own = @ \cup new]
          \/ sess' = [sess EXCEPT ![s].own = @ \cup new, ![s].reply = 201, ![s].pc = "commit"]
      BY <1>2, <2>3, ZenonT(60) DEF Insert
    <3> HIDE DEF new
    <3>2. sess'[s].own = sess[s].own \cup new
      BY <3>1 DEF Shape, Fields, Failed
    <3> QED
      BY <1>2, <2>1, <2>3, <3>2 DEF Flushes, new
  <2> QED
    BY <2>2, <2>3
<1>3. CASE SeedStep(s)
  <2>1. /\ rows' = rows /\ ~Waits(s, sess[s].added)
        /\ \/ sess' = Failed(s, 500)
           \/ ~Rejected(s, sess[s].added) /\ sess'[s].own = sess[s].own \cup sess[s].added
    BY <1>3, SeedStepEffect
  <2>2. sess' = Failed(s, 500) => sess'[s].own = sess[s].own
    BY DEF Shape, Fields, Failed
  <2> QED
    BY <1>3, <2>1, <2>2 DEF Flushes
<1>4. CASE Commit(s)
  BY <1>4, CommitUpdates
<1>5. CASE CloseSession(s)
  BY <1>5, CloseUpdates
<1> QED
  BY <1>1, <1>2, <1>3, <1>4, <1>5

LEMMA FlushIsUnique ==
    ASSUME NEW s \in Session, NEW new, ~Rejected(s, new), NoClash(There(s))
    PROVE  NoClash(There(s) \cup new)
<1>1. \A x \in new, y \in rows \cup sess[s].own : x.keys \cap y.keys = {}
  BY DEF There, Rejected, Collide
<1>2. \A x, y \in new : x # y => x.keys \cap y.keys = {}
  BY DEF There, Rejected, Collide
<1> QED
  BY <1>1, <1>2 DEF There, NoClash

LEMMA UniqueKept ==
    ASSUME Shape, UniqueInv, TenancyNext PROVE UniqueInv'
<1> PICK s \in Session :
      \/ Arrive(s) \/ PoolTimeout(s) \/ Begin(s) \/ Read(s) \/ Insert(s)
      \/ SeedStep(s) \/ Commit(s) \/ SetActiveMode(s) \/ Fail(s) \/ CloseSession(s)
      \/ \E c \in Conn : OpenSession(s, c)
  BY DEF TenancyNext
<1>1. \A o \in Session : o # s => sess'[o].own = sess[o].own
  BY OnlyOwnSeen
<1>2. CASE rows' = rows /\ sess'[s].own \in {sess[s].own, {}}
  <2>1. \A o \in Session : sess'[o].own \subseteq sess[o].own
    BY <1>1, <1>2
  <2> QED
    BY <1>2, <2>1 DEF There, UniqueInv, NoClash, Collide
<1>3. ASSUME NEW new, Flushes(s, new) PROVE UniqueInv'
  <2>1. rows' = rows /\ sess'[s].own = sess[s].own \cup new
    BY <1>3 DEF Flushes
  <2>2. NoClash(There(s) \cup new)
    BY <1>3, FlushIsUnique DEF Flushes, UniqueInv, There
  <2>3. \A o \in Session \ {s} : \A x \in new, y \in sess[o].own : x.keys \cap y.keys = {}
    BY <1>3 DEF Flushes, Waits, Collide
  <2>4. /\ NoClash(rows)'
        /\ \A o \in Session : NoClash(There(o))'
    BY <1>1, <2>1, <2>2 DEF There, UniqueInv, NoClash
  <2>5. ASSUME NEW o \in Session, NEW p \in Session, o # p,
               NEW x \in sess'[o].own, NEW y \in sess'[p].own
        PROVE  x.keys \cap y.keys = {}
    BY <1>1, <2>1, <2>3, <2>5 DEF There, UniqueInv, Collide
  <2> QED
    BY <2>4, <2>5 DEF There, UniqueInv, Collide
<1>4. CASE rows' = rows \cup sess[s].own /\ sess'[s].own = {}
  <2>1. NoClash(rows)' /\ NoClash(There(s))'
    BY <1>4 DEF There, UniqueInv, NoClash
  <2>2. ASSUME NEW o \in Session, o # s PROVE NoClash(There(o))'
    <3>1. sess'[o].own = sess[o].own
      BY <1>1, <2>2
    <3>2. \A x \in sess[s].own, y \in sess[o].own : x.keys \cap y.keys = {}
      BY <2>2 DEF There, UniqueInv, Collide
    <3> QED
      BY <1>4, <3>1, <3>2 DEF There, UniqueInv, NoClash
  <2>3. ASSUME NEW o \in Session, NEW p \in Session, o # p,
               NEW x \in sess'[o].own, NEW y \in sess'[p].own
        PROVE  x.keys \cap y.keys = {}
    BY <2>3, <1>1, <1>4 DEF There, UniqueInv, Collide
  <2> QED
    BY <2>1, <2>2, <2>3 DEF UniqueInv, Collide
<1> QED
  BY <1>2, <1>3, <1>4, RowsMove

-----------------------------------------------------------------------------
(* What a handler has found is still there when it inserts.                *)

Loads(s) ==
    sess[s].pc = "running" =>
        \A id \in sess[s].call.refs : id[1] \in Of(s).loads =>
            \E q \in There(s) : q.id = id /\ (id[1] \in Of(s).checks => q.tenant = Tenant(s))

Notifies(s) == Of(s).inserts = "notification_deliveries" /\ Of(s).inserts # None

Sees(s) ==
    sess[s].pc = "running" =>
        /\ sess[s].seen \subseteq There(s)
        /\ Notifies(s) => \A x, y \in sess[s].seen : x.tenant = y.tenant

HandlerInv ==
    \A s \in Session :
        /\ \E calls \in Scenarios : sess[s].call = calls[s]
        /\ Loads(s) /\ Sees(s)

LEMMA BeginFinds ==
    ASSUME Shape, NEW s \in Session, Begin(s), sess'[s].pc = "running"
    PROVE  LET asked == { id \in sess[s].call.refs : id[1] \in Of(s).loads }
           IN  /\ rows' = rows /\ sess'[s].own = sess[s].own
               /\ sess[s].pc = "open"
               /\ \A id \in asked : Loaded(s, id) # {}
               /\ sess'[s].seen = UNION { Loaded(s, id) : id \in asked }
<1> DEFINE asked == { id \in sess[s].call.refs : id[1] \in Of(s).loads }
           found == UNION { Loaded(s, id) : id \in asked }
<1>1. rows' = rows /\ sess[s].pc = "open"
  BY DEF Begin
<1>2. \A status : sess' # Failed(s, status)
  BY DEF Shape, Fields, Failed
<1>3. /\ \A id \in asked : Loaded(s, id) # {}
      /\ sess' = [sess EXCEPT ![s].pc = "running", ![s].step = 1, ![s].seen = found]
  BY <1>2, ZenonT(60) DEF Begin
<1> HIDE DEF asked, found
<1>4. sess'[s].seen = found /\ sess'[s].own = sess[s].own
  BY <1>3 DEF Shape, Fields
<1> QED
  BY <1>1, <1>3, <1>4 DEF asked, found

LEMMA ReadFinds ==
    ASSUME Shape, NEW s \in Session, Read(s), sess'[s].pc = "running"
    PROVE  /\ rows' = rows /\ sess'[s].own = sess[s].own
           /\ sess[s].pc = "running" /\ sess[s].step \in DOMAIN Of(s).scan
           /\ sess'[s].seen = sess[s].seen \cup Selected(s, Of(s).scan[sess[s].step])
<1> DEFINE found == Selected(s, Of(s).scan[sess[s].step])
<1>1. rows' = rows /\ sess[s].pc = "running" /\ sess[s].step \in DOMAIN Of(s).scan
  BY DEF Read
<1>2. sess' # Failed(s, 500)
  BY DEF Shape, Fields, Failed
<1>3. \E step, pc, reply :
        sess' = [sess EXCEPT ![s].seen = @ \cup found, ![s].step = step,
                             ![s].pc = pc, ![s].reply = reply]
  BY <1>2, ZenonT(60) DEF Read
<1> HIDE DEF found
<1>4. sess'[s].seen = sess[s].seen \cup found /\ sess'[s].own = sess[s].own
  BY <1>3 DEF Shape, Fields
<1> QED
  BY <1>1, <1>4 DEF found

LEMMA NotRunning ==
    ASSUME Shape, NEW s \in Session,
           \/ Arrive(s) \/ PoolTimeout(s) \/ Insert(s)
           \/ SeedStep(s) \/ Commit(s) \/ SetActiveMode(s) \/ Fail(s) \/ CloseSession(s)
           \/ \E c \in Conn : OpenSession(s, c)
    PROVE  sess'[s].pc # "running"
<1>1. CASE Arrive(s) \/ PoolTimeout(s)
  BY <1>1 DEF Shape, Fields, Arrive, PoolTimeout
<1>2. CASE Insert(s)
  BY <1>2, InsertUpdates
<1>3. CASE SeedStep(s)
  BY <1>3, SeedStepPc
<1>4. CASE Commit(s) \/ CloseSession(s)
  BY <1>4, CommitUpdates, CloseUpdates
<1>5. CASE SetActiveMode(s)
  BY <1>5 DEF Shape, Fields, SetActiveMode
<1>6. CASE Fail(s)
  <2> PICK status : sess' = Failed(s, status)
    BY <1>6 DEF Fail
  <2> QED
    BY DEF Shape, Fields, Failed
<1>7. CASE \E c \in Conn : OpenSession(s, c)
  BY <1>7 DEF Shape, Fields, OpenSession
<1> QED
  BY <1>1, <1>2, <1>3, <1>4, <1>5, <1>6, <1>7

LEMMA OneDecision ==
    ASSUME HandlerInv, NEW s \in Session, Notifies(s)
    PROVE  \A i, j \in sess[s].call.refs : i = j
<1> USE DEF Assembled
<1> PICK calls \in Scenarios : sess[s].call = calls[s]
  BY DEF HandlerInv
<1> QED
  BY CallAssumption DEF Of, Notifies

LEMMA HandlerKept ==
    ASSUME Shape, TypeInv, UniqueInv, HandlerInv, TenancyNext PROVE HandlerInv'
<1> PICK s \in Session :
      \/ Arrive(s) \/ PoolTimeout(s) \/ Begin(s) \/ Read(s) \/ Insert(s)
      \/ SeedStep(s) \/ Commit(s) \/ SetActiveMode(s) \/ Fail(s) \/ CloseSession(s)
      \/ \E c \in Conn : OpenSession(s, c)
  BY DEF TenancyNext
<1>1. /\ \A o \in Session : o # s => sess'[o] = sess[o]
      /\ \A o \in Session : sess'[o].call = sess[o].call
  BY OnlyOwnSeen
<1>2. \A o \in Session : Of(o)' = Of(o) /\ Tenant(o)' = Tenant(o)
  BY <1>1 DEF Of, Tenant
<1>3. rows \subseteq rows'
  BY RowsMove DEF Flushes
<1>4. ASSUME NEW o \in Session, o # s PROVE Loads(o)' /\ Sees(o)'
  <2>1. There(o) \subseteq There(o)' /\ sess'[o] = sess[o]
    BY <1>1, <1>3, <1>4 DEF There
  <2>2. Loads(o)'
    BY <1>1, <1>2, <2>1 DEF HandlerInv, Loads
  <2>3. Sees(o)'
    BY <1>1, <1>2, <2>1 DEF HandlerInv, Sees, Notifies
  <2> QED
    BY <2>2, <2>3
<1>5. Visible(s) \subseteq There(s)
  BY DEF Visible, There
<1>6. \A r \in There(s) : RowTyped(r)
  BY DEF There, TypeInv
<1>7. CASE Begin(s) /\ sess'[s].pc = "running"
  <2> DEFINE asked == { id \in sess[s].call.refs : id[1] \in Of(s).loads }
  <2>1. /\ There(s)' = There(s)
        /\ \A id \in asked : Loaded(s, id) # {}
        /\ sess'[s].seen = UNION { Loaded(s, id) : id \in asked }
    BY <1>7, BeginFinds DEF There
  <2>2. ASSUME NEW id, NEW r \in Loaded(s, id)
        PROVE  /\ r \in There(s) /\ r.id = id /\ r.table = id[1]
               /\ id[1] \in Of(s).checks => r.tenant = Tenant(s)
    BY <1>5, <1>6, <2>2 DEF Loaded, RowTyped
  <2>3. Loads(s)'
    <3> SUFFICES ASSUME NEW id \in sess[s].call.refs, id[1] \in Of(s).loads
                 PROVE  \E q \in There(s) :
                          q.id = id /\ (id[1] \in Of(s).checks => q.tenant = Tenant(s))
      BY <1>1, <1>2, <2>1 DEF Loads
    <3> PICK r : r \in Loaded(s, id)
      BY <2>1
    <3> QED
      BY <2>2
  <2>4. sess'[s].seen \subseteq There(s)
    BY <2>1, <2>2
  <2>5. ASSUME Notifies(s),
               NEW x \in sess'[s].seen, NEW y \in sess'[s].seen
        PROVE  x.tenant = y.tenant
    <3>1. PICK i \in asked : x \in Loaded(s, i)
      BY <2>1
    <3>2. PICK j \in asked : y \in Loaded(s, j)
      BY <2>1
    <3>3. i = j
      BY <2>5, OneDecision
    <3>4. x \in There(s) /\ y \in There(s) /\ x.id = y.id
      BY <2>2, <3>1, <3>2, <3>3
    <3>5. x.id \in x.keys \cap y.keys
      BY <1>6, <3>4 DEF RowTyped
    <3> QED
      BY <3>4, <3>5 DEF UniqueInv, NoClash
  <2>6. Sees(s)'
    BY <1>2, <2>1, <2>4, <2>5 DEF Sees, Notifies
  <2> QED
    BY <1>1, <1>4, <2>3, <2>6 DEF HandlerInv
<1>8. CASE Read(s) /\ sess'[s].pc = "running"
  <2> DEFINE query == Of(s).scan[sess[s].step]
             found == Selected(s, query)
  <2>1. /\ There(s)' = There(s)
        /\ sess[s].pc = "running" /\ sess[s].step \in DOMAIN Of(s).scan
        /\ sess'[s].seen = sess[s].seen \cup found
    BY <1>8, ReadFinds DEF There
  <2>2. Loads(s)'
    BY <1>1, <1>2, <2>1 DEF HandlerInv, Loads
  <2>3. sess'[s].seen \subseteq There(s)
    BY <1>5, <2>1 DEF HandlerInv, Sees, Selected
  <2>4. ASSUME Notifies(s),
               NEW x \in sess'[s].seen, NEW y \in sess'[s].seen
        PROVE  x.tenant = y.tenant
    <3>1. Of(s).scan = << Select("notification_configs", "tenant") >>
      BY <2>4, WhatInserts DEF TypeInv, Of, Notifies
    <3>2. query.which = "tenant"
      BY <2>1, <3>1 DEF Select
    <3> HIDE DEF query
    <3>3. \A r \in found : \E p \in sess[s].seen : p.tenant = r.tenant
      BY <3>2 DEF Selected
    <3>4. \A p, q \in sess[s].seen : p.tenant = q.tenant
      BY <2>1, <2>4 DEF HandlerInv, Sees
    <3> QED
      BY <2>1, <2>4, <3>3, <3>4
  <2>5. Sees(s)'
    BY <1>2, <2>1, <2>3, <2>4 DEF Sees, Notifies
  <2> QED
    BY <1>1, <1>4, <2>2, <2>5 DEF HandlerInv
<1>9. CASE sess'[s].pc # "running"
  BY <1>1, <1>4, <1>9 DEF HandlerInv, Loads, Sees
<1> QED
  BY <1>7, <1>8, <1>9, NotRunning

-----------------------------------------------------------------------------
(* What steps answer.                                                      *)

LEMMA NoneIsNoAnswer == None # 200
<1>1. 200 \in 200..599
  OBVIOUS
<1> QED
  BY <1>1, TenancyAssumption DEF TenancyAssumption

AtWork(pc) == pc \in {"idle", "waiting", "open", "running"}

LEMMA ReadEffect ==
    ASSUME Shape, NEW s \in Session, Read(s)
    PROVE  LET query == Of(s).scan[sess[s].step]
               found == Selected(s, query)
               last  == sess[s].step = Len(Of(s).scan) /\ Of(s).inserts = None
           IN  /\ sess[s].pc = "running" /\ sess[s].step \in DOMAIN Of(s).scan
               /\ rows' = rows /\ sess'[s].own = sess[s].own
               /\ \/ sess' = Failed(s, 500)
                  \/ /\ sess'[s].seen = sess[s].seen \cup found
                     /\ sess'[s].step = sess[s].step + 1
                     /\ sess'[s].pc = IF last THEN "commit" ELSE "running"
                     /\ sess'[s].reply = IF last THEN 200 ELSE None
<1> DEFINE query == Of(s).scan[sess[s].step]
           found == Selected(s, query)
           last  == sess[s].step = Len(Of(s).scan) /\ Of(s).inserts = None
           to    == IF last THEN "commit" ELSE "running"
           re    == IF last THEN 200 ELSE None
<1>1. /\ sess[s].pc = "running" /\ sess[s].step \in DOMAIN Of(s).scan
      /\ rows' = rows /\ sess'[s].own = sess[s].own
  BY EarlySteps DEF Read
<1>2. \/ sess' = Failed(s, 500)
      \/ sess' = [sess EXCEPT ![s].seen = @ \cup found, ![s].step = @ + 1,
                              ![s].pc = to, ![s].reply = re]
  BY ZenonT(60) DEF Read
<1> HIDE DEF found, to, re
<1>3. CASE sess' = [sess EXCEPT ![s].seen = @ \cup found, ![s].step = @ + 1,
                                ![s].pc = to, ![s].reply = re]
  <2>1. /\ sess'[s].seen = sess[s].seen \cup found /\ sess'[s].step = sess[s].step + 1
        /\ sess'[s].pc = to /\ sess'[s].reply = re
    BY <1>3 DEF Shape, Fields
  <2> QED
    BY <1>1, <2>1 DEF found, to, re
<1> QED
  BY <1>1, <1>2, <1>3

\* Steps other than Begin and Read neither see anything nor answer 200, unless
\* the endpoint has no session at all.
LEMMA OtherAnswers ==
    ASSUME Shape, NEW s \in Session, Of(s).db # "none", TenancyAssumption,
           \/ Arrive(s) \/ PoolTimeout(s) \/ Insert(s)
           \/ SeedStep(s) \/ Commit(s) \/ SetActiveMode(s) \/ Fail(s) \/ CloseSession(s)
           \/ \E c \in Conn : OpenSession(s, c)
    PROVE  /\ sess'[s].seen = sess[s].seen
           /\ sess'[s].reply = 200 => sess[s].reply = 200
           /\ AtWork(sess'[s].pc) => AtWork(sess[s].pc) \/ sess'[s].reply # 200
<1>0. None # 200
  <2>1. 200 \in 200..599
    OBVIOUS
  <2> QED
    BY <2>1, TenancyAssumption DEF TenancyAssumption
<1>1. CASE Arrive(s)
  <2> DEFINE auth == Admission(sess[s].call)
             to   == IF auth.status = 200 THEN "waiting" ELSE "done"
             re   == IF auth.status = 200 THEN None ELSE auth.status
  <2>1. sess' = [sess EXCEPT ![s].auth = auth, ![s].pc = to, ![s].reply = re]
    BY <1>1 DEF Arrive
  <2>2. re # 200
    BY <1>0
  <2> HIDE DEF auth, to, re
  <2> QED
    BY <2>1, <2>2 DEF Shape, Fields
<1>2. CASE PoolTimeout(s)
  BY <1>2 DEF Shape, Fields, PoolTimeout, AtWork
<1>3. CASE Insert(s)
  <2>1. \/ sess' = Failed(s, 500)
        \/ sess' = [Failed(s, 400) EXCEPT ![s].own = @ \cup NewRows(s)]
        \/ sess' = [sess EXCEPT ![s].own = @ \cup NewRows(s), ![s].reply = 201,
                                ![s].pc = "commit"]
    BY <1>3, ZenonT(60) DEF Insert
  <2> QED
    BY <2>1 DEF Shape, Fields, Failed, AtWork
<1>4. CASE SeedStep(s)
  <2>1. /\ sess'[s].reply = 500 \/ sess'[s].reply = sess[s].reply
        /\ sess[s].pc = "open"
    <3>1. sess[s].pc = "open" /\ (sess' = Failed(s, 500) \/ sess'[s].reply = sess[s].reply)
      BY <1>4, SeedStepEffect
    <3> QED
      BY <3>1 DEF Shape, Fields, Failed
  <2> QED
    BY <1>4, <2>1, QuietSteps DEF AtWork
<1>5. CASE Commit(s)
  BY <1>5, CommitUpdates, QuietSteps DEF AtWork
<1>6. CASE CloseSession(s)
  BY <1>6, CloseUpdates, QuietSteps DEF AtWork
<1>7. CASE SetActiveMode(s)
  BY <1>7 DEF Shape, Fields, SetActiveMode, AtWork
<1>8. CASE Fail(s)
  <2> PICK status : sess' = Failed(s, status) /\ (status = 500 \/ status = sess[s].reply)
    BY <1>8 DEF Fail
  <2> QED
    BY DEF Shape, Fields, Failed, AtWork
<1>9. CASE \E c \in Conn : OpenSession(s, c)
  <2> PICK c \in Conn : OpenSession(s, c)
    BY <1>9
  <2>1. /\ sess' = [sess EXCEPT ![s].pc = "open", ![s].conn = c]
        /\ sess[s].pc = "waiting"
    BY DEF OpenSession
  <2> QED
    BY <2>1 DEF Shape, Fields, AtWork
<1> QED
  BY <1>1, <1>2, <1>3, <1>4, <1>5, <1>6, <1>7, <1>8, <1>9

LEMMA BeginAnswers ==
    ASSUME Shape, NEW s \in Session, Begin(s)
    PROVE  /\ sess[s].pc = "open" /\ sess'[s].pc \in {"running", "failed"}
           /\ sess'[s].pc = "failed" => sess'[s].reply \in {403, 404}
           /\ sess'[s].pc = "running" => sess'[s].reply = sess[s].reply /\ sess'[s].step = 1
<1>1. sess[s].pc = "open"
  BY DEF Begin
<1> DEFINE asked == { id \in sess[s].call.refs : id[1] \in Of(s).loads }
           seen  == UNION { Loaded(s, id) : id \in asked }
           begun == [sess EXCEPT ![s].pc = "running", ![s].step = 1, ![s].seen = seen]
<1>2. sess' = Failed(s, 403) \/ sess' = Failed(s, 404) \/ sess' = begun
  BY BeginUpdates, Zenon
<1> HIDE DEF asked, seen
<1>3. CASE sess' = Failed(s, 403) \/ sess' = Failed(s, 404)
  BY <1>1, <1>3 DEF Shape, Fields, Failed
<1>4. CASE sess' = begun
  BY <1>1, <1>4 DEF Shape, Fields
<1> HIDE DEF begun
<1> QED
  BY <1>2, <1>3, <1>4

\* A session that has not arrived can do nothing else.
LEMMA StepOfIdle ==
    ASSUME NEW s \in Session, sess[s].pc = "idle",
           \/ Arrive(s) \/ PoolTimeout(s) \/ Begin(s) \/ Read(s) \/ Insert(s)
           \/ SeedStep(s) \/ Commit(s) \/ SetActiveMode(s) \/ Fail(s) \/ CloseSession(s)
           \/ \E c \in Conn : OpenSession(s, c)
    PROVE  Arrive(s)
BY DEF PoolTimeout, Begin, Read, Insert, SeedStep, Commit, SetActiveMode, Fail,
       CloseSession, OpenSession

-----------------------------------------------------------------------------
(* What a new row refers to.                                               *)

OwnTenant(r) == r.table = "tenants" => r.id = << "tenants", r.tenant >>

\* Beside its tenant, a row of the seed refers to rows of these tables.
Furnished == { "markets", "cameras", "regions_of_interest", "context_modes", "rules" }

SlugRows(R) == { p \in R : Slug(Demo) \in p.keys }

\* The rows of the seed are in the tenant that has its slug.
AtHome(r, R) == \E p \in SlugRows(R) : p.tenant = r.tenant

InDemo(r, R) == r.table \in Furnished /\ r.id[2] = Demo => AtHome(r, R)

ToDemo(r) ==
    \A ref \in r.refs :
        /\ ref[1] \in Parents[r.table]
        /\ \/ ref = << "tenants", r.tenant >>
           \/ r.table # "tenant_users" /\ ref[1] \in Furnished /\ ref[2] = Demo

\* Each reference is to a row of the same tenant, but those that are unchecked.
Anchored(r, R) ==
    \A ref \in r.refs : \E p \in R :
        /\ p.id = ref
        /\ p.tenant = r.tenant \/ << r.table, p.table >> \in Unchecked

LEMMA RowFields ==
    ASSUME NEW table, NEW n, NEW tenant, NEW refs, NEW u, NEW by
    PROVE  LET r == Row(table, n, tenant, refs, u, by)
           IN  /\ r.id = << table, n >> /\ r.table = table /\ r.tenant = tenant
               /\ r.keys = {<< table, n >>} \cup u
               /\ \A ref \in r.refs :
                     \/ ref \in refs
                     \/ ref = << "tenants", tenant >> /\ table # "tenants" /\ tenant # None
BY DEF Row

LEMMA SeedPlanFits ==
    ASSUME NEW t, NEW s, NEW i \in DOMAIN SeedPlan(t, s), NEW x \in SeedPlan(t, s)[i].rows
    PROVE  /\ OwnTenant(x) /\ ToDemo(x)
           /\ i = 1 => Slug(Demo) \in x.keys /\ x.tenant = Demo
           /\ i # 1 => x.table = "tenant_users" \/ x.tenant = t
<1> DEFINE Q(r) == OwnTenant(r) /\ ToDemo(r) /\ (r.table = "tenant_users" \/ r.tenant = t)
           P(y) == \A r \in y.rows : Q(r)
           Fits(table, refs) == \A ref \in refs : ref[1] \in Parents[table] \cap Furnished
                                                  /\ ref[2] = Demo
<1>1. ASSUME NEW table \in DOMAIN Parents \ {"tenants", "tenant_users"},
             "tenants" \in Parents[table],
             NEW n, NEW refs, Fits(table, refs), NEW u, NEW key
      PROVE  LET row == Row(table, n, t, refs, u, s)
             IN  Q(row) /\ Q([row EXCEPT !.keys = @ \cup {key}])
  <2> DEFINE row == Row(table, n, t, refs, u, s)
             kow == [row EXCEPT !.keys = @ \cup {key}]
  <2>1. /\ row.table = table /\ row.tenant = t
        /\ \A ref \in row.refs : ref \in refs \/ ref = << "tenants", t >>
    BY RowFields
  <2>2. kow.table = row.table /\ kow.tenant = row.tenant /\ kow.refs = row.refs
    BY DEF Row
  <2>3. \A ref \in row.refs :
          \/ ref = << "tenants", t >>
          \/ ref[1] \in Furnished \cap Parents[table] /\ ref[2] = Demo
    BY <1>1, <2>1
  <2> HIDE DEF row, kow, Fits
  <2>4. ToDemo(row) /\ ToDemo(kow)
    BY <1>1, <2>1, <2>2, <2>3 DEF ToDemo
  <2>5. OwnTenant(row) /\ OwnTenant(kow)
    BY <1>1, <2>1, <2>2 DEF OwnTenant
  <2> QED
    BY <1>1, <2>1, <2>2, <2>4, <2>5 DEF row, kow
<1>2. ASSUME NEW n, NEW tenant, NEW key
      PROVE  LET row == Row("tenant_users", n, tenant, {}, {}, s)
             IN  Q(row) /\ Q([row EXCEPT !.keys = @ \cup {key}])
  BY Tables DEF Row, OwnTenant, ToDemo
<1>3. ASSUME NEW key, NEW x1, NEW x2, Q(x1), Q(x2)
      PROVE  P(Missing(key, {x1})) /\ P(Missing(key, {x1, x2}))
  BY <1>3 DEF Missing
<1>4. /\ Fits("markets", {}) /\ Fits("context_modes", {}) /\ Fits("notification_configs", {})
      /\ Fits("cameras", {<< "markets", Demo >>})
      /\ Fits("regions_of_interest", {<< "cameras", Demo >>})
      /\ Fits("context_mode_camera_assignments",
              {<< "context_modes", Demo >>, << "cameras", Demo >>})
      /\ Fits("lenses", {<< "context_modes", Demo >>})
      /\ Fits("rules", {<< "context_modes", Demo >>})
      /\ Fits("rule_region_mappings", {<< "rules", Demo >>, << "regions_of_interest", Demo >>})
  BY Tables DEF Furnished
<1> HIDE DEF P, Q, Fits
<1>5. i \in 1..12
  BY DEF SeedPlan
<1>6. ASSUME i = 1
      PROVE  OwnTenant(x) /\ ToDemo(x) /\ Slug(Demo) \in x.keys /\ x.tenant = Demo
  BY <1>6 DEF SeedPlan, Missing, Row, OwnTenant, ToDemo
<1> USE <1>1, <1>2, <1>3, <1>4, Tables
<1>7. P(SeedPlan(t, s)[2])
  BY DEF SeedPlan
<1>8. P(SeedPlan(t, s)[3])
  BY DEF SeedPlan
<1>9. P(SeedPlan(t, s)[4])
  BY DEF SeedPlan
<1>10. P(SeedPlan(t, s)[5])
  BY DEF SeedPlan
<1>11. P(SeedPlan(t, s)[6])
  BY DEF SeedPlan
<1>12. P(SeedPlan(t, s)[7])
  BY DEF SeedPlan
<1>13. P(SeedPlan(t, s)[8])
  BY DEF SeedPlan
<1>14. P(SeedPlan(t, s)[9])
  BY DEF SeedPlan
<1>15. P(SeedPlan(t, s)[10])
  BY DEF SeedPlan
<1>16. P(SeedPlan(t, s)[11])
  BY DEF SeedPlan
<1>17. P(SeedPlan(t, s)[12])
  BY DEF SeedPlan
<1>18. ASSUME i # 1 PROVE Q(x)
  <2>1. P(SeedPlan(t, s)[i])
    BY <1>5, <1>7, <1>8, <1>9, <1>10, <1>11, <1>12, <1>13, <1>14, <1>15, <1>16, <1>17, <1>18
  <2> QED
    BY <2>1 DEF P
<1> QED
  BY <1>6, <1>18 DEF Q

-----------------------------------------------------------------------------
(* The seed finds or adds its tenant first; the rest of its rows are there.*)

SeedInv(s) ==
    /\ Of(s).db = "seed" =>
        /\ sess[s].step \in Nat
        /\ sess[s].pc \in {"idle", "waiting"} => sess[s].step = 0
        /\ sess[s].pc = "open" /\ sess[s].step = 1 =>
               \/ SlugRows(There(s)) # {}
               \/ \E p \in SlugRows(sess[s].added) : p.tenant = Demo
        /\ sess[s].pc = "open" /\ sess[s].step > 1 => SlugRows(There(s)) # {}
    /\ \A x \in sess[s].added :
        /\ OwnTenant(x) /\ ToDemo(x)
        /\ x.table = "tenant_users" \/ AtHome(x, There(s) \cup sess[s].added)

LEMMA AtHomeGrows ==
    ASSUME NEW x, NEW R, NEW S, R \subseteq S, AtHome(x, R) PROVE AtHome(x, S)
BY DEF AtHome, SlugRows

\* Root sees every row, so the seed finds its tenant if there is one.
LEMMA SeedSees ==
    ASSUME ContextInv, NEW s \in Session, Of(s).db = "seed", sess[s].pc = "open"
    PROVE  /\ Visible(s) = There(s)
           /\ SlugRows(There(s)) = {} => SeedTenant(s) = Demo
           /\ SlugRows(There(s)) # {} => \E p \in SlugRows(There(s)) : p.tenant = SeedTenant(s)
<1>1. Here(s).role = "root_admin"
  BY DEF ContextInv, Active, ContextOf
<1>2. Visible(s) = There(s)
  BY <1>1 DEF Visible, There, CanSee
<1>3. { r \in Visible(s) : Slug(Demo) \in r.keys } = SlugRows(There(s))
  BY <1>2 DEF SlugRows
<1>4. SlugRows(There(s)) = {} => SeedTenant(s) = Demo
  BY <1>3 DEF SeedTenant
<1>5. ASSUME SlugRows(There(s)) # {}
      PROVE  \E p \in SlugRows(There(s)) : p.tenant = SeedTenant(s)
  <2> DEFINE K == SlugRows(There(s))
             q == CHOOSE r \in K : TRUE
  <2>1. SeedTenant(s) = q.tenant
    BY <1>3, <1>5 DEF SeedTenant
  <2> HIDE DEF K
  <2>2. q \in K
    BY <1>5 DEF K
  <2> QED
    BY <2>1, <2>2 DEF K
<1> QED
  BY <1>2, <1>4, <1>5

LEMMA SeedGoesOn ==
    ASSUME Shape, ContextInv, NEW s \in Session, SeedInv(s), SeedStep(s)
    PROVE  SeedInv(s)'
<1> DEFINE t     == SeedTenant(s)
           plan  == SeedPlan(t, s)
           next  == sess[s].step + 1
           there == Visible(s) \cup sess[s].added
           found == next \in DOMAIN plan /\ \E r \in there : plan[next].key \in r.keys
           add   == IF found \/ next \notin DOMAIN plan THEN {} ELSE plan[next].rows
           own   == There(s) \cup sess[s].added
<1>1. /\ rows' = rows /\ Of(s).db = "seed" /\ sess[s].pc = "open"
      /\ \/ sess' = Failed(s, 500)
         \/ /\ sess'[s].own = sess[s].own \cup sess[s].added
            /\ sess'[s].added = add /\ sess'[s].step = next
            /\ sess'[s].pc = IF next \in DOMAIN plan THEN "open" ELSE "commit"
  BY SeedStepEffect
<1>2. Of(s)' = Of(s)
  BY OnlyOwnSeen DEF Of
<1>3. CASE sess' = Failed(s, 500)
  <2>1. /\ sess'[s].own = sess[s].own /\ sess'[s].added = sess[s].added
        /\ sess'[s].step = sess[s].step /\ sess'[s].pc = "failed"
    BY <1>3 DEF Shape, Fields, Failed
  <2> QED
    BY <1>1, <1>2, <2>1 DEF SeedInv, There, AtHome, SlugRows
<1>4. CASE /\ sess'[s].own = sess[s].own \cup sess[s].added
           /\ sess'[s].added = add /\ sess'[s].step = next
           /\ sess'[s].pc = IF next \in DOMAIN plan THEN "open" ELSE "commit"
  <2>1. There(s)' = own
    BY <1>1, <1>4 DEF There
  <2>2. sess[s].step \in Nat /\ next \in Nat /\ next > 0
    BY <1>1 DEF SeedInv
  <2>3. ASSUME next > 1 PROVE \E p \in SlugRows(own) : p.tenant = t
    <3>1. CASE SlugRows(There(s)) # {}
      <4>1. \E p \in SlugRows(There(s)) : p.tenant = t
        BY <1>1, <3>1, SeedSees
      <4> QED
        BY <4>1 DEF SlugRows
    <3>2. CASE SlugRows(There(s)) = {}
      <4>1. t = Demo
        BY <1>1, <3>2, SeedSees
      <4>2. sess[s].step = 1
        BY <1>1, <2>2, <2>3, <3>2 DEF SeedInv
      <4>3. \E p \in SlugRows(sess[s].added) : p.tenant = Demo
        BY <1>1, <3>2, <4>2 DEF SeedInv
      <4> QED
        BY <4>1, <4>3 DEF SlugRows
    <3> QED
      BY <3>1, <3>2
  <2>4. ASSUME next = 1
        PROVE  SlugRows(own) # {} \/ \E p \in SlugRows(add) : p.tenant = Demo
    <3>1. 1 \in DOMAIN plan /\ plan[1].key = Slug(Demo) /\ plan[1].rows # {}
      <4> DEFINE row == Row("tenants", Demo, Demo, {}, {}, s)
                 kow == [row EXCEPT !.keys = @ \cup {Slug(Demo)}]
      <4>1. 1 \in DOMAIN plan /\ plan[1] = Missing(Slug(Demo), {kow})
        BY DEF SeedPlan
      <4> HIDE DEF kow
      <4> QED
        BY <4>1 DEF Missing
    <3>2. there = own
      BY <1>1, SeedSees
    <3>3. CASE found
      <4> PICK r \in own : Slug(Demo) \in r.keys
        BY <2>4, <3>1, <3>2, <3>3
      <4> QED
        BY DEF SlugRows
    <3>4. CASE ~found
      <4>1. add = plan[1].rows
        BY <2>4, <3>1, <3>4
      <4>2. \A x \in plan[1].rows : Slug(Demo) \in x.keys /\ x.tenant = Demo
        BY <3>1, SeedPlanFits
      <4> HIDE DEF add, plan
      <4> QED
        BY <3>1, <4>1, <4>2 DEF SlugRows
    <3> QED
      BY <3>3, <3>4
  <2>5. ASSUME NEW x \in add
        PROVE  /\ OwnTenant(x) /\ ToDemo(x)
               /\ x.table = "tenant_users" \/ AtHome(x, own \cup add)
    <3>1. next \in DOMAIN plan /\ x \in plan[next].rows
      BY <2>5
    <3>2. /\ OwnTenant(x) /\ ToDemo(x)
          /\ next = 1 => Slug(Demo) \in x.keys /\ x.tenant = Demo
          /\ next # 1 => x.table = "tenant_users" \/ x.tenant = t
      BY <3>1, SeedPlanFits
    <3> HIDE DEF plan, add, t, own
    <3>3. next = 1 => AtHome(x, own \cup add)
      BY <2>5, <3>2 DEF AtHome, SlugRows
    <3>4. next # 1 => x.table = "tenant_users" \/ AtHome(x, own \cup add)
      BY <2>2, <2>3, <3>2 DEF AtHome, SlugRows
    <3> QED
      BY <3>2, <3>3, <3>4
  <2>6. sess'[s].pc \notin {"idle", "waiting"}
    BY <1>4
  <2>7. sess'[s].added = add /\ sess'[s].step = next
    BY <1>4
  <2> HIDE DEF t, plan, next, there, found, add, own
  <2>8. next > 1 => SlugRows(own) # {}
    BY <2>3
  <2> QED
    BY <1>1, <1>2, <2>1, <2>2, <2>4, <2>5, <2>6, <2>7, <2>8 DEF SeedInv
<1> QED
  BY <1>1, <1>3, <1>4

-----------------------------------------------------------------------------
(* Which tables a row refers to, and what an analysis has found.           *)

\* What the foreign keys of a table are: every reference is one of them.
RefTyped(r) == \A ref \in r.refs : ref[1] \in Parents[r.table]

RefTypesInv ==
    /\ \A r \in rows : RefTyped(r)
    /\ \A s \in Session : \A r \in sess[s].own : RefTyped(r)

LEMMA NewRefsTyped ==
    ASSUME TypeInv, HandlerInv, NEW s \in Session, Insert(s), NEW x \in NewRows(s)
    PROVE  RefTyped(x)
<1>1. Of(s).inserts # None /\ sess[s].pc = "running"
  BY DEF Insert
<1>2. Of(s).inserts \in DOMAIN Parents
  BY <1>1, WhatInserts DEF TypeInv, Of
<1>3. PICK calls \in Scenarios : sess[s].call = calls[s]
  BY DEF HandlerInv
<1>4. Of(s).inserts \notin Assembled =>
        /\ \A id \in sess[s].call.refs : id[1] \in Parents[Of(s).inserts]
        /\ \A i \in DOMAIN sess[s].call.regions :
              sess[s].call.regions[i][1] = "regions_of_interest"
  BY <1>1, <1>3, CallAssumption DEF Of
<1>5. CASE Of(s).inserts \notin Assembled /\ x = Created(s)
  <2>1. /\ x.table = Of(s).inserts
        /\ \A ref \in x.refs : \/ ref \in sess[s].call.refs
                               \/ ref[1] = "tenants" /\ x.table # "tenants"
    BY <1>5, RowFields DEF Created
  <2> QED
    BY <1>2, <1>4, <1>5, <2>1, Tables DEF RefTyped
<1>6. CASE Of(s).inserts \notin Assembled /\ x \in MappingsOf(s)
  <2>1. PICK i \in GoodRegions(s) :
          x = Row("rule_region_mappings", << s, i >>, Tenant(s),
                  {<< "rules", s >>, sess[s].call.regions[i]},
                  {Mapped(<< "rules", s >>, sess[s].call.regions[i])}, s)
    BY <1>6 DEF MappingsOf
  <2>2. i \in DOMAIN sess[s].call.regions
    BY DEF GoodRegions
  <2>3. /\ x.table = "rule_region_mappings"
        /\ \A ref \in x.refs : \/ ref \in {<< "rules", s >>, sess[s].call.regions[i]}
                               \/ ref = << "tenants", Tenant(s) >>
    BY <2>1, RowFields
  <2> QED
    BY <1>4, <1>6, <2>2, <2>3, Tables DEF RefTyped
<1>7. CASE Of(s).inserts = "notification_deliveries"
  <2>1. x \in DeliveriesOf(s)
    BY <1>7 DEF NewRows
  <2>2. PICK d, c \in sess[s].seen :
          /\ d.table = "decisions" /\ c.table = "notification_configs"
          /\ x = Row("notification_deliveries", << s, c.id >>, d.tenant, {d.id, c.id}, {}, s)
    BY <2>1, DeliveryParts
  <2>3. /\ x.table = "notification_deliveries"
        /\ \A ref \in x.refs : ref \in {d.id, c.id} \/ ref = << "tenants", d.tenant >>
    BY <2>2, RowFields
  <2>4. d.id[1] = "decisions" /\ c.id[1] = "notification_configs"
    BY <1>1, <2>2 DEF HandlerInv, Sees, There, TypeInv, RowTyped
  <2> QED
    BY <2>3, <2>4, Tables DEF RefTyped
<1>8. ASSUME NEW d \in NewDecision(s) PROVE RefTyped(d) /\ d.id = << "decisions", s >>
  <2>1. PICK e \in sess[s].seen :
          d = Row("decisions", s, e.tenant,
                  { id \in e.refs : id[1] \in {"cameras", "regions_of_interest"} }, {}, s)
    BY <1>8, DecisionParts
  <2>2. /\ d.table = "decisions" /\ d.id = << "decisions", s >>
        /\ \A ref \in d.refs : \/ ref[1] \in {"cameras", "regions_of_interest"}
                               \/ ref = << "tenants", e.tenant >>
    BY <2>1, RowFields
  <2> QED
    BY <2>2, Tables DEF RefTyped
<1>9. ASSUME NEW l \in LinksOf(s) PROVE RefTyped(l)
  <2>1. PICK d \in Seen(s, "decisions") \cup NewDecision(s), e \in sess[s].seen :
          /\ e.table = "evidences"
          /\ l = Row("decision_evidences", << d.id, e.id >>, e.tenant, {d.id, e.id}, {}, s)
    BY <1>9, LinkParts
  <2>2. /\ l.table = "decision_evidences"
        /\ \A ref \in l.refs : ref \in {d.id, e.id} \/ ref = << "tenants", e.tenant >>
    BY <2>1, RowFields
  <2>3. e.id[1] = "evidences"
    BY <1>1, <2>1 DEF HandlerInv, Sees, There, TypeInv, RowTyped
  <2>4. d.id[1] = "decisions"
    <3>1. CASE d \in Seen(s, "decisions")
      BY <1>1, <3>1 DEF Seen, HandlerInv, Sees, There, TypeInv, RowTyped
    <3>2. CASE d \in NewDecision(s)
      BY <1>8, <3>2
    <3> QED
      BY <3>1, <3>2
  <2> QED
    BY <2>2, <2>3, <2>4, Tables DEF RefTyped
<1>10. CASE Of(s).inserts = "decisions"
  <2>1. x \in NewDecision(s) \cup LinksOf(s)
    BY <1>10 DEF NewRows, MergedOf
  <2> QED
    BY <1>8, <1>9, <2>1
<1>11. Of(s).inserts \notin Assembled => x = Created(s) \/ x \in MappingsOf(s)
  BY DEF NewRows, Assembled
<1> QED
  BY <1>5, <1>6, <1>7, <1>10, <1>11 DEF Assembled

LEMMA RefTypesKept ==
    ASSUME Shape, TypeInv, HandlerInv, RefTypesInv, TenancyNext,
           \A o \in Session : SeedInv(o)
    PROVE  RefTypesInv'
<1> PICK s \in Session :
      \/ Arrive(s) \/ PoolTimeout(s) \/ Begin(s) \/ Read(s) \/ Insert(s)
      \/ SeedStep(s) \/ Commit(s) \/ SetActiveMode(s) \/ Fail(s) \/ CloseSession(s)
      \/ \E c \in Conn : OpenSession(s, c)
  BY DEF TenancyNext
<1>1. \A o \in Session : o # s => sess'[o].own = sess[o].own
  BY OnlyOwnSeen
<1>2. CASE rows' = rows /\ sess'[s].own \in {sess[s].own, {}}
  BY <1>1, <1>2 DEF RefTypesInv
<1>3. CASE Insert(s) /\ Flushes(s, NewRows(s))
  BY <1>1, <1>3, NewRefsTyped DEF RefTypesInv, Flushes
<1>4. CASE Flushes(s, sess[s].added)
  <2>1. \A x \in sess[s].added : RefTyped(x)
    BY DEF SeedInv, ToDemo, RefTyped
  <2> QED
    BY <1>1, <1>4, <2>1 DEF RefTypesInv, Flushes
<1>5. CASE rows' = rows \cup sess[s].own /\ sess'[s].own = {}
  BY <1>1, <1>5 DEF RefTypesInv
<1> QED
  BY <1>2, <1>3, <1>4, <1>5, RowsMove

\* The tenant has a lens of the mode that the message of an analysis names.
ModeKnown(call) ==
    \E l \in rows : l.table = "lenses" /\ l.tenant = call.tenant /\ l.refs \cap call.refs # {}

\* An analysis goes past its first SELECT only with such a lens, and the job that
\* stores the evidence is the rest of one that did.
Analyses(s) ==
    /\ sess[s].call.endpoint = "analyze_message" =>
        /\ sess[s].pc = "running" =>
              \/ sess[s].step = 1 /\ sess[s].seen = {}
              \/ ModeKnown(sess[s].call)
        /\ sess[s].reply = 200 => ModeKnown(sess[s].call)
    /\ sess[s].call.endpoint = "store_evidence" /\ sess[s].pc # "idle" =>
        ModeKnown(sess[s].call)

AnalysisInv == \A s \in Session : Analyses(s)

LEMMA AnalysisIs ==
    ASSUME NEW s \in Session, sess[s].call.endpoint = "analyze_message"
    PROVE  /\ Of(s).db = "tenant_job" /\ Of(s).loads = {}
           /\ Len(Of(s).scan) = 3 /\ Of(s).scan[1] = Select("lenses", "some")
BY DEF Of, Endpoint, AnalyzeMessage, Job

\* No SELECT of an analysis succeeds without a lens of its mode.
LEMMA LensFound ==
    ASSUME Shape, ContextInv, ReadInv, WriteInv, AnalysisInv, NEW s \in Session, Read(s),
           sess[s].call.endpoint = "analyze_message"
    PROVE  sess' = Failed(s, 500) \/ ModeKnown(sess[s].call)
<1>1. sess[s].pc = "running"
  BY DEF Read
<1>2. CASE sess[s].step = 1 /\ sess[s].seen = {} /\ sess' # Failed(s, 500)
  <2> DEFINE query == Of(s).scan[sess[s].step]
  <2>0. query = Select("lenses", "some")
    BY <1>2, AnalysisIs
  <2>1. Selected(s, Select("lenses", "some")) # {}
    <3>1. ~(query.which = "some" /\ Selected(s, query) = {})
      BY <1>2, ZenonT(60) DEF Read
    <3>2. query.which = "some"
      BY <2>0 DEF Select
    <3> QED
      BY <2>0, <3>1, <3>2
  <2>2. PICK l \in Visible(s) :
          /\ l.table = "lenses"
          /\ l.refs \cap (sess[s].call.refs \cup Ids(sess[s].seen)) # {}
    BY <2>1 DEF Selected, Select
  <2>3. l.refs \cap sess[s].call.refs # {}
    BY <1>2, <2>2 DEF Ids
  <2>4. l.tenant = Tenant(s)
    BY <1>1, AnalysisIs, VisibleIsOwn DEF ReadInv, Active, Confined
  <2>5. l \in rows
    BY <1>1, AnalysisIs DEF Visible, WriteInv, OwnInv
  <2> QED
    BY <2>2, <2>3, <2>4, <2>5 DEF ModeKnown, Tenant
<1> QED
  BY <1>1, <1>2 DEF AnalysisInv, Analyses

LEMMA AnalysisKept ==
    ASSUME Shape, ContextInv, ReadInv, WriteInv, AnalysisInv, TenancyNext PROVE AnalysisInv'
<1> PICK s \in Session :
      \/ Arrive(s) \/ PoolTimeout(s) \/ Begin(s) \/ Read(s) \/ Insert(s)
      \/ SeedStep(s) \/ Commit(s) \/ SetActiveMode(s) \/ Fail(s) \/ CloseSession(s)
      \/ \E c \in Conn : OpenSession(s, c)
  BY DEF TenancyNext
<1>1. /\ \A o \in Session : o # s => sess'[o] = sess[o]
      /\ sess'[s].call = sess[s].call
  BY OnlyOwnSeen
<1>2. ASSUME NEW call, ModeKnown(call) PROVE ModeKnown(call)'
  <2>1. rows \subseteq rows'
    BY RowsMove DEF Flushes
  <2> QED
    BY <1>2, <2>1 DEF ModeKnown
<1>3. ASSUME NEW o \in Session, o # s PROVE Analyses(o)'
  BY <1>1, <1>2, <1>3 DEF AnalysisInv, Analyses
<1>4. ASSUME sess[s].call.endpoint = "analyze_message"
      PROVE  /\ sess'[s].pc = "running" =>
                  \/ sess'[s].step = 1 /\ sess'[s].seen = {}
                  \/ ModeKnown(sess[s].call)
             /\ sess'[s].reply = 200 => ModeKnown(sess[s].call)
  <2>1. CASE Begin(s)
    <3>1. sess'[s].pc = "running" => sess'[s].step = 1 /\ sess'[s].seen = {}
      BY <1>4, <2>1, AnalysisIs, BeginAnswers, BeginFinds
    <3>2. sess'[s].reply = 200 => sess[s].reply = 200
      BY <2>1, BeginAnswers
    <3> QED
      BY <1>4, <3>1, <3>2 DEF AnalysisInv, Analyses
  <2>2. CASE Read(s)
    <3>1. sess' = Failed(s, 500) => sess'[s].pc = "failed" /\ sess'[s].reply = 500
      BY DEF Shape, Fields, Failed
    <3> QED
      BY <1>4, <2>2, <3>1, LensFound
  <2>3. CASE ~Begin(s) /\ ~Read(s)
    <3>1. sess'[s].pc # "running" /\ (sess'[s].reply = 200 => sess[s].reply = 200)
      BY <1>4, <2>3, AnalysisIs, NotRunning, OtherAnswers, TenancyAssumption
    <3> QED
      BY <1>4, <3>1 DEF AnalysisInv, Analyses
  <2> QED
    BY <2>1, <2>2, <2>3
<1>5. ASSUME sess[s].call.endpoint = "store_evidence" PROVE ModeKnown(sess[s].call)
  <2>1. CASE sess[s].pc = "idle"
    <3>1. Arrive(s)
      BY <2>1, BeginAnswers, StepOfIdle
    <3>2. PICK o \in Session :
            /\ sess[o].call.endpoint = "analyze_message" /\ sess[o].reply = 200
            /\ sess[o].call.tenant = sess[s].call.tenant
            /\ sess[o].call.refs = sess[s].call.refs
      BY <1>5, <3>1 DEF Arrive, HandedOn
    <3> QED
      BY <3>2 DEF AnalysisInv, Analyses, ModeKnown
  <2>2. CASE sess[s].pc # "idle"
    BY <1>5, <2>2 DEF AnalysisInv, Analyses
  <2> QED
    BY <2>1, <2>2
<1>6. Analyses(s)'
  BY <1>1, <1>2, <1>4, <1>5 DEF Analyses
<1> QED
  BY <1>3, <1>6 DEF AnalysisInv

\* The mode of a stored evidence is the tenant's, since its lens refers to it.
LEMMA ModeIsOwn ==
    ASSUME RefTypesInv, \A r \in rows : Anchored(r, rows),
           NEW calls \in Scenarios, NEW s \in Session,
           Endpoint[calls[s].endpoint].inserts = "evidences",
           Endpoint[calls[s].endpoint].inserts # None,
           ModeKnown(calls[s]), NEW ref \in calls[s].refs, ref[1] = "context_modes"
    PROVE  \E p \in rows : p.id = ref /\ p.tenant = calls[s].tenant
<1>1. PICK l \in rows : /\ l.table = "lenses" /\ l.tenant = calls[s].tenant
                        /\ l.refs \cap calls[s].refs # {}
  BY DEF ModeKnown
<1>2. PICK m \in calls[s].refs : m \in l.refs
  BY <1>1
<1>3. /\ m[1] \in {"cameras", "regions_of_interest", "context_modes"}
      /\ m[1] = ref[1] => m = ref
  BY CallAssumption, Tables DEF Assembled
<1>4. m[1] \in {"tenants", "context_modes"}
  BY <1>1, <1>2, Tables DEF RefTypesInv, RefTyped
<1>5. m = ref
  BY <1>3, <1>4
<1>6. PICK p \in rows :
        p.id = ref /\ (p.tenant = l.tenant \/ << l.table, p.table >> \in Unchecked)
  BY <1>2, <1>5 DEF Anchored
<1> QED
  BY <1>1, <1>6, UncheckedIs

-----------------------------------------------------------------------------
(* The rows a handler adds stay within the tenant it has checked.          *)

\* Tenants are their own, also those that are still to be committed.
OwnTenants ==
    /\ \A r \in rows : OwnTenant(r)
    /\ \A s \in Session : \A r \in sess[s].own : OwnTenant(r)

LEMMA TenantRef ==
    ASSUME NEW R, \A p \in R : RowTyped(p) /\ OwnTenant(p),
           NEW x \in R, x.table \in DOMAIN Parents \ {"tenants"},
           NEW ref \in x.refs, ref = << "tenants", x.tenant >>,
           ref[1] \in Parents[x.table] => ref \in Ids(R)
    PROVE  \E p \in R : p.id = ref /\ p.tenant = x.tenant
<1>1. ref[1] = "tenants"
  OBVIOUS
<1>2. ref \in Ids(R)
  BY <1>1, Tables
<1>3. PICK p \in R : p.id = ref
  BY <1>2 DEF Ids
<1>4. p.table = "tenants"
  BY <1>1, <1>3 DEF RowTyped
<1> QED
  BY <1>3, <1>4 DEF OwnTenant

LEMMA CreatedFits ==
    ASSUME TypeInv, OwnTenants, HandlerInv, RefTypesInv, AnalysisInv,
           \A r \in rows : Anchored(r, rows), NEW s \in Session, Insert(s),
           ~Rejected(s, NewRows(s)), Of(s).inserts \notin Assembled
    PROVE  LET x == Created(s)
               R == There(s) \cup NewRows(s)
           IN  /\ OwnTenant(x) /\ x.id[2] = s
               /\ (\A p \in R : OwnTenant(p)) => Anchored(x, R)
<1> DEFINE x == Created(s)
           R == There(s) \cup NewRows(s)
           table == Of(s).inserts
           owner == IF table = "tenants" THEN s ELSE Tenant(s)
<1>1. /\ x.id = << table, s >> /\ x.table = table /\ x.tenant = owner
      /\ \A ref \in x.refs : \/ ref \in sess[s].call.refs
                             \/ ref = << "tenants", owner >> /\ table # "tenants"
  BY RowFields DEF Created
<1>2. table # None /\ sess[s].pc = "running"
  BY DEF Insert
<1>3. /\ table \in DOMAIN Parents
      /\ table = "evidences" => sess[s].call.endpoint = "store_evidence"
      /\ \A t \in Parents[table] \ {"tenants"} :
            \/ t \in Of(s).loads /\ t \in Of(s).checks
            \/ << table, t >> \in Unchecked
            \/ table = "evidences" /\ t = "context_modes"
  BY <1>2, WhatInserts DEF TypeInv, Of
<1>4. PICK calls \in Scenarios : sess[s].call = calls[s]
  BY DEF HandlerInv
<1>5. \A id \in sess[s].call.refs : id[1] \in Parents[table] \ {"tenants"}
  BY <1>2, <1>4, CallAssumption DEF Of
<1>6. OwnTenant(x)
  BY <1>1 DEF OwnTenant
<1>7. x \in NewRows(s) /\ x \in R
  BY DEF NewRows, Assembled
<1>8. \A p \in R : RowTyped(p)
  BY <1>2, NewRowsTyped DEF There, TypeInv
<1>9. \A ref \in x.refs : ref[1] \in Parents[x.table] => ref \in Ids(R)
  BY <1>7 DEF Rejected, ForeignKeysHold, There
<1>10. ASSUME \A p \in R : OwnTenant(p), NEW ref \in x.refs
       PROVE  \E p \in R :
                /\ p.id = ref
                /\ p.tenant = x.tenant \/ << x.table, p.table >> \in Unchecked
  <2> HIDE DEF x, R, table, owner
  <2>1. CASE ref = << "tenants", owner >> /\ table # "tenants"
    <3>1. x.table \in DOMAIN Parents \ {"tenants"} /\ ref = << "tenants", x.tenant >>
      BY <1>1, <1>3, <2>1
    <3>2. \E p \in R : p.id = ref /\ p.tenant = x.tenant
      BY <1>7, <1>8, <1>9, <1>10, <3>1, TenantRef
    <3> QED
      BY <3>2
  <2>2. CASE ref \in sess[s].call.refs
    <3>1. ref[1] \in Parents[table] \ {"tenants"}
      BY <1>5, <2>2
    <3>2. owner = Tenant(s)
      BY <3>1, Tables DEF owner
    <3>3. CASE ref[1] \in Of(s).loads /\ ref[1] \in Of(s).checks
      <4>1. \E q \in There(s) : q.id = ref /\ q.tenant = Tenant(s)
        BY <1>2, <2>2, <3>3 DEF HandlerInv, Loads
      <4> QED
        BY <1>1, <3>2, <4>1 DEF R
    <3>4. CASE << table, ref[1] >> \in Unchecked
      <4>1. PICK p \in R : p.id = ref
        BY <1>1, <1>9, <3>1 DEF Ids
      <4>2. p.table = ref[1]
        BY <1>8, <4>1 DEF RowTyped
      <4> QED
        BY <1>1, <3>4, <4>1, <4>2
    <3>5. CASE table = "evidences" /\ ref[1] = "context_modes"
      <4>1. ModeKnown(sess[s].call)
        <5>1. sess[s].call.endpoint = "store_evidence"
          BY <1>3, <3>5
        <5>2. Analyses(s)
          BY DEF AnalysisInv
        <5> QED
          BY <1>2, <5>1, <5>2 DEF Analyses
      <4>2. PICK p \in rows : p.id = ref /\ p.tenant = Tenant(s)
        <5>1. /\ Endpoint[calls[s].endpoint].inserts = "evidences"
              /\ Endpoint[calls[s].endpoint].inserts # None
          BY <1>2, <1>4, <3>5 DEF Of, table
        <5>2. ModeKnown(calls[s]) /\ ref \in calls[s].refs /\ ref[1] = "context_modes"
          BY <1>4, <2>2, <3>5, <4>1
        <5>3. calls[s].tenant = Tenant(s)
          BY <1>4 DEF Tenant
        <5> QED
          BY <5>1, <5>2, <5>3, ModeIsOwn
      <4> QED
        BY <1>1, <3>2, <4>2 DEF R, There
    <3> QED
      BY <1>3, <3>1, <3>3, <3>4, <3>5
  <2> QED
    BY <1>1, <2>1, <2>2
<1> QED
  BY <1>1, <1>6, <1>10 DEF Anchored

LEMMA MappingsFit ==
    ASSUME TypeInv, OwnTenants, HandlerInv, NEW s \in Session, Insert(s),
           ~Rejected(s, NewRows(s)), Of(s).inserts \notin Assembled,
           NEW x \in MappingsOf(s)
    PROVE  LET R == There(s) \cup NewRows(s)
           IN  /\ OwnTenant(x) /\ x.table = "rule_region_mappings"
               /\ (\A p \in R : OwnTenant(p)) => Anchored(x, R)
<1> DEFINE R == There(s) \cup NewRows(s)
           regions == sess[s].call.regions
           rule == << "rules", s >>
<1>1. PICK i \in GoodRegions(s) :
        x = Row("rule_region_mappings", << s, i >>, Tenant(s), {rule, regions[i]},
                {Mapped(rule, regions[i])}, s)
  BY DEF MappingsOf
<1>2. /\ x.table = "rule_region_mappings" /\ x.tenant = Tenant(s)
      /\ \A ref \in x.refs : ref \in {rule, regions[i]} \/ ref = << "tenants", Tenant(s) >>
  BY <1>1, RowFields
<1>3. Of(s).inserts # None /\ sess[s].pc = "running"
  BY DEF Insert
<1>4. PICK calls \in Scenarios : sess[s].call = calls[s]
  BY DEF HandlerInv
<1>5. DOMAIN regions \subseteq IF Of(s).inserts = "rules" THEN Nat \ {0} ELSE {}
  BY <1>3, <1>4, CallAssumption DEF Of
<1>6. i \in DOMAIN regions /\ \A j \in 1..i : RegionFound(s, regions[j])
  BY DEF GoodRegions
<1>7. Of(s).inserts = "rules" /\ i \in 1..i
  BY <1>5, <1>6
<1>8. \E p \in There(s) : p.id = regions[i] /\ p.tenant = Tenant(s)
  BY <1>6, <1>7 DEF RegionFound, Visible, There
<1>9. Created(s) \in NewRows(s) /\ Created(s).id = rule /\ Created(s).tenant = Tenant(s)
  BY <1>7, RowFields DEF NewRows, Created
<1>10. x \in NewRows(s) /\ x \in R
  BY <1>7 DEF NewRows
<1>11. \A p \in R : RowTyped(p)
  BY <1>3, NewRowsTyped DEF There, TypeInv
<1>12. \A ref \in x.refs : ref[1] \in Parents[x.table] => ref \in Ids(R)
  BY <1>10 DEF Rejected, ForeignKeysHold, There
<1>13. ASSUME \A p \in R : OwnTenant(p), NEW ref \in x.refs
       PROVE  \E p \in R : p.id = ref /\ p.tenant = x.tenant
  <2>1. CASE ref = rule
    BY <1>2, <1>9, <2>1
  <2>2. CASE ref = regions[i]
    BY <1>2, <1>8, <2>2
  <2>3. CASE ref = << "tenants", Tenant(s) >>
    <3>1. x.table \in DOMAIN Parents \ {"tenants"} /\ ref = << "tenants", x.tenant >>
      BY <1>2, <2>3, Tables
    <3> HIDE DEF R
    <3> QED
      BY <1>10, <1>11, <1>12, <1>13, <3>1, TenantRef
  <2> QED
    BY <1>2, <2>1, <2>2, <2>3
<1> QED
  BY <1>2, <1>13 DEF Anchored, OwnTenant

LEMMA DeliveriesFit ==
    ASSUME TypeInv, OwnTenants, HandlerInv, NEW s \in Session, Insert(s),
           ~Rejected(s, NewRows(s)), Of(s).inserts = "notification_deliveries",
           NEW x \in DeliveriesOf(s)
    PROVE  LET R == There(s) \cup NewRows(s)
           IN  /\ OwnTenant(x) /\ x.table = "notification_deliveries"
               /\ (\A p \in R : OwnTenant(p)) => Anchored(x, R)
<1> DEFINE R == There(s) \cup NewRows(s)
<1>1. PICK d, c \in sess[s].seen :
        /\ d.table = "decisions" /\ c.table = "notification_configs"
        /\ x = Row("notification_deliveries", << s, c.id >>, d.tenant, {d.id, c.id}, {}, s)
  BY DeliveryParts
<1>2. /\ x.table = "notification_deliveries" /\ x.tenant = d.tenant
      /\ \A ref \in x.refs : ref \in {d.id, c.id} \/ ref = << "tenants", d.tenant >>
  BY <1>1, RowFields
<1>3. sess[s].pc = "running" /\ Notifies(s) /\ Of(s).inserts # None
  BY DEF Insert, Notifies
<1>4. d \in There(s) /\ c \in There(s) /\ d.tenant = c.tenant
  BY <1>3 DEF HandlerInv, Sees
<1>5. x \in NewRows(s) /\ x \in R
  BY DEF NewRows
<1>6. \A p \in R : RowTyped(p)
  BY <1>3, NewRowsTyped DEF There, TypeInv
<1>7. \A ref \in x.refs : ref[1] \in Parents[x.table] => ref \in Ids(R)
  BY <1>5 DEF Rejected, ForeignKeysHold, There
<1>8. ASSUME \A p \in R : OwnTenant(p), NEW ref \in x.refs
      PROVE  \E p \in R : p.id = ref /\ p.tenant = x.tenant
  <2>1. CASE ref \in {d.id, c.id}
    BY <1>2, <1>4, <2>1
  <2>2. CASE ref = << "tenants", d.tenant >>
    <3>1. x.table \in DOMAIN Parents \ {"tenants"} /\ ref = << "tenants", x.tenant >>
      BY <1>2, <2>2, Tables
    <3> HIDE DEF R
    <3> QED
      BY <1>5, <1>6, <1>7, <1>8, <3>1, TenantRef
  <2> QED
    BY <1>2, <2>1, <2>2
<1> QED
  BY <1>2, <1>8 DEF Anchored, OwnTenant

\* An aggregation has seen rows of its tenant alone; the camera and the region
\* of its decision are those that nobody compares.
LEMMA MergedFit ==
    ASSUME ReadInv, TypeInv, OwnTenants, HandlerInv, RefTypesInv, NEW s \in Session,
           Insert(s), ~Rejected(s, NewRows(s)), Of(s).inserts = "decisions",
           NEW x \in MergedOf(s)
    PROVE  LET R == There(s) \cup NewRows(s)
           IN  /\ OwnTenant(x) /\ x.table \in {"decisions", "decision_evidences"}
               /\ x.table = "decisions" => x.id[2] = s
               /\ (\A p \in R : OwnTenant(p)) => Anchored(x, R)
<1> DEFINE R == There(s) \cup NewRows(s)
           Camera == {"cameras", "regions_of_interest"}
<1>1. sess[s].pc = "running" /\ Of(s).inserts # None
  BY DEF Insert
<1>2. Of(s).db = "tenant_job"
  BY <1>1, WhatInserts DEF TypeInv, Of
<1>3. \A r \in sess[s].seen : r \in There(s) /\ r.tenant = Tenant(s)
  BY <1>1, <1>2 DEF HandlerInv, Sees, ReadInv, Confined
<1>4. NewRows(s) = MergedOf(s)
  BY DEF NewRows
<1>5. x \in R
  BY <1>4
<1>6. \A p \in R : RowTyped(p)
  BY <1>1, NewRowsTyped DEF There, TypeInv
<1>7. \A ref \in x.refs : ref[1] \in Parents[x.table] => ref \in Ids(R)
  BY <1>4 DEF Rejected, ForeignKeysHold, There
<1>8. \A ref \in x.refs : ref[1] \in Parents[x.table]
  BY <1>4, NewRefsTyped DEF RefTyped
<1>9. ASSUME \A p \in R : OwnTenant(p), NEW ref \in x.refs, ref = << "tenants", x.tenant >>,
             x.table \in {"decisions", "decision_evidences"}
      PROVE  \E p \in R : p.id = ref /\ p.tenant = x.tenant
  <2>1. x.table \in DOMAIN Parents \ {"tenants"}
    BY <1>9, Tables
  <2> HIDE DEF R
  <2> QED
    BY <1>5, <1>6, <1>7, <1>9, <2>1, TenantRef
<1>10. ASSUME NEW d \in NewDecision(s)
       PROVE  /\ d.table = "decisions" /\ d.id = << "decisions", s >> /\ d.tenant = Tenant(s)
              /\ \A ref \in d.refs : ref[1] \in Camera \/ ref = << "tenants", d.tenant >>
  <2>1. PICK e \in sess[s].seen :
          d = Row("decisions", s, e.tenant, { id \in e.refs : id[1] \in Camera }, {}, s)
    BY <1>10, DecisionParts
  <2>2. e.tenant = Tenant(s)
    BY <1>3
  <2> DEFINE refs == { id \in e.refs : id[1] \in Camera }
  <2>3. \A id \in refs : id[1] \in Camera
    OBVIOUS
  <2> HIDE DEF refs
  <2>4. d = Row("decisions", s, e.tenant, refs, {}, s)
    BY <2>1 DEF refs
  <2>5. /\ d.table = "decisions" /\ d.id = << "decisions", s >> /\ d.tenant = e.tenant
        /\ \A ref \in d.refs : ref \in refs \/ ref = << "tenants", e.tenant >>
    BY <2>4, RowFields
  <2> QED
    BY <2>2, <2>3, <2>5
<1>11. CASE x \in NewDecision(s)
  <2>1. ASSUME \A p \in R : OwnTenant(p), NEW ref \in x.refs
        PROVE  \E p \in R :
                 p.id = ref /\ (p.tenant = x.tenant \/ << x.table, p.table >> \in Unchecked)
    <3>1. CASE ref[1] \in Camera
      <4>1. PICK p \in R : p.id = ref
        BY <1>7, <1>8 DEF Ids
      <4>2. p.table = ref[1]
        BY <1>6, <4>1 DEF RowTyped
      <4> QED
        BY <1>10, <1>11, <3>1, <4>1, <4>2, UncheckedIs
    <3>2. CASE ref = << "tenants", x.tenant >>
      BY <1>9, <1>10, <1>11, <2>1, <3>2
    <3> QED
      BY <1>10, <1>11, <3>1, <3>2
  <2> QED
    BY <1>10, <1>11, <2>1 DEF Anchored, OwnTenant
<1>12. CASE x \in LinksOf(s)
  <2>1. PICK d \in Seen(s, "decisions") \cup NewDecision(s), e \in sess[s].seen :
          /\ e.table = "evidences"
          /\ x = Row("decision_evidences", << d.id, e.id >>, e.tenant, {d.id, e.id}, {}, s)
    BY <1>12, LinkParts
  <2>2. /\ x.table = "decision_evidences" /\ x.tenant = Tenant(s)
        /\ \A ref \in x.refs : ref \in {d.id, e.id} \/ ref = << "tenants", x.tenant >>
    BY <1>3, <2>1, RowFields
  <2>3. e \in R /\ e.tenant = Tenant(s)
    BY <1>3
  <2>4. d \in R /\ d.tenant = Tenant(s)
    <3>1. CASE d \in Seen(s, "decisions")
      BY <1>3, <3>1 DEF Seen
    <3>2. CASE d \in NewDecision(s)
      BY <1>4, <1>10, <3>2 DEF MergedOf
    <3> QED
      BY <3>1, <3>2
  <2>5. ASSUME \A p \in R : OwnTenant(p), NEW ref \in x.refs
        PROVE  \E p \in R : p.id = ref /\ p.tenant = x.tenant
    <3>1. CASE ref \in {d.id, e.id}
      BY <2>2, <2>3, <2>4, <3>1
    <3>2. CASE ref = << "tenants", x.tenant >>
      BY <1>9, <2>2, <2>5, <3>2
    <3> QED
      BY <2>2, <3>1, <3>2
  <2> QED
    BY <2>2, <2>5 DEF Anchored, OwnTenant
<1> QED
  BY <1>11, <1>12 DEF MergedOf

LEMMA NewRowsFit ==
    ASSUME ReadInv, TypeInv, OwnTenants, HandlerInv, RefTypesInv, AnalysisInv,
           TenancyAssumption, \A r \in rows : Anchored(r, rows), NEW s \in Session, Insert(s),
           ~Rejected(s, NewRows(s)), NEW x \in NewRows(s)
    PROVE  /\ OwnTenant(x)
           /\ ~(x.table \in Furnished /\ x.id[2] = Demo)
           /\ Anchored(x, There(s) \cup NewRows(s))
<1> DEFINE R == There(s) \cup NewRows(s)
           Fits(y) ==
             /\ OwnTenant(y)
             /\ \/ y.table \in {"rule_region_mappings", "notification_deliveries",
                                "decision_evidences"}
                \/ y.id[2] = s
             /\ (\A p \in R : OwnTenant(p)) => Anchored(y, R)
<1>1. ASSUME NEW y \in NewRows(s) PROVE Fits(y)
  <2>1. CASE Of(s).inserts = "notification_deliveries"
    <3>1. y \in DeliveriesOf(s)
      BY <1>1, <2>1 DEF NewRows
    <3> QED
      BY <2>1, <3>1, DeliveriesFit
  <2>2. CASE Of(s).inserts = "decisions"
    <3>1. y \in MergedOf(s)
      BY <1>1, <2>2 DEF NewRows
    <3> QED
      BY <2>2, <3>1, MergedFit
  <2>3. CASE Of(s).inserts \notin Assembled /\ y = Created(s)
    BY <2>3, CreatedFits
  <2>4. CASE Of(s).inserts \notin Assembled /\ y \in MappingsOf(s)
    BY <2>4, MappingsFit
  <2>5. Of(s).inserts \notin Assembled => y = Created(s) \/ y \in MappingsOf(s)
    BY <1>1 DEF NewRows, Assembled
  <2> QED
    BY <2>1, <2>2, <2>3, <2>4, <2>5 DEF Assembled
<1>2. \A p \in R : OwnTenant(p)
  BY <1>1 DEF OwnTenants, There
<1>3. ~(x.table \in Furnished /\ x.id[2] = Demo)
  BY <1>1, TenancyAssumption DEF TenancyAssumption, Furnished
<1> QED
  BY <1>1, <1>2, <1>3

-----------------------------------------------------------------------------
(* References stay within tenants.                                         *)

RefInv ==
    /\ OwnTenants
    /\ \A r \in rows : Anchored(r, rows) /\ InDemo(r, rows)
    /\ \A s \in Session : \A r \in sess[s].own :
           Anchored(r, There(s)) /\ InDemo(r, There(s))
    /\ \A s \in Session : SeedInv(s)

LEMMA FitsGrow ==
    ASSUME NEW r, NEW R, NEW S, R \subseteq S, Anchored(r, R), InDemo(r, R)
    PROVE  Anchored(r, S) /\ InDemo(r, S)
BY AtHomeGrows DEF Anchored, InDemo

\* A row of the seed that is accepted refers to rows of the seed's tenant: its
\* slug is there once.
LEMMA AddedFit ==
    ASSUME TypeInv, UniqueInv, RefInv, NEW s \in Session,
           ~Rejected(s, sess[s].added), NEW x \in sess[s].added
    PROVE  /\ OwnTenant(x)
           /\ Anchored(x, There(s) \cup sess[s].added)
           /\ InDemo(x, There(s) \cup sess[s].added)
<1> DEFINE R == There(s) \cup sess[s].added
<1>1. /\ \A y \in sess[s].added : OwnTenant(y) /\ ToDemo(y)
      /\ \A y \in sess[s].added : y.table = "tenant_users" \/ AtHome(y, R)
  BY DEF RefInv, SeedInv
<1>2. NoClash(R)
  BY FlushIsUnique DEF UniqueInv
<1>3. \A p \in R : RowTyped(p)
  BY DEF There, TypeInv
<1>4. \A p \in R : OwnTenant(p)
  <2>1. \A p \in There(s) : OwnTenant(p)
    BY DEF RefInv, OwnTenants, There
  <2> QED
    BY <1>1, <2>1
<1>5. \A p \in R : InDemo(p, R)
  <2>1. \A p \in rows \cup sess[s].own : InDemo(p, There(s))
    <3>1. \A p \in rows : Anchored(p, rows) /\ InDemo(p, rows)
      BY DEF RefInv
    <3>2. \A p \in sess[s].own : InDemo(p, There(s))
      BY DEF RefInv
    <3>3. rows \subseteq There(s)
      BY DEF There
    <3> QED
      BY <3>1, <3>2, <3>3, FitsGrow
  <2>2. \A p \in There(s) : InDemo(p, R)
    BY <2>1, AtHomeGrows DEF InDemo, There
  <2>3. \A p \in sess[s].added : InDemo(p, R)
    BY <1>1 DEF InDemo, Furnished
  <2> QED
    BY <2>2, <2>3
<1>6. \A ref \in x.refs : ref[1] \in Parents[x.table] => ref \in Ids(R)
  BY DEF Rejected, ForeignKeysHold, There
<1>7. \A p, q \in SlugRows(R) : p = q
  BY <1>2 DEF SlugRows, NoClash
<1>8. ASSUME NEW ref \in x.refs PROVE \E p \in R : p.id = ref /\ p.tenant = x.tenant
  <2>1. ref[1] \in Parents[x.table]
    BY <1>1 DEF ToDemo
  <2>2. PICK p \in R : p.id = ref
    BY <1>6, <2>1 DEF Ids
  <2>3. CASE ref = << "tenants", x.tenant >>
    <3>1. p.table = "tenants"
      BY <1>3, <2>2, <2>3 DEF RowTyped
    <3> QED
      BY <1>4, <2>2, <2>3, <3>1 DEF OwnTenant
  <2>4. CASE x.table # "tenant_users" /\ ref[1] \in Furnished /\ ref[2] = Demo
    <3>1. p.table \in Furnished /\ p.id[2] = Demo
      BY <1>3, <2>2, <2>4 DEF RowTyped
    <3>2. PICK u \in SlugRows(R) : u.tenant = p.tenant
      BY <1>5, <3>1 DEF InDemo, AtHome
    <3>3. PICK v \in SlugRows(R) : v.tenant = x.tenant
      BY <1>1, <2>4 DEF AtHome
    <3> QED
      BY <1>7, <2>2, <3>2, <3>3
  <2> QED
    BY <1>1, <2>3, <2>4 DEF ToDemo
<1> QED
  BY <1>1, <1>5, <1>8 DEF Anchored

LEMMA FlushKeepsRefs ==
    ASSUME RefInv, NEW s \in Session, NEW new, Flushes(s, new),
           \A o \in Session : o # s => sess'[o].own = sess[o].own,
           \A x \in new : /\ OwnTenant(x) /\ Anchored(x, There(s) \cup new)
                          /\ InDemo(x, There(s) \cup new)
    PROVE  /\ OwnTenants'
           /\ \A r \in rows' : Anchored(r, rows') /\ InDemo(r, rows')
           /\ \A o \in Session : \A r \in sess'[o].own :
                  Anchored(r, There(o)') /\ InDemo(r, There(o)')
<1>1. rows' = rows /\ sess'[s].own = sess[s].own \cup new
  BY DEF Flushes
<1>2. There(s)' = There(s) \cup new
  BY <1>1 DEF There
<1>3. OwnTenants'
  BY <1>1 DEF RefInv, OwnTenants
<1>4. ASSUME NEW r \in sess'[s].own PROVE Anchored(r, There(s)') /\ InDemo(r, There(s)')
  BY <1>1, <1>2, <1>4, FitsGrow DEF RefInv
<1>5. ASSUME NEW o \in Session, o # s, NEW r \in sess'[o].own
      PROVE  Anchored(r, There(o)') /\ InDemo(r, There(o)')
  <2>1. There(o)' = There(o) /\ sess'[o].own = sess[o].own
    BY <1>1, <1>5 DEF There
  <2> QED
    BY <1>5, <2>1 DEF RefInv
<1>6. \A r \in rows' : Anchored(r, rows') /\ InDemo(r, rows')
  BY <1>1 DEF RefInv
<1> QED
  BY <1>3, <1>4, <1>5, <1>6

LEMMA CommitKeepsRefs ==
    ASSUME RefInv, NEW s \in Session,
           rows' = rows \cup sess[s].own, sess'[s].own = {},
           \A o \in Session : o # s => sess'[o].own = sess[o].own
    PROVE  /\ OwnTenants'
           /\ \A r \in rows' : Anchored(r, rows') /\ InDemo(r, rows')
           /\ \A o \in Session : \A r \in sess'[o].own :
                  Anchored(r, There(o)') /\ InDemo(r, There(o)')
<1>1. OwnTenants'
  BY DEF RefInv, OwnTenants
<1>2. rows' = There(s)
  BY DEF There
<1>3. ASSUME NEW r \in rows' PROVE Anchored(r, rows') /\ InDemo(r, rows')
  BY <1>2, <1>3, FitsGrow DEF RefInv, There
<1>4. ASSUME NEW o \in Session, NEW r \in sess'[o].own
      PROVE  Anchored(r, There(o)') /\ InDemo(r, There(o)')
  <2>1. o # s /\ r \in sess[o].own
    BY <1>4
  <2>2. There(o) \subseteq There(o)'
    BY <2>1 DEF There
  <2> QED
    BY <2>1, <2>2, FitsGrow DEF RefInv
<1> QED
  BY <1>1, <1>3, <1>4

\* What a step that is not the seed's leaves of the seed's own.
SeedRests(s) ==
    /\ \/ sess'[s].added = {}
       \/ sess'[s].added = sess[s].added /\ There(s) \subseteq There(s)'
    /\ Of(s).db = "seed" /\ sess[s].step \in Nat => sess'[s].step \in Nat
    /\ sess'[s].pc \in {"idle", "waiting", "open"} =>
          sess[s].pc \in {"idle", "waiting"} /\ sess'[s].step = sess[s].step

LEMMA OthersRestSeed ==
    ASSUME Shape, NEW s \in Session,
           \/ Arrive(s) \/ PoolTimeout(s) \/ Begin(s) \/ Read(s) \/ Insert(s)
           \/ Commit(s) \/ SetActiveMode(s) \/ Fail(s) \/ CloseSession(s)
           \/ \E c \in Conn : OpenSession(s, c)
    PROVE  SeedRests(s)
<1>1. CASE Arrive(s) \/ PoolTimeout(s)
  BY <1>1 DEF SeedRests, Shape, Fields, There, Arrive, PoolTimeout
<1>2. CASE \E status : sess' = Failed(s, status) /\ rows' = rows
  BY <1>2 DEF SeedRests, Shape, Fields, There, Failed
<1>3. CASE Begin(s)
  <2>1. \/ \E status : sess' = Failed(s, status)
        \/ \E seen : sess' = [sess EXCEPT ![s].pc = "running", ![s].step = 1, ![s].seen = seen]
    BY <1>3, ZenonT(60) DEF Begin
  <2>2. rows' = rows
    BY <1>3 DEF Begin
  <2>3. CASE \E seen : sess' = [sess EXCEPT ![s].pc = "running", ![s].step = 1, ![s].seen = seen]
    BY <2>2, <2>3 DEF SeedRests, Shape, Fields, There
  <2> QED
    BY <1>2, <2>1, <2>2, <2>3
<1>4. CASE Read(s)
  <2>1. \/ sess' = Failed(s, 500)
        \/ \E seen, pc, reply :
             /\ sess' = [sess EXCEPT ![s].seen = seen, ![s].step = @ + 1,
                                     ![s].pc = pc, ![s].reply = reply]
             /\ pc \in {"commit", "running"}
    BY <1>4, ZenonT(60) DEF Read
  <2>2. rows' = rows
    BY <1>4 DEF Read
  <2>3. CASE \E seen, pc, reply :
             /\ sess' = [sess EXCEPT ![s].seen = seen, ![s].step = @ + 1,
                                     ![s].pc = pc, ![s].reply = reply]
             /\ pc \in {"commit", "running"}
    BY <2>2, <2>3 DEF SeedRests, Shape, Fields, There
  <2> QED
    BY <1>2, <2>1, <2>2, <2>3
<1>5. CASE Insert(s)
  <2>1. \/ sess' = Failed(s, 500)
        \/ sess' = [Failed(s, 400) EXCEPT ![s].own = @ \cup NewRows(s)]
        \/ sess' = [sess EXCEPT ![s].own = @ \cup NewRows(s), ![s].reply = 201,
                                ![s].pc = "commit"]
    BY <1>5, ZenonT(60) DEF Insert
  <2>2. rows' = rows
    BY <1>5 DEF Insert
  <2> QED
    BY <1>2, <2>1, <2>2 DEF SeedRests, Shape, Fields, There, Failed
<1>6. CASE Commit(s)
  BY <1>6 DEF SeedRests, Shape, Fields, There, Commit
<1>7. CASE SetActiveMode(s) \/ CloseSession(s)
  BY <1>7 DEF SeedRests, Shape, Fields, There, SetActiveMode, CloseSession
<1>8. CASE Fail(s)
  <2> PICK status : sess' = Failed(s, status)
    BY <1>8 DEF Fail
  <2> QED
    BY <1>2, <1>8 DEF Fail
<1>9. CASE \E c \in Conn : OpenSession(s, c)
  <2> PICK c \in Conn : OpenSession(s, c)
    BY <1>9
  <2>1. /\ sess' = [sess EXCEPT ![s].pc = "open", ![s].conn = c]
        /\ rows' = rows /\ sess[s].pc = "waiting"
    BY DEF OpenSession
  <2> QED
    BY <2>1 DEF SeedRests, Shape, Fields, There
<1> QED
  BY <1>1, <1>3, <1>4, <1>5, <1>6, <1>7, <1>8, <1>9

LEMMA SeedsKept ==
    ASSUME Shape, ContextInv, RefInv, TenancyNext PROVE \A o \in Session : SeedInv(o)'
<1> PICK s \in Session :
      \/ Arrive(s) \/ PoolTimeout(s) \/ Begin(s) \/ Read(s) \/ Insert(s)
      \/ SeedStep(s) \/ Commit(s) \/ SetActiveMode(s) \/ Fail(s) \/ CloseSession(s)
      \/ \E c \in Conn : OpenSession(s, c)
  BY DEF TenancyNext
<1>1. /\ \A o \in Session : o # s => sess'[o] = sess[o]
      /\ sess'[s].call = sess[s].call
  BY OnlyOwnSeen
<1>2. \A o \in Session : Of(o)' = Of(o)
  BY <1>1 DEF Of
<1>3. rows \subseteq rows'
  BY RowsMove DEF Flushes
<1>4. ASSUME NEW o \in Session, SeedInv(o), Of(o)' = Of(o),
             There(o) \subseteq There(o)', sess'[o] = sess[o]
      PROVE  SeedInv(o)'
  <2>1. \A R : AtHome(R, There(o) \cup sess[o].added)
                  => AtHome(R, There(o)' \cup sess[o].added)
    BY <1>4, AtHomeGrows
  <2>2. SlugRows(There(o)) # {} => SlugRows(There(o)') # {}
    BY <1>4 DEF SlugRows
  <2> QED
    BY <1>4, <2>1, <2>2 DEF SeedInv
<1>5. ASSUME NEW o \in Session, o # s PROVE SeedInv(o)'
  BY <1>1, <1>2, <1>3, <1>4, <1>5 DEF RefInv, There
<1>6. CASE SeedStep(s)
  BY <1>5, <1>6, SeedGoesOn DEF RefInv
<1>7. CASE ~SeedStep(s)
  <2>1. SeedRests(s)
    BY <1>7, OthersRestSeed
  <2>2. ASSUME NEW x \in sess'[s].added
        PROVE  /\ OwnTenant(x) /\ ToDemo(x)
               /\ x.table = "tenant_users" \/ AtHome(x, There(s)' \cup sess'[s].added)
    <3>1. sess'[s].added = sess[s].added /\ There(s) \subseteq There(s)'
      BY <2>1, <2>2 DEF SeedRests
    <3>2. /\ OwnTenant(x) /\ ToDemo(x)
          /\ x.table = "tenant_users" \/ AtHome(x, There(s) \cup sess[s].added)
      BY <2>2, <3>1 DEF RefInv, SeedInv
    <3> QED
      BY <3>1, <3>2, AtHomeGrows
  <2>3. SeedInv(s)
    BY DEF RefInv
  <2>4. SeedInv(s)'
    BY <1>2, <2>1, <2>2, <2>3 DEF SeedInv, SeedRests
  <2> QED
    BY <1>5, <2>4
<1> QED
  BY <1>6, <1>7

LEMMA RefsKept ==
    ASSUME Shape, ContextInv, ReadInv, TypeInv, UniqueInv, HandlerInv, RefTypesInv,
           AnalysisInv, RefInv, TenancyNext
    PROVE  RefInv'
<1> PICK s \in Session :
      \/ Arrive(s) \/ PoolTimeout(s) \/ Begin(s) \/ Read(s) \/ Insert(s)
      \/ SeedStep(s) \/ Commit(s) \/ SetActiveMode(s) \/ Fail(s) \/ CloseSession(s)
      \/ \E c \in Conn : OpenSession(s, c)
  BY DEF TenancyNext
<1>1. \A o \in Session : o # s => sess'[o].own = sess[o].own
  BY OnlyOwnSeen
<1> SUFFICES /\ OwnTenants'
             /\ \A r \in rows' : Anchored(r, rows') /\ InDemo(r, rows')
             /\ \A o \in Session : \A r \in sess'[o].own :
                    Anchored(r, There(o)') /\ InDemo(r, There(o)')
  BY SeedsKept DEF RefInv
<1>2. CASE rows' = rows /\ sess'[s].own \in {sess[s].own, {}}
  <2>1. OwnTenants'
    BY <1>1, <1>2 DEF RefInv, OwnTenants
  <2>2. \A r \in rows' : Anchored(r, rows') /\ InDemo(r, rows')
    BY <1>2 DEF RefInv
  <2>3. ASSUME NEW o \in Session, NEW r \in sess'[o].own
        PROVE  Anchored(r, There(o)') /\ InDemo(r, There(o)')
    <3>1. r \in sess[o].own /\ There(o)' = There(o)
      BY <1>1, <1>2, <2>3 DEF There
    <3> QED
      BY <3>1 DEF RefInv
  <2> QED
    BY <2>1, <2>2, <2>3
<1>3. CASE Insert(s) /\ Flushes(s, NewRows(s))
  <2>1. \A x \in NewRows(s) :
          /\ OwnTenant(x)
          /\ Anchored(x, There(s) \cup NewRows(s))
          /\ InDemo(x, There(s) \cup NewRows(s))
    BY <1>3, NewRowsFit, TenancyAssumption DEF RefInv, Flushes, InDemo
  <2> QED
    BY <1>1, <1>3, <2>1, FlushKeepsRefs
<1>4. CASE Flushes(s, sess[s].added)
  <2>1. \A x \in sess[s].added :
          /\ OwnTenant(x)
          /\ Anchored(x, There(s) \cup sess[s].added)
          /\ InDemo(x, There(s) \cup sess[s].added)
    BY <1>4, AddedFit DEF Flushes
  <2> QED
    BY <1>1, <1>4, <2>1, FlushKeepsRefs
<1>5. CASE rows' = rows \cup sess[s].own /\ sess'[s].own = {}
  BY <1>1, <1>5, CommitKeepsRefs
<1> QED
  BY <1>2, <1>3, <1>4, <1>5, RowsMove

LEMMA InitRefs ==
    ASSUME TenancyInit
    PROVE  UniqueInv /\ HandlerInv /\ RefTypesInv /\ AnalysisInv /\ RefInv
<1>1. PICK calls \in Scenarios : sess = [s \in Session |-> NewSession(calls[s])]
  BY DEF TenancyInit
<1>2. rows = InitialRows
  BY DEF TenancyInit
<1>3. ASSUME NEW s \in Session
      PROVE  /\ sess[s].own = {} /\ sess[s].added = {}
             /\ sess[s].pc = "idle" /\ sess[s].step = 0
             /\ sess[s].call = calls[s] /\ There(s) = rows /\ sess[s].reply = None
  BY <1>1 DEF NewSession, There
<1>4. NoClash(rows)
  BY <1>2, InitialRowsAssumption DEF NoClash, Collide
<1>5. UniqueInv
  BY <1>3, <1>4 DEF UniqueInv, Collide
<1>6. HandlerInv
  BY <1>3 DEF HandlerInv, Loads, Sees
<1>7. ASSUME NEW s \in Session PROVE SeedInv(s)
  BY <1>3 DEF SeedInv
<1>8. OwnTenants
  BY <1>2, <1>3, InitialRowsAssumption DEF OwnTenants, OwnTenant
<1>9. ASSUME NEW r \in rows PROVE Anchored(r, rows) /\ InDemo(r, rows)
  <2>1. Anchored(r, rows)
    BY <1>2, <1>9, InitialRowsAssumption DEF Anchored
  <2>2. InDemo(r, rows)
    BY <1>2, <1>9, InitialRowsAssumption DEF InDemo, AtHome, SlugRows, Furnished
  <2> QED
    BY <2>1, <2>2
<1>10. RefTypesInv
  BY <1>2, <1>3, InitialRowsAssumption DEF RefTypesInv, RefTyped
<1>11. AnalysisInv
  BY <1>3, NoneIsNoAnswer DEF AnalysisInv, Analyses
<1> QED
  BY <1>3, <1>5, <1>6, <1>7, <1>8, <1>9, <1>10, <1>11 DEF RefInv

Linked == Sound /\ UniqueInv /\ HandlerInv /\ RefTypesInv /\ AnalysisInv /\ RefInv

LEMMA LinkedInvariant == TenancySpec => []Linked
<1>1. TenancyInit => Linked
  BY SoundInit, InitRefs DEF Linked
<1>2. Linked /\ [TenancyNext]_tenancyVars => Linked'
  <2>1. ASSUME Linked, TenancyNext PROVE Linked'
    <3>1. Sound'
      BY <2>1, SoundNext DEF Linked
    <3>2. RefTypesInv'
      BY <2>1, RefTypesKept DEF Linked, Sound, RefInv
    <3> QED
      BY <2>1, <3>1, <3>2, UniqueKept, HandlerKept, AnalysisKept, RefsKept DEF Linked, Sound
  <2>2. ASSUME Linked, UNCHANGED tenancyVars PROVE Linked'
    <3>1. Sound'
      BY <2>2, SoundNext DEF Linked
    <3>2. \A s \in Session : There(s)' = There(s) /\ Of(s)' = Of(s) /\ Tenant(s)' = Tenant(s)
      BY <2>2 DEF There, Of, Tenant, tenancyVars
    <3>3. rows' = rows /\ sess' = sess
      BY <2>2 DEF tenancyVars
    <3>4. UniqueInv'
      BY <2>2, <3>2, <3>3 DEF Linked, UniqueInv
    <3>5. HandlerInv'
      BY <2>2, <3>2, <3>3 DEF Linked, HandlerInv, Loads, Sees, Notifies
    <3>6. RefInv'
      BY <2>2, <3>2, <3>3 DEF Linked, RefInv, SeedInv, OwnTenants
    <3>7. RefTypesInv' /\ AnalysisInv'
      BY <2>2, <3>3 DEF Linked, RefTypesInv, AnalysisInv, Analyses, ModeKnown
    <3> QED
      BY <3>1, <3>4, <3>5, <3>6, <3>7 DEF Linked
  <2> QED
    BY <2>1, <2>2
<1> QED
  BY <1>1, <1>2, PTL DEF TenancySpec

\* A row refers to rows of its own tenant, whoever writes at the same time -
\* handlers, the notifier, analyses and aggregations, any number of seeds: but for
\* the references that nobody compares with the tenant, the market of a schedule
\* and the camera and the region of an evidence and of its decision.
THEOREM ReferencesStayInside == TenancySpec => []RefsWithinTenant
<1>1. Linked => RefsWithinTenant
  <2> SUFFICES ASSUME Linked, NEW r \in rows, NEW p \in rows, p.id \in r.refs,
                      << r.table, p.table >> \notin Unchecked
               PROVE  p.tenant = r.tenant
    BY DEF RefsWithinTenant
  <2>1. PICK q \in rows :
          /\ q.id = p.id
          /\ q.tenant = r.tenant \/ << r.table, q.table >> \in Unchecked
    BY DEF Linked, RefInv, Anchored
  <2>2. q = p
    <3>1. p.id \in p.keys /\ p.id \in q.keys
      BY <2>1 DEF Linked, Sound, TypeInv, RowTyped
    <3> QED
      BY <3>1 DEF Linked, UniqueInv, NoClash
  <2> QED
    BY <2>1, <2>2
<1> QED
  BY <1>1, LinkedInvariant, PTL

-----------------------------------------------------------------------------
(* Readers that take several SELECTs.  A session that is still at work has *)
(* answered nothing; a job and a listing of an administrator see every row *)
(* that their context allows, and rows only ever appear.                   *)

Unanswered ==
    \A s \in Session : Of(s).db # "none" /\ AtWork(sess[s].pc) => sess[s].reply # 200

LEMMA UnansweredKept ==
    ASSUME Shape, Unanswered, TenancyNext PROVE Unanswered'
<1> PICK s \in Session :
      \/ Arrive(s) \/ PoolTimeout(s) \/ Begin(s) \/ Read(s) \/ Insert(s)
      \/ SeedStep(s) \/ Commit(s) \/ SetActiveMode(s) \/ Fail(s) \/ CloseSession(s)
      \/ \E c \in Conn : OpenSession(s, c)
  BY DEF TenancyNext
<1>0. None # 200
  <2>1. 200 \in 200..599
    OBVIOUS
  <2> QED
    BY <2>1, TenancyAssumption DEF TenancyAssumption
<1>1. /\ \A o \in Session : o # s => sess'[o] = sess[o]
      /\ \A o \in Session : sess'[o].call = sess[o].call
  BY OnlyOwnSeen
<1>2. \A o \in Session : Of(o)' = Of(o)
  BY <1>1 DEF Of
<1>3. ASSUME Of(s).db # "none", AtWork(sess'[s].pc) PROVE sess'[s].reply # 200
  <2>1. CASE Begin(s)
    BY <1>3, <2>1, BeginAnswers DEF Unanswered, AtWork
  <2>2. CASE Read(s)
    <3>1. CASE sess' = Failed(s, 500)
      BY <1>3, <3>1 DEF Shape, Fields, Failed, AtWork
    <3>2. CASE sess' # Failed(s, 500)
      BY <1>0, <1>3, <2>2, <3>2, ReadEffect DEF AtWork
    <3> QED
      BY <3>1, <3>2
  <2>3. CASE ~Begin(s) /\ ~Read(s)
    BY <1>3, <2>3, OtherAnswers, TenancyAssumption DEF Unanswered
  <2> QED
    BY <2>1, <2>2, <2>3
<1> QED
  BY <1>1, <1>2, <1>3 DEF Unanswered

-----------------------------------------------------------------------------
(* The job that activates modes.                                           *)

Schedules   == "context_mode_schedules"
Assignments == "context_mode_camera_assignments"

\* What the rows of R say of the table is among them.
Resolved(R, table) ==
    \A r \in R : r.table \in {Schedules, Assignments} =>
        \A id \in r.refs : id[1] = table => id \in Ids(R)

JobInv(s) ==
    sess[s].call.endpoint = "activate_scheduled_modes" =>
        /\ sess[s].pc = "running" =>
             /\ sess[s].step \in 1..4
             /\ sess[s].step = 1 => sess[s].seen = {}
             /\ sess[s].step = 2 => \A r \in sess[s].seen : r.table = Schedules
             /\ sess[s].step = 3 => \A r \in sess[s].seen : r.table \in {Schedules, "markets"}
             /\ sess[s].step > 2 => Resolved(sess[s].seen, "markets")
        /\ sess[s].reply = 200 =>
             Resolved(sess[s].seen, "markets") /\ Resolved(sess[s].seen, "cameras")

LEMMA JobIs ==
    ASSUME NEW s \in Session, sess[s].call.endpoint = "activate_scheduled_modes"
    PROVE  /\ Of(s).db = "root_job" /\ Of(s).inserts = None /\ Of(s).loads = {}
           /\ DOMAIN Of(s).scan = 1..4 /\ Len(Of(s).scan) = 4
           /\ Of(s).scan[1] = Select(Schedules, "all")
           /\ Of(s).scan[2] = Select("markets", "all")
           /\ Of(s).scan[3] = Select(Assignments, "all")
           /\ Of(s).scan[4] = Select("cameras", "all")
<1>1. Of(s) = ActivateScheduledModes
  BY DEF Of, Endpoint
<1> QED
  BY <1>1 DEF ActivateScheduledModes, Job, Schedules, Assignments

LEMMA JobFinds ==
    ASSUME ContextInv, TypeInv, RefInv, NEW s \in Session,
           sess[s].call.endpoint = "activate_scheduled_modes", sess[s].pc = "running",
           sess[s].seen \subseteq There(s), NEW table
    PROVE  LET found == Selected(s, Select(table, "all"))
           IN  /\ \A r \in found : r.table = table
               /\ \A r \in sess[s].seen \cup found : \A id \in r.refs :
                     id[1] = table => id \in Ids(sess[s].seen \cup found)
<1> DEFINE found == Selected(s, Select(table, "all"))
<1>1. Visible(s) = There(s)
  <2>1. Here(s).role = "root_admin"
    BY JobIs DEF ContextInv, Active, ContextOf
  <2> QED
    BY <2>1 DEF Visible, There, CanSee
<1>2. found = { r \in There(s) : r.table = table }
  BY <1>1 DEF Selected, Select
<1>3. ASSUME NEW r \in There(s), NEW id \in r.refs, id[1] = table
      PROVE  id \in Ids(found)
  <2>1. \E p \in There(s) : p.id = id
    <3>1. CASE r \in rows
      <4>1. Anchored(r, rows)
        BY <3>1 DEF RefInv
      <4> QED
        BY <1>3, <4>1 DEF Anchored, There
    <3>2. CASE r \in sess[s].own
      <4>1. Anchored(r, There(s))
        BY <3>2 DEF RefInv
      <4> QED
        BY <1>3, <4>1 DEF Anchored
    <3> QED
      BY <3>1, <3>2 DEF There
  <2>2. PICK p \in There(s) : p.id = id
    BY <2>1
  <2>3. p.table = table
    BY <1>3, <2>2 DEF There, TypeInv, RowTyped
  <2> QED
    BY <1>2, <2>2, <2>3 DEF Ids
<1> QED
  BY <1>2, <1>3 DEF Ids

LEMMA JobGoesOn ==
    ASSUME Shape, ContextInv, TypeInv, HandlerInv, RefInv, RefTypesInv, NEW s \in Session,
           JobInv(s), sess[s].call.endpoint = "activate_scheduled_modes", Read(s),
           sess' # Failed(s, 500), None # 200
    PROVE  JobInv(s)'
<1> DEFINE k     == sess[s].step
           query == Of(s).scan[k]
           found == Selected(s, query)
           seen  == sess[s].seen
           new   == seen \cup found
<1>1. /\ sess[s].pc = "running" /\ k \in 1..4
      /\ sess'[s].seen = new /\ sess'[s].step = k + 1
      /\ sess'[s].pc = IF k = 4 THEN "commit" ELSE "running"
      /\ sess'[s].reply = IF k = 4 THEN 200 ELSE None
  <2> DEFINE last == k = Len(Of(s).scan) /\ Of(s).inserts = None
  <2>1. /\ sess[s].pc = "running" /\ k \in DOMAIN Of(s).scan
        /\ sess'[s].seen = new /\ sess'[s].step = k + 1
        /\ sess'[s].pc = IF last THEN "commit" ELSE "running"
        /\ sess'[s].reply = IF last THEN 200 ELSE None
    BY ReadEffect
  <2>2. k \in 1..4 /\ (last <=> k = 4)
    BY <2>1, JobIs
  <2> HIDE DEF k, new, last
  <2> QED
    BY <2>1, <2>2
<1>2. seen \subseteq There(s)
  BY <1>1 DEF HandlerInv, Sees
<1>3. \A r \in found : r \in There(s)
  BY DEF Selected, Visible, There
<1>4. \A r \in new : RefTyped(r)
  BY <1>2, <1>3 DEF There, RefTypesInv
<1>5. ASSUME NEW table, query = Select(table, "all")
      PROVE  /\ \A r \in found : r.table = table
             /\ \A r \in new : \A id \in r.refs : id[1] = table => id \in Ids(new)
  <2>1. found = Selected(s, Select(table, "all"))
    BY <1>5
  <2>2. sess[s].pc = "running" /\ sess[s].seen \subseteq There(s)
    BY <1>1, <1>2
  <2> DEFINE got == Selected(s, Select(table, "all"))
  <2>3. /\ \A r \in got : r.table = table
        /\ \A r \in sess[s].seen \cup got : \A id \in r.refs :
              id[1] = table => id \in Ids(sess[s].seen \cup got)
    BY <2>2, JobFinds
  <2> HIDE DEF found, query, got
  <2>4. /\ \A r \in found : r.table = table
        /\ \A r \in sess[s].seen \cup found : \A id \in r.refs :
              id[1] = table => id \in Ids(sess[s].seen \cup found)
    BY <2>1, <2>3 DEF got
  <2> QED
    BY <2>4
<1>6. /\ k = 1 => query = Select(Schedules, "all")
      /\ k = 2 => query = Select("markets", "all")
      /\ k = 3 => query = Select(Assignments, "all")
      /\ k = 4 => query = Select("cameras", "all")
  BY JobIs
<1> HIDE DEF query, found
<1>7. ASSUME k = 1 PROVE \A r \in new : r.table = Schedules
  BY <1>1, <1>5, <1>6, <1>7 DEF JobInv
<1>8. ASSUME k = 2
      PROVE  Resolved(new, "markets") /\ \A r \in new : r.table \in {Schedules, "markets"}
  <2>1. /\ \A r \in found : r.table = "markets"
        /\ \A r \in new : \A id \in r.refs : id[1] = "markets" => id \in Ids(new)
    BY <1>5, <1>6, <1>8
  <2>2. \A r \in seen : r.table = Schedules
    BY <1>1, <1>8 DEF JobInv
  <2> QED
    BY <2>1, <2>2 DEF Resolved
<1>9. ASSUME k = 3 PROVE Resolved(new, "markets")
  <2>1. \A r \in found : r.table = Assignments
    BY <1>5, <1>6, <1>9
  <2>2. \A r \in found : \A id \in r.refs : id[1] # "markets"
    BY <1>4, <2>1, Tables DEF RefTyped, Assignments
  <2>3. Resolved(seen, "markets")
    BY <1>1, <1>9 DEF JobInv
  <2> QED
    BY <2>2, <2>3 DEF Resolved, Ids
<1>10. ASSUME k = 4 PROVE Resolved(new, "markets") /\ Resolved(new, "cameras")
  <2>1. \A r \in found : r.table = "cameras"
    BY <1>5, <1>6, <1>10
  <2>2. \A r \in new : \A id \in r.refs : id[1] = "cameras" => id \in Ids(new)
    BY <1>5, <1>6, <1>10
  <2>3. Resolved(seen, "markets")
    BY <1>1, <1>10 DEF JobInv
  <2>4. Resolved(new, "markets")
    BY <2>1, <2>3 DEF Resolved, Ids, Schedules, Assignments
  <2> QED
    BY <2>2, <2>4 DEF Resolved
<1>11. sess'[s].call = sess[s].call
  BY OnlyOwnSeen
<1> HIDE DEF k, new, seen
<1> QED
  BY <1>1, <1>7, <1>8, <1>9, <1>10, <1>11 DEF JobInv

LEMMA JobsKept ==
    ASSUME Shape, ContextInv, TypeInv, HandlerInv, RefInv, RefTypesInv, Unanswered,
           \A o \in Session : JobInv(o), TenancyNext
    PROVE  \A o \in Session : JobInv(o)'
<1> PICK s \in Session :
      \/ Arrive(s) \/ PoolTimeout(s) \/ Begin(s) \/ Read(s) \/ Insert(s)
      \/ SeedStep(s) \/ Commit(s) \/ SetActiveMode(s) \/ Fail(s) \/ CloseSession(s)
      \/ \E c \in Conn : OpenSession(s, c)
  BY DEF TenancyNext
<1>1. /\ \A o \in Session : o # s => sess'[o] = sess[o]
      /\ \A o \in Session : sess'[o].call = sess[o].call
  BY OnlyOwnSeen
<1>2. \A o \in Session : o # s => JobInv(o)'
  BY <1>1 DEF JobInv
<1>3. ASSUME sess[s].call.endpoint = "activate_scheduled_modes" PROVE JobInv(s)'
  <2>1. JobInv(s) /\ Of(s).db # "none"
    BY <1>3, JobIs
  <2>2. CASE Begin(s)
    <3>1. /\ sess[s].reply # 200
          /\ sess'[s].pc \in {"running", "failed"}
          /\ sess'[s].pc = "failed" => sess'[s].reply \in {403, 404}
          /\ sess'[s].pc = "running" => sess'[s].reply = sess[s].reply /\ sess'[s].step = 1
      BY <2>1, <2>2, BeginAnswers DEF Unanswered, AtWork
    <3>2. sess'[s].pc = "running" => sess'[s].seen = {}
      BY <1>3, <2>2, BeginFinds, JobIs
    <3> QED
      BY <1>1, <3>1, <3>2 DEF JobInv, Resolved
  <2>3. CASE Read(s) /\ sess' # Failed(s, 500)
    BY <1>3, <2>1, <2>3, JobGoesOn, NoneIsNoAnswer
  <2>4. CASE Read(s) /\ sess' = Failed(s, 500)
    <3>1. sess'[s].pc = "failed" /\ sess'[s].reply = 500
      BY <2>4 DEF Shape, Fields, Failed
    <3> QED
      BY <1>1, <3>1 DEF JobInv
  <2>5. CASE ~Begin(s) /\ ~Read(s)
    <3>1. /\ sess'[s].seen = sess[s].seen
          /\ sess'[s].reply = 200 => sess[s].reply = 200
          /\ sess'[s].pc # "running"
      BY <2>1, <2>5, OtherAnswers, NotRunning, TenancyAssumption
    <3> QED
      BY <1>1, <2>1, <3>1 DEF JobInv
  <2> QED
    BY <2>2, <2>3, <2>4, <2>5
<1>4. JobInv(s)'
  BY <1>1, <1>3 DEF JobInv
<1> QED
  BY <1>2, <1>4

LEMMA InitReaders ==
    ASSUME TenancyInit
    PROVE  Unanswered /\ \A s \in Session : JobInv(s)
<1>1. PICK calls \in Scenarios : sess = [s \in Session |-> NewSession(calls[s])]
  BY DEF TenancyInit
<1>2. ASSUME NEW s \in Session
      PROVE  /\ sess[s].own = {} /\ sess[s].seen = {}
             /\ sess[s].pc = "idle" /\ sess[s].reply = None
  BY <1>1 DEF NewSession
<1> QED
  BY <1>2, NoneIsNoAnswer DEF Unanswered, JobInv

Reads == Linked /\ Unanswered /\ \A s \in Session : JobInv(s)

LEMMA ReadsInvariant == TenancySpec => []Reads
<1>1. TenancyInit => Reads
  BY SoundInit, InitRefs, InitReaders DEF Reads, Linked
<1>2. Reads /\ Linked' /\ [TenancyNext]_tenancyVars => Reads'
  <2>1. ASSUME Reads, Linked', TenancyNext PROVE Reads'
    BY <2>1, UnansweredKept, JobsKept DEF Reads, Linked, Sound
  <2>2. ASSUME Reads, Linked', UNCHANGED tenancyVars PROVE Reads'
    <3>1. rows' = rows /\ sess' = sess /\ \A s \in Session : Of(s)' = Of(s)
      BY <2>2 DEF Of, tenancyVars
    <3> QED
      BY <2>2, <3>1 DEF Reads, Unanswered, JobInv
  <2> QED
    BY <2>1, <2>2
<1> QED
  BY <1>1, <1>2, LinkedInvariant, PTL DEF TenancySpec

\* The scheduler finds the market of every schedule it has read and the camera of
\* every assignment, since it reads them after, in statements of their own.
THEOREM LookupsSucceed == TenancySpec => []LookupsResolve
<1>1. Reads => LookupsResolve
  BY DEF Reads, JobInv, Resolved, Schedules, Assignments, LookupsResolve
<1> QED
  BY <1>1, ReadsInvariant, PTL

-----------------------------------------------------------------------------
(* Rules and their regions.  A rule is committed with the mappings its     *)
(* creator asked for, and nobody adds to them afterwards.                  *)

Mappings == "rule_region_mappings"

Asked ==
    [ o \in Session |->
        IF Of(o).db = "seed"
        THEN {{<< "regions_of_interest", Demo >>}}
        ELSE { {sess[o].call.regions[i]} : i \in DOMAIN sess[o].call.regions } ]

MapsOf(rule, R) ==
    { m.refs \ {rule.id, << "tenants", m.tenant >>} :
        m \in { x \in R : x.table = Mappings /\ rule.id \in x.refs } }

\* The rules in R are whole, and the mappings in R are of rules in R.
WholeRules(R, asked) ==
    /\ \A rule \in R : rule.table = "rules" /\ rule.by # None
                         => MapsOf(rule, R) = asked[rule.by]
    /\ \A x \in R : x.table = Mappings =>
          \A ref \in x.refs : ref[1] = "rules" => ref \in Ids(R)

RuleInv ==
    /\ WholeRules(rows, Asked)
    /\ \A s \in Session :
        /\ WholeRules(sess[s].added, Asked)
        /\ sess[s].pc # "failed" => WholeRules(sess[s].own, Asked)

\* Only create_rule and the seed map rules to regions.
LEMMA NothingMaps ==
    ASSUME NEW e \in DOMAIN Endpoint, Endpoint[e].inserts # None
    PROVE  Endpoint[e].inserts # Mappings
<1> DEFINE P(x) == x.inserts # None => x.inserts # Mappings
<1>1. /\ P(CreateTenant) /\ P(AssignTenantAdmin) /\ P(CreateMarket) /\ P(CreateContextMode)
      /\ P(CreateNotificationConfig) /\ P(CreateCamera) /\ P(CreateRegion)
      /\ P(CreateSchedule) /\ P(CreateLens) /\ P(CreateRule)
  BY DEF CreateTenant, AssignTenantAdmin, CreateMarket, CreateContextMode,
         CreateNotificationConfig, CreateCamera, CreateRegion, CreateSchedule, CreateLens,
         CreateRule, Creates, AsRoot, Mappings
<1>2. /\ P(ListMarkets) /\ P(ListCameras) /\ P(ListContextModes) /\ P(ListRules)
      /\ P(ListNotificationConfigs) /\ P(ListDecisionDeliveries) /\ P(ListDecisions)
      /\ P(GetDecision) /\ P(GetEvidencePlayback) /\ P(ListTenants)
  BY DEF ListMarkets, ListCameras, ListContextModes, ListRules, ListNotificationConfigs,
         ListDecisionDeliveries, ListDecisions, GetDecision, GetEvidencePlayback, Lists,
         ListTenants, AsRoot
<1>3. /\ P(ActivateScheduledModes) /\ P(AnalyzeMessage) /\ P(IngestSequence) /\ P(Seed)
      /\ P(NotifyWarning) /\ P(StoreEvidence) /\ P(AggregateEvidence)
  BY DEF ActivateScheduledModes, AnalyzeMessage, IngestSequence, Seed, NotifyWarning,
         StoreEvidence, AggregateEvidence, Job, Mappings
<1> HIDE DEF P
<1>4. P(Endpoint[e])
  BY <1>1, <1>2, <1>3 DEF Endpoint
<1> QED
  BY <1>4 DEF P

LEMMA NoRulesAreWhole ==
    ASSUME NEW R, NEW asked, \A x \in R : x.table \notin {"rules", Mappings}
    PROVE  WholeRules(R, asked)
BY DEF WholeRules

LEMMA UnionOfWholes ==
    ASSUME NEW A, NEW B, NEW asked, WholeRules(A, asked), WholeRules(B, asked),
           NoClash(A \cup B), \A x \in A \cup B : RowTyped(x)
    PROVE  WholeRules(A \cup B, asked)
<1>1. ASSUME NEW x \in A \cup B, x.table = Mappings, NEW ref \in x.refs, ref[1] = "rules"
      PROVE  ref \in Ids(A \cup B)
  BY <1>1 DEF WholeRules, Ids
<1>2. ASSUME NEW C, NEW D, WholeRules(C, asked), WholeRules(D, asked), C \cup D = A \cup B,
             NEW rule \in C, rule.table = "rules", rule.by # None
      PROVE  MapsOf(rule, C \cup D) = asked[rule.by]
  <2>1. MapsOf(rule, C) = asked[rule.by]
    BY <1>2 DEF WholeRules
  <2>2. MapsOf(rule, C \cup D) = MapsOf(rule, C) \cup MapsOf(rule, D)
    BY DEF MapsOf
  <2>3. CASE rule \in D
    BY <1>2, <2>1, <2>2, <2>3 DEF WholeRules
  <2>4. CASE rule \notin D
    <3>1. ASSUME NEW x \in D, x.table = Mappings, rule.id \in x.refs PROVE FALSE
      <4>1. rule.id[1] = "rules" /\ rule.id \in rule.keys
        BY <1>2 DEF RowTyped
      <4>2. PICK q \in D : q.id = rule.id
        BY <1>2, <3>1, <4>1 DEF WholeRules, Ids
      <4>3. q.id \in q.keys
        BY <1>2 DEF RowTyped
      <4>4. q = rule
        BY <1>2, <4>1, <4>2, <4>3 DEF NoClash
      <4> QED
        BY <2>4, <4>2, <4>4
    <3>2. MapsOf(rule, D) = {}
      BY <3>1 DEF MapsOf
    <3> QED
      BY <2>1, <2>2, <3>2
  <2> QED
    BY <2>3, <2>4
<1>3. ASSUME NEW rule \in A \cup B, rule.table = "rules", rule.by # None
      PROVE  MapsOf(rule, A \cup B) = asked[rule.by]
  <2>1. CASE rule \in A
    BY <1>2, <1>3, <2>1
  <2>2. CASE rule \in B
    <3>1. MapsOf(rule, B \cup A) = asked[rule.by]
      BY <1>2, <1>3, <2>2
    <3>2. B \cup A = A \cup B
      OBVIOUS
    <3> QED
      BY <3>1, <3>2
  <2> QED
    BY <2>1, <2>2
<1> QED
  BY <1>1, <1>3 DEF WholeRules

\* create_rule inserts a rule together with one mapping for each region.
LEMMA CreatedWhole ==
    ASSUME TypeInv, HandlerInv, NEW s \in Session, Insert(s), TenancyAssumption,
           GoodRegions(s) = DOMAIN sess[s].call.regions, Of(s).inserts \notin Assembled
    PROVE  WholeRules(NewRows(s), Asked)
<1> DEFINE regions == sess[s].call.regions
           rule == Created(s)
           M == MappingsOf(s)
<1>1. /\ Of(s).inserts # None /\ sess[s].pc = "running" /\ Of(s).db # "seed"
      /\ NewRows(s) = {rule} \cup M
  BY WhatInserts DEF Insert, NewRows, Assembled, TypeInv, Of
<1>2. PICK calls \in Scenarios : sess[s].call = calls[s]
  BY DEF HandlerInv
<1>3. /\ DOMAIN regions \subseteq IF Of(s).inserts = "rules" THEN Nat \ {0} ELSE {}
      /\ \A i \in DOMAIN regions : regions[i][1] = "regions_of_interest"
      /\ \A id \in sess[s].call.refs : id[1] \in Parents[Of(s).inserts]
  <2>1. /\ Endpoint[calls[s].endpoint].inserts = Of(s).inserts
        /\ calls[s].refs = sess[s].call.refs /\ calls[s].regions = regions
    BY <1>2 DEF Of
  <2>2. LET call == calls[s]
        IN  /\ \A id \in call.refs : id[1] \in Parents[Of(s).inserts] \ {"tenants"}
            /\ DOMAIN call.regions \subseteq
                  IF Of(s).inserts = "rules" THEN Nat \ {0} ELSE {}
            /\ \A i \in DOMAIN call.regions : call.regions[i][1] = "regions_of_interest"
    BY <1>1, <2>1, CallAssumption
  <2> QED
    BY <2>1, <2>2
<1>4. rule.table = Of(s).inserts /\ rule.id = << Of(s).inserts, s >> /\ rule.by = s
  BY RowFields DEF Created, Row
<1>5. \A x \in M : x.table = Mappings
  BY DEF MappingsOf, Row, Mappings
<1>6. CASE Of(s).inserts # "rules"
  <2>1. DOMAIN regions = {}
    BY <1>3, <1>6
  <2>2. M = {}
    BY <2>1 DEF MappingsOf, GoodRegions
  <2>3. CASE Of(s).inserts # Mappings
    BY <1>1, <1>4, <1>6, <2>2, <2>3, NoRulesAreWhole
  <2>4. CASE Of(s).inserts = Mappings
    <3>1. FALSE
      BY <2>4, <1>1, NothingMaps DEF TypeInv, Of
    <3> QED
      BY <3>1
  <2> QED
    BY <2>3, <2>4
<1>7. CASE Of(s).inserts = "rules"
  <2> DEFINE m(i) == Row(Mappings, << s, i >>, Tenant(s), {<< "rules", s >>, regions[i]},
                         {Mapped(<< "rules", s >>, regions[i])}, s)
  <2>1. M = { m(i) : i \in DOMAIN regions }
    BY DEF MappingsOf, Mappings
  <2>2. ASSUME NEW i \in DOMAIN regions
        PROVE  /\ m(i).table = Mappings /\ rule.id \in m(i).refs
               /\ m(i).refs \ {rule.id, << "tenants", m(i).tenant >>} = {regions[i]}
               /\ \A ref \in m(i).refs : ref[1] = "rules" => ref = rule.id
    <3>1. /\ m(i).table = Mappings /\ m(i).tenant = Tenant(s)
          /\ << "rules", s >> \in m(i).refs /\ regions[i] \in m(i).refs
          /\ \A ref \in m(i).refs : \/ ref \in {<< "rules", s >>, regions[i]}
                                    \/ ref = << "tenants", Tenant(s) >>
      BY DEF Row
    <3>2. regions[i][1] = "regions_of_interest" /\ rule.id = << "rules", s >>
      BY <1>3, <1>4, <1>7
    <3> HIDE DEF m, rule
    <3>3. /\ regions[i] # << "rules", s >> /\ regions[i] # << "tenants", Tenant(s) >>
          /\ << "rules", s >> # << "tenants", Tenant(s) >>
      BY <3>2
    <3>4. m(i).refs \ {rule.id, << "tenants", m(i).tenant >>} = {regions[i]}
      BY <3>1, <3>2, <3>3
    <3>5. \A ref \in m(i).refs : ref[1] = "rules" => ref = rule.id
      BY <3>1, <3>2
    <3> QED
      BY <3>1, <3>2, <3>4, <3>5
  <2> HIDE DEF m, rule, M
  <2>3. { x \in NewRows(s) : x.table = Mappings /\ rule.id \in x.refs } = M
    BY <1>1, <1>4, <1>7, <2>1, <2>2 DEF Mappings
  <2>4. MapsOf(rule, NewRows(s)) = { {regions[i]} : i \in DOMAIN regions }
    BY <2>1, <2>2, <2>3 DEF MapsOf
  <2>5. Asked[s] = { {regions[i]} : i \in DOMAIN regions }
    BY <1>1 DEF Asked
  <2>6. \A x \in NewRows(s) : x.table = "rules" => x = rule
    BY <1>1, <1>5 DEF Mappings
  <2>7. rule \in NewRows(s) /\ rule.id \in Ids(NewRows(s))
    BY <1>1 DEF Ids
  <2>8. ASSUME NEW x \in NewRows(s), x.table = Mappings,
               NEW ref \in x.refs, ref[1] = "rules"
        PROVE  ref \in Ids(NewRows(s))
    <3>1. x \in M
      BY <1>1, <1>4, <1>7, <2>8 DEF Mappings
    <3>2. PICK i \in DOMAIN regions : x = m(i)
      BY <2>1, <3>1
    <3> QED
      BY <2>2, <2>7, <2>8, <3>2
  <2> QED
    BY <1>4, <2>4, <2>5, <2>6, <2>8 DEF WholeRules
<1> QED
  BY <1>6, <1>7

\* The seed adds its rule together with the mapping of its region.
LEMMA SeedPlanWhole ==
    ASSUME NEW t, NEW s \in Session, Of(s).db = "seed", NEW i \in DOMAIN SeedPlan(t, s)
    PROVE  WholeRules(SeedPlan(t, s)[i].rows, Asked)
<1> DEFINE Else(x) == x.table \notin {"rules", Mappings}
           P(y) == \A r \in y.rows : Else(r)
           rule == Row("rules", Demo, t, {<< "context_modes", Demo >>}, {}, s)
           m(u) == Row(Mappings, Demo, t, {<< "rules", Demo >>, << "regions_of_interest", Demo >>},
                       u, s)
<1>1. ASSUME NEW table, table \notin {"rules", Mappings}, NEW n, NEW tenant, NEW refs, NEW u,
             NEW key
      PROVE  LET row == Row(table, n, tenant, refs, u, s)
             IN  Else(row) /\ Else([row EXCEPT !.keys = @ \cup {key}])
  BY <1>1 DEF Row
<1>2. ASSUME NEW key, NEW x, Else(x) PROVE P(Missing(key, {x}))
  BY <1>2 DEF Missing
<1>3. ASSUME NEW u PROVE WholeRules({rule, m(u)}, Asked)
  <2>1. /\ rule.table = "rules" /\ rule.id = << "rules", Demo >> /\ rule.by = s
        /\ m(u).table = Mappings /\ m(u).tenant = t
        /\ << "rules", Demo >> \in m(u).refs /\ << "regions_of_interest", Demo >> \in m(u).refs
        /\ \A ref \in m(u).refs :
              ref \in {<< "rules", Demo >>, << "regions_of_interest", Demo >>, << "tenants", t >>}
    BY DEF Row
  <2> HIDE DEF rule, m
  <2>2. m(u).refs \ {rule.id, << "tenants", m(u).tenant >>} = {<< "regions_of_interest", Demo >>}
    BY <2>1
  <2>3. MapsOf(rule, {rule, m(u)}) = {m(u).refs \ {rule.id, << "tenants", m(u).tenant >>}}
    BY <2>1 DEF MapsOf, Mappings
  <2>4. Asked[s] = {{<< "regions_of_interest", Demo >>}}
    BY DEF Asked
  <2>5. \A ref \in m(u).refs : ref[1] = "rules" => ref = rule.id
    BY <2>1
  <2> QED
    BY <2>1, <2>2, <2>3, <2>4, <2>5 DEF WholeRules, Ids, Mappings
<1>4. i \in 1..12
  BY DEF SeedPlan
<1> HIDE DEF P, Else, rule, m
<1>5. CASE i = 8
  <2>1. SeedPlan(t, s)[8].rows =
          {rule, m({Mapped(<< "rules", Demo >>, << "regions_of_interest", Demo >>)})}
    BY DEF SeedPlan, Missing, rule, m, Mappings
  <2> QED
    BY <1>3, <1>5, <2>1
<1>6. CASE i # 8
  <2> USE <1>1, <1>2
  <2>1. P(SeedPlan(t, s)[1])
    BY DEF SeedPlan, Mappings
  <2>2. P(SeedPlan(t, s)[2])
    BY DEF SeedPlan, Mappings
  <2>3. P(SeedPlan(t, s)[3])
    BY DEF SeedPlan, Mappings
  <2>4. P(SeedPlan(t, s)[4])
    BY DEF SeedPlan, Mappings
  <2>5. P(SeedPlan(t, s)[5])
    BY DEF SeedPlan, Mappings
  <2>6. P(SeedPlan(t, s)[6])
    BY DEF SeedPlan, Mappings
  <2>7. P(SeedPlan(t, s)[7])
    BY DEF SeedPlan, Mappings
  <2>8. P(SeedPlan(t, s)[9])
    BY DEF SeedPlan, Mappings
  <2>9. P(SeedPlan(t, s)[10])
    BY DEF SeedPlan, Mappings
  <2>10. P(SeedPlan(t, s)[11])
    BY DEF SeedPlan, Mappings
  <2>11. P(SeedPlan(t, s)[12])
    BY DEF SeedPlan, Mappings
  <2>12. P(SeedPlan(t, s)[i])
    BY <1>4, <1>6, <2>1, <2>2, <2>3, <2>4, <2>5, <2>6, <2>7, <2>8, <2>9, <2>10, <2>11
  <2> QED
    BY <2>12, NoRulesAreWhole DEF P, Else
<1> QED
  BY <1>5, <1>6

LEMMA InsertsWhole ==
    ASSUME Shape, TypeInv, HandlerInv, NEW s \in Session, Insert(s), sess'[s].pc # "failed"
    PROVE  WholeRules(NewRows(s), Asked)
<1>1. CASE GoodRegions(s) # DOMAIN sess[s].call.regions
  <2>1. \/ sess' = Failed(s, 500)
        \/ sess' = [Failed(s, 400) EXCEPT ![s].own = @ \cup NewRows(s)]
    BY <1>1, ZenonT(60) DEF Insert
  <2>2. sess'[s].pc = "failed"
    BY <2>1 DEF Shape, Fields, Failed
  <2> QED
    BY <2>2
<1>2. CASE /\ GoodRegions(s) = DOMAIN sess[s].call.regions
           /\ Of(s).inserts \notin Assembled
  BY <1>2, CreatedWhole, TenancyAssumption
<1>3. CASE Of(s).inserts = "notification_deliveries"
  <2>1. ASSUME NEW x \in DeliveriesOf(s) PROVE x.table = "notification_deliveries"
    <3> PICK d, c \in sess[s].seen :
          /\ d.table = "decisions" /\ c.table = "notification_configs"
          /\ x = Row("notification_deliveries", << s, c.id >>, d.tenant, {d.id, c.id}, {}, s)
      BY DeliveryParts
    <3> QED
      BY RowFields
  <2> QED
    BY <1>3, <2>1, NoRulesAreWhole DEF NewRows, Mappings
<1>4. CASE Of(s).inserts = "decisions"
  <2>1. ASSUME NEW x \in NewDecision(s) PROVE x.table = "decisions"
    <3> PICK e \in sess[s].seen :
          x = Row("decisions", s, e.tenant,
                  { id \in e.refs : id[1] \in {"cameras", "regions_of_interest"} }, {}, s)
      BY <2>1, DecisionParts
    <3> QED
      BY RowFields
  <2>2. ASSUME NEW x \in LinksOf(s) PROVE x.table = "decision_evidences"
    <3> PICK d \in Seen(s, "decisions") \cup NewDecision(s), e \in sess[s].seen :
          /\ e.table = "evidences"
          /\ x = Row("decision_evidences", << d.id, e.id >>, e.tenant, {d.id, e.id}, {}, s)
      BY <2>2, LinkParts
    <3> QED
      BY RowFields
  <2> QED
    BY <1>4, <2>1, <2>2, NoRulesAreWhole DEF NewRows, MergedOf, Mappings
<1> QED
  BY <1>1, <1>2, <1>3, <1>4 DEF Assembled

LEMMA AskedKept ==
    ASSUME Shape, TenancyNext PROVE Asked' = Asked
<1>1. \A o \in Session : sess'[o].call = sess[o].call
  BY OnlyOwnSeen DEF TenancyNext
<1>2. \A o \in Session : Of(o)' = Of(o)
  BY <1>1 DEF Of
<1> QED
  BY <1>1, <1>2 DEF Asked

\* What is added is whole at every step, and a session that has failed is rolled
\* back.
LEMMA AddedWhole ==
    ASSUME Shape, RuleInv, NEW s \in Session,
           \/ Arrive(s) \/ PoolTimeout(s) \/ Begin(s) \/ Read(s) \/ Insert(s)
           \/ SeedStep(s) \/ Commit(s) \/ SetActiveMode(s) \/ Fail(s) \/ CloseSession(s)
           \/ \E c \in Conn : OpenSession(s, c)
    PROVE  /\ WholeRules(sess'[s].added, Asked)
           /\ sess[s].pc = "failed" => sess'[s].own = {}
<1>1. WholeRules({}, Asked) /\ WholeRules(sess[s].added, Asked)
  BY DEF WholeRules, RuleInv
<1>2. CASE \/ Arrive(s) \/ PoolTimeout(s) \/ Begin(s) \/ Read(s)
           \/ SetActiveMode(s) \/ Fail(s) \/ \E c \in Conn : OpenSession(s, c)
  <2>1. sess'[s].added = sess[s].added /\ sess[s].pc # "failed"
    BY <1>2, EarlySteps
  <2> QED
    BY <1>1, <2>1
<1>3. CASE Insert(s) \/ Commit(s) \/ CloseSession(s)
  <2>1. /\ sess'[s].added \in {sess[s].added, {}}
        /\ sess[s].pc = "failed" => sess'[s].own = {}
    BY <1>3, InsertUpdates, CommitUpdates, CloseUpdates
  <2> QED
    BY <1>1, <2>1
<1>4. CASE SeedStep(s)
  <2> DEFINE plan == SeedPlan(SeedTenant(s), s)
             next == sess[s].step + 1
  <2>1. /\ Of(s).db = "seed" /\ sess[s].pc = "open"
        /\ \/ sess' = Failed(s, 500)
           \/ sess'[s].added = {}
           \/ next \in DOMAIN plan /\ sess'[s].added = plan[next].rows
    BY <1>4, SeedStepEffect
  <2>2. sess' = Failed(s, 500) => sess'[s].added = sess[s].added
    BY DEF Shape, Fields, Failed
  <2>3. next \in DOMAIN plan => WholeRules(plan[next].rows, Asked)
    BY <2>1, SeedPlanWhole
  <2> HIDE DEF plan, next
  <2> QED
    BY <1>1, <2>1, <2>2, <2>3
<1> QED
  BY <1>2, <1>3, <1>4

LEMMA RulesKept ==
    ASSUME Shape, TypeInv, UniqueInv, HandlerInv, RuleInv, TenancyNext PROVE RuleInv'
<1> PICK s \in Session :
      \/ Arrive(s) \/ PoolTimeout(s) \/ Begin(s) \/ Read(s) \/ Insert(s)
      \/ SeedStep(s) \/ Commit(s) \/ SetActiveMode(s) \/ Fail(s) \/ CloseSession(s)
      \/ \E c \in Conn : OpenSession(s, c)
  BY DEF TenancyNext
<1>1. \A o \in Session : o # s => sess'[o] = sess[o]
  BY OnlyOwnSeen
<1>2. /\ WholeRules(sess'[s].added, Asked)
      /\ sess[s].pc = "failed" => sess'[s].own = {}
  BY AddedWhole
<1>3. WholeRules({}, Asked)
  BY DEF WholeRules
<1>4. ASSUME NEW new, Flushes(s, new), sess[s].pc # "failed", WholeRules(new, Asked),
             \A x \in new : RowTyped(x)
      PROVE  WholeRules(sess'[s].own, Asked)
  <2>1. NoClash(There(s) \cup new)
    BY <1>4, FlushIsUnique DEF Flushes, UniqueInv
  <2>2. NoClash(sess[s].own \cup new)
    BY <2>1 DEF NoClash, There
  <2>3. \A x \in sess[s].own \cup new : RowTyped(x)
    BY <1>4 DEF TypeInv
  <2>4. WholeRules(sess[s].own, Asked)
    BY <1>4 DEF RuleInv
  <2>5. WholeRules(sess[s].own \cup new, Asked)
    BY <1>4, <2>2, <2>3, <2>4, UnionOfWholes
  <2> QED
    BY <1>4, <2>5 DEF Flushes
<1>5. /\ WholeRules(rows', Asked)
      /\ sess'[s].pc # "failed" => WholeRules(sess'[s].own, Asked)
  <2>1. CASE rows' = rows /\ sess'[s].own = sess[s].own
    BY <1>2, <1>3, <2>1 DEF RuleInv
  <2>2. CASE rows' = rows /\ sess'[s].own = {}
    BY <1>3, <2>2 DEF RuleInv
  <2>3. CASE Insert(s) /\ Flushes(s, NewRows(s))
    <3>1. rows' = rows /\ sess[s].pc # "failed"
      BY <2>3, InsertUpdates
    <3>2. \A x \in NewRows(s) : RowTyped(x)
      BY <2>3, NewRowsTyped DEF Insert, TypeInv
    <3>3. sess'[s].pc # "failed" => WholeRules(NewRows(s), Asked)
      BY <2>3, InsertsWhole
    <3>4. sess'[s].pc # "failed" => WholeRules(sess'[s].own, Asked)
      BY <1>4, <2>3, <3>1, <3>2, <3>3
    <3> QED
      BY <3>1, <3>4 DEF RuleInv
  <2>4. CASE SeedStep(s) /\ Flushes(s, sess[s].added)
    <3>1. rows' = rows /\ sess[s].pc # "failed"
      BY <2>4, SeedStepPc
    <3>2. /\ \A x \in sess[s].added : RowTyped(x)
          /\ WholeRules(sess[s].added, Asked)
      BY DEF TypeInv, RuleInv
    <3>3. WholeRules(sess'[s].own, Asked)
      BY <1>4, <2>4, <3>1, <3>2
    <3> QED
      BY <3>1, <3>3 DEF RuleInv
  <2>5. CASE Commit(s) /\ rows' = rows \cup sess[s].own /\ sess'[s].own = {}
    <3>1. sess[s].pc # "failed"
      BY <2>5, CommitUpdates
    <3>2. WholeRules(rows, Asked) /\ WholeRules(sess[s].own, Asked)
      BY <3>1 DEF RuleInv
    <3>3. NoClash(rows \cup sess[s].own) /\ \A x \in rows \cup sess[s].own : RowTyped(x)
      BY DEF UniqueInv, There, TypeInv
    <3>4. WholeRules(rows \cup sess[s].own, Asked)
      BY <3>2, <3>3, UnionOfWholes
    <3> QED
      BY <1>3, <2>5, <3>4
  <2> QED
    BY <2>1, <2>2, <2>3, <2>4, <2>5, RowsMove
<1>6. ASSUME NEW o \in Session, o # s
      PROVE  /\ WholeRules(sess'[o].added, Asked)
             /\ sess'[o].pc # "failed" => WholeRules(sess'[o].own, Asked)
  BY <1>1, <1>6 DEF RuleInv
<1> QED
  BY <1>2, <1>5, <1>6, AskedKept DEF RuleInv

LEMMA InitRules == ASSUME TenancyInit PROVE RuleInv
<1>1. PICK calls \in Scenarios : sess = [s \in Session |-> NewSession(calls[s])]
  BY DEF TenancyInit
<1>2. \A s \in Session : sess[s].own = {} /\ sess[s].added = {}
  BY <1>1 DEF NewSession
<1>3. ASSUME NEW x \in rows, NEW ref \in x.refs PROVE ref \in Ids(rows)
  BY InitialRowsAssumption DEF TenancyInit, Ids
<1>4. \A x \in rows : x.by = None
  BY TenancyAssumption DEF TenancyAssumption, TenancyInit
<1> QED
  BY <1>2, <1>3, <1>4 DEF RuleInv, WholeRules

\* A listing has seen no mapping but those of rules it has listed, all of them.
ListInv(s) ==
    sess[s].call.endpoint = "list_rules" =>
        /\ sess[s].pc = "running" =>
             /\ sess[s].step \in 1..2
             /\ sess[s].step = 1 => sess[s].seen = {}
             /\ sess[s].step = 2 =>
                  \A r \in sess[s].seen : r.table = "rules" /\ CanSee(ContextOf(s), r)
        /\ sess[s].reply = 200 =>
             \A rule \in sess[s].seen : rule.table = "rules" /\ rule.by # None =>
                 rule.by \in Session /\ MapsOf(rule, sess[s].seen) = Asked[rule.by]

LEMMA ListIs ==
    ASSUME NEW s \in Session, sess[s].call.endpoint = "list_rules"
    PROVE  /\ Of(s).db = "tenant" /\ Of(s).inserts = None /\ Of(s).loads = {}
           /\ DOMAIN Of(s).scan = 1..2 /\ Len(Of(s).scan) = 2
           /\ Of(s).scan[1] = Select("rules", "all")
           /\ Of(s).scan[2] = Select(Mappings, "of")
<1>1. Of(s) = ListRules
  BY DEF Of, Endpoint
<1>2. /\ ListRules.db = "tenant" /\ ListRules.inserts = None /\ ListRules.loads = {}
      /\ ListRules.scan = Append(<< Select("rules", "all") >>, Select(Mappings, "of"))
  BY DEF ListRules, Lists, Mappings
<1> QED
  BY <1>1, <1>2

\* At its second SELECT the listing finds every mapping of the rules it has seen:
\* they were committed with their rule, in its tenant.
LEMMA MapsFound ==
    ASSUME Shape, ContextInv, TypeInv, WriteInv, UniqueInv, HandlerInv, RefInv, RuleInv,
           NEW s \in Session, ListInv(s), sess[s].call.endpoint = "list_rules",
           sess[s].pc = "running", sess[s].step = 2,
           NEW rule \in sess[s].seen, rule.by # None
    PROVE  /\ rule.by \in Session
           /\ MapsOf(rule, sess[s].seen \cup Selected(s, Select(Mappings, "of"))) = Asked[rule.by]
<1> DEFINE query == Select(Mappings, "of")
           found == Selected(s, query)
           seen  == sess[s].seen
<1>1. sess[s].own = {} /\ There(s) = rows
  BY ListIs DEF WriteInv, OwnInv, There
<1>2. Visible(s) = { r \in rows : CanSee(ContextOf(s), r) }
  BY <1>1 DEF Visible, ContextInv, Active
<1>3. /\ seen \subseteq rows
      /\ \A r \in seen : r.table = "rules" /\ CanSee(ContextOf(s), r)
  BY <1>1 DEF HandlerInv, Sees, ListInv
<1>4. rule.by \in Session /\ MapsOf(rule, rows) = Asked[rule.by]
  BY <1>3 DEF RuleInv, WholeRules, WriteInv, RowInv
<1>5. ASSUME NEW m \in rows, m.table = Mappings, rule.id \in m.refs PROVE m \in found
  <2>1. PICK p \in rows :
          /\ p.id = rule.id
          /\ p.tenant = m.tenant \/ << m.table, p.table >> \in Unchecked
    BY <1>5 DEF RefInv, Anchored
  <2>2. p = rule
    <3>1. p.id \in p.keys /\ rule.id \in rule.keys
      BY <1>3 DEF TypeInv, RowTyped
    <3> QED
      BY <1>3, <2>1, <3>1 DEF UniqueInv, NoClash
  <2>3. m.tenant = rule.tenant
    BY <1>5, <2>1, <2>2, UncheckedIs DEF Mappings
  <2>4. CanSee(ContextOf(s), m)
    BY <1>3, <2>3 DEF CanSee, OfTenant
  <2>5. m \in Visible(s)
    BY <1>2, <2>4
  <2>6. rule.id \in Ids(sess[s].seen)
    BY DEF Ids
  <2>7. m.refs \cap (sess[s].call.refs \cup Ids(sess[s].seen)) # {}
    BY <1>5, <2>6
  <2> QED
    BY <1>5, <2>5, <2>7 DEF Selected, Select
<1>6. ASSUME NEW m \in seen \cup found, m.table = Mappings PROVE m \in rows
  BY <1>2, <1>3 DEF Selected
<1> HIDE DEF seen, found, query
<1>7. MapsOf(rule, seen \cup found) = MapsOf(rule, rows)
  <2>1. { x \in seen \cup found : x.table = Mappings /\ rule.id \in x.refs }
          = { x \in rows : x.table = Mappings /\ rule.id \in x.refs }
    BY <1>5, <1>6
  <2> QED
    BY <2>1 DEF MapsOf
<1> QED
  BY <1>4, <1>7 DEF seen, found, query

LEMMA ListGoesOn ==
    ASSUME Shape, ContextInv, TypeInv, WriteInv, UniqueInv, HandlerInv, RefInv, RuleInv,
           NEW s \in Session, ListInv(s), sess[s].call.endpoint = "list_rules", Read(s),
           sess' # Failed(s, 500), TenancyNext
    PROVE  ListInv(s)'
<1> DEFINE k     == sess[s].step
           found == Selected(s, Of(s).scan[k])
           new   == sess[s].seen \cup found
<1>1. /\ sess[s].pc = "running" /\ k \in 1..2
      /\ sess'[s].seen = new /\ sess'[s].step = k + 1
      /\ sess'[s].pc = IF k = 2 THEN "commit" ELSE "running"
      /\ sess'[s].reply = IF k = 2 THEN 200 ELSE None
  BY ReadEffect, ListIs
<1>2. sess'[s].call = sess[s].call /\ Asked' = Asked
  BY OnlyOwnSeen, AskedKept
<1>3. ContextOf(s)' = ContextOf(s)
  <2>1. Of(s)' = Of(s) /\ Tenant(s)' = Tenant(s)
    BY <1>2 DEF Of, Tenant
  <2>2. sess'[s].auth = sess[s].auth
    BY <1>1, EarlySteps
  <2> QED
    BY <2>1, <2>2 DEF ContextOf
<1>4. ASSUME k = 1 PROVE \A r \in new : r.table = "rules" /\ CanSee(ContextOf(s), r)
  <2>1. sess[s].seen = {}
    BY <1>1, <1>4 DEF ListInv
  <2>2. Of(s).scan[k] = Select("rules", "all")
    BY <1>4, ListIs
  <2>3. \A r \in found : r.table = "rules" /\ CanSee(Here(s), r)
    BY <2>2 DEF Selected, Select, Visible
  <2>4. Here(s) = ContextOf(s)
    BY <1>1 DEF ContextInv, Active
  <2> QED
    BY <2>1, <2>3, <2>4
<1>5. ASSUME k = 2, NEW rule \in new, rule.table = "rules", rule.by # None
      PROVE  rule.by \in Session /\ MapsOf(rule, new) = Asked[rule.by]
  <2>1. Of(s).scan[k] = Select(Mappings, "of")
    BY <1>5, ListIs
  <2>2. rule \in sess[s].seen
    <3>1. \A r \in found : r.table = Mappings
      BY <2>1 DEF Selected, Select
    <3> QED
      BY <1>5, <3>1 DEF Mappings
  <2>3. /\ rule.by \in Session
        /\ MapsOf(rule, sess[s].seen \cup Selected(s, Select(Mappings, "of"))) = Asked[rule.by]
    BY <1>1, <1>5, <2>2, MapsFound
  <2> QED
    BY <2>1, <2>3
<1> HIDE DEF k, new
<1>6. None # 200
  BY NoneIsNoAnswer
<1> QED
  BY <1>1, <1>2, <1>3, <1>4, <1>5, <1>6 DEF ListInv

LEMMA ListsKept ==
    ASSUME Shape, ContextInv, TypeInv, WriteInv, UniqueInv, HandlerInv, RefInv, RuleInv,
           Unanswered, \A o \in Session : ListInv(o), TenancyNext
    PROVE  \A o \in Session : ListInv(o)'
<1> PICK s \in Session :
      \/ Arrive(s) \/ PoolTimeout(s) \/ Begin(s) \/ Read(s) \/ Insert(s)
      \/ SeedStep(s) \/ Commit(s) \/ SetActiveMode(s) \/ Fail(s) \/ CloseSession(s)
      \/ \E c \in Conn : OpenSession(s, c)
  BY DEF TenancyNext
<1>1. /\ \A o \in Session : o # s => sess'[o] = sess[o]
      /\ \A o \in Session : sess'[o].call = sess[o].call
  BY OnlyOwnSeen
<1>2. Asked' = Asked
  BY AskedKept
<1>3. ASSUME NEW o \in Session, o # s PROVE ListInv(o)'
  <2>1. sess'[o] = sess[o] /\ ContextOf(o)' = ContextOf(o)
    BY <1>1, <1>3 DEF ContextOf, Of, Tenant
  <2> QED
    BY <1>2, <2>1 DEF ListInv
<1>4. ASSUME sess[s].call.endpoint = "list_rules" PROVE ListInv(s)'
  <2>1. ListInv(s) /\ Of(s).db # "none"
    BY <1>4, ListIs
  <2>2. CASE Begin(s)
    <3>1. /\ sess[s].reply # 200
          /\ sess'[s].pc \in {"running", "failed"}
          /\ sess'[s].pc = "failed" => sess'[s].reply \in {403, 404}
          /\ sess'[s].pc = "running" => sess'[s].reply = sess[s].reply /\ sess'[s].step = 1
      BY <2>1, <2>2, BeginAnswers DEF Unanswered, AtWork
    <3>2. sess'[s].pc = "running" => sess'[s].seen = {}
      BY <1>4, <2>2, BeginFinds, ListIs
    <3> QED
      BY <3>1, <3>2 DEF ListInv
  <2>3. CASE Read(s) /\ sess' # Failed(s, 500)
    BY <1>4, <2>1, <2>3, ListGoesOn
  <2>4. CASE Read(s) /\ sess' = Failed(s, 500)
    <3>1. sess'[s].pc = "failed" /\ sess'[s].reply = 500
      BY <2>4 DEF Shape, Fields, Failed
    <3> QED
      BY <3>1 DEF ListInv
  <2>5. CASE ~Begin(s) /\ ~Read(s)
    <3>1. /\ sess'[s].seen = sess[s].seen
          /\ sess'[s].reply = 200 => sess[s].reply = 200
          /\ sess'[s].pc # "running"
      BY <2>1, <2>5, OtherAnswers, NotRunning, TenancyAssumption
    <3> QED
      BY <1>2, <1>4, <2>1, <3>1 DEF ListInv
  <2> QED
    BY <2>2, <2>3, <2>4, <2>5
<1>5. ListInv(s)'
  BY <1>1, <1>4 DEF ListInv
<1> QED
  BY <1>3, <1>5

LEMMA InitLists == ASSUME TenancyInit PROVE \A s \in Session : ListInv(s)
<1>1. PICK calls \in Scenarios : sess = [s \in Session |-> NewSession(calls[s])]
  BY DEF TenancyInit
<1>2. \A s \in Session : sess[s].pc = "idle" /\ sess[s].reply = None
  BY <1>1 DEF NewSession
<1> QED
  BY <1>2, NoneIsNoAnswer DEF ListInv

Listings == Reads /\ RuleInv /\ \A s \in Session : ListInv(s)

LEMMA ListsInvariant == TenancySpec => []Listings
<1>1. TenancyInit => Listings
  BY SoundInit, InitRefs, InitReaders, InitRules, InitLists DEF Listings, Reads, Linked
<1>2. Listings /\ Reads' /\ [TenancyNext]_tenancyVars => Listings'
  <2>1. ASSUME Listings, Reads', TenancyNext PROVE Listings'
    BY <2>1, RulesKept, ListsKept DEF Listings, Reads, Linked, Sound
  <2>2. ASSUME Listings, Reads', UNCHANGED tenancyVars PROVE Listings'
    <3>1. rows' = rows /\ sess' = sess /\ Asked' = Asked
          /\ \A s \in Session : ContextOf(s)' = ContextOf(s)
      BY <2>2 DEF Of, Tenant, ContextOf, Asked, tenancyVars
    <3> QED
      BY <2>2, <3>1 DEF Listings, RuleInv, ListInv
  <2> QED
    BY <2>1, <2>2
<1> QED
  BY <1>1, <1>2, ReadsInvariant, PTL DEF TenancySpec

\* A listing of the rules shows each with exactly the regions its creator asked
\* for, whoever creates rules between its two statements.
THEOREM ListingsAreWhole == TenancySpec => []RulesListedWhole
<1>1. ASSUME Listings PROVE RulesListedWhole
  <2> SUFFICES ASSUME NEW s \in Session,
                      sess[s].call.endpoint = "list_rules" /\ sess[s].reply = 200,
                      NEW rule \in sess[s].seen, rule.table = "rules" /\ rule.by # None
               PROVE  MapsOf(rule, sess[s].seen)
                    = IF Of(rule.by).db = "seed"
                      THEN {{<< "regions_of_interest", Demo >>}}
                      ELSE { {sess[rule.by].call.regions[i]} :
                               i \in DOMAIN sess[rule.by].call.regions }
    BY Zenon DEF RulesListedWhole, MapsOf, Mappings
  <2>1. rule.by \in Session /\ MapsOf(rule, sess[s].seen) = Asked[rule.by]
    BY <1>1 DEF Listings, ListInv
  <2> QED
    BY <2>1 DEF Asked
<1> QED
  BY <1>1, ListsInvariant, PTL

-----------------------------------------------------------------------------
(* The seed is there as a whole or not at all.                             *)

\* The first n rows of the plan for the tenant t are there, whoever made them.
Complete(t, R, n) == \A i \in 1..n : \E r \in R : SeedPlan(t, None)[i].key \in r.keys

\* An item of the plan is looked up by a key that one of its rows has.
LEMMA SeedKeys ==
    ASSUME NEW t, NEW s
    PROVE  /\ DOMAIN SeedPlan(t, s) = 1..12
           /\ SeedPlan(t, s)[1].key = Slug(Demo)
           /\ \A i \in 1..12 :
                /\ SeedPlan(t, s)[i].key = SeedPlan(t, None)[i].key
                /\ \E r \in SeedPlan(t, s)[i].rows : SeedPlan(t, s)[i].key \in r.keys
<1> DEFINE P(x, y) == x.key = y.key /\ \E r \in x.rows : x.key \in r.keys
           Plan == SeedPlan(t, s)
           Base == SeedPlan(t, None)
<1>1. ASSUME NEW table, NEW n, NEW tenant, NEW refs, NEW u, NEW z
      PROVE  LET row == Row(table, n, tenant, refs, u, s)
             IN  /\ P(Missing(<< table, n >>, {row}), Missing(<< table, n >>, z))
                 /\ \A x : P(Missing(<< table, n >>, {row, x}), Missing(<< table, n >>, z))
  <2> DEFINE row == Row(table, n, tenant, refs, u, s)
  <2>1. << table, n >> \in row.keys
    BY DEF Row
  <2> HIDE DEF row
  <2> QED
    BY <2>1 DEF Missing, row
<1>2. ASSUME NEW table, NEW n, NEW tenant, NEW refs, NEW u, NEW key, NEW z
      PROVE  LET row == Row(table, n, tenant, refs, u, s)
             IN  P(Missing(key, {[row EXCEPT !.keys = @ \cup {key}]}), Missing(key, z))
  <2> DEFINE row == [Row(table, n, tenant, refs, u, s) EXCEPT !.keys = @ \cup {key}]
  <2>1. key \in row.keys
    BY DEF Row
  <2> HIDE DEF row
  <2> QED
    BY <2>1 DEF Missing, row
<1> HIDE DEF P
<1>3. DOMAIN Plan = 1..12 /\ Plan[1].key = Slug(Demo)
  BY DEF SeedPlan, Missing
<1> USE <1>1, <1>2
<1>4. P(Plan[1], Base[1])
  BY DEF SeedPlan
<1>5. P(Plan[2], Base[2])
  BY DEF SeedPlan
<1>6. P(Plan[3], Base[3])
  BY DEF SeedPlan
<1>7. P(Plan[4], Base[4])
  BY DEF SeedPlan
<1>8. P(Plan[5], Base[5])
  BY DEF SeedPlan
<1>9. P(Plan[6], Base[6])
  BY DEF SeedPlan
<1>10. P(Plan[7], Base[7])
  BY DEF SeedPlan
<1>11. P(Plan[8], Base[8])
  BY DEF SeedPlan
<1>12. P(Plan[9], Base[9])
  BY DEF SeedPlan
<1>13. P(Plan[10], Base[10])
  BY DEF SeedPlan
<1>14. P(Plan[11], Base[11])
  BY DEF SeedPlan
<1>15. P(Plan[12], Base[12])
  BY DEF SeedPlan
<1> HIDE DEF Plan, Base
<1>16. \A i \in 1..12 : P(Plan[i], Base[i])
  BY <1>4, <1>5, <1>6, <1>7, <1>8, <1>9, <1>10, <1>11, <1>12, <1>13, <1>14, <1>15
<1> QED
  BY <1>3, <1>16 DEF P, Plan, Base

\* How far a seed is: the items up to its step are there, in the tenant of the
\* slug.  A handler's session never makes the mode active.
ProgressInv(s) ==
    /\ Of(s).db = "seed" =>
        /\ sess[s].pc # "running"
        /\ sess[s].pc = "open" => sess[s].step \in 0..12
        /\ sess[s].pc = "open" =>
             \A p \in SlugRows(There(s)) :
                 Complete(p.tenant, There(s) \cup sess[s].added, sess[s].step)
        /\ sess[s].pc = "commit" =>
             \E p \in SlugRows(There(s)) : Complete(p.tenant, There(s), 12)

Seeded(R) == \E p \in SlugRows(R) : Complete(p.tenant, R, 12)

SeededInv ==
    /\ \A r \in rows : r.by # None /\ Of(r.by).db = "seed" => Seeded(rows)
    /\ \A s \in Session : sess[s].pc = "key" => Seeded(rows)
    /\ activeMode # None => Seeded(rows)

LEMMA CompleteGrows ==
    ASSUME NEW t, NEW n, NEW R, NEW S, R \subseteq S, Complete(t, R, n)
    PROVE  Complete(t, S, n)
BY DEF Complete

LEMMA SeededGrows ==
    ASSUME NEW R, NEW S, R \subseteq S, Seeded(R) PROVE Seeded(S)
BY CompleteGrows DEF Seeded, SlugRows

LEMMA SeedProgresses ==
    ASSUME Shape, ContextInv, UniqueInv, NEW s \in Session, SeedInv(s), ProgressInv(s),
           SeedStep(s)
    PROVE  ProgressInv(s)'
<1> DEFINE t     == SeedTenant(s)
           plan  == SeedPlan(t, s)
           k     == sess[s].step
           next  == k + 1
           there == Visible(s) \cup sess[s].added
           found == next \in DOMAIN plan /\ \E r \in there : plan[next].key \in r.keys
           add   == IF found \/ next \notin DOMAIN plan THEN {} ELSE plan[next].rows
           own   == There(s) \cup sess[s].added
<1>1. /\ rows' = rows /\ Of(s).db = "seed" /\ sess[s].pc = "open" /\ k \in 0..12
      /\ \/ sess' = Failed(s, 500)
         \/ /\ ~Rejected(s, sess[s].added)
            /\ sess'[s].own = sess[s].own \cup sess[s].added
            /\ sess'[s].added = add /\ sess'[s].step = next
            /\ sess'[s].pc = IF next \in DOMAIN plan THEN "open" ELSE "commit"
  BY SeedStepEffect DEF ProgressInv
<1>2. CASE sess' = Failed(s, 500)
  <2>1. sess'[s].pc = "failed"
    BY <1>2 DEF Shape, Fields, Failed
  <2> QED
    BY <2>1 DEF ProgressInv
<1>3. CASE /\ ~Rejected(s, sess[s].added)
           /\ sess'[s].own = sess[s].own \cup sess[s].added
           /\ sess'[s].added = add /\ sess'[s].step = next
           /\ sess'[s].pc = IF next \in DOMAIN plan THEN "open" ELSE "commit"
  <2>1. There(s)' = own
    BY <1>1, <1>3 DEF There
  <2>2. NoClash(own)
    BY <1>3, FlushIsUnique DEF UniqueInv
  <2>3. \A p, q \in SlugRows(own) : p = q
    BY <2>2 DEF NoClash, SlugRows
  <2>4. there = own
    BY <1>1, SeedSees
  <2>5. DOMAIN plan = 1..12 /\ plan[1].key = Slug(Demo)
    BY SeedKeys
  <2>6. ASSUME NEW i \in 1..12
        PROVE  /\ plan[i].key = SeedPlan(t, None)[i].key
               /\ \E r \in plan[i].rows : plan[i].key \in r.keys
    BY SeedKeys
  <2>7. ASSUME k > 0
        PROVE  \E p \in SlugRows(own) : p.tenant = t /\ Complete(t, own, k)
    <3>1. CASE SlugRows(There(s)) # {}
      <4>1. PICK p \in SlugRows(There(s)) : p.tenant = t
        BY <1>1, <3>1, SeedSees
      <4>2. Complete(t, own, k)
        BY <1>1, <4>1 DEF ProgressInv
      <4> QED
        BY <4>1, <4>2 DEF SlugRows
    <3>2. CASE SlugRows(There(s)) = {}
      <4>1. t = Demo
        BY <1>1, <3>2, SeedSees
      <4>2. k = 1
        BY <1>1, <2>7, <3>2 DEF SeedInv
      <4>3. PICK p \in SlugRows(sess[s].added) : p.tenant = Demo
        BY <1>1, <3>2, <4>2 DEF SeedInv
      <4>4. p \in own /\ SeedPlan(t, None)[1].key \in p.keys
        BY <2>5, <2>6, <4>3 DEF SlugRows
      <4>5. Complete(t, own, k)
        BY <4>2, <4>4 DEF Complete
      <4> QED
        BY <4>1, <4>3, <4>5 DEF SlugRows
    <3> QED
      BY <3>1, <3>2
  <2>8. ASSUME next \in 1..12 PROVE \E r \in own \cup add : SeedPlan(t, None)[next].key \in r.keys
    <3>1. CASE found
      BY <2>4, <2>6, <2>8, <3>1
    <3>2. CASE ~found
      <4>1. add = plan[next].rows
        BY <2>5, <2>8, <3>2
      <4> QED
        BY <2>6, <2>8, <4>1
    <3> QED
      BY <3>1, <3>2
  <2>9. ASSUME k = 12 PROVE \E p \in SlugRows(own) : Complete(p.tenant, own, 12)
    BY <2>7, <2>9
  <2>10. ASSUME next \in 1..12, NEW p \in SlugRows(own)
         PROVE  Complete(p.tenant, own \cup add, next)
    <3>1. CASE k = 0
      <4>1. SeedPlan(p.tenant, None)[1].key = Slug(Demo)
        BY SeedKeys
      <4>2. p \in own \cup add /\ Slug(Demo) \in p.keys
        BY DEF SlugRows
      <4> HIDE DEF own, add
      <4> QED
        BY <3>1, <4>1, <4>2 DEF Complete
    <3>2. CASE k > 0
      <4>1. p.tenant = t /\ Complete(t, own, k)
        BY <2>3, <2>7, <3>2
      <4> HIDE DEF t, own, add
      <4> QED
        BY <1>1, <2>8, <2>10, <4>1 DEF Complete
    <3> QED
      BY <1>1, <3>1, <3>2
  <2>11. Of(s)' = Of(s)
    BY OnlyOwnSeen DEF Of
  <2>12. sess'[s].pc = IF next \in 1..12 THEN "open" ELSE "commit"
    BY <1>3, <2>5
  <2>13. sess'[s].added = add /\ sess'[s].step = next
    BY <1>3
  <2> HIDE DEF t, plan, there, found, add, own
  <2>14. next \in 1..12 \/ k = 12
    BY <1>1
  <2>15. CASE next \in 1..12
    <3>1. sess'[s].pc = "open" /\ sess'[s].step \in 0..12
      BY <2>12, <2>13, <2>15
    <3>2. \A p \in SlugRows(There(s)') : Complete(p.tenant, There(s)' \cup sess'[s].added, sess'[s].step)
      BY <2>1, <2>10, <2>13, <2>15
    <3> HIDE DEF next, k
    <3> QED
      BY <2>11, <3>1, <3>2 DEF ProgressInv
  <2>16. CASE next \notin 1..12
    BY <2>1, <2>9, <2>11, <2>12, <2>14, <2>16 DEF ProgressInv
  <2> QED
    BY <2>15, <2>16
<1> QED
  BY <1>1, <1>2, <1>3

LEMMA NotKeyed ==
    ASSUME Shape, NEW s \in Session,
           \/ Arrive(s) \/ PoolTimeout(s) \/ Begin(s) \/ Read(s) \/ Insert(s)
           \/ SeedStep(s) \/ SetActiveMode(s) \/ Fail(s) \/ CloseSession(s)
           \/ \E c \in Conn : OpenSession(s, c)
    PROVE  /\ sess'[s].pc # "key"
           /\ Of(s).db = "seed" /\ sess[s].pc # "running" =>
                sess'[s].pc \notin {"running", "commit"} \/ SeedStep(s)
<1>1. CASE Arrive(s) \/ PoolTimeout(s) \/ SetActiveMode(s)
  BY <1>1 DEF Shape, Fields, Arrive, PoolTimeout, SetActiveMode
<1>2. CASE \E status : sess' = Failed(s, status)
  BY <1>2 DEF Shape, Fields, Failed
<1>3. CASE Begin(s)
  <2>1. \/ \E status : sess' = Failed(s, status)
        \/ \E seen : sess' = [sess EXCEPT ![s].pc = "running", ![s].step = 1, ![s].seen = seen]
    BY <1>3, ZenonT(60) DEF Begin
  <2>2. CASE \E seen : sess' = [sess EXCEPT ![s].pc = "running", ![s].step = 1, ![s].seen = seen]
    <3>1. sess'[s].pc = "running"
      BY <2>2 DEF Shape, Fields
    <3> QED
      BY <1>3, <3>1 DEF Begin
  <2> QED
    BY <1>2, <2>1, <2>2
<1>4. CASE Read(s)
  <2>1. sess[s].pc = "running"
    BY <1>4 DEF Read
  <2>2. CASE \E seen, step, pc, reply :
             /\ sess' = [sess EXCEPT ![s].seen = seen, ![s].step = step,
                                     ![s].pc = pc, ![s].reply = reply]
             /\ pc \in {"commit", "running"}
    <3>1. sess'[s].pc \in {"commit", "running"}
      BY <2>2 DEF Shape, Fields
    <3> QED
      BY <2>1, <3>1
  <2>3. CASE sess' = Failed(s, 500)
    BY <1>2, <2>3
  <2> QED
    BY <1>4, <2>2, <2>3, ReadUpdates, Zenon
<1>5. CASE Insert(s) \/ SeedStep(s) \/ CloseSession(s)
  BY <1>5, InsertUpdates, SeedStepPc, CloseUpdates
<1>6. CASE Fail(s)
  <2> PICK status : sess' = Failed(s, status)
    BY <1>6 DEF Fail
  <2> QED
    BY <1>2
<1>7. CASE \E c \in Conn : OpenSession(s, c)
  <2> PICK c \in Conn : OpenSession(s, c)
    BY <1>7
  <2>1. sess' = [sess EXCEPT ![s].pc = "open", ![s].conn = c]
    BY DEF OpenSession
  <2> QED
    BY <2>1 DEF Shape, Fields
<1> QED
  BY <1>1, <1>3, <1>4, <1>5, <1>6, <1>7

\* Rows that others commit do not set a seed back: they cannot take its slug.
LEMMA OthersLetProgress ==
    ASSUME UniqueInv', NEW s \in Session, SeedInv(s), ProgressInv(s),
           rows \subseteq rows', sess'[s] = sess[s], Of(s)' = Of(s)
    PROVE  ProgressInv(s)'
<1>1. There(s) \subseteq There(s)'
  BY DEF There
<1>2. \A p, q \in SlugRows(There(s)') : p = q
  BY DEF UniqueInv, NoClash, SlugRows
<1>3. ASSUME Of(s).db = "seed", sess[s].pc = "open", NEW p \in SlugRows(There(s)')
      PROVE  Complete(p.tenant, There(s)' \cup sess[s].added, sess[s].step)
  <2>1. sess[s].step \in 0..12
    BY <1>3 DEF ProgressInv
  <2>2. CASE sess[s].step <= 1
    <3>1. SeedPlan(p.tenant, None)[1].key = Slug(Demo)
      BY SeedKeys
    <3>2. p \in There(s)' \cup sess[s].added /\ Slug(Demo) \in p.keys
      BY <1>3 DEF SlugRows
    <3> QED
      BY <2>1, <2>2, <3>1, <3>2 DEF Complete
  <2>3. CASE sess[s].step > 1
    <3>1. PICK q : q \in SlugRows(There(s))
      BY <1>3, <2>3 DEF SeedInv
    <3>2. q \in SlugRows(There(s)')
      BY <1>1, <3>1 DEF SlugRows
    <3>3. p = q
      BY <1>2, <1>3, <3>2
    <3>4. Complete(p.tenant, There(s) \cup sess[s].added, sess[s].step)
      BY <1>3, <3>1, <3>3 DEF ProgressInv
    <3>5. There(s) \cup sess[s].added \subseteq There(s)' \cup sess[s].added
      BY <1>1
    <3> QED
      BY <3>4, <3>5, CompleteGrows
  <2> QED
    BY <2>1, <2>2, <2>3
<1>4. ASSUME Of(s).db = "seed", sess[s].pc = "commit"
      PROVE  \E p \in SlugRows(There(s)') : Complete(p.tenant, There(s)', 12)
  <2>1. Seeded(There(s))
    BY <1>4 DEF ProgressInv, Seeded
  <2>2. Seeded(There(s)')
    BY <1>1, <2>1, SeededGrows
  <2> QED
    BY <2>2 DEF Seeded
<1> QED
  BY <1>3, <1>4 DEF ProgressInv

LEMMA ProgressKept ==
    ASSUME Shape, ContextInv, UniqueInv, UniqueInv', RefInv,
           \A o \in Session : ProgressInv(o), TenancyNext
    PROVE  \A o \in Session : ProgressInv(o)'
<1> PICK s \in Session :
      \/ Arrive(s) \/ PoolTimeout(s) \/ Begin(s) \/ Read(s) \/ Insert(s)
      \/ SeedStep(s) \/ Commit(s) \/ SetActiveMode(s) \/ Fail(s) \/ CloseSession(s)
      \/ \E c \in Conn : OpenSession(s, c)
  BY DEF TenancyNext
<1>1. /\ \A o \in Session : o # s => sess'[o] = sess[o]
      /\ sess'[s].call = sess[s].call
  BY OnlyOwnSeen
<1>2. \A o \in Session : Of(o)' = Of(o)
  BY <1>1 DEF Of
<1>3. rows \subseteq rows'
  BY RowsMove DEF Flushes
<1>4. ASSUME NEW o \in Session, o # s PROVE ProgressInv(o)'
  <2>1. SeedInv(o) /\ ProgressInv(o) /\ sess'[o] = sess[o] /\ Of(o)' = Of(o)
    BY <1>1, <1>2, <1>4 DEF RefInv
  <2> QED
    BY <1>3, <2>1, OthersLetProgress
<1>5. CASE SeedStep(s)
  BY <1>4, <1>5, SeedProgresses DEF RefInv
<1>6. CASE ~SeedStep(s)
  <2> SUFFICES ASSUME Of(s).db = "seed" PROVE ProgressInv(s)'
    BY <1>2, <1>4 DEF ProgressInv
  <2>1. SeedInv(s) /\ ProgressInv(s)
    BY DEF RefInv
  <2>2. sess'[s].pc \notin {"running", "commit"}
    <3>1. CASE Commit(s)
      BY <3>1, CommitUpdates
    <3>2. CASE ~Commit(s)
      BY <1>6, <2>1, <3>2, NotKeyed DEF ProgressInv
    <3> QED
      BY <3>1, <3>2
  <2>3. ASSUME sess'[s].pc = "open" PROVE sess'[s].step = 0
    BY <1>6, <2>1, <2>3, OthersRestSeed DEF SeedRests, SeedInv
  <2>4. \A t, R : Complete(t, R, 0)
    BY DEF Complete
  <2> QED
    BY <2>2, <2>3, <2>4 DEF ProgressInv
<1> QED
  BY <1>5, <1>6

LEMMA SeededKept ==
    ASSUME Shape, WriteInv, SeededInv, \A o \in Session : ProgressInv(o), TenancyNext
    PROVE  SeededInv'
<1> PICK s \in Session :
      \/ Arrive(s) \/ PoolTimeout(s) \/ Begin(s) \/ Read(s) \/ Insert(s)
      \/ SeedStep(s) \/ Commit(s) \/ SetActiveMode(s) \/ Fail(s) \/ CloseSession(s)
      \/ \E c \in Conn : OpenSession(s, c)
  BY DEF TenancyNext
<1>1. /\ \A o \in Session : o # s => sess'[o] = sess[o]
      /\ \A o \in Session : sess'[o].call = sess[o].call
  BY OnlyOwnSeen
<1>2. \A o \in Session : Of(o)' = Of(o)
  BY <1>1 DEF Of
<1>3. rows \subseteq rows'
  BY RowsMove DEF Flushes
<1>4. Seeded(rows) => Seeded(rows')
  BY <1>3, SeededGrows
<1>5. ASSUME Commit(s), Of(s).db = "seed" PROVE Seeded(rows')
  <2>1. rows' = There(s) /\ sess[s].pc = "commit"
    BY <1>5, CommitUpdates DEF There
  <2> QED
    BY <1>5, <2>1 DEF ProgressInv, Seeded
<1>6. ASSUME NEW r \in rows', r.by # None, (Of(r.by).db = "seed")' PROVE Seeded(rows')
  <2>1. CASE r \in rows
    <3>1. r.by \in Session
      BY <1>6, <2>1 DEF WriteInv, RowInv
    <3> QED
      BY <1>2, <1>4, <1>6, <2>1, <3>1 DEF SeededInv
  <2>2. CASE r \notin rows
    <3>1. Commit(s) /\ r \in sess[s].own
      BY <1>6, <2>2, RowsMove DEF Flushes
    <3>2. r.by = s
      BY <3>1 DEF WriteInv, OwnInv
    <3> QED
      BY <1>2, <1>5, <1>6, <3>1, <3>2
  <2> QED
    BY <2>1, <2>2
<1>7. ASSUME NEW o \in Session, sess'[o].pc = "key" PROVE Seeded(rows')
  <2>1. CASE o # s
    BY <1>1, <1>4, <1>7, <2>1 DEF SeededInv
  <2>2. CASE o = s
    <3>1. Commit(s)
      BY <1>7, <2>2, NotKeyed
    <3>2. Of(s).db = "seed"
      BY <1>7, <2>2, <3>1, CommitUpdates
    <3> QED
      BY <1>5, <3>1, <3>2
  <2> QED
    BY <2>1, <2>2
<1>8. ASSUME activeMode' # None PROVE Seeded(rows')
  <2>1. CASE SetActiveMode(s)
    <3>1. sess[s].pc = "key"
      BY <2>1 DEF SetActiveMode
    <3> QED
      BY <1>4, <3>1 DEF SeededInv
  <2>2. CASE ~SetActiveMode(s)
    <3>1. activeMode' = activeMode
      BY <2>2 DEF Arrive, PoolTimeout, Begin, Read, Insert, SeedStep, Commit, Fail,
                  CloseSession, OpenSession
    <3> QED
      BY <1>4, <1>8, <3>1 DEF SeededInv
  <2> QED
    BY <2>1, <2>2
<1> QED
  BY <1>6, <1>7, <1>8 DEF SeededInv

LEMMA InitSeeded ==
    ASSUME TenancyInit PROVE SeededInv /\ \A s \in Session : ProgressInv(s)
<1>1. PICK calls \in Scenarios : sess = [s \in Session |-> NewSession(calls[s])]
  BY DEF TenancyInit
<1>2. \A s \in Session : sess[s].pc = "idle"
  BY <1>1 DEF NewSession
<1>3. \A r \in rows : r.by = None
  BY TenancyAssumption DEF TenancyAssumption, TenancyInit
<1> QED
  BY <1>2, <1>3 DEF SeededInv, ProgressInv, TenancyInit

Seeding == Linked /\ SeededInv /\ \A s \in Session : ProgressInv(s)

LEMMA SeedingInvariant == TenancySpec => []Seeding
<1>1. TenancyInit => Seeding
  BY SoundInit, InitRefs, InitSeeded DEF Seeding, Linked
<1>2. Seeding /\ Linked' /\ [TenancyNext]_tenancyVars => Seeding'
  <2>1. ASSUME Seeding, Linked', TenancyNext PROVE Seeding'
    BY <2>1, ProgressKept, SeededKept DEF Seeding, Linked, Sound
  <2>2. ASSUME Seeding, Linked', UNCHANGED tenancyVars PROVE Seeding'
    <3>1. /\ rows' = rows /\ sess' = sess /\ activeMode' = activeMode
          /\ \A s \in Session : Of(s)' = Of(s) /\ There(s)' = There(s)
      BY <2>2 DEF Of, There, tenancyVars
    <3>2. \A r \in rows : r.by # None => r.by \in Session
      BY <2>2 DEF Seeding, Linked, Sound, WriteInv, RowInv
    <3> QED
      BY <2>2, <3>1, <3>2 DEF Seeding, SeededInv, ProgressInv
  <2> QED
    BY <2>1, <2>2
<1> QED
  BY <1>1, <1>2, LinkedInvariant, PTL DEF TenancySpec

\* The seed is there as a whole or not at all, however many run at a time and
\* whoever makes its tenant or its users first; the mode it makes active is there.
THEOREM SeedAllOrNothing == TenancySpec => []SeedIsWhole
<1>1. ASSUME Seeding, NEW u \in rows, Slug(Demo) \in u.keys, Seeded(rows)
      PROVE  Complete(u.tenant, rows, 12)
  <2> PICK p \in SlugRows(rows) : Complete(p.tenant, rows, 12)
    BY <1>1 DEF Seeded
  <2>1. p = u
    BY <1>1 DEF SlugRows, Seeding, Linked, UniqueInv, NoClash
  <2> QED
    BY <2>1
<1>2. ASSUME Seeding, NEW u \in rows, Slug(Demo) \in u.keys
      PROVE  LET plan  == SeedPlan(u.tenant, None)
                 there == { i \in DOMAIN plan : \E r \in rows : plan[i].key \in r.keys }
             IN  /\ \/ there = DOMAIN plan
                    \/ \A i \in there : \A r \in rows :
                          plan[i].key \in r.keys => r.by = None \/ Of(r.by).db # "seed"
                 /\ activeMode # None => there = DOMAIN plan
  <2> DEFINE plan  == SeedPlan(u.tenant, None)
             there == { i \in DOMAIN plan : \E r \in rows : plan[i].key \in r.keys }
  <2>1. DOMAIN plan = 1..12
    BY SeedKeys
  <2>2. CASE Seeded(rows)
    <3>1. there = DOMAIN plan
      BY <1>1, <1>2, <2>1, <2>2 DEF Complete
    <3> QED
      BY <3>1
  <2>3. CASE ~Seeded(rows)
    BY <1>2, <2>3 DEF Seeding, SeededInv
  <2> QED
    BY <2>2, <2>3
<1>3. Seeding => SeedIsWhole
  BY <1>2 DEF SeedIsWhole
<1> QED
  BY <1>3, SeedingInvariant, PTL

-----------------------------------------------------------------------------
(* Nobody waits for ever.  Only seeds hold rows while they wait, and they  *)
(* insert theirs in one order: of those that wait, the one that has come   *)
(* furthest waits for one that has come further.                           *)

\* The item of the plan a unique value of the seed's rows is of.
ItemOf(key) ==
    CASE key[1] \in {"tenants", "uq_tenants_slug"} -> 1
      [] key[1] = "markets" -> 2
      [] key[1] \in {"cameras", "uq_cameras_tenant_edge_device"} -> 3
      [] key[1] = "regions_of_interest" -> 4
      [] key[1] = "context_modes" -> 5
      [] key[1] \in { "context_mode_camera_assignments",
                      "uq_context_mode_camera_assignments_camera" } -> 6
      [] key[1] = "lenses" -> 7
      [] key[1] \in { "rules", "rule_region_mappings",
                      "uq_rule_region_mappings_rule_region" } -> 8
      [] key[1] = "tenant_users" -> IF key[2] = Demo THEN 9
                                    ELSE IF key[2] = << Demo, "admin" >> THEN 10 ELSE 11
      [] key[1] = "uq_tenant_users_subject_tenant" -> IF key[2] = "admin" THEN 10 ELSE 11
      [] key[1] = "notification_configs" -> 12

\* No two items of the plan share a unique value, whatever their tenants.
LEMMA ItemsApart ==
    ASSUME NEW t, NEW s, NEW i \in 1..12, NEW x \in SeedPlan(t, s)[i].rows, NEW key \in x.keys
    PROVE  ItemOf(key) = i
<1> DEFINE Has(r, n) == \A k \in r.keys : ItemOf(k) = n
           P(y, n) == \A r \in y.rows : Has(r, n)
           Plan == SeedPlan(t, s)
<1>1. ASSUME NEW n, NEW table, NEW name, NEW tenant, NEW refs, NEW u,
             ItemOf(<< table, name >>) = n, \A k \in u : ItemOf(k) = n, NEW new, NEW old,
             ItemOf(new) = n
      PROVE  LET row == Row(table, name, tenant, refs, u, s)
             IN  /\ Has(row, n)
                 /\ P(Missing(old, {row}), n)
                 /\ P(Missing(old, {[row EXCEPT !.keys = @ \cup {new}]}), n)
  <2> DEFINE row == Row(table, name, tenant, refs, u, s)
             kow == [row EXCEPT !.keys = @ \cup {new}]
  <2>1. row.keys = {<< table, name >>} \cup u
    BY RowFields
  <2>2. kow.keys = row.keys \cup {new}
    BY DEF Row
  <2> HIDE DEF row, kow
  <2>3. Has(row, n) /\ Has(kow, n)
    BY <1>1, <2>1, <2>2
  <2> QED
    BY <2>3 DEF Missing, row, kow
<1>2. ASSUME NEW n, NEW x1, NEW x2, NEW old, Has(x1, n), Has(x2, n)
      PROVE  P(Missing(old, {x1, x2}), n)
  BY <1>2 DEF Missing
<1>3. /\ ItemOf(<< "tenants", Demo >>) = 1 /\ ItemOf(Slug(Demo)) = 1
      /\ ItemOf(<< "markets", Demo >>) = 2
      /\ ItemOf(<< "cameras", Demo >>) = 3 /\ ItemOf(EdgeDevice(Demo, t)) = 3
      /\ ItemOf(<< "regions_of_interest", Demo >>) = 4
      /\ ItemOf(<< "context_modes", Demo >>) = 5
      /\ ItemOf(<< "context_mode_camera_assignments", Demo >>) = 6
      /\ ItemOf(Assigned(<< "cameras", Demo >>)) = 6
      /\ ItemOf(<< "lenses", Demo >>) = 7
  BY DEF ItemOf, Slug, EdgeDevice, Assigned
<1>4. /\ ItemOf(<< "rules", Demo >>) = 8 /\ ItemOf(<< "rule_region_mappings", Demo >>) = 8
      /\ ItemOf(Mapped(<< "rules", Demo >>, << "regions_of_interest", Demo >>)) = 8
      /\ ItemOf(<< "tenant_users", Demo >>) = 9
      /\ ItemOf(Subject("admin", t)) = 10 /\ ItemOf(Subject("watcher", t)) = 11
      /\ ItemOf(<< "notification_configs", Demo >>) = 12
  BY DEF ItemOf, Mapped, Subject
<1>5. /\ ItemOf(<< "tenant_users", << Demo, "admin" >> >>) = 10
      /\ ItemOf(<< "tenant_users", << Demo, "watcher" >> >>) = 11
  <2>1. Demo # << Demo, "admin" >> /\ Demo # << Demo, "watcher" >>
    BY TenancyAssumption DEF TenancyAssumption
  <2>2. << Demo, "admin" >> # << Demo, "watcher" >>
    OBVIOUS
  <2> QED
    BY <2>1, <2>2 DEF ItemOf
<1> HIDE DEF P, Has
<1> USE <1>1, <1>2, <1>3, <1>4, <1>5
<1>6. P(Plan[1], 1)
  BY DEF SeedPlan
<1>7. P(Plan[2], 2)
  BY DEF SeedPlan
<1>8. P(Plan[3], 3)
  BY DEF SeedPlan
<1>9. P(Plan[4], 4)
  BY DEF SeedPlan
<1>10. P(Plan[5], 5)
  BY DEF SeedPlan
<1>11. P(Plan[6], 6)
  BY DEF SeedPlan
<1>12. P(Plan[7], 7)
  BY DEF SeedPlan
<1>13. P(Plan[8], 8)
  BY DEF SeedPlan
<1>14. P(Plan[9], 9)
  BY DEF SeedPlan
<1>15. P(Plan[10], 10)
  BY DEF SeedPlan
<1>16. P(Plan[11], 11)
  BY DEF SeedPlan
<1>17. P(Plan[12], 12)
  BY DEF SeedPlan
<1> HIDE DEF Plan
<1>18. P(Plan[i], i)
  BY <1>6, <1>7, <1>8, <1>9, <1>10, <1>11, <1>12, <1>13, <1>14, <1>15, <1>16, <1>17
<1> QED
  BY <1>18 DEF P, Has, Plan

\* A session with rows is not gone; a seed's are those of the items before its
\* step, and what it adds is of the item at its step.
QueueInv(s) ==
    /\ sess[s].own # {} => sess[s].pc # "done"
    /\ Of(s).db = "seed" =>
        /\ sess[s].step \in 0..13
        /\ \A x \in sess[s].added : \A key \in x.keys :
               ItemOf(key) \in 1..12 /\ ItemOf(key) = sess[s].step
        /\ \A x \in sess[s].own : \A key \in x.keys :
               ItemOf(key) \in 1..12 /\ ItemOf(key) < sess[s].step

LEMMA StepStays ==
    ASSUME Shape, NEW s \in Session,
           \/ Arrive(s) \/ PoolTimeout(s) \/ Insert(s) \/ Commit(s) \/ SetActiveMode(s)
           \/ Fail(s) \/ CloseSession(s) \/ \E c \in Conn : OpenSession(s, c)
    PROVE  /\ sess'[s].step = sess[s].step
           /\ sess'[s].added \in {sess[s].added, {}}
           /\ sess'[s].pc = "done" => sess[s].pc \in {"idle", "waiting"} \/ sess'[s].own = {}
<1>1. CASE Arrive(s)
  BY <1>1 DEF Shape, Fields, Arrive
<1>2. CASE PoolTimeout(s) \/ SetActiveMode(s)
  BY <1>2 DEF Shape, Fields, PoolTimeout, SetActiveMode
<1>3. CASE Insert(s)
  <2>1. \/ sess' = Failed(s, 500)
        \/ sess' = [Failed(s, 400) EXCEPT ![s].own = @ \cup NewRows(s)]
        \/ sess' = [sess EXCEPT ![s].own = @ \cup NewRows(s), ![s].reply = 201,
                                ![s].pc = "commit"]
    BY <1>3, ZenonT(60) DEF Insert
  <2> QED
    BY <2>1 DEF Shape, Fields, Failed
<1>4. CASE Commit(s)
  BY <1>4 DEF Shape, Fields, Commit
<1>5. CASE CloseSession(s)
  BY <1>5 DEF Shape, Fields, CloseSession
<1>6. CASE Fail(s)
  <2> PICK status : sess' = Failed(s, status)
    BY <1>6 DEF Fail
  <2> QED
    BY DEF Shape, Fields, Failed
<1>7. CASE \E c \in Conn : OpenSession(s, c)
  <2> PICK c \in Conn : OpenSession(s, c)
    BY <1>7
  <2>1. sess' = [sess EXCEPT ![s].pc = "open", ![s].conn = c]
    BY DEF OpenSession
  <2> QED
    BY <2>1 DEF Shape, Fields
<1> QED
  BY <1>1, <1>2, <1>3, <1>4, <1>5, <1>6, <1>7

LEMMA SeedQueues ==
    ASSUME Shape, NEW s \in Session, QueueInv(s), ProgressInv(s), SeedStep(s)
    PROVE  QueueInv(s)'
<1> DEFINE plan == SeedPlan(SeedTenant(s), s)
           next == sess[s].step + 1
<1>1. /\ Of(s).db = "seed" /\ sess[s].pc = "open"
      /\ \/ sess' = Failed(s, 500)
         \/ /\ sess'[s].own = sess[s].own \cup sess[s].added /\ sess'[s].step = next
            /\ sess'[s].pc \in {"open", "commit"}
            /\ \/ sess'[s].added = {}
               \/ next \in DOMAIN plan /\ sess'[s].added = plan[next].rows
  BY SeedStepEffect
<1>2. Of(s)' = Of(s)
  BY OnlyOwnSeen DEF Of
<1>3. sess[s].step \in 0..12 /\ DOMAIN plan = 1..12
  BY <1>1, SeedKeys DEF ProgressInv
<1>4. \A x \in sess[s].added : \A key \in x.keys :
          ItemOf(key) \in 1..12 /\ ItemOf(key) = sess[s].step
  BY <1>1 DEF QueueInv
<1>5. CASE sess' = Failed(s, 500)
  <2>1. /\ sess'[s].own = sess[s].own /\ sess'[s].added = sess[s].added
        /\ sess'[s].step = sess[s].step /\ sess'[s].pc = "failed"
    BY <1>5 DEF Shape, Fields, Failed
  <2> QED
    BY <1>1, <1>2, <2>1 DEF QueueInv
<1>6. CASE /\ sess'[s].own = sess[s].own \cup sess[s].added /\ sess'[s].step = next
           /\ sess'[s].pc \in {"open", "commit"}
           /\ \/ sess'[s].added = {}
              \/ next \in DOMAIN plan /\ sess'[s].added = plan[next].rows
  <2>1. \A x \in sess'[s].added : \A key \in x.keys :
            ItemOf(key) \in 1..12 /\ ItemOf(key) = next
    BY <1>3, <1>6, ItemsApart
  <2>2. ASSUME NEW x \in sess'[s].own, NEW key \in x.keys
        PROVE  ItemOf(key) \in 1..12 /\ ItemOf(key) < next
    <3>1. CASE x \in sess[s].own
      BY <1>1, <1>3, <2>2, <3>1 DEF QueueInv
    <3>2. CASE x \in sess[s].added
      <4>1. ItemOf(key) \in 1..12 /\ ItemOf(key) = sess[s].step
        BY <1>4, <2>2, <3>2
      <4> QED
        BY <1>3, <4>1
    <3> QED
      BY <1>6, <2>2, <3>1, <3>2
  <2>3. next \in 0..13
    BY <1>3
  <2> HIDE DEF next
  <2> QED
    BY <1>2, <1>6, <2>1, <2>2, <2>3 DEF QueueInv
<1> QED
  BY <1>1, <1>5, <1>6

LEMMA QueuesKept ==
    ASSUME Shape, WriteInv, \A o \in Session : ProgressInv(o) /\ QueueInv(o), TenancyNext
    PROVE  \A o \in Session : QueueInv(o)'
<1> PICK s \in Session :
      \/ Arrive(s) \/ PoolTimeout(s) \/ Begin(s) \/ Read(s) \/ Insert(s)
      \/ SeedStep(s) \/ Commit(s) \/ SetActiveMode(s) \/ Fail(s) \/ CloseSession(s)
      \/ \E c \in Conn : OpenSession(s, c)
  BY DEF TenancyNext
<1>1. /\ \A o \in Session : o # s => sess'[o] = sess[o]
      /\ sess'[s].call = sess[s].call
  BY OnlyOwnSeen
<1>2. \A o \in Session : Of(o)' = Of(o)
  BY <1>1 DEF Of
<1>3. ASSUME NEW o \in Session, o # s PROVE QueueInv(o)'
  BY <1>1, <1>2, <1>3 DEF QueueInv
<1>4. CASE SeedStep(s)
  BY <1>3, <1>4, SeedQueues
<1>5. CASE Begin(s) \/ Read(s)
  <2>1. sess'[s].own = sess[s].own /\ sess[s].pc \in {"open", "running"}
    BY <1>5, EarlySteps DEF Begin, Read
  <2>2. Of(s).db # "seed"
    BY <1>5 DEF Begin, Read, ProgressInv
  <2>3. sess[s].own = {}
    BY <2>1, <2>2 DEF WriteInv, OwnInv
  <2> QED
    BY <1>2, <1>3, <2>1, <2>2, <2>3 DEF QueueInv
<1>6. CASE \/ Arrive(s) \/ PoolTimeout(s) \/ Insert(s) \/ Commit(s) \/ SetActiveMode(s)
           \/ Fail(s) \/ CloseSession(s) \/ \E c \in Conn : OpenSession(s, c)
  <2>1. /\ sess'[s].step = sess[s].step
        /\ sess'[s].added \in {sess[s].added, {}}
        /\ sess'[s].pc = "done" => sess[s].pc \in {"idle", "waiting"} \/ sess'[s].own = {}
    BY <1>6, StepStays
  <2>2. CASE Insert(s)
    <3>1. Of(s).db # "seed" /\ sess'[s].pc \in {"commit", "failed"}
      BY <2>2, InsertUpdates DEF ProgressInv
    <3> QED
      BY <1>2, <1>3, <3>1 DEF QueueInv
  <2>3. CASE ~Insert(s)
    <3>1. sess'[s].own \in {sess[s].own, {}}
      BY <1>6, <2>3, EarlySteps, CommitUpdates, CloseUpdates
    <3>2. sess[s].pc \in {"idle", "waiting"} => sess[s].own = {}
      BY DEF WriteInv, OwnInv
    <3> QED
      BY <1>2, <1>3, <2>1, <3>1, <3>2 DEF QueueInv
  <2> QED
    BY <2>2, <2>3
<1> QED
  BY <1>4, <1>5, <1>6

LEMMA InitQueues == ASSUME TenancyInit PROVE \A s \in Session : QueueInv(s)
<1>1. PICK calls \in Scenarios : sess = [s \in Session |-> NewSession(calls[s])]
  BY DEF TenancyInit
<1>2. \A s \in Session : sess[s].own = {} /\ sess[s].added = {} /\ sess[s].step = 0
  BY <1>1 DEF NewSession
<1> QED
  BY <1>2 DEF QueueInv

Queueing == Seeding /\ \A s \in Session : QueueInv(s)

LEMMA QueueingInvariant == TenancySpec => []Queueing
<1>1. TenancyInit => Queueing
  BY SoundInit, InitRefs, InitSeeded, InitQueues DEF Queueing, Seeding, Linked
<1>2. Queueing /\ Seeding' /\ [TenancyNext]_tenancyVars => Queueing'
  <2>1. ASSUME Queueing, Seeding', TenancyNext PROVE Queueing'
    BY <2>1, QueuesKept DEF Queueing, Seeding, Linked, Sound
  <2>2. ASSUME Queueing, Seeding', UNCHANGED tenancyVars PROVE Queueing'
    <3>1. sess' = sess /\ \A s \in Session : Of(s)' = Of(s)
      BY <2>2 DEF Of, tenancyVars
    <3> QED
      BY <2>2, <3>1 DEF Queueing, QueueInv
  <2> QED
    BY <2>1, <2>2
<1> QED
  BY <1>1, <1>2, SeedingInvariant, PTL DEF TenancySpec

Live(s) == sess[s].pc \notin {"idle", "done"}

GoesOn(s) ==
    CASE Of(s).db = "seed" -> ~Waits(s, sess[s].added)
      [] sess[s].pc = "running" /\ Of(s).inserts # None -> ~Waits(s, NewRows(s))
      [] OTHER -> TRUE

StuckSeed(s) == Of(s).db = "seed" /\ Live(s) /\ ~GoesOn(s)

\* Whoever a session waits for is a seed, if nobody goes on.
LEMMA HolderIsSeed ==
    ASSUME Queueing, \A o \in Session : Live(o) => ~GoesOn(o),
           NEW o \in Session, sess[o].own # {}
    PROVE  StuckSeed(o)
<1>1. Live(o)
  BY DEF Queueing, Seeding, Linked, Sound, WriteInv, OwnInv, QueueInv, Live
<1>2. CASE Of(o).db # "seed"
  <2>1. sess[o].pc # "running"
    BY <1>2 DEF Queueing, Seeding, Linked, Sound, WriteInv, OwnInv
  <2>2. GoesOn(o)
    BY <1>2, <2>1 DEF GoesOn
  <2> QED
    BY <1>1, <2>2
<1> QED
  BY <1>1, <1>2 DEF StuckSeed

LEMMA WaitsForFurther ==
    ASSUME Queueing, \A o \in Session : Live(o) => ~GoesOn(o), NEW s \in Session, StuckSeed(s)
    PROVE  \E o \in Session : StuckSeed(o) /\ sess[o].step > sess[s].step
<1>1. Waits(s, sess[s].added)
  <2>1. Of(s).db = "seed" /\ sess[s].pc # "running" /\ ~GoesOn(s)
    BY DEF StuckSeed, Queueing, Seeding, ProgressInv
  <2> QED
    BY <2>1 DEF GoesOn
<1>2. PICK o \in Session : Collide(sess[s].added, sess[o].own)
  BY <1>1 DEF Waits
<1> PICK x \in sess[s].added, y \in sess[o].own : x.keys \cap y.keys # {}
  BY <1>2 DEF Collide
<1>3. StuckSeed(o)
  BY <1>2, HolderIsSeed
<1>4. PICK key \in x.keys : key \in y.keys
  OBVIOUS
<1>5. ItemOf(key) = sess[s].step
  BY <1>2, <1>4 DEF StuckSeed, Queueing, QueueInv
<1>6. ItemOf(key) \in 1..12 /\ ItemOf(key) < sess[o].step /\ sess[o].step \in 0..13
  BY <1>2, <1>3, <1>4 DEF StuckSeed, Queueing, QueueInv
<1> QED
  BY <1>3, <1>5, <1>6

\* Sessions that wait for each other's rows never wait in a circle, nor for one
\* that is gone: as long as some have not ended, one of them can go on.
THEOREM SomebodyGoesOn == TenancySpec => []NobodyStuck
<1>1. ASSUME Queueing, \A o \in Session : Live(o) => ~GoesOn(o), NEW s \in Session, Live(s)
      PROVE  FALSE
  <2> DEFINE Reached(k) == \E o \in Session : StuckSeed(o) /\ sess[o].step >= k
  <2>1. \E o \in Session : StuckSeed(o)
    <3>1. CASE Of(s).db = "seed"
      BY <1>1, <3>1 DEF StuckSeed
    <3>2. CASE Of(s).db # "seed"
      <4>1. sess[s].pc = "running" /\ Waits(s, NewRows(s))
        BY <1>1, <3>2 DEF GoesOn
      <4>2. PICK o \in Session : sess[o].own # {}
        BY <4>1 DEF Waits, Collide
      <4> QED
        BY <1>1, <4>2, HolderIsSeed
    <3> QED
      BY <3>1, <3>2
  <2>2. \A o \in Session : StuckSeed(o) => sess[o].step \in 0..13
    BY <1>1 DEF StuckSeed, Queueing, QueueInv
  <2>3. Reached(0)
    BY <2>1, <2>2
  <2>4. \A k \in 0..13 : Reached(k) => Reached(k + 1)
    BY <1>1, <2>2, WaitsForFurther
  <2>5. ~Reached(14)
    BY <2>2
  <2> HIDE DEF Reached
  <2>6. Reached(7)
    BY <2>3, <2>4
  <2>7. Reached(14)
    BY <2>4, <2>6
  <2> QED
    BY <2>5, <2>7
<1>2. Queueing => NobodyStuck
  BY <1>1 DEF NobodyStuck, Live, GoesOn
<1> QED
  BY <1>2, QueueingInvariant, PTL

=============================================================================
