------------------------------- MODULE Tenancy ------------------------------
(***************************************************************************)
(* Requests, jobs and seed scripts on one database: how each gets a        *)
(* connection, runs under the settings its row policies read, and ends     *)
(* (services/database.py, api/deps.py, api/admin, scripts/seed.py).        *)
(*                                                                         *)
(* A session runs one call.  Its statements see what is committed when     *)
(* they run (READ COMMITTED) and what it inserted itself; that becomes     *)
(* visible to others at its COMMIT.  An INSERT waits while another         *)
(* transaction has inserted the same unique value, and fails if that one   *)
(* commits.  The gets of a handler, and likewise its INSERTs, are one step:*)
(* rows only ever appear, so what several gets find is what they would     *)
(* find at the moment of the last one, or of the first that finds nothing. *)
(***************************************************************************)
EXTENDS Endpoints, Integers

CONSTANTS
    Session,        \* request handlers, jobs and seed scripts
    Conn,           \* database connections
    PoolOf,         \* the connections of a session's process
    Scenarios,      \* the calls that arrive together, one for each session
    InitialRows,    \* what is in the database at the beginning
    Demo            \* the seed's tenant, and the name of each of its rows

ASSUME TenancyAssumption ==
    /\ PoolOf \in [Session -> SUBSET Conn]
    /\ \A calls \in Scenarios :
          DOMAIN calls = Session /\ \A s \in Session : calls[s].endpoint \in DOMAIN Endpoint
    /\ \A r \in InitialRows : r.by = None
    /\ None \notin Conn \cup Session /\ None \notin 200..599
    /\ Demo \notin Session
    /\ \A name \in {"admin", "watcher"} : Demo # << Demo, name >>

\* Tables whose new rows are made of what the session has read.
Assembled == {"notification_deliveries", "decisions"}

\* The body and the path of a request, and the message of an analysis, name the
\* parents of the row it adds, those of a rule also its regions.  A notification
\* is about one decision, an aggregation about one evidence and perhaps the
\* decision that its open key holds while the window lasts.
ASSUME CallAssumption ==
    \A calls \in Scenarios, s \in Session :
        LET call  == calls[s]
            table == Endpoint[call.endpoint].inserts
        IN  /\ \A id, other \in call.refs : id[1] = other[1] => id = other
            /\ table = "notification_deliveries" =>
                   \A id \in call.refs : id[1] = "decisions"
            /\ table \notin Assembled \cup {None} =>
                   /\ \A id \in call.refs : id[1] \in Parents[table] \ {"tenants"}
                   /\ DOMAIN call.regions \subseteq IF table = "rules" THEN Nat \ {0} ELSE {}
                   /\ \A i \in DOMAIN call.regions : call.regions[i][1] = "regions_of_interest"

\* References nobody compares with the tenant.  create_schedule takes its market
\* from the body; the camera and the region of an evidence come with the ingest
\* body, the camera compared with the claim of the token alone and the region
\* with nothing; and a decision has those of its evidence.
Unchecked ==
    { << "context_mode_schedules", "markets" >> }
    \cup {"evidences", "decisions"} \X {"cameras", "regions_of_interest"}

\* The schema held at the beginning, and references stayed within tenants
\* except for those that are unchecked.
ASSUME InitialRowsAssumption ==
    /\ \A r \in InitialRows :
          /\ r.table \in DOMAIN Parents /\ r.id[1] = r.table /\ r.id \in r.keys
          /\ r.table = "tenants" => r.id = << "tenants", r.tenant >>
          /\ \A ref \in r.refs :
                /\ ref[1] \in Parents[r.table]
                /\ \E p \in InitialRows :
                      /\ p.id = ref
                      /\ p.tenant = r.tenant \/ << r.table, p.table >> \in Unchecked
          /\ r.id[2] = Demo /\ r.table # "tenant_users" =>
                \E p \in InitialRows : Slug(Demo) \in p.keys /\ p.tenant = r.tenant
    /\ \A r \in InitialRows : ~Collide({r}, InitialRows \ {r})

VARIABLES
    rows,        \* committed rows
    settings,    \* app.current_tenant_id and app.current_role of a connection
    sess,        \* each session: its call, connection, rows and reply
    activeMode   \* the active-mode key of the seed's camera

tenancyVars == << rows, settings, sess, activeMode >>

\* own: inserted, not committed; added: added to the session, not flushed;
\* seen: what its SELECTs have returned.
NewSession(call) ==
    [ pc |-> "idle", call |-> call, auth |-> Refused(401), conn |-> None,
      step |-> 0, own |-> {}, added |-> {}, seen |-> {}, reply |-> None ]

TenancyInit ==
    /\ rows = InitialRows
    /\ settings = [c \in Conn |-> NoContext]
    /\ \E calls \in Scenarios : sess = [s \in Session |-> NewSession(calls[s])]
    /\ activeMode = None

-----------------------------------------------------------------------------
(* Connections and their settings.                                         *)

Of(s)     == Endpoint[sess[s].call.endpoint]
Tenant(s) == sess[s].call.tenant
Here(s)   == settings[sess[s].conn]

Visible(s) == { r \in rows \cup sess[s].own : CanSee(Here(s), r) }

\* Mutant: root reads under a path as root.
ContextOfRootKept(s) ==
    CASE Of(s).db = "tenant"     -> [ tenant |-> sess[s].auth.tenant,
                                      role   |-> sess[s].auth.role ]
      [] Of(s).db = "tenant_job" -> [tenant |-> Tenant(s), role |-> "tenant_admin"]
      [] OTHER                   -> [tenant |-> None, role |-> "root_admin"]

\* Whose rows a session may touch: get_tenant_db makes root an administrator
\* of the tenant in the path.
ContextOf(s) ==
    LET auth == sess[s].auth
    IN  CASE Of(s).db = "tenant" ->
                 IF auth.role = "root_admin"
                 THEN [tenant |-> Tenant(s), role |-> "tenant_admin"]
                 ELSE [tenant |-> auth.tenant, role |-> auth.role]
          [] Of(s).db = "tenant_job" -> [tenant |-> Tenant(s), role |-> "tenant_admin"]
          [] OTHER -> [tenant |-> None, role |-> "root_admin"]

\* set_session_context sets what it is given and leaves the rest as it was.
SetSessionContext(old, context) ==
    [ tenant |-> IF context.tenant = None THEN old.tenant ELSE context.tenant,
      role   |-> IF context.role = None THEN old.role ELSE context.role ]

\* Mutant: set_config(..., false), which outlives the transaction.
AfterTransactionKept(context) == context

\* set_config(..., true): COMMIT and ROLLBACK take the settings away.
AfterTransaction(context) == NoContext

Free(c) == \A s \in Session : sess[s].conn # c

\* What a request is before it gets a session: its authentication, and the
\* dependencies get_tenant_db and get_root_admin_db have themselves.
Admission(call) ==
    LET db   == Endpoint[call.endpoint].db
        auth == AuthContextFromToken(call.token)
        Only(allowed) == IF auth.status = 200 /\ ~allowed THEN Refused(403) ELSE auth
    IN  CASE db = "none"   -> EdgeAuthContext(call.token)
          [] db = "tenant" -> Only(TenantAccess(auth, call.tenant))
          [] db = "root"   -> Only(HasRole(auth, {"root_admin"}))
          [] OTHER         -> [status |-> 200, role |-> None, tenant |-> None]

\* What starts a job in the course of others: the two sessions of an analysis
\* share a message, and an aggregation is sent off once its evidence is committed.
HandedOn(s) ==
    LET call == sess[s].call
    IN  CASE call.endpoint = "store_evidence" ->
                 \E o \in Session :
                     /\ sess[o].call.endpoint = "analyze_message"
                     /\ sess[o].call.tenant = call.tenant /\ sess[o].call.refs = call.refs
                     /\ sess[o].pc = "done" /\ sess[o].reply = 200
          [] call.endpoint = "aggregate_evidence" ->
                 \E e \in rows : /\ e.table = "evidences" /\ e.id \in call.refs
                                 /\ e.tenant = call.tenant
          [] OTHER -> TRUE

Arrive(s) ==
    /\ sess[s].pc = "idle" /\ HandedOn(s)
    /\ LET auth == Admission(sess[s].call)
           goesOn == auth.status = 200 /\ Of(s).db # "none"
       IN  sess' = [sess EXCEPT ![s].auth = auth,
                                ![s].pc = IF goesOn THEN "waiting" ELSE "done",
                                ![s].reply = IF goesOn THEN None ELSE auth.status]
    /\ UNCHANGED << rows, settings, activeMode >>

OpenSession(s, c) ==
    /\ sess[s].pc = "waiting"
    /\ c \in PoolOf[s] /\ Free(c)
    /\ settings' = [settings EXCEPT ![c] = SetSessionContext(@, ContextOf(s))]
    /\ sess' = [sess EXCEPT ![s].pc = "open", ![s].conn = c]
    /\ UNCHANGED << rows, activeMode >>

\* No connection of the pool came free in time.
PoolTimeout(s) ==
    /\ sess[s].pc = "waiting"
    /\ \A c \in PoolOf[s] : ~Free(c)
    /\ sess' = [sess EXCEPT ![s].pc = "done", ![s].reply = 500]
    /\ UNCHANGED << rows, settings, activeMode >>

-----------------------------------------------------------------------------
(* Handlers.                                                               *)

Failed(s, status) == [sess EXCEPT ![s].pc = "failed", ![s].reply = status]

\* session.get of an id, and the comparison of the row's tenant with the path.
Loaded(s, id) ==
    { r \in Visible(s) : r.id = id /\ (r.table \in Of(s).checks => r.tenant = Tenant(s)) }

\* require_role, and the rows the handler gets first.
Begin(s) ==
    /\ sess[s].pc = "open" /\ Of(s).db # "seed"
    /\ LET asked == { id \in sess[s].call.refs : id[1] \in Of(s).loads }
       IN  sess' = IF Of(s).roles # {} /\ ~HasRole(sess[s].auth, Of(s).roles)
                   THEN Failed(s, 403)
                   ELSE IF \E id \in asked : Loaded(s, id) = {}
                   THEN Failed(s, 404)
                   ELSE [sess EXCEPT ![s].pc = "running", ![s].step = 1,
                                     ![s].seen = UNION { Loaded(s, id) : id \in asked }]
    /\ UNCHANGED << rows, settings, activeMode >>

Selected(s, query) ==
    { r \in Visible(s) :
        /\ r.table = query.table
        /\ query.which = "asked" => r.id \in sess[s].call.refs
        /\ query.which \in {"of", "some"} =>
               r.refs \cap (sess[s].call.refs \cup Ids(sess[s].seen)) # {}
        /\ query.which = "parent" => \E x \in sess[s].seen : r.id \in x.refs
        /\ query.which = "tenant" => \E p \in sess[s].seen : p.tenant = r.tenant }

\* The next SELECT of the handler; after the last one there may be INSERTs.
Read(s) ==
    /\ sess[s].pc = "running" /\ sess[s].step \in DOMAIN Of(s).scan
    /\ LET query == Of(s).scan[sess[s].step]
           found == Selected(s, query)
           last  == sess[s].step = Len(Of(s).scan) /\ Of(s).inserts = None
       IN  sess' = IF query.which = "some" /\ found = {}
                   THEN Failed(s, 500)
                   ELSE [sess EXCEPT ![s].seen = @ \cup found, ![s].step = @ + 1,
                                     ![s].pc = IF last THEN "commit" ELSE "running",
                                     ![s].reply = IF last THEN 200 ELSE None]
    /\ UNCHANGED << rows, settings, activeMode >>

UniqueOf(table, key, tenant) ==
    CASE table = "tenants"      -> {Slug(key)}
      [] table = "tenant_users" -> {Subject(key, tenant)}
      [] table = "cameras"      -> {EdgeDevice(key, tenant)}
      [] table = "evidences"    -> {Ingested(key, tenant)}
      [] OTHER                  -> {}

\* A row whose server-side id is new, which the session stands for; a new
\* tenant is its own tenant.
Created(s) ==
    LET table == Of(s).inserts
        owner == IF table = "tenants" THEN s ELSE Tenant(s)
    IN  Row(table, s, owner, sess[s].call.refs,
            UniqueOf(table, sess[s].call.key, owner), s)

\* Mutant: the regions of a rule are taken as they are.
RegionTaken(s, id) == id[1] = "regions_of_interest"

\* create_rule gets each region of the body and stops at the first bad one.
RegionFound(s, id) == \E r \in Visible(s) : r.id = id /\ r.tenant = Tenant(s)

GoodRegions(s) ==
    LET regions == sess[s].call.regions
    IN  { i \in DOMAIN regions : \A j \in 1..i : RegionFound(s, regions[j]) }

MappingsOf(s) ==
    LET regions == sess[s].call.regions
        rule    == << "rules", s >>
    IN  { Row("rule_region_mappings", << s, i >>, Tenant(s), {rule, regions[i]},
              {Mapped(rule, regions[i])}, s) : i \in GoodRegions(s) }

Seen(s, table) == { r \in sess[s].seen : r.table = table }

\* One delivery for each configuration of the decision's tenant.
DeliveriesOf(s) ==
    { Row("notification_deliveries", << s, c.id >>, d.tenant, {d.id, c.id}, {}, s) :
        d \in Seen(s, "decisions"), c \in Seen(s, "notification_configs") }

\* The evidence that is to be aggregated, among others of its decision.
Aggregated(s) == { e \in Seen(s, "evidences") : e.id \in sess[s].call.refs }

\* _create_decision, when the open decision was not found.
NewDecision(s) ==
    { Row("decisions", s, e.tenant,
          { id \in e.refs : id[1] \in {"cameras", "regions_of_interest"} }, {}, s) :
        e \in { x \in Aggregated(s) : Seen(s, "decisions") = {} } }

\* _link_evidence: the primary key of a link is its decision and its evidence.
LinksOf(s) ==
    { Row("decision_evidences", << d.id, e.id >>, e.tenant, {d.id, e.id}, {}, s) :
        d \in Seen(s, "decisions") \cup NewDecision(s), e \in Aggregated(s) }

MergedOf(s) ==
    NewDecision(s) \cup { x \in LinksOf(s) : x.id \notin Ids(sess[s].seen) }

NewRows(s) ==
    CASE Of(s).inserts = "notification_deliveries" -> DeliveriesOf(s)
      [] Of(s).inserts = "decisions"               -> MergedOf(s)
      [] OTHER                                     -> {Created(s)} \cup MappingsOf(s)

Waits(s, new) == \E o \in Session \ {s} : Collide(new, sess[o].own)

Rejected(s, new) ==
    LET there == rows \cup sess[s].own
    IN  \/ Collide(new, there)
        \/ \E x \in new : Collide({x}, new \ {x})
        \/ ~ForeignKeysHold(new, there \cup new)
        \/ \E x \in new : ~CanInsert(Here(s), x)

Insert(s) ==
    /\ sess[s].pc = "running" /\ Of(s).inserts # None
    /\ sess[s].step = Len(Of(s).scan) + 1
    /\ LET new == NewRows(s)
       IN  /\ ~Waits(s, new)
           /\ sess' = IF Rejected(s, new)
                      THEN Failed(s, 500)
                      ELSE IF GoodRegions(s) # DOMAIN sess[s].call.regions
                      THEN [Failed(s, 400) EXCEPT ![s].own = @ \cup new]
                      ELSE [sess EXCEPT ![s].own = @ \cup new, ![s].reply = 201,
                                        ![s].pc = "commit"]
    /\ UNCHANGED << rows, settings, activeMode >>

-----------------------------------------------------------------------------
(* The end of a session.                                                   *)

\* get_db and tenant_session commit and give the connection back.  The seed
\* and the notifier commit themselves and keep it a little longer.
Commit(s) ==
    /\ sess[s].pc = "commit"
    /\ rows' = rows \cup sess[s].own
    /\ settings' = [settings EXCEPT ![sess[s].conn] = AfterTransaction(@)]
    /\ sess' = [sess EXCEPT
                   ![s].own = {},
                   ![s].pc = CASE Of(s).db = "seed" -> "key"
                               [] sess[s].call.endpoint = "notify_warning" -> "leaving"
                               [] OTHER -> "done",
                   ![s].conn = IF \/ Of(s).db = "seed"
                                  \/ sess[s].call.endpoint = "notify_warning"
                               THEN @ ELSE None]
    /\ UNCHANGED activeMode

\* Any statement, the COMMIT included, may fail; the reply of a request may
\* have been sent before its COMMIT.
Fail(s) ==
    /\ sess[s].pc \in {"open", "running", "commit", "key"}
    /\ \E status \in {500} \cup IF sess[s].pc = "commit" THEN {sess[s].reply} ELSE {} :
           sess' = Failed(s, status)
    /\ UNCHANGED << rows, settings, activeMode >>

\* Mutant: get_db commits in a finally block.
CloseSessionCommits(s) ==
    /\ sess[s].pc \in {"failed", "leaving"}
    /\ rows' = rows \cup sess[s].own
    /\ settings' = [settings EXCEPT ![sess[s].conn] = AfterTransaction(@)]
    /\ sess' = [sess EXCEPT ![s].own = {}, ![s].added = {}, ![s].conn = None,
                            ![s].pc = "done"]
    /\ UNCHANGED activeMode

\* Mutant: the connection of a failed session is not given back.
CloseSessionLeaks(s) ==
    /\ sess[s].pc \in {"failed", "leaving"}
    /\ settings' = [settings EXCEPT ![sess[s].conn] = AfterTransaction(@)]
    /\ sess' = [sess EXCEPT ![s].own = {}, ![s].added = {}, ![s].pc = "done"]
    /\ UNCHANGED << rows, activeMode >>

\* Mutant: a failed session goes back to the pool without a ROLLBACK.
CloseSessionOpen(s) ==
    /\ sess[s].pc \in {"failed", "leaving"}
    /\ settings' = [settings EXCEPT ![sess[s].conn] = AfterTransaction(@)]
    /\ sess' = [sess EXCEPT ![s].conn = None, ![s].pc = "done"]
    /\ UNCHANGED << rows, activeMode >>

\* An exception reaches get_db, or closes its generator: ROLLBACK.
CloseSession(s) ==
    /\ sess[s].pc \in {"failed", "leaving"}
    /\ settings' = [settings EXCEPT ![sess[s].conn] = AfterTransaction(@)]
    /\ sess' = [sess EXCEPT ![s].own = {}, ![s].added = {}, ![s].conn = None,
                            ![s].pc = "done"]
    /\ UNCHANGED << rows, activeMode >>

-----------------------------------------------------------------------------
(* scripts/seed.py: it adds each row it does not find, in this order; every*)
(* query first flushes what was added before it.                           *)

Missing(key, new) == [key |-> key, rows |-> new]

\* The rows of the seed in the tenant t, each with the key it is looked up by.
\* The rule and its mapping are added together.
SeedPlan(t, s) ==
    LET Id(table) == << table, Demo >>
        Get(table, refs) == Missing(Id(table), {Row(table, Demo, t, refs, {}, s)})
        Find(key, row)   == Missing(key, {[row EXCEPT !.keys = @ \cup {key}]})
        User(name)       == Row("tenant_users", << Demo, name >>, t, {}, {}, s)
    IN  << Find(Slug(Demo), Row("tenants", Demo, Demo, {}, {}, s)),
           Get("markets", {}),
           Missing(Id("cameras"),
                   {Row("cameras", Demo, t, {Id("markets")}, {EdgeDevice(Demo, t)}, s)}),
           Get("regions_of_interest", {Id("cameras")}),
           Get("context_modes", {}),
           Find(Assigned(Id("cameras")),
                Row("context_mode_camera_assignments", Demo, t,
                    {Id("context_modes"), Id("cameras")}, {}, s)),
           Get("lenses", {Id("context_modes")}),
           Missing(Id("rules"),
                   {Row("rules", Demo, t, {Id("context_modes")}, {}, s),
                    Row("rule_region_mappings", Demo, t,
                        {Id("rules"), Id("regions_of_interest")},
                        {Mapped(Id("rules"), Id("regions_of_interest"))}, s)}),
           Missing(Id("tenant_users"), {Row("tenant_users", Demo, None, {}, {}, s)}),
           Find(Subject("admin", t), User("admin")),
           Find(Subject("watcher", t), User("watcher")),
           Get("notification_configs", {}) >>

SeedTenant(s) ==
    LET known == { r \in Visible(s) : Slug(Demo) \in r.keys }
    IN  IF known = {} THEN Demo ELSE (CHOOSE r \in known : TRUE).tenant

\* Flush what was added, then look up the next row; after the last, commit.
SeedStep(s) ==
    LET plan  == SeedPlan(SeedTenant(s), s)
        next  == sess[s].step + 1
        there == Visible(s) \cup sess[s].added
        found == next \in DOMAIN plan /\ \E r \in there : plan[next].key \in r.keys
    IN  /\ sess[s].pc = "open" /\ Of(s).db = "seed"
        /\ ~Waits(s, sess[s].added)
        /\ sess' = IF Rejected(s, sess[s].added)
                   THEN Failed(s, 500)
                   ELSE [sess EXCEPT
                           ![s].own = @ \cup sess[s].added,
                           ![s].added = IF found \/ next \notin DOMAIN plan
                                        THEN {} ELSE plan[next].rows,
                           ![s].step = next,
                           ![s].pc = IF next \in DOMAIN plan THEN "open" ELSE "commit"]
        /\ UNCHANGED << rows, settings, activeMode >>

\* After its commit the seed makes the mode of its camera active.
SetActiveMode(s) ==
    /\ sess[s].pc = "key"
    /\ activeMode' = << "context_modes", Demo >>
    /\ sess' = [sess EXCEPT ![s].pc = "leaving"]
    /\ UNCHANGED << rows, settings >>

-----------------------------------------------------------------------------

TenancyNext == \E s \in Session :
    \/ Arrive(s) \/ PoolTimeout(s) \/ Begin(s) \/ Read(s) \/ Insert(s)
    \/ SeedStep(s) \/ Commit(s) \/ SetActiveMode(s) \/ Fail(s) \/ CloseSession(s)
    \/ \E c \in Conn : OpenSession(s, c)

TenancySpec == TenancyInit /\ [][TenancyNext]_tenancyVars

-----------------------------------------------------------------------------
(* Properties.                                                             *)

\* Rows, settings and sessions are well-formed: a setting never holds a role
\* the policies do not know, and a session has a connection exactly while it
\* is in, or has just ended, its transaction.
TenancyTypeOK ==
    /\ \A r \in rows : /\ r.table \in DOMAIN Parents /\ r.id[1] = r.table
                       /\ r.by \in Session \cup {None}
    /\ \A c \in Conn : settings[c].role \in UserRole \cup {None}
    /\ \A s \in Session :
        /\ sess[s].pc \in { "idle", "waiting", "open", "running", "commit",
                            "key", "leaving", "failed", "done" }
        /\ sess[s].conn \in PoolOf[s] \cup {None}
        /\ sess[s].conn = None <=> sess[s].pc \in {"idle", "waiting", "done"}
        /\ sess[s].reply \in {None, 200, 201, 400, 401, 403, 404, 500}

\* Between its first statement and its COMMIT a session runs under exactly the
\* settings of its own caller, on a connection nobody else uses, and a
\* connection that goes back to the pool carries none of them along
\* (services/database.py, set_session_context).
ContextIsOwn ==
    /\ \A c \in Conn : Free(c) => settings[c] = NoContext
    /\ \A s \in Session :
        sess[s].pc \in {"open", "running", "commit"} =>
            /\ Here(s) = ContextOf(s)
            /\ \A o \in Session \ {s} : sess[o].conn # sess[s].conn

\* Whatever a request under /tenants/{tenant_id}, or the analysis of a sequence,
\* is ever given belongs to that tenant - for root too, and for the endpoints
\* that name no tenant in their queries (scripts/validate_rls.py).
ReadsConfined ==
    \A s \in Session :
        Of(s).db \in {"tenant", "tenant_job"} =>
            \A r \in sess[s].seen : r.tenant = Tenant(s)

\* A committed row belongs to a call that succeeded, and one that a request
\* wrote is in the tenant its caller administers, or the caller is root.
WritesAuthorised ==
    \A r \in rows : r.by # None /\ Of(r.by).db # "seed" =>
        /\ sess[r.by].reply = 201
        /\ Of(r.by).db \in {"tenant", "root"} =>
             \/ sess[r.by].auth.role = "root_admin"
             \/ sess[r.by].auth.role = "tenant_admin" /\ sess[r.by].auth.tenant = r.tenant

\* A row refers to rows of its own tenant, though foreign keys see every row and
\* would let it refer to any: also the mode of an evidence, which is the tenant's
\* only because the analysis has found a lens for it (workers/vlm_analyzer.py).
\* The exceptions are the market of a schedule, and the camera and the region of
\* an ingest body and of the evidence and the decision they end up in.
RefsWithinTenant ==
    \A r, p \in rows :
        p.id \in r.refs /\ << r.table, p.table >> \notin Unchecked => p.tenant = r.tenant

\* list_rules reads the rules and then the regions of each in statements of
\* their own, while rules are created: each one it has listed in the end comes
\* with exactly the regions its creator asked for.
RulesListedWhole ==
    \A s \in Session :
        sess[s].call.endpoint = "list_rules" /\ sess[s].reply = 200 =>
            \A rule \in sess[s].seen :
                rule.table = "rules" /\ rule.by # None =>
                    { m.refs \ {rule.id, << "tenants", m.tenant >>} :
                        m \in { x \in sess[s].seen : x.table = "rule_region_mappings"
                                                     /\ rule.id \in x.refs } }
                  = IF Of(rule.by).db = "seed"
                    THEN {{<< "regions_of_interest", Demo >>}}
                    ELSE { {sess[rule.by].call.regions[i]} :
                             i \in DOMAIN sess[rule.by].call.regions }

\* The scheduler reads four tables in four statements while the seed and the
\* admin API add to them: it finds the market of every schedule and the camera
\* of every assignment it has read (workers/scheduler.py: markets.get,
\* cameras[...]).
LookupsResolve ==
    \A s \in Session :
        sess[s].call.endpoint = "activate_scheduled_modes" /\ sess[s].reply = 200 =>
            \A r \in sess[s].seen, table \in {"markets", "cameras"} :
               r.table \in {"context_mode_schedules", "context_mode_camera_assignments"} =>
                   { id \in r.refs : id[1] = table } \subseteq Ids(sess[s].seen)

\* The seed is there as a whole or not at all, however often and however many
\* at a time it is run, whoever makes its tenant or its users first; and the
\* mode it makes active is assigned to its camera.
SeedIsWhole ==
    \A t \in { r.tenant : r \in { x \in rows : Slug(Demo) \in x.keys } } :
        LET plan  == SeedPlan(t, None)
            there == { i \in DOMAIN plan : \E r \in rows : plan[i].key \in r.keys }
        IN  /\ \/ there = DOMAIN plan
               \/ \A i \in there : \A r \in rows :
                     plan[i].key \in r.keys => r.by = None \/ Of(r.by).db # "seed"
            /\ activeMode # None => there = DOMAIN plan

\* Sessions that wait for each other's INSERTs never wait in a circle, nor for
\* one that is gone: as long as some have not ended, one of them can go on
\* without anything failing.  Since each has finitely many steps, all end.
NobodyStuck ==
    LET active == { s \in Session : sess[s].pc \notin {"idle", "done"} }
        goesOn(s) ==
            CASE Of(s).db = "seed" -> ~Waits(s, sess[s].added)
              [] sess[s].pc = "running" /\ Of(s).inserts # None -> ~Waits(s, NewRows(s))
              [] OTHER -> TRUE
    IN  active # {} => \E s \in active : goesOn(s)

=============================================================================
