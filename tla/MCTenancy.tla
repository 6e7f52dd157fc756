------------------------------ MODULE MCTenancy -----------------------------
(***************************************************************************)
(* Two furnished tenants, three sessions and two connections.  One session *)
(* writes, one writes what may collide with it or reads, and one runs the  *)
(* jobs of the workers, a seed, or a listing of rules; or all three are an *)
(* analysis, its second session and what follows it.                       *)
(***************************************************************************)
EXTENDS Tenancy

CONSTANTS t1, t2, a, b, j, c1, c2, name

\* Each tenant has what a decision and a rule can refer to.
Furniture(t) ==
    LET Has(table, parents) ==
            Row(table, t, t, { << parent, t >> : parent \in parents }, {}, None)
    IN  { Has("tenants", {}), Has("markets", {}), Has("cameras", {"markets"}),
          Has("regions_of_interest", {"cameras"}), Has("context_modes", {}),
          Has("lenses", {"context_modes"}), Has("notification_configs", {}),
          Has("evidences", {"cameras", "regions_of_interest", "context_modes"}),
          Has("decisions", {"cameras"}), Has("feedback", {"decisions"}),
          Has("notification_deliveries", {"decisions", "notification_configs"}) }

\* The evidence of the second tenant is part of its decision.
Link == << << "decisions", t2 >>, << "evidences", t2 >> >>

MCInitialRows ==
    Furniture(t1) \cup Furniture(t2)
    \cup { Row("decision_evidences", Link, t2, {Link[1], Link[2]}, {}, None) }
MCPoolOf      == [s \in Session |-> {c1, c2}]

-----------------------------------------------------------------------------

Persona == DevSession(t1, << "cameras", t1 >>)

\* Tokens of the real provider come with namespaced claims.
Auth0Token(role, tenant) ==
    [verdict |-> "ok", payload |-> ("ns/role" :> role @@ "ns/tenant_id" :> tenant)]

Expired == [Persona.admin EXCEPT !.verdict = "expired"]
NoToken == [verdict |-> "missing", payload |-> << >>]

Ask(endpoint, token, tenant) ==
    [ endpoint |-> endpoint, token |-> token, tenant |-> tenant,
      refs |-> {}, key |-> name, regions |-> << >> ]

About(call, table, t) == [call EXCEPT !.refs = @ \cup {<< table, t >>}]

Admin(endpoint) == Ask(endpoint, Persona.admin, t1)
Root(endpoint, t) == Ask(endpoint, Persona.root, t)
Works(endpoint) == Ask(endpoint, NoToken, t1)

RuleWith(regions) ==
    [About(Admin("create_rule"), "context_modes", t1) EXCEPT !.regions = regions]

Region(t) == << "regions_of_interest", t >>

\* What may collide with a seed or with another one of its kind.
NewDemo   == [Root("create_tenant", t1) EXCEPT !.key = Demo]
DemoAdmin == [Root("assign_tenant_admin", Demo) EXCEPT !.key = "admin"]
NewCamera == About(Admin("create_camera"), "markets", t1)

Writes ==
    { Admin("create_tenant"), Root("create_market", t2),
      Ask("create_market", Persona.watcher, t1), Ask("create_market", Expired, t1),
      Ask("create_market", Auth0Token("tenant_admin", t2), t1),
      NewCamera, About(Admin("create_camera"), "markets", t2),
      About(Admin("create_region"), "cameras", t1),
      Admin("create_context_mode"),
      About(About(Admin("create_schedule"), "context_modes", t1), "markets", t2),
      About(Admin("create_lens"), "context_modes", t1),
      RuleWith(<< Region(t1) >>), RuleWith(<< Region(t1), Region(t2) >>),
      RuleWith(<< Region(t1), Region(t1) >>),
      Admin("create_notification_config") }

\* Readers and jobs that run beside each of them.
Readers ==
    { << Root("list_rules", t1), Works("activate_scheduled_modes") >>,
      << Root("list_markets", t2), About(Works("notify_warning"), "decisions", t1) >>,
      << Admin("list_cameras"), About(Works("analyze_message"), "context_modes", t1) >> }

\* Readers of what the writes do not touch, two at a time.
OtherReaders ==
    { << Root("list_tenants", t1), Admin("list_context_modes") >>,
      << Admin("list_notification_configs"),
         About(Admin("list_decision_deliveries"), "decisions", t1) >>,
      << Ask("list_decisions", Persona.watcher, t1),
         About(Ask("get_decision", Auth0Token("watcher", t2), t2), "decisions", t1) >>,
      << About(Ask("get_decision", Auth0Token("watcher", t2), t2), "decisions", t2),
         About(Ask("get_evidence_playback", Auth0Token("watcher", t2), t2),
               "decision_evidences", Link) >>,
      << Ask("ingest_sequence", Persona.edge, t1),
         Ask("ingest_sequence", Persona.admin, t1) >> }

\* A message with the camera of the first tenant and the mode and the region of
\* some, and the aggregation of an evidence that its open key has a decision for.
Message(job, mode, region) ==
    About(About(About(Works(job), "cameras", t1), "context_modes", mode),
          "regions_of_interest", region)

Merge(evidence, decisions) ==
    [About(Works("aggregate_evidence"), "evidences", evidence) EXCEPT
        !.refs = @ \cup { << "decisions", d >> : d \in decisions }]

\* What may happen to a sequence: its evidence is stored once or twice, and then
\* aggregated; or an evidence is aggregated twice.
Analyses ==
    { << Message("analyze_message", mode, region),
         Message("store_evidence", mode, region), third >> :
        mode \in {t1, t2}, region \in {t1, t2},
        third \in {Message("store_evidence", t1, t1), Merge(b, {}), Merge(b, {t1})} }

Aggregations ==
    { << Merge(t1, first), Merge(t1, second), third >> :
        first \in {{}, {t1}}, second \in {{a}, {t1}, {t2}},
        third \in {About(Admin("get_decision"), "decisions", a), Merge(t2, {})} }

Together(x, y, z) == a :> x @@ b :> y @@ j :> z

MCScenarios ==
    { Together(w, r[1], r[2]) : w \in Writes, r \in Readers }
    \cup { Together(NewDemo, r[1], r[2]) : r \in OtherReaders }
    \cup { Together(NewCamera, NewCamera, w) : w \in {NewCamera, NewDemo} }
    \cup { Together(r[1], r[2], r[3]) : r \in Analyses \cup Aggregations }
    \cup { Together(Works("seed"), x, y) :
             x \in {NewDemo, DemoAdmin, Works("seed")},
             y \in {Works("activate_scheduled_modes"), Root("list_rules", Demo), DemoAdmin} }

=============================================================================
