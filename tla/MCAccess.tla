------------------------------ MODULE MCAccess ------------------------------
\* A console that reads and an administrator, two keys with one ID, three plugins.
\* The administrator's token is of another algorithm than the first key.
EXTENDS Access, TLC

CONSTANTS r1, r2, k1, k2, reader, writer, admin, expired, p1, p2, p3

MCBearer == (r1 :> {reader, admin}) @@ (r2 :> {expired, writer})
MCKeyOf == (expired :> k1) @@ (reader :> k2) @@ (writer :> k2) @@ (admin :> k2)
MCSuits ==
  (expired :> {k1, k2}) @@ (reader :> {k1, k2}) @@ (writer :> {k1, k2}) @@ (admin :> {k2})
MCKidOf == (k1 :> "kid") @@ (k2 :> "kid")
MCGrants ==
  (expired :> Scopes) @@ (reader :> {"read"}) @@ (writer :> {"read", "write"})
  @@ (admin :> Scopes)

\* p1 takes the names of the core's tools without a scope, p2 and p3 add one job.
MCOffers ==
  (p1 :> [name : Unclassified, scope : {"read"}])
  @@ (p2 :> {[name |-> "archive_clips", scope |-> "admin"]})
  @@ (p3 :> {[name |-> "list_clips", scope |-> "read"]})
MCOthers ==
  (p1 :> {}) @@ (p2 :> {[kind |-> "job", name |-> "clips"]})
  @@ (p3 :> {[kind |-> "job", name |-> "clips"], [kind |-> "report", name |-> "clips"]})

\* Over HTTP: the tools the policy knows of, and all of them.  Over stdio: plugins
\* in conflict, a required one that is not installed or installed twice.
MCServers ==
  {[transport |-> "streamable-http", core |-> "audited", installed |-> {p2}, twice |-> {},
    allowed |-> {p2}, required |-> {p2}],
   [transport |-> "streamable-http", core |-> "shipped", installed |-> {p1}, twice |-> {},
    allowed |-> {p1}, required |-> {}],
   [transport |-> "stdio", core |-> "shipped", installed |-> {p1, p2, p3}, twice |-> {},
    allowed |-> {p1, p2, p3}, required |-> {}],
   [transport |-> "stdio", core |-> "shipped", installed |-> {p2, p3}, twice |-> {p2},
    allowed |-> {p2}, required |-> {}],
   [transport |-> "stdio", core |-> "shipped", installed |-> {p2}, twice |-> {p2},
    allowed |-> {p2}, required |-> {p2}],
   [transport |-> "stdio", core |-> "shipped", installed |-> {p2}, twice |-> {},
    allowed |-> {p2, p3}, required |-> {p3}]}

\* The tools that change something and that the scope policy does not name, and
\* its tables name nothing but tools.
ASSUME PolicyTables ==
  /\ Unclassified = {"update_site_settings", "create_firewall_rule", "update_firewall_rule",
                     "delete_firewall_rule", "update_camera"}
  /\ WriteTools \cup AdminMutations \cup AdminReads \subseteq Catalog
  /\ WriteTools \cap Reads = {} /\ AdminMutations \subseteq WriteTools /\ AdminReads \subseteq Reads

=============================================================================
