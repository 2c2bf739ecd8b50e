------------------------------- MODULE Access -------------------------------
(***************************************************************************)
(* Which tools a server offers and who may call them: the plugins that     *)
(* add tools at startup (plugins.py, _load_configured_plugins of           *)
(* server.py), the audit of the scope policy and the middleware that       *)
(* enforces it over HTTP (auth/authorization.py), behind the verification  *)
(* of tokens.                                                              *)
(***************************************************************************)
EXTENDS TokenVerifier, ToolCatalog

CONSTANTS
  Plugins,  \* entry points of the group unifi_mcp.plugins
  Offers,   \* the tools that each registers: name and scope
  Others,   \* its collectors, jobs, sinks and renderers: each kind has names of its own
  Servers,  \* configurations
  Grants,   \* the scopes of each token
  Asked     \* the tools that callers ask for

Scopes == {"read", "write", "admin"}

\* "core" tells which tools server.py registers: all of the catalog, as shipped,
\* or those that the scope policy knows of.
Server ==
  [transport : {"stdio", "streamable-http"}, core : {"shipped", "audited"},
   installed : SUBSET Plugins, twice : SUBSET Plugins,
   allowed : SUBSET Plugins, required : SUBSET Plugins]

ASSUME AccessAssumption ==
  /\ Offers \in [Plugins -> SUBSET [name : STRING, scope : Scopes]]
  /\ Others \in [Plugins -> SUBSET [kind : {"collector", "job", "sink", "report"}, name : STRING]]
  /\ Servers \subseteq Server
  /\ \A s \in Servers : s.twice \subseteq s.installed /\ s.required \subseteq s.allowed
  /\ Grants \in [Tokens -> SUBSET Scopes]
  /\ \A t \in Fit : "read" \in Grants[t]
  /\ Asked \subseteq STRING /\ Asked \cap {"none", "denied", "unknown"} = {}

VARIABLES
  server,   \* the configuration
  phase,    \* of startup
  pending,  \* entry points not looked at yet
  loaded,   \* plugins that are loaded
  tools,    \* the registry's tools, and _plugin_scopes
  others,   \* the registry's other extensions
  ran       \* the tool that each request ran, or why none

startup == <<server, phase, pending, loaded, tools, others>>
vars == <<startup, ran, verifierVars>>

TypeOK ==
  /\ server \in Servers
  /\ phase \in {"loading", "serving", "refused"}
  /\ pending \subseteq server.installed
  /\ loaded \subseteq server.installed \cap server.allowed
  /\ tools \subseteq UNION {Offers[p] : p \in loaded}
  /\ others \subseteq UNION {Others[p] : p \in loaded}
  /\ ran \in [Requests -> Asked \cup {"none", "denied", "unknown"}]

Init ==
  /\ VerifierInit
  /\ server \in Servers
  /\ phase = "loading"
  /\ pending = server.installed
  /\ loaded = {} /\ tools = {} /\ others = {}
  /\ ran = [r \in Requests |-> "none"]

-----------------------------------------------------------------------------
(* Startup. *)

Core == IF server.core = "shipped" THEN Catalog ELSE Catalog \ Unclassified
NamesOf(offers) == {o.name : o \in offers}

\* A required plugin that is installed twice is refused before any is loaded.
Ambiguous == server.twice \cap server.allowed \cap server.required # {}

Loading(p) == phase = "loading" /\ ~Ambiguous /\ p \in pending

RefuseAmbiguous ==
  /\ phase = "loading" /\ Ambiguous
  /\ phase' = "refused"
  /\ UNCHANGED <<server, pending, loaded, tools, others, ran>>

\* Not allowed, or installed twice.
Skip(p) ==
  /\ Loading(p)
  /\ p \notin server.allowed \/ p \in server.twice
  /\ pending' = pending \ {p}
  /\ UNCHANGED <<server, phase, loaded, tools, others, ran>>

\* Mutant of Conflicts: tools of the core are not looked at.
Conflicts_PluginsOnly(p) ==
  NamesOf(Offers[p]) \cap NamesOf(tools) # {} \/ Others[p] \cap others # {}

\* Mutant of Conflicts: only the names of tools are compared.
Conflicts_ToolsOnly(p) == NamesOf(Offers[p]) \cap (Core \cup NamesOf(tools)) # {}

\* A name is taken, by the core or by a plugin loaded before.
Conflicts(p) ==
  NamesOf(Offers[p]) \cap (Core \cup NamesOf(tools)) # {} \/ Others[p] \cap others # {}

Load(p) ==
  /\ Loading(p) /\ p \in server.allowed \ server.twice
  /\ ~Conflicts(p)
  /\ pending' = pending \ {p}
  /\ loaded' = loaded \cup {p}
  /\ tools' = tools \cup Offers[p]
  /\ others' = others \cup Others[p]
  /\ UNCHANGED <<server, phase, ran>>

\* Mutant of Reject: tools are merged before the other names are looked at.
Reject_Halfway(p) ==
  /\ Loading(p) /\ p \in server.allowed \ server.twice
  /\ \/ p \in server.required /\ phase' = "refused" /\ UNCHANGED <<pending, tools>>
     \/ /\ p \notin server.required /\ UNCHANGED phase
        /\ pending' = pending \ {p}
        /\ tools' = IF NamesOf(Offers[p]) \cap (Core \cup NamesOf(tools)) = {}
                    THEN tools \cup Offers[p] ELSE tools
  /\ UNCHANGED <<server, loaded, others, ran>>

\* A plugin that cannot be loaded, is of another version, raises as it registers
\* or conflicts with what is there.
Reject(p) ==
  /\ Loading(p) /\ p \in server.allowed \ server.twice
  /\ \/ p \in server.required /\ phase' = "refused" /\ UNCHANGED pending
     \/ p \notin server.required /\ pending' = pending \ {p} /\ UNCHANGED phase
  /\ UNCHANGED <<server, loaded, tools, others, ran>>

HTTP == server.transport = "streamable-http"

\* Registered tools that change something and have no scope.
Unaudited == Core \ (Reads \cup WriteTools \cup NamesOf(tools))

Ready ==
  /\ server.required \subseteq server.installed
  /\ HTTP => Unaudited = {}

Start ==
  /\ phase = "loading" /\ ~Ambiguous /\ pending = {}
  /\ phase' = IF Ready THEN "serving" ELSE "refused"
  /\ UNCHANGED <<server, pending, loaded, tools, others, ran>>

Startup ==
  \/ RefuseAmbiguous
  \/ \E p \in Plugins : Skip(p) \/ Load(p) \/ Reject(p)
  \/ Start

-----------------------------------------------------------------------------
(* Calls. *)

ScopesOf(tool) == {o.scope : o \in {x \in tools : x.name = tool}}

required_scopes(tool) ==
  {"read"}
  \cup (IF ScopesOf(tool) \cap {"write", "admin"} # {} \/ tool \in WriteTools
        THEN {"write"} ELSE {})
  \cup (IF "admin" \in ScopesOf(tool) \/ tool \in AdminMutations \cup AdminReads
        THEN {"admin"} ELSE {})

\* Over HTTP the middleware looks at the scopes of the request's token first.
Admitted(r, tool) ==
  HTTP => required_scopes(tool) \subseteq Grants[request[r].token]

CallTool(r, tool) ==
  /\ phase = "serving" /\ ran[r] = "none"
  /\ HTTP => request[r].result = "accepted"
  /\ ran' = [ran EXCEPT ![r] = CASE ~Admitted(r, tool) -> "denied"
                                 [] Admitted(r, tool) /\ tool \in Core \cup NamesOf(tools) -> tool
                                 [] OTHER -> "unknown"]
  /\ UNCHANGED startup

-----------------------------------------------------------------------------
Next ==
  \/ (Startup \/ \E r \in Requests, tool \in Asked : CallTool(r, tool)) /\ UNCHANGED verifierVars
  \/ phase = "serving" /\ HTTP /\ VerifierNext /\ UNCHANGED <<startup, ran>>

Spec == Init /\ [][Next]_vars
FairSpec == Spec /\ VerifierFairness

-----------------------------------------------------------------------------
(* Properties. *)

\* Over HTTP a tool that was not declared to read only never runs without the
\* write scope, nor an administrative one or a plugin's without the scope it asks
\* for: whatever plugins add, whichever tools the policy's tables miss.
ScopesHold ==
  \A r \in Requests :
    LET granted == Grants[request[r].token]
    IN  HTTP /\ ran[r] \in Asked =>
          /\ request[r].result = "accepted"
          /\ ran[r] \in Core \ Reads => "write" \in granted
          /\ ran[r] \in AdminMutations \cup AdminReads => "admin" \in granted
          /\ \A p \in loaded : \A o \in Offers[p] :
               o.name = ran[r] => o.scope \in granted
               /\ (o.scope = "admin" => "write" \in granted)

\* A plugin adds all of its extensions or none, takes no name that is in use, and
\* no server serves without those it requires.
PluginsWhole ==
  /\ tools = UNION {Offers[p] : p \in loaded}
  /\ others = UNION {Others[p] : p \in loaded}
  /\ \A p \in loaded :
       /\ NamesOf(Offers[p]) \cap Core = {}
       /\ \A q \in loaded \ {p} :
            NamesOf(Offers[p]) \cap NamesOf(Offers[q]) = {} /\ Others[p] \cap Others[q] = {}
  /\ phase = "serving" => server.required \subseteq loaded

=============================================================================
