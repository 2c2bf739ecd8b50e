---------------------------- MODULE AccessProofs ----------------------------
(***************************************************************************)
(* What Access guarantees, for any configuration, plugins and number of    *)
(* requests.  Its steps are steps of TokenVerifier or leave the verifier   *)
(* alone, so what TokenVerifierProofs shows holds of it; the invariant     *)
(* adds what startup has established and what each call was granted.       *)
(***************************************************************************)
EXTENDS Access, TokenVerifierProofs

\* As long as the server loads, no plugin that it requires has been left out.
RequiredAhead ==
  phase = "loading" /\ ~Ambiguous =>
    server.required \cap server.installed \subseteq pending \cup loaded

\* A server on HTTP knows the scopes of every tool of its own.
Audited == phase = "serving" /\ HTTP => Unaudited = {}

\* A request that ran a tool had been accepted, with the scopes that the tool takes.
Granted ==
  \A r \in Requests :
    ran[r] # "none" =>
      /\ phase = "serving"
      /\ HTTP => request[r].result = "accepted"
      /\ HTTP /\ ran[r] \in Asked =>
           required_scopes(ran[r]) \subseteq Grants[request[r].token]

AccessInv ==
  VerifierInv /\ TypeOK /\ PluginsWhole /\ RequiredAhead /\ Audited /\ Granted

-----------------------------------------------------------------------------
LEMMA AccessInitInv == Init => AccessInv
<1> SUFFICES ASSUME Init
             PROVE  AccessInv
  OBVIOUS
<1>1. VerifierInv
  BY VerifierInitInv DEF Init
<1>2. TypeOK
  BY DEF Init, TypeOK
<1>3. PluginsWhole /\ RequiredAhead /\ Audited
  BY DEF Init, PluginsWhole, RequiredAhead, Audited
<1>4. Granted
  BY DEF Init, Granted
<1> QED
  BY <1>1, <1>2, <1>3, <1>4 DEF AccessInv

\* Names belong to offers.
LEMMA NamesOfUnion ==
  ASSUME NEW a, NEW b
  PROVE  NamesOf(a \cup b) = NamesOf(a) \cup NamesOf(b)
BY DEF NamesOf

LEMMA NamesOfPart ==
  ASSUME NEW a, NEW b, a \subseteq b
  PROVE  NamesOf(a) \subseteq NamesOf(b)
BY DEF NamesOf

LEMMA LoadStep ==
  ASSUME AccessInv, NEW p \in Plugins, Load(p)
  PROVE  TypeOK' /\ PluginsWhole' /\ RequiredAhead'
<1> USE DEF AccessInv
<1>1. /\ UNCHANGED <<server, phase, ran>> /\ phase = "loading" /\ p \in pending
      /\ p \in server.allowed /\ p \in server.installed
      /\ pending' = pending \ {p} /\ loaded' = loaded \cup {p}
      /\ tools' = tools \cup Offers[p] /\ others' = others \cup Others[p]
  BY DEF Load, Loading, TypeOK
<1>2. /\ NamesOf(Offers[p]) \cap Core = {} /\ NamesOf(Offers[p]) \cap NamesOf(tools) = {}
      /\ Others[p] \cap others = {}
  BY DEF Load, Conflicts
<1>3. TypeOK'
  BY <1>1 DEF TypeOK
<1>4. /\ tools' = UNION {Offers[q] : q \in loaded'}
      /\ others' = UNION {Others[q] : q \in loaded'}
  BY <1>1 DEF PluginsWhole
<1>5. \A q \in loaded : Offers[q] \subseteq tools /\ Others[q] \subseteq others
  BY DEF PluginsWhole
<1>6. \A q \in loaded :
        NamesOf(Offers[p]) \cap NamesOf(Offers[q]) = {} /\ Others[p] \cap Others[q] = {}
  BY <1>2, <1>5, NamesOfPart
<1>7. Core' = Core
  BY <1>1 DEF Core
<1>8. \A q \in loaded' :
        /\ NamesOf(Offers[q]) \cap Core = {}
        /\ \A s \in loaded' \ {q} :
             NamesOf(Offers[q]) \cap NamesOf(Offers[s]) = {} /\ Others[q] \cap Others[s] = {}
  BY <1>1, <1>2, <1>6 DEF PluginsWhole
<1>9. PluginsWhole'
  BY <1>1, <1>4, <1>7, <1>8 DEF PluginsWhole
<1>10. RequiredAhead'
  BY <1>1 DEF RequiredAhead, Ambiguous
<1> QED
  BY <1>3, <1>9, <1>10

LEMMA StartupStep ==
  ASSUME AccessInv, Startup, UNCHANGED verifierVars
  PROVE  AccessInv'
<1> USE DEF AccessInv
<1>1. VerifierInv'
  BY VerifierInvStep
<1>2. /\ UNCHANGED <<server, ran, request>> /\ phase = "loading"
      /\ Core' = Core /\ (HTTP' <=> HTTP) /\ (Ambiguous' <=> Ambiguous)
  BY DEF Startup, RefuseAmbiguous, Skip, Load, Reject, Start, Loading, verifierVars, Core, HTTP,
     Ambiguous
<1>3. \A r \in Requests : ran[r] = "none"
  BY <1>2 DEF Granted
<1>4. Granted'
  BY <1>2, <1>3 DEF Granted
<1>5. /\ server \in Server
      /\ server.required \subseteq server.allowed
  BY AccessAssumption DEF TypeOK
<1>6. CASE RefuseAmbiguous
  <2>1. UNCHANGED <<pending, loaded, tools, others>> /\ phase' = "refused"
    BY <1>6 DEF RefuseAmbiguous
  <2>2. TypeOK'
    BY <1>2, <2>1 DEF TypeOK
  <2>3. PluginsWhole' /\ RequiredAhead' /\ Audited'
    BY <1>2, <2>1 DEF PluginsWhole, RequiredAhead, Audited
  <2> QED
    BY <1>1, <1>4, <2>2, <2>3
<1>7. ASSUME NEW p \in Plugins, Skip(p) \/ Reject(p)
      PROVE  AccessInv'
  <2>1. /\ UNCHANGED <<loaded, tools, others>>
        /\ p \in pending /\ ~Ambiguous
        /\ \/ phase' = "refused" /\ pending' = pending
           \/ phase' = phase /\ pending' = pending \ {p} /\ p \notin server.required
    <3>1. CASE Skip(p)
      <4>1. p \in server.required => p \notin server.twice
        BY <1>5, <3>1 DEF Skip, Loading, Ambiguous
      <4> QED
        BY <1>5, <3>1, <4>1 DEF Skip, Loading
    <3>2. CASE Reject(p)
      BY <3>2 DEF Reject, Loading
    <3> QED
      BY <1>7, <3>1, <3>2
  <2>2. TypeOK'
    BY <1>2, <2>1 DEF TypeOK
  <2>3. PluginsWhole'
    BY <1>2, <2>1 DEF PluginsWhole
  <2>4. RequiredAhead'
    BY <1>2, <2>1 DEF RequiredAhead
  <2>5. Audited'
    BY <1>2, <2>1 DEF Audited
  <2> QED
    BY <1>1, <1>4, <2>2, <2>3, <2>4, <2>5
<1>8. ASSUME NEW p \in Plugins, Load(p)
      PROVE  AccessInv'
  <2>1. phase' = "loading"
    BY <1>2, <1>8 DEF Load
  <2> QED
    BY <1>1, <1>4, <1>8, <2>1, LoadStep DEF Audited
<1>9. CASE Start
  <2>1. /\ UNCHANGED <<pending, loaded, tools, others>> /\ pending = {} /\ ~Ambiguous
        /\ phase' = IF Ready THEN "serving" ELSE "refused"
    BY <1>9 DEF Start
  <2>2. TypeOK'
    BY <1>2, <2>1 DEF TypeOK
  <2>3. Ready => server.required \subseteq loaded
    BY <1>2, <2>1 DEF Ready, RequiredAhead
  <2>4. PluginsWhole'
    BY <1>2, <2>1, <2>3 DEF PluginsWhole
  <2>5. RequiredAhead'
    BY <2>1 DEF RequiredAhead
  <2>6. Unaudited' = Unaudited
    BY <1>2, <2>1 DEF Unaudited
  <2>7. Audited'
    BY <1>2, <2>1, <2>6 DEF Audited, Ready
  <2> QED
    BY <1>1, <1>4, <2>2, <2>4, <2>5, <2>7
<1> QED
  BY <1>6, <1>7, <1>8, <1>9 DEF Startup

LEMMA VerificationStep ==
  ASSUME AccessInv, HTTP, VerifierNext, UNCHANGED <<startup, ran>>
  PROVE  AccessInv'
<1> USE DEF AccessInv
<1>1. VerifierInv'
  BY VerifierInvStep
<1>2. /\ UNCHANGED <<server, phase, pending, loaded, tools, others, ran>>
      /\ Core' = Core /\ (HTTP' <=> HTTP) /\ (Ambiguous' <=> Ambiguous) /\ Unaudited' = Unaudited
  BY DEF startup, Core, HTTP, Ambiguous, Unaudited
<1>3. TypeOK' /\ PluginsWhole' /\ RequiredAhead' /\ Audited'
  BY <1>2 DEF TypeOK, PluginsWhole, RequiredAhead, Audited
<1>4. Granted'
  <2> SUFFICES ASSUME NEW r \in Requests, ran[r] # "none"
               PROVE  /\ phase = "serving" /\ request'[r].result = "accepted"
                      /\ ran[r] \in Asked =>
                           required_scopes(ran[r])' \subseteq Grants[request'[r].token]
    BY <1>2 DEF Granted
  <2>1. phase = "serving" /\ request[r].result = "accepted"
    BY DEF Granted
  <2>2. request'[r] = request[r]
    BY <2>1, AcceptedStays
  <2>3. required_scopes(ran[r])' = required_scopes(ran[r])
    BY <1>2 DEF required_scopes, ScopesOf
  <2> QED
    BY <2>1, <2>2, <2>3 DEF Granted
<1> QED
  BY <1>1, <1>3, <1>4

LEMMA CallStep ==
  ASSUME AccessInv, NEW r \in Requests, NEW tool \in Asked, CallTool(r, tool),
         UNCHANGED verifierVars
  PROVE  AccessInv'
<1> USE DEF AccessInv
<1>1. VerifierInv'
  BY VerifierInvStep
<1>2. /\ UNCHANGED <<server, phase, pending, loaded, tools, others, request>>
      /\ Core' = Core /\ (HTTP' <=> HTTP) /\ (Ambiguous' <=> Ambiguous) /\ Unaudited' = Unaudited
  BY DEF CallTool, startup, verifierVars, Core, HTTP, Ambiguous, Unaudited
<1> DEFINE outcome == CASE ~Admitted(r, tool) -> "denied"
                        [] Admitted(r, tool) /\ tool \in Core \cup NamesOf(tools) -> tool
                        [] OTHER -> "unknown"
<1>a. ran' = [ran EXCEPT ![r] = outcome]
  BY DEF CallTool
<1>b. outcome \in {"denied", "unknown"} \/ (outcome = tool /\ Admitted(r, tool))
  OBVIOUS
<1> HIDE DEF outcome
<1>3. /\ ran' = [ran EXCEPT ![r] = outcome]
      /\ outcome \in {"denied", "unknown"} \/ (outcome = tool /\ Admitted(r, tool))
  BY <1>a, <1>b
<1>4. ran \in [Requests -> Asked \cup {"none", "denied", "unknown"}]
  BY DEF TypeOK
<1>5. TypeOK' /\ PluginsWhole' /\ RequiredAhead' /\ Audited'
  <2>1. ran' \in [Requests -> Asked \cup {"none", "denied", "unknown"}]
    BY <1>3, <1>4
  <2>2. TypeOK'
    BY <1>2, <2>1 DEF TypeOK
  <2> QED
    BY <1>2, <2>2 DEF PluginsWhole, RequiredAhead, Audited
<1>6. Granted'
  <2> SUFFICES ASSUME NEW q \in Requests, ran'[q] # "none"
               PROVE  /\ phase = "serving" /\ (HTTP => request[q].result = "accepted")
                      /\ HTTP /\ ran'[q] \in Asked =>
                           required_scopes(ran'[q]) \subseteq Grants[request[q].token]
    BY <1>2 DEF Granted, required_scopes, ScopesOf
  <2>1. CASE q = r
    <3>1. ran'[q] = outcome
      BY <1>3, <1>4, <2>1
    <3>2. phase = "serving" /\ (HTTP => request[q].result = "accepted")
      BY <2>1 DEF CallTool
    <3>3. ran'[q] \in Asked => ran'[q] = tool /\ Admitted(r, tool)
      BY <1>3, <3>1, AccessAssumption
    <3> QED
      BY <2>1, <3>2, <3>3 DEF Admitted
  <2>2. CASE q # r
    <3>1. ran'[q] = ran[q]
      BY <1>3, <1>4, <2>2
    <3> QED
      BY <3>1 DEF Granted
  <2> QED
    BY <2>1, <2>2
<1> QED
  BY <1>1, <1>5, <1>6

LEMMA AccessInvStep == AccessInv /\ [Next]_vars => AccessInv'
<1> SUFFICES ASSUME AccessInv, [Next]_vars
             PROVE  AccessInv'
  OBVIOUS
<1>1. CASE Startup /\ UNCHANGED verifierVars
  BY <1>1, StartupStep
<1>2. ASSUME NEW r \in Requests, NEW tool \in Asked, CallTool(r, tool), UNCHANGED verifierVars
      PROVE  AccessInv'
  BY <1>2, CallStep
<1>3. CASE phase = "serving" /\ HTTP /\ VerifierNext /\ UNCHANGED <<startup, ran>>
  BY <1>3, VerificationStep
<1>4. CASE UNCHANGED vars
  <2>1. VerifierInv'
    BY <1>4, VerifierInvStep DEF AccessInv, vars
  <2>2. /\ UNCHANGED <<server, phase, pending, loaded, tools, others, ran, request>>
        /\ Core' = Core /\ (HTTP' <=> HTTP) /\ (Ambiguous' <=> Ambiguous) /\ Unaudited' = Unaudited
    BY <1>4 DEF vars, startup, verifierVars, Core, HTTP, Ambiguous, Unaudited
  <2> QED
    BY <2>1, <2>2 DEF AccessInv, TypeOK, PluginsWhole, RequiredAhead, Audited, Granted,
       required_scopes, ScopesOf
<1> QED
  BY <1>1, <1>2, <1>3, <1>4 DEF Next

LEMMA AccessInvariant == Spec => []AccessInv
BY AccessInitInv, AccessInvStep, PTL DEF Spec

-----------------------------------------------------------------------------
\* Startup and calls are always of one of the known forms.
THEOREM AccessTypeCorrect == Spec => []TypeOK
BY AccessInvariant, PTL DEF AccessInv

\* Plugins add all or nothing, under names of their own, and those that are
\* required are there when the server serves.
THEOREM PluginsAreWhole == Spec => []PluginsWhole
BY AccessInvariant, PTL DEF AccessInv

\* Over HTTP no tool runs without the scopes it takes: the audit leaves no tool of
\* the core without, and no plugin has the name of one.
THEOREM ScopesAreHeld == Spec => []ScopesHold
<1>1. AccessInv => ScopesHold
  <2> SUFFICES ASSUME AccessInv, NEW r \in Requests, HTTP, ran[r] \in Asked
               PROVE  /\ request[r].result = "accepted"
                      /\ ran[r] \in Core \ Reads => "write" \in Grants[request[r].token]
                      /\ ran[r] \in AdminMutations \cup AdminReads =>
                           "admin" \in Grants[request[r].token]
                      /\ \A p \in loaded : \A o \in Offers[p] :
                           o.name = ran[r] => o.scope \in Grants[request[r].token]
                           /\ (o.scope = "admin" => "write" \in Grants[request[r].token])
    BY DEF ScopesHold
  <2> DEFINE tool == ran[r]
             granted == Grants[request[r].token]
  <2>1. tool # "none"
    BY AccessAssumption
  <2>2. /\ phase = "serving" /\ request[r].result = "accepted"
        /\ required_scopes(tool) \subseteq granted
    BY <2>1 DEF AccessInv, Granted
  <2>3. /\ "read" \in required_scopes(tool)
        /\ ScopesOf(tool) \cap {"write", "admin"} # {} \/ tool \in WriteTools =>
             "write" \in required_scopes(tool)
        /\ "admin" \in ScopesOf(tool) \/ tool \in AdminMutations \cup AdminReads =>
             "admin" \in required_scopes(tool)
    BY DEF required_scopes
  <2>4. tool \in Core \ Reads => "write" \in granted
    <3>1. \A p \in loaded : NamesOf(Offers[p]) \cap Core = {}
      BY DEF AccessInv, PluginsWhole
    <3>2. NamesOf(tools) \cap Core = {}
      BY <3>1 DEF AccessInv, PluginsWhole, NamesOf
    <3>3. Unaudited = {}
      BY <2>2 DEF AccessInv, Audited
    <3> QED
      BY <2>2, <2>3, <3>2, <3>3 DEF Unaudited
  <2>5. tool \in AdminMutations \cup AdminReads => "admin" \in granted
    BY <2>2, <2>3
  <2>6. ASSUME NEW p \in loaded, NEW o \in Offers[p], o.name = tool
        PROVE  o.scope \in granted /\ (o.scope = "admin" => "write" \in granted)
    <3>1. p \in Plugins /\ o.scope \in Scopes
      BY <2>6, AccessAssumption DEF AccessInv, TypeOK, Server
    <3>2. o.scope \in ScopesOf(tool)
      BY <2>6 DEF AccessInv, PluginsWhole, ScopesOf
    <3> QED
      BY <2>2, <2>3, <3>1, <3>2 DEF Scopes
  <2> QED
    BY <2>2, <2>4, <2>5, <2>6
<1> QED
  BY <1>1, AccessInvariant, PTL

\* Whatever startup and calls do, tokens are verified as TokenVerifier describes:
\* what holds of its behaviours holds of the server's.
THEOREM VerifiesTokens == Spec => VerifierSpec
<1>1. Init => VerifierInit
  BY DEF Init
<1>2. [Next]_vars => [VerifierNext]_verifierVars
  BY DEF Next, vars, verifierVars
<1> QED
  BY <1>1, <1>2, PTL DEF Spec, VerifierSpec

\* The promises of the verification hold of the whole server, which is what the run
\* of Access checks: startup and calls lengthen no key's life, refuse no token and
\* ask the issuer for nothing.
THEOREM ServerKeepsPromises == Spec => KeyWasRecent /\ RefusedForCause /\ ForcedApart
BY VerifiesTokens, KeysAreRecent, RefusalsHaveCause, RefreshesAreApart

\* A tool that has run over HTTP ran for a token that is in order, whose key the
\* issuer has published, and that grants every scope that the tool takes.
RanForIssuedToken ==
  \A r \in Requests :
    HTTP /\ ran[r] \in Asked =>
      LET token == request[r].token
      IN  /\ token \in Fit /\ since[KeyOf[token]] # Never
          /\ required_scopes(ran[r]) \subseteq Grants[token]

\* From the bearer token to the handler: nothing that plugins, concurrent requests
\* or new keys do lets a call through that the issuer's keys do not vouch for
\* (verify_token, ScopeMiddleware).
THEOREM ToolsRunForIssuedTokens == Spec => []RanForIssuedToken
<1>1. AccessInv /\ AcceptedIsIssued => RanForIssuedToken
  BY AccessAssumption
  DEF AccessInv, Granted, AcceptedIsIssued, RanForIssuedToken
<1>2. Spec => []AcceptedIsIssued
  BY VerifiesTokens, AcceptedAreIssued
<1> QED
  BY <1>1, <1>2, AccessInvariant, PTL

-----------------------------------------------------------------------------
(* The catalog as it is shipped. *)

LEMMA CameraUpdateHasNoScope == "update_camera" \in Catalog \ (Reads \cup WriteTools)
<1>1. "update_camera" \in Changes
  <2>1. CameraTools \in Groups /\ "update_camera" \in CameraTools.changes
    BY DEF Groups, CameraTools
  <2> QED
    BY <2>1 DEF Changes
<1>2. \A g \in Groups : "update_camera" \notin g.reads
  BY DEF Groups, StatusTools, SnapshotTools, ObservationTools, TagTools, GroupTools, GroupLists,
     QosTools, EventTools, ScheduleTools, JobTools, DestinationTools, DeliveryTools, DeviceTools,
     FirmwareTools, PortTools, ClientLists, ClientAccessTools, ClientTrafficTools, SiteTools,
     NetworkTools, NetworkChangeTools, ConfigurationLists, WlanUpdateTools, WlanLifecycleTools,
     FirewallPolicyTools, FirewallRuleTools, PortForwardTools, RoutingTools, HealthTools,
     SpeedTestTools, InsightTools, TroubleshootingTools, CameraTools, ProtectStatusTools,
     DetectionTools, ActivityTools, FleetTools, ClipTools
<1>3. "update_camera" \notin WriteTools
  BY DEF WriteTools
<1> QED
  BY <1>1, <1>2, <1>3 DEF Catalog, Reads

\* A server that serves over HTTP is not the one that is shipped.
ServesHTTPOnlyAudited == phase = "serving" /\ HTTP => server.core = "audited"

\* The tables of the scope policy miss a tool that changes something, and no plugin
\* can declare it: so the audit lets no server as shipped serve over HTTP, whatever
\* is installed, allowed or required (audit_tools, _load_configured_plugins).
THEOREM ShippedServesNoHTTP == Spec => []ServesHTTPOnlyAudited
<1>1. AccessInv => ServesHTTPOnlyAudited
  <2> SUFFICES ASSUME AccessInv, phase = "serving", HTTP, server.core = "shipped"
               PROVE  FALSE
    BY AccessAssumption DEF AccessInv, TypeOK, Server, ServesHTTPOnlyAudited
  <2>1. "update_camera" \in Core
    BY CameraUpdateHasNoScope DEF Core
  <2>2. "update_camera" \notin NamesOf(tools)
    BY <2>1 DEF AccessInv, PluginsWhole, NamesOf
  <2> QED
    BY <2>1, <2>2, CameraUpdateHasNoScope DEF AccessInv, Audited, Unaudited
<1> QED
  BY <1>1, AccessInvariant, PTL

=============================================================================
