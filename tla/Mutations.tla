----------------------------- MODULE Mutations -----------------------------
(***************************************************************************)
(* The tools that change a Network controller (tools/network): each finds  *)
(* its object in a listing that is read afresh or taken from the cache,    *)
(* sends one request through UniFiHTTPClient (clients/base.py), interprets *)
(* the answer and, for the safety-critical ones, reads back what it wrote  *)
(* (_verification.py).  Calls interleave with each other, with people at   *)
(* the controller's own console, with requests that arrive after their     *)
(* connection was given up, and with listings that lag behind.             *)
(*                                                                         *)
(* A tool is a record of how it does that.  An object is a network, a      *)
(* switch, a WLAN, a rule: its name and two settings, which for a network  *)
(* are the subnet and the DHCP pool, sound when they agree.                *)
(***************************************************************************)
EXTENDS Naturals, FiniteSets

CONSTANTS
  Ids,         \* record IDs of the controller
  Names,       \* names of objects
  Values,      \* values of a setting
  Absent,      \* no object
  Unread,      \* no cached listing
  Start,       \* what is at the controller at first
  Calls,       \* tool calls
  Requests,    \* what each may ask
  Edits,       \* what people at the console make of an object
  Attempts,    \* mutation_verify_attempts
  MaxConsole   \* bound: changes at the console

Keep == 0

Object == [name : Names, subnet : Values, pool : Values]
Store == [Ids -> Object \cup {Absent}]
Change == [subnet : Values \cup {Keep}, pool : Values \cup {Keep}]

-----------------------------------------------------------------------------
(* The tools.  "find" says where the object is looked for, "does" what     *)
(* else the tool takes care of:                                            *)
(*   confirm    refuses without confirm=true                               *)
(*   strict     refuses a name that several objects have                   *)
(*   pool       refuses a DHCP pool outside the subnet                     *)
(*   whole      sends the settings it read along with the changed one      *)
(*   preflight  tells a read that failed from a write that did             *)
(*   catches    turns every exception into an answer                       *)
(*   tells      reports a UniFiConnectionError as delivery_unknown         *)
(*   verifies   reads back what it wrote                                   *)

Tool == [op : {"create", "update", "delete", "command"}, find : {"none", "fresh", "cached"},
         does : SUBSET {"confirm", "strict", "pool", "whole", "preflight", "catches", "tells",
                        "verifies"}]

Careful == {"confirm", "catches", "tells", "verifies"}

\* Mutant of update_network: looks the network up in the cache.
update_network_Cached ==
  [op |-> "update", find |-> "cached", does |-> Careful \cup {"strict", "pool"}]

\* Mutant of set_device_port: merges into what the cache shows of the switch.
set_device_port_Cached ==
  [op |-> "update", find |-> "cached", does |-> Careful \cup {"whole", "preflight"}]

create_network == [op |-> "create", find |-> "none", does |-> Careful \cup {"pool"}]
update_network == [op |-> "update", find |-> "fresh", does |-> Careful \cup {"strict", "pool"}]
delete_network == [op |-> "delete", find |-> "fresh", does |-> Careful \cup {"strict"}]
set_device_port == [op |-> "update", find |-> "fresh", does |-> Careful \cup {"whole", "preflight"}]

create_wlan == [op |-> "create", find |-> "cached", does |-> {}]
update_wlan == [op |-> "update", find |-> "fresh", does |-> {}]
delete_wlan == [op |-> "delete", find |-> "fresh", does |-> {"confirm"}]
reserve_client_ip == update_wlan

create_port_forward == [op |-> "create", find |-> "none", does |-> {"catches"}]
delete_port_forward == [op |-> "delete", find |-> "cached", does |-> {"confirm"}]

create_firewall_policy == create_port_forward
set_firewall_policy_enabled == [op |-> "update", find |-> "cached", does |-> {"whole"}]
delete_firewall_policy == delete_port_forward

create_firewall_rule == [op |-> "create", find |-> "none", does |-> {}]
update_firewall_rule == [op |-> "update", find |-> "cached", does |-> {}]
delete_firewall_rule == delete_port_forward

update_site_settings == [op |-> "update", find |-> "none", does |-> {}]
set_client_blocked == update_site_settings
forget_client == [op |-> "delete", find |-> "none", does |-> {}]
device_command == [op |-> "command", find |-> "none", does |-> {}]

Tools ==
  {create_network, update_network, delete_network, set_device_port,
   create_wlan, update_wlan, delete_wlan, reserve_client_ip,
   create_port_forward, delete_port_forward,
   create_firewall_policy, set_firewall_policy_enabled, delete_firewall_policy,
   create_firewall_rule, update_firewall_rule, delete_firewall_rule,
   update_site_settings, set_client_blocked, forget_client, device_command}

\* Those that are given an ID (or a MAC address); the others that do not create
\* something are given a name or an ID.
ByID ==
  {set_device_port, delete_port_forward, set_firewall_policy_enabled, delete_firewall_policy,
   update_firewall_rule, delete_firewall_rule, update_site_settings, set_client_blocked,
   forget_client, device_command}

\* A new object is given a name and both settings, an update one of them at least.
Request == [tool : Tools, target : Ids \cup Names, change : Change, confirm : BOOLEAN]

ASSUME MutationsAssumption ==
  /\ Values \subseteq Nat \ {Keep} /\ Ids \cap Names = {} /\ "console" \notin Calls
  /\ Absent \notin Object /\ Absent \notin Ids /\ Unread \notin Store /\ Start \in Store
  /\ Requests \in [Calls -> SUBSET Request] /\ Edits \subseteq Object \cup {Absent}
  /\ \A c \in Calls : \A r \in Requests[c] :
       /\ r.tool.op = "create" => r.target \in Names /\ Keep \notin {r.change.subnet, r.change.pool}
       /\ r.tool.op = "update" => {r.change.subnet, r.change.pool} # {Keep}
       /\ r.tool \in ByID => r.target \in Ids
  /\ Attempts \in Nat \ {0} /\ MaxConsole \in Nat

-----------------------------------------------------------------------------
VARIABLES
  actual,   \* what is at the controller
  shown,    \* what its listings show
  cached,   \* the listing in the read cache
  call,     \* the tool calls
  console,  \* changes at the console so far
  bore,     \* history: what each call's target has meant, since the call began
  alone     \* history: nobody else has changed anything since then

vars == <<actual, shown, cached, call, console, bore, alone>>

Unsent == {"unconfirmed", "invalid", "not_found", "ambiguous", "unresolved", "preflight_failed"}
Results == Unsent \cup {"none", "raised", "rejected", "delivery_unknown",
                        "accepted_unverified", "success"}

Call == [pc : {"idle", "resolve", "sent", "verify", "done"}, ask : Request,
         id : Ids \cup {Absent}, read : Object \cup {Absent},
         wire : {"none", "sent", "applied", "refused"},
         intact : BOOLEAN, tries : 0 .. Attempts - 1, result : Results]

TypeOK ==
  /\ actual \in Store /\ shown \in Store
  /\ cached \in Store \cup {Unread}
  /\ call \in [Calls -> Call]
  /\ console \in 0 .. MaxConsole
  /\ bore \in [Calls -> SUBSET Ids]
  /\ alone \in [Calls -> BOOLEAN]

New(request) ==
  [pc |-> "idle", ask |-> request, id |-> Absent, read |-> Absent, wire |-> "none",
   intact |-> TRUE, tries |-> 0, result |-> "none"]

Init ==
  /\ actual = Start /\ shown = Start
  /\ cached = Unread
  /\ \E ask \in [Calls -> UNION {Requests[c] : c \in Calls}] :
       /\ \A c \in Calls : ask[c] \in Requests[c]
       /\ call = [c \in Calls |-> New(ask[c])]
  /\ console = 0
  /\ bore = [c \in Calls |-> {}]
  /\ alone = [c \in Calls |-> TRUE]

Does(c, what) == what \in call[c].ask.tool.does

-----------------------------------------------------------------------------
(* The controller. *)

\* Which objects a target may mean in a listing.
Matches(store, target) ==
  {i \in Ids : store[i] # Absent /\ target \in {i, store[i].name}}

\* Object i has become x, by call c or at the console.
Touch(i, x, c) ==
  /\ actual' = [actual EXCEPT ![i] = x]
  /\ bore' = [d \in Calls |-> bore[d] \cup Matches(actual', call[d].ask.target)]
  /\ alone' = [d \in Calls |-> alone[d] /\ d = c]

Console(i, x) ==
  /\ console < MaxConsole
  /\ console' = console + 1
  /\ Touch(i, x, "console")
  /\ UNCHANGED <<shown, cached, call>>

\* The listings catch up.
Converge ==
  /\ shown' = actual
  /\ UNCHANGED <<actual, cached, call, console, bore, alone>>

\* Someone else reads the listing through the cache.
Browse ==
  /\ cached = Unread
  /\ cached' = shown
  /\ UNCHANGED <<actual, shown, call, console, bore, alone>>

Evict ==
  /\ cached # Unread
  /\ cached' = Unread
  /\ UNCHANGED <<actual, shown, call, console, bore, alone>>

-----------------------------------------------------------------------------
(* A call, up to its request. *)

Merged(x, change) ==
  [x EXCEPT !.subnet = IF change.subnet = Keep THEN @ ELSE change.subnet,
            !.pool = IF change.pool = Keep THEN @ ELSE change.pool]

\* Mutant of Sound: an update that gives only one of them is not checked.
Sound_IfBoth(x, change) == Keep \in {change.subnet, change.pool} \/ change.subnet = change.pool

\* The pool is in the subnet once the change is made.
Sound(x, change) == Merged(x, change).subnet = Merged(x, change).pool

Now(c, fields) == call' = [call EXCEPT ![c] = fields]
End(c, result) == Now(c, [call[c] EXCEPT !.pc = "done", !.result = result])

\* UniFiHTTPClient.request empties the cache before it sends a write.
Send(c, i, x) ==
  /\ Now(c, [call[c] EXCEPT !.pc = "sent", !.wire = "sent", !.id = i, !.read = x])
  /\ cached' = Unread

Begin(c) ==
  LET ask == call[c].ask
      blank == [name |-> ask.target, subnet |-> Keep, pool |-> Keep]
  IN  /\ call[c].pc = "idle"
      /\ bore' = [bore EXCEPT ![c] = Matches(actual, ask.target) \cup Matches(shown, ask.target)]
      /\ alone' = [alone EXCEPT ![c] = (shown = actual)]
      /\ \/ /\ Does(c, "confirm") /\ ~ask.confirm
            /\ End(c, "unconfirmed")
            /\ UNCHANGED cached
         \/ /\ Does(c, "confirm") => ask.confirm
            /\ ask.tool.op = "create" /\ Does(c, "pool") /\ ~Sound(blank, ask.change)
            /\ End(c, "invalid")
            /\ UNCHANGED cached
         \/ /\ Does(c, "confirm") => ask.confirm
            /\ ask.tool.op = "create" /\ Does(c, "pool") => Sound(blank, ask.change)
            /\ IF ask.tool.find = "none"
               THEN Send(c, IF ask.tool.op = "create" THEN Absent ELSE ask.target, Absent)
               ELSE Now(c, [call[c] EXCEPT !.pc = "resolve"]) /\ UNCHANGED cached
      /\ UNCHANGED <<actual, shown, console>>

\* The listing is read, and what it shows decides.  Of several objects with the
\* name the first is taken, whichever that is.
Resolve(c) ==
  LET ask == call[c].ask
      listing == IF ask.tool.find = "cached" /\ cached # Unread THEN cached ELSE shown
      found == Matches(listing, ask.target)
  IN  /\ call[c].pc = "resolve"
      /\ \/ /\ ask.tool.op = "create"
            /\ Send(c, Absent, Absent)
         \/ /\ ask.tool.op # "create" /\ found = {}
            /\ End(c, "not_found")
            /\ cached' = listing
         \/ /\ ask.tool.op # "create" /\ Does(c, "strict") /\ Cardinality(found) > 1
            /\ End(c, "ambiguous")
            /\ cached' = listing
         \/ /\ ask.tool.op # "create" /\ (Does(c, "strict") => Cardinality(found) <= 1)
            /\ \E i \in found :
                 IF Does(c, "pool") /\ ~Sound(listing[i], ask.change)
                 THEN End(c, "invalid") /\ cached' = listing
                 ELSE Send(c, i, listing[i])
      /\ UNCHANGED <<actual, shown, console, bore, alone>>

\* The listing cannot be read.
ReadFails(c) ==
  /\ call[c].pc = "resolve"
  /\ \/ Does(c, "preflight") /\ (End(c, "preflight_failed") \/ End(c, "rejected"))
     \/ Does(c, "catches") /\ End(c, "unresolved")
     \/ ~Does(c, "catches") /\ End(c, "raised")
  /\ UNCHANGED <<actual, shown, cached, console, bore, alone>>

-----------------------------------------------------------------------------
(* The request and its answer. *)

\* What an update sends.
Body(c) ==
  LET ask == call[c].ask
      full == Merged(call[c].read, ask.change)
  IN  IF Does(c, "whole") THEN [subnet |-> full.subnet, pool |-> full.pool] ELSE ask.change

\* The controller carries the request out, perhaps after the call has ended.
Deliver(c) ==
  LET ask == call[c].ask
      i == call[c].id
  IN  /\ call[c].wire = "sent"
      /\ \/ /\ ask.tool.op = "create"
            /\ \E free \in Ids :
                 /\ actual[free] = Absent
                 /\ Touch(free, [name |-> ask.target, subnet |-> ask.change.subnet,
                                 pool |-> ask.change.pool], c)
                 /\ Now(c, [call[c] EXCEPT !.wire = "applied", !.id = free])
         \/ /\ ask.tool.op = "update" /\ actual[i] # Absent
            /\ Touch(i, Merged(actual[i], Body(c)), c)
            /\ Now(c, [call[c] EXCEPT !.wire = "applied"])
         \/ /\ ask.tool.op = "delete" /\ actual[i] # Absent
            /\ Touch(i, Absent, c)
            /\ Now(c, [call[c] EXCEPT !.wire = "applied"])
         \/ /\ ask.tool.op = "command"
            /\ Now(c, [call[c] EXCEPT !.wire = "applied"])
            /\ UNCHANGED <<actual, bore, alone>>
      /\ UNCHANGED <<shown, cached, console>>

\* It refuses, or cannot find the object.
Reject(c) ==
  /\ call[c].wire = "sent"
  /\ Now(c, [call[c] EXCEPT !.wire = "refused"])
  /\ UNCHANGED <<actual, shown, cached, console, bore, alone>>

\* However a write ends, UniFiHTTPClient.request empties the cache once more.
Answered(c) ==
  /\ call[c].pc = "sent"
  /\ cached' = Unread
  /\ UNCHANGED <<actual, shown, console, bore, alone>>

\* What a tool makes of an exception other than UniFiConnectionError.
Complaint(c) == IF Does(c, "catches") THEN "rejected" ELSE "raised"

\* A network that was created without telling its ID cannot be read back.
Accept(c) ==
  /\ Answered(c) /\ call[c].wire = "applied"
  /\ \/ /\ Does(c, "verifies")
        /\ Now(c, [call[c] EXCEPT !.pc = "verify"])
     \/ /\ Does(c, "verifies") /\ call[c].ask.tool.op = "create"
        /\ End(c, "accepted_unverified")
     \/ /\ ~Does(c, "verifies")
        /\ End(c, "success")

Refuse(c) ==
  /\ Answered(c) /\ call[c].wire = "refused"
  /\ End(c, Complaint(c))

\* The exchange ends by an exception that _make_request does not convert: the
\* connection breaks off (httpx.ReadError, WriteError, RemoteProtocolError), whether
\* the request has been carried out, is still under way or was refused, or the
\* answer that came cannot be read.
BreakOff(c) ==
  /\ Answered(c)
  /\ Now(c, [call[c] EXCEPT !.pc = "done", !.intact = FALSE, !.result = Complaint(c)])

\* Mutant of Lose: no connection and no answer are refusals.
Lose_Rejected(c) ==
  /\ Answered(c)
  /\ End(c, Complaint(c))

\* Mutant of Lose: no timeout.
Lose_Never(c) == FALSE

\* No connection (httpx.ConnectError), or no answer within the timeout
\* (httpx.TimeoutException): the two that become a UniFiConnectionError.
Lose(c) ==
  /\ Answered(c)
  /\ End(c, IF Does(c, "tells") THEN "delivery_unknown" ELSE Complaint(c))

Holds(store, c) ==
  LET x == store[call[c].id]
  IN  IF call[c].ask.tool.op = "delete" THEN x = Absent
      ELSE x # Absent /\ Merged(x, call[c].ask.change) = x

\* Mutant of GiveUp: tries once more than there are attempts.
GiveUp_Late(c) == call[c].tries = Attempts

GiveUp(c) == call[c].tries = Attempts - 1

\* A fresh listing is read back, or cannot be read.
Verify(c) ==
  /\ call[c].pc = "verify"
  /\ \/ /\ Holds(shown, c)
        /\ End(c, "success")
        /\ cached' = shown
     \/ /\ cached' = IF Holds(shown, c) THEN Unread ELSE shown
        /\ IF GiveUp(c) THEN End(c, "accepted_unverified")
           ELSE Now(c, [call[c] EXCEPT !.tries = @ + 1])
  /\ UNCHANGED <<actual, shown, console, bore, alone>>

-----------------------------------------------------------------------------
Proceed(c) == Resolve(c) \/ ReadFails(c) \/ Accept(c) \/ Refuse(c) \/ Lose(c) \/ Verify(c)
Step(c) == Proceed(c) \/ BreakOff(c)

Next ==
  \/ \E c \in Calls : Begin(c) \/ Step(c) \/ Deliver(c) \/ Reject(c)
  \/ \E i \in Ids, x \in Edits : Console(i, x)
  \/ Converge \/ Browse \/ Evict

Spec == Init /\ [][Next]_vars

\* asyncio and the timeout of every request let a call that has begun go on, whether
\* or not its connection ever breaks off.
FairSpec == Spec /\ \A c \in Calls : WF_vars(Proceed(c))

-----------------------------------------------------------------------------
(* Properties. *)

\* What a tool tells of its request is so, for whoever decides whether to try
\* again: nothing was sent, it was carried out, or (from the tools that know an
\* unanswered request from a refusal) it was refused and will not happen later.
\* Exchanges that break off are outside it: RejectedIsRefused is about them.
ToldTruth ==
  \A c \in Calls :
    /\ call[c].result \in Unsent => call[c].wire = "none"
    /\ call[c].result \in {"success", "accepted_unverified"} => call[c].wire = "applied"
    /\ call[c].result = "rejected" /\ Does(c, "tells") /\ call[c].intact =>
         call[c].wire \in {"none", "refused"}

\* What exceptions.py:45 and _verification.py:125 say of a mutation whose outcome
\* is unknown: the tools that have the answer delivery_unknown for it never report
\* as rejected what the controller carries out.  They do, when the exchange breaks
\* off: _make_request converts only two of httpx's errors.
RejectedIsRefused ==
  \A c \in Calls :
    call[c].result = "rejected" /\ Does(c, "tells") => call[c].wire # "applied"

\* A tool that is given a name never changes an object which the name has not
\* meant since the call began, whatever is renamed, deleted and created meanwhile
\* and whatever the cache holds.
MeantObject ==
  \A c \in Calls :
    call[c].ask.target \in Names /\ call[c].ask.tool.op # "create" /\ call[c].wire # "none"
    => call[c].id \in bore[c]

Carried(c) == call[c].wire = "sent" /\ call'[c].wire = "applied"

\* An update that nobody disturbs leaves the settings it was not asked to change
\* as they were, also when it sends the whole object: what it merged into was not
\* older than the call (set_firewall_policy_enabled alone reads through the cache).
KeepsTheRest ==
  [][\A c \in Calls :
       LET change == call[c].ask.change
           before == actual[call[c].id]
           after == actual'[call[c].id]
       IN  /\ Carried(c) /\ alone[c] /\ call[c].ask.tool.op = "update"
           /\ call[c].ask.tool # set_firewall_policy_enabled
           => /\ change.subnet = Keep => after.subnet = before.subnet
              /\ change.pool = Keep => after.pool = before.pool]_vars

\* A network tool that nobody disturbs leaves a network whose DHCP pool is in its
\* subnet, whichever of the two it was asked to change.
PoolStaysInSubnet ==
  [][\A c \in Calls :
       Carried(c) /\ alone[c] /\ Does(c, "pool") =>
         actual'[call'[c].id].subnet = actual'[call'[c].id].pool]_vars

\* Every call that has begun ends, also when the listings never show its change.
CallsEnd == \A c \in Calls : call[c].pc # "idle" ~> call[c].pc = "done"

=============================================================================
