-------------------------- MODULE MutationsProofs --------------------------
(* Proofs about the tools that change a controller. *)
EXTENDS Mutations, TLAPS

\* A change of an object yields an object.
LEMMA MergedObject ==
  ASSUME NEW x \in Object, NEW change \in Change
  PROVE  Merged(x, change) \in Object
BY DEF Merged, Object, Change

\* What the definitions of the tools have in common.
LEMMA ToolFacts ==
  ASSUME NEW t \in Tools
  PROVE  /\ t \in Tool
         /\ "whole" \in t.does => t.find # "none" /\ t.op = "update"
         /\ t.op # "create" /\ t \notin ByID => t.find = "fresh"
BY DEF Tools, Tool, ByID, Careful, create_network, update_network, delete_network, set_device_port,
   create_wlan, update_wlan, delete_wlan, reserve_client_ip,
   create_port_forward, delete_port_forward,
   create_firewall_policy, set_firewall_policy_enabled, delete_firewall_policy,
   create_firewall_rule, update_firewall_rule, delete_firewall_rule,
   update_site_settings, set_client_blocked, forget_client, device_command

\* The tools that check the pool read the network afresh, unless they create it.
LEMMA PoolTools ==
  ASSUME NEW t \in Tools, "pool" \in t.does
  PROVE  /\ (t.op = "create" /\ t.find = "none") \/ (t.op = "update" /\ t.find = "fresh")
         /\ "whole" \notin t.does
<1>1. t \in {create_network, update_network}
  BY DEF Tools, Careful, create_network, update_network, delete_network, set_device_port,
     create_wlan, update_wlan, delete_wlan, reserve_client_ip,
     create_port_forward, delete_port_forward,
     create_firewall_policy, set_firewall_policy_enabled, delete_firewall_policy,
     create_firewall_rule, update_firewall_rule, delete_firewall_rule,
     update_site_settings, set_client_blocked, forget_client, device_command
<1> QED
  BY <1>1 DEF Careful, create_network, update_network

LEMMA WholeTools ==
  ASSUME NEW t \in Tools, "whole" \in t.does, t # set_firewall_policy_enabled
  PROVE  t.find = "fresh"
BY DEF Tools, Careful, create_network, update_network, delete_network, set_device_port,
   create_wlan, update_wlan, delete_wlan, reserve_client_ip,
   create_port_forward, delete_port_forward,
   create_firewall_policy, set_firewall_policy_enabled, delete_firewall_policy,
   create_firewall_rule, update_firewall_rule, delete_firewall_rule,
   update_site_settings, set_client_blocked, forget_client, device_command

-----------------------------------------------------------------------------
(* Types. *)

\* No call asks anything but what it may.
Asked == \A c \in Calls : call[c].ask \in Requests[c]

\* What is sent as a whole has been read.
WholeRead ==
  \A c \in Calls : call[c].wire = "sent" /\ Does(c, "whole") => call[c].read \in Object

Typed == TypeOK /\ Asked /\ WholeRead

LEMMA RequestFacts ==
  ASSUME NEW c \in Calls, NEW r \in Requests[c]
  PROVE  /\ r \in Request
         /\ r.tool \in Tools /\ r.target \in Ids \cup Names /\ r.change \in Change
         /\ r.tool.op = "create" =>
              /\ r.target \in Names
              /\ r.change.subnet \in Values /\ r.change.pool \in Values
         /\ r.tool \in ByID => r.target \in Ids
<1>1. r \in Request
  BY MutationsAssumption
<1>2. r.tool \in Tools /\ r.target \in Ids \cup Names /\ r.change \in Change
  BY <1>1 DEF Request
<1>3. r.tool.op = "create" => r.target \in Names /\ Keep \notin {r.change.subnet, r.change.pool}
  BY MutationsAssumption
<1>4. r.tool \in ByID => r.target \in Ids
  BY MutationsAssumption
<1>5. r.change.subnet \in Values \cup {Keep} /\ r.change.pool \in Values \cup {Keep}
  BY <1>2 DEF Change
<1> QED
  BY <1>1, <1>2, <1>3, <1>4, <1>5

\* What Now leaves as it was, and what it makes of the call.
LEMMA NowSets ==
  ASSUME NEW c \in Calls, call \in [Calls -> Call], NEW f \in Call, Now(c, f)
  PROVE  /\ call' \in [Calls -> Call]
         /\ call'[c] = f
         /\ \A d \in Calls \ {c} : call'[d] = call[d]
BY DEF Now

LEMMA EndSets ==
  ASSUME NEW c \in Calls, call \in [Calls -> Call], NEW result \in Results, End(c, result)
  PROVE  /\ call' \in [Calls -> Call]
         /\ call'[c] = [call[c] EXCEPT !.pc = "done", !.result = result]
         /\ \A d \in Calls \ {c} : call'[d] = call[d]
<1>1. [call[c] EXCEPT !.pc = "done", !.result = result] \in Call
  <2>1. call[c] \in Call
    OBVIOUS
  <2> QED
    BY <2>1 DEF Call
<1> QED
  BY <1>1, NowSets DEF End

\* A changed object leaves the controller and the histories well typed.
LEMMA TouchTyped ==
  ASSUME TypeOK, NEW i, NEW x \in Object \cup {Absent}, NEW c, Touch(i, x, c)
  PROVE  actual' \in Store /\ bore' \in [Calls -> SUBSET Ids] /\ alone' \in [Calls -> BOOLEAN]
BY DEF TypeOK, Touch, Store, Matches

LEMMA TypedInit == Init => Typed
<1> SUFFICES ASSUME Init PROVE Typed
  OBVIOUS
<1>1. PICK ask \in [Calls -> UNION {Requests[c] : c \in Calls}] :
        /\ \A c \in Calls : ask[c] \in Requests[c]
        /\ call = [c \in Calls |-> New(ask[c])]
  BY DEF Init
<1>2. ASSUME NEW c \in Calls
      PROVE  call[c] \in Call /\ call[c].ask \in Requests[c] /\ call[c].wire = "none"
  <2>1. call[c] = New(ask[c])
    BY <1>1
  <2>2. ask[c] \in Request
    BY <1>1, RequestFacts
  <2> QED
    BY <2>1, <2>2, <1>1, MutationsAssumption DEF New, Call, Results
<1>3. call \in [Calls -> Call]
  BY <1>1, <1>2
<1>4. 0 \in 0 .. MaxConsole
  BY MutationsAssumption
<1>5. actual \in Store /\ shown \in Store /\ cached \in Store \cup {Unread} /\ console \in 0 .. MaxConsole
  BY <1>4, MutationsAssumption DEF Init
<1>6. bore \in [Calls -> SUBSET Ids] /\ alone \in [Calls -> BOOLEAN]
  BY DEF Init
<1> QED
  BY <1>2, <1>3, <1>5, <1>6 DEF Typed, TypeOK, Asked, WholeRead

\* One step of a call.
LEMMA TypedCall ==
  ASSUME Typed, NEW c \in Calls, Begin(c) \/ Step(c) \/ Deliver(c) \/ Reject(c)
  PROVE  Typed'
<1> USE DEF Typed, TypeOK
<1>a. call[c] \in Call /\ call[c].ask \in Requests[c]
  BY DEF Asked
<1>b. /\ call[c].ask \in Request /\ call[c].ask.tool \in Tools /\ call[c].ask.target \in Ids \cup Names
      /\ call[c].ask.change \in Change
      /\ call[c].ask.tool.op = "create" =>
           /\ call[c].ask.target \in Names
           /\ call[c].ask.change.subnet \in Values /\ call[c].ask.change.pool \in Values
      /\ call[c].ask.tool \in ByID => call[c].ask.target \in Ids
  BY <1>a, RequestFacts
<1>c. /\ call[c].pc \in {"idle", "resolve", "sent", "verify", "done"}
      /\ call[c].id \in Ids \cup {Absent} /\ call[c].read \in Object \cup {Absent}
      /\ call[c].tries \in 0 .. Attempts - 1
  BY <1>a DEF Call
<1>d. ASSUME NEW result \in Results, End(c, result)
      PROVE  call' \in [Calls -> Call] /\ Asked' /\ WholeRead'
  <2>1. /\ call'[c].ask = call[c].ask /\ call'[c].wire = call[c].wire /\ call'[c].read = call[c].read
        /\ call' \in [Calls -> Call] /\ \A d \in Calls \ {c} : call'[d] = call[d]
    <3> DEFINE f == [call[c] EXCEPT !.pc = "done", !.result = result]
    <3>1. f \in Call /\ f.ask = call[c].ask /\ f.wire = call[c].wire /\ f.read = call[c].read
      BY <1>d, <1>a DEF Call
    <3>2. Now(c, f)
      BY <1>d DEF End
    <3> HIDE DEF f
    <3>3. call' \in [Calls -> Call] /\ call'[c] = f /\ \A d \in Calls \ {c} : call'[d] = call[d]
      BY <3>1, <3>2, NowSets
    <3> QED
      BY <3>1, <3>3
  <2> QED
    BY <2>1 DEF Asked, WholeRead, Does
<1>e. ASSUME NEW i \in Ids \cup {Absent}, NEW x \in Object \cup {Absent}, Send(c, i, x),
             Does(c, "whole") => x \in Object
      PROVE  call' \in [Calls -> Call] /\ Asked' /\ WholeRead' /\ cached' = Unread
  <2>1. /\ call'[c].ask = call[c].ask /\ call'[c].read = x
        /\ call' \in [Calls -> Call] /\ \A d \in Calls \ {c} : call'[d] = call[d]
        /\ cached' = Unread
    <3> DEFINE f == [call[c] EXCEPT !.pc = "sent", !.wire = "sent", !.id = i, !.read = x]
    <3>1. f \in Call /\ f.ask = call[c].ask /\ f.read = x
      BY <1>a DEF Call
    <3>2. Now(c, f) /\ cached' = Unread
      BY <1>e DEF Send
    <3> HIDE DEF f
    <3>3. call' \in [Calls -> Call] /\ call'[c] = f /\ \A d \in Calls \ {c} : call'[d] = call[d]
      BY <3>1, <3>2, NowSets
    <3> QED
      BY <3>1, <3>2, <3>3
  <2> QED
    BY <2>1, <1>e DEF Asked, WholeRead, Does
<1>f. ASSUME NEW f \in Call, f.ask = call[c].ask, Now(c, f),
             f.wire = "sent" => call[c].wire = "sent" /\ f.read = call[c].read
      PROVE  call' \in [Calls -> Call] /\ Asked' /\ WholeRead'
  <2>1. /\ call'[c] = f
        /\ call' \in [Calls -> Call] /\ \A d \in Calls \ {c} : call'[d] = call[d]
    BY <1>f, NowSets
  <2> QED
    BY <2>1, <1>f DEF Asked, WholeRead, Does
<1>1. CASE Begin(c)
  <2>1. /\ bore' \in [Calls -> SUBSET Ids] /\ alone' \in [Calls -> BOOLEAN]
        /\ UNCHANGED <<actual, shown, console>>
    BY <1>1 DEF Begin, Matches
  <2>2. call' \in [Calls -> Call] /\ Asked' /\ WholeRead' /\ cached' \in Store \cup {Unread}
    <3>1. CASE End(c, "unconfirmed") /\ UNCHANGED cached
      BY <3>1, <1>d DEF Results, Unsent
    <3>2. CASE End(c, "invalid") /\ UNCHANGED cached
      BY <3>2, <1>d DEF Results, Unsent
    <3>3. CASE /\ call[c].ask.tool.find = "none"
               /\ Send(c, IF call[c].ask.tool.op = "create" THEN Absent ELSE call[c].ask.target, Absent)
      <4>1. call[c].ask.tool.op # "create" => call[c].ask.target \in Ids
        BY <3>3, <1>b, ToolFacts
      <4>2. ~Does(c, "whole")
        BY <3>3, <1>b, ToolFacts DEF Does
      <4> QED
        BY <3>3, <4>1, <4>2, <1>e
    <3>4. CASE Now(c, [call[c] EXCEPT !.pc = "resolve"]) /\ UNCHANGED cached
      <4>1. [call[c] EXCEPT !.pc = "resolve"] \in Call
        BY <1>a DEF Call
      <4>2. /\ [call[c] EXCEPT !.pc = "resolve"].ask = call[c].ask
            /\ [call[c] EXCEPT !.pc = "resolve"].wire = call[c].wire
            /\ [call[c] EXCEPT !.pc = "resolve"].read = call[c].read
        BY <1>a DEF Call
      <4> QED
        BY <3>4, <4>1, <4>2, <1>f
    <3> QED
      BY <1>1, <3>1, <3>2, <3>3, <3>4 DEF Begin
  <2> QED
    BY <2>1, <2>2
<1>2. CASE Resolve(c)
  <2> DEFINE listing == IF call[c].ask.tool.find = "cached" /\ cached # Unread THEN cached ELSE shown
  <2>1. listing \in Store
    OBVIOUS
  <2>2. call' \in [Calls -> Call] /\ Asked' /\ WholeRead' /\ cached' \in Store \cup {Unread}
    <3>1. CASE call[c].ask.tool.op = "create" /\ Send(c, Absent, Absent)
      BY <3>1, <1>b, <1>e, ToolFacts DEF Does
    <3>2. CASE (End(c, "not_found") \/ End(c, "ambiguous") \/ End(c, "invalid")) /\ cached' = listing
      <4>1. {"not_found", "ambiguous", "invalid"} \subseteq Results
        BY DEF Results, Unsent
      <4> QED
        BY <3>2, <4>1, <2>1, <1>d
    <3>3. ASSUME NEW i \in Matches(listing, call[c].ask.target), Send(c, i, listing[i])
          PROVE  call' \in [Calls -> Call] /\ Asked' /\ WholeRead' /\ cached' \in Store \cup {Unread}
      <4>1. i \in Ids /\ listing[i] \in Object
        BY <2>1 DEF Matches, Store
      <4> QED
        BY <3>3, <4>1, <1>e
    <3> QED
      BY <1>2, <3>1, <3>2, <3>3 DEF Resolve
  <2>3. UNCHANGED <<actual, shown, console, bore, alone>>
    BY <1>2 DEF Resolve
  <2> QED
    BY <2>2, <2>3
<1>3. CASE ReadFails(c)
  <2>1. {"preflight_failed", "rejected", "unresolved", "raised"} \subseteq Results
    BY DEF Results, Unsent
  <2> QED
    BY <1>3, <2>1, <1>d DEF ReadFails
<1>4. CASE Accept(c)
  <2>1. {"accepted_unverified", "success"} \subseteq Results
    BY DEF Results
  <2>2. /\ [call[c] EXCEPT !.pc = "verify"] \in Call
        /\ [call[c] EXCEPT !.pc = "verify"].ask = call[c].ask
        /\ [call[c] EXCEPT !.pc = "verify"].wire = call[c].wire
        /\ [call[c] EXCEPT !.pc = "verify"].read = call[c].read
    BY <1>a DEF Call
  <2>3. call' \in [Calls -> Call] /\ Asked' /\ WholeRead'
    BY <1>4, <2>1, <2>2, <1>d, <1>f DEF Accept
  <2> QED
    BY <1>4, <2>3 DEF Accept, Answered
<1>5. CASE Refuse(c) \/ Lose(c)
  <2>1. Complaint(c) \in Results /\ "delivery_unknown" \in Results
    BY DEF Results, Complaint
  <2>2. call' \in [Calls -> Call] /\ Asked' /\ WholeRead'
    BY <1>5, <2>1, <1>d DEF Refuse, Lose
  <2> QED
    BY <1>5, <2>2 DEF Refuse, Lose, Answered
<1>6. CASE BreakOff(c)
  <2>1. Complaint(c) \in Results
    BY DEF Results, Complaint
  <2>2. [call[c] EXCEPT !.pc = "done", !.intact = FALSE, !.result = Complaint(c)] \in Call
    BY <2>1, <1>a DEF Call
  <2>3. LET f == [call[c] EXCEPT !.pc = "done", !.intact = FALSE, !.result = Complaint(c)]
        IN  f.ask = call[c].ask /\ f.wire = call[c].wire /\ f.read = call[c].read
    BY <1>a DEF Call
  <2>4. call' \in [Calls -> Call] /\ Asked' /\ WholeRead'
    BY <1>6, <2>2, <2>3, <1>f DEF BreakOff
  <2> QED
    BY <1>6, <2>4 DEF BreakOff, Answered
<1>7. CASE Verify(c)
  <2>1. {"accepted_unverified", "success"} \subseteq Results
    BY DEF Results
  <2>2. ASSUME ~GiveUp(c)
        PROVE  /\ [call[c] EXCEPT !.tries = @ + 1] \in Call
               /\ [call[c] EXCEPT !.tries = @ + 1].ask = call[c].ask
               /\ [call[c] EXCEPT !.tries = @ + 1].wire = call[c].wire
               /\ [call[c] EXCEPT !.tries = @ + 1].read = call[c].read
    <3>1. call[c].tries + 1 \in 0 .. Attempts - 1
      BY <2>2, <1>c, MutationsAssumption DEF GiveUp
    <3> QED
      BY <3>1, <1>a DEF Call
  <2>3. call' \in [Calls -> Call] /\ Asked' /\ WholeRead'
    BY <1>7, <2>1, <2>2, <1>d, <1>f DEF Verify
  <2> QED
    BY <1>7, <2>3 DEF Verify
<1>8. CASE Deliver(c)
  <2>1. /\ [call[c] EXCEPT !.wire = "applied"] \in Call
        /\ [call[c] EXCEPT !.wire = "applied"].ask = call[c].ask
        /\ [call[c] EXCEPT !.wire = "applied"].wire = "applied"
    BY <1>a DEF Call
  <2>2. CASE /\ call[c].ask.tool.op = "create"
             /\ \E free \in Ids :
                 /\ actual[free] = Absent
                 /\ Touch(free, [name |-> call[c].ask.target, subnet |-> call[c].ask.change.subnet,
                                 pool |-> call[c].ask.change.pool], c)
                 /\ Now(c, [call[c] EXCEPT !.wire = "applied", !.id = free])
    <3>1. PICK free \in Ids :
                 /\ Touch(free, [name |-> call[c].ask.target, subnet |-> call[c].ask.change.subnet,
                                 pool |-> call[c].ask.change.pool], c)
                 /\ Now(c, [call[c] EXCEPT !.wire = "applied", !.id = free])
      BY <2>2
    <3>2. [name |-> call[c].ask.target, subnet |-> call[c].ask.change.subnet,
           pool |-> call[c].ask.change.pool] \in Object
      BY <2>2, <1>b DEF Object
    <3>3. /\ [call[c] EXCEPT !.wire = "applied", !.id = free] \in Call
          /\ [call[c] EXCEPT !.wire = "applied", !.id = free].ask = call[c].ask
          /\ [call[c] EXCEPT !.wire = "applied", !.id = free].wire = "applied"
      BY <1>a DEF Call
    <3> QED
      BY <3>1, <3>2, <3>3, <1>8, <1>f, TouchTyped DEF Deliver
  <2>3. CASE /\ call[c].ask.tool.op = "update" /\ actual[call[c].id] # Absent
             /\ Touch(call[c].id, Merged(actual[call[c].id], Body(c)), c)
             /\ Now(c, [call[c] EXCEPT !.wire = "applied"])
    <3>1. call' \in [Calls -> Call] /\ Asked' /\ WholeRead'
      BY <2>3, <2>1, <1>f
    <3>2. bore' \in [Calls -> SUBSET Ids] /\ alone' \in [Calls -> BOOLEAN]
      BY <2>3 DEF Touch, Matches
    <3>3. actual' \in Store
      <4>1. CASE call[c].id \in Ids
        <5>1. actual[call[c].id] \in Object
          BY <4>1, <2>3 DEF Store
        <5>2. Merged(actual[call[c].id], Body(c)) \in Object
          <6>1. Body(c) \in Change
            <7>1. CASE Does(c, "whole")
              <8>1. call[c].read \in Object
                BY <7>1, <1>8 DEF Deliver, WholeRead
              <8>2. Merged(call[c].read, call[c].ask.change) \in Object
                BY <8>1, <1>b, MergedObject
              <8> QED
                BY <7>1, <8>2 DEF Body, Object, Change
            <7>2. CASE ~Does(c, "whole")
              BY <7>2, <1>b DEF Body
            <7> QED
              BY <7>1, <7>2
          <6> QED
            BY <5>1, <6>1, MergedObject
        <5> QED
          BY <5>2, <2>3 DEF Touch, Store
      <4>2. CASE call[c].id \notin Ids
        BY <4>2, <2>3 DEF Touch, Store
      <4> QED
        BY <4>1, <4>2
    <3> QED
      BY <3>1, <3>2, <3>3, <1>8 DEF Deliver
  <2>4. CASE /\ call[c].ask.tool.op = "delete"
             /\ Touch(call[c].id, Absent, c) /\ Now(c, [call[c] EXCEPT !.wire = "applied"])
    BY <2>4, <2>1, <1>8, <1>f, TouchTyped DEF Deliver
  <2>5. CASE Now(c, [call[c] EXCEPT !.wire = "applied"]) /\ UNCHANGED <<actual, bore, alone>>
    BY <2>5, <2>1, <1>8, <1>f DEF Deliver
  <2> QED
    BY <2>2, <2>3, <2>4, <2>5, <1>8 DEF Deliver
<1>9. CASE Reject(c)
  <2>1. /\ [call[c] EXCEPT !.wire = "refused"] \in Call
        /\ [call[c] EXCEPT !.wire = "refused"].ask = call[c].ask
        /\ [call[c] EXCEPT !.wire = "refused"].wire = "refused"
    BY <1>a DEF Call
  <2> QED
    BY <2>1, <1>9, <1>f DEF Reject
<1> QED
  BY <1>1, <1>2, <1>3, <1>4, <1>5, <1>6, <1>7, <1>8, <1>9 DEF Step, Proceed

\* The types hold throughout.
LEMMA TypedStep ==
  ASSUME Typed, [Next]_vars
  PROVE  Typed'
<1>1. ASSUME NEW c \in Calls, Begin(c) \/ Step(c) \/ Deliver(c) \/ Reject(c)
      PROVE  Typed'
  BY <1>1, TypedCall
<1>2. ASSUME NEW i \in Ids, NEW x \in Edits, Console(i, x)
      PROVE  Typed'
  <2>1. x \in Object \cup {Absent}
    BY MutationsAssumption
  <2>2. actual' \in Store /\ bore' \in [Calls -> SUBSET Ids] /\ alone' \in [Calls -> BOOLEAN]
    BY <1>2, <2>1, TouchTyped DEF Console, Typed
  <2>3. console' \in 0 .. MaxConsole
    BY <1>2, MutationsAssumption DEF Console, Typed, TypeOK
  <2> QED
    BY <1>2, <2>2, <2>3 DEF Console, Typed, TypeOK, Asked, WholeRead, Does
<1>3. CASE Converge \/ Browse \/ Evict \/ UNCHANGED vars
  BY <1>3 DEF Converge, Browse, Evict, vars, Typed, TypeOK, Asked, WholeRead, Does
<1> QED
  BY <1>1, <1>2, <1>3 DEF Next

\* Every state of the tool calls, the controller and the cache is well typed.
THEOREM TypeCorrect == Spec => []TypeOK
<1>1. Init => Typed
  BY TypedInit
<1>2. Typed /\ [Next]_vars => Typed'
  BY TypedStep
<1>3. Typed => TypeOK
  BY DEF Typed
<1> QED
  BY <1>1, <1>2, <1>3, PTL DEF Spec

-----------------------------------------------------------------------------
(* What a call has told so far goes with what has become of its request. *)

Told(r) ==
  /\ r.pc \in {"idle", "resolve"} => r.wire = "none" /\ r.result = "none"
  /\ r.pc = "sent" => r.wire # "none" /\ r.result = "none"
  /\ r.pc = "verify" => r.wire = "applied" /\ r.result = "none"
  /\ r.result \in Unsent => r.wire = "none"
  /\ r.result \in {"success", "accepted_unverified"} => r.wire = "applied"
  /\ r.result = "rejected" /\ "tells" \in r.ask.tool.does /\ r.intact => r.wire \in {"none", "refused"}

AllTold == \A c \in Calls : Told(call[c])

LEMMA ToldCall ==
  ASSUME Typed, AllTold, NEW c \in Calls, Begin(c) \/ Step(c) \/ Deliver(c) \/ Reject(c)
  PROVE  AllTold'
<1> DEFINE r == call[c]
<1>a. r \in Call /\ call \in [Calls -> Call] /\ Told(r)
  BY DEF Typed, TypeOK, AllTold
<1>d. ASSUME NEW result \in Results \ {"none"}, End(c, result),
             result \in Unsent => r.wire = "none",
             result \in {"success", "accepted_unverified"} => r.wire = "applied",
             result = "rejected" /\ "tells" \in r.ask.tool.does /\ r.intact => r.wire \in {"none", "refused"}
      PROVE  AllTold'
  <2>1. /\ call'[c] = [r EXCEPT !.pc = "done", !.result = result]
        /\ \A d \in Calls \ {c} : call'[d] = call[d]
    BY <1>d, <1>a, EndSets
  <2>2. Told([r EXCEPT !.pc = "done", !.result = result])
    BY <1>d, <1>a DEF Told, Call
  <2> QED
    BY <2>1, <2>2 DEF AllTold
<1>e. ASSUME NEW i, NEW x, Send(c, i, x), r.result = "none"
      PROVE  AllTold'
  <2>1. /\ call'[c] = [r EXCEPT !.pc = "sent", !.wire = "sent", !.id = i, !.read = x]
        /\ \A d \in Calls \ {c} : call'[d] = call[d]
    BY <1>e, <1>a DEF Send, Now
  <2>2. Told([r EXCEPT !.pc = "sent", !.wire = "sent", !.id = i, !.read = x])
    BY <1>e, <1>a DEF Told, Call, Unsent
  <2> QED
    BY <2>1, <2>2 DEF AllTold
<1>f. ASSUME NEW f, Told(f), Now(c, f)
      PROVE  AllTold'
  BY <1>f, <1>a DEF AllTold, Now
<1>g. Complaint(c) \in {"rejected", "raised"}
  BY DEF Complaint
<1>1. CASE Begin(c)
  <2>1. r.pc = "idle" /\ r.wire = "none" /\ r.result = "none"
    BY <1>1, <1>a DEF Begin, Told
  <2>2. CASE End(c, "unconfirmed") \/ End(c, "invalid")
    BY <2>1, <2>2, <1>d DEF Results, Unsent
  <2>3. CASE Now(c, [r EXCEPT !.pc = "resolve"])
    <3>1. Told([r EXCEPT !.pc = "resolve"])
      BY <2>1, <1>a DEF Told, Call, Unsent
    <3> QED
      BY <2>3, <3>1, <1>f
  <2>4. CASE \E i, x : Send(c, i, x)
    BY <2>1, <2>4, <1>e
  <2> QED
    BY <1>1, <2>2, <2>3, <2>4 DEF Begin
<1>2. CASE Resolve(c)
  <2>1. r.pc = "resolve" /\ r.wire = "none" /\ r.result = "none"
    BY <1>2, <1>a DEF Resolve, Told
  <2>2. CASE End(c, "not_found") \/ End(c, "ambiguous") \/ End(c, "invalid")
    BY <2>1, <2>2, <1>d DEF Results, Unsent
  <2>3. CASE \E i, x : Send(c, i, x)
    BY <2>1, <2>3, <1>e
  <2> QED
    BY <1>2, <2>2, <2>3 DEF Resolve
<1>3. CASE ReadFails(c)
  <2>1. r.pc = "resolve" /\ r.wire = "none"
    BY <1>3, <1>a DEF ReadFails, Told
  <2> QED
    BY <1>3, <2>1, <1>d DEF ReadFails, Results, Unsent
<1>4. CASE Accept(c)
  <2>1. r.pc = "sent" /\ r.wire = "applied" /\ r.result = "none"
    BY <1>4, <1>a DEF Accept, Answered, Told
  <2>2. Told([r EXCEPT !.pc = "verify"])
    BY <2>1, <1>a DEF Told, Call, Unsent
  <2> QED
    BY <1>4, <2>1, <2>2, <1>d, <1>f DEF Accept, Results, Unsent
<1>5. CASE Refuse(c)
  <2>1. r.wire = "refused" /\ End(c, Complaint(c))
    BY <1>5 DEF Refuse
  <2> QED
    BY <2>1, <1>g, <1>d DEF Results, Unsent
<1>6. CASE Lose(c)
  <2>1. CASE Does(c, "tells") /\ End(c, "delivery_unknown")
    BY <2>1, <1>d DEF Results, Unsent
  <2>2. CASE ~Does(c, "tells") /\ End(c, Complaint(c))
    BY <2>2, <1>g, <1>d DEF Results, Unsent, Does
  <2> QED
    BY <1>6, <2>1, <2>2 DEF Lose
<1>7. CASE BreakOff(c)
  <2> DEFINE f == [r EXCEPT !.pc = "done", !.intact = FALSE, !.result = Complaint(c)]
  <2>1. Told(f)
    BY <1>a, <1>g DEF Told, Call, Unsent
  <2>2. Now(c, f)
    BY <1>7 DEF BreakOff
  <2> QED
    BY <2>1, <2>2, <1>f
<1>8. CASE Verify(c)
  <2>1. r.pc = "verify" /\ r.wire = "applied" /\ r.result = "none"
    BY <1>8, <1>a DEF Verify, Told
  <2>2. Told([r EXCEPT !.tries = @ + 1])
    BY <2>1, <1>a DEF Told, Call, Unsent
  <2> QED
    BY <1>8, <2>1, <2>2, <1>d, <1>f DEF Verify, Results, Unsent
<1>9. CASE Deliver(c)
  <2>1. r.wire = "sent"
    BY <1>9 DEF Deliver
  <2>2. \A i : Told([r EXCEPT !.wire = "applied", !.id = i]) /\ Told([r EXCEPT !.wire = "applied"])
    BY <2>1, <1>a DEF Told, Call
  <2> QED
    BY <1>9, <2>2, <1>f DEF Deliver
<1>10. CASE Reject(c)
  <2>1. r.wire = "sent" /\ Now(c, [r EXCEPT !.wire = "refused"])
    BY <1>10 DEF Reject
  <2>2. Told([r EXCEPT !.wire = "refused"])
    BY <2>1, <1>a DEF Told, Call
  <2> QED
    BY <2>1, <2>2, <1>f
<1> QED
  BY <1>1, <1>2, <1>3, <1>4, <1>5, <1>6, <1>7, <1>8, <1>9, <1>10 DEF Step, Proceed

\* No tool reports success of a write that was not carried out, or a refusal of
\* one that may still be, and what it says was not sent was not.
THEOREM TruthIsTold == Spec => []ToldTruth
<1>1. Init => Typed /\ AllTold
  <2>1. ASSUME Init, NEW c \in Calls PROVE Told(call[c])
    <3>1. call[c].pc = "idle" /\ call[c].wire = "none" /\ call[c].result = "none"
      BY <2>1 DEF Init, New
    <3> QED
      BY <3>1 DEF Told, Unsent
  <2> QED
    BY <2>1, TypedInit DEF AllTold
<1>2. Typed /\ AllTold /\ [Next]_vars => (Typed /\ AllTold)'
  <2> SUFFICES ASSUME Typed, AllTold, [Next]_vars PROVE AllTold'
    BY TypedStep
  <2>1. CASE \E c \in Calls : Begin(c) \/ Step(c) \/ Deliver(c) \/ Reject(c)
    BY <2>1, ToldCall
  <2>2. CASE UNCHANGED call
    BY <2>2 DEF AllTold
  <2> QED
    BY <2>1, <2>2 DEF Next, Console, Converge, Browse, Evict, vars
<1>3. AllTold => ToldTruth
  BY DEF AllTold, Told, ToldTruth, Does
<1> QED
  BY <1>1, <1>2, <1>3, PTL DEF Spec

-----------------------------------------------------------------------------
(* The object a call writes to, and what it knows of it. *)

Blank(r) == [name |-> r.ask.target, subnet |-> Keep, pool |-> Keep]

\* The target of a call that has found, or is looking for, its object.
Meant(c) ==
  LET r == call[c]
  IN  r.ask.tool.op # "create" =>
        /\ r.pc = "resolve" =>
             Matches(shown, r.ask.target) \cup Matches(actual, r.ask.target) \subseteq bore[c]
        /\ r.wire # "none" => r.id \in Ids
        /\ r.wire # "none" /\ r.ask.target \in Names => r.id \in bore[c]

\* What a call that nobody has disturbed knows is still so.
Known(c) ==
  LET r == call[c]
  IN  /\ r.pc = "resolve" => r.ask.tool.find # "none"
      /\ alone[c] /\ r.pc # "idle" /\ r.wire \in {"none", "sent"} => shown = actual
      /\ r.wire = "sent" /\ r.ask.tool.op # "create" /\ r.ask.tool.find = "fresh" =>
           /\ r.read \in Object
           /\ alone[c] => r.read = actual[r.id]
           /\ "pool" \in r.ask.tool.does => Sound(r.read, r.ask.change)
      /\ r.wire = "sent" /\ r.ask.tool.op = "create" /\ "pool" \in r.ask.tool.does =>
           Sound(Blank(r), r.ask.change)

Knowledge == \A c \in Calls : Meant(c) /\ Known(c)

LEMMA KnowledgeStep ==
  ASSUME Typed, AllTold, Knowledge, [Next]_vars
  PROVE  Knowledge'
<1> SUFFICES ASSUME NEW c \in Calls PROVE (Meant(c) /\ Known(c))'
  BY DEF Knowledge
<1> DEFINE r == call[c]
<1>a. /\ r \in Call /\ call \in [Calls -> Call] /\ Told(r) /\ Meant(c) /\ Known(c)
      /\ actual \in Store /\ shown \in Store /\ bore \in [Calls -> SUBSET Ids] /\ alone \in [Calls -> BOOLEAN]
  BY DEF Typed, TypeOK, AllTold, Knowledge
<1>b. /\ r.ask.tool \in Tools /\ r.ask.change \in Change
      /\ r.ask.tool.op = "create" => r.ask.target \in Names
      /\ r.ask.tool \in ByID => r.ask.target \in Ids
  BY RequestFacts DEF Typed, Asked
<1>c. ASSUME call'[c].ask = r.ask, call'[c].id = r.id, call'[c].read = r.read,
             call'[c].pc = r.pc \/ (r.pc # "idle" /\ call'[c].pc # "resolve"),
             \/ call'[c].wire = r.wire
             \/ call'[c].wire \in {"applied", "refused"} /\ r.wire # "none",
             UNCHANGED <<actual, shown, bore, alone>>
      PROVE  (Meant(c) /\ Known(c))'
  <2>1. actual' = actual /\ shown' = shown /\ bore'[c] = bore[c] /\ alone'[c] = alone[c]
    BY <1>c
  <2> QED
    BY <2>1, <1>c, <1>a DEF Meant, Known, Blank, Sound, Merged, Matches
<1>d. ASSUME NEW result, End(c, result), r.pc # "idle", UNCHANGED <<actual, shown, bore, alone>>
      PROVE  (Meant(c) /\ Known(c))'
  <2> DEFINE f == [r EXCEPT !.pc = "done", !.result = result]
  <2>1. f.ask = r.ask /\ f.id = r.id /\ f.read = r.read /\ f.pc = "done" /\ f.wire = r.wire
    BY <1>a DEF Call
  <2>2. call'[c] = f
    BY <1>d, <1>a DEF End, Now
  <2> HIDE DEF f
  <2> QED
    BY <2>1, <2>2, <1>d, <1>c
<1>e. ASSUME NEW d \in Calls \ {c}, Begin(d) \/ Step(d) \/ Deliver(d) \/ Reject(d)
      PROVE  (Meant(c) /\ Known(c))'
  <2>1. call'[c] = call[c]
    <3>1. ASSUME NEW f, Now(d, f) PROVE call'[c] = call[c]
      BY <3>1, <1>a DEF Now
    <3>2. ASSUME NEW result, End(d, result) PROVE call'[c] = call[c]
      BY <3>1, <3>2 DEF End
    <3>3. ASSUME NEW i, NEW x, Send(d, i, x) PROVE call'[c] = call[c]
      BY <3>1, <3>3 DEF Send
    <3>4. CASE Begin(d)
      BY <3>1, <3>2, <3>3, <3>4 DEF Begin
    <3>5. CASE Resolve(d)
      BY <3>2, <3>3, <3>5 DEF Resolve
    <3>6. CASE Deliver(d)
      BY <3>1, <3>6 DEF Deliver
    <3>7. CASE Reject(d) \/ BreakOff(d)
      BY <3>1, <3>7 DEF Reject, BreakOff
    <3>8. CASE ReadFails(d) \/ Refuse(d) \/ Lose(d)
      BY <3>2, <3>8 DEF ReadFails, Refuse, Lose
    <3>9. CASE Accept(d) \/ Verify(d)
      BY <3>1, <3>2, <3>9 DEF Accept, Verify
    <3> QED
      BY <1>e, <3>4, <3>5, <3>6, <3>7, <3>8, <3>9 DEF Step, Proceed
  <2>2. shown' = shown
    BY <1>e DEF Begin, Step, Proceed, Deliver, Reject, Resolve, ReadFails, Accept, Refuse, BreakOff, Lose, Verify,
                Answered
  <2>3. CASE Deliver(d) /\ ~UNCHANGED <<actual, bore, alone>>
    <3>1. PICK i, x : Touch(i, x, d)
      BY <2>3 DEF Deliver
    <3>2. bore[c] \subseteq bore'[c] /\ Matches(actual', call[c].ask.target) \subseteq bore'[c]
      BY <3>1 DEF Touch
    <3>3. ~alone'[c]
      BY <3>1 DEF Touch
    <3> QED
      BY <2>1, <2>2, <3>2, <3>3, <1>a DEF Meant, Known, Blank, Sound, Merged, Matches
  <2>4. CASE ~Deliver(d) \/ UNCHANGED <<actual, bore, alone>>
    <3>1. actual' = actual /\ bore'[c] = bore[c] /\ alone'[c] = alone[c]
      BY <2>4, <1>e, <1>a DEF Begin, Step, Proceed, Reject, Resolve, ReadFails, Accept, Refuse, BreakOff, Lose, Verify,
                         Answered
    <3>2. Meant(c) /\ Known(c)
      BY <1>a
    <3> QED
      BY <3>1, <3>2, <2>1, <2>2 DEF Meant, Known, Blank, Sound, Merged, Matches
  <2> QED
    BY <2>3, <2>4
<1>1. CASE Begin(c)
  <2>1. /\ r.pc = "idle" /\ r.wire = "none"
        /\ UNCHANGED <<actual, shown>>
        /\ bore'[c] = Matches(actual, r.ask.target) \cup Matches(shown, r.ask.target)
        /\ alone'[c] = (shown = actual)
    BY <1>1, <1>a DEF Begin, Told
  <2>2. CASE End(c, "unconfirmed") \/ End(c, "invalid")
    <3>1. call'[c].pc = "done" /\ call'[c].wire = "none" /\ call'[c].ask = r.ask
      <4> DEFINE f(result) == [r EXCEPT !.pc = "done", !.result = result]
      <4>1. \A result : f(result).pc = "done" /\ f(result).wire = r.wire /\ f(result).ask = r.ask
        BY <1>a DEF Call
      <4>2. \E result : call'[c] = f(result)
        BY <2>2, <1>a DEF End, Now
      <4> HIDE DEF f
      <4> QED
        BY <4>1, <4>2, <2>1
    <3> QED
      BY <3>1, <2>1 DEF Meant, Known
  <2>3. CASE r.ask.tool.find # "none" /\ Now(c, [r EXCEPT !.pc = "resolve"])
    <3>1. call'[c].pc = "resolve" /\ call'[c].wire = "none" /\ call'[c].ask = r.ask
      BY <2>1, <2>3, <1>a DEF Now, Call
    <3> QED
      BY <3>1, <2>1, <2>3 DEF Meant, Known, Matches
  <2>4. CASE /\ r.ask.tool.find = "none"
             /\ Send(c, IF r.ask.tool.op = "create" THEN Absent ELSE r.ask.target, Absent)
             /\ r.ask.tool.op = "create" /\ Does(c, "pool") => Sound(Blank(r), r.ask.change)
    <3> DEFINE i == IF r.ask.tool.op = "create" THEN Absent ELSE r.ask.target
    <3>1. /\ call'[c].pc = "sent" /\ call'[c].wire = "sent" /\ call'[c].ask = r.ask /\ call'[c].id = i
      BY <2>4, <1>a DEF Send, Now, Call
    <3>2. r.ask.tool.op # "create" => r.ask.target \in Ids /\ r.ask.target \notin Names
      BY <2>4, <1>b, ToolFacts, MutationsAssumption
    <3>3. Blank(call[c])' = Blank(call[c])
      BY <3>1 DEF Blank
    <3>4. Known(c)'
      BY <3>1, <3>3, <2>1, <2>4 DEF Known, Does, Sound, Merged
    <3>5. Meant(c)'
      BY <3>1, <3>2 DEF Meant
    <3> QED
      BY <3>4, <3>5
  <2> QED
    BY <1>1, <2>2, <2>3, <2>4 DEF Begin, Blank
<1>2. CASE Resolve(c)
  <2> DEFINE listing == IF r.ask.tool.find = "cached" /\ cached # Unread THEN cached ELSE shown
  <2>1. r.pc = "resolve" /\ r.wire = "none" /\ UNCHANGED <<actual, shown, bore, alone>>
    BY <1>2, <1>a DEF Resolve, Told
  <2>2. CASE End(c, "not_found") \/ End(c, "ambiguous") \/ End(c, "invalid")
    BY <2>1, <2>2, <1>d
  <2>3. CASE r.ask.tool.op = "create" /\ Send(c, Absent, Absent)
    <3>1. call'[c].pc = "sent" /\ call'[c].wire = "sent" /\ call'[c].ask = r.ask
      BY <2>3, <1>a DEF Send, Now, Call
    <3>2. ASSUME "pool" \in r.ask.tool.does PROVE FALSE
      <4>1. r.ask.tool.find = "none"
        BY <3>2, <2>3, <1>b, PoolTools
      <4> QED
        BY <4>1, <2>1, <1>a DEF Known
    <3> QED
      BY <3>1, <3>2, <2>1, <2>3, <1>a DEF Meant, Known
  <2>4. ASSUME NEW i \in Matches(listing, r.ask.target), Send(c, i, listing[i]),
               r.ask.tool.op # "create", Does(c, "pool") => Sound(listing[i], r.ask.change)
        PROVE  (Meant(c) /\ Known(c))'
    <3>1. /\ call'[c].pc = "sent" /\ call'[c].wire = "sent" /\ call'[c].ask = r.ask
          /\ call'[c].id = i /\ call'[c].read = listing[i]
      BY <2>4, <1>a DEF Send, Now, Call
    <3>2. i \in Ids /\ listing[i] # Absent /\ r.ask.target \in {i, listing[i].name}
      BY <2>4 DEF Matches
    <3>3. r.ask.target \in Names => r.ask.tool.find = "fresh"
      BY <2>4, <1>b, ToolFacts, MutationsAssumption
    <3>4. r.ask.tool.find = "fresh" => listing = shown
      OBVIOUS
    <3>5. Meant(c)'
      BY <3>1, <3>2, <3>3, <3>4, <2>1, <2>4, <1>a DEF Meant
    <3>6. Known(c)'
      <4>1. r.ask.tool.find = "fresh" => listing[i] \in Object
        BY <3>2, <3>4, <1>a DEF Store
      <4>2. alone[c] => shown = actual
        BY <2>1, <1>a DEF Known
      <4> QED
        BY <4>1, <4>2, <3>1, <3>4, <2>1, <2>4 DEF Known, Does, Sound, Merged
    <3> QED
      BY <3>5, <3>6
  <2> QED
    BY <1>2, <2>2, <2>3, <2>4 DEF Resolve
<1>3. CASE ReadFails(c)
  BY <1>3, <1>d DEF ReadFails
<1>4. CASE Accept(c)
  <2>1. r.pc = "sent" /\ UNCHANGED <<actual, shown, bore, alone>>
    BY <1>4 DEF Accept, Answered
  <2> DEFINE f == [r EXCEPT !.pc = "verify"]
  <2>3. f.ask = r.ask /\ f.id = r.id /\ f.read = r.read /\ f.pc = "verify" /\ f.wire = r.wire
    BY <1>a DEF Call
  <2>2. CASE Now(c, f)
    <3>1. call'[c] = f
      BY <2>2, <1>a DEF Now
    <3> HIDE DEF f
    <3> QED
      BY <3>1, <2>1, <2>3, <1>c
  <2> QED
    BY <1>4, <2>1, <2>2, <1>d DEF Accept
<1>5. CASE Refuse(c) \/ Lose(c)
  BY <1>5, <1>d DEF Refuse, Lose, Answered
<1>6. CASE BreakOff(c)
  <2>1. r.pc = "sent" /\ UNCHANGED <<actual, shown, bore, alone>>
    BY <1>6 DEF BreakOff, Answered
  <2> DEFINE f == [r EXCEPT !.pc = "done", !.intact = FALSE, !.result = Complaint(c)]
  <2>2. call'[c] = f
    BY <1>6, <1>a DEF BreakOff, Now
  <2>3. f.ask = r.ask /\ f.id = r.id /\ f.read = r.read /\ f.pc = "done" /\ f.wire = r.wire
    BY <1>a DEF Call
  <2> HIDE DEF f
  <2> QED
    BY <2>1, <2>2, <2>3, <1>c
<1>7. CASE Verify(c)
  <2>1. r.pc = "verify" /\ UNCHANGED <<actual, shown, bore, alone>>
    BY <1>7 DEF Verify
  <2> DEFINE f == [r EXCEPT !.tries = @ + 1]
  <2>3. f.ask = r.ask /\ f.id = r.id /\ f.read = r.read /\ f.pc = r.pc /\ f.wire = r.wire
    BY <1>a DEF Call
  <2>2. CASE Now(c, f)
    <3>1. call'[c] = f
      BY <2>2, <1>a DEF Now
    <3> HIDE DEF f
    <3> QED
      BY <3>1, <2>1, <2>3, <1>c
  <2> QED
    BY <1>7, <2>1, <2>2, <1>d DEF Verify
<1>8. CASE Deliver(c)
  <2>1. r.wire = "sent" /\ r.pc \in {"sent", "done"}
    BY <1>8, <1>a DEF Deliver, Told, Call
  <2>2. /\ call'[c].ask = r.ask /\ call'[c].wire = "applied" /\ call'[c].pc = r.pc
        /\ r.ask.tool.op # "create" => call'[c].id = r.id
    <3> DEFINE f == [r EXCEPT !.wire = "applied"]
               g(i) == [r EXCEPT !.wire = "applied", !.id = i]
    <3>1. /\ f.ask = r.ask /\ f.wire = "applied" /\ f.pc = r.pc /\ f.id = r.id
          /\ \A i : g(i).ask = r.ask /\ g(i).wire = "applied" /\ g(i).pc = r.pc
      BY <1>a DEF Call
    <3>2. call'[c] = f \/ (r.ask.tool.op = "create" /\ \E i : call'[c] = g(i))
      <4>1. CASE Now(c, f)
        BY <4>1, <1>a DEF Now
      <4>2. CASE r.ask.tool.op = "create" /\ \E i \in Ids : Now(c, g(i))
        BY <4>2, <1>a DEF Now
      <4> QED
        BY <4>1, <4>2, <1>8 DEF Deliver
    <3> HIDE DEF f, g
    <3> QED
      BY <3>1, <3>2
  <2>3. bore[c] \subseteq bore'[c]
    BY <1>8 DEF Deliver, Touch
  <2> QED
    BY <2>1, <2>2, <2>3, <1>a DEF Meant, Known
<1>9. CASE Reject(c)
  <2>1. r.wire = "sent" /\ UNCHANGED <<actual, shown, bore, alone>>
    BY <1>9 DEF Reject
  <2> DEFINE f == [r EXCEPT !.wire = "refused"]
  <2>2. f.ask = r.ask /\ f.id = r.id /\ f.read = r.read /\ f.pc = r.pc /\ f.wire = "refused"
    BY <1>a DEF Call
  <2>3. call'[c] = f
    BY <1>9, <1>a DEF Reject, Now
  <2> HIDE DEF f
  <2> QED
    BY <2>1, <2>2, <2>3, <1>c
<1>10. ASSUME NEW i \in Ids, NEW x \in Edits, Console(i, x)
       PROVE  (Meant(c) /\ Known(c))'
  <2>1. bore[c] \subseteq bore'[c] /\ Matches(actual', call[c].ask.target) \subseteq bore'[c]
    BY <1>10 DEF Console, Touch
  <2>2. ~alone'[c]
    BY <1>10, MutationsAssumption DEF Console, Touch
  <2> QED
    BY <2>1, <2>2, <1>10, <1>a DEF Console, Meant, Known, Blank, Sound, Merged, Matches
<1>11. CASE Converge
  BY <1>11, <1>a DEF Converge, Meant, Known, Blank, Sound, Merged, Matches
<1>12. CASE UNCHANGED <<actual, shown, call, bore, alone>>
  BY <1>12, <1>a DEF Meant, Known, Blank, Sound, Merged, Matches
<1> QED
  BY <1>e, <1>1, <1>2, <1>3, <1>4, <1>5, <1>6, <1>7, <1>8, <1>9, <1>10, <1>11, <1>12
     DEF Next, Step, Proceed, Browse, Evict, vars

MInv == Typed /\ AllTold /\ Knowledge

LEMMA MInvInit == Init => MInv
<1> SUFFICES ASSUME Init PROVE MInv
  OBVIOUS
<1>1. ASSUME NEW c \in Calls
      PROVE  Told(call[c]) /\ Meant(c) /\ Known(c)
  <2>1. call[c].pc = "idle" /\ call[c].wire = "none" /\ call[c].result = "none"
    BY DEF Init, New
  <2> QED
    BY <2>1 DEF Told, Unsent, Meant, Known
<1> QED
  BY <1>1, TypedInit DEF MInv, AllTold, Knowledge

LEMMA MInvStep ==
  ASSUME MInv, [Next]_vars
  PROVE  MInv'
<1>1. Typed' /\ Knowledge'
  BY TypedStep, KnowledgeStep DEF MInv
<1>2. CASE \E c \in Calls : Begin(c) \/ Step(c) \/ Deliver(c) \/ Reject(c)
  BY <1>1, <1>2, ToldCall DEF MInv
<1>3. CASE UNCHANGED call
  BY <1>1, <1>3 DEF MInv, AllTold
<1> QED
  BY <1>2, <1>3 DEF Next, Console, Converge, Browse, Evict, vars

\* A tool that is given a name never writes to an object which the name has not
\* meant since the call began.
THEOREM NamesMean == Spec => []MeantObject
<1>1. MInv => MeantObject
  BY DEF MInv, Knowledge, Meant, MeantObject
<1> QED
  BY <1>1, MInvInit, MInvStep, PTL DEF Spec

\* Only the delivery of its own request carries a call out.
LEMMA CarriedDelivers ==
  ASSUME MInv, [Next]_vars, NEW c \in Calls, Carried(c)
  PROVE  Deliver(c)
<1>a. call \in [Calls -> Call] /\ call[c] \in Call
  BY DEF MInv, Typed, TypeOK
<1>b. call[c].wire = "sent" /\ call'[c].wire = "applied" /\ call[c].pc \in {"sent", "done"}
  BY <1>a DEF Carried, MInv, AllTold, Told, Call
<1>c. ASSUME NEW d, NEW f, Now(d, f), d # c \/ f.wire # "applied"
      PROVE  FALSE
  BY <1>c, <1>a, <1>b DEF Now
<1>d. ASSUME NEW d, NEW result, End(d, result)
      PROVE  FALSE
  <2> DEFINE f == [call[d] EXCEPT !.pc = "done", !.result = result]
  <2>1. d = c => f.wire = "sent"
    BY <1>a, <1>b DEF Call
  <2>2. Now(d, f)
    BY <1>d DEF End
  <2> HIDE DEF f
  <2> QED
    BY <2>1, <2>2, <1>c
<1>1. ASSUME NEW d \in Calls, Begin(d) \/ Resolve(d) \/ Verify(d)
      PROVE  FALSE
  <2>1. d # c
    BY <1>1, <1>b DEF Begin, Resolve, Verify
  <2>2. call'[c] # call[c]
    BY <1>b
  <2>3. \A f : ~Now(d, f)
    BY <2>1, <1>c
  <2> QED
    BY <1>1, <2>3 DEF Begin, Resolve, Verify, End, Send
<1>2. ASSUME NEW d \in Calls, ReadFails(d) \/ Refuse(d) \/ Lose(d)
      PROVE  FALSE
  BY <1>2, <1>d DEF ReadFails, Refuse, Lose
<1>3. ASSUME NEW d \in Calls, Accept(d)
      PROVE  FALSE
  <2>1. d # c
    BY <1>3, <1>b DEF Accept
  <2> QED
    BY <2>1, <1>3, <1>c, <1>d DEF Accept
<1>4. ASSUME NEW d \in Calls, BreakOff(d)
      PROVE  FALSE
  <2> DEFINE f == [call[d] EXCEPT !.pc = "done", !.intact = FALSE, !.result = Complaint(d)]
  <2>1. d = c => f.wire = "sent"
    BY <1>a, <1>b DEF Call
  <2>2. Now(d, f)
    BY <1>4 DEF BreakOff
  <2> HIDE DEF f
  <2> QED
    BY <2>1, <2>2, <1>c
<1>5. ASSUME NEW d \in Calls, Reject(d)
      PROVE  FALSE
  <2> DEFINE f == [call[d] EXCEPT !.wire = "refused"]
  <2>1. d = c => f.wire = "refused"
    BY <1>a DEF Call
  <2>2. Now(d, f)
    BY <1>5 DEF Reject
  <2> HIDE DEF f
  <2> QED
    BY <2>1, <2>2, <1>c
<1>6. ASSUME NEW d \in Calls \ {c}, Deliver(d)
      PROVE  FALSE
  BY <1>6, <1>c DEF Deliver
<1>7. CASE UNCHANGED call
  BY <1>7, <1>b
<1> QED
  BY <1>1, <1>2, <1>3, <1>4, <1>5, <1>6, <1>7 DEF Next, Step, Proceed, Console, Converge, Browse, Evict, vars

\* An update that nobody disturbs keeps the settings it was not asked to change,
\* also when it sends the whole object.
THEOREM UpdatesKeepTheRest == Spec => KeepsTheRest
<1> DEFINE Kept(c) ==
      LET change == call[c].ask.change
          before == actual[call[c].id]
          after == actual'[call[c].id]
      IN  /\ Carried(c) /\ alone[c] /\ call[c].ask.tool.op = "update"
          /\ call[c].ask.tool # set_firewall_policy_enabled
          => /\ change.subnet = Keep => after.subnet = before.subnet
             /\ change.pool = Keep => after.pool = before.pool
<1>1. ASSUME MInv, [Next]_vars, NEW c \in Calls
      PROVE  Kept(c)
  <2> DEFINE r == call[c]
  <2> SUFFICES ASSUME Carried(c), alone[c], r.ask.tool.op = "update",
                      r.ask.tool # set_firewall_policy_enabled
               PROVE  /\ r.ask.change.subnet = Keep => actual'[r.id].subnet = actual[r.id].subnet
                      /\ r.ask.change.pool = Keep => actual'[r.id].pool = actual[r.id].pool
    OBVIOUS
  <2>1. Deliver(c)
    BY <1>1, CarriedDelivers
  <2>2. r.wire = "sent" /\ actual[r.id] # Absent /\ Touch(r.id, Merged(actual[r.id], Body(c)), c)
    BY <2>1 DEF Deliver
  <2>3. r.id \in Ids /\ actual[r.id] \in Object /\ r.ask.tool \in Tools /\ r.ask.change \in Change
    <3>1. r.id \in Ids
      BY <1>1, <2>2 DEF MInv, Knowledge, Meant
    <3>2. r.ask.tool \in Tools /\ r.ask.change \in Change
      BY <1>1, RequestFacts DEF MInv, Typed, Asked
    <3> QED
      BY <3>1, <3>2, <1>1, <2>2 DEF MInv, Typed, TypeOK, Store
  <2>4. actual'[r.id] = Merged(actual[r.id], Body(c))
    BY <2>2, <2>3, <1>1 DEF Touch, MInv, Typed, TypeOK, Store
  <2>5. CASE Does(c, "whole")
    <3>1. r.read = actual[r.id]
      BY <1>1, <2>2, <2>3, <2>5, WholeTools DEF MInv, Knowledge, Known, Does
    <3>2. r.ask.change.subnet = Keep => Body(c).subnet \in {Keep, actual[r.id].subnet}
      BY <2>5, <3>1, <2>3 DEF Body, Merged, Object
    <3>3. r.ask.change.pool = Keep => Body(c).pool \in {Keep, actual[r.id].pool}
      BY <2>5, <3>1, <2>3 DEF Body, Merged, Object
    <3> QED
      BY <2>3, <2>4, <3>2, <3>3 DEF Merged, Object
  <2>6. CASE ~Does(c, "whole")
    BY <2>6, <2>3, <2>4 DEF Body, Merged, Object
  <2> QED
    BY <2>5, <2>6
<1>2. MInv /\ [Next]_vars => [\A c \in Calls : Kept(c)]_vars
  BY <1>1
<1>3. Spec => [][\A c \in Calls : Kept(c)]_vars
  BY <1>2, MInvInit, MInvStep, PTL DEF Spec
<1> QED
  BY <1>3 DEF KeepsTheRest

\* A network tool that nobody disturbs leaves the DHCP pool in the subnet.
THEOREM PoolsStayInSubnets == Spec => PoolStaysInSubnet
<1> DEFINE Stays(c) ==
      Carried(c) /\ alone[c] /\ Does(c, "pool") =>
        actual'[call'[c].id].subnet = actual'[call'[c].id].pool
<1>1. ASSUME MInv, [Next]_vars, NEW c \in Calls
      PROVE  Stays(c)
  <2> DEFINE r == call[c]
  <2> SUFFICES ASSUME Carried(c), alone[c], Does(c, "pool")
               PROVE  actual'[call'[c].id].subnet = actual'[call'[c].id].pool
    OBVIOUS
  <2>1. Deliver(c) /\ r.wire = "sent"
    BY <1>1, CarriedDelivers DEF Deliver
  <2>2. /\ r.ask.tool \in Tools /\ r.ask.change \in Change /\ r \in Call
        /\ r.ask.tool.op = "create" =>
             r.ask.change.subnet \in Values /\ r.ask.change.pool \in Values
        /\ actual \in Store /\ call \in [Calls -> Call] /\ Meant(c) /\ Known(c)
    BY <1>1, RequestFacts DEF MInv, Typed, TypeOK, Asked, Knowledge
  <2>3. /\ (r.ask.tool.op = "create" /\ r.ask.tool.find = "none") \/
           (r.ask.tool.op = "update" /\ r.ask.tool.find = "fresh")
        /\ ~Does(c, "whole")
    BY <2>2, PoolTools DEF Does
  <2>4. CASE r.ask.tool.op = "create"
    <3> DEFINE x == [name |-> r.ask.target, subnet |-> r.ask.change.subnet,
                     pool |-> r.ask.change.pool]
    <3>1. PICK free \in Ids :
            /\ Touch(free, x, c)
            /\ Now(c, [r EXCEPT !.wire = "applied", !.id = free])
      BY <2>1, <2>4 DEF Deliver
    <3>2. call'[c].id = free
      <4> DEFINE f == [r EXCEPT !.wire = "applied", !.id = free]
      <4>1. f.id = free
        BY <2>2 DEF Call
      <4>2. call'[c] = f
        BY <3>1, <2>2 DEF Now
      <4> QED
        BY <4>1, <4>2
    <3>3. actual'[free] = x
      BY <3>1, <2>2 DEF Touch, Store
    <3>4. Sound(Blank(r), r.ask.change)
      BY <2>1, <2>2, <2>4 DEF Known, Does
    <3>5. r.ask.change.subnet = r.ask.change.pool
      BY <3>4, <2>2, <2>4, MutationsAssumption DEF Sound, Merged, Blank
    <3> QED
      BY <3>2, <3>3, <3>5
  <2>5. CASE r.ask.tool.op = "update" /\ r.ask.tool.find = "fresh"
    <3>1. /\ Touch(r.id, Merged(actual[r.id], Body(c)), c)
          /\ Now(c, [r EXCEPT !.wire = "applied"])
      BY <2>1, <2>5 DEF Deliver
    <3>2. call'[c].id = r.id
      <4> DEFINE f == [r EXCEPT !.wire = "applied"]
      <4>1. f.id = r.id
        BY <2>2 DEF Call
      <4>2. call'[c] = f
        BY <3>1, <2>2 DEF Now
      <4> QED
        BY <4>1, <4>2
    <3>3. r.id \in Ids /\ r.read = actual[r.id] /\ Sound(r.read, r.ask.change)
      BY <2>1, <2>2, <2>5 DEF Meant, Known, Does
    <3>4. actual'[r.id] = Merged(actual[r.id], r.ask.change)
      BY <3>1, <3>3, <2>2, <2>3 DEF Touch, Store, Body
    <3> QED
      BY <3>2, <3>3, <3>4 DEF Sound
  <2> QED
    BY <2>3, <2>4, <2>5
<1>2. MInv /\ [Next]_vars => [\A c \in Calls : Stays(c)]_vars
  BY <1>1
<1>3. Spec => [][\A c \in Calls : Stays(c)]_vars
  BY <1>2, MInvInit, MInvStep, PTL DEF Spec
<1> QED
  BY <1>3 DEF PoolStaysInSubnet

=============================================================================
