----------------------------- MODULE HttpClient -----------------------------
(***************************************************************************)
(* UniFiHTTPClient.request (clients/base.py): concurrent requests of all   *)
(* the clients of one process share the GET cache, its generation counter  *)
(* and, in local mode, one login session with the controller               *)
(* (auth/local.py).  A cache key stands for a base URL, a device, an       *)
(* endpoint and its arguments; a response stands for the version of the    *)
(* controller's configuration it shows.  A cache hit changes nothing and   *)
(* is no action.                                                           *)
(***************************************************************************)
EXTENDS Naturals

CONSTANTS
  Requests,       \* calls of request() that may be in progress at once
  Keys,           \* cache keys
  Absent,         \* no cache entry, no response
  LocalMode,      \* session authentication: a 401 is answered by a new login
  MaxVersion,     \* bound: changes of the controller
  MaxGeneration   \* bound: invalidations before the last request that invalidates

ASSUME HttpAssumption ==
  /\ Absent \notin Nat
  /\ LocalMode \in BOOLEAN
  /\ MaxVersion \in Nat /\ MaxGeneration \in Nat

VARIABLES
  version,     \* changes of the controller so far
  cache,       \* ctx.cache
  generation,  \* ctx.cache_generation
  session,     \* whether the controller honours the session's cookie
  signedIn,    \* auth._is_authenticated, and the CSRF token that comes with it
  req,         \* the calls in progress
  floor        \* history: what the last write, or the last undisturbed fresh read, saw

controller == <<version, session>>
shared == <<cache, generation>>
vars == <<version, cache, generation, session, signedIn, req, floor>>

Kinds == {"read", "fresh", "write"}

Request == [pc : {"idle", "sent", "replied", "login"}, kind : Kinds,
            key : Keys \cup {Absent}, gen : Nat,
            reply : {"none", "ok", "unauthorized"},
            value : Nat \cup {Absent}, sends : Nat, applied : Nat]

TypeOK ==
  /\ version \in Nat /\ generation \in Nat /\ floor \in Nat
  /\ cache \in [Keys -> Nat \cup {Absent}]
  /\ session \in BOOLEAN /\ signedIn \in BOOLEAN
  /\ req \in [Requests -> Request]

Empty == [k \in Keys |-> Absent]

\* Mutant of Call: request_generation is only taken by requests that invalidate.
CallUncaptured(pc, kind, k, gen, sends) ==
  [pc |-> pc, kind |-> kind, key |-> k, gen |-> IF kind = "read" THEN Absent ELSE gen,
   reply |-> "none", value |-> Absent, sends |-> sends, applied |-> 0]

\* A call of request(), before its first answer.
Call(pc, kind, k, gen, sends) ==
  [pc |-> pc, kind |-> kind, key |-> k, gen |-> gen, reply |-> "none",
   value |-> Absent, sends |-> sends, applied |-> 0]

Idle == Call("idle", "read", Absent, 0, 0)

Init ==
  /\ version = 0 /\ generation = 0 /\ floor = 0
  /\ cache = Empty
  /\ session = TRUE /\ signedIn = TRUE
  /\ req = [r \in Requests |-> Idle]

-----------------------------------------------------------------------------
\* Mutant of Invalidate: the generation is not counted up.
ClearOnly ==
  /\ generation' = generation
  /\ cache' = Empty

Invalidate ==
  /\ generation' = generation + 1
  /\ cache' = Empty

\* The lookup missed, or the request is one that empties the cache first.
Start(r, kind, k) ==
  /\ req[r].pc = "idle"
  /\ IF kind = "read"
     THEN cache[k] = Absent /\ UNCHANGED shared
     ELSE generation < MaxGeneration /\ Invalidate
  /\ floor' = IF kind = "fresh" THEN version ELSE floor
  /\ req' = [req EXCEPT ![r] = Call("sent", kind, k, generation', 1)]
  /\ UNCHANGED <<controller, signedIn>>

\* Mutant of Current: any response may be stored.
AlwaysCurrent(r) == TRUE

\* No invalidation since the call began.
Current(r) == req[r].gen = generation

Writing(r) == req[r].kind = "write"

Renewing(r) == req[r].kind = "fresh" /\ Current(r)

\* Mutant of Finalize: a write empties the cache only when it starts.
NoFinalize(r) == UNCHANGED shared

\* The finally clause.  A fresh read leaves the cache alone if others emptied it.
Finalize(r) ==
  IF Writing(r) \/ Renewing(r) THEN Invalidate ELSE UNCHANGED shared

Raise(r) ==
  /\ Finalize(r)
  /\ floor' = IF Writing(r) \/ Renewing(r) THEN version ELSE floor
  /\ req' = [req EXCEPT ![r] = Idle]
  /\ UNCHANGED <<controller, signedIn>>

\* Mutant of TransportFails: the decorator retries what it was meant to retry.
TransportRetries(r) ==
  /\ req[r].pc \in {"sent", "replied"}
  /\ req' = [req EXCEPT ![r].pc = "sent", ![r].reply = "none"]
  /\ UNCHANGED <<controller, shared, signedIn, floor>>

\* No answer comes, or not in time, or the connection breaks off.  The decorator of
\* _make_request would retry the first two, but inside it they have become a
\* UniFiConnectionError, which it does not know; the third passes as it is.
TransportFails(r) == req[r].pc \in {"sent", "replied"} /\ Raise(r)

\* The controller refuses the request: an error status, an error in the body,
\* or once more a 401.  It makes no difference when it did.
Refused(r) ==
  /\ \/ req[r].pc = "sent"
     \/ req[r].pc = "replied" /\ req[r].reply = "unauthorized" /\ req[r].sends > 1
  /\ Raise(r)

LoginFails(r) == req[r].pc = "login" /\ Raise(r)

Cancel(r) == req[r].pc # "idle" /\ Raise(r)

\* A parsed response is stored if no invalidation came in between.
Return(r) ==
  LET x == req[r]
  IN  /\ x.pc = "replied" /\ x.reply = "ok"
      /\ IF Renewing(r)
         THEN generation' = generation + 1 /\ cache' = [Empty EXCEPT ![x.key] = x.value]
         ELSE IF x.kind = "read" /\ Current(r)
         THEN cache' = [cache EXCEPT ![x.key] = x.value] /\ UNCHANGED generation
         ELSE Finalize(r)
      /\ floor' = IF Writing(r) THEN version ELSE IF Renewing(r) THEN x.value ELSE floor
      /\ req' = [req EXCEPT ![r] = Idle]
      /\ UNCHANGED <<controller, signedIn>>

-----------------------------------------------------------------------------
(* Sessions. *)

\* refresh_session forgets the session before it awaits the login.
Refresh(r) ==
  /\ req[r].pc = "replied" /\ req[r].reply = "unauthorized" /\ req[r].sends = 1
  /\ signedIn' = FALSE
  /\ req' = [req EXCEPT ![r].pc = "login", ![r].reply = "none"]
  /\ UNCHANGED <<controller, shared, floor>>

\* The login succeeded: the request is sent again, with the generation it has.
Resend(r) ==
  /\ req[r].pc = "login"
  /\ session' = TRUE /\ signedIn' = TRUE
  /\ req' = [req EXCEPT ![r].pc = "sent", ![r].sends = @ + 1]
  /\ UNCHANGED <<version, shared, floor>>

-----------------------------------------------------------------------------
(* The controller, and the cache on its own. *)

\* A read shows the controller's present state, and a write changes it.
Accept(r) ==
  /\ req[r].pc = "sent" /\ session
  /\ IF req[r].kind = "write"
     THEN /\ version < MaxVersion
          /\ version' = version + 1
          /\ req' = [req EXCEPT ![r].pc = "replied", ![r].reply = "ok", ![r].applied = @ + 1]
     ELSE /\ req' = [req EXCEPT ![r].pc = "replied", ![r].reply = "ok", ![r].value = version]
          /\ UNCHANGED version
  /\ UNCHANGED <<session, shared, signedIn, floor>>

\* The cookie is no longer good.
Unauthorized(r) ==
  /\ req[r].pc = "sent" /\ ~session
  /\ req' = [req EXCEPT ![r].pc = "replied", ![r].reply = "unauthorized"]
  /\ UNCHANGED <<controller, shared, signedIn, floor>>

\* Anyone changes the controller: another administrator, a device, or a write
\* whose caller no longer waits.
Change ==
  /\ version < MaxVersion
  /\ version' = version + 1
  /\ UNCHANGED <<session, shared, signedIn, req, floor>>

Expire ==
  /\ LocalMode /\ session
  /\ session' = FALSE
  /\ UNCHANGED <<version, shared, signedIn, req, floor>>

\* TTLCache drops an entry that is too old, or one too many.
Evict(k) ==
  /\ cache[k] # Absent
  /\ cache' = [cache EXCEPT ![k] = Absent]
  /\ UNCHANGED <<controller, generation, floor, signedIn, req>>

-----------------------------------------------------------------------------
Proceed(r) ==
  \/ Accept(r) \/ Unauthorized(r) \/ Refresh(r) \/ Resend(r) \/ Return(r)
  \/ TransportFails(r) \/ Refused(r) \/ LoginFails(r) \/ Cancel(r)

Next ==
  \/ \E r \in Requests : Proceed(r)
  \/ \E r \in Requests, kind \in Kinds, k \in Keys : Start(r, kind, k)
  \/ Change \/ Expire
  \/ \E k \in Keys : Evict(k)

Spec == Init /\ [][Next]_vars

-----------------------------------------------------------------------------
(* Properties. *)

\* A hit never shows the controller as it was before a write ended, with success
\* or not, nor older than an undisturbed fresh read saw it: a read in flight
\* then cannot bring back what they removed, however late its response.
CacheFresh == \A k \in Keys : cache[k] # Absent => cache[k] \in floor .. version

\* The same for what is still on its way, the inductive part of CacheFresh: only
\* a response to a call of the current generation may be stored, and that one
\* is as new as the last invalidation.
InFlightFresh ==
  /\ floor <= version
  /\ \A r \in Requests :
       LET x == req[r]
       IN  /\ x.gen <= generation
           /\ x.pc # "idle" => x.key \in Keys
           /\ x.reply = "ok" /\ x.kind # "write" => x.value # Absent
           /\ x.value # Absent => x.value <= version
           /\ x.value # Absent /\ x.gen = generation => floor <= x.value

\* A write is carried out at most once for each call, whatever answer is lost
\* and whoever else logs in again meanwhile.
WriteOnce == \A r \in Requests : req[r].applied <= 1

\* The cache is one that keeps the promise.
Promise ==
  INSTANCE CachePromise
    WITH Keys <- Keys, Absent <- Absent, version <- version, floor <- floor, cache <- cache
KeepsPromise == Promise!Spec

=============================================================================
