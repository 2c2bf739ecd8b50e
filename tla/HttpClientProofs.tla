-------------------------- MODULE HttpClientProofs --------------------------
(***************************************************************************)
(* Proofs about HttpClient for any number of requests and cache keys: the  *)
(* types, that the cache is never behind, that a write is carried out at   *)
(* most once, and that the cache implements CachePromise.                  *)
(***************************************************************************)
EXTENDS HttpClient, TLAPS

USE HttpAssumption

LEMMA CallType ==
  ASSUME NEW pc \in {"idle", "sent", "replied", "login"}, NEW kind \in Kinds,
         NEW k \in Keys \cup {Absent}, NEW gen \in Nat, NEW sends \in Nat
  PROVE  Call(pc, kind, k, gen, sends) \in Request
  BY DEF Call, Request

LEMMA IdleType == Idle \in Request
  BY CallType DEF Idle, Kinds

-----------------------------------------------------------------------------
(* The inductive invariant: InFlightFresh, one call at a time, and what     *)
(* makes a write happen once: only an answered call has been carried out,   *)
(* and an answered call is never sent again.                                *)

Sound(x) ==
  /\ x.gen <= generation
  /\ x.pc # "idle" => x.key \in Keys
  /\ x.reply = "ok" /\ x.kind # "write" => x.value # Absent
  /\ x.value # Absent => x.value <= version
  /\ x.value # Absent /\ x.gen = generation => floor <= x.value

Once(x) == x.applied <= 1 /\ (x.applied = 1 => x.pc = "replied" /\ x.reply = "ok")

Inv ==
  /\ TypeOK /\ CacheFresh
  /\ floor <= version
  /\ \A r \in Requests : Sound(req[r]) /\ Once(req[r])

\* Invalidations are counted, and floor rises only with the count.
Forward ==
  /\ version' \in Nat /\ version <= version'
  /\ floor' \in Nat /\ floor' <= version'
  /\ \/ generation' = generation /\ floor' = floor
     \/ generation' = generation + 1

LEMMA SoundStays ==
  ASSUME TypeOK, NEW x \in Request, Sound(x), Forward
  PROVE  Sound(x)'
<1>1. x.gen \in Nat /\ x.value \in Nat \cup {Absent} /\ version \in Nat /\ generation \in Nat
  BY DEF Request, TypeOK
<1>2. CASE x.value = Absent
  BY <1>1, <1>2 DEF Sound, Forward
<1>3. CASE x.value # Absent
  BY <1>1, <1>3 DEF Sound, Forward
<1> QED BY <1>2, <1>3

\* A step of the call r alone.
LEMMA OneCall ==
  ASSUME Inv, Forward, NEW r \in Requests, NEW x \in Request,
         req' = [req EXCEPT ![r] = x], Sound(x)', Once(x),
         session' \in BOOLEAN, signedIn' \in BOOLEAN,
         cache' \in [Keys -> Nat \cup {Absent}], CacheFresh'
  PROVE  Inv'
<1>1. TypeOK'
  <2>1. req' \in [Requests -> Request]
    BY DEF Inv, TypeOK
  <2>2. generation' \in Nat
    BY DEF Inv, TypeOK, Forward
  <2> QED BY <2>1, <2>2 DEF TypeOK, Forward
<1>2. ASSUME NEW q \in Requests PROVE Sound(req[q])' /\ Once(req[q])'
  <2>1. CASE q = r
    <3>1. req'[q] = x
      BY <2>1 DEF Inv, TypeOK
    <3> QED BY <3>1 DEF Sound, Once
  <2>2. CASE q # r
    <3>1. req'[q] = req[q]
      BY <2>2 DEF Inv, TypeOK
    <3>2. PICK y \in Request : y = req[q]
      BY DEF Inv, TypeOK
    <3>3. Sound(y) /\ Once(y)
      BY <3>2 DEF Inv
    <3>4. Sound(y)'
      BY <3>3, SoundStays DEF Inv
    <3> QED BY <3>1, <3>2, <3>3, <3>4 DEF Sound, Once
  <2> QED BY <2>1, <2>2
<1> QED BY <1>1, <1>2 DEF Inv, Forward

\* The cache may be emptied, and may stay while floor does.
LEMMA CacheStays ==
  ASSUME Inv, Forward,
         \/ cache' = Empty
         \/ cache' = cache /\ floor' = floor
  PROVE  cache' \in [Keys -> Nat \cup {Absent}] /\ CacheFresh'
<1>1. CASE cache' = Empty
  BY <1>1 DEF Empty, CacheFresh
<1>2. CASE cache' = cache /\ floor' = floor
  <2>1. \A k \in Keys : cache[k] # Absent => cache[k] \in floor .. version
    BY DEF Inv, CacheFresh
  <2>2. version \in Nat /\ floor \in Nat /\ version' \in Nat /\ version <= version'
    BY DEF Inv, TypeOK, Forward
  <2>3. \A k \in Keys : cache[k] # Absent => cache[k] \in floor .. version'
    BY <2>1, <2>2
  <2> QED BY <1>2, <2>3 DEF Inv, TypeOK, CacheFresh
<1> QED BY <1>1, <1>2

LEMMA FinalizeEffect ==
  ASSUME Inv, NEW r \in Requests, Finalize(r)
  PROVE  IF Writing(r) \/ Renewing(r)
         THEN generation' = generation + 1 /\ cache' = Empty
         ELSE generation' = generation /\ cache' = cache
  BY DEF Finalize, Invalidate, shared

\* A call that has ended is sound.
LEMMA IdleSound ==
  ASSUME generation' \in Nat, Absent \notin Nat
  PROVE  Sound(Idle)' /\ Once(Idle) /\ Idle \in Request
<1>1. Idle \in Request
  BY CallType DEF Idle, Kinds
<1>2. Sound(Idle)'
  BY DEF Sound, Idle, Call
<1> QED BY <1>1, <1>2 DEF Once, Idle, Call

LEMMA RaiseStep ==
  ASSUME Inv, NEW r \in Requests, Raise(r)
  PROVE  Inv'
<1>1. version \in Nat /\ floor \in Nat /\ generation \in Nat /\ floor <= version
  BY DEF Inv, TypeOK
<1>2. /\ floor' = IF Writing(r) \/ Renewing(r) THEN version ELSE floor
      /\ version' = version /\ session' = session /\ signedIn' = signedIn
      /\ req' = [req EXCEPT ![r] = Idle]
  BY DEF Raise, controller
<1>3. IF Writing(r) \/ Renewing(r)
      THEN generation' = generation + 1 /\ cache' = Empty
      ELSE generation' = generation /\ cache' = cache
  BY FinalizeEffect DEF Raise
<1>4. Forward
  BY <1>1, <1>2, <1>3 DEF Forward
<1>5. cache' \in [Keys -> Nat \cup {Absent}] /\ CacheFresh'
  BY <1>2, <1>3, <1>4, CacheStays
<1>6. Sound(Idle)' /\ Once(Idle) /\ Idle \in Request
  BY <1>1, <1>3, IdleSound
<1>7. session' \in BOOLEAN /\ signedIn' \in BOOLEAN
  BY <1>2 DEF Inv, TypeOK
<1> QED BY <1>2, <1>4, <1>5, <1>6, <1>7, OneCall

\* The steps that raise are all the same.
Raises(r) == TransportFails(r) \/ Refused(r) \/ LoginFails(r) \/ Cancel(r)

LEMMA InvStep == Inv /\ [Next]_vars => Inv'
<1> SUFFICES ASSUME Inv, [Next]_vars PROVE Inv'
  OBVIOUS
<1>a. /\ TypeOK /\ CacheFresh /\ floor <= version
      /\ version \in Nat /\ floor \in Nat /\ generation \in Nat
      /\ session \in BOOLEAN /\ signedIn \in BOOLEAN
  BY DEF Inv, TypeOK
<1>b. \A r \in Requests : /\ req[r] \in Request /\ Sound(req[r]) /\ Once(req[r])
                          /\ req[r].applied \in Nat /\ req[r].gen \in Nat /\ req[r].sends \in Nat
                          /\ req[r].key \in Keys \cup {Absent}
                          /\ req[r].value \in Nat \cup {Absent}
  BY DEF Inv, TypeOK, Request
<1>1. ASSUME NEW r \in Requests, NEW kind \in Kinds, NEW k \in Keys, Start(r, kind, k)
      PROVE  Inv'
  <2>1. /\ version' = version /\ session' = session /\ signedIn' = signedIn
        /\ \/ generation' = generation /\ cache' = cache /\ floor' = floor
           \/ /\ generation' = generation + 1 /\ cache' = Empty
              /\ floor' = version \/ floor' = floor
    BY <1>1 DEF Start, Invalidate, shared, controller, Kinds
  <2>2. Forward
    BY <1>a, <2>1 DEF Forward
  <2>3. cache' \in [Keys -> Nat \cup {Absent}] /\ CacheFresh'
    BY <2>1, <2>2, CacheStays
  <2>4. PICK x : x = Call("sent", kind, k, generation', 1)
    OBVIOUS
  <2>5. req' = [req EXCEPT ![r] = x]
    BY <1>1, <2>4 DEF Start
  <2>6. generation' \in Nat
    BY <1>a, <2>1
  <2>7. x \in Request
    BY <2>4, <2>6, CallType
  <2>8. Sound(x)' /\ Once(x)
    BY <2>4, <2>6 DEF Sound, Once, Call
  <2> QED BY <1>a, <2>1, <2>2, <2>3, <2>5, <2>7, <2>8, OneCall
<1>2. ASSUME NEW r \in Requests, Raises(r) PROVE Inv'
  BY <1>2, RaiseStep DEF Raises, TransportFails, Refused, LoginFails, Cancel
<1>3. ASSUME NEW r \in Requests, Return(r) PROVE Inv'
  <2> DEFINE x == req[r]
  <2>1. /\ version' = version /\ session' = session /\ signedIn' = signedIn
        /\ req' = [req EXCEPT ![r] = Idle]
        /\ x.pc = "replied" /\ x.reply = "ok" /\ x.key \in Keys
    BY <1>3, <1>b DEF Return, controller, Sound
  <2>2. CASE Renewing(r)
    <3>1. x.value \in Nat /\ floor <= x.value /\ x.value <= version
      BY <1>b, <2>1, <2>2 DEF Sound, Renewing, Current
    <3>2. /\ generation' = generation + 1 /\ floor' = x.value
          /\ cache' = [Empty EXCEPT ![x.key] = x.value]
      BY <1>3, <2>2 DEF Return, Renewing, Writing
    <3>3. Forward
      BY <1>a, <2>1, <3>1, <3>2 DEF Forward
    <3>4. cache' \in [Keys -> Nat \cup {Absent}] /\ CacheFresh'
      BY <1>a, <2>1, <3>1, <3>2 DEF Empty, CacheFresh
    <3>5. Sound(Idle)' /\ Once(Idle) /\ Idle \in Request
      BY <1>a, <3>2, IdleSound
    <3> QED BY <1>a, <2>1, <3>3, <3>4, <3>5, OneCall
  <2>3. CASE ~Renewing(r) /\ x.kind = "read" /\ Current(r)
    <3>1. x.value \in Nat /\ floor <= x.value /\ x.value <= version
      BY <1>b, <2>1, <2>3 DEF Sound, Current
    <3>2. /\ generation' = generation /\ floor' = floor
          /\ cache' = [cache EXCEPT ![x.key] = x.value]
      BY <1>3, <2>3 DEF Return, Renewing, Writing
    <3>3. Forward
      BY <1>a, <2>1, <3>2 DEF Forward
    <3>4. cache' \in [Keys -> Nat \cup {Absent}] /\ CacheFresh'
      BY <1>a, <2>1, <3>1, <3>2 DEF TypeOK, CacheFresh
    <3>5. Sound(Idle)' /\ Once(Idle) /\ Idle \in Request
      BY <1>a, <3>2, IdleSound
    <3> QED BY <1>a, <2>1, <3>3, <3>4, <3>5, OneCall
  <2>4. CASE ~Renewing(r) /\ ~(x.kind = "read" /\ Current(r))
    <3>1. Finalize(r) /\ floor' = IF Writing(r) THEN version ELSE floor
      BY <1>3, <2>4 DEF Return
    <3>2. Raise(r)
      BY <2>1, <2>4, <3>1, <1>3 DEF Raise, Return
    <3> QED BY <3>2, RaiseStep
  <2> QED BY <2>2, <2>3, <2>4
\* What happens to a call and leaves the cache alone.
<1>c. ASSUME NEW r \in Requests, NEW x \in Request, req' = [req EXCEPT ![r] = x],
             cache' = cache, generation' = generation, floor' = floor,
             version' \in Nat, version <= version',
             session' \in BOOLEAN, signedIn' \in BOOLEAN, Sound(x)', Once(x)
      PROVE  Inv'
  <2>1. Forward
    BY <1>a, <1>c DEF Forward
  <2>2. cache' \in [Keys -> Nat \cup {Absent}] /\ CacheFresh'
    BY <1>c, <2>1, CacheStays
  <2> QED BY <1>c, <2>1, <2>2, OneCall
<1>4. ASSUME NEW r \in Requests, Refresh(r) PROVE Inv'
  <2>1. PICK x : x = [req[r] EXCEPT !.pc = "login", !.reply = "none"]
    OBVIOUS
  <2>2. /\ req' = [req EXCEPT ![r] = x]
        /\ cache' = cache /\ generation' = generation /\ floor' = floor
        /\ version' = version /\ session' = session /\ signedIn' = FALSE
        /\ req[r].pc = "replied" /\ req[r].reply = "unauthorized"
    BY <1>4, <2>1 DEF Refresh, controller, shared
  <2>3. x \in Request /\ x.applied = req[r].applied /\ x.gen = req[r].gen
        /\ x.value = req[r].value /\ x.key = req[r].key /\ x.reply = "none"
    BY <1>b, <2>1 DEF Request
  <2>4. Sound(x)' /\ Once(x)
    BY <1>b, <2>2, <2>3 DEF Sound, Once
  <2>5. version' \in Nat /\ version <= version'
    BY <1>a, <2>2
  <2>6. session' \in BOOLEAN
    BY <1>a, <2>2
  <2>8. signedIn' \in BOOLEAN
    BY <2>2
  <2> QED BY <1>c, <2>2, <2>3, <2>4, <2>5, <2>6, <2>8
<1>5. ASSUME NEW r \in Requests, Resend(r) PROVE Inv'
  <2>0. PICK n \in Nat : n = req[r].sends + 1
    BY <1>b
  <2>1. PICK x : x = [req[r] EXCEPT !.pc = "sent", !.sends = n]
    OBVIOUS
  <2>2. /\ req' = [req EXCEPT ![r] = x]
        /\ cache' = cache /\ generation' = generation /\ floor' = floor
        /\ version' = version /\ session' = TRUE /\ signedIn' = TRUE
        /\ req[r].pc = "login"
    BY <1>5, <2>0, <2>1 DEF Resend, controller, shared
  <2>3. x \in Request /\ x.applied = req[r].applied /\ x.gen = req[r].gen
        /\ x.value = req[r].value /\ x.key = req[r].key /\ x.reply = req[r].reply
        /\ x.kind = req[r].kind
    BY <1>b, <2>1 DEF Request
  <2>4. Sound(x)' /\ Once(x)
    BY <1>b, <2>2, <2>3 DEF Sound, Once
  <2>8. /\ version' \in Nat /\ version <= version'
        /\ session' \in BOOLEAN /\ signedIn' \in BOOLEAN
    BY <1>a, <2>2
  <2> QED BY <1>c, <2>2, <2>3, <2>4, <2>8
<1>6. ASSUME NEW r \in Requests, Accept(r), req[r].kind = "write" PROVE Inv'
  <2>0. PICK n \in Nat : n = req[r].applied + 1
    BY <1>b
  <2>1. PICK x : x = [req[r] EXCEPT !.pc = "replied", !.reply = "ok", !.applied = n]
    OBVIOUS
  <2>2. /\ req' = [req EXCEPT ![r] = x]
        /\ cache' = cache /\ generation' = generation /\ floor' = floor
        /\ version' = version + 1 /\ session' = session /\ signedIn' = signedIn
        /\ req[r].pc = "sent"
    BY <1>6, <2>0, <2>1 DEF Accept, controller, shared
  <2>3. x \in Request /\ x.applied = n /\ x.gen = req[r].gen
        /\ x.value = req[r].value /\ x.key = req[r].key /\ x.kind = req[r].kind
        /\ x.pc = "replied" /\ x.reply = "ok"
    BY <1>b, <2>1 DEF Request
  <2>4. Once(x)
    BY <1>b, <2>0, <2>2, <2>3 DEF Once
  <2>5. Sound(x)'
    <3>1. x.value \in Nat => x.value <= version + 1 \/ ~(x.value <= version)
      BY <1>a
    <3> QED BY <1>6, <1>a, <1>b, <2>2, <2>3, <3>1 DEF Sound
  <2>8. /\ version' \in Nat /\ version <= version'
        /\ session' \in BOOLEAN /\ signedIn' \in BOOLEAN
    BY <1>a, <2>2
  <2> QED BY <1>c, <2>2, <2>3, <2>4, <2>8, <2>5
<1>7. ASSUME NEW r \in Requests, Accept(r), req[r].kind # "write" PROVE Inv'
  <2>1. PICK x : x = [req[r] EXCEPT !.pc = "replied", !.reply = "ok", !.value = version]
    OBVIOUS
  <2>2. /\ req' = [req EXCEPT ![r] = x]
        /\ cache' = cache /\ generation' = generation /\ floor' = floor
        /\ version' = version /\ session' = session /\ signedIn' = signedIn
        /\ req[r].pc = "sent"
    BY <1>7, <2>1 DEF Accept, controller, shared
  <2>3. x \in Request /\ x.applied = req[r].applied /\ x.gen = req[r].gen
        /\ x.value = version /\ x.key = req[r].key /\ x.kind = req[r].kind
        /\ x.pc = "replied" /\ x.reply = "ok"
    BY <1>a, <1>b, <2>1 DEF Request
  <2>4. Once(x)
    BY <1>b, <2>2, <2>3 DEF Once
  <2>5. Sound(x)'
    BY <1>a, <1>b, <2>2, <2>3 DEF Sound
  <2>8. /\ version' \in Nat /\ version <= version'
        /\ session' \in BOOLEAN /\ signedIn' \in BOOLEAN
    BY <1>a, <2>2
  <2> QED BY <1>c, <2>2, <2>3, <2>4, <2>8, <2>5
<1>8. ASSUME NEW r \in Requests, Unauthorized(r) PROVE Inv'
  <2>1. PICK x : x = [req[r] EXCEPT !.pc = "replied", !.reply = "unauthorized"]
    OBVIOUS
  <2>2. /\ req' = [req EXCEPT ![r] = x]
        /\ cache' = cache /\ generation' = generation /\ floor' = floor
        /\ version' = version /\ session' = session /\ signedIn' = signedIn
        /\ req[r].pc = "sent"
    BY <1>8, <2>1 DEF Unauthorized, controller, shared
  <2>3. x \in Request /\ x.applied = req[r].applied /\ x.gen = req[r].gen
        /\ x.value = req[r].value /\ x.key = req[r].key /\ x.reply = "unauthorized"
    BY <1>b, <2>1 DEF Request
  <2>4. Sound(x)' /\ Once(x)
    BY <1>b, <2>2, <2>3 DEF Sound, Once
  <2>8. /\ version' \in Nat /\ version <= version'
        /\ session' \in BOOLEAN /\ signedIn' \in BOOLEAN
    BY <1>a, <2>2
  <2> QED BY <1>c, <2>2, <2>3, <2>4, <2>8
\* Steps of no call.
<1>d. ASSUME req' = req, generation' = generation, floor' = floor,
             version' \in Nat, version <= version',
             session' \in BOOLEAN, signedIn' \in BOOLEAN,
             cache' \in [Keys -> Nat \cup {Absent}], CacheFresh'
      PROVE  Inv'
  <2>1. Forward
    BY <1>a, <1>d DEF Forward
  <2>2. TypeOK'
    BY <1>a, <1>d DEF TypeOK
  <2>3. ASSUME NEW r \in Requests PROVE Sound(req[r])' /\ Once(req[r])'
    <3>1. PICK y \in Request : y = req[r]
      BY <1>b
    <3>2. Sound(y)' /\ Once(y)
      BY <1>a, <1>b, <2>1, <3>1, SoundStays
    <3> QED BY <1>d, <3>1, <3>2 DEF Sound, Once
  <2> QED BY <2>1, <2>2, <2>3, <1>d DEF Inv, Forward
<1>9. ASSUME NEW k \in Keys, Evict(k) PROVE Inv'
  <2>1. cache' \in [Keys -> Nat \cup {Absent}] /\ CacheFresh'
    BY <1>9, <1>a DEF Evict, controller, TypeOK, CacheFresh
  <2> QED BY <1>9, <1>a, <1>d, <2>1 DEF Evict, controller
<1>10. CASE Change
  <2>1. /\ version' = version + 1 /\ req' = req /\ cache' = cache
        /\ generation' = generation /\ floor' = floor
        /\ session' = session /\ signedIn' = signedIn
    BY <1>10 DEF Change, shared
  <2>2. Forward
    BY <1>a, <2>1 DEF Forward
  <2>3. cache' \in [Keys -> Nat \cup {Absent}] /\ CacheFresh'
    BY <2>1, <2>2, CacheStays
  <2> QED BY <1>a, <1>d, <2>1, <2>2, <2>3 DEF Forward
<1>11. CASE Expire \/ UNCHANGED vars
  <2>1. /\ version' = version /\ req' = req /\ cache' = cache
        /\ generation' = generation /\ floor' = floor
        /\ session' \in BOOLEAN /\ signedIn' = signedIn
    BY <1>11, <1>a DEF Expire, shared, vars
  <2>2. Forward
    BY <1>a, <2>1 DEF Forward
  <2>3. cache' \in [Keys -> Nat \cup {Absent}] /\ CacheFresh'
    BY <2>1, <2>2, CacheStays
  <2> QED BY <1>a, <1>d, <2>1, <2>2, <2>3 DEF Forward
<1> QED
  BY <1>1, <1>2, <1>3, <1>4, <1>5, <1>6, <1>7, <1>8, <1>9, <1>10, <1>11
     DEF Next, Proceed, Raises

LEMMA InitInv == Init => Inv
<1> SUFFICES ASSUME Init PROVE Inv
  OBVIOUS
<1>1. TypeOK
  BY IdleType DEF Init, TypeOK, Empty
<1>2. CacheFresh
  BY DEF Init, CacheFresh, Empty
<1>3. ASSUME NEW r \in Requests PROVE Sound(req[r]) /\ Once(req[r])
  BY DEF Init, Sound, Once, Idle, Call
<1>4. floor <= version
  BY DEF Init
<1> QED BY <1>1, <1>2, <1>3, <1>4 DEF Inv

LEMMA Invariant == Spec => []Inv
  BY InitInv, InvStep, PTL DEF Spec

-----------------------------------------------------------------------------
(* Theorems. *)

\* Every variable keeps its type (UniFiHTTPClient.request and the session).
THEOREM TypeCorrect == Spec => []TypeOK
<1>1. Inv => TypeOK
  BY DEF Inv
<1> QED BY <1>1, Invariant, PTL

\* The GET cache of clients/base.py never shows what a finished write or an
\* undisturbed fresh read has replaced.
THEOREM NeverStale == Spec => []CacheFresh
<1>1. Inv => CacheFresh
  BY DEF Inv
<1> QED BY <1>1, Invariant, PTL

\* No read that is still in flight can bring it back either: what may be stored is
\* as new as the last invalidation.
THEOREM NothingStaleInFlight == Spec => []InFlightFresh
<1>1. Inv => InFlightFresh
  BY DEF Inv, InFlightFresh, Sound
<1> QED BY <1>1, Invariant, PTL

\* request() has a write carried out at most once, also when the session has to
\* be renewed in between.
THEOREM WritesHappenOnce == Spec => []WriteOnce
<1>1. Inv => WriteOnce
  BY DEF Inv, WriteOnce, Once
<1> QED BY <1>1, Invariant, PTL

-----------------------------------------------------------------------------
(* A call is sent at most once more, after one login. *)

Twice(x) == x.sends <= 2 /\ (x.pc = "login" => x.sends <= 1)

SentTwiceAtMost == \A r \in Requests : Twice(req[r])

\* However often the controller drops the session, and whoever else has logged in
\* again meanwhile, a call logs in once at most and is sent twice at most: calls that
\* share a session cannot keep each other logging in (UniFiHTTPClient.request).
THEOREM RenewedOnce == Spec => []SentTwiceAtMost
<1>1. Init => SentTwiceAtMost
  <2>1. Twice(Idle)
    BY DEF Idle, Call, Twice
  <2> QED BY <2>1 DEF Init, SentTwiceAtMost
<1>2. ASSUME TypeOK, SentTwiceAtMost, [Next]_vars PROVE SentTwiceAtMost'
  <2>a. req \in [Requests -> Request] /\ \A r \in Requests : Twice(req[r]) /\ req[r].sends \in Nat
    BY <1>2 DEF TypeOK, SentTwiceAtMost, Request
  <2>b. ASSUME NEW r \in Requests, NEW x, req' = [req EXCEPT ![r] = x], Twice(x)
        PROVE  SentTwiceAtMost'
    BY <2>a, <2>b DEF SentTwiceAtMost
  <2>1. ASSUME NEW r \in Requests, NEW kind \in Kinds, NEW k \in Keys, Start(r, kind, k)
        PROVE  SentTwiceAtMost'
    <3>1. PICK x : x = Call("sent", kind, k, generation', 1)
      OBVIOUS
    <3>2. Twice(x)
      BY <3>1 DEF Call, Twice
    <3> QED BY <2>1, <2>b, <3>1, <3>2 DEF Start
  <2>2. ASSUME NEW r \in Requests, Raises(r) \/ Return(r) PROVE SentTwiceAtMost'
    <3>1. req' = [req EXCEPT ![r] = Idle] /\ Twice(Idle)
      BY <2>2 DEF Raises, TransportFails, Refused, LoginFails, Cancel, Raise, Return,
                  Twice, Idle, Call
    <3> QED BY <2>b, <3>1
  <2>3. ASSUME NEW r \in Requests, Resend(r) PROVE SentTwiceAtMost'
    <3>1. PICK x : x = [req[r] EXCEPT !.pc = "sent", !.sends = @ + 1]
      OBVIOUS
    <3>2. req' = [req EXCEPT ![r] = x] /\ req[r].sends <= 1
      BY <2>3, <2>a, <3>1 DEF Resend, Twice
    <3>3. x.pc = "sent" /\ x.sends = req[r].sends + 1
      BY <2>a, <3>1 DEF Request
    <3>4. Twice(x)
      BY <2>a, <3>2, <3>3 DEF Twice
    <3> QED BY <2>b, <3>2, <3>4
  <2>4. ASSUME NEW r \in Requests, Refresh(r) PROVE SentTwiceAtMost'
    <3>1. PICK x : x = [req[r] EXCEPT !.pc = "login", !.reply = "none"]
      OBVIOUS
    <3>2. req' = [req EXCEPT ![r] = x] /\ x.sends = 1
      BY <2>4, <2>a, <3>1 DEF Refresh, Request
    <3>3. Twice(x)
      BY <3>2 DEF Twice
    <3> QED BY <2>b, <3>2, <3>3
  <2>5. ASSUME NEW r \in Requests, Accept(r) \/ Unauthorized(r) PROVE SentTwiceAtMost'
    <3>1. PICK x : /\ req' = [req EXCEPT ![r] = x]
                   /\ x.pc = "replied" /\ x.sends = req[r].sends
      BY <2>5, <2>a DEF Accept, Unauthorized, Request
    <3> QED BY <2>a, <2>b, <3>1 DEF Twice
  <2>6. CASE UNCHANGED req
    BY <2>6, <1>2 DEF SentTwiceAtMost
  <2> QED
    BY <1>2, <2>1, <2>2, <2>3, <2>4, <2>5, <2>6
    DEF Next, Proceed, Raises, vars, Change, Expire, Evict
<1> QED BY <1>1, <1>2, TypeCorrect, PTL DEF Spec

-----------------------------------------------------------------------------
(* The cache implements CachePromise. *)

PNext == Promise!Next
PVars == <<version, floor, cache>>

LEMMA RaisePromise ==
  ASSUME Inv, NEW r \in Requests, Raise(r)
  PROVE  PNext \/ UNCHANGED PVars
<1>1. IF Writing(r) \/ Renewing(r)
      THEN generation' = generation + 1 /\ cache' = Empty
      ELSE generation' = generation /\ cache' = cache
  BY FinalizeEffect DEF Raise
<1>2. /\ version' = version
      /\ floor' = IF Writing(r) \/ Renewing(r) THEN version ELSE floor
  BY DEF Raise, controller
<1>3. CASE Writing(r) \/ Renewing(r)
  BY <1>1, <1>2, <1>3 DEF PNext, Promise!Next, Promise!Invalidate, Promise!Empty, Empty
<1>4. CASE ~(Writing(r) \/ Renewing(r))
  BY <1>1, <1>2, <1>4 DEF PVars
<1> QED BY <1>3, <1>4

LEMMA PromiseStep == Inv /\ [Next]_vars => [PNext]_PVars
<1> SUFFICES ASSUME Inv, [Next]_vars PROVE PNext \/ UNCHANGED PVars
  BY DEF PVars
<1>1. ASSUME NEW r \in Requests, NEW kind \in Kinds, NEW k \in Keys, Start(r, kind, k)
      PROVE  PNext \/ UNCHANGED PVars
  BY <1>1 DEF Start, Invalidate, shared, controller, PNext, PVars, Empty,
              Promise!Next, Promise!Invalidate, Promise!Empty
<1>2. ASSUME NEW r \in Requests, Raises(r) PROVE PNext \/ UNCHANGED PVars
  BY <1>2, RaisePromise DEF Raises, TransportFails, Refused, LoginFails, Cancel
<1>3. ASSUME NEW r \in Requests, Return(r) PROVE PNext \/ UNCHANGED PVars
  <2>1. PICK x : x = req[r]
    OBVIOUS
  <2>2. /\ Sound(x) /\ x.value \in Nat \cup {Absent} /\ x.key \in Keys
        /\ version \in Nat /\ floor \in Nat /\ version' = version
    BY <1>3, <2>1 DEF Inv, TypeOK, Request, Return, controller, Sound
  <2>3. ASSUME Current(r), x.kind # "write"
        PROVE  x.value \in floor .. version
    BY <1>3, <2>1, <2>2, <2>3 DEF Sound, Current, Return
  <2>4. CASE Renewing(r)
    <3>1. x.value \in floor .. version
      BY <2>1, <2>3, <2>4 DEF Renewing
    <3>2. cache' = [Empty EXCEPT ![x.key] = x.value] /\ floor' = x.value
      BY <1>3, <2>1, <2>4 DEF Return, Renewing, Writing
    <3>3. Promise!Renew(x.key)
      BY <2>2, <3>1, <3>2 DEF Promise!Renew, Promise!Empty, Empty
    <3> QED BY <2>2, <3>3 DEF PNext, Promise!Next
  <2>5. CASE ~Renewing(r) /\ x.kind = "read" /\ Current(r)
    <3>1. x.value \in floor .. version
      BY <2>3, <2>5
    <3>2. cache' = [cache EXCEPT ![x.key] = x.value] /\ floor' = floor
      BY <1>3, <2>1, <2>5 DEF Return, Renewing, Writing
    <3>3. Promise!Fill(x.key)
      BY <2>2, <3>1, <3>2 DEF Promise!Fill
    <3> QED BY <2>2, <3>3 DEF PNext, Promise!Next
  <2>6. CASE ~Renewing(r) /\ ~(x.kind = "read" /\ Current(r))
    <3>1. Raise(r)
      BY <1>3, <2>1, <2>6 DEF Raise, Return
    <3> QED BY <3>1, RaisePromise
  <2> QED BY <2>4, <2>5, <2>6
<1>4. ASSUME NEW r \in Requests, Accept(r) PROVE PNext \/ UNCHANGED PVars
  BY <1>4 DEF Accept, shared, PNext, PVars, Promise!Next, Promise!Change
<1>5. ASSUME NEW r \in Requests, Refresh(r) \/ Resend(r) \/ Unauthorized(r)
      PROVE  UNCHANGED PVars
  BY <1>5 DEF Refresh, Resend, Unauthorized, shared, controller, PVars
<1>6. ASSUME NEW k \in Keys, Evict(k) PROVE PNext
  BY <1>6 DEF Evict, controller, PNext, Promise!Next, Promise!Evict
<1>7. CASE Change
  BY <1>7 DEF Change, shared, PNext, Promise!Next, Promise!Change
<1>8. CASE Expire \/ UNCHANGED vars
  BY <1>8 DEF Expire, shared, vars, PVars
<1> QED
  BY <1>1, <1>2, <1>3, <1>4, <1>5, <1>6, <1>7, <1>8 DEF Next, Proceed, Raises

\* The cache of request(), with its generations and all that is in flight,
\* keeps the promise of CachePromise: every step is one of its steps or none.
THEOREM ImplementsPromise == Spec => KeepsPromise
<1>1. Init => Promise!Init
  BY DEF Init, Promise!Init, Promise!Empty, Empty
<1>2. Inv /\ [Next]_vars => [Promise!Next]_<<version, floor, cache>>
  BY PromiseStep DEF PNext, PVars
<1> QED BY <1>1, <1>2, Invariant, PTL DEF Spec, KeepsPromise, Promise!Spec

-----------------------------------------------------------------------------
(* What follows from the promise. *)

LEMMA PromiseGoesOn ==
  ASSUME Promise!Fresh, [PNext]_PVars
  PROVE  /\ Promise!Fresh'
         /\ floor <= floor' /\ \A k \in Keys : cache'[k] # Absent => floor <= cache'[k]
<1>0. /\ version \in Nat /\ floor \in Nat /\ floor <= version
      /\ cache \in [Keys -> {Absent} \cup floor .. version]
      /\ \A k \in Keys : cache[k] # Absent => floor <= cache[k]
  BY DEF Promise!Fresh
<1>1. CASE Promise!Change \/ Promise!Invalidate \/ UNCHANGED PVars
  BY <1>0, <1>1 DEF Promise!Change, Promise!Invalidate, Promise!Empty, Promise!Fresh, PVars
<1>2. ASSUME NEW k \in Keys, Promise!Renew(k)
      PROVE  /\ Promise!Fresh'
             /\ floor <= floor' /\ \A l \in Keys : cache'[l] # Absent => floor <= cache'[l]
  BY <1>0, <1>2 DEF Promise!Renew, Promise!Empty, Promise!Fresh
<1>3. ASSUME NEW k \in Keys, Promise!Fill(k) \/ Promise!Evict(k)
      PROVE  /\ Promise!Fresh'
             /\ floor <= floor' /\ \A l \in Keys : cache'[l] # Absent => floor <= cache'[l]
  BY <1>0, <1>3 DEF Promise!Fill, Promise!Evict, Promise!Fresh
<1> QED BY <1>1, <1>2, <1>3 DEF PNext, Promise!Next

\* The cache goes on: by no order of invalidations, late answers and fresh reads
\* does request() show again what was too old to be shown before.
THEOREM CacheGoesOn == Spec => []Promise!Fresh /\ Promise!NeverBack
<1>1. Promise!Init => Promise!Fresh
  BY DEF Promise!Init, Promise!Fresh, Promise!Empty
<1>2. Promise!Fresh /\ [PNext]_PVars =>
        Promise!Fresh' /\ floor <= floor' /\ \A k \in Keys : cache'[k] # Absent => floor <= cache'[k]
  BY PromiseGoesOn
<1> QED BY <1>1, <1>2, ImplementsPromise, PTL
        DEF KeepsPromise, Promise!Spec, Promise!NeverBack, PNext, PVars

=============================================================================
