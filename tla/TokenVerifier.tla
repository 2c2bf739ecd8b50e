--------------------------- MODULE TokenVerifier ---------------------------
(***************************************************************************)
(* The verification of bearer tokens (auth/oidc.py).  Requests verify      *)
(* their tokens concurrently against the issuer's discovery document and   *)
(* its signing keys; each document is cached for a while, fetched under a  *)
(* lock of its own, and the keys are fetched once more when none has the   *)
(* ID of the token's key or the one that does gives another signature, but *)
(* not again within a cool-down.                                           *)
(* The issuer replaces its keys at any time.                               *)
(***************************************************************************)
EXTENDS Integers

CONSTANTS
  Requests,   \* requests whose tokens are verified at once
  Tokens,     \* bearer tokens
  Bearer,     \* those that each request may bring
  Keys,       \* signing keys
  KeyOf,      \* the key that signed each token
  KidOf,      \* the key ID of each key
  Suits,      \* keys with which each token can be checked: by algorithm, use and type
  Fit,        \* tokens whose header, claims and read scope are in order
  Published,  \* the issuer's keys at first
  None,       \* no document, no request
  Ttl,        \* cache_ttl_seconds
  Minute,     \* the longest cool-down
  FetchTime,  \* bound: ticks a fetch takes at most
  MaxTime     \* bound: the last tick

ASSUME TokenVerifierAssumption ==
  /\ Bearer \in [Requests -> SUBSET Tokens]
  /\ KeyOf \in [Tokens -> Keys] /\ Fit \subseteq Tokens
  /\ Suits \in [Tokens -> SUBSET Keys]
  /\ Published \subseteq Keys
  /\ \A k \in Published, l \in Published : KidOf[k] = KidOf[l] => k = l
  /\ None \notin Requests
  /\ Ttl \in Nat \ {0} /\ Minute \in Nat \ {0}
  /\ FetchTime \in Nat /\ MaxTime \in Nat

VARIABLES
  now,      \* clock
  since,    \* when the issuer published each key
  left,     \* when it withdrew each key
  kept,     \* the cached documents: _discovery, _jwks
  holder,   \* of the locks: _discovery_lock, _jwks_lock
  forced,   \* _last_forced_refresh
  request   \* the verify_token of each request

issuer == <<since, left>>
caches == <<kept, forced>>
verifierVars == <<now, since, left, kept, holder, forced, request>>

Time == 0 .. MaxTime
Never == -1
Documents == {"discovery", "jwks"}

\* As long ago as no cool-down lasts.
Long == 0 - Ttl

\* A document that was asked for at "from"; one of discovery lists no keys.
NoDocument == [from |-> Never, keys |-> {}]

Document == [from : Time \cup {Never}, keys : SUBSET Keys]

\* "stage" says what the request needs: the discovery document, the keys, or
\* the keys again as it knows none with the token's key ID, or one that gives
\* another signature.  "result" names the reason of a refusal.
Verification ==
  [pc : {"rest", "look", "fetch", "served"},
   stage : {"discovery", "cached", "unknown", "mismatch"},
   token : Tokens, start : Time, page : SUBSET Keys,
   result : {"none", "accepted", "claims", "unlike", "key", "cooled", "failed"}]

VerifierTypeOK ==
  /\ now \in Time
  /\ since \in [Keys -> Time \cup {Never}] /\ left \in [Keys -> Time \cup {Never}]
  /\ kept \in [Documents -> Document]
  /\ holder \in [Documents -> Requests \cup {None}]
  /\ forced \in Time \cup {Long}
  /\ request \in [Requests -> Verification]

Blank(t) ==
  [pc |-> "rest", stage |-> "discovery", token |-> t, start |-> 0, page |-> {}, result |-> "none"]

VerifierInit ==
  /\ now = 0
  /\ since = [k \in Keys |-> IF k \in Published THEN 0 ELSE Never]
  /\ left = [k \in Keys |-> Never]
  /\ kept = [d \in Documents |-> NoDocument]
  /\ holder = [d \in Documents |-> None]
  /\ forced = Long
  /\ \E b \in [Requests -> Tokens] :
       /\ \A r \in Requests : b[r] \in Bearer[r]
       /\ request = [r \in Requests |-> Blank(b[r])]

-----------------------------------------------------------------------------
(* The issuer and the clock. *)

Issued == {k \in Keys : since[k] # Never /\ left[k] = Never}

\* A new key takes the place of one with its ID.
Publish(k) ==
  /\ since[k] = Never
  /\ since' = [since EXCEPT ![k] = now]
  /\ left' = [x \in Keys |-> IF x \in Issued /\ KidOf[x] = KidOf[k] THEN now ELSE left[x]]
  /\ UNCHANGED <<now, caches, holder, request>>

Withdraw(k) ==
  /\ k \in Issued
  /\ left' = [left EXCEPT ![k] = now]
  /\ UNCHANGED <<now, since, caches, holder, request>>

Fetching(r) == request[r].pc \in {"fetch", "served"}

Advance ==
  /\ now < MaxTime
  /\ \A r \in Requests : Fetching(r) => now < request[r].start + FetchTime
  /\ now' = now + 1
  /\ UNCHANGED <<issuer, caches, holder, request>>

-----------------------------------------------------------------------------
(* A verification. *)

DocumentOf(r) == IF request[r].stage = "discovery" THEN "discovery" ELSE "jwks"
Forced(r) == request[r].stage \in {"unknown", "mismatch"}

Cooldown == IF Ttl < Minute THEN Ttl ELSE Minute

Fresh(d) == kept[d].from # Never /\ now < kept[d].from + Ttl

\* Mutant of Cooled: no cool-down.
Cooled_Never == FALSE

Cooled == kept["jwks"].from # Never /\ now - forced < Cooldown

\* The request's verification goes on as "x".
Becomes(r, x) == request' = [request EXCEPT ![r] = x]

End(r, result) ==
  Becomes(r, [Blank(request[r].token) EXCEPT !.result = result])

Need(r, stage) == Becomes(r, [request[r] EXCEPT !.pc = "look", !.stage = stage, !.page = {}])

\* The header is in order, or refused at once.
Verify(r) ==
  /\ request[r].pc = "rest" /\ request[r].result = "none"
  /\ \/ Becomes(r, [request[r] EXCEPT !.pc = "look", !.start = now])
     \/ request[r].token \notin Fit /\ End(r, "claims")
  /\ UNCHANGED <<now, issuer, caches, holder>>

\* Mutant of Use: a key that gives another signature is not fetched again.
Use_NoRetry(r, page, reason) ==
  LET token == request[r].token
      key == KeyOf[token]
      named == {k \in page : KidOf[k] = KidOf[key]}
      usable == named \cap Suits[token]
      stage == request[r].stage
      again == stage = "mismatch"
  IN  CASE stage = "discovery" -> Need(r, "cached")
        [] stage = "cached" /\ named = {} -> Need(r, "unknown")
        [] stage # "discovery" /\ key \in IF again THEN named ELSE usable ->
             End(r, IF token \in Fit THEN "accepted" ELSE "claims")
        [] stage # "discovery" /\ ~again /\ named # {} /\ usable = {} -> End(r, "unlike")
        [] OTHER -> End(r, reason)

\* The document is there: the request goes on with it.  A key of the token's ID
\* that does not suit it is the end; one that suits but did not sign it is asked
\* for again, and then the signature alone counts.
Use(r, page, reason) ==
  LET token == request[r].token
      key == KeyOf[token]
      named == {k \in page : KidOf[k] = KidOf[key]}
      usable == named \cap Suits[token]
      stage == request[r].stage
      again == stage = "mismatch"
  IN  CASE stage = "discovery" -> Need(r, "cached")
        [] stage = "cached" /\ named = {} -> Need(r, "unknown")
        [] stage # "discovery" /\ key \in IF again THEN named ELSE usable ->
             End(r, IF token \in Fit THEN "accepted" ELSE "claims")
        [] stage # "discovery" /\ ~again /\ named # {} /\ usable = {} -> End(r, "unlike")
        [] stage # "discovery" /\ ~again /\ usable # {} /\ key \notin usable -> Need(r, "mismatch")
        [] OTHER -> End(r, reason)

\* A document that is fresh is used whoever holds the lock, unless the keys are
\* asked for again.
UseFresh(r) ==
  /\ request[r].pc = "look"
  /\ ~Forced(r) /\ Fresh(DocumentOf(r))
  /\ Use(r, kept[DocumentOf(r)].keys, "key")
  /\ UNCHANGED <<now, issuer, caches, holder>>

\* The lock is free, and the keys were asked for again just now.
UseCooled(r) ==
  /\ request[r].pc = "look" /\ holder["jwks"] = None
  /\ Forced(r) /\ Cooled
  /\ Use(r, kept["jwks"].keys, "cooled")
  /\ UNCHANGED <<now, issuer, caches, holder>>

\* The lock is free, and the document has to be fetched.
Fetch(r) ==
  LET d == DocumentOf(r)
  IN  /\ request[r].pc = "look" /\ holder[d] = None
      /\ IF Forced(r) THEN ~Cooled ELSE ~Fresh(d)
      /\ holder' = [holder EXCEPT ![d] = r]
      /\ Becomes(r, [request[r] EXCEPT !.pc = "fetch", !.start = now])
      /\ UNCHANGED <<now, issuer, caches>>

\* The issuer answers.
Serve(r) ==
  /\ request[r].pc = "fetch"
  /\ Becomes(r, [request[r] EXCEPT !.pc = "served",
                                   !.page = IF DocumentOf(r) = "jwks" THEN Issued ELSE {}])
  /\ UNCHANGED <<now, issuer, caches, holder>>

\* Mutant of Receive: the document counts from its arrival.
Receive_Late(r) ==
  LET d == DocumentOf(r)
  IN  /\ request[r].pc = "served"
      /\ kept' = [kept EXCEPT ![d] = [from |-> now, keys |-> request[r].page]]
      /\ forced' = IF Forced(r) THEN request[r].start ELSE forced
      /\ holder' = [holder EXCEPT ![d] = None]
      /\ Use(r, request[r].page, "key")
      /\ UNCHANGED <<now, issuer>>

\* Mutant of Receive: the forced refresh counts from when its document expires.
Receive_Expiry(r) ==
  LET d == DocumentOf(r)
  IN  /\ request[r].pc = "served"
      /\ kept' = [kept EXCEPT ![d] = [from |-> request[r].start, keys |-> request[r].page]]
      /\ forced' = IF Forced(r) THEN request[r].start + Ttl ELSE forced
      /\ holder' = [holder EXCEPT ![d] = None]
      /\ Use(r, request[r].page, "key")
      /\ UNCHANGED <<now, issuer>>

\* The answer arrives and is kept, from the time it was asked for.
Receive(r) ==
  LET d == DocumentOf(r)
  IN  /\ request[r].pc = "served"
      /\ kept' = [kept EXCEPT ![d] = [from |-> request[r].start, keys |-> request[r].page]]
      /\ forced' = IF Forced(r) THEN request[r].start ELSE forced
      /\ holder' = [holder EXCEPT ![d] = None]
      /\ Use(r, request[r].page, "key")
      /\ UNCHANGED <<now, issuer>>

\* Mutant of Fail: the lock is not released.
Fail_Locked(r) ==
  /\ Fetching(r)
  /\ End(r, "failed")
  /\ UNCHANGED <<now, issuer, caches, holder>>

\* No answer in time, or one that is no document.
Fail(r) ==
  /\ Fetching(r)
  /\ holder' = [holder EXCEPT ![DocumentOf(r)] = None]
  /\ End(r, "failed")
  /\ UNCHANGED <<now, issuer, caches>>

-----------------------------------------------------------------------------
Arrive(r) == Receive(r) \/ Fail(r)
Look(r) == UseFresh(r) \/ UseCooled(r) \/ Fetch(r)

VerifierNext ==
  \/ \E k \in Keys : Publish(k) \/ Withdraw(k)
  \/ Advance
  \/ \E r \in Requests : Verify(r) \/ Look(r) \/ Serve(r) \/ Arrive(r)

VerifierSpec == VerifierInit /\ [][VerifierNext]_verifierVars

\* The event loop runs what can go on, a fetch ends by its timeout, and an
\* asyncio.Lock is handed out in turn.
VerifierFairness == \A r \in Requests : WF_verifierVars(Arrive(r)) /\ SF_verifierVars(Look(r))

-----------------------------------------------------------------------------
(* Properties. *)

Oldest == IF Ttl - 1 < FetchTime THEN FetchTime ELSE Ttl - 1

\* The verification of r ends in this step.
Ends(r) == request[r].pc # "rest" /\ request'[r].pc = "rest"

\* A token is accepted only for a key that the issuer publishes, or withdrew no
\* longer ago than a document is kept or a fetch takes: neither the cool-down nor
\* answers that arrive late, while others fetch, lengthen a withdrawn key's life.
KeyWasRecent ==
  [][\A r \in Requests :
       LET key == KeyOf[request[r].token]
       IN  Ends(r) /\ request'[r].result = "accepted" =>
             /\ since[key] # Never
             /\ left[key] # Never => now - left[key] <= Oldest]_verifierVars

\* A token in order whose key is published is refused only as a fetch of its own
\* failed; as its key was published during its verification or, when others have
\* just asked for the keys again, less than a cool-down ago; or as its key is not
\* for it, or took the place of one that was not and that was withdrawn no longer
\* ago than a document is kept or a fetch takes.
RefusedForCause ==
  [][\A r \in Requests :
       LET token == request[r].token
           key == KeyOf[token]
           result == request'[r].result
       IN  Ends(r) /\ token \in Fit /\ key \in Issued =>
             /\ result \in {"accepted", "failed", "key", "cooled", "unlike"}
             /\ result = "key" => since[key] >= request[r].start
             /\ result = "cooled" => now - since[key] < Cooldown
             /\ result = "unlike" =>
                  \E k \in Keys \ Suits[token] :
                    /\ KidOf[k] = KidOf[key]
                    /\ k = key \/ (left[k] # Never /\ now - left[k] <= Oldest)]_verifierVars

\* However many requests bring tokens with unknown keys, the issuer answers them
\* with its keys no more than once in a cool-down.
ForcedApart == [][forced' # forced => forced' - forced >= Cooldown]_verifierVars

\* Every verification ends, whichever requests hold the locks and fail.
VerificationEnds == \A r \in Requests : request[r].pc # "rest" ~> request[r].pc = "rest"

=============================================================================
