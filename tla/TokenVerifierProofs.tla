------------------------ MODULE TokenVerifierProofs ------------------------
(***************************************************************************)
(* What TokenVerifier's verifications guarantee, for any number of         *)
(* requests, tokens and keys.  The invariant says what a document tells of *)
(* the issuer as of the time it was asked for (Lists), that a fetch holds  *)
(* the lock of its document (Locks), and how the cool-down relates to the  *)
(* keys that are kept (Cooling).                                           *)
(***************************************************************************)
EXTENDS TokenVerifier, TLAPS

\* A document asked for at "from" lists keys that were published then or since,
\* and all that have been published since before.
Lists(from, keys) ==
  \A k \in Keys :
    /\ k \in keys => since[k] # Never /\ (left[k] = Never \/ from <= left[k])
    /\ k \in Issued /\ since[k] < from => k \in keys

Clock ==
  /\ \A k \in Keys : since[k] <= now /\ left[k] <= now
  /\ \A d \in Documents : kept[d].from <= now
  /\ forced <= now
  /\ \A r \in Requests :
       /\ request[r].start <= now
       /\ Fetching(r) => now <= request[r].start + FetchTime

Locks == \A r \in Requests : Fetching(r) => holder[DocumentOf(r)] = r

KeptLists == kept["jwks"].from # Never => Lists(kept["jwks"].from, kept["jwks"].keys)

PagesList ==
  \A r \in Requests :
    request[r].pc = "served" /\ request[r].stage # "discovery" =>
      Lists(request[r].start, request[r].page)

Cooling ==
  /\ kept["jwks"].from = Never => forced = Long
  /\ kept["jwks"].from # Never => forced <= kept["jwks"].from
  /\ \A r \in Requests :
       Fetching(r) /\ request[r].stage # "discovery" =>
         /\ forced <= request[r].start
         /\ Forced(r) => request[r].start - forced >= Cooldown

Ended == \A r \in Requests : request[r].result # "none" => request[r].pc = "rest"

VerifierInv ==
  VerifierTypeOK /\ Clock /\ Locks /\ KeptLists /\ PagesList /\ Cooling /\ Ended

-----------------------------------------------------------------------------
(* What a step does to the verification of its request. *)

\* Only the verification of r changes.
Only(r) ==
  /\ request' \in [Requests -> Verification]
  /\ \A q \in Requests \ {r} : request'[q] = request[q]

\* What becomes of a request that goes on with a document.
Used(r, page, reason) ==
  LET x == request'[r]
      token == request[r].token
  IN  /\ Only(r)
      /\ x.token = token
      /\ \/ /\ x.pc = "look"
            /\ x.start = request[r].start /\ x.result = request[r].result
         \/ /\ x.pc = "rest" /\ x.start = 0
            /\ request[r].stage # "discovery"
            /\ \/ /\ x.result = "unlike"
                  /\ \E k \in page \ Suits[token] : KidOf[k] = KidOf[KeyOf[token]]
               \/ x.result = "accepted" /\ KeyOf[token] \in page /\ token \in Fit
               \/ x.result = "claims" /\ KeyOf[token] \in page /\ token \notin Fit
               \/ x.result = reason /\ Forced(r) /\ KeyOf[token] \notin page

LEMMA BlankIsTyped ==
  ASSUME NEW t \in Tokens
  PROVE  Blank(t) \in Verification
BY TokenVerifierAssumption, SMT DEF Blank, Verification, Time

LEMMA BecomesChanges ==
  ASSUME VerifierTypeOK, NEW r \in Requests, NEW x \in Verification, Becomes(r, x)
  PROVE  Only(r) /\ request'[r] = x
BY DEF VerifierTypeOK, Becomes, Only

LEMMA EndChanges ==
  ASSUME VerifierTypeOK, NEW r \in Requests,
         NEW result \in {"none", "accepted", "claims", "unlike", "key", "cooled", "failed"},
         End(r, result)
  PROVE  /\ Only(r)
         /\ request'[r].pc = "rest" /\ request'[r].start = 0
         /\ request'[r].token = request[r].token /\ request'[r].result = result
<1> DEFINE x == [Blank(request[r].token) EXCEPT !.result = result]
<1>1. request[r].token \in Tokens
  BY DEF VerifierTypeOK, Verification
<1>2. Blank(request[r].token) \in Verification
  BY <1>1, BlankIsTyped
<1>3. /\ x \in Verification
      /\ x.pc = "rest" /\ x.start = 0 /\ x.token = request[r].token /\ x.result = result
  BY <1>2 DEF Blank, Verification
<1> QED
  BY <1>3, BecomesChanges DEF End

LEMMA NeedChanges ==
  ASSUME VerifierTypeOK, NEW r \in Requests,
         NEW stage \in {"discovery", "cached", "unknown", "mismatch"}, Need(r, stage)
  PROVE  /\ Only(r)
         /\ request'[r].pc = "look" /\ request'[r].start = request[r].start
         /\ request'[r].token = request[r].token /\ request'[r].result = request[r].result
<1> DEFINE x == [request[r] EXCEPT !.pc = "look", !.stage = stage, !.page = {}]
<1>1. request[r] \in Verification
  BY DEF VerifierTypeOK
<1>2. /\ x \in Verification
      /\ x.pc = "look" /\ x.start = request[r].start
      /\ x.token = request[r].token /\ x.result = request[r].result
  BY <1>1 DEF Verification
<1> QED
  BY <1>2, BecomesChanges DEF Need

LEMMA UseChanges ==
  ASSUME VerifierTypeOK, NEW r \in Requests, NEW page \in SUBSET Keys,
         NEW reason \in {"key", "cooled"}, Use(r, page, reason)
  PROVE  Used(r, page, reason)
<1> DEFINE token == request[r].token
           key == KeyOf[token]
           named == {k \in page : KidOf[k] = KidOf[key]}
           usable == named \cap Suits[token]
           stage == request[r].stage
           again == stage = "mismatch"
           found == stage # "discovery" /\ key \in IF again THEN named ELSE usable
           unlike == stage # "discovery" /\ ~again /\ named # {} /\ usable = {}
           other == stage # "discovery" /\ ~again /\ usable # {} /\ key \notin usable
<1>1. stage \in {"discovery", "cached", "unknown", "mismatch"} /\ key \in Keys
  BY TokenVerifierAssumption DEF VerifierTypeOK, Verification
<1>2. CASE stage = "discovery"
  <2>1. Need(r, "cached")
    BY <1>2 DEF Use
  <2> QED
    BY <2>1, NeedChanges DEF Used
<1>3. CASE stage = "cached" /\ named = {}
  <2>1. Need(r, "unknown")
    BY <1>3 DEF Use
  <2> QED
    BY <2>1, NeedChanges DEF Used
<1>4. CASE unlike
  <2>1. End(r, "unlike")
    BY <1>4 DEF Use
  <2>2. \E k \in page \ Suits[token] : KidOf[k] = KidOf[key]
    BY <1>4
  <2> QED
    BY <1>4, <2>1, <2>2, EndChanges DEF Used
<1>5. CASE found
  <2> DEFINE result == IF token \in Fit THEN "accepted" ELSE "claims"
  <2>1. End(r, result)
    BY <1>5 DEF Use
  <2>2. result \in {"none", "accepted", "claims", "unlike", "key", "cooled", "failed"}
    OBVIOUS
  <2>3. /\ Only(r)
        /\ request'[r].pc = "rest" /\ request'[r].start = 0
        /\ request'[r].token = token /\ request'[r].result = result
    BY <2>1, <2>2, EndChanges
  <2> QED
    BY <1>5, <2>3 DEF Used
<1>6. CASE other
  <2>1. Need(r, "mismatch")
    BY <1>6 DEF Use
  <2> QED
    BY <2>1, NeedChanges DEF Used
<1>7. CASE ~(stage = "discovery" \/ (stage = "cached" /\ named = {}) \/ found \/ unlike \/ other)
  <2>1. End(r, reason)
    BY <1>7 DEF Use
  <2>2. Forced(r) /\ stage # "discovery" /\ key \notin page
    BY <1>1, <1>7 DEF Forced
  <2> QED
    BY <2>1, <2>2, EndChanges DEF Used
<1> QED
  BY <1>2, <1>3, <1>4, <1>5, <1>6, <1>7

-----------------------------------------------------------------------------
(* The invariant is inductive. *)

LEMMA Constants ==
  /\ now \in Time => now \in Nat
  /\ Ttl \in Nat /\ Ttl >= 1 /\ Cooldown \in Nat /\ Cooldown >= 1 /\ Cooldown <= Ttl
  /\ FetchTime \in Nat /\ Long < 0
BY TokenVerifierAssumption, SMT DEF Time, Cooldown, Long

LEMMA VerifierInitInv == VerifierInit => VerifierInv
<1> SUFFICES ASSUME VerifierInit
             PROVE  VerifierInv
  OBVIOUS
<1>1. PICK b \in [Requests -> Tokens] : request = [r \in Requests |-> Blank(b[r])]
  BY DEF VerifierInit
<1>2. \A r \in Requests : request[r] \in Verification /\ request[r].pc = "rest"
                           /\ request[r].start = 0 /\ request[r].result = "none"
  BY <1>1, BlankIsTyped DEF Blank
<1>3. VerifierTypeOK
  <2>1. request \in [Requests -> Verification]
    BY <1>1, BlankIsTyped
  <2> QED
    BY <2>1, TokenVerifierAssumption
    DEF VerifierInit, VerifierTypeOK, Time, Document, NoDocument, Documents, Never
<1>4. Clock
  BY <1>2, TokenVerifierAssumption
  DEF VerifierInit, Clock, NoDocument, Never, Long, Fetching
<1>5. Locks /\ PagesList /\ Ended
  BY <1>2 DEF Locks, PagesList, Ended, Fetching
<1>6. KeptLists
  BY DEF VerifierInit, KeptLists, NoDocument, Documents
<1>7. Cooling
  BY <1>2 DEF VerifierInit, Cooling, NoDocument, Documents, Fetching
<1> QED
  BY <1>3, <1>4, <1>5, <1>6, <1>7 DEF VerifierInv

\* The issuer changes its keys: what documents list of the past stays true.
LEMMA IssuerStep ==
  ASSUME VerifierInv, NEW k \in Keys, Publish(k) \/ Withdraw(k)
  PROVE  VerifierInv'
<1> USE DEF VerifierInv
<1>1. UNCHANGED <<now, caches, holder, request>>
  BY DEF Publish, Withdraw
<1>2. now \in Time /\ now \in Nat
  BY Constants DEF VerifierTypeOK
<1>3. /\ since' \in [Keys -> Time \cup {Never}] /\ left' \in [Keys -> Time \cup {Never}]
      /\ \A x \in Keys : since'[x] \in {since[x], now} /\ left'[x] \in {left[x], now}
      /\ \A x \in Keys : since[x] # Never => since'[x] = since[x]
      /\ \A x \in Keys : since'[x] # since[x] => since'[x] = now
      /\ \A x \in Keys : x \in Issued' => x \in Issued \/ since'[x] = now
  BY <1>2 DEF Publish, Withdraw, VerifierTypeOK, Issued, Never, Time
<1>4. VerifierTypeOK'
  BY <1>1, <1>3 DEF VerifierTypeOK, caches
<1>5. Clock'
  <2>1. \A x \in Keys : since'[x] <= now /\ left'[x] <= now
    BY <1>2, <1>3 DEF Clock
  <2> QED
    BY <1>1, <2>1 DEF Clock, caches, Fetching
<1>6. ASSUME NEW from, from \in Time, from <= now, NEW keys, Lists(from, keys)
      PROVE  Lists(from, keys)'
  <2> SUFFICES ASSUME NEW x \in Keys
               PROVE  /\ x \in keys => since'[x] # Never /\ (left'[x] = Never \/ from <= left'[x])
                      /\ x \in Issued' /\ since'[x] < from => x \in keys
    BY DEF Lists
  <2>1. /\ x \in keys => since[x] # Never /\ (left[x] = Never \/ from <= left[x])
        /\ x \in Issued /\ since[x] < from => x \in keys
    BY <1>6 DEF Lists
  <2>2. x \in keys => since'[x] # Never /\ (left'[x] = Never \/ from <= left'[x])
    BY <1>3, <1>6, <2>1
  <2>3. ASSUME x \in Issued', since'[x] < from
        PROVE  x \in keys
    <3>1. since'[x] # now
      BY <1>2, <1>6, <2>3 DEF Time
    <3> QED
      BY <1>3, <2>1, <2>3, <3>1
  <2> QED
    BY <2>2, <2>3
<1>7. KeptLists'
  <2> SUFFICES ASSUME kept["jwks"].from # Never
               PROVE  Lists(kept["jwks"].from, kept["jwks"].keys)'
    BY <1>1 DEF KeptLists, caches
  <2>1. kept["jwks"].from \in Time /\ kept["jwks"].from <= now
    BY DEF VerifierTypeOK, Documents, Document, Clock
  <2>2. Lists(kept["jwks"].from, kept["jwks"].keys)
    BY DEF KeptLists
  <2>3. kept' = kept
    BY <1>1 DEF caches
  <2> QED
    BY <1>3, <1>6, <2>1, <2>2, <2>3 DEF Lists
<1>8. PagesList'
  <2> SUFFICES ASSUME NEW r \in Requests,
                      request[r].pc = "served" /\ request[r].stage # "discovery"
               PROVE  Lists(request[r].start, request[r].page)'
    BY <1>1 DEF PagesList
  <2>1. request[r].start \in Time /\ request[r].start <= now
    BY DEF VerifierTypeOK, Verification, Clock
  <2>2. Lists(request[r].start, request[r].page)
    BY DEF PagesList
  <2> QED
    BY <1>1, <1>6, <2>1, <2>2 DEF Lists
<1>9. Locks' /\ Cooling' /\ Ended'
  BY <1>1 DEF Locks, Cooling, Ended, Fetching, DocumentOf, Forced, caches
<1> QED
  BY <1>4, <1>5, <1>7, <1>8, <1>9

\* Time passes, but no longer than fetches take.
LEMMA AdvanceStep ==
  ASSUME VerifierInv, Advance
  PROVE  VerifierInv'
<1> USE DEF VerifierInv
<1>1. UNCHANGED <<since, left, kept, forced, holder, request>>
  BY DEF Advance, issuer, caches
<1>2. now \in Nat /\ now' = now + 1 /\ now' \in Time
  BY TokenVerifierAssumption, Constants DEF Advance, VerifierTypeOK, Time
<1>3. VerifierTypeOK'
  BY <1>1, <1>2 DEF VerifierTypeOK
<1>4. Clock'
  <2>1. \A r \in Requests : Fetching(r) => now' <= request[r].start + FetchTime
    <3> SUFFICES ASSUME NEW r \in Requests, Fetching(r)
                 PROVE  now + 1 <= request[r].start + FetchTime
      BY <1>2
    <3>1. request[r].start \in Nat /\ FetchTime \in Nat
      BY Constants DEF VerifierTypeOK, Verification, Time
    <3>2. now < request[r].start + FetchTime
      BY DEF Advance
    <3> QED
      BY <1>2, <3>1, <3>2
  <2>2. /\ \A k \in Keys : since[k] \in Int /\ left[k] \in Int
        /\ \A d \in Documents : kept[d].from \in Int
        /\ \A r \in Requests : request[r].start \in Int
        /\ forced \in Int
    BY Constants DEF VerifierTypeOK, Time, Never, Document, Verification, Long
  <2> QED
    BY <1>1, <1>2, <2>1, <2>2 DEF Clock, Fetching
<1>5. KeptLists'
  BY <1>1 DEF KeptLists, Lists, Issued
<1>6. PagesList'
  BY <1>1 DEF PagesList, Lists, Issued
<1>7. Locks' /\ Cooling' /\ Ended'
  BY <1>1 DEF Locks, Cooling, Ended, Fetching, DocumentOf, Forced
<1> QED
  BY <1>3, <1>4, <1>5, <1>6, <1>7

\* A step of r that changes nothing but its verification, which does not fetch
\* afterwards.
LEMMA QuietStep ==
  ASSUME VerifierInv, NEW r \in Requests, Only(r),
         UNCHANGED <<now, since, left, kept, forced>>,
         holder' \in [Documents -> Requests \cup {None}],
         \A q \in Requests \ {r} : Fetching(q) => holder'[DocumentOf(q)] = q,
         request'[r].pc \in {"rest", "look"}, request'[r].start <= now,
         request'[r].result # "none" => request'[r].pc = "rest"
  PROVE  VerifierInv'
<1> USE DEF VerifierInv
<1>1. \A q \in Requests : q = r \/ request'[q] = request[q]
  BY DEF Only
<1>2. VerifierTypeOK'
  BY DEF VerifierTypeOK, Only
<1>3. Clock'
  BY <1>1 DEF Clock, Fetching
<1>4. Locks'
  BY <1>1 DEF Locks, Fetching, DocumentOf
<1>5. KeptLists'
  BY DEF KeptLists, Lists, Issued
<1>6. PagesList'
  BY <1>1 DEF PagesList, Lists, Issued
<1>7. Cooling'
  BY <1>1 DEF Cooling, Fetching, Forced
<1>8. Ended'
  BY <1>1 DEF Ended
<1> QED
  BY <1>2, <1>3, <1>4, <1>5, <1>6, <1>7, <1>8

LEMMA VerifyStep ==
  ASSUME VerifierInv, NEW r \in Requests, Verify(r)
  PROVE  VerifierInv'
<1> USE DEF VerifierInv
<1>1. /\ now \in Nat /\ now \in Time
      /\ UNCHANGED <<now, since, left, kept, forced, holder>>
      /\ request[r] \in Verification /\ request[r].result = "none"
  BY Constants DEF Verify, VerifierTypeOK, issuer, caches
<1>2. CASE Becomes(r, [request[r] EXCEPT !.pc = "look", !.start = now])
  <2> DEFINE x == [request[r] EXCEPT !.pc = "look", !.start = now]
  <2>1. x \in Verification /\ x.pc = "look" /\ x.start = now /\ x.result = "none"
    BY <1>1 DEF Verification
  <2>2. Only(r) /\ request'[r] = x
    BY <1>2, <2>1, BecomesChanges
  <2>3. /\ request'[r].pc \in {"rest", "look"} /\ request'[r].start <= now
        /\ request'[r].result = "none"
    BY <1>1, <2>1, <2>2
  <2>4. /\ holder' \in [Documents -> Requests \cup {None}]
        /\ \A q \in Requests \ {r} : Fetching(q) => holder'[DocumentOf(q)] = q
    BY <1>1 DEF Locks, VerifierTypeOK
  <2> QED
    BY <1>1, <2>2, <2>3, <2>4, QuietStep
<1>3. CASE End(r, "claims")
  <2>1. Only(r) /\ request'[r].pc = "rest" /\ request'[r].start = 0
    BY <1>3, EndChanges
  <2>2. request'[r].pc \in {"rest", "look"} /\ request'[r].start <= now
    BY <1>1, <2>1
  <2>3. /\ holder' \in [Documents -> Requests \cup {None}]
        /\ \A q \in Requests \ {r} : Fetching(q) => holder'[DocumentOf(q)] = q
    BY <1>1 DEF Locks, VerifierTypeOK
  <2> QED
    BY <1>1, <2>1, <2>2, <2>3, QuietStep
<1> QED
  BY <1>2, <1>3 DEF Verify

\* A request that looks and goes on with what is kept.
LEMMA UseStep ==
  ASSUME VerifierInv, NEW r \in Requests, UseFresh(r) \/ UseCooled(r)
  PROVE  VerifierInv'
<1> USE DEF VerifierInv
<1>1. /\ now \in Nat /\ request[r].start <= now /\ request[r].result = "none"
      /\ UNCHANGED <<now, since, left, kept, forced, holder>>
  BY Constants
  DEF UseFresh, UseCooled, VerifierTypeOK, Clock, Ended, issuer, caches, Verification
<1>2. PICK page \in SUBSET Keys, reason \in {"key", "cooled"} : Use(r, page, reason)
  <2>1. /\ kept[DocumentOf(r)].keys \in SUBSET Keys
        /\ kept["jwks"].keys \in SUBSET Keys
    BY DEF VerifierTypeOK, Documents, Document, DocumentOf
  <2> QED
    BY <2>1 DEF UseFresh, UseCooled
<1>3. Used(r, page, reason)
  BY <1>2, UseChanges
<1>4. /\ Only(r) /\ request'[r].pc \in {"rest", "look"} /\ request'[r].start <= now
      /\ request'[r].result # "none" => request'[r].pc = "rest"
  BY <1>1, <1>3 DEF Used
<1> QED
  BY <1>1, <1>4, QuietStep DEF Locks, VerifierTypeOK

\* The lock is taken, and the cool-down is over if the keys are asked for again.
LEMMA FetchStep ==
  ASSUME VerifierInv, NEW r \in Requests, Fetch(r)
  PROVE  VerifierInv'
<1> USE DEF VerifierInv
<1> DEFINE x == [request[r] EXCEPT !.pc = "fetch", !.start = now]
           d == DocumentOf(r)
<1>1. /\ now \in Nat /\ now \in Time /\ FetchTime \in Nat
      /\ UNCHANGED <<now, since, left, kept, forced>>
      /\ request[r] \in Verification /\ request[r].pc = "look"
      /\ d \in Documents /\ holder[d] = None /\ holder' = [holder EXCEPT ![d] = r]
  BY Constants DEF Fetch, VerifierTypeOK, issuer, caches, DocumentOf, Documents
<1>2. /\ x \in Verification /\ x.pc = "fetch" /\ x.start = now
      /\ x.stage = request[r].stage /\ x.result = request[r].result
  BY <1>1 DEF Verification
<1>3. Only(r) /\ request'[r] = x
  BY <1>2, BecomesChanges DEF Fetch
<1>4. \A q \in Requests : q = r \/ request'[q] = request[q]
  BY <1>3 DEF Only
<1>5. VerifierTypeOK'
  BY <1>1, <1>3 DEF VerifierTypeOK, Only
<1>6. Clock'
  <2>1. request'[r].start = now /\ now <= now + FetchTime
    BY <1>1, <1>2, <1>3
  <2>2. \A q \in Requests \ {r} : request'[q] = request[q]
    BY <1>4
  <2>3. \A q \in Requests :
          request'[q].start <= now /\ (Fetching(q)' => now <= request'[q].start + FetchTime)
    BY <1>1, <2>1, <2>2 DEF Clock, Fetching
  <2> QED
    BY <1>1, <2>3 DEF Clock
<1>7. Locks'
  <2> SUFFICES ASSUME NEW q \in Requests, Fetching(q)'
               PROVE  holder'[DocumentOf(q)'] = q
    BY DEF Locks
  <2>1. CASE q = r
    BY <1>1, <1>2, <1>3, <2>1 DEF DocumentOf, VerifierTypeOK
  <2>2. CASE q # r
    <3>1. Fetching(q) /\ DocumentOf(q)' = DocumentOf(q)
      BY <1>4, <2>2 DEF Fetching, DocumentOf
    <3>2. holder[DocumentOf(q)] = q
      BY <3>1 DEF Locks
    <3>3. DocumentOf(q) # d
      BY <1>1, <3>2, TokenVerifierAssumption
    <3> QED
      BY <1>1, <3>1, <3>2, <3>3 DEF VerifierTypeOK
  <2> QED
    BY <2>1, <2>2
<1>8. KeptLists'
  BY <1>1 DEF KeptLists, Lists, Issued
<1>9. PagesList'
  BY <1>1, <1>2, <1>3, <1>4 DEF PagesList, Lists, Issued
<1>10. Cooling'
  <2>1. /\ kept'["jwks"].from = Never => forced' = Long
        /\ kept'["jwks"].from # Never => forced' <= kept'["jwks"].from
    BY <1>1 DEF Cooling
  <2>2. ASSUME request[r].stage # "discovery"
        PROVE  forced <= now /\ (Forced(r) => now - forced >= Cooldown)
    <3>1. forced \in Int /\ forced <= now
      BY <1>1, Constants DEF VerifierTypeOK, Clock, Time, Long
    <3>2. CASE Forced(r) /\ kept["jwks"].from = Never
      BY <1>1, <3>1, <3>2, Constants DEF Cooling, Long
    <3>3. CASE Forced(r) /\ kept["jwks"].from # Never
      BY <1>1, <3>1, <3>3, Constants DEF Fetch, Cooled
    <3> QED
      BY <3>1, <3>2, <3>3
  <2> QED
    BY <1>1, <1>2, <1>3, <1>4, <2>1, <2>2 DEF Cooling, Fetching, Forced
<1>11. Ended'
  BY <1>1, <1>2, <1>3, <1>4 DEF Ended
<1> QED
  BY <1>5, <1>6, <1>7, <1>8, <1>9, <1>10, <1>11

\* The issuer answers with the keys that it publishes.
LEMMA ServeStep ==
  ASSUME VerifierInv, NEW r \in Requests, Serve(r)
  PROVE  VerifierInv'
<1> USE DEF VerifierInv
<1> DEFINE answer == IF DocumentOf(r) = "jwks" THEN Issued ELSE {}
           x == [request[r] EXCEPT !.pc = "served", !.page = answer]
<1>1. /\ UNCHANGED <<now, since, left, kept, forced, holder>>
      /\ request[r] \in Verification /\ request[r].pc = "fetch"
  BY DEF Serve, VerifierTypeOK, issuer, caches
<1>2. answer \in SUBSET Keys
  BY DEF Issued
<1>3. /\ x \in Verification /\ x.pc = "served" /\ x.start = request[r].start
      /\ x.stage = request[r].stage /\ x.result = request[r].result /\ x.page = answer
  BY <1>1, <1>2 DEF Verification
<1>4. Only(r) /\ request'[r] = x
  BY <1>3, BecomesChanges DEF Serve
<1>5. \A q \in Requests : q = r \/ request'[q] = request[q]
  BY <1>4 DEF Only
<1>6. VerifierTypeOK'
  BY <1>1, <1>4 DEF VerifierTypeOK, Only
<1>7. Clock' /\ Locks' /\ Cooling'
  <2>1. \A q \in Requests :
          /\ request'[q].start = request[q].start /\ request'[q].stage = request[q].stage
          /\ Fetching(q)' <=> Fetching(q)
    BY <1>1, <1>3, <1>4, <1>5 DEF Fetching
  <2>2. Clock'
    BY <1>1, <2>1 DEF Clock
  <2>3. Locks'
    BY <1>1, <2>1 DEF Locks, DocumentOf
  <2>4. Cooling'
    BY <1>1, <2>1 DEF Cooling, Forced
  <2> QED
    BY <2>2, <2>3, <2>4
<1>8. KeptLists'
  BY <1>1 DEF KeptLists, Lists, Issued
<1>9. PagesList'
  <2> SUFFICES ASSUME NEW q \in Requests,
                      request'[q].pc = "served" /\ request'[q].stage # "discovery"
               PROVE  Lists(request'[q].start, request'[q].page)
    BY <1>1 DEF PagesList, Lists, Issued
  <2>1. CASE q = r
    <3>1. request'[q].page = Issued
      BY <1>3, <1>4, <2>1 DEF DocumentOf
    <3> QED
      BY <3>1 DEF Lists, Issued
  <2>2. CASE q # r
    BY <1>5, <2>2 DEF PagesList
  <2> QED
    BY <2>1, <2>2
<1>10. Ended'
  BY <1>1, <1>3, <1>4, <1>5 DEF Ended
<1> QED
  BY <1>6, <1>7, <1>8, <1>9, <1>10

\* No other request fetches the document that r does.
LEMMA Alone ==
  ASSUME VerifierInv, NEW r \in Requests, NEW q \in Requests \ {r}, Fetching(r), Fetching(q)
  PROVE  DocumentOf(q) # DocumentOf(r) /\ holder[DocumentOf(q)] = q
BY DEF VerifierInv, Locks

LEMMA FailStep ==
  ASSUME VerifierInv, NEW r \in Requests, Fail(r)
  PROVE  VerifierInv'
<1>1. /\ now \in Nat /\ UNCHANGED <<now, since, left, kept, forced>>
      /\ Fetching(r) /\ DocumentOf(r) \in Documents
      /\ holder \in [Documents -> Requests \cup {None}]
      /\ holder' = [holder EXCEPT ![DocumentOf(r)] = None]
  BY Constants DEF Fail, VerifierInv, VerifierTypeOK, issuer, caches, DocumentOf, Documents
<1>2. Only(r) /\ request'[r].pc = "rest" /\ request'[r].start = 0
  BY EndChanges DEF Fail, VerifierInv
<1>3. holder' \in [Documents -> Requests \cup {None}]
  BY <1>1
<1>4. ASSUME NEW q \in Requests \ {r}, Fetching(q)
      PROVE  holder'[DocumentOf(q)] = q
  <2>1. DocumentOf(q) # DocumentOf(r) /\ holder[DocumentOf(q)] = q
    BY <1>1, <1>4, Alone
  <2>2. DocumentOf(q) \in Documents
    BY DEF DocumentOf, Documents
  <2> QED
    BY <1>1, <2>1, <2>2
<1>5. request'[r].pc \in {"rest", "look"} /\ request'[r].start <= now
  BY <1>1, <1>2
<1> QED
  BY <1>1, <1>2, <1>3, <1>4, <1>5, QuietStep

\* The document is kept as of the time it was asked for, and the lock released.
LEMMA ReceiveStep ==
  ASSUME VerifierInv, NEW r \in Requests, Receive(r)
  PROVE  VerifierInv'
<1> USE DEF VerifierInv
<1> DEFINE d == DocumentOf(r)
           start == request[r].start
           page == request[r].page
<1>1. /\ now \in Nat /\ UNCHANGED <<now, since, left>>
      /\ request[r] \in Verification /\ request[r].pc = "served" /\ Fetching(r)
      /\ start \in Time /\ start \in Nat /\ start <= now /\ page \in SUBSET Keys
      /\ d \in Documents
      /\ kept' = [kept EXCEPT ![d] = [from |-> start, keys |-> page]]
      /\ forced' = IF Forced(r) THEN start ELSE forced
      /\ holder' = [holder EXCEPT ![d] = None]
  BY Constants DEF Receive, VerifierTypeOK, Verification, Time, issuer, DocumentOf, Documents,
     Fetching, Clock
<1>2. /\ kept'[d].from = start /\ kept'[d].keys = page
      /\ \A e \in Documents \ {d} : kept'[e] = kept[e]
  BY <1>1 DEF VerifierTypeOK
<1>3. Used(r, page, "key")
  BY <1>1, UseChanges DEF Receive
<1>4. /\ Only(r) /\ request'[r].pc \in {"rest", "look"} /\ request'[r].start <= now
      /\ request'[r].result # "none" => request'[r].pc = "rest"
  BY <1>1, <1>3 DEF Used, Ended
<1>5. \A q \in Requests : q = r \/ request'[q] = request[q]
  BY <1>4 DEF Only
<1>6. forced \in Time \cup {Long} /\ forced \in Int /\ forced <= now
  BY Constants DEF VerifierTypeOK, Time, Long, Clock
<1>7. VerifierTypeOK'
  <2>1. kept' \in [Documents -> Document]
    BY <1>1 DEF VerifierTypeOK, Document
  <2>2. forced' \in Time \cup {Long}
    BY <1>1, <1>6
  <2>3. holder' \in [Documents -> Requests \cup {None}]
    BY <1>1 DEF VerifierTypeOK
  <2> QED
    BY <1>1, <1>4, <2>1, <2>2, <2>3 DEF VerifierTypeOK, Only
<1>8. Clock'
  <2>1. \A e \in Documents : kept'[e].from <= now
    BY <1>1, <1>2 DEF Clock
  <2>2. forced' <= now
    BY <1>1, <1>6
  <2>3. \A q \in Requests :
          request'[q].start <= now /\ (Fetching(q)' => now <= request'[q].start + FetchTime)
    BY <1>4, <1>5 DEF Clock, Fetching
  <2> QED
    BY <1>1, <2>1, <2>2, <2>3 DEF Clock
<1>9. Locks'
  <2> SUFFICES ASSUME NEW q \in Requests, Fetching(q)'
               PROVE  holder'[DocumentOf(q)'] = q
    BY DEF Locks
  <2>1. q # r /\ Fetching(q) /\ DocumentOf(q)' = DocumentOf(q) /\ DocumentOf(q) \in Documents
    BY <1>4, <1>5 DEF Fetching, DocumentOf, Documents
  <2>2. DocumentOf(q) # d /\ holder[DocumentOf(q)] = q
    BY <1>1, <2>1, Alone
  <2> QED
    BY <1>1, <2>1, <2>2 DEF VerifierTypeOK
<1>10. KeptLists'
  <2>1. CASE d = "jwks"
    <3>1. request[r].stage # "discovery"
      BY <2>1 DEF DocumentOf
    <3>2. Lists(start, page)
      BY <1>1, <3>1 DEF PagesList
    <3> QED
      BY <1>1, <1>2, <2>1, <3>2 DEF KeptLists, Lists, Issued
  <2>2. CASE d # "jwks"
    <3>1. kept'["jwks"] = kept["jwks"]
      BY <1>2, <2>2 DEF Documents
    <3> QED
      BY <1>1, <3>1 DEF KeptLists, Lists, Issued
  <2> QED
    BY <2>1, <2>2
<1>11. PagesList'
  <2> SUFFICES ASSUME NEW q \in Requests,
                      request'[q].pc = "served" /\ request'[q].stage # "discovery"
               PROVE  Lists(request'[q].start, request'[q].page)
    BY <1>1 DEF PagesList, Lists, Issued
  <2>1. request'[q] = request[q]
    BY <1>4, <1>5
  <2> QED
    BY <2>1 DEF PagesList
<1>12. Cooling'
  <2>1. CASE d = "jwks"
    <3>1. request[r].stage # "discovery"
      BY <2>1 DEF DocumentOf
    <3>2. kept'["jwks"].from = start /\ start # Never
      BY <1>1, <1>2, <2>1 DEF Never
    <3>3. forced' <= start
      BY <1>1, <3>1 DEF Cooling
    <3>4. ASSUME NEW q \in Requests, Fetching(q)'
          PROVE  request'[q].stage = "discovery"
      <4>1. q # r /\ request'[q] = request[q] /\ Fetching(q)
        BY <1>4, <1>5, <3>4 DEF Fetching
      <4>2. DocumentOf(q) # "jwks"
        BY <1>1, <2>1, <4>1, Alone
      <4> QED
        BY <4>1, <4>2 DEF DocumentOf
    <3> QED
      BY <3>2, <3>3, <3>4 DEF Cooling
  <2>2. CASE d # "jwks"
    <3>1. request[r].stage = "discovery" /\ ~Forced(r)
      BY <2>2 DEF DocumentOf, Forced
    <3>2. kept'["jwks"] = kept["jwks"] /\ forced' = forced
      BY <1>1, <1>2, <2>2, <3>1 DEF Documents
    <3>3. ASSUME NEW q \in Requests, Fetching(q)'
          PROVE  request'[q] = request[q]
      BY <1>4, <1>5, <3>3 DEF Fetching
    <3> QED
      BY <3>2, <3>3 DEF Cooling, Fetching, Forced
  <2> QED
    BY <2>1, <2>2
<1>13. Ended'
  BY <1>4, <1>5 DEF Ended
<1> QED
  BY <1>7, <1>8, <1>9, <1>10, <1>11, <1>12, <1>13

LEMMA VerifierInvStep == VerifierInv /\ [VerifierNext]_verifierVars => VerifierInv'
<1> SUFFICES ASSUME VerifierInv, [VerifierNext]_verifierVars
             PROVE  VerifierInv'
  OBVIOUS
<1>1. ASSUME NEW k \in Keys, Publish(k) \/ Withdraw(k)
      PROVE  VerifierInv'
  BY <1>1, IssuerStep
<1>2. CASE Advance
  BY <1>2, AdvanceStep
<1>3. ASSUME NEW r \in Requests, Verify(r) \/ Look(r) \/ Serve(r) \/ Arrive(r)
      PROVE  VerifierInv'
  BY <1>3, VerifyStep, UseStep, FetchStep, ServeStep, ReceiveStep, FailStep DEF Look, Arrive
<1>4. CASE UNCHANGED verifierVars
  BY <1>4 DEF verifierVars, VerifierInv, VerifierTypeOK, Clock, Locks, KeptLists, PagesList,
     Cooling, Ended, Lists, Issued, Fetching, Forced, DocumentOf
<1> QED
  BY <1>1, <1>2, <1>3, <1>4 DEF VerifierNext

LEMMA VerifierInvariant == VerifierSpec => []VerifierInv
BY VerifierInitInv, VerifierInvStep, PTL DEF VerifierSpec

\* A verification is always of one of the known forms.
THEOREM VerifierTypeCorrect == VerifierSpec => []VerifierTypeOK
BY VerifierInvariant, PTL DEF VerifierInv

-----------------------------------------------------------------------------
(* How a verification ends. *)

LEMMA OthersKeep ==
  ASSUME VerifierTypeOK, NEW q \in Requests, NEW r \in Requests \ {q},
         Verify(q) \/ Look(q) \/ Serve(q) \/ Arrive(q)
  PROVE  request'[r] = request[r]
<1>1. PICK x : request' = [request EXCEPT ![q] = x]
  BY DEF Verify, Look, UseFresh, UseCooled, Fetch, Serve, Arrive, Receive, Fail, Use, Need, End,
     Becomes
<1> QED
  BY <1>1 DEF VerifierTypeOK

LEMMA EndsBy ==
  ASSUME VerifierInv, [VerifierNext]_verifierVars, NEW r \in Requests, Ends(r)
  PROVE  UseFresh(r) \/ UseCooled(r) \/ Receive(r) \/ (Fail(r) /\ request'[r].result = "failed")
<1>1. request' # request /\ request'[r] # request[r]
  BY DEF Ends
<1>2. PICK q \in Requests : Verify(q) \/ Look(q) \/ Serve(q) \/ Arrive(q)
  BY <1>1 DEF VerifierNext, verifierVars, Publish, Withdraw, Advance
<1>3. q = r
  BY <1>1, <1>2, OthersKeep DEF VerifierInv
<1>4. ~Verify(r)
  BY DEF Ends, Verify
<1>5. ~Fetch(r) /\ ~Serve(r)
  <2>1. request[r] \in Verification /\ request \in [Requests -> Verification]
    BY DEF VerifierInv, VerifierTypeOK
  <2>2. Fetch(r) => request'[r].pc = "fetch"
    BY <2>1 DEF Fetch, Becomes, Verification
  <2>3. Serve(r) => request'[r].pc = "served"
    BY <2>1 DEF Serve, Becomes, Verification
  <2> QED
    BY <2>2, <2>3 DEF Ends
<1>6. Fail(r) => request'[r].result = "failed"
  BY EndChanges DEF Fail, VerifierInv
<1> QED
  BY <1>2, <1>3, <1>4, <1>5, <1>6 DEF Look, Arrive

\* The document that decides a verification, as of when it was asked for.
LEMMA Decided ==
  ASSUME VerifierInv, NEW r \in Requests, Ends(r),
         UseFresh(r) \/ UseCooled(r) \/ Receive(r)
  PROVE  /\ UNCHANGED <<now, since, left>>
         /\ \E page \in SUBSET Keys, reason \in {"key", "cooled"}, from \in Time :
              /\ Used(r, page, reason)
              /\ Lists(from, page)
              /\ now - from <= Oldest
              /\ reason = "cooled" => now - from < Cooldown
              /\ reason = "key" /\ Forced(r) => from = request[r].start
<1> USE DEF VerifierInv
<1>1. /\ UNCHANGED <<now, since, left>>
      /\ now \in Nat /\ Ttl \in Nat /\ FetchTime \in Nat /\ Cooldown \in Nat /\ Cooldown <= Ttl
      /\ Oldest \in Int /\ Ttl - 1 <= Oldest /\ FetchTime <= Oldest
  BY Constants
  DEF UseFresh, UseCooled, Receive, issuer, VerifierTypeOK, Oldest
<1> DEFINE from == kept["jwks"].from
           keys == kept["jwks"].keys
<1>2. from \in Time \cup {Never} /\ keys \in SUBSET Keys /\ from <= now
  BY DEF VerifierTypeOK, Documents, Document, Clock
<1>3. CASE UseFresh(r)
  <2>1. PICK page \in SUBSET Keys : page = kept[DocumentOf(r)].keys /\ Used(r, page, "key")
    <3>1. kept[DocumentOf(r)].keys \in SUBSET Keys
      BY DEF VerifierTypeOK, Documents, Document, DocumentOf
    <3> QED
      BY <1>3, <3>1, UseChanges DEF UseFresh
  <2>2. request[r].stage # "discovery" /\ DocumentOf(r) = "jwks"
    BY <2>1 DEF Used, Ends, DocumentOf
  <2>3. from \in Time /\ now < from + Ttl /\ ~Forced(r)
    BY <1>2, <1>3, <2>2 DEF UseFresh, Fresh
  <2>4. now - from <= Oldest
    BY <1>1, <2>3 DEF Time
  <2>5. Lists(from, keys)
    BY <2>3 DEF KeptLists, Time, Never
  <2> QED
    BY <1>1, <2>1, <2>2, <2>3, <2>4, <2>5
<1>4. CASE UseCooled(r)
  <2>1. Used(r, keys, "cooled")
    BY <1>2, <1>4, UseChanges DEF UseCooled
  <2>2. from # Never /\ from \in Time /\ now - forced < Cooldown
    BY <1>2, <1>4 DEF UseCooled, Cooled
  <2>3. forced <= from /\ forced \in Int
    BY <2>2, Constants DEF Cooling, VerifierTypeOK, Time, Long
  <2>4. now - from < Cooldown /\ now - from <= Oldest
    BY <1>1, <2>2, <2>3 DEF Time
  <2>5. Lists(from, keys)
    BY <2>2 DEF KeptLists
  <2> QED
    BY <1>1, <1>2, <2>1, <2>2, <2>4, <2>5
<1>5. CASE Receive(r)
  <2> DEFINE start == request[r].start
             page == request[r].page
  <2>1. /\ request[r] \in Verification /\ request[r].pc = "served" /\ Fetching(r)
        /\ start \in Time /\ page \in SUBSET Keys
    BY <1>5 DEF Receive, VerifierTypeOK, Verification, Fetching
  <2>2. Used(r, page, "key")
    BY <1>5, <2>1, UseChanges DEF Receive
  <2>3. request[r].stage # "discovery"
    BY <2>2 DEF Used, Ends
  <2>4. Lists(start, page)
    BY <2>1, <2>3 DEF PagesList
  <2>5. now - start <= Oldest
    BY <1>1, <2>1 DEF Clock, Time
  <2> QED
    BY <1>1, <2>1, <2>2, <2>4, <2>5
<1> QED
  BY <1>3, <1>4, <1>5

-----------------------------------------------------------------------------
LEMMA AcceptedForRecent ==
  ASSUME VerifierInv, [VerifierNext]_verifierVars, NEW r \in Requests, Ends(r),
         request'[r].result = "accepted"
  PROVE  LET key == KeyOf[request[r].token]
         IN  /\ request[r].token \in Fit /\ key \in Keys
             /\ since[key] # Never
             /\ left[key] # Never => now - left[key] <= Oldest
             /\ since' = since /\ request'[r].token = request[r].token
<1> DEFINE key == KeyOf[request[r].token]
<1>1. UseFresh(r) \/ UseCooled(r) \/ Receive(r)
  BY EndsBy
<1>2. PICK page \in SUBSET Keys, reason \in {"key", "cooled"}, from \in Time :
        Used(r, page, reason) /\ Lists(from, page) /\ now - from <= Oldest
  BY <1>1, Decided
<1>3. /\ key \in page /\ key \in Keys /\ request[r].token \in Fit
      /\ request'[r].token = request[r].token
  BY <1>2 DEF Used, Ends
<1>4. since[key] # Never /\ (left[key] = Never \/ from <= left[key])
  BY <1>2, <1>3 DEF Lists
<1>5. now \in Int /\ left[key] \in Int /\ from \in Int /\ Oldest \in Int
  BY <1>3, Constants DEF VerifierInv, VerifierTypeOK, Time, Never, Oldest
<1>6. left[key] # Never => now - left[key] <= Oldest
  BY <1>2, <1>4, <1>5
<1>7. since' = since
  BY <1>1, Decided
<1> QED
  BY <1>3, <1>4, <1>6, <1>7

\* A token is accepted only for a key that was published recently: what is kept
\* and what arrives list keys of no longer ago than Oldest.
THEOREM KeysAreRecent == VerifierSpec => KeyWasRecent
<1>1. VerifierInv /\ [VerifierNext]_verifierVars =>
        [\A r \in Requests :
           LET key == KeyOf[request[r].token]
           IN  Ends(r) /\ request'[r].result = "accepted" =>
                 /\ since[key] # Never
                 /\ left[key] # Never => now - left[key] <= Oldest]_verifierVars
  BY AcceptedForRecent
<1> QED
  BY <1>1, VerifierInvariant, PTL DEF VerifierSpec, KeyWasRecent

\* The issuer publishes one key of each ID.
OneOfEachID == \A k \in Issued, l \in Issued : KidOf[k] = KidOf[l] => k = l

LEMMA IDsAreUnique == VerifierSpec => []OneOfEachID
<1>1. VerifierInit => OneOfEachID
  <2> SUFFICES ASSUME VerifierInit
               PROVE  Issued \subseteq Published
    BY TokenVerifierAssumption DEF OneOfEachID
  <2> QED
    BY DEF VerifierInit, Issued, Never
<1>2. ASSUME VerifierInv, [VerifierNext]_verifierVars, OneOfEachID
      PROVE  OneOfEachID'
  <2>1. ASSUME NEW k \in Keys, Publish(k)
        PROVE  OneOfEachID'
    <3>1. /\ since \in [Keys -> Time \cup {Never}] /\ now \in Time /\ Never \notin Time
          /\ since' = [since EXCEPT ![k] = now]
          /\ left' = [x \in Keys |-> IF x \in Issued /\ KidOf[x] = KidOf[k] THEN now ELSE left[x]]
      BY <1>2, <2>1 DEF VerifierInv, VerifierTypeOK, Publish, Time, Never
    <3>2. \A x \in Issued' : x = k \/ (x \in Issued /\ KidOf[x] # KidOf[k])
      BY <3>1 DEF Issued
    <3> QED
      BY <1>2, <3>2 DEF OneOfEachID
  <2>2. ASSUME NEW k \in Keys, Withdraw(k)
        PROVE  OneOfEachID'
    <3>1. /\ left \in [Keys -> Time \cup {Never}] /\ now \in Time /\ Never \notin Time
          /\ since' = since /\ left' = [left EXCEPT ![k] = now]
      BY <1>2, <2>2 DEF VerifierInv, VerifierTypeOK, Withdraw, Time, Never
    <3>2. Issued' \subseteq Issued
      BY <3>1 DEF Issued
    <3> QED
      BY <1>2, <3>2 DEF OneOfEachID
  <2>3. CASE UNCHANGED issuer
    BY <1>2, <2>3 DEF OneOfEachID, Issued, issuer
  <2> QED
    BY <1>2, <2>1, <2>2, <2>3
    DEF VerifierNext, verifierVars, issuer, Advance, Verify, Look, UseFresh, UseCooled, Fetch,
        Serve, Arrive, Receive, Fail
<1> QED
  BY <1>1, <1>2, VerifierInvariant, PTL DEF VerifierSpec

\* A key that the token met and that does not suit it is its own, or was withdrawn:
\* the issuer publishes the token's key under the ID of both.
LEMMA UnlikeWasRecent ==
  ASSUME VerifierInv, OneOfEachID, NEW t \in Tokens, KeyOf[t] \in Issued,
         NEW page \in SUBSET Keys, NEW from \in Time, Lists(from, page), now - from <= Oldest,
         \E k \in page \ Suits[t] : KidOf[k] = KidOf[KeyOf[t]]
  PROVE  \E k \in Keys \ Suits[t] :
           /\ KidOf[k] = KidOf[KeyOf[t]]
           /\ k = KeyOf[t] \/ (left[k] # Never /\ now - left[k] <= Oldest)
<1>1. PICK k \in page \ Suits[t] : KidOf[k] = KidOf[KeyOf[t]]
  OBVIOUS
<1>2. k \in Keys /\ since[k] # Never /\ (left[k] = Never \/ from <= left[k])
  BY <1>1 DEF Lists
<1>3. left[k] = Never => k = KeyOf[t]
  BY <1>1, <1>2 DEF OneOfEachID, Issued
<1>4. now \in Int /\ left[k] \in Int /\ from \in Int /\ Oldest \in Int
  BY <1>2, Constants DEF VerifierInv, VerifierTypeOK, Time, Never, Oldest
<1>5. left[k] # Never => now - left[k] <= Oldest
  BY <1>2, <1>4
<1> QED
  BY <1>1, <1>2, <1>3, <1>5

\* A token in order is refused only for one of the causes of RefusedForCause: the
\* document that lacks its key was asked for before the key was published, and one
\* that shows a key unlike it before that key was withdrawn.
THEOREM RefusalsHaveCause == VerifierSpec => RefusedForCause
<1> DEFINE Key(r) == KeyOf[request[r].token]
           Caused(r) ==
             /\ request'[r].result \in {"accepted", "failed", "key", "cooled", "unlike"}
             /\ request'[r].result = "key" => since[Key(r)] >= request[r].start
             /\ request'[r].result = "cooled" => now - since[Key(r)] < Cooldown
             /\ request'[r].result = "unlike" =>
                  \E k \in Keys \ Suits[request[r].token] :
                    /\ KidOf[k] = KidOf[Key(r)]
                    /\ k = Key(r) \/ (left[k] # Never /\ now - left[k] <= Oldest)
<1>1. ASSUME VerifierInv, OneOfEachID, [VerifierNext]_verifierVars, NEW r \in Requests, Ends(r),
             request[r].token \in Fit, Key(r) \in Issued
      PROVE  Caused(r)
  <2>1. CASE request'[r].result = "failed"
    BY <2>1
  <2>2. CASE UseFresh(r) \/ UseCooled(r) \/ Receive(r)
    <3>1. PICK page \in SUBSET Keys, reason \in {"key", "cooled"}, from \in Time :
            /\ Used(r, page, reason) /\ Lists(from, page) /\ now - from <= Oldest
            /\ reason = "cooled" => now - from < Cooldown
            /\ reason = "key" /\ Forced(r) => from = request[r].start
      BY <1>1, <2>2, Decided
    <3>2. \/ request'[r].result = "accepted"
          \/ request'[r].result = reason /\ Forced(r) /\ Key(r) \notin page
          \/ /\ request'[r].result = "unlike"
             /\ \E k \in page \ Suits[request[r].token] : KidOf[k] = KidOf[Key(r)]
      BY <1>1, <3>1 DEF Used, Ends
    <3>3. Key(r) \in Keys /\ request[r].token \in Tokens
      BY <1>1, TokenVerifierAssumption DEF Issued
    <3>4. Key(r) \notin page => ~(since[Key(r)] < from)
      BY <1>1, <3>1, <3>3 DEF Lists
    <3>5. /\ now \in Int /\ since[Key(r)] \in Int /\ from \in Int /\ Cooldown \in Int
      BY <1>1, <3>3, Constants DEF VerifierInv, VerifierTypeOK, Time, Never
    <3>6. CASE request'[r].result = "accepted"
      BY <3>6
    <3>7. CASE request'[r].result = reason /\ Forced(r) /\ Key(r) \notin page
      BY <3>1, <3>4, <3>5, <3>7
    <3>8. CASE /\ request'[r].result = "unlike"
               /\ \E k \in page \ Suits[request[r].token] : KidOf[k] = KidOf[Key(r)]
      BY <1>1, <3>1, <3>3, <3>8, UnlikeWasRecent
    <3> QED
      BY <3>2, <3>6, <3>7, <3>8
  <2> QED
    BY <1>1, <2>1, <2>2, EndsBy
<1>2. VerifierInv /\ OneOfEachID /\ [VerifierNext]_verifierVars =>
        [\A r \in Requests :
           LET token == request[r].token
               key == KeyOf[token]
               result == request'[r].result
           IN  Ends(r) /\ token \in Fit /\ key \in Issued =>
                 /\ result \in {"accepted", "failed", "key", "cooled", "unlike"}
                 /\ result = "key" => since[key] >= request[r].start
                 /\ result = "cooled" => now - since[key] < Cooldown
                 /\ result = "unlike" =>
                      \E k \in Keys \ Suits[token] :
                        /\ KidOf[k] = KidOf[key]
                        /\ k = key \/ (left[k] # Never /\ now - left[k] <= Oldest)]_verifierVars
  BY <1>1
<1> QED
  BY <1>2, VerifierInvariant, IDsAreUnique, PTL DEF VerifierSpec, RefusedForCause

\* The issuer's keys are refreshed by force at most once in a cool-down: a fetch
\* begins under the lock, and only when the cool-down is over.
THEOREM RefreshesAreApart == VerifierSpec => ForcedApart
<1>1. ASSUME VerifierInv, [VerifierNext]_verifierVars, forced' # forced
      PROVE  forced' - forced >= Cooldown
  <2>1. PICK r \in Requests : Receive(r)
    BY <1>1 DEF VerifierNext, verifierVars, caches, Publish, Withdraw, Advance, Verify, Look,
       UseFresh, UseCooled, Fetch, Serve, Arrive, Fail
  <2>2. Forced(r) /\ forced' = request[r].start
    BY <1>1, <2>1 DEF Receive
  <2>3. Fetching(r) /\ request[r].stage # "discovery"
    BY <2>1, <2>2 DEF Receive, Fetching, Forced
  <2> QED
    BY <1>1, <2>2, <2>3 DEF VerifierInv, Cooling
<1>2. VerifierInv /\ [VerifierNext]_verifierVars =>
        [forced' # forced => forced' - forced >= Cooldown]_verifierVars
  BY <1>1
<1> QED
  BY <1>2, VerifierInvariant, PTL DEF VerifierSpec, ForcedApart

-----------------------------------------------------------------------------
(* What stays of a verification. *)

\* A request was accepted only for a token in order, signed with a key that the
\* issuer has published: also long after, whatever has become of the key.
AcceptedIsIssued ==
  \A r \in Requests :
    request[r].result = "accepted" =>
      request[r].token \in Fit /\ since[KeyOf[request[r].token]] # Never

\* What was decided of a request stays.
LEMMA AcceptedStays ==
  ASSUME VerifierInv, VerifierNext, NEW r \in Requests, request[r].result = "accepted"
  PROVE  request'[r] = request[r]
<1>1. request[r].pc = "rest"
  BY DEF VerifierInv, Ended
<1>2. CASE UNCHANGED request
  BY <1>2
<1>3. ASSUME NEW q \in Requests, Verify(q) \/ Look(q) \/ Serve(q) \/ Arrive(q)
      PROVE  request'[r] = request[r]
  <2>1. q # r
    BY <1>1, <1>3 DEF Verify, Look, UseFresh, UseCooled, Fetch, Serve, Arrive, Receive, Fail,
       Fetching
  <2> QED
    BY <1>3, <2>1, OthersKeep DEF VerifierInv
<1> QED
  BY <1>2, <1>3 DEF VerifierNext, Publish, Withdraw, Advance

\* It is the end of a verification that accepts.
LEMMA AcceptedByEnd ==
  ASSUME VerifierInv, [VerifierNext]_verifierVars, NEW r \in Requests,
         request[r].result # "accepted", request'[r].result = "accepted"
  PROVE  Ends(r)
<1>1. PICK q \in Requests : Verify(q) \/ Look(q) \/ Serve(q) \/ Arrive(q)
  BY DEF VerifierNext, verifierVars, Publish, Withdraw, Advance
<1>2. q = r
  BY <1>1, OthersKeep DEF VerifierInv
<1>3. request[r] \in Verification /\ request \in [Requests -> Verification]
  BY DEF VerifierInv, VerifierTypeOK
<1>4. ~Verify(r)
  <2>1. End(r, "claims") => request'[r].result = "claims"
    BY EndChanges DEF VerifierInv
  <2>2. Becomes(r, [request[r] EXCEPT !.pc = "look", !.start = now]) =>
          request'[r].result = request[r].result
    BY <1>3 DEF Becomes, Verification
  <2> QED
    BY <2>1, <2>2 DEF Verify
<1>5. ~Fetch(r) /\ ~Serve(r)
  BY <1>3 DEF Fetch, Serve, Becomes, Verification
<1>6. ~Fail(r)
  BY EndChanges DEF Fail, VerifierInv
<1>7. /\ request[r].pc # "rest"
      /\ \E page \in SUBSET Keys, reason \in {"key", "cooled"} : Use(r, page, reason)
  <2>1. \A d \in Documents : kept[d].keys \in SUBSET Keys
    BY DEF VerifierInv, VerifierTypeOK, Document
  <2>2. request[r].page \in SUBSET Keys
    BY <1>3 DEF Verification
  <2> QED
    BY <1>1, <1>2, <1>4, <1>5, <1>6, <2>1, <2>2
    DEF Look, Arrive, UseFresh, UseCooled, Receive, DocumentOf, Documents
<1>8. PICK page \in SUBSET Keys, reason \in {"key", "cooled"} : Used(r, page, reason)
  BY <1>7, UseChanges DEF VerifierInv
<1> QED
  BY <1>7, <1>8 DEF Used, Ends

\* Keys that were published stay known as such.
LEMMA SinceStays ==
  ASSUME VerifierInv, [VerifierNext]_verifierVars, NEW k \in Keys, since[k] # Never
  PROVE  since'[k] # Never
<1>1. since \in [Keys -> Time \cup {Never}]
  BY DEF VerifierInv, VerifierTypeOK
<1>2. ASSUME NEW l \in Keys, Publish(l)
      PROVE  since'[k] # Never
  BY <1>1, <1>2 DEF Publish
<1>3. CASE UNCHANGED since
  BY <1>3
<1> QED
  BY <1>2, <1>3
  DEF VerifierNext, verifierVars, issuer, Withdraw, Advance, Verify, Look, UseFresh, UseCooled,
      Fetch, Serve, Arrive, Receive, Fail

\* No request is accepted, ever, but for a token in order whose key was published
\* (verify_token, _find_key).
THEOREM AcceptedAreIssued == VerifierSpec => []AcceptedIsIssued
<1>1. VerifierInit => AcceptedIsIssued
  BY DEF VerifierInit, AcceptedIsIssued, Blank
<1>2. ASSUME VerifierInv, [VerifierNext]_verifierVars, AcceptedIsIssued
      PROVE  AcceptedIsIssued'
  <2> SUFFICES ASSUME NEW r \in Requests, request'[r].result = "accepted"
               PROVE  request'[r].token \in Fit /\ since'[KeyOf[request'[r].token]] # Never
    BY DEF AcceptedIsIssued
  <2>1. CASE request[r].result = "accepted"
    <3>1. request'[r] = request[r]
      BY <1>2, <2>1, AcceptedStays DEF verifierVars
    <3>2. request[r].token \in Fit /\ since[KeyOf[request[r].token]] # Never
      BY <1>2, <2>1 DEF AcceptedIsIssued
    <3>3. KeyOf[request[r].token] \in Keys
      BY <3>2, TokenVerifierAssumption
    <3> QED
      BY <1>2, <3>1, <3>2, <3>3, SinceStays
  <2>2. CASE request[r].result # "accepted"
    BY <1>2, <2>2, AcceptedByEnd, AcceptedForRecent
  <2> QED
    BY <2>1, <2>2
<1> QED
  BY <1>1, <1>2, VerifierInvariant, PTL DEF VerifierSpec

-----------------------------------------------------------------------------
(* Locks are not leaked. *)

\* Whoever holds the lock of a document fetches that document.
HolderFetches ==
  \A d \in Documents :
    holder[d] # None => Fetching(holder[d]) /\ DocumentOf(holder[d]) = d

\* Every way out of a fetch, by its answer, its timeout or its failure, releases
\* the lock that it was done under (_get_discovery, _get_jwks).
THEOREM LocksAreNotLeaked == VerifierSpec => []HolderFetches
<1>1. VerifierInit => HolderFetches
  BY DEF VerifierInit, HolderFetches
<1>2. ASSUME VerifierInv, [VerifierNext]_verifierVars, HolderFetches
      PROVE  HolderFetches'
  <2> SUFFICES ASSUME NEW d \in Documents, holder'[d] # None
               PROVE  Fetching(holder[d])' /\ DocumentOf(holder[d])' = d
    BY DEF HolderFetches
  <2>a. /\ holder \in [Documents -> Requests \cup {None}]
        /\ request \in [Requests -> Verification]
    BY <1>2 DEF VerifierInv, VerifierTypeOK
  <2>1. CASE UNCHANGED <<holder, request>>
    BY <1>2, <2>1 DEF HolderFetches, Fetching, DocumentOf
  <2>2. ASSUME NEW q \in Requests, Verify(q) \/ Look(q) \/ Serve(q) \/ Arrive(q)
        PROVE  Fetching(holder[d])' /\ DocumentOf(holder[d])' = d
    <3>1. DocumentOf(q) \in Documents
      BY DEF DocumentOf, Documents
    <3>2. CASE holder'[d] = holder[d] /\ holder[d] # q
      <4>1. PICK h \in Requests \ {q} : h = holder[d]
        BY <2>a, <3>2
      <4>2. Fetching(h) /\ DocumentOf(h) = d
        BY <1>2, <3>2, <4>1 DEF HolderFetches
      <4>3. request'[h] = request[h]
        BY <1>2, <2>2, <4>1, OthersKeep DEF VerifierInv
      <4> QED
        BY <3>2, <4>1, <4>2, <4>3 DEF Fetching, DocumentOf
    <3>3. CASE Fetch(q) /\ d = DocumentOf(q)
      <4>1. holder'[d] = q
        BY <2>a, <3>3 DEF Fetch
      <4>2. request'[q].pc = "fetch" /\ request'[q].stage = request[q].stage
        BY <2>a, <3>3 DEF Fetch, Becomes, Verification
      <4> QED
        BY <3>3, <4>1, <4>2 DEF Fetching, DocumentOf
    <3>4. CASE Serve(q) /\ holder[d] = q
      <4>1. holder'[d] = q /\ DocumentOf(q) = d
        BY <1>2, <3>4 DEF Serve, HolderFetches
      <4>2. request'[q].pc = "served" /\ request'[q].stage = request[q].stage
        BY <2>a, <3>4 DEF Serve, Becomes, Verification
      <4> QED
        BY <4>1, <4>2 DEF Fetching, DocumentOf
    <3>5. holder[d] = q => Fetching(q) /\ DocumentOf(q) = d
      BY <1>2, TokenVerifierAssumption DEF HolderFetches
    <3>6. CASE Verify(q) \/ UseFresh(q) \/ UseCooled(q)
      BY <3>2, <3>5, <3>6 DEF Verify, UseFresh, UseCooled, Fetching
    <3>7. CASE Fetch(q) /\ d # DocumentOf(q)
      BY <2>a, <3>1, <3>2, <3>5, <3>7 DEF Fetch, Fetching
    <3>8. CASE Serve(q)
      BY <3>2, <3>4, <3>8 DEF Serve
    <3>9. CASE Arrive(q)
      <4>1. holder' = [holder EXCEPT ![DocumentOf(q)] = None]
        BY <3>9 DEF Arrive, Receive, Fail
      <4>2. d # DocumentOf(q) /\ holder'[d] = holder[d]
        BY <2>a, <4>1
      <4> QED
        BY <3>2, <3>5, <4>2
    <3> QED
      BY <2>2, <3>3, <3>6, <3>7, <3>8, <3>9 DEF Look
  <2>3. (\E q \in Requests : Verify(q) \/ Look(q) \/ Serve(q) \/ Arrive(q))
          \/ UNCHANGED <<holder, request>>
    BY <1>2 DEF VerifierNext, verifierVars, Publish, Withdraw, Advance
  <2> QED
    BY <2>1, <2>2, <2>3
<1> QED
  BY <1>1, <1>2, VerifierInvariant, PTL DEF VerifierSpec

=============================================================================
