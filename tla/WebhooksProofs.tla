--------------------------- MODULE WebhooksProofs ---------------------------
(***************************************************************************)
(* Proofs about Webhooks for any number of events, destinations, workers   *)
(* and attempts: the types, that recorded attempts are bounded and, if no  *)
(* worker outlives its claims, that every claim has one holder.            *)
(***************************************************************************)
EXTENDS Webhooks, TLAPS

USE WebhooksAssumption

-----------------------------------------------------------------------------
(* What the operators return. *)

LEMMA WaitType ==
  ASSUME NEW n \in Nat, NEW since \in Nat
  PROVE  Wait(n, since) \in 0 .. BackoffCap
<1>1. BackoffCap \in 0 .. BackoffCap
  OBVIOUS
<1>2. Delay(n) \in 0 .. BackoffCap
  BY <1>1, Zenon DEF Delay
<1>3. PICK delay \in 0 .. BackoffCap : delay = Delay(n)
  BY <1>2
<1>4. IF since < delay THEN delay - since \in 0 .. BackoffCap ELSE TRUE
  OBVIOUS
<1> QED BY <1>3, <1>4 DEF Wait

LEMMA StatusType ==
  ASSUME NEW outcome \in {"delivered", "retry", "failed"}, NEW n \in Nat, n <= MaxAttempts
  PROVE  /\ Status(outcome, n) \in {"delivered", "retry", "failed", "dead_letter"}
         /\ Status(outcome, n) = "retry" => n < MaxAttempts
         /\ Status(outcome, n) = "dead_letter" => n = MaxAttempts
  BY DEF Status

LEMMA NoRowType == NoRow \in Row /\ [NoRow EXCEPT !.status = "pending"] \in Row
  BY DEF NoRow, Row, Queued, Final

-----------------------------------------------------------------------------
(* The types, with one step per action. *)

\* What a worker has claimed may be attempted once more.
ItemsLeft == \A w \in Workers : \A i \in batch[w] : i.attempts < MaxAttempts

LEMMA TypeStep ==
  ASSUME TypeOK, AttemptsLeft, [Next]_vars,
         ItemsLeft
  PROVE  TypeOK'
<1>a. /\ listing \in [Events -> {"future", "listed", "gone"}]
      /\ stored \subseteq Events
      /\ inserts \in [Events -> Nat]
      /\ dest \in [Destinations -> {"unborn", "enabled", "disabled", "deleted"}]
      /\ row \in [Pairs -> Row]
      /\ batch \in [Workers -> SUBSET Item]
      /\ age \in [Workers -> 0 .. JobTimeout]
      /\ done \subseteq Pairs
      /\ aborts \in Nat
  BY DEF TypeOK
<1>b. \A p \in Pairs : p[1] \in Events /\ p[2] \in Destinations
  BY DEF Pairs
<1>1. ASSUME NEW e \in Events, Occur(e) \/ Forget(e) PROVE TypeOK'
  BY <1>1, <1>a DEF Occur, Forget, workers, history, TypeOK
<1>2. ASSUME NEW E \in SUBSET Events, Ingest(E) PROVE TypeOK'
  <2>1. inserts' \in [Events -> Nat]
    BY <1>2, <1>a DEF Ingest
  <2>2. row' \in [Pairs -> Row]
    BY <1>2, <1>a, NoRowType, Zenon DEF Ingest
  <2>3. stored' \subseteq Events
    BY <1>2, <1>a DEF Ingest
  <2> QED BY <1>2, <1>a, <2>1, <2>2, <2>3 DEF Ingest, workers, history, TypeOK
<1>3. ASSUME NEW P \in SUBSET Pairs, NEW E \in SUBSET Events, Prune(P, E) PROVE TypeOK'
  <2>1. row' \in [Pairs -> Row]
    BY <1>3, <1>a, NoRowType, Zenon DEF Prune
  <2> QED BY <1>3, <1>a, <2>1 DEF Prune, workers, history, TypeOK
<1>4. ASSUME NEW d \in Destinations,
             CreateDestination(d) \/ \E status \in {"enabled", "disabled"} :
                                       SetDestinationEnabled(d, status)
      PROVE  TypeOK'
  BY <1>4, <1>a DEF CreateDestination, SetDestinationEnabled, sources, workers, history, TypeOK
<1>5. ASSUME NEW d \in Destinations, DeleteDestination(d) PROVE TypeOK'
  <2>1. row' \in [Pairs -> Row]
    BY <1>5, <1>a, NoRowType, Zenon DEF DeleteDestination
  <2> QED BY <1>5, <1>a, <2>1 DEF DeleteDestination, sources, workers, history, TypeOK
<1>6. ASSUME NEW w \in Workers, Claim(w) PROVE TypeOK'
  <2>1. row' \in [Pairs -> Row]
    <3>1. ASSUME NEW p \in Pairs
          PROVE  /\ row[p] \in Row
                 /\ [row[p] EXCEPT !.status = "delivering", !.wait = 0, !.age = 0] \in Row
                 /\ [row[p] EXCEPT !.status = "retry", !.wait = 0, !.age = 0] \in Row
      <4>1. PICK r \in Row : r = row[p]
        BY <1>a
      <4>0. 0 \in 0 .. BackoffCap /\ 0 \in 0 .. StaleAfter
        OBVIOUS
      <4>2. [r EXCEPT !.status = "delivering", !.wait = 0, !.age = 0] \in Row
        BY <4>1, <4>0 DEF Row, Queued
      <4>3. [r EXCEPT !.status = "retry", !.wait = 0, !.age = 0] \in Row
        BY <4>1, <4>0 DEF Row, Queued
      <4> QED BY <4>1, <4>2, <4>3
    <3> QED BY <1>6, <3>1, Zenon DEF Claim
  <2>2. batch' \in [Workers -> SUBSET Item]
    <3> DEFINE claimed == {[pair |-> p, id |-> inserts[p[1]], attempts |-> row[p].attempts,
                            outcome |-> "none"] : p \in {q \in Pairs : Due(q)}}
    <3>1. \A p \in Pairs : inserts[p[1]] \in Nat /\ row[p].attempts \in Nat
      BY <1>a, <1>b DEF Row
    <3>2. claimed \in SUBSET Item
      BY <3>1 DEF Item
    <3>3. batch' = [batch EXCEPT ![w] = claimed]
      BY <1>6 DEF Claim
    <3> HIDE DEF claimed
    <3> QED BY <1>a, <3>2, <3>3
  <2>3. age' \in [Workers -> 0 .. JobTimeout]
    <3>1. 0 \in 0 .. JobTimeout
      OBVIOUS
    <3> QED BY <1>6, <1>a, <3>1, Zenon DEF Claim
  <2> QED BY <1>6, <1>a, <2>1, <2>2, <2>3 DEF Claim, sources, history, TypeOK
<1>7. ASSUME NEW w \in Workers, NEW i \in batch[w], Post(w, i) PROVE TypeOK'
  <2>1. PICK outcome \in {"delivered", "retry", "failed"} :
          batch' = [batch EXCEPT ![w] = (batch[w] \ {i}) \cup {[i EXCEPT !.outcome = outcome]}]
    BY <1>7 DEF Post
  <2>2. i \in Item /\ i.pair \in Pairs
    BY <1>a DEF Item
  <2>3. [i EXCEPT !.outcome = outcome] \in Item
    BY <2>2 DEF Item
  <2>4. batch' \in [Workers -> SUBSET Item]
    BY <1>a, <2>1, <2>3
  <2> QED BY <1>7, <1>a, <2>4 DEF Post, sources, history, TypeOK
<1>8. ASSUME NEW w \in Workers, NEW i \in batch[w], Record(w, i) PROVE TypeOK'
  <2>1. i \in Item /\ i.pair \in Pairs /\ i.attempts \in Nat /\ i.attempts < MaxAttempts
    BY <1>a DEF Item, ItemsLeft
  <2>2. i.outcome \in {"delivered", "retry", "failed"}
    BY <1>8, <2>1 DEF Record, Item
  <2>3. PICK n \in 0 .. MaxAttempts : n = i.attempts + 1
    BY <2>1
  <2>4. Wait(n, age[w]) \in 0 .. BackoffCap
    <3>1. age[w] \in Nat /\ n \in Nat
      BY <1>a, <2>3
    <3> QED BY <3>1, WaitType
  <2>5. Status(i.outcome, n) \in {"delivered", "retry", "failed", "dead_letter"}
    BY <2>2, <2>3, StatusType
  <2>6. PICK r \in Row : r = [status |-> Status(i.outcome, n), attempts |-> n,
                              wait |-> Wait(n, age[w]), age |-> 0]
    <3>1. 0 \in 0 .. StaleAfter
      OBVIOUS
    <3> QED BY <2>4, <2>5, <3>1, Zenon DEF Row, Final, Queued
  <2>7. row' = [row EXCEPT ![i.pair] = r] \/ row' = row
    BY <1>8, <2>3, <2>6 DEF Record
  <2>8. row' \in [Pairs -> Row]
    BY <1>a, <2>7
  <2>9. batch' \in [Workers -> SUBSET Item]
    BY <1>8, <1>a DEF Record
  <2>10. age' \in [Workers -> 0 .. JobTimeout]
    BY <1>8, <1>a DEF Record
  <2>11. done' \subseteq Pairs
    BY <1>8, <1>a, <2>1 DEF Record
  <2> QED BY <1>8, <1>a, <2>8, <2>9, <2>10, <2>11 DEF Record, sources, TypeOK
<1>9. ASSUME NEW w \in Workers, Abort(w) PROVE TypeOK'
  <2>2. batch' \in [Workers -> SUBSET Item] /\ age' \in [Workers -> 0 .. JobTimeout]
    BY <1>9, <1>a DEF Abort
  <2> QED BY <1>9, <1>a, <2>2 DEF Abort, sources, TypeOK
<1>10. CASE Tick
  <2>1. age' \in [Workers -> 0 .. JobTimeout]
    <3>1. ASSUME NEW w \in Workers
          PROVE  IF batch[w] = {} THEN 0 \in 0 .. JobTimeout ELSE age[w] + 1 \in 0 .. JobTimeout
      <4>1. age[w] \in 0 .. JobTimeout /\ (batch[w] # {} => age[w] < JobTimeout)
        BY <1>10, <1>a DEF Tick
      <4> QED BY <4>1
    <3> QED BY <1>10, <3>1, Zenon DEF Tick
  <2>2. row' \in [Pairs -> Row]
    <3>1. ASSUME NEW p \in Pairs
          PROVE  [row[p] EXCEPT !.wait = IF row[p].wait = 0 THEN 0 ELSE row[p].wait - 1,
                                !.age = IF row[p].status = "delivering" /\ row[p].age < StaleAfter
                                        THEN row[p].age + 1 ELSE row[p].age] \in Row
      <4>1. row[p] \in Row
        BY <1>a
      <4>2. PICK m \in 0 .. BackoffCap : m = IF row[p].wait = 0 THEN 0 ELSE row[p].wait - 1
        BY <4>1 DEF Row
      <4>3. PICK n \in 0 .. StaleAfter :
              n = IF row[p].status = "delivering" /\ row[p].age < StaleAfter
                  THEN row[p].age + 1 ELSE row[p].age
        BY <4>1 DEF Row
      <4>4. [row[p] EXCEPT !.wait = m, !.age = n] \in Row
        BY <4>1, <4>2, <4>3 DEF Row
      <4> QED BY <4>2, <4>3, <4>4
    <3> QED BY <1>10, <3>1 DEF Tick
  <2> QED BY <1>10, <1>a, <2>1, <2>2 DEF Tick, sources, history, TypeOK
<1>11. CASE UNCHANGED vars
  BY <1>11, <1>a DEF vars, TypeOK
<1> QED
  BY <1>1, <1>2, <1>3, <1>4, <1>5, <1>6, <1>7, <1>8, <1>9, <1>10, <1>11 DEF Next, Deliver

-----------------------------------------------------------------------------
(* Attempts. *)

Left(r) ==
  /\ r.status \in Queued => r.attempts < MaxAttempts
  /\ r.status = "dead_letter" => r.attempts = MaxAttempts

LEMMA LeftFacts ==
  /\ Left(NoRow) /\ Left([NoRow EXCEPT !.status = "pending"])
  /\ \A r \in Row : Left(r) /\ r.status \in Queued =>
       /\ Left([r EXCEPT !.status = "delivering", !.wait = 0, !.age = 0])
       /\ Left([r EXCEPT !.status = "retry", !.wait = 0, !.age = 0])
<1>1. Left(NoRow) /\ Left([NoRow EXCEPT !.status = "pending"])
  BY DEF Left, NoRow, Queued
<1>2. ASSUME NEW r \in Row, Left(r), r.status \in Queued
      PROVE  /\ Left([r EXCEPT !.status = "delivering", !.wait = 0, !.age = 0])
             /\ Left([r EXCEPT !.status = "retry", !.wait = 0, !.age = 0])
  BY <1>2 DEF Left, Queued, Row
<1> QED BY <1>1, <1>2

LEMMA AttemptsStep ==
  ASSUME TypeOK, AttemptsLeft, ItemsLeft, [Next]_vars
  PROVE  AttemptsLeft' /\ ItemsLeft'
<1>a. /\ row \in [Pairs -> Row] /\ batch \in [Workers -> SUBSET Item]
      /\ \A p \in Pairs : row[p] \in Row /\ Left(row[p])
  BY DEF TypeOK, AttemptsLeft, Left
<1>b. ASSUME \A p \in Pairs : Left(row'[p]) PROVE AttemptsLeft'
  BY <1>b DEF AttemptsLeft, Left
<1>c. ASSUME batch' = batch PROVE ItemsLeft'
  BY <1>c DEF ItemsLeft
<1>d. ASSUME row' = row PROVE AttemptsLeft'
  BY <1>d DEF AttemptsLeft
<1>1. ASSUME NEW e \in Events, Occur(e) \/ Forget(e) PROVE AttemptsLeft' /\ ItemsLeft'
  BY <1>1, <1>c, <1>d DEF Occur, Forget, workers
<1>2. ASSUME NEW E \in SUBSET Events, Ingest(E) PROVE AttemptsLeft' /\ ItemsLeft'
  <2>1. \A p \in Pairs : Left(row'[p])
    BY <1>2, <1>a, LeftFacts, Zenon DEF Ingest
  <2> QED BY <1>2, <1>b, <1>c, <2>1 DEF Ingest, workers
<1>3. ASSUME NEW P \in SUBSET Pairs, NEW E \in SUBSET Events, Prune(P, E)
      PROVE  AttemptsLeft' /\ ItemsLeft'
  <2>1. \A p \in Pairs : Left(row'[p])
    BY <1>3, <1>a, LeftFacts, Zenon DEF Prune
  <2> QED BY <1>3, <1>b, <1>c, <2>1 DEF Prune, workers
<1>4. ASSUME NEW d \in Destinations,
             CreateDestination(d) \/ \E status \in {"enabled", "disabled"} :
                                       SetDestinationEnabled(d, status)
      PROVE  AttemptsLeft' /\ ItemsLeft'
  BY <1>4, <1>c, <1>d DEF CreateDestination, SetDestinationEnabled, workers
<1>5. ASSUME NEW d \in Destinations, DeleteDestination(d) PROVE AttemptsLeft' /\ ItemsLeft'
  <2>1. \A p \in Pairs : Left(row'[p])
    BY <1>5, <1>a, LeftFacts, Zenon DEF DeleteDestination
  <2> QED BY <1>5, <1>b, <1>c, <2>1 DEF DeleteDestination, workers
<1>6. ASSUME NEW w \in Workers, Claim(w) PROVE AttemptsLeft' /\ ItemsLeft'
  <2>1. \A p \in Pairs : Stale(p) \/ Due(p) => row[p].status \in Queued
    BY DEF Stale, Due, Queued
  <2>2. \A p \in Pairs : Left(row'[p])
    BY <1>6, <1>a, <2>1, LeftFacts, Zenon DEF Claim
  <2>3. \A p \in Pairs : Due(p) => row[p].attempts < MaxAttempts
    BY <1>a, <2>1 DEF Left
  <2>4. ASSUME NEW v \in Workers, NEW i \in batch'[v] PROVE i.attempts < MaxAttempts
    <3>1. CASE v = w
      <4>1. PICK p \in Pairs : Due(p) /\ i.attempts = row[p].attempts
        <5>1. batch'[w] = {[pair |-> p, id |-> inserts[p[1]], attempts |-> row[p].attempts,
                            outcome |-> "none"] : p \in {q \in Pairs : Due(q)}}
          BY <1>6, <1>a, Zenon DEF Claim
        <5>2. \E p \in {q \in Pairs : Due(q)} :
                i = [pair |-> p, id |-> inserts[p[1]], attempts |-> row[p].attempts,
                     outcome |-> "none"]
          BY <2>4, <3>1, <5>1, Zenon
        <5> QED BY <5>2
      <4> QED BY <2>3, <4>1
    <3>2. CASE v # w
      BY <1>6, <1>a, <2>4, <3>2 DEF Claim, ItemsLeft
    <3> QED BY <3>1, <3>2
  <2> QED BY <1>b, <2>2, <2>4 DEF ItemsLeft
<1>7. ASSUME NEW w \in Workers, NEW i \in batch[w], Post(w, i)
      PROVE  AttemptsLeft' /\ ItemsLeft'
  <2>1. PICK outcome \in {"delivered", "retry", "failed"} :
          batch' = [batch EXCEPT ![w] = (batch[w] \ {i}) \cup {[i EXCEPT !.outcome = outcome]}]
    BY <1>7 DEF Post
  <2>2. i \in Item
    BY <1>a
  <2>3. [i EXCEPT !.outcome = outcome].attempts = i.attempts
    BY <2>2 DEF Item
  <2>4. ItemsLeft'
    BY <1>a, <2>1, <2>3 DEF ItemsLeft
  <2> QED BY <1>7, <1>d, <2>4 DEF Post
<1>8. ASSUME NEW w \in Workers, NEW i \in batch[w], Record(w, i)
      PROVE  AttemptsLeft' /\ ItemsLeft'
  <2>1. i \in Item /\ i.pair \in Pairs /\ i.attempts \in Nat /\ i.attempts < MaxAttempts
    BY <1>a DEF Item, ItemsLeft
  <2>2. i.outcome \in {"delivered", "retry", "failed"}
    BY <1>8, <2>1 DEF Record, Item
  <2>3. PICK n \in Nat : n = i.attempts + 1 /\ n <= MaxAttempts
    BY <2>1
  <2>4. PICK r : r = [status |-> Status(i.outcome, n), attempts |-> n,
                      wait |-> Wait(n, age[w]), age |-> 0]
    OBVIOUS
  <2>5. Left(r)
    BY <2>2, <2>3, <2>4, StatusType DEF Left, Queued
  <2>6. row' = [row EXCEPT ![i.pair] = r] \/ row' = row
    BY <1>8, <2>3, <2>4 DEF Record
  <2>7. \A p \in Pairs : Left(row'[p])
    BY <1>a, <2>5, <2>6
  <2>8. ItemsLeft'
    BY <1>8, <1>a DEF Record, ItemsLeft
  <2> QED BY <1>b, <2>7, <2>8
<1>9. ASSUME NEW w \in Workers, Abort(w) PROVE AttemptsLeft' /\ ItemsLeft'
  BY <1>9, <1>a, <1>d DEF Abort, ItemsLeft
<1>10. CASE Tick
  <2>1. \A p \in Pairs : /\ row'[p].status = row[p].status
                          /\ row'[p].attempts = row[p].attempts
    BY <1>10, <1>a DEF Tick, Row
  <2>2. \A p \in Pairs : Left(row'[p])
    BY <1>a, <2>1 DEF Left
  <2> QED BY <1>10, <1>b, <1>c, <2>2 DEF Tick
<1>11. CASE UNCHANGED vars
  BY <1>11, <1>c, <1>d DEF vars
<1> QED
  BY <1>1, <1>2, <1>3, <1>4, <1>5, <1>6, <1>7, <1>8, <1>9, <1>10, <1>11 DEF Next, Deliver

AttemptsInv == TypeOK /\ AttemptsLeft /\ ItemsLeft

LEMMA AttemptsInit == Init => AttemptsInv
<1> SUFFICES ASSUME Init PROVE AttemptsInv
  OBVIOUS
<1>1. TypeOK
  BY NoRowType DEF Init, TypeOK
<1>2. AttemptsLeft
  BY DEF Init, AttemptsLeft, NoRow, Queued
<1>3. ItemsLeft
  BY DEF Init, ItemsLeft
<1> QED BY <1>1, <1>2, <1>3 DEF AttemptsInv

LEMMA AttemptsInvariant == Spec => []AttemptsInv
<1>1. AttemptsInv /\ [Next]_vars => AttemptsInv'
  BY TypeStep, AttemptsStep DEF AttemptsInv
<1> QED BY <1>1, AttemptsInit, PTL DEF Spec

\* Every variable keeps its type.
THEOREM TypeCorrect == Spec => []TypeOK
<1>1. AttemptsInv => TypeOK
  BY DEF AttemptsInv
<1> QED BY <1>1, AttemptsInvariant, PTL

\* _record_result never counts past webhook_max_attempts, and a delivery that
\* _claim_due may take has an attempt left, whatever claims go stale when.
THEOREM AttemptsBounded == Spec => []AttemptsLeft
<1>1. AttemptsInv => AttemptsLeft
  BY DEF AttemptsInv
<1> QED BY <1>1, AttemptsInvariant, PTL

-----------------------------------------------------------------------------
(* One holder for each claim. *)

\* The row that an item was read from is still there.
Live(i) == row[i.pair].status # "none" /\ i.id = inserts[i.pair[1]]

Fit(w, i) ==
  /\ i.id <= inserts[i.pair[1]]
  /\ Live(i) => /\ row[i.pair].status = "delivering"
                /\ row[i.pair].attempts = i.attempts
                /\ row[i.pair].age = age[w]

Fits == \A w \in Workers : \A i \in batch[w] : Fit(w, i)

Apart ==
  \A w, v \in Workers : \A i \in batch[w], j \in batch[v] :
    i.pair = j.pair /\ Live(i) /\ Live(j) => w = v /\ i = j

\* Deliveries do not outlive their event.
Rooted == \A p \in Pairs : row[p].status # "none" => p[1] \in stored

HolderInv == TypeOK /\ Fits /\ Apart /\ Rooted

\* Events come and go, deliveries are deleted: no claim changes hands.
LEMMA Untouched ==
  ASSUME HolderInv, batch' = batch, age' = age,
         \A e \in Events : inserts'[e] \in Nat /\ inserts[e] <= inserts'[e],
         \A p \in Pairs : \/ row'[p].status = "none"
                          \/ row'[p] = row[p]
                          \/ inserts[p[1]] < inserts'[p[1]]
  PROVE  Fits' /\ Apart'
<1>1. ASSUME NEW w \in Workers, NEW i \in batch[w]
      PROVE  /\ i.id <= inserts'[i.pair[1]]
             /\ Live(i)' => Live(i) /\ row'[i.pair] = row[i.pair]
  <2>1. i.pair \in Pairs /\ i.pair[1] \in Events /\ i.id \in Nat /\ i.id <= inserts[i.pair[1]]
    BY DEF HolderInv, TypeOK, Item, Pairs, Fits, Fit
  <2>2. inserts[i.pair[1]] \in Nat /\ inserts'[i.pair[1]] \in Nat
    BY <2>1 DEF HolderInv, TypeOK
  <2>3. inserts[i.pair[1]] <= inserts'[i.pair[1]]
    BY <2>1
  <2>4. ASSUME Live(i)' PROVE Live(i) /\ row'[i.pair] = row[i.pair]
    <3>1. i.id = inserts'[i.pair[1]] /\ row'[i.pair].status # "none"
      BY <2>4 DEF Live
    <3>2. i.id = inserts[i.pair[1]] /\ ~(inserts[i.pair[1]] < inserts'[i.pair[1]])
      BY <2>1, <2>2, <2>3, <3>1
    <3>3. row'[i.pair] = row[i.pair]
      BY <2>1, <3>1, <3>2
    <3> QED BY <3>1, <3>2, <3>3 DEF Live
  <2> QED BY <2>1, <2>2, <2>3, <2>4
<1>2. Fits'
  BY <1>1 DEF HolderInv, Fits, Fit
<1>3. Apart'
  BY <1>1 DEF HolderInv, Apart
<1> QED BY <1>2, <1>3

LEMMA HolderStep ==
  ASSUME TimeoutBeforeStale, HolderInv, TypeOK', [Next]_vars
  PROVE  Fits' /\ Apart'
<1>a. /\ TypeOK /\ Fits /\ Apart
      /\ row \in [Pairs -> Row] /\ batch \in [Workers -> SUBSET Item]
      /\ age \in [Workers -> 0 .. JobTimeout] /\ inserts \in [Events -> Nat]
  BY DEF HolderInv, TypeOK
<1>b. \A w \in Workers : \A i \in batch[w] : i \in Item /\ i.pair \in Pairs /\ i.pair[1] \in Events
  BY <1>a DEF Item, Pairs
<1>c. \A p \in Pairs : p[1] \in Events /\ row[p] \in Row
  BY <1>a DEF Pairs
<1>d. \A e \in Events : inserts[e] \in Nat /\ inserts[e] <= inserts[e]
  BY <1>a
<1>1. ASSUME NEW e \in Events, Occur(e) \/ Forget(e) PROVE Fits' /\ Apart'
  BY <1>1, <1>d, Untouched DEF Occur, Forget, workers
<1>2. ASSUME NEW E \in SUBSET Events, Ingest(E) PROVE Fits' /\ Apart'
  <2>1. \A e \in Events : /\ inserts'[e] \in Nat /\ inserts[e] <= inserts'[e]
                          /\ e \in New(E) => inserts[e] < inserts'[e]
    BY <1>2, <1>a DEF Ingest
  <2>2. \A p \in Pairs : row'[p] = row[p] \/ inserts[p[1]] < inserts'[p[1]]
    BY <1>2, <1>c, <2>1 DEF Ingest
  <2> QED BY <1>2, <2>1, <2>2, Untouched DEF Ingest, workers
<1>3. ASSUME NEW P \in SUBSET Pairs, NEW E \in SUBSET Events, Prune(P, E)
      PROVE  Fits' /\ Apart'
  BY <1>3, <1>d, Untouched DEF Prune, workers, NoRow
<1>4. ASSUME NEW d \in Destinations,
             CreateDestination(d) \/ \E status \in {"enabled", "disabled"} :
                                       SetDestinationEnabled(d, status)
      PROVE  Fits' /\ Apart'
  BY <1>4, <1>d, Untouched DEF CreateDestination, SetDestinationEnabled, workers, sources
<1>5. ASSUME NEW d \in Destinations, DeleteDestination(d) PROVE Fits' /\ Apart'
  BY <1>5, <1>d, Untouched DEF DeleteDestination, workers, sources, NoRow
<1>6. ASSUME NEW w \in Workers, Claim(w) PROVE Fits' /\ Apart'
  <2>1. inserts' = inserts /\ age' = [age EXCEPT ![w] = 0]
    BY <1>6 DEF Claim, sources
  <2>2. \A p \in Pairs :
          /\ Due(p) => /\ row[p].status # "none" /\ row'[p].status = "delivering"
                       /\ row'[p].attempts = row[p].attempts /\ row'[p].age = 0
          /\ ~Due(p) /\ ~Stale(p) => row'[p] = row[p]
          /\ row'[p].status # "none" => row[p].status # "none"
    <3>1. ASSUME NEW p \in Pairs, Due(p)
          PROVE  /\ row[p].status # "none" /\ row'[p].status = "delivering"
                 /\ row'[p].attempts = row[p].attempts /\ row'[p].age = 0
      <4>1. row'[p] = [row[p] EXCEPT !.status = "delivering", !.wait = 0, !.age = 0]
        BY <1>6, <3>1, Zenon DEF Claim
      <4> QED BY <1>c, <3>1, <4>1 DEF Due, Stale, Row
    <3>2. ASSUME NEW p \in Pairs, ~Due(p), ~Stale(p) PROVE row'[p] = row[p]
      BY <1>6, <3>2, Zenon DEF Claim
    <3>3. ASSUME NEW p \in Pairs, Stale(p) PROVE row[p].status # "none"
      BY <3>3 DEF Stale
    <3> QED BY <3>1, <3>2, <3>3
  \* Another worker's claim is younger than its timeout.
  <2>3. ASSUME NEW v \in Workers, v # w, NEW i \in batch[v], Live(i)'
        PROVE  Live(i) /\ ~Due(i.pair) /\ row'[i.pair] = row[i.pair] /\ age'[v] = age[v]
    <3>1. Live(i)
      BY <1>b, <2>1, <2>2, <2>3 DEF Live
    <3>2. row[i.pair].status = "delivering" /\ row[i.pair].age = age[v]
      BY <1>a, <3>1 DEF Fits, Fit
    <3>3. age[v] \in 0 .. JobTimeout /\ ~(age[v] >= StaleAfter)
      BY <1>a DEF TimeoutBeforeStale
    <3>4. ~Stale(i.pair)
      BY <3>2, <3>3 DEF Stale
    <3>5. ~Due(i.pair)
      BY <3>2, <3>4 DEF Due
    <3>6. age'[v] = age[v]
      BY <1>a, <2>1, <2>3
    <3> QED BY <1>b, <2>2, <3>1, <3>4, <3>5, <3>6
  <2>4. ASSUME NEW i \in batch'[w]
        PROVE  \E p \in Pairs : /\ Due(p)
                                /\ i = [pair |-> p, id |-> inserts[p[1]],
                                        attempts |-> row[p].attempts, outcome |-> "none"]
    <3>1. batch'[w] = {[pair |-> p, id |-> inserts[p[1]], attempts |-> row[p].attempts,
                        outcome |-> "none"] : p \in {q \in Pairs : Due(q)}}
      BY <1>6, <1>a, Zenon DEF Claim
    <3> QED BY <2>4, <3>1, Zenon
  <2>5. ASSUME NEW v \in Workers, v # w PROVE batch'[v] = batch[v]
    BY <1>6, <1>a, <2>5 DEF Claim
  <2>6. ASSUME NEW v \in Workers, NEW i \in batch'[v] PROVE Fit(v, i)'
    <3>1. CASE v = w
      <4>1. PICK p \in Pairs :
              /\ Due(p)
              /\ i = [pair |-> p, id |-> inserts[p[1]],
                      attempts |-> row[p].attempts, outcome |-> "none"]
        BY <2>4, <2>6, <3>1
      <4>2. i.id <= inserts'[i.pair[1]]
        BY <1>c, <1>d, <2>1, <4>1
      <4>3. age'[v] = 0
        BY <1>a, <2>1, <3>1
      <4> QED BY <2>2, <4>1, <4>2, <4>3 DEF Fit
    <3>2. CASE v # w
      <4>1. i \in batch[v]
        BY <2>5, <2>6, <3>2
      <4>2. Fit(v, i)
        BY <1>a, <4>1 DEF Fits
      <4>3. Live(i)' => Live(i) /\ row'[i.pair] = row[i.pair] /\ age'[v] = age[v]
        BY <2>3, <3>2, <4>1
      <4> QED BY <2>1, <4>2, <4>3 DEF Fit
    <3> QED BY <3>1, <3>2
  <2>7. ASSUME NEW u \in Workers, NEW v \in Workers, NEW i \in batch'[u], NEW j \in batch'[v],
               i.pair = j.pair, Live(i)', Live(j)'
        PROVE  u = v /\ i = j
    <3>1. CASE u = w /\ v = w
      BY <2>4, <2>7, <3>1
    <3>2. CASE u = w /\ v # w
      <4>1. Due(i.pair)
        BY <2>4, <2>7, <3>2
      <4>2. ~Due(j.pair)
        BY <2>3, <2>5, <2>7, <3>2
      <4> QED BY <2>7, <4>1, <4>2
    <3>3. CASE u # w /\ v = w
      <4>1. Due(j.pair)
        BY <2>4, <2>7, <3>3
      <4>2. ~Due(i.pair)
        BY <2>3, <2>5, <2>7, <3>3
      <4> QED BY <2>7, <4>1, <4>2
    <3>4. CASE u # w /\ v # w
      <4>1. i \in batch[u] /\ j \in batch[v] /\ Live(i) /\ Live(j)
        BY <2>3, <2>5, <2>7, <3>4
      <4> QED BY <1>a, <2>7, <4>1 DEF Apart
    <3> QED BY <3>1, <3>2, <3>3, <3>4
  <2> QED BY <2>6, <2>7 DEF Fits, Apart
<1>7. ASSUME NEW w \in Workers, NEW i \in batch[w], Post(w, i) PROVE Fits' /\ Apart'
  <2>0. PICK outcome \in {"delivered", "retry", "failed"} :
          batch' = [batch EXCEPT ![w] = (batch[w] \ {i}) \cup {[i EXCEPT !.outcome = outcome]}]
    BY <1>7 DEF Post
  <2>1. PICK x : /\ x = [i EXCEPT !.outcome = outcome]
                 /\ batch' = [batch EXCEPT ![w] = (batch[w] \ {i}) \cup {x}]
    BY <2>0
  <2>2. row' = row /\ inserts' = inserts /\ age' = age
    BY <1>7 DEF Post, sources
  <2>3. x.pair = i.pair /\ x.id = i.id /\ x.attempts = i.attempts
    BY <1>b, <2>1 DEF Item
  <2>4. ASSUME NEW v \in Workers, NEW y \in batch'[v]
        PROVE  \E o \in batch[v] :
                 /\ y.pair = o.pair /\ y.id = o.id /\ y.attempts = o.attempts
                 /\ IF v = w /\ o = i THEN y = x ELSE y = o
    <3>1. CASE v = w /\ y = x
      BY <2>3, <3>1
    <3>2. CASE ~(v = w /\ y = x)
      BY <1>a, <2>1, <2>4, <3>2
    <3> QED BY <3>1, <3>2
  <2>5. ASSUME NEW v \in Workers, NEW y \in batch'[v] PROVE Fit(v, y)'
    BY <1>a, <2>2, <2>4 DEF Fits, Fit, Live
  <2>6. ASSUME NEW u \in Workers, NEW v \in Workers, NEW y \in batch'[u], NEW z \in batch'[v],
               y.pair = z.pair, Live(y)', Live(z)'
        PROVE  u = v /\ y = z
    <3>1. PICK o \in batch[u] : /\ y.pair = o.pair /\ y.id = o.id
                                /\ IF u = w /\ o = i THEN y = x ELSE y = o
      BY <2>4
    <3>2. PICK q \in batch[v] : /\ z.pair = q.pair /\ z.id = q.id
                                /\ IF v = w /\ q = i THEN z = x ELSE z = q
      BY <2>4
    <3>3. Live(o) /\ Live(q) /\ o.pair = q.pair
      BY <2>2, <2>6, <3>1, <3>2 DEF Live
    <3>4. u = v /\ o = q
      BY <1>a, <3>3 DEF Apart
    <3> QED BY <3>1, <3>2, <3>4
  <2> QED BY <2>5, <2>6 DEF Fits, Apart
<1>8. ASSUME NEW w \in Workers, NEW i \in batch[w], Record(w, i) PROVE Fits' /\ Apart'
  <2>1. /\ inserts' = inserts
        /\ batch' = [batch EXCEPT ![w] = batch[w] \ {i}]
        /\ age' = [age EXCEPT ![w] = IF batch'[w] = {} THEN 0 ELSE age[w]]
    BY <1>8 DEF Record, sources
  <2>2. \A p \in Pairs : p # i.pair \/ ~Live(i) => row'[p] = row[p]
    BY <1>8, <1>a DEF Record, Live
  <2>3. ASSUME NEW v \in Workers, NEW y \in batch'[v]
        PROVE  y \in batch[v] /\ ~(v = w /\ y = i) /\ age'[v] = age[v]
    BY <1>a, <2>1, <2>3
  <2>4. ASSUME NEW v \in Workers, NEW y \in batch'[v], Live(y)'
        PROVE  Live(y) /\ row'[y.pair] = row[y.pair]
    <3>1. y \in batch[v] /\ y.pair \in Pairs /\ ~(v = w /\ y = i)
      BY <1>b, <2>3, <2>4
    <3>2. CASE y.pair # i.pair \/ ~Live(i)
      <4>1. row'[y.pair] = row[y.pair]
        BY <2>2, <3>1, <3>2
      <4> QED BY <2>1, <2>4, <4>1 DEF Live
    <3>3. CASE y.pair = i.pair /\ Live(i)
      <4>1. Live(y)
        BY <2>1, <2>4, <3>3 DEF Live
      <4> QED BY <1>a, <3>1, <3>3, <4>1 DEF Apart
    <3> QED BY <3>2, <3>3
  <2>5. Fits'
    BY <1>a, <2>1, <2>3, <2>4 DEF Fits, Fit
  <2>6. Apart'
    BY <1>a, <2>3, <2>4 DEF Apart
  <2> QED BY <2>5, <2>6
<1>9. ASSUME NEW w \in Workers, Abort(w) PROVE Fits' /\ Apart'
  <2>1. row' = row /\ inserts' = inserts
    BY <1>9 DEF Abort, sources
  <2>2. ASSUME NEW v \in Workers, NEW i \in batch'[v]
        PROVE  i \in batch[v] /\ age'[v] = age[v]
    BY <1>9, <1>a, <2>2 DEF Abort
  <2> QED BY <1>a, <2>1, <2>2 DEF Fits, Fit, Apart, Live
<1>10. CASE Tick
  <2>1. inserts' = inserts /\ batch' = batch
    BY <1>10 DEF Tick, sources
  <2>2. \A p \in Pairs :
          /\ row'[p].status = row[p].status /\ row'[p].attempts = row[p].attempts
          /\ row[p].status = "delivering" /\ row[p].age < StaleAfter =>
               row'[p].age = row[p].age + 1
    BY <1>10, <1>c DEF Tick, Row
  <2>3. ASSUME NEW w \in Workers, NEW i \in batch[w]
        PROVE  age'[w] = age[w] + 1 /\ age[w] < StaleAfter
    <3>1. batch[w] # {}
      BY <2>3
    <3>2. age[w] < JobTimeout /\ age[w] \in 0 .. JobTimeout
      BY <1>10, <1>a, <3>1 DEF Tick
    <3>3. age'[w] = age[w] + 1
      BY <1>10, <3>1 DEF Tick
    <3> QED BY <3>2, <3>3 DEF TimeoutBeforeStale
  <2>4. \A w \in Workers : \A i \in batch[w] : Live(i)' => Live(i)
    BY <1>b, <2>1, <2>2 DEF Live
  <2>5. ASSUME NEW w \in Workers, NEW i \in batch[w] PROVE Fit(w, i)'
    BY <1>a, <1>b, <2>1, <2>2, <2>3, <2>4 DEF Fits, Fit
  <2>6. Apart'
    BY <1>a, <2>1, <2>4 DEF Apart
  <2> QED BY <2>1, <2>5, <2>6 DEF Fits
<1>11. CASE UNCHANGED vars
  BY <1>11, <1>d, Untouched DEF vars
<1> QED
  BY <1>1, <1>2, <1>3, <1>4, <1>5, <1>6, <1>7, <1>8, <1>9, <1>10, <1>11 DEF Next, Deliver

\* What may become of a row in a step.
LEMMA RowStep ==
  ASSUME HolderInv, [Next]_vars, NEW p \in Pairs
  PROVE  /\ row'[p].status # "none" => p[1] \in stored'
         /\ row[p].status \in Final =>
              /\ row'[p].status \in {row[p].status, "none"}
              /\ row'[p].status # "none" => row'[p].attempts = row[p].attempts
<1>a. /\ row \in [Pairs -> Row] /\ row[p] \in Row /\ batch \in [Workers -> SUBSET Item]
      /\ Fits /\ (row[p].status # "none" => p[1] \in stored)
  BY DEF HolderInv, TypeOK, Rooted
<1>b. row[p].status \in Final => row[p].status \notin {"none", "pending", "retry", "delivering"}
  BY DEF Final
<1> DEFINE Goal == /\ row'[p].status # "none" => p[1] \in stored'
                   /\ row[p].status \in Final =>
                        /\ row'[p].status \in {row[p].status, "none"}
                        /\ row'[p].status # "none" => row'[p].attempts = row[p].attempts
<1>c. ASSUME row' = row, stored' = stored PROVE Goal
  BY <1>a, <1>c
<1>1. ASSUME NEW e \in Events, Occur(e) \/ Forget(e) PROVE Goal
  BY <1>1, <1>c DEF Occur, Forget
<1>2. ASSUME NEW E \in SUBSET Events, Ingest(E) PROVE Goal
  <2>1. stored' = stored \cup E
    BY <1>2 DEF Ingest
  <2>2. CASE p[1] \in New(E)
    <3>1. row[p].status = "none"
      BY <1>a, <2>2 DEF New
    <3>2. p[1] \in stored'
      BY <2>1, <2>2 DEF New
    <3> QED BY <1>b, <3>1, <3>2
  <2>3. CASE p[1] \notin New(E)
    <3>1. row'[p] = row[p]
      BY <1>2, <2>3 DEF Ingest
    <3> QED BY <1>a, <2>1, <3>1
  <2> QED BY <2>2, <2>3
<1>3. ASSUME NEW P \in SUBSET Pairs, NEW E \in SUBSET Events, Prune(P, E) PROVE Goal
  <2>1. row'[p] = NoRow \/ (row'[p] = row[p] /\ p[1] \notin E)
    BY <1>3, Zenon DEF Prune
  <2>2. stored' = stored \ E
    BY <1>3 DEF Prune
  <2> QED BY <1>a, <2>1, <2>2 DEF NoRow
<1>4. ASSUME NEW d \in Destinations,
             CreateDestination(d) \/ \E status \in {"enabled", "disabled"} :
                                       SetDestinationEnabled(d, status)
      PROVE  Goal
  BY <1>4, <1>c DEF CreateDestination, SetDestinationEnabled, sources
<1>5. ASSUME NEW d \in Destinations, DeleteDestination(d) PROVE Goal
  <2>1. row'[p] = NoRow \/ row'[p] = row[p]
    BY <1>5 DEF DeleteDestination
  <2>2. stored' = stored
    BY <1>5 DEF DeleteDestination, sources
  <2> QED BY <1>a, <2>1, <2>2 DEF NoRow
<1>6. ASSUME NEW w \in Workers, Claim(w) PROVE Goal
  <2>1. stored' = stored
    BY <1>6 DEF Claim, sources
  <2>2. CASE Due(p) \/ Stale(p)
    <3>1. row[p].status \in Queued
      BY <2>2 DEF Due, Stale, Queued
    <3> QED BY <1>a, <1>b, <2>1, <3>1 DEF Queued
  <2>3. CASE ~(Due(p) \/ Stale(p))
    <3>1. row'[p] = row[p]
      BY <1>6, <2>3, Zenon DEF Claim
    <3> QED BY <1>a, <2>1, <3>1
  <2> QED BY <2>2, <2>3
<1>7. ASSUME NEW w \in Workers, NEW i \in batch[w], Post(w, i) PROVE Goal
  BY <1>7, <1>c DEF Post, sources
<1>8. ASSUME NEW w \in Workers, NEW i \in batch[w], Record(w, i) PROVE Goal
  <2>1. stored' = stored
    BY <1>8 DEF Record, sources
  <2>2. CASE p = i.pair /\ Live(i)
    <3>1. row[p].status = "delivering"
      BY <1>a, <2>2 DEF Fits, Fit
    <3> QED BY <1>a, <1>b, <2>1, <3>1
  <2>3. CASE ~(p = i.pair /\ Live(i))
    <3>1. row'[p] = row[p]
      BY <1>8, <1>a, <2>3 DEF Record, Live
    <3> QED BY <1>a, <2>1, <3>1
  <2> QED BY <2>2, <2>3
<1>9. ASSUME NEW w \in Workers, Abort(w) PROVE Goal
  BY <1>9, <1>c DEF Abort, sources
<1>10. CASE Tick
  <2>1. row'[p].status = row[p].status /\ row'[p].attempts = row[p].attempts
    BY <1>10, <1>a DEF Tick, Row
  <2>2. stored' = stored
    BY <1>10 DEF Tick, sources
  <2> QED BY <1>a, <2>1, <2>2
<1>11. CASE UNCHANGED vars
  BY <1>11, <1>c DEF vars
<1> QED
  BY <1>1, <1>2, <1>3, <1>4, <1>5, <1>6, <1>7, <1>8, <1>9, <1>10, <1>11 DEF Next, Deliver

LEMMA HolderInit == Init => HolderInv
<1> SUFFICES ASSUME Init PROVE HolderInv
  OBVIOUS
<1>1. TypeOK
  BY AttemptsInit DEF AttemptsInv
<1>2. Fits /\ Apart
  BY DEF Init, Fits, Apart
<1>3. Rooted
  BY DEF Init, Rooted, NoRow
<1> QED BY <1>1, <1>2, <1>3 DEF HolderInv

LEMMA HolderInvariant ==
  ASSUME TimeoutBeforeStale
  PROVE  Spec => []HolderInv
<1>1. HolderInv /\ AttemptsInv /\ [Next]_vars => HolderInv'
  <2> SUFFICES ASSUME HolderInv, AttemptsInv, [Next]_vars PROVE HolderInv'
    OBVIOUS
  <2>1. TypeOK'
    BY TypeStep DEF AttemptsInv
  <2>2. Fits' /\ Apart'
    BY <2>1, HolderStep
  <2>3. Rooted'
    BY RowStep DEF Rooted
  <2> QED BY <2>1, <2>2, <2>3 DEF HolderInv
<1> QED BY <1>1, HolderInit, AttemptsInvariant, PTL DEF Spec

\* _claim_due gives every delivery to one worker at a time, if no job runs as
\* long as stale_claim_seconds.
THEOREM ClaimsExclusive ==
  ASSUME TimeoutBeforeStale
  PROVE  Spec => []OneHolder
<1>1. HolderInv => OneHolder
  <2> SUFFICES ASSUME HolderInv, NEW w \in Workers, NEW i \in batch[w], Live(i)
               PROVE  /\ row[i.pair].status = "delivering" /\ row[i.pair].attempts = i.attempts
                      /\ \A v \in Workers \ {w} : ~Holds(v, i.pair)
    BY DEF OneHolder, Live
  <2>1. row[i.pair].status = "delivering" /\ row[i.pair].attempts = i.attempts
    BY DEF HolderInv, Fits, Fit
  <2>2. ASSUME NEW v \in Workers \ {w}, NEW j \in batch[v],
               j.pair = i.pair, j.id = inserts[i.pair[1]]
        PROVE  FALSE
    <3>1. Live(j)
      BY <2>2 DEF Live
    <3> QED BY <2>2, <3>1 DEF HolderInv, Apart
  <2> QED BY <2>1, <2>2 DEF Holds
<1> QED BY <1>1, HolderInvariant, PTL

\* _record_result writes by id alone, and still never reopens or rewrites a
\* delivery that has come to its end, if no job runs as long as
\* stale_claim_seconds.
THEOREM EndsAreFinal ==
  ASSUME TimeoutBeforeStale
  PROVE  Spec => FinalStays
<1>1. HolderInv /\ [Next]_vars =>
        [\A p \in Pairs :
           row[p].status \in Final =>
             row'[p].status \in {row[p].status, "none"} /\ (row'[p].status # "none" =>
               row'[p].attempts = row[p].attempts)]_vars
  BY RowStep
<1> QED BY <1>1, HolderInvariant, PTL DEF Spec, FinalStays

-----------------------------------------------------------------------------
(* Nothing is delivered twice, if controllers have forgotten an event by the *)
(* time it is pruned.                                                        *)

\* An event once inserted is either stored or gone, so it is never new again.
Seen(e) ==
  /\ e \in stored => inserts[e] # 0
  /\ inserts[e] # 0 => e \in stored \/ listing[e] = "gone"

\* What a worker has claimed is about the one insertion of its event.
Pending(w, i) ==
  /\ inserts[i.pair[1]] # 0 /\ i.pair \notin done
  /\ row[i.pair].status # "none" => Live(i)

\* No two workers have the same delivery, even if its row is gone.
Solo ==
  \A u, v \in Workers : \A i \in batch[u], j \in batch[v] : i.pair = j.pair => u = v /\ i = j

\* What was delivered is not in the queue.
Over(p) == inserts[p[1]] # 0 /\ row[p].status \notin Queued

OnceInv ==
  /\ \A e \in Events : Seen(e)
  /\ \A w \in Workers : \A i \in batch[w] : Pending(w, i)
  /\ Solo
  /\ \A p \in done : Over(p)

\* Steps that queue nothing and claim nothing.
LEMMA Undisturbed ==
  ASSUME HolderInv, OnceInv, batch' = batch, done' = done, inserts' = inserts,
         \A e \in Events : Seen(e)',
         \A p \in Pairs : row'[p].status = row[p].status \/ row'[p].status = "none"
  PROVE  OnceInv'
<1>a. done \subseteq Pairs /\ \A w \in Workers : \A i \in batch[w] : i.pair \in Pairs
  BY DEF HolderInv, TypeOK, Item
<1>1. ASSUME NEW w \in Workers, NEW i \in batch[w] PROVE Pending(w, i)'
  BY <1>a DEF OnceInv, Pending, Live
<1>2. ASSUME NEW p \in done PROVE Over(p)'
  BY <1>a DEF OnceInv, Over, Queued
<1>3. Solo'
  BY DEF OnceInv, Solo
<1> QED BY <1>1, <1>2, <1>3 DEF OnceInv

LEMMA OnceStep ==
  ASSUME TimeoutBeforeStale, ~LongWindow, HolderInv, HolderInv', OnceInv, [Next]_vars
  PROVE  OnceInv'
<1>a. /\ TypeOK /\ Fits /\ Rooted /\ Solo
      /\ row \in [Pairs -> Row] /\ batch \in [Workers -> SUBSET Item] /\ done \subseteq Pairs
      /\ inserts \in [Events -> Nat]
      /\ listing \in [Events -> {"future", "listed", "gone"}]
  BY DEF HolderInv, TypeOK, OnceInv
<1>b. /\ \A w \in Workers : \A i \in batch[w] :
           /\ i \in Item /\ i.pair \in Pairs /\ i.pair[1] \in Events /\ Pending(w, i)
      /\ \A p \in Pairs : p[1] \in Events
      /\ \A p \in done : p \in Pairs /\ Over(p)
      /\ \A e \in Events : Seen(e)
  BY <1>a DEF Item, Pairs, OnceInv
<1>1. ASSUME NEW e \in Events, Occur(e) \/ Forget(e) PROVE OnceInv'
  <2>1. \A f \in Events : Seen(f)'
    BY <1>1, <1>a, <1>b DEF Occur, Forget, Seen
  <2> QED BY <1>1, <2>1, Undisturbed DEF Occur, Forget, workers, history
<1>2. ASSUME NEW E \in SUBSET Events, Ingest(E) PROVE OnceInv'
  <2>1. /\ batch' = batch /\ done' = done /\ listing' = listing /\ stored' = stored \cup E
        /\ \A e \in Events : inserts'[e] = IF e \in New(E) THEN inserts[e] + 1 ELSE inserts[e]
        /\ \A p \in Pairs : p[1] \notin New(E) => row'[p] = row[p]
    BY <1>2 DEF Ingest, workers, history
  <2>2. ASSUME NEW e \in New(E) PROVE e \in Events /\ e \in E /\ inserts[e] = 0
    BY <1>2, <1>b, <2>2 DEF Ingest, New, Seen
  <2>3. ASSUME NEW e \in Events PROVE Seen(e)'
    <3>1. CASE e \in New(E)
      BY <2>1, <2>2, <3>1 DEF Seen
    <3>2. CASE e \notin New(E)
      BY <1>b, <2>1, <3>2 DEF Seen, New
    <3> QED BY <3>1, <3>2
  <2>4. \A p \in Pairs : inserts[p[1]] # 0 => inserts'[p[1]] = inserts[p[1]] /\ row'[p] = row[p]
    BY <1>b, <2>1, <2>2
  <2>5. ASSUME NEW w \in Workers, NEW i \in batch[w] PROVE Pending(w, i)'
    BY <1>b, <2>1, <2>4 DEF Pending, Live
  <2>6. ASSUME NEW p \in done PROVE Over(p)'
    BY <1>b, <2>4 DEF Over
  <2>7. Solo'
    BY <1>a, <2>1 DEF Solo
  <2> QED BY <2>1, <2>3, <2>5, <2>6, <2>7 DEF OnceInv
<1>3. ASSUME NEW P \in SUBSET Pairs, NEW E \in SUBSET Events, Prune(P, E) PROVE OnceInv'
  <2>1. \A e \in Events : Seen(e)'
    BY <1>3, <1>b DEF Prune, Seen
  <2>2. \A p \in Pairs : row'[p].status = row[p].status \/ row'[p].status = "none"
    <3>1. ASSUME NEW p \in Pairs PROVE row'[p] = NoRow \/ row'[p] = row[p]
      BY <1>3, Zenon DEF Prune
    <3> QED BY <3>1 DEF NoRow
  <2> QED BY <1>3, <2>1, <2>2, Undisturbed DEF Prune, workers, history
<1>4. ASSUME NEW d \in Destinations,
             CreateDestination(d) \/ \E status \in {"enabled", "disabled"} :
                                       SetDestinationEnabled(d, status)
      PROVE  OnceInv'
  <2>1. \A e \in Events : Seen(e)'
    BY <1>4, <1>b DEF CreateDestination, SetDestinationEnabled, sources, Seen
  <2> QED BY <1>4, <2>1, Undisturbed
        DEF CreateDestination, SetDestinationEnabled, sources, workers, history
<1>5. ASSUME NEW d \in Destinations, DeleteDestination(d) PROVE OnceInv'
  <2>1. \A e \in Events : Seen(e)'
    BY <1>5, <1>b DEF DeleteDestination, sources, Seen
  <2>2. \A p \in Pairs : row'[p].status = row[p].status \/ row'[p].status = "none"
    BY <1>5 DEF DeleteDestination, NoRow
  <2> QED BY <1>5, <2>1, <2>2, Undisturbed DEF DeleteDestination, sources, workers, history
<1>6. ASSUME NEW w \in Workers, Claim(w) PROVE OnceInv'
  <2> DEFINE Fresh(p) == [pair |-> p, id |-> inserts[p[1]], attempts |-> row[p].attempts,
                          outcome |-> "none"]
  <2>1. /\ inserts' = inserts /\ stored' = stored /\ listing' = listing /\ done' = done
        /\ batch' = [batch EXCEPT ![w] = {Fresh(p) : p \in {q \in Pairs : Due(q)}}]
        /\ batch[w] = {}
    BY <1>6, Zenon DEF Claim, sources, history
  <2>2. \A p \in Pairs :
          /\ Due(p) => row[p].status \in Queued
          /\ row[p].status \notin Queued => row'[p] = row[p]
    <3>1. \A p \in Pairs : Due(p) \/ Stale(p) => row[p].status \in Queued
      BY DEF Due, Stale, Queued
    <3>2. \A p \in Pairs : ~Due(p) /\ ~Stale(p) => row'[p] = row[p]
      BY <1>6, Zenon DEF Claim
    <3> QED BY <3>1, <3>2
  <2>3. ASSUME NEW v \in Workers, NEW i \in batch'[v]
        PROVE  \/ i \in batch[v]
               \/ v = w /\ i.pair \in Pairs /\ Due(i.pair) /\ i.id = inserts[i.pair[1]]
    BY <1>a, <2>1, <2>3
  <2>4. ASSUME NEW v \in Workers, NEW i \in batch'[v] PROVE Pending(v, i)'
    <3>1. CASE i \in batch[v]
      <4>1. row[i.pair].status = "none" => row'[i.pair].status = "none"
        BY <1>b, <2>2, <3>1 DEF Queued
      <4> QED BY <1>b, <2>1, <3>1, <4>1 DEF Pending, Live
    <3>2. CASE i \notin batch[v]
      <4>1. i.pair \in Pairs /\ row[i.pair].status \in Queued /\ i.id = inserts[i.pair[1]]
        BY <2>2, <2>3, <3>2
      <4>2. i.pair[1] \in stored /\ inserts[i.pair[1]] # 0
        BY <1>a, <1>b, <4>1 DEF Rooted, Queued, Seen
      <4>3. i.pair \notin done
        BY <1>b, <4>1 DEF Over
      <4> QED BY <2>1, <4>1, <4>2, <4>3 DEF Pending, Live
    <3> QED BY <3>1, <3>2
  <2>5. ASSUME NEW p \in done PROVE Over(p)'
    BY <1>b, <2>1, <2>2 DEF Over
  <2>6. ASSUME NEW u \in Workers, NEW v \in Workers, NEW i \in batch'[u], NEW j \in batch'[v],
               i.pair = j.pair
        PROVE  u = v /\ i = j
    <3>1. CASE row'[i.pair].status = "none"
      <4>1. i.pair \in Pairs /\ j.pair \in Pairs
        BY <1>b, <2>3
      <4>2. row[i.pair].status \notin Queued
        <5>1. CASE Due(i.pair)
          <6>1. row'[i.pair] = [row[i.pair] EXCEPT !.status = "delivering", !.wait = 0, !.age = 0]
            BY <1>6, <4>1, <5>1, Zenon DEF Claim
          <6>2. row[i.pair] \in Row
            BY <1>a, <4>1
          <6> QED BY <3>1, <6>1, <6>2 DEF Row
        <5>2. CASE ~Due(i.pair) /\ Stale(i.pair)
          <6>1. row'[i.pair] = [row[i.pair] EXCEPT !.status = "retry", !.wait = 0, !.age = 0]
            BY <1>6, <4>1, <5>2, Zenon DEF Claim
          <6>2. row[i.pair] \in Row
            BY <1>a, <4>1
          <6> QED BY <3>1, <6>1, <6>2 DEF Row
        <5>3. CASE ~Due(i.pair) /\ ~Stale(i.pair)
          <6>1. row'[i.pair] = row[i.pair]
            BY <1>6, <4>1, <5>3, Zenon DEF Claim
          <6> QED BY <3>1, <6>1 DEF Queued
        <5> QED BY <5>1, <5>2, <5>3
      <4>3. ~Due(i.pair)
        BY <2>2, <4>1, <4>2
      <4>4. i \in batch[u] /\ j \in batch[v]
        BY <2>3, <2>6, <4>3
      <4> QED BY <1>a, <2>6, <4>4 DEF Solo
    <3>2. CASE row'[i.pair].status # "none"
      <4>1. Live(i)' /\ Live(j)'
        BY <2>4, <2>6, <3>2 DEF Pending
      <4> QED BY <2>6, <4>1 DEF HolderInv, Apart
    <3> QED BY <3>1, <3>2
  <2>7. \A e \in Events : Seen(e)'
    BY <1>b, <2>1 DEF Seen
  <2> QED BY <2>1, <2>4, <2>5, <2>6, <2>7 DEF OnceInv, Solo
<1>7. ASSUME NEW w \in Workers, NEW i \in batch[w], Post(w, i) PROVE OnceInv'
  <2>1. PICK outcome \in {"delivered", "retry", "failed"} :
          batch' = [batch EXCEPT ![w] = (batch[w] \ {i}) \cup {[i EXCEPT !.outcome = outcome]}]
    BY <1>7 DEF Post
  <2>2. /\ row' = row /\ inserts' = inserts /\ stored' = stored /\ listing' = listing
        /\ done' = done
    BY <1>7 DEF Post, sources, history
  <2>3. PICK x : /\ x = [i EXCEPT !.outcome = outcome]
                 /\ batch' = [batch EXCEPT ![w] = (batch[w] \ {i}) \cup {x}]
    BY <2>1
  <2>4. x.pair = i.pair /\ x.id = i.id
    BY <1>b, <2>3 DEF Item
  <2>5. ASSUME NEW v \in Workers, NEW y \in batch'[v]
        PROVE  \E o \in batch[v] : /\ y.pair = o.pair /\ y.id = o.id
                                   /\ IF v = w /\ o = i THEN y = x ELSE y = o
    <3>1. CASE v = w /\ y = x
      BY <2>4, <3>1
    <3>2. CASE ~(v = w /\ y = x)
      BY <1>a, <2>3, <2>5, <3>2
    <3> QED BY <3>1, <3>2
  <2>6. ASSUME NEW v \in Workers, NEW y \in batch'[v] PROVE Pending(v, y)'
    BY <1>b, <2>2, <2>5 DEF Pending, Live
  <2>7. ASSUME NEW u \in Workers, NEW v \in Workers, NEW y \in batch'[u], NEW z \in batch'[v],
               y.pair = z.pair
        PROVE  u = v /\ y = z
    <3>1. PICK o \in batch[u] : /\ y.pair = o.pair
                                /\ IF u = w /\ o = i THEN y = x ELSE y = o
      BY <2>5
    <3>2. PICK q \in batch[v] : /\ z.pair = q.pair
                                /\ IF v = w /\ q = i THEN z = x ELSE z = q
      BY <2>5
    <3>3. u = v /\ o = q
      BY <1>a, <2>7, <3>1, <3>2 DEF Solo
    <3> QED BY <3>1, <3>2, <3>3
  <2>8. (\A e \in Events : Seen(e)') /\ \A p \in done' : Over(p)'
    BY <1>b, <2>2 DEF Seen, Over
  <2> QED BY <2>6, <2>7, <2>8 DEF OnceInv, Solo
<1>8. ASSUME NEW w \in Workers, NEW i \in batch[w], Record(w, i) PROVE OnceInv'
  <2>1. /\ inserts' = inserts /\ stored' = stored /\ listing' = listing
        /\ batch' = [batch EXCEPT ![w] = batch[w] \ {i}]
        /\ done' = IF i.outcome = "delivered" THEN done \cup {i.pair} ELSE done
    BY <1>8 DEF Record, sources
  <2>2. \A p \in Pairs : p # i.pair => row'[p] = row[p]
    BY <1>8, <1>a DEF Record
  <2>3. ASSUME NEW v \in Workers, NEW y \in batch'[v]
        PROVE  y \in batch[v] /\ y.pair \in Pairs /\ y.pair # i.pair
    BY <1>a, <1>b, <2>1, <2>3 DEF Solo
  <2>4. ASSUME NEW v \in Workers, NEW y \in batch'[v] PROVE Pending(v, y)'
    BY <1>b, <2>1, <2>2, <2>3 DEF Pending, Live
  <2>5. ASSUME NEW p \in done' PROVE Over(p)'
    <3>1. CASE p \in done
      <4>1. p \in Pairs /\ p # i.pair
        BY <1>b, <3>1 DEF Pending
      <4> QED BY <1>b, <2>1, <2>2, <3>1, <4>1 DEF Over
    <3>2. CASE p \notin done
      <4>1. p = i.pair /\ i.outcome = "delivered" /\ p \in Pairs /\ inserts[p[1]] # 0
        BY <1>b, <2>1, <2>5, <3>2 DEF Pending
      <4>2. CASE row[p].status = "none"
        <5>1. row' = row
          BY <1>8, <4>1, <4>2 DEF Record
        <5> QED BY <2>1, <4>1, <4>2, <5>1 DEF Over, Queued
      <4>3. CASE row[p].status # "none"
        <5>1. Live(i)
          BY <1>b, <4>1, <4>3 DEF Pending
        <5>2. row' = [row EXCEPT ![i.pair] =
                        [status |-> Status(i.outcome, i.attempts + 1), attempts |-> i.attempts + 1,
                         wait |-> Wait(i.attempts + 1, age[w]), age |-> 0]]
          BY <1>8, <5>1 DEF Record, Live
        <5>3. row'[p].status = "delivered"
          BY <1>a, <4>1, <5>2 DEF Status
        <5> QED BY <2>1, <4>1, <5>3 DEF Over, Queued
      <4> QED BY <4>2, <4>3
    <3> QED BY <3>1, <3>2
  <2>6. Solo'
    BY <1>a, <2>3 DEF Solo
  <2>7. \A e \in Events : Seen(e)'
    BY <1>b, <2>1 DEF Seen
  <2> QED BY <2>4, <2>5, <2>6, <2>7 DEF OnceInv
<1>9. ASSUME NEW w \in Workers, Abort(w) PROVE OnceInv'
  <2>1. /\ row' = row /\ inserts' = inserts /\ stored' = stored /\ listing' = listing
        /\ done' = done
    BY <1>9 DEF Abort, sources
  <2>2. \A v \in Workers : batch'[v] \subseteq batch[v]
    BY <1>9, <1>a DEF Abort
  <2>3. ASSUME NEW v \in Workers, NEW i \in batch'[v] PROVE Pending(v, i)'
    BY <1>b, <2>1, <2>2 DEF Pending, Live
  <2>4. Solo'
    BY <1>a, <2>2 DEF Solo
  <2>5. (\A e \in Events : Seen(e)') /\ \A p \in done' : Over(p)'
    BY <1>b, <2>1 DEF Seen, Over
  <2> QED BY <2>3, <2>4, <2>5 DEF OnceInv
<1>10. CASE Tick
  <2>1. \A e \in Events : Seen(e)'
    BY <1>10, <1>b DEF Tick, sources, Seen
  <2>2. \A p \in Pairs : row'[p].status = row[p].status
    BY <1>10, <1>a DEF Tick, Row
  <2> QED BY <1>10, <2>1, <2>2, Undisturbed DEF Tick, sources, history
<1>11. CASE UNCHANGED vars
  <2>1. \A e \in Events : Seen(e)'
    BY <1>11, <1>b DEF vars, Seen
  <2> QED BY <1>11, <2>1, Undisturbed DEF vars
<1> QED
  BY <1>1, <1>2, <1>3, <1>4, <1>5, <1>6, <1>7, <1>8, <1>9, <1>10, <1>11 DEF Next, Deliver

LEMMA OnceInit == Init => OnceInv
  BY DEF Init, OnceInv, Seen, Solo

\* The unique source key and exclusive claims keep what is recorded as
\* delivered from being delivered again, if no job runs as long as
\* stale_claim_seconds and no controller lists an event that was pruned.
THEOREM DeliveredOnce ==
  ASSUME TimeoutBeforeStale, ~LongWindow
  PROVE  Spec => []NoDuplicateDelivery
<1>1. OnceInv => NoDuplicateDelivery
  BY DEF OnceInv, Pending, NoDuplicateDelivery
<1>2. HolderInv /\ HolderInv' /\ OnceInv /\ [Next]_vars => OnceInv'
  BY OnceStep
<1> QED BY <1>1, <1>2, OnceInit, HolderInvariant, PTL DEF Spec

-----------------------------------------------------------------------------
(* Deliveries implement Outbox, if no worker outlives its claims. *)

BoxVars == <<Phases, Tries, Held>>

LEMMA HeldIs ==
  ASSUME NEW w \in Workers, NEW p \in Pairs
  PROVE  <<w, p>> \in Held <=> \E i \in batch[w] : i.pair = p /\ Live(i)
  BY DEF Held, Holds, Live

LEMMA SamePairs ==
  ASSUME NEW S, NEW T, S \subseteq Workers \X Pairs, T \subseteq Workers \X Pairs,
         \A w \in Workers, p \in Pairs : <<w, p>> \in S <=> <<w, p>> \in T
  PROVE  S = T
  OBVIOUS

\* What is held after a step.
LEMMA HeldBecomes ==
  ASSUME NEW S \in SUBSET (Workers \X Pairs),
         \A w \in Workers, p \in Pairs :
           <<w, p>> \in S <=> \E i \in batch'[w] : i.pair = p /\ Live(i)'
  PROVE  Held' = S
<1>1. ASSUME NEW w \in Workers, NEW p \in Pairs
      PROVE  <<w, p>> \in Held' <=> <<w, p>> \in S
  <2>1. <<w, p>> \in Held' <=> \E i \in batch'[w] : i.pair = p /\ Live(i)'
    BY DEF Held, Holds, Live
  <2> QED BY <2>1
<1>2. Held' \in SUBSET (Workers \X Pairs)
  BY DEF Held
<1> QED BY <1>1, <1>2, SamePairs

\* A step that leaves each delivery in its phase, and who has what.
LEMMA BoxUnchanged ==
  ASSUME \A p \in Pairs : /\ row'[p].status \in Queued <=> row[p].status \in Queued
                          /\ row[p].status \notin Queued => row'[p].status = row[p].status
                          /\ row'[p].attempts = row[p].attempts,
         \A w \in Workers, p \in Pairs :
           (\E i \in batch[w] : i.pair = p /\ Live(i))
             <=> \E i \in batch'[w] : i.pair = p /\ Live(i)'
  PROVE  UNCHANGED BoxVars
<1>1. Phases' = Phases /\ Tries' = Tries
  BY DEF Phases, Tries, Queued
<1>2. Held' = Held
  <2>1. ASSUME NEW w \in Workers, NEW p \in Pairs
        PROVE  <<w, p>> \in Held <=> \E i \in batch'[w] : i.pair = p /\ Live(i)'
    <3>1. <<w, p>> \in Held <=> \E i \in batch[w] : i.pair = p /\ Live(i)
      BY HeldIs
    <3> QED BY <3>1
  <2>2. Held \in SUBSET (Workers \X Pairs)
    BY DEF Held
  <2> QED BY <2>1, <2>2, HeldBecomes
<1> QED BY <1>1, <1>2 DEF BoxVars

LEMMA BoxQuiet ==
  ASSUME TypeOK, UNCHANGED <<row, inserts, batch>>
  PROVE  UNCHANGED BoxVars
  BY BoxUnchanged DEF Live

\* Deliveries D are deleted.
LEMMA BoxDrop ==
  ASSUME TypeOK, NEW D \in SUBSET Pairs, UNCHANGED <<inserts, batch>>,
         row' = [p \in Pairs |-> IF p \in D THEN NoRow ELSE row[p]]
  PROVE  Box!Next
<1>1. Phases' = [p \in Pairs |-> IF p \in D THEN "none" ELSE Phases[p]]
  BY DEF Phases, NoRow, Queued
<1>2. Tries' = [p \in Pairs |-> IF p \in D THEN 0 ELSE Tries[p]]
  BY DEF Tries, NoRow
<1>3. Held' = Held \ (Workers \X D)
  <2> DEFINE rest == Held \ (Workers \X D)
  <2>1. ASSUME NEW w \in Workers, NEW p \in Pairs
        PROVE  <<w, p>> \in rest
                 <=> \E i \in batch'[w] : i.pair = p /\ Live(i)'
    <3>1. CASE p \in D
      BY <3>1 DEF Live, NoRow
    <3>2. CASE p \notin D
      <4>1. row'[p] = row[p]
        BY <3>2
      <4>2. \A i \in batch[w] : i.pair = p => (Live(i)' <=> Live(i))
        BY <4>1 DEF Live
      <4> QED BY <3>2, <4>2, HeldIs
    <3> QED BY <3>1, <3>2
  <2>2. rest \in SUBSET (Workers \X Pairs)
    BY DEF Held
  <2> HIDE DEF rest
  <2>3. Held' = rest
    BY <2>1, <2>2, HeldBecomes
  <2> QED BY <2>3 DEF rest
<1> QED BY <1>1, <1>2, <1>3 DEF Box!Next, Box!Drop

\* A new event's deliveries have no row yet, and nobody has their new ids.
LEMMA BoxIngest ==
  ASSUME HolderInv, NEW E \in SUBSET Events, Ingest(E)
  PROVE  Box!Next
<1> DEFINE P == {p \in Pairs : p[1] \in New(E) /\ p \in Wanted /\ dest[p[2]] = "enabled"}
<1>1. \A p \in Pairs : p[1] \in New(E) => row[p].status = "none"
  BY DEF HolderInv, Rooted, New
<1>2. /\ \A p \in Pairs : row'[p] = IF p \in P THEN [NoRow EXCEPT !.status = "pending"] ELSE row[p]
      /\ \A e \in Events : inserts'[e] = IF e \in New(E) THEN inserts[e] + 1 ELSE inserts[e]
      /\ batch' = batch
  BY DEF Ingest, workers
<1>3. \A p \in P : p \in Pairs /\ p[1] \in New(E)
  OBVIOUS
<1> HIDE DEF P
<1>4. Phases' = [p \in Pairs |-> IF p \in P THEN "waiting" ELSE Phases[p]]
  BY <1>2 DEF Phases, NoRow, Queued
<1>5. Tries' = Tries
  BY <1>1, <1>2, <1>3 DEF Tries, NoRow
<1>6. Held' = Held
  <2>1. ASSUME NEW w \in Workers, NEW i \in batch[w]
        PROVE  Live(i)' <=> Live(i)
    <3>1. /\ i.pair \in Pairs /\ i.pair[1] \in Events /\ i.id \in Nat
          /\ inserts[i.pair[1]] \in Nat /\ i.id <= inserts[i.pair[1]]
      BY DEF HolderInv, TypeOK, Item, Pairs, Fits, Fit
    <3>2. CASE i.pair[1] \in New(E)
      <4>1. i.id # inserts'[i.pair[1]]
        BY <1>2, <3>1, <3>2
      <4> QED BY <1>1, <3>1, <3>2, <4>1 DEF Live
    <3>3. CASE i.pair[1] \notin New(E)
      BY <1>2, <1>3, <3>1, <3>3 DEF Live
    <3> QED BY <3>2, <3>3
  <2>2. \A w \in Workers, p \in Pairs :
          <<w, p>> \in Held <=> \E i \in batch'[w] : i.pair = p /\ Live(i)'
    BY <1>2, <2>1, HeldIs
  <2>3. Held \in SUBSET (Workers \X Pairs)
    BY DEF Held
  <2> QED BY <2>2, <2>3, HeldBecomes
<1>7. \A p \in P : Phases[p] = "none"
  BY <1>1, <1>3 DEF Phases, Queued
<1>8. P \in SUBSET Pairs
  BY <1>3
<1> QED BY <1>4, <1>5, <1>6, <1>7, <1>8 DEF Box!Next, Box!Enqueue

\* A claim that is stale has no holder any more: its worker's batch is younger.
LEMMA BoxClaim ==
  ASSUME TimeoutBeforeStale, HolderInv, NEW w \in Workers, Claim(w)
  PROVE  Box!Next
<1> DEFINE P == {p \in Pairs : Due(p)}
           items == {[pair |-> p, id |-> inserts[p[1]], attempts |-> row[p].attempts,
                      outcome |-> "none"] : p \in P}
<1>1. /\ \A p \in Pairs : row'[p] =
           IF p \in P THEN [row[p] EXCEPT !.status = "delivering", !.wait = 0, !.age = 0]
           ELSE IF Stale(p) THEN [row[p] EXCEPT !.status = "retry", !.wait = 0, !.age = 0]
           ELSE row[p]
      /\ inserts' = inserts /\ batch[w] = {}
  BY Zenon DEF Claim, sources
<1>2. /\ \A v \in Workers : v # w => batch'[v] = batch[v]
      /\ batch'[w] = items
  BY DEF Claim, HolderInv, TypeOK
<1>3. \A p \in Pairs : row[p] \in Row
  BY DEF HolderInv, TypeOK
<1>4. \A p \in Pairs : p \in P \/ Stale(p) => row[p].status \in Queued
  BY DEF Due, Stale, Queued
<1>5. /\ \A p \in Pairs : /\ row'[p].status \in Queued <=> row[p].status \in Queued
                          /\ row[p].status \notin Queued => row'[p].status = row[p].status
                          /\ row'[p].attempts = row[p].attempts
      /\ \A p \in Pairs : row'[p].status # "none" <=> row[p].status # "none"
  <2> SUFFICES ASSUME NEW p \in Pairs
               PROVE  /\ row'[p].status \in Queued <=> row[p].status \in Queued
                      /\ row[p].status \notin Queued => row'[p].status = row[p].status
                      /\ row'[p].attempts = row[p].attempts
                      /\ row'[p].status # "none" <=> row[p].status # "none"
    OBVIOUS
  <2>1. row[p] \in Row /\ "none" \notin Queued
    BY <1>3 DEF Queued
  <2> HIDE DEF P
  <2>2. CASE p \in P
    <3>1. row'[p] = [row[p] EXCEPT !.status = "delivering", !.wait = 0, !.age = 0]
      BY <1>1, <2>2
    <3>2. row'[p].status = "delivering" /\ row'[p].attempts = row[p].attempts
      BY <2>1, <3>1 DEF Row
    <3> QED BY <1>4, <2>1, <2>2, <3>2 DEF Queued
  <2>3. CASE p \notin P /\ Stale(p)
    <3>1. row'[p] = [row[p] EXCEPT !.status = "retry", !.wait = 0, !.age = 0]
      BY <1>1, <2>3
    <3>2. row'[p].status = "retry" /\ row'[p].attempts = row[p].attempts
      BY <2>1, <3>1 DEF Row
    <3> QED BY <1>4, <2>1, <2>3, <3>2 DEF Queued
  <2>4. CASE p \notin P /\ ~Stale(p)
    BY <1>1, <2>4
  <2> QED BY <2>2, <2>3, <2>4
<1>6. Phases' = Phases /\ Tries' = Tries
  BY <1>5 DEF Phases, Tries, Queued
<1>7. \A p \in P : p \in Pairs /\ row[p].status \in Queued
  BY <1>4
<1>8. ASSUME NEW p \in P, NEW v \in Workers PROVE <<v, p>> \notin Held
  <2> SUFFICES ASSUME NEW i \in batch[v], i.pair = p, Live(i) PROVE FALSE
    BY <1>7, HeldIs
  <2>1. row[p].status = "delivering" /\ row[p].age = age[v] /\ age[v] \in 0 .. JobTimeout
    BY DEF HolderInv, TypeOK, Fits, Fit
  <2>2. ~Stale(p)
    BY <2>1 DEF Stale, TimeoutBeforeStale
  <2> QED BY <2>1, <2>2 DEF Due
<1> HIDE DEF P
<1>9. Held' = Held \cup ({w} \X P)
  <2>1. ASSUME NEW v \in Workers, NEW p \in Pairs
        PROVE  <<v, p>> \in Held \cup ({w} \X P)
                 <=> \E i \in batch'[v] : i.pair = p /\ Live(i)'
    <3>1. CASE v = w
      <4>1. <<v, p>> \notin Held
        BY <1>1, <3>1, HeldIs
      <4>2. (\E i \in items : i.pair = p /\ Live(i)') <=> p \in P
        <5>1. ASSUME NEW i \in items, i.pair = p PROVE p \in P
          BY <5>1
        <5>2. ASSUME p \in P PROVE \E i \in items : i.pair = p /\ Live(i)'
          <6> DEFINE i == [pair |-> p, id |-> inserts[p[1]], attempts |-> row[p].attempts,
                           outcome |-> "none"]
          <6>1. i \in items /\ i.pair = p /\ i.id = inserts'[p[1]]
            BY <1>1, <5>2
          <6>2. row'[p].status # "none"
            BY <1>5, <1>7, <5>2 DEF Queued
          <6>3. PICK k \in items : k = i
            BY <6>1
          <6>4. Live(k)'
            BY <6>1, <6>2, <6>3 DEF Live
          <6> QED BY <6>1, <6>3, <6>4
        <5> QED BY <5>1, <5>2
      <4> QED BY <1>2, <3>1, <4>1, <4>2
    <3>2. CASE v # w
      <4>1. \A i \in batch[v] : i.pair = p => (Live(i)' <=> Live(i))
        BY <1>1, <1>5 DEF Live
      <4> QED BY <1>2, <3>2, <4>1, HeldIs
    <3> QED BY <3>1, <3>2
  <2>2. Held \cup ({w} \X P) \in SUBSET (Workers \X Pairs)
    BY <1>7 DEF Held
  <2> QED BY <2>1, <2>2, HeldBecomes
<1>10. Box!HeldBy(w) = {}
  BY <1>1, HeldIs DEF Box!HeldBy
<1>11. \A p \in P : Phases[p] = "waiting"
  BY <1>7 DEF Phases
<1>12. P \in SUBSET Pairs
  BY <1>7
<1>13. Box!Take(w, P)
  BY <1>6, <1>8, <1>9, <1>10, <1>11 DEF Box!Take
<1> QED BY <1>12, <1>13 DEF Box!Next

\* An answer is noted: the item stays what it is an item of.
LEMMA BoxPost ==
  ASSUME TypeOK, NEW w \in Workers, NEW i \in batch[w], Post(w, i)
  PROVE  UNCHANGED BoxVars
<1>1. PICK outcome \in {"delivered", "retry", "failed"} :
        batch' = [batch EXCEPT ![w] = (batch[w] \ {i}) \cup {[i EXCEPT !.outcome = outcome]}]
  BY DEF Post
<1>2. PICK k : k = [i EXCEPT !.outcome = outcome]
  OBVIOUS
<1>3. i \in Item
  BY DEF TypeOK
<1>4. k.pair = i.pair /\ k.id = i.id
  BY <1>2, <1>3 DEF Item
<1>5. /\ batch'[w] = (batch[w] \ {i}) \cup {k}
      /\ \A v \in Workers : v # w => batch'[v] = batch[v]
  BY <1>1, <1>2 DEF TypeOK
<1>6. UNCHANGED <<row, inserts>>
  BY DEF Post, sources
<1>7. /\ \A j : Live(j)' <=> Live(j)
      /\ Live(k) <=> Live(i)
  BY <1>4, <1>6 DEF Live
<1>8. ASSUME NEW v \in Workers, NEW p \in Pairs
      PROVE  (\E j \in batch[v] : j.pair = p /\ Live(j))
               <=> \E j \in batch'[v] : j.pair = p /\ Live(j)'
  BY <1>4, <1>5, <1>7
<1> QED BY <1>6, <1>8, BoxUnchanged

\* The result is recorded by the one that holds the delivery, or nothing is.
LEMMA BoxRecord ==
  ASSUME HolderInv, AttemptsInv, NEW w \in Workers, NEW i \in batch[w], Record(w, i)
  PROVE  Box!Next \/ UNCHANGED BoxVars
<1> DEFINE p == i.pair
           n == i.attempts + 1
           status == Status(i.outcome, n)
<1>1. /\ i \in Item /\ p \in Pairs /\ i.attempts \in Nat /\ n \in Nat /\ n <= MaxAttempts
      /\ i.outcome \in {"delivered", "retry", "failed"}
  <2>1. i \in Item /\ i.attempts < MaxAttempts /\ i.outcome # "none"
    BY DEF HolderInv, TypeOK, AttemptsInv, ItemsLeft, Record
  <2> QED BY <2>1 DEF Item
<1>2. /\ batch'[w] = batch[w] \ {i} /\ \A v \in Workers : v # w => batch'[v] = batch[v]
      /\ inserts' = inserts
  BY DEF Record, HolderInv, TypeOK, sources
<1>3. /\ status \in {"delivered", "retry", "failed", "dead_letter"}
      /\ status = "retry" => n < MaxAttempts
      /\ status = "dead_letter" => n = MaxAttempts
  BY <1>1, StatusType
<1>4. CASE Live(i)
  <2>1. /\ \A q \in Pairs : q # p => row'[q] = row[q]
        /\ row'[p].status = status /\ row'[p].attempts = n
    BY <1>1, <1>4 DEF Record, Live, HolderInv, TypeOK
  <2>2. row[p].status = "delivering" /\ row[p].attempts = i.attempts
    BY <1>4 DEF HolderInv, Fits, Fit
  <2> DEFINE result == IF status = "retry" THEN "waiting" ELSE status
  <2> HIDE DEF p, n, status
  <2>3. /\ result \in Box!Ends \cup {"waiting"}
        /\ result = "waiting" => n < MaxAttempts
        /\ result = "dead_letter" => n = MaxAttempts
    BY <1>3 DEF Box!Ends
  <2>4. Phases' = [Phases EXCEPT ![p] = result]
    BY <1>1, <1>3, <2>1 DEF Phases, Queued
  <2>5. Tries[p] + 1 = n
    BY <1>1, <2>2 DEF Tries, n
  <2>6. Tries' = [Tries EXCEPT ![p] = n]
    BY <1>1, <1>3, <2>1 DEF Tries
  <2>7. Held' = Held \ {<<w, p>>}
    <3>1. ASSUME NEW v \in Workers, NEW q \in Pairs
          PROVE  <<v, q>> \in Held \ {<<w, p>>}
                   <=> \E j \in batch'[v] : j.pair = q /\ Live(j)'
      <4>1. \A j \in batch[v] : j.pair = q => (Live(j)' <=> Live(j))
        BY <1>2, <1>3, <2>1, <2>2 DEF Live
      <4>2. CASE v = w /\ q = p
        <5>1. ASSUME NEW j \in batch[w], j # i, j.pair = p, Live(j) PROVE FALSE
          BY <1>4, <5>1 DEF HolderInv, Apart, p
        <5> QED BY <1>2, <4>1, <4>2, <5>1
      <4>3. CASE ~(v = w /\ q = p)
        <5>1. (\E j \in batch'[v] : j.pair = q /\ Live(j))
                <=> \E j \in batch[v] : j.pair = q /\ Live(j)
          BY <1>2, <4>3 DEF p
        <5>2. \A j \in batch'[v] : j \in batch[v]
          BY <1>2
        <5> QED BY <4>1, <4>3, <5>1, <5>2, HeldIs
      <4> QED BY <4>2, <4>3
    <3>2. Held \ {<<w, p>>} \in SUBSET (Workers \X Pairs)
      BY DEF Held
    <3> QED BY <3>1, <3>2, HeldBecomes
  <2>8. <<w, p>> \in Held
    BY <1>1, <1>4, HeldIs DEF p
  <2>9. Phases[p] = "waiting"
    BY <1>1, <2>2 DEF Phases, Queued
  <2> HIDE DEF result
  <2>10. Box!Record(w, p, result)
    BY <2>3, <2>4, <2>5, <2>6, <2>7, <2>8, <2>9 DEF Box!Record
  <2> QED BY <1>1, <2>3, <2>10 DEF Box!Next
<1>5. CASE ~Live(i)
  <2>1. row' = row
    BY <1>5 DEF Record, Live
  <2>2. \A j : Live(j)' <=> Live(j)
    BY <1>2, <2>1 DEF Live
  <2>3. \A v \in Workers, q \in Pairs :
          (\E j \in batch[v] : j.pair = q /\ Live(j))
            <=> \E j \in batch'[v] : j.pair = q /\ Live(j)'
    BY <1>2, <1>5, <2>2
  <2> QED BY <2>1, <2>3, BoxUnchanged
<1> QED BY <1>4, <1>5

LEMMA BoxAbort ==
  ASSUME TypeOK, NEW w \in Workers, Abort(w)
  PROVE  Box!Next
<1>1. /\ batch'[w] = {} /\ \A v \in Workers : v # w => batch'[v] = batch[v]
      /\ UNCHANGED <<row, inserts>>
  BY DEF Abort, TypeOK, sources
<1>2. \A j : Live(j)' <=> Live(j)
  BY <1>1 DEF Live
<1>3. Held' = Held \ ({w} \X Pairs)
  <2> DEFINE rest == Held \ ({w} \X Pairs)
  <2>1. ASSUME NEW v \in Workers, NEW p \in Pairs
        PROVE  <<v, p>> \in rest
                 <=> \E j \in batch'[v] : j.pair = p /\ Live(j)'
    <3>1. <<v, p>> \in Held <=> \E j \in batch[v] : j.pair = p /\ Live(j)
      BY HeldIs
    <3>2. CASE v = w
      BY <1>1, <3>2
    <3>3. CASE v # w
      BY <1>1, <1>2, <3>1, <3>3
    <3> QED BY <3>2, <3>3
  <2>2. rest \in SUBSET (Workers \X Pairs)
    BY DEF Held
  <2> HIDE DEF rest
  <2>3. Held' = rest
    BY <2>1, <2>2, HeldBecomes
  <2> QED BY <2>3 DEF rest
<1>4. Phases' = Phases /\ Tries' = Tries
  BY <1>1 DEF Phases, Tries
<1> QED BY <1>3, <1>4 DEF Box!Next, Box!GiveUp

LEMMA BoxStep ==
  ASSUME TimeoutBeforeStale, HolderInv, AttemptsInv, [Next]_vars
  PROVE  [Box!Next]_BoxVars
<1>a. TypeOK
  BY DEF HolderInv
<1>1. CASE \/ UNCHANGED vars
           \/ \E e \in Events : Occur(e) \/ Forget(e)
           \/ \E d \in Destinations :
                \/ CreateDestination(d)
                \/ \E status \in {"enabled", "disabled"} : SetDestinationEnabled(d, status)
  <2>1. UNCHANGED <<row, inserts, batch>>
    BY <1>1 DEF vars, Occur, Forget, CreateDestination, SetDestinationEnabled, sources, workers
  <2> QED BY <1>a, <2>1, BoxQuiet
<1>2. CASE \E E \in SUBSET Events : Ingest(E)
  BY <1>2, BoxIngest
<1>3. ASSUME NEW P \in SUBSET Pairs, NEW E \in SUBSET Events, Prune(P, E) PROVE Box!Next
  <2> DEFINE D == {p \in Pairs : p \in P \/ p[1] \in E}
  <2>1. row' = [p \in Pairs |-> IF p \in D THEN NoRow ELSE row[p]]
    BY <1>3 DEF Prune
  <2>2. UNCHANGED <<inserts, batch>>
    BY <1>3 DEF Prune, workers
  <2> QED BY <1>a, <2>1, <2>2, BoxDrop
<1>4. ASSUME NEW d \in Destinations, DeleteDestination(d) PROVE Box!Next
  <2> DEFINE D == {p \in Pairs : p[2] = d}
  <2>1. row' = [p \in Pairs |-> IF p \in D THEN NoRow ELSE row[p]]
    BY <1>4 DEF DeleteDestination
  <2>2. UNCHANGED <<inserts, batch>>
    BY <1>4 DEF DeleteDestination, sources, workers
  <2> QED BY <1>a, <2>1, <2>2, BoxDrop
<1>5. CASE \E w \in Workers : Claim(w)
  BY <1>5, BoxClaim
<1>6. CASE \E w \in Workers : \E i \in batch[w] : Post(w, i)
  BY <1>6, <1>a, BoxPost
<1>7. CASE \E w \in Workers : \E i \in batch[w] : Record(w, i)
  BY <1>7, BoxRecord
<1>8. CASE \E w \in Workers : Abort(w)
  BY <1>8, <1>a, BoxAbort
<1>9. CASE Tick
  <2>1. \A p \in Pairs : /\ row'[p].status = row[p].status
                         /\ row'[p].attempts = row[p].attempts
    BY <1>9, <1>a DEF Tick, TypeOK, Row
  <2>2. UNCHANGED <<inserts, batch>>
    BY <1>9 DEF Tick, sources
  <2>3. \A v \in Workers, p \in Pairs :
          (\E i \in batch[v] : i.pair = p /\ Live(i))
            <=> \E i \in batch'[v] : i.pair = p /\ Live(i)'
    BY <2>1, <2>2 DEF Live
  <2> QED BY <2>1, <2>3, BoxUnchanged
<1> QED BY <1>1, <1>2, <1>3, <1>4, <1>5, <1>6, <1>7, <1>8, <1>9 DEF Next, Deliver

\* If no job runs as long as stale_claim_seconds, every step of polling, pruning and
\* delivering is a step of Outbox or none: _record_result, which looks a row up by its
\* id alone, writes only what its worker holds (_claim_due, _record_result).
THEOREM ImplementsOutbox ==
  ASSUME TimeoutBeforeStale
  PROVE  Spec => KeepsOutbox
<1>1. Init => Box!Init
  BY DEF Init, Box!Init, Phases, Tries, Held, Holds, NoRow, Queued
<1>2. HolderInv /\ AttemptsInv /\ [Next]_vars => [Box!Next]_BoxVars
  BY BoxStep
<1> QED BY <1>1, <1>2, HolderInvariant, AttemptsInvariant, PTL
        DEF Spec, KeepsOutbox, Box!Spec, BoxVars

-----------------------------------------------------------------------------
(* What follows of Outbox. *)

\* A step of the outbox that counts an attempt is its holder's.
Counted(p) ==
  Tries'[p] # Tries[p] /\ Phases'[p] # "none" =>
    /\ Tries'[p] = Tries[p] + 1 /\ Phases[p] = "waiting"
    /\ \E w \in Workers : <<w, p>> \in Held /\ <<w, p>> \notin Held'

LEMMA RecordAccounted ==
  ASSUME Box!Accounted, NEW w \in Workers, NEW p \in Pairs, NEW result \in Box!Ends \cup {"waiting"},
         Box!Record(w, p, result), \A q \in Pairs : Tries[q] \in Nat
  PROVE  Box!Accounted' /\ \A q \in Pairs : Counted(q)
<1>1. /\ Phases' = [Phases EXCEPT ![p] = result] /\ Tries' = [Tries EXCEPT ![p] = @ + 1]
      /\ Held' = Held \ {<<w, p>>} /\ <<w, p>> \in Held /\ Phases[p] = "waiting"
      /\ result = "waiting" => Tries[p] + 1 < MaxAttempts
      /\ result = "dead_letter" => Tries[p] + 1 = MaxAttempts
  BY DEF Box!Record
<1>2. /\ Phases'[p] = result /\ Tries'[p] = Tries[p] + 1
      /\ \A q \in Pairs : q # p => Phases'[q] = Phases[q] /\ Tries'[q] = Tries[q]
  BY <1>1 DEF Phases, Tries
<1>3. \A v \in Workers, q \in Pairs : <<v, q>> \in Held' => <<v, q>> \in Held /\ q # p
  BY <1>1 DEF Box!Accounted
<1>4. Box!Accounted'
  BY <1>1, <1>2, <1>3 DEF Box!Accounted, Box!Ends
<1>5. \A q \in Pairs : Counted(q)
  BY <1>1, <1>2 DEF Counted
<1> QED BY <1>4, <1>5

LEMMA AccountedStep ==
  ASSUME Box!Accounted, [Box!Next]_BoxVars, \A q \in Pairs : Tries[q] \in Nat
  PROVE  Box!Accounted' /\ \A q \in Pairs : Counted(q)
<1>a. MaxAttempts \in Nat /\ MaxAttempts > 0
  BY WebhooksAssumption
<1>1. ASSUME NEW P \in SUBSET Pairs, Box!Enqueue(P)
      PROVE  Box!Accounted' /\ \A q \in Pairs : Counted(q)
  <2>1. /\ Tries' = Tries /\ Held' = Held /\ \A p \in P : Phases[p] = "none"
        /\ \A p \in Pairs : Phases'[p] = IF p \in P THEN "waiting" ELSE Phases[p]
    BY <1>1 DEF Box!Enqueue
  <2> QED BY <1>a, <2>1 DEF Box!Accounted, Counted
<1>2. ASSUME NEW P \in SUBSET Pairs, Box!Drop(P)
      PROVE  Box!Accounted' /\ \A q \in Pairs : Counted(q)
  <2>1. /\ Held' = Held \ (Workers \X P)
        /\ \A p \in Pairs : Phases'[p] = IF p \in P THEN "none" ELSE Phases[p]
        /\ \A p \in Pairs : Tries'[p] = IF p \in P THEN 0 ELSE Tries[p]
    BY <1>2 DEF Box!Drop
  <2>2. \A v \in Workers, q \in Pairs : <<v, q>> \in Held' <=> <<v, q>> \in Held /\ q \notin P
    BY <2>1
  <2>3. Held' \subseteq Workers \X Pairs
    BY <2>1 DEF Box!Accounted
  <2> QED BY <2>1, <2>2, <2>3 DEF Box!Accounted, Counted
<1>3. ASSUME NEW w \in Workers, NEW P \in SUBSET Pairs, Box!Take(w, P)
      PROVE  Box!Accounted' /\ \A q \in Pairs : Counted(q)
  <2>1. /\ Held' = Held \cup ({w} \X P) /\ Phases' = Phases /\ Tries' = Tries
        /\ \A p \in P : Phases[p] = "waiting" /\ \A v \in Workers : <<v, p>> \notin Held
    BY <1>3 DEF Box!Take
  <2>2. \A v \in Workers, q \in Pairs :
          <<v, q>> \in Held' <=> <<v, q>> \in Held \/ (v = w /\ q \in P)
    BY <2>1
  <2>3. Held' \subseteq Workers \X Pairs
    BY <2>1 DEF Box!Accounted
  <2> QED BY <2>1, <2>2, <2>3 DEF Box!Accounted, Counted
<1>4. ASSUME NEW w \in Workers, Box!GiveUp(w)
      PROVE  Box!Accounted' /\ \A q \in Pairs : Counted(q)
  <2>1. Held' \subseteq Held /\ Phases' = Phases /\ Tries' = Tries
    BY <1>4 DEF Box!GiveUp
  <2> QED BY <2>1 DEF Box!Accounted, Counted
<1>5. CASE UNCHANGED BoxVars
  BY <1>5 DEF BoxVars, Box!Accounted, Counted
<1> QED BY <1>1, <1>2, <1>3, <1>4, <1>5, RecordAccounted DEF Box!Next

\* attempts of webhook_deliveries counts what its holders did: no two workers count
\* one attempt, none is counted after the delivery's end, and a delivery is given up
\* for dead with webhook_max_attempts counted, no fewer and no more.
THEOREM AttemptsAreCounted ==
  ASSUME TimeoutBeforeStale
  PROVE  Spec => []Box!Accounted /\ Box!CountedByHolder
<1>1. Box!Init => Box!Accounted
  BY DEF Box!Init, Box!Accounted
<1>2. Box!Accounted /\ [Box!Next]_BoxVars /\ TypeOK =>
        Box!Accounted' /\ \A p \in Pairs : Counted(p)
  <2>1. TypeOK => \A p \in Pairs : Tries[p] \in Nat
    BY DEF TypeOK, Row, Tries
  <2> QED BY <2>1, AccountedStep
<1>3. (\A p \in Pairs : Counted(p)) <=>
        \A p \in Pairs :
          Tries'[p] # Tries[p] /\ Phases'[p] # "none" =>
            /\ Tries'[p] = Tries[p] + 1 /\ Phases[p] = "waiting"
            /\ \E w \in Workers : <<w, p>> \in Held /\ <<w, p>> \notin Held'
  BY DEF Counted
<1> QED BY <1>1, <1>2, <1>3, TypeCorrect, ImplementsOutbox, PTL
        DEF KeepsOutbox, Box!Spec, Box!CountedByHolder, BoxVars

=============================================================================
