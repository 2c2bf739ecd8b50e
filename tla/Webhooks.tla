------------------------------ MODULE Webhooks ------------------------------
(***************************************************************************)
(* From a controller's event to the receivers of webhooks: insert_batch    *)
(* (runtime/events.py) stores what is new and queues its deliveries in one *)
(* transaction, deliver_due (runtime/webhooks.py) claims, posts and        *)
(* records them, prune_runtime (runtime/services.py) deletes what is old.  *)
(* A worker is a deliver_due in progress, in this process or another one   *)
(* on the same database: schedules of retry_webhook_deliveries overlap if  *)
(* there are two of them.                                                  *)
(***************************************************************************)
EXTENDS Integers, FiniteSets

CONSTANTS
  Events,        \* what may occur at a controller, by its source key
  Destinations,  \* webhook destinations
  Workers,       \* calls of deliver_due that may be in progress at once
  Wanted,        \* the pairs of an event and a destination whose categories admit it
  LongWindow,    \* controllers still list events older than event_retention_days
  MaxAttempts,   \* webhook_max_attempts
  BackoffCap,    \* the longest delay between attempts, in ticks
  JobTimeout,    \* automation_job_timeout_seconds, in ticks
  StaleAfter,    \* stale_claim_seconds, in ticks
  MaxInserts,    \* bound: insertions of the same event
  MaxAborts      \* bound: batches that do not get to their end

Pairs == Events \X Destinations

ASSUME WebhooksAssumption ==
  /\ Wanted \subseteq Pairs
  /\ LongWindow \in BOOLEAN
  /\ MaxAttempts \in Nat \ {0} /\ BackoffCap \in Nat \ {0}
  /\ JobTimeout \in Nat \ {0} /\ StaleAfter \in Nat \ {0}
  /\ MaxInserts \in Nat /\ MaxAborts \in Nat

VARIABLES
  listing,  \* whether the controller lists an event
  stored,   \* table events
  inserts,  \* insertions of an event so far: the last one is its id
  dest,     \* table webhook_destinations
  row,      \* table webhook_deliveries, by its unique (event_id, destination_id)
  batch,    \* what each worker has claimed and not yet recorded
  age,      \* ticks since each worker claimed its batch
  done,     \* history: what a worker recorded as delivered, whether or not its row was there
  aborts    \* batches that ended early so far

sources == <<listing, stored, inserts>>
workers == <<batch, age>>
history == <<done, aborts>>
vars == <<listing, stored, inserts, dest, row, batch, age, done, aborts>>

Final == {"delivered", "failed", "dead_letter"}
Queued == {"pending", "retry", "delivering"}

Row == [status : Final \cup Queued \cup {"none"}, attempts : 0 .. MaxAttempts,
        wait : 0 .. BackoffCap, age : 0 .. StaleAfter]

NoRow == [status |-> "none", attempts |-> 0, wait |-> 0, age |-> 0]

\* A delivery as _claim_due read it, and what came of it.
Item == [pair : Pairs, id : Nat, attempts : Nat,
         outcome : {"none", "delivered", "retry", "failed"}]

TypeOK ==
  /\ listing \in [Events -> {"future", "listed", "gone"}]
  /\ stored \subseteq Events
  /\ inserts \in [Events -> Nat]
  /\ dest \in [Destinations -> {"unborn", "enabled", "disabled", "deleted"}]
  /\ row \in [Pairs -> Row]
  /\ batch \in [Workers -> SUBSET Item]
  /\ age \in [Workers -> 0 .. JobTimeout]
  /\ done \subseteq Pairs
  /\ aborts \in Nat

Init ==
  /\ listing = [e \in Events |-> "future"]
  /\ stored = {}
  /\ inserts = [e \in Events |-> 0]
  /\ dest = [d \in Destinations |-> "unborn"]
  /\ row = [p \in Pairs |-> NoRow]
  /\ batch = [w \in Workers |-> {}]
  /\ age = [w \in Workers |-> 0]
  /\ done = {}
  /\ aborts = 0

-----------------------------------------------------------------------------
(* Events. *)

Occur(e) ==
  /\ listing[e] = "future"
  /\ listing' = [listing EXCEPT ![e] = "listed"]
  /\ UNCHANGED <<stored, inserts, dest, row, workers, history>>

\* The event leaves the window that a poll shows.
Forget(e) ==
  /\ listing[e] = "listed"
  /\ listing' = [listing EXCEPT ![e] = "gone"]
  /\ UNCHANGED <<stored, inserts, dest, row, workers, history>>

\* Mutant of New: INSERT OR REPLACE, say.
AllAreNew(E) == E

\* INSERT OR IGNORE: the source key tells what is stored already.
New(E) == E \ stored

\* insert_batch of one poll's page: of what is listed, Protect shows only what
\* is newer than the cursor.
Ingest(E) ==
  /\ E # {} /\ \A e \in E : listing[e] = "listed" /\ inserts[e] < MaxInserts
  /\ stored' = stored \cup E
  /\ inserts' = [e \in Events |-> IF e \in New(E) THEN inserts[e] + 1 ELSE inserts[e]]
  /\ row' = [p \in Pairs |->
               IF p[1] \in New(E) /\ p \in Wanted /\ dest[p[2]] = "enabled"
               THEN [NoRow EXCEPT !.status = "pending"]
               ELSE row[p]]
  /\ UNCHANGED <<listing, dest, workers, history>>

\* prune_runtime: final deliveries P and events E that are old, each by a
\* retention of its own.  With an event all its deliveries are deleted.
Prune(P, E) ==
  /\ \A p \in P : row[p].status \in Final
  /\ E \subseteq stored /\ \A e \in E : LongWindow \/ listing[e] = "gone"
  /\ stored' = stored \ E
  /\ row' = [p \in Pairs |-> IF p \in P \/ p[1] \in E THEN NoRow ELSE row[p]]
  /\ UNCHANGED <<listing, inserts, dest, workers, history>>

-----------------------------------------------------------------------------
(* Destinations. *)

CreateDestination(d) ==
  /\ dest[d] = "unborn"
  /\ dest' = [dest EXCEPT ![d] = "enabled"]
  /\ UNCHANGED <<sources, row, workers, history>>

SetDestinationEnabled(d, status) ==
  /\ dest[d] \in {"enabled", "disabled"} \ {status}
  /\ dest' = [dest EXCEPT ![d] = status]
  /\ UNCHANGED <<sources, row, workers, history>>

DeleteDestination(d) ==
  /\ dest[d] \in {"enabled", "disabled"}
  /\ dest' = [dest EXCEPT ![d] = "deleted"]
  /\ row' = [p \in Pairs |-> IF p[2] = d THEN NoRow ELSE row[p]]
  /\ UNCHANGED <<sources, workers, history>>

-----------------------------------------------------------------------------
(* deliver_due. *)

\* Mutants of Stale: every claim is given up, as if no worker were left; none is.
Unfinished(p) == row[p].status = "delivering"
NeverStale(p) == FALSE

\* The claim is so old that its worker must be gone.
Stale(p) == row[p].status = "delivering" /\ row[p].age >= StaleAfter

\* Mutant of Due: the query excludes what was delivered, not all that is final.
DueUnlessDelivered(p) ==
  /\ row[p].status \in {"pending", "retry", "failed", "dead_letter"} \/ Stale(p)
  /\ row[p].wait = 0 \/ Stale(p)
  /\ dest[p[2]] = "enabled"

\* To be claimed now: a stale claim is first made due.
Due(p) ==
  /\ \/ Stale(p)
     \/ row[p].status \in {"pending", "retry"} /\ row[p].wait = 0
  /\ dest[p[2]] = "enabled"

\* _claim_due, one transaction.
Claim(w) ==
  /\ batch[w] = {}
  /\ row' = [p \in Pairs |->
               IF Due(p) THEN [row[p] EXCEPT !.status = "delivering", !.wait = 0, !.age = 0]
               ELSE IF Stale(p) THEN [row[p] EXCEPT !.status = "retry", !.wait = 0, !.age = 0]
               ELSE row[p]]
  /\ batch' = [batch EXCEPT ![w] =
                 {[pair |-> p, id |-> inserts[p[1]], attempts |-> row[p].attempts,
                   outcome |-> "none"] : p \in {q \in Pairs : Due(q)}}]
  /\ age' = [age EXCEPT ![w] = 0]
  /\ UNCHANGED <<sources, dest, history>>

\* _deliver up to the response, or up to the last error if no address of the
\* destination answers.  It is "failed" for want of a secret or an address, or
\* by an answer that is neither a success nor 408, 429 or 5xx.
Post(w, i) ==
  /\ i \in batch[w] /\ \A j \in batch[w] : j.outcome = "none"
  /\ \E outcome \in {"delivered", "retry", "failed"} :
       batch' = [batch EXCEPT ![w] = (@ \ {i}) \cup {[i EXCEPT !.outcome = outcome]}]
  /\ UNCHANGED <<sources, dest, row, age, history>>

\* Mutant of Status: one attempt too many.
StatusOfOneMore(outcome, n) ==
  IF outcome = "retry" /\ n > MaxAttempts THEN "dead_letter" ELSE outcome

Status(outcome, n) ==
  IF outcome = "retry" /\ n >= MaxAttempts THEN "dead_letter" ELSE outcome

\* Mutant of Delay: without min().
DelayUncapped(n) == 2 ^ (n - 1)

Delay(n) == IF 2 ^ (n - 1) \in 0 .. BackoffCap THEN 2 ^ (n - 1) ELSE BackoffCap

\* The delay counts from the start of the batch.
Wait(n, since) == IF since < Delay(n) THEN Delay(n) - since ELSE 0

\* _record_result: the row is updated by its id, if it is still there.
Record(w, i) ==
  /\ i \in batch[w] /\ i.outcome # "none"
  /\ LET n == i.attempts + 1
     IN  row' = IF row[i.pair].status # "none" /\ inserts[i.pair[1]] = i.id
                THEN [row EXCEPT ![i.pair] =
                        [status |-> Status(i.outcome, n), attempts |-> n,
                         wait |-> Wait(n, age[w]), age |-> 0]]
                ELSE row
  /\ batch' = [batch EXCEPT ![w] = @ \ {i}]
  /\ age' = [age EXCEPT ![w] = IF batch'[w] = {} THEN 0 ELSE @]
  /\ done' = IF i.outcome = "delivered" THEN done \cup {i.pair} ELSE done
  /\ UNCHANGED <<sources, dest, aborts>>

\* The job's timeout, a cancellation, an exception or the end of the process:
\* the rest of the batch stays claimed.
Abort(w) ==
  /\ batch[w] # {} /\ aborts < MaxAborts
  /\ aborts' = aborts + 1
  /\ batch' = [batch EXCEPT ![w] = {}]
  /\ age' = [age EXCEPT ![w] = 0]
  /\ UNCHANGED <<sources, dest, row, done>>

\* No batch outlives the job's timeout.
Tick ==
  /\ \A w \in Workers : batch[w] # {} => age[w] < JobTimeout
  /\ age' = [w \in Workers |-> IF batch[w] = {} THEN 0 ELSE age[w] + 1]
  /\ row' = [p \in Pairs |->
               [row[p] EXCEPT !.wait = IF @ = 0 THEN 0 ELSE @ - 1,
                              !.age = IF row[p].status = "delivering" /\ @ < StaleAfter
                                      THEN @ + 1 ELSE @]]
  /\ UNCHANGED <<sources, dest, batch, history>>

-----------------------------------------------------------------------------
Deliver(w) ==
  \/ Claim(w)
  \/ \E i \in batch[w] : Post(w, i) \/ Record(w, i)

Next ==
  \/ \E e \in Events : Occur(e) \/ Forget(e)
  \/ \E E \in SUBSET Events : Ingest(E)
  \/ \E P \in SUBSET Pairs, E \in SUBSET Events : Prune(P, E)
  \/ \E d \in Destinations :
       \/ CreateDestination(d) \/ DeleteDestination(d)
       \/ \E status \in {"enabled", "disabled"} : SetDestinationEnabled(d, status)
  \/ \E w \in Workers : Deliver(w) \/ Abort(w)
  \/ Tick

Spec == Init /\ [][Next]_vars

\* A schedule of retry_webhook_deliveries is enabled, requests have a timeout,
\* and time goes on.
FairSpec == Spec /\ WF_vars(Tick) /\ \A w \in Workers : WF_vars(Deliver(w))

-----------------------------------------------------------------------------
(* Properties. *)

\* Every worker gives up before its claims go stale.
TimeoutBeforeStale == JobTimeout < StaleAfter

Holds(w, p) == \E i \in batch[w] : i.pair = p /\ i.id = inserts[p[1]]

\* The claim of _claim_due is exclusive: as long as a worker has a delivery to
\* post or to record, its row says so, with the attempts the worker counts from,
\* and no other worker has it.
OneHolder ==
  \A w \in Workers : \A i \in batch[w] :
    LET r == row[i.pair]
    IN  r.status # "none" /\ i.id = inserts[i.pair[1]] =>
          /\ r.status = "delivering" /\ r.attempts = i.attempts
          /\ \A v \in Workers \ {w} : ~Holds(v, i.pair)

\* A delivery that has come to its end stays as it is until it is deleted,
\* whichever worker still records what.
FinalStays ==
  [][\A p \in Pairs :
       row[p].status \in Final =>
         row'[p].status \in {row[p].status, "none"} /\ (row'[p].status # "none" =>
           row'[p].attempts = row[p].attempts)]_vars

\* Recorded attempts are bounded (README.md: "bounded retries and dead-letter
\* state"): while a delivery waits for another attempt it has one left.
AttemptsLeft ==
  \A p \in Pairs :
    /\ row[p].status \in Queued => row[p].attempts < MaxAttempts
    /\ row[p].status = "dead_letter" => row[p].attempts = MaxAttempts

\* Once it is recorded that a receiver took an event no worker has it to
\* deliver again: polling, pruning and overlapping workers repeat nothing
\* (platform-enhancements-design.md: "A unique source key prevents duplicate
\* delivery across polling cycles and restarts").  A response that is lost or
\* not recorded may well be followed by another delivery.
NoDuplicateDelivery ==
  \A w \in Workers : \A i \in batch[w] : i.pair \notin done

Phases == [p \in Pairs |-> IF row[p].status \in Queued THEN "waiting" ELSE row[p].status]
Tries == [p \in Pairs |-> IF row[p].status = "none" THEN 0 ELSE row[p].attempts]
Held == {h \in Workers \X Pairs : row[h[2]].status # "none" /\ Holds(h[1], h[2])}

Box == INSTANCE Outbox WITH Deliveries <- Pairs, phase <- Phases, tries <- Tries, held <- Held

\* Claiming, posting and recording implement Outbox: however workers overlap, are
\* cut off and outlive what they deliver, a delivery is recorded by its one holder,
\* as often as it may be attempted, and never after its end.
KeepsOutbox == Box!Spec

\* A delivery comes to an end unless its destination is disabled, also when the
\* worker that had claimed it is gone.
DeliveriesSettle ==
  \A p \in Pairs :
    row[p].status \in Queued ~> row[p].status \notin Queued \/ dest[p[2]] # "enabled"

=============================================================================
