------------------------------- MODULE Outbox -------------------------------
(***************************************************************************)
(* What the delivery of webhooks promises, with no word on time, claims    *)
(* that go stale or the rows' ids: a delivery that waits is held by one    *)
(* worker at most, only its holder records an attempt of it, after as many *)
(* as are allowed it waits no more, and its end is final.                  *)
(***************************************************************************)
EXTENDS Naturals

CONSTANTS
  Deliveries,  \* what may be queued: pairs of an event and a destination
  Workers,
  MaxAttempts

VARIABLES
  phase,  \* what is known of each delivery
  tries,  \* the attempts recorded of it
  held    \* which worker holds which delivery

Ends == {"delivered", "failed", "dead_letter"}

HeldBy(w) == {p \in Deliveries : <<w, p>> \in held}

Init ==
  /\ phase = [p \in Deliveries |-> "none"]
  /\ tries = [p \in Deliveries |-> 0]
  /\ held = {}

Enqueue(P) ==
  /\ \A p \in P : phase[p] = "none"
  /\ phase' = [p \in Deliveries |-> IF p \in P THEN "waiting" ELSE phase[p]]
  /\ UNCHANGED <<tries, held>>

\* Deliveries are deleted, those that a worker holds too.
Drop(P) ==
  /\ phase' = [p \in Deliveries |-> IF p \in P THEN "none" ELSE phase[p]]
  /\ tries' = [p \in Deliveries |-> IF p \in P THEN 0 ELSE tries[p]]
  /\ held' = held \ (Workers \X P)

Take(w, P) ==
  /\ HeldBy(w) = {}
  /\ \A p \in P : phase[p] = "waiting" /\ \A v \in Workers : <<v, p>> \notin held
  /\ held' = held \cup ({w} \X P)
  /\ UNCHANGED <<phase, tries>>

\* The holder records an attempt, after which the delivery waits for another one or
\* has come to its end.
Record(w, p, result) ==
  /\ <<w, p>> \in held /\ phase[p] = "waiting"
  /\ result = "waiting" => tries[p] + 1 < MaxAttempts
  /\ result = "dead_letter" => tries[p] + 1 = MaxAttempts
  /\ phase' = [phase EXCEPT ![p] = result]
  /\ tries' = [tries EXCEPT ![p] = @ + 1]
  /\ held' = held \ {<<w, p>>}

\* The worker is gone, and waits for no answer.
GiveUp(w) ==
  /\ held' = held \ ({w} \X Deliveries)
  /\ UNCHANGED <<phase, tries>>

Next ==
  \/ \E P \in SUBSET Deliveries : Enqueue(P) \/ Drop(P)
  \/ \E w \in Workers :
       \/ \E P \in SUBSET Deliveries : Take(w, P)
       \/ \E p \in Deliveries, result \in Ends \cup {"waiting"} : Record(w, p, result)
       \/ GiveUp(w)

Spec == Init /\ [][Next]_<<phase, tries, held>>

-----------------------------------------------------------------------------
(* What a receiver may rely on. *)

\* A delivery that is held has one holder and an attempt left, and none is given
\* up before all its attempts are recorded.
Accounted ==
  /\ held \subseteq Workers \X Deliveries
  /\ \A v, w \in Workers, p \in Deliveries : <<v, p>> \in held /\ <<w, p>> \in held => v = w
  /\ \A w \in Workers, p \in Deliveries : <<w, p>> \in held => phase[p] = "waiting"
  /\ \A p \in Deliveries :
       /\ phase[p] = "none" => tries[p] = 0
       /\ phase[p] = "waiting" => tries[p] < MaxAttempts
       /\ phase[p] = "dead_letter" => tries[p] = MaxAttempts

\* Attempts are counted one by one, each by the delivery's holder, and none after
\* its end.
CountedByHolder ==
  [][\A p \in Deliveries :
       tries'[p] # tries[p] /\ phase'[p] # "none" =>
         /\ tries'[p] = tries[p] + 1 /\ phase[p] = "waiting"
         /\ \E w \in Workers : <<w, p>> \in held /\ <<w, p>> \notin held']_<<phase, tries, held>>

=============================================================================
