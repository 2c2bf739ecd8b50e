---------------------------- MODULE CachePromise ----------------------------
(***************************************************************************)
(* What the GET cache shared by all clients of the process promises, with  *)
(* no word on requests and generations: an entry is never older than the   *)
(* controller was when the cache was last emptied.  Between two            *)
(* invalidations entries may be replaced in any order, by older ones too.  *)
(***************************************************************************)
EXTENDS Naturals

CONSTANTS
  Keys,    \* cache keys
  Absent   \* no entry

VARIABLES
  version,  \* how often the controller's configuration has changed
  floor,    \* the oldest version an entry may show
  cache     \* the version each entry shows

Empty == [k \in Keys |-> Absent]

Init ==
  /\ version = 0
  /\ floor = 0
  /\ cache = Empty

\* The controller changes: by a write of ours, or of anyone.
Change ==
  /\ version' = version + 1
  /\ UNCHANGED <<floor, cache>>

\* All is forgotten, and perhaps nothing older than this moment is shown again.
Invalidate ==
  /\ cache' = Empty
  /\ floor' \in {floor, version}
  /\ UNCHANGED version

\* A fresh read replaces all that was known.
Renew(k) ==
  \E v \in floor .. version :
    /\ cache' = [Empty EXCEPT ![k] = v]
    /\ floor' = v
    /\ UNCHANGED version

Fill(k) ==
  /\ \E v \in floor .. version : cache' = [cache EXCEPT ![k] = v]
  /\ UNCHANGED <<version, floor>>

Evict(k) ==
  /\ cache' = [cache EXCEPT ![k] = Absent]
  /\ UNCHANGED <<version, floor>>

Next ==
  \/ Change \/ Invalidate
  \/ \E k \in Keys : Renew(k) \/ Fill(k) \/ Evict(k)

Spec == Init /\ [][Next]_<<version, floor, cache>>

-----------------------------------------------------------------------------
(* What a reader may rely on. *)

\* An entry shows a state of the controller no older than the floor.
Fresh ==
  /\ version \in Nat /\ floor \in 0 .. version
  /\ cache \in [Keys -> {Absent} \cup floor .. version]

\* What was too old to be shown once is never shown again.
NeverBack ==
  [][floor <= floor' /\ \A k \in Keys : cache'[k] # Absent => floor <= cache'[k]]_<<version, floor, cache>>

=============================================================================
