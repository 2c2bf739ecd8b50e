---------------------------- MODULE EventIntake ----------------------------
(***************************************************************************)
(* What polling promises of each source, with no word on requests, jobs    *)
(* and overlaps: pages are taken whole, only with events that occurred,    *)
(* nothing is forgotten, and the watermark of an incremental source stands *)
(* where all that occurred more than Slack before it, from the horizon of  *)
(* the source on, has been taken.                                          *)
(***************************************************************************)
EXTENDS Integers

CONSTANTS
  Events,       \* what may occur
  Sources,      \* where events come from
  Incremental,  \* the sources that are asked from their watermark on
  SourceOf,     \* the source of each event
  Slack         \* how far behind its watermark a source may still owe events

VARIABLES
  when,     \* when each event occurred
  taken,    \* the events taken
  mark,     \* the watermark of each source
  horizon   \* where the earliest page that counts began

None == -1

Of(s) == {e \in Events : SourceOf[e] = s}

Settled(s) ==
  mark[s] # None =>
    \A e \in Of(s) :
      when[e] # None /\ horizon[s] <= when[e] /\ when[e] < mark[s] - Slack => e \in taken

Init ==
  /\ when = [e \in Events |-> None]
  /\ taken = {}
  /\ mark = [s \in Sources |-> None]
  /\ horizon \in [Sources -> Int]

\* An event occurs, at a time the watermark of its source has not passed.
Occur(e) ==
  /\ when[e] = None
  /\ when' = [when EXCEPT ![e] = when'[e]]
  /\ when'[e] \in Nat /\ mark[SourceOf[e]] <= when'[e]
  /\ UNCHANGED <<taken, mark, horizon>>

\* A page of s is taken, and the watermark moves with it.
Take(s, E) ==
  /\ \A e \in E : when[e] # None
  /\ taken' = taken \cup E
  /\ mark' = [mark EXCEPT ![s] = mark'[s]]
  /\ horizon' = [horizon EXCEPT ![s] = horizon'[s]]
  /\ mark'[s] # None => \E e \in taken' : SourceOf[e] = s /\ when[e] = mark'[s]
  /\ s \in Incremental => Settled(s)'
  /\ horizon[s] <= horizon'[s]
  /\ UNCHANGED when

Next ==
  \/ \E e \in Events : Occur(e)
  \/ \E s \in Sources : \E E \in SUBSET Of(s) : Take(s, E)

Spec == Init /\ [][Next]_<<when, taken, mark, horizon>>

=============================================================================
