----------------------------- MODULE JobLedger -----------------------------
(***************************************************************************)
(* What the scheduler promises to a reader of its tables, with no word on  *)
(* time, processes or leases: a schedule is claimed by at most one living  *)
(* execution, a record in job_runs is closed once, by the execution it is  *)
(* about or as interrupted when that execution is dead, and a claim is     *)
(* given up by the execution that holds it or when that one is dead.       *)
(***************************************************************************)
CONSTANTS
  Execs,       \* execution slots
  Schedules,   \* schedule ids
  ScheduleOf   \* the schedule a slot executes

VARIABLES
  live,    \* the executions whose coroutine exists
  record,  \* status of the row of job_runs of the slot's latest execution
  claimed  \* the schedules with running = 1

Outcomes == {"succeeded", "failed", "cancelled"}

Init ==
  /\ live = {}
  /\ record = [e \in Execs |-> "none"]
  /\ claimed = {}

\* Executions E begin.  Before, the open records I of dead executions are closed
\* and the claims S that dead executions left are given up.
Claim(E, I, S) ==
  /\ (E \cup I) \cap live = {}
  /\ \A e \in I : record[e] = "running"
  /\ \A e \in E : /\ record[e] = "running" => e \in I
                  /\ ScheduleOf[e] \notin claimed \ S
  /\ \A d, e \in E : ScheduleOf[d] = ScheduleOf[e] => d = e
  /\ S \subseteq claimed
  /\ \A e \in live : ScheduleOf[e] \notin S
  /\ live' = live \cup E
  /\ record' = [e \in Execs |-> IF e \in E THEN "none"
                                ELSE IF e \in I THEN "interrupted" ELSE record[e]]
  /\ claimed' = (claimed \ S) \cup {ScheduleOf[e] : e \in E}

Open(e) ==
  /\ e \in live /\ record[e] = "none"
  /\ record' = [record EXCEPT ![e] = "running"]
  /\ UNCHANGED <<live, claimed>>

\* An execution ends: its outcome is recorded and its claim released, at once.
Close(e, outcome) ==
  /\ e \in live /\ record[e] = "running"
  /\ live' = live \ {e}
  /\ record' = [record EXCEPT ![e] = outcome]
  /\ claimed' = claimed \ {ScheduleOf[e]}

\* Executions end with nothing written: by a crash, a cancellation or an error.
Die(E) ==
  /\ live' = live \ E
  /\ UNCHANGED <<record, claimed>>

Next ==
  \/ \E E, I \in SUBSET Execs, S \in SUBSET Schedules : Claim(E, I, S)
  \/ \E e \in Execs : Open(e) \/ \E outcome \in Outcomes : Close(e, outcome)
  \/ \E E \in SUBSET live : Die(E)

Spec == Init /\ [][Next]_<<live, record, claimed>>

-----------------------------------------------------------------------------
(* What a reader of the tables may rely on. *)

Closed == Outcomes \cup {"interrupted"}

\* A schedule has one living execution at most, which has its claim, and whose
\* record is open if it is there.
Exclusive ==
  /\ live \subseteq Execs
  /\ \A e \in live : ScheduleOf[e] \in claimed /\ record[e] \in {"none", "running"}
  /\ \A d, e \in live : ScheduleOf[d] = ScheduleOf[e] => d = e

\* A record that is closed is never written again: a slot gets another one only
\* with its next execution.
ClosedForGood ==
  [][\A e \in Execs :
       record[e] \in Closed =>
         \/ record'[e] = record[e]
         \/ record'[e] = "none" /\ e \in live' \ live]_<<live, record, claimed>>

=============================================================================
