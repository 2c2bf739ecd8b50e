------------------------------ MODULE Scheduler ------------------------------
(***************************************************************************)
(* The durable interval scheduler (runtime/scheduler.py): schedules and    *)
(* job runs are rows of the SQLite store that server processes share, and  *)
(* a schedule is claimed (running = 1) by the transaction that starts its  *)
(* execution.  A claim is a lease: once updated_at is StaleAfter old,      *)
(* any loop may take the schedule again, whether or not the execution that *)
(* holds it is still alive.                                                *)
(*                                                                         *)
(* The code compares timestamps only by their differences, so the state    *)
(* keeps ages (time since a timestamp) instead of a clock, and Tick ages   *)
(* everything.  A transaction is atomic (BEGIN IMMEDIATE under the store's *)
(* lock) and takes at most TxDelay from the moment its coroutine asks for  *)
(* it; the timestamp it writes was read up to that long before (lag).      *)
(***************************************************************************)
EXTENDS Integers, FiniteSets

CONSTANTS
  Servers,            \* processes that opened the same runtime database
  NoServer,           \* the owner of an idle execution slot
  Schedules,          \* schedule ids, in the order ORDER BY id sorts them
  Execs,              \* execution slots: how many executions may coexist
  ScheduleOf,         \* the schedule whose executions a slot can hold
  Interval,           \* interval_seconds of each schedule
  Retryable,          \* schedules whose job definition is retryable
  Runnable,           \* schedules whose job and arguments the registry accepts
  AutomationEnabled,  \* settings.automation_enabled: serve() is started
  Limit,              \* automation_max_concurrent_jobs
  TickSeconds,        \* automation_tick_seconds
  JobTimeout,         \* automation_job_timeout_seconds
  MaxAttempts,        \* automation_job_max_attempts
  Backoff,            \* Backoff[n]: the sleep after the n-th failed attempt
  StartBy,            \* StartBy[n]: bound on the age of a run at its n-th attempt
  StaleAfter,         \* automation_stale_run_seconds
  TxDelay,            \* bound on the wait for and the work of a transaction
  StoreFails,         \* whether a transaction of the scheduler may raise
  AgeCap,             \* bound: ages saturate here
  OverdueCap,         \* bound: lateness saturates here
  MaxDisruptions      \* bound: operator edits, cancellations, faults, crashes

Attempts == 1 .. MaxAttempts

ASSUME TimingAssumption ==
  /\ TickSeconds \in Nat /\ JobTimeout \in Nat /\ StaleAfter \in Nat /\ TxDelay \in Nat
  /\ AgeCap \in Nat /\ AgeCap >= StaleAfter + TxDelay
  /\ OverdueCap \in Nat /\ OverdueCap >= TxDelay
  /\ MaxAttempts \in Nat \ {0} /\ Limit \in Nat \ {0} /\ MaxDisruptions \in Nat
  /\ Interval \in [Schedules -> Nat]
  /\ Backoff \in [Attempts -> Nat]

ASSUME DoublingAssumption ==
  \A n \in Attempts : n + 1 \in Attempts => Backoff[n + 1] = 2 * Backoff[n]

ASSUME StartByAssumption ==
  /\ StartBy \in [Attempts -> Nat]
  /\ StartBy[1] = 2 * TxDelay
  /\ \A n \in Attempts : n + 1 \in Attempts =>
       StartBy[n + 1] = StartBy[n] + JobTimeout + Backoff[n]

ASSUME PopulationAssumption ==
  /\ Schedules \subseteq Nat
  /\ ScheduleOf \in [Execs -> Schedules]
  /\ NoServer \notin Servers
  /\ Retryable \subseteq Schedules /\ Runnable \subseteq Schedules
  /\ AutomationEnabled \in BOOLEAN /\ StoreFails \in BOOLEAN

VARIABLES
  row,          \* whether the row of schedules exists
  enabled,      \* schedules.enabled
  running,      \* schedules.running: the claim
  claimAge,     \* now - updated_at while claimed, else 0
  dueIn,        \* next_run_at - now
  run,          \* the row of job_runs of the slot's latest execution
  exec,         \* the coroutine _execute in the slot
  loop,         \* the process and its task serve()
  disruptions,  \* how much of MaxDisruptions is used
  lastStart     \* history: age of the last start by a loop, AgeCap if long ago

\* The lease outlives the longest execution: all attempts time out, the last
\* one is then cancelled, and each step waits for the store as long as it can.
LeaseLongEnough ==
  \A n \in Attempts : StartBy[n] + JobTimeout + 2 * TxDelay < StaleAfter

table == <<row, enabled, dueIn>>
vars == <<row, enabled, running, claimAge, dueIn, run, exec, loop, disruptions, lastStart>>

Terminal == {"interrupted", "succeeded", "failed", "cancelled"}

RunRow == [status : {"none", "running"} \cup Terminal, age : 0 .. AgeCap]

Exec == [pc : {"idle", "insert", "attempt", "backoff", "cancelling", "finish"},
         by : Servers \cup {NoServer}, batch : BOOLEAN,
         attempt : Nat, t : Nat, outcome : Terminal \cup {"none"}]

Loop == [pc : {"down", "none", "waiting", "busy", "dead", "stopping", "stopped"}, t : Nat]

TypeOK ==
  /\ row \in [Schedules -> {"absent", "present", "deleted"}]
  /\ enabled \in [Schedules -> BOOLEAN]
  /\ running \in [Schedules -> BOOLEAN]
  /\ claimAge \in [Schedules -> 0 .. AgeCap]
  /\ dueIn \in [Schedules -> Int]
  /\ run \in [Execs -> RunRow]
  /\ exec \in [Execs -> Exec]
  /\ loop \in [Servers -> Loop]
  /\ disruptions \in 0 .. MaxDisruptions
  /\ lastStart \in [Schedules -> 0 .. AgeCap]

-----------------------------------------------------------------------------
Idle == [pc |-> "idle", by |-> NoServer, batch |-> FALSE,
         attempt |-> 0, t |-> 0, outcome |-> "none"]

Claimed(p, inBatch) == [pc |-> "insert", by |-> p, batch |-> inBatch,
                        attempt |-> 0, t |-> 0, outcome |-> "none"]

\* The coroutine x at its next await.
Move(x, pc, attempt, outcome) == [pc |-> pc, by |-> x.by, batch |-> x.batch,
                                  attempt |-> attempt, t |-> 0, outcome |-> outcome]

Live(e) == exec[e].pc # "idle"

\* Awaiting the store's lock or the transaction under it.
InStore(e) == exec[e].pc \in {"insert", "finish"}

BatchOf(p) == {e \in Execs : Live(e) /\ exec[e].by = p /\ exec[e].batch}

AttemptLimit(s) == IF s \in Retryable THEN MaxAttempts ELSE 1

Disrupt == disruptions < MaxDisruptions /\ disruptions' = disruptions + 1

\* The process starts; serve() begins with a claim.
Started == [pc |-> IF AutomationEnabled THEN "waiting" ELSE "none", t |-> TickSeconds]

Init ==
  /\ row = [s \in Schedules |-> "absent"]
  /\ enabled = [s \in Schedules |-> FALSE]
  /\ running = [s \in Schedules |-> FALSE]
  /\ claimAge = [s \in Schedules |-> 0]
  /\ dueIn = [s \in Schedules |-> 0]
  /\ run = [e \in Execs |-> [status |-> "none", age |-> 0]]
  /\ exec = [e \in Execs |-> Idle]
  /\ loop = [p \in Servers |-> Started]
  /\ disruptions = 0
  /\ lastStart = [s \in Schedules |-> AgeCap]

-----------------------------------------------------------------------------
(* Operator tools: each is one transaction.  "lag" is the age, when it commits,
   of the timestamp that was read before waiting for it. *)

CreateSchedule(s, lag) ==
  /\ row[s] = "absent"
  /\ row' = [row EXCEPT ![s] = "present"]
  /\ enabled' = [enabled EXCEPT ![s] = TRUE]
  /\ dueIn' = [dueIn EXCEPT ![s] = -lag]
  /\ UNCHANGED <<running, claimAge, run, exec, loop, disruptions, lastStart>>

\* Writes updated_at too: a claim that was about to expire is young again, and one
\* made while this waited for the store becomes as old as the timestamp.
SetEnabled(s, value, lag) ==
  /\ row[s] = "present"
  /\ Disrupt
  /\ enabled' = [enabled EXCEPT ![s] = value]
  /\ claimAge' = [claimAge EXCEPT ![s] = IF running[s] THEN lag ELSE 0]
  /\ UNCHANGED <<row, running, dueIn, run, exec, loop, lastStart>>

\* Mutant of DeleteSchedule: a claimed schedule is deleted too.
DeleteAnySchedule(s) ==
  /\ row[s] = "present"
  /\ Disrupt
  /\ row' = [row EXCEPT ![s] = "deleted"]
  /\ enabled' = [enabled EXCEPT ![s] = FALSE]
  /\ dueIn' = [dueIn EXCEPT ![s] = 0]
  /\ UNCHANGED <<running, claimAge, run, exec, loop, lastStart>>

DeleteSchedule(s) ==
  /\ row[s] = "present" /\ ~running[s]
  /\ Disrupt
  /\ row' = [row EXCEPT ![s] = "deleted"]
  /\ enabled' = [enabled EXCEPT ![s] = FALSE]
  /\ dueIn' = [dueIn EXCEPT ![s] = 0]
  /\ UNCHANGED <<running, claimAge, run, exec, loop, lastStart>>

-----------------------------------------------------------------------------
(* Claims. *)

\* Mutants of StaleClaims and StaleRuns: claims are never recovered, and runs
\* are closed whatever their age.
NoStaleClaims(lag) == {}
AllOpenRuns(lag) == {e \in Execs : run[e].status = "running"}

StaleClaims(lag) == {s \in Schedules : running[s] /\ claimAge[s] - lag >= StaleAfter}

StaleRuns(lag) == {e \in Execs : run[e].status = "running" /\ run[e].age - lag >= StaleAfter}

\* Mutant of Due: next_run_at is not compared.
DueAnytime(lag) == {s \in Schedules : /\ row[s] = "present" /\ enabled[s]
                                      /\ running[s] => s \in StaleClaims(lag)}

Due(lag) == {s \in Schedules : /\ row[s] = "present" /\ enabled[s]
                               /\ running[s] => s \in StaleClaims(lag)
                               /\ dueIn[s] <= -lag}

\* Mutant of Before: due schedules are taken by id alone.
BeforeById(r, s) == r < s

Before(r, s) == dueIn[r] < dueIn[s] \/ (dueIn[r] = dueIn[s] /\ r < s)

FirstDue(lag) == {s \in Due(lag) : Cardinality({r \in Due(lag) : Before(r, s)}) < Limit}

\* Slots for a new execution of s, given the runs this transaction interrupts.
FreeSlots(s, interrupted) ==
  {e \in Execs : /\ ScheduleOf[e] = s /\ ~Live(e)
                 /\ run[e].status = "running" => e \in interrupted}

SlotFor(s, interrupted) == CHOOSE e \in FreeSlots(s, interrupted) : TRUE

\* One pass of run_due up to the gather: recover what is stale, claim what is due.
ClaimDue(p, lag) ==
  /\ loop[p].pc = "waiting" /\ loop[p].t >= TickSeconds + lag
  /\ LET batch == FirstDue(lag)
         interrupted == StaleRuns(lag)
         started == {SlotFor(s, interrupted) : s \in batch}
     IN  /\ \A s \in batch : FreeSlots(s, interrupted) # {}
         /\ running' = [s \in Schedules |->
                          s \in batch \/ (running[s] /\ s \notin StaleClaims(lag))]
         /\ claimAge' = [s \in Schedules |->
                          IF s \in batch THEN lag
                          ELSE IF s \in StaleClaims(lag) THEN 0 ELSE claimAge[s]]
         /\ run' = [e \in Execs |->
                      IF e \in started THEN [status |-> "none", age |-> lag]
                      ELSE IF e \in interrupted
                           THEN [status |-> "interrupted",
                                 age |-> IF Live(e) THEN run[e].age ELSE 0]
                           ELSE run[e]]
         /\ exec' = [e \in Execs |-> IF e \in started THEN Claimed(p, TRUE) ELSE exec[e]]
         /\ loop' = [loop EXCEPT ![p] =
                       [pc |-> IF batch = {} THEN "waiting" ELSE "busy", t |-> 0]]
         /\ lastStart' = [s \in Schedules |-> IF s \in batch THEN lag ELSE lastStart[s]]
  /\ UNCHANGED <<table, disruptions>>

\* Mutant of RunNow: a running schedule is run again.
RunNowAnyway(p, s, lag) ==
  /\ loop[p].pc \in {"none", "waiting", "busy", "dead"}
  /\ row[s] = "present"
  /\ FreeSlots(s, {}) # {}
  /\ LET e == SlotFor(s, {})
     IN  /\ exec' = [exec EXCEPT ![e] = Claimed(p, FALSE)]
         /\ run' = [run EXCEPT ![e] = [status |-> "none", age |-> lag]]
  /\ running' = [running EXCEPT ![s] = TRUE]
  /\ claimAge' = [claimAge EXCEPT ![s] = lag]
  /\ UNCHANGED <<table, loop, disruptions, lastStart>>

\* run_schedule_now: whatever is due or enabled, and without stale recovery.
RunNow(p, s, lag) ==
  /\ loop[p].pc \in {"none", "waiting", "busy", "dead"}
  /\ row[s] = "present" /\ ~running[s]
  /\ FreeSlots(s, {}) # {}
  /\ LET e == SlotFor(s, {})
     IN  /\ exec' = [exec EXCEPT ![e] = Claimed(p, FALSE)]
         /\ run' = [run EXCEPT ![e] = [status |-> "none", age |-> lag]]
  /\ running' = [running EXCEPT ![s] = TRUE]
  /\ claimAge' = [claimAge EXCEPT ![s] = lag]
  /\ UNCHANGED <<table, loop, disruptions, lastStart>>

-----------------------------------------------------------------------------
(* _execute, one action between two awaits. *)

ToFinish(e, outcome) ==
  exec' = [exec EXCEPT ![e] = Move(@, "finish", @.attempt, outcome)]

\* A row of job_runs whose execution has ended ages only while stale recovery
\* may still have to close it.
Settled(r) == [status |-> r.status, age |-> IF r.status = "running" THEN r.age ELSE 0]

\* The coroutine raises: its slot ends, and the gather of a batch hands the
\* exception to serve(), which has no handler for it.
Raise(e) ==
  /\ exec' = [exec EXCEPT ![e] = Idle]
  /\ run' = [run EXCEPT ![e] = Settled(@)]
  /\ loop' = IF exec[e].batch /\ loop[exec[e].by].pc = "busy"
             THEN [loop EXCEPT ![exec[e].by] = [pc |-> "dead", t |-> 0]] ELSE loop

\* The job_runs row is inserted and the registry consulted; a job the registry
\* refuses fails at attempt 1 without running.
InsertRun(e) ==
  /\ exec[e].pc = "insert" /\ row[ScheduleOf[e]] = "present"
  /\ run' = [run EXCEPT ![e] = [status |-> "running", age |-> @.age]]
  /\ exec' = [exec EXCEPT ![e] = IF ScheduleOf[e] \in Runnable
                                 THEN Move(@, "attempt", 1, "none")
                                 ELSE Move(@, "finish", 1, "failed")]
  /\ UNCHANGED <<table, running, claimAge, loop, disruptions, lastStart>>

\* The insert fails: the store raises, or the schedule is gone (foreign key).
InsertRaises(e) ==
  /\ exec[e].pc = "insert"
  /\ IF row[ScheduleOf[e]] = "present" THEN StoreFails /\ Disrupt ELSE UNCHANGED disruptions
  /\ Raise(e)
  /\ UNCHANGED <<table, running, claimAge, lastStart>>

AttemptSucceeds(e) ==
  /\ exec[e].pc = "attempt"
  /\ ToFinish(e, "succeeded")
  /\ UNCHANGED <<table, running, claimAge, run, loop, disruptions, lastStart>>

\* Mutant of AttemptFails: one attempt more than the limit.
AttemptFailsOnceMore(e) ==
  /\ exec[e].pc = "attempt"
  /\ IF exec[e].attempt > AttemptLimit(ScheduleOf[e])
     THEN ToFinish(e, "failed")
     ELSE exec' = [exec EXCEPT ![e] = Move(@, "backoff", @.attempt, "none")]
  /\ UNCHANGED <<table, running, claimAge, run, loop, disruptions, lastStart>>

\* The handler raised or asyncio.timeout cut it off.
AttemptFails(e) ==
  /\ exec[e].pc = "attempt"
  /\ IF exec[e].attempt >= AttemptLimit(ScheduleOf[e])
     THEN ToFinish(e, "failed")
     ELSE exec' = [exec EXCEPT ![e] = Move(@, "backoff", @.attempt, "none")]
  /\ UNCHANGED <<table, running, claimAge, run, loop, disruptions, lastStart>>

BackoffEnds(e) ==
  /\ exec[e].pc = "backoff" /\ exec[e].t >= Backoff[exec[e].attempt]
  /\ exec' = [exec EXCEPT ![e] = Move(@, "attempt", @.attempt + 1, "none")]
  /\ UNCHANGED <<table, running, claimAge, run, loop, disruptions, lastStart>>

\* Mutant of CancelUnwinds: the status is not set on the way out.
CancelUnwindsUnset(e) ==
  /\ exec[e].pc = "cancelling"
  /\ ToFinish(e, "running")
  /\ UNCHANGED <<table, running, claimAge, run, loop, disruptions, lastStart>>

\* The cancelled handler has unwound: the outcome is recorded before re-raising.
CancelUnwinds(e) ==
  /\ exec[e].pc = "cancelling"
  /\ ToFinish(e, "cancelled")
  /\ UNCHANGED <<table, running, claimAge, run, loop, disruptions, lastStart>>

\* Mutant of Finish: the outcome is recorded, the claim is left to stale recovery.
FinishUnreleased(e) ==
  /\ exec[e].pc = "finish"
  /\ run' = [run EXCEPT ![e] = [status |-> exec[e].outcome, age |-> 0]]
  /\ exec' = [exec EXCEPT ![e] = Idle]
  /\ loop' = IF exec[e].batch /\ loop[exec[e].by].pc = "stopping"
             THEN [loop EXCEPT ![exec[e].by] = [pc |-> "stopped", t |-> 0]] ELSE loop
  /\ UNCHANGED <<table, running, claimAge, disruptions, lastStart>>

\* The closing transaction.  The job_runs row is updated by its id whatever its
\* status, and the schedule is released by its id whoever holds the claim.
Finish(e) ==
  LET s == ScheduleOf[e]
      next == Interval[s] - run[e].age
  IN  /\ exec[e].pc = "finish"
      /\ run' = [run EXCEPT ![e] = [status |-> exec[e].outcome, age |-> 0]]
      /\ IF row[s] = "present"
         THEN /\ running' = [running EXCEPT ![s] = FALSE]
              /\ claimAge' = [claimAge EXCEPT ![s] = 0]
              /\ dueIn' = [dueIn EXCEPT ![s] = IF next < -OverdueCap THEN -OverdueCap ELSE next]
         ELSE UNCHANGED <<running, claimAge, dueIn>>
      /\ exec' = [exec EXCEPT ![e] = Idle]
      /\ loop' = IF exec[e].batch /\ loop[exec[e].by].pc = "stopping"
                 THEN [loop EXCEPT ![exec[e].by] = [pc |-> "stopped", t |-> 0]] ELSE loop
      /\ UNCHANGED <<row, enabled, disruptions, lastStart>>

\* The closing transaction rolls back: the store raises, or json.dumps refuses
\* the handler's result.
FinishRaises(e) ==
  /\ exec[e].pc = "finish" /\ StoreFails
  /\ Disrupt
  /\ Raise(e)
  /\ UNCHANGED <<table, running, claimAge, lastStart>>

-----------------------------------------------------------------------------
(* serve, and the life of its process. *)

\* The gather returned: serve() sleeps.
BatchDone(p) ==
  /\ loop[p].pc = "busy" /\ BatchOf(p) = {}
  /\ loop' = [loop EXCEPT ![p] = [pc |-> "waiting", t |-> 0]]
  /\ UNCHANGED <<table, running, claimAge, run, exec, disruptions, lastStart>>

\* The claiming transaction raises, and serve() with it.
ClaimRaises(p) ==
  /\ loop[p].pc = "waiting" /\ loop[p].t >= TickSeconds /\ StoreFails
  /\ Disrupt
  /\ loop' = [loop EXCEPT ![p] = [pc |-> "dead", t |-> 0]]
  /\ UNCHANGED <<table, running, claimAge, run, exec, lastStart>>

\* What a cancelled execution becomes: a handler or a sleep unwinds, and a
\* transaction rolls back and raises at once.
Cancelled(e) ==
  IF exec[e].pc \in {"attempt", "backoff"}
  THEN Move(exec[e], "cancelling", exec[e].attempt, "none")
  ELSE IF InStore(e) THEN Idle ELSE exec[e]

\* The client withdraws its run_schedule_now request.
CancelRunNow(e) ==
  /\ Live(e) /\ ~exec[e].batch /\ exec[e].pc # "cancelling"
  /\ Disrupt
  /\ exec' = [exec EXCEPT ![e] = Cancelled(e)]
  /\ run' = IF InStore(e) THEN [run EXCEPT ![e] = Settled(@)] ELSE run
  /\ UNCHANGED <<table, running, claimAge, loop, lastStart>>

\* stop_scheduler cancels serve().  A gather that is cancelled cancels every
\* child, and is done when the first of them has ended.
Shutdown(p) ==
  /\ loop[p].pc \in {"none", "waiting", "busy", "dead"}
  /\ Disrupt
  /\ LET cut == IF loop[p].pc = "busy" THEN BatchOf(p) ELSE {}
         unwinding == {e \in cut : ~InStore(e)}
     IN  /\ exec' = [e \in Execs |-> IF e \in cut THEN Cancelled(e) ELSE exec[e]]
         /\ run' = [e \in Execs |-> IF e \in cut \ unwinding THEN Settled(run[e]) ELSE run[e]]
         /\ loop' = [loop EXCEPT ![p] =
                       [pc |-> IF cut # {} /\ unwinding = cut THEN "stopping" ELSE "stopped",
                        t |-> 0]]
  /\ UNCHANGED <<table, running, claimAge, lastStart>>

\* The process is gone, and every coroutine in it; the rows stay as they are.
Down(p) ==
  /\ exec' = [e \in Execs |-> IF exec[e].by = p THEN Idle ELSE exec[e]]
  /\ run' = [e \in Execs |-> IF exec[e].by = p THEN Settled(run[e]) ELSE run[e]]
  /\ loop' = [loop EXCEPT ![p] = [pc |-> "down", t |-> 0]]
  /\ UNCHANGED <<table, running, claimAge, lastStart>>

\* The store closes once the coroutines queued on its lock are through.
Exit(p) ==
  /\ loop[p].pc = "stopped"
  /\ \A e \in Execs : exec[e].by = p => ~InStore(e)
  /\ Down(p)
  /\ UNCHANGED disruptions

Crash(p) ==
  /\ loop[p].pc # "down"
  /\ Disrupt
  /\ Down(p)

Restart(p) ==
  /\ loop[p].pc = "down"
  /\ loop' = [loop EXCEPT ![p] = Started]
  /\ UNCHANGED <<table, running, claimAge, run, exec, disruptions, lastStart>>

-----------------------------------------------------------------------------
(* Time. *)

\* How long an execution can stay where it is: asyncio.timeout bounds an
\* attempt, asyncio.sleep a backoff, TxDelay everything else.
Stay(e) ==
  CASE exec[e].pc = "attempt" -> JobTimeout
    [] exec[e].pc = "backoff" -> Backoff[exec[e].attempt]
    [] OTHER -> TxDelay

Older(age) == IF age < AgeCap THEN age + 1 ELSE age

Tick ==
  /\ \A e \in Execs : Live(e) => exec[e].t < Stay(e)
  /\ \A p \in Servers :
       /\ loop[p].pc = "waiting" => loop[p].t < TickSeconds + TxDelay
       /\ loop[p].pc = "busy" => BatchOf(p) # {}
  /\ exec' = [e \in Execs |-> IF Live(e) THEN [exec[e] EXCEPT !.t = @ + 1] ELSE exec[e]]
  /\ run' = [e \in Execs |-> IF Live(e) \/ run[e].status = "running"
                             THEN [run[e] EXCEPT !.age = Older(@)] ELSE run[e]]
  /\ loop' = [p \in Servers |-> IF loop[p].pc = "waiting"
                                THEN [loop[p] EXCEPT !.t = @ + 1] ELSE loop[p]]
  /\ claimAge' = [s \in Schedules |-> IF running[s] THEN Older(claimAge[s]) ELSE 0]
  /\ dueIn' = [s \in Schedules |-> IF row[s] = "present" /\ dueIn[s] > -OverdueCap
                                   THEN dueIn[s] - 1 ELSE dueIn[s]]
  /\ lastStart' = [s \in Schedules |-> Older(lastStart[s])]
  /\ UNCHANGED <<row, enabled, running, disruptions>>

-----------------------------------------------------------------------------
Operate ==
  \E s \in Schedules :
    \/ DeleteSchedule(s)
    \/ \E lag \in 0 .. TxDelay :
         \/ CreateSchedule(s, lag)
         \/ \E value \in BOOLEAN : SetEnabled(s, value, lag)
         \/ \E p \in Servers : RunNow(p, s, lag)

Execute(e) ==
  \/ InsertRun(e) \/ AttemptSucceeds(e) \/ AttemptFails(e)
  \/ BackoffEnds(e) \/ CancelUnwinds(e) \/ Finish(e)

Fault ==
  \/ \E e \in Execs : InsertRaises(e) \/ FinishRaises(e) \/ CancelRunNow(e)
  \/ \E p \in Servers : ClaimRaises(p) \/ Crash(p) \/ Shutdown(p)

Claim(p) == \E lag \in 0 .. TxDelay : ClaimDue(p, lag)

Serve(p) == Claim(p) \/ BatchDone(p) \/ Exit(p) \/ Restart(p)

Next ==
  \/ Operate
  \/ Fault
  \/ \E e \in Execs : Execute(e)
  \/ \E p \in Servers : Serve(p)
  \/ Tick

Spec == Init /\ [][Next]_vars

\* The event loop runs what is ready, a stopped process is started again and
\* time passes.  Nothing is assumed of operators and faults.
Fairness ==
  /\ SF_vars(Tick)
  /\ \A e \in Execs : WF_vars(Execute(e))
  /\ \A p \in Servers : WF_vars(Claim(p)) /\ WF_vars(BatchDone(p) \/ Exit(p) \/ Restart(p))

FairSpec == Spec /\ Fairness

-----------------------------------------------------------------------------
(* Properties. *)

\* One schedule never has two executions alive at once, whatever combination
\* of manual runs, recoveries, restarts and late finishers led there.
NoOverlap ==
  \A d, e \in Execs : Live(d) /\ Live(e) /\ ScheduleOf[d] = ScheduleOf[e] => d = e

\* A live execution keeps the claim its release assumes, so delete_schedule
\* never removes a schedule whose job is executing.
LiveHoldsClaim ==
  \A e \in Execs : Live(e) => row[ScheduleOf[e]] = "present" /\ running[ScheduleOf[e]]

\* job_runs never reports a run as interrupted while its handler still works,
\* so no recorded outcome is overwritten later.
LiveRunNotClosed ==
  \A e \in Execs : Live(e) => run[e].status \notin Terminal

\* How old an execution can be where it is: it started at most TxDelay before
\* its claim was written, and each step since took at most Stay.
MayBeAged(e, age) ==
  LET x == exec[e]  limit == AttemptLimit(ScheduleOf[e])
  IN  /\ x.pc = "insert" => age <= TxDelay + x.t
      /\ x.pc = "attempt" => x.attempt \in 1 .. limit /\ age <= StartBy[x.attempt] + x.t
      /\ x.pc = "backoff" => /\ x.attempt \in 1 .. (limit - 1)
                             /\ age <= StartBy[x.attempt] + JobTimeout + x.t
      /\ x.pc = "cancelling" => \E n \in Attempts : age <= StartBy[n] + JobTimeout + x.t
      /\ x.pc = "finish" => \E n \in Attempts : age <= StartBy[n] + JobTimeout + TxDelay + x.t

\* The timestamps of its run and of its claim are both within that.
AgeBounded(e) ==
  /\ exec[e].t <= Stay(e)
  /\ MayBeAged(e, run[e].age)
  /\ MayBeAged(e, claimAge[ScheduleOf[e]])

HoldsClaim(e) == row[ScheduleOf[e]] = "present" /\ running[ScheduleOf[e]]

RunOpen(e) == run[e].status = IF exec[e].pc = "insert" THEN "none" ELSE "running"

\* The inductive invariant behind the three above: a live execution is alone, its run
\* is open and it holds the claim, and neither the run's timestamp nor the claim's,
\* which set_schedule_enabled can make the older of the two, is older than the
\* execution can be where it is, which is less than the lease.
LeaseInv ==
  /\ NoOverlap
  /\ \A e \in Execs : Live(e) => AgeBounded(e) /\ HoldsClaim(e) /\ RunOpen(e)

\* Two starts of a schedule by the loop are an interval apart, at most TxDelay less
\* when a manual run whose timestamp was read before the first start has moved
\* next_run_at.  Or the first one died and they are a lease apart: less the same
\* for a set_schedule_enabled that read its timestamp before the first start, and
\* again for a second loop that read its own before another released the claim.
SpacedStarts ==
  [][\A s \in Schedules : \A p \in Servers, lag \in 0 .. TxDelay :
       ClaimDue(p, lag) /\ s \in FirstDue(lag) /\ lastStart[s] < AgeCap =>
         \/ lastStart[s] - lag + TxDelay >= Interval[s]
         \/ lastStart[s] - lag + 2 * TxDelay >= StaleAfter]_vars

LiveExecs == {e \in Execs : Live(e)}
Statuses == [e \in Execs |-> run[e].status]
ClaimedSchedules == {s \in Schedules : running[s]}

Ledger == INSTANCE JobLedger
            WITH live <- LiveExecs, record <- Statuses, claimed <- ClaimedSchedules

\* The scheduler implements JobLedger: whatever the processes, their timeouts and
\* their crashes, the tables change as if each schedule had one execution that
\* alone closes its record and gives up its claim, until it is dead.
KeepsLedger == Ledger!Spec

\* A claim whose execution is gone is released in the end.
Orphaned(s) == running[s] /\ \A e \in Execs : ScheduleOf[e] = s => ~Live(e)

OrphansReleased == \A s \in Schedules : Orphaned(s) ~> ~Orphaned(s)

\* A schedule left enabled is run again and again, however the others fare.
EnabledKeepsRunning ==
  \A s \in Schedules :
    <>[](row[s] = "present" /\ enabled[s]) =>
      []<>(\E e \in Execs : ScheduleOf[e] = s /\ exec[e].pc = "attempt")

\* A graceful shutdown waits for the jobs it cancelled to record their outcome.
ShutdownDrains ==
  [][\A p \in Servers : Exit(p) => BatchOf(p) = {}]_vars

=============================================================================
