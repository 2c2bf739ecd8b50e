--------------------------- MODULE SchedulerProofs ---------------------------
(***************************************************************************)
(* Proofs about Scheduler for every value of its constants: any number of  *)
(* processes, schedules and coexisting executions, any timing.             *)
(***************************************************************************)
EXTENDS Scheduler, WellFoundedInduction, TLAPS

USE TimingAssumption, PopulationAssumption

\* What operators do to the rows of schedules, but for a manual run.
Edit ==
  \E s \in Schedules :
    \/ DeleteSchedule(s)
    \/ \E lag \in 0 .. TxDelay :
         \/ CreateSchedule(s, lag)
         \/ \E value \in BOOLEAN : SetEnabled(s, value, lag)

-----------------------------------------------------------------------------
(* The records the actions build have their types. *)

LEMMA ExecTypes ==
  /\ Idle \in Exec
  /\ \A p \in Servers, b \in BOOLEAN : Claimed(p, b) \in Exec
  /\ \A x \in Exec : /\ x.attempt \in Nat /\ x.t \in Nat /\ x.by \in Servers \cup {NoServer}
                     /\ x.batch \in BOOLEAN /\ x.outcome \in Terminal \cup {"none"}
                     /\ [x EXCEPT !.t = @ + 1] \in Exec
  BY DEF Idle, Claimed, Exec, Terminal

LEMMA MoveType ==
  ASSUME NEW x \in Exec,
         NEW pc \in {"attempt", "backoff", "cancelling", "finish"},
         NEW n \in Nat, NEW o \in Terminal \cup {"none"}
  PROVE  Move(x, pc, n, o) \in Exec
  BY DEF Move, Exec

LEMMA RunTypes ==
  /\ \A status \in Terminal \cup {"none", "running"}, age \in 0 .. AgeCap :
       [status |-> status, age |-> age] \in RunRow
  /\ \A r \in RunRow : /\ Settled(r) \in RunRow
                       /\ r.status \in Terminal \cup {"none", "running"}
                       /\ r.age \in 0 .. AgeCap
                       /\ [r EXCEPT !.age = Older(@)] \in RunRow
  BY DEF RunRow, Settled, Terminal, Older

LEMMA LoopTypes ==
  /\ \A pc \in {"down", "none", "waiting", "busy", "dead", "stopping", "stopped"}, t \in Nat :
       [pc |-> pc, t |-> t] \in Loop
  /\ Started \in Loop
  /\ \A l \in Loop : [l EXCEPT !.t = @ + 1] \in Loop
  BY DEF Loop, Started


\* An action whose records are typed keeps TypeOK.
LEMMA RaiseTypes ==
  ASSUME TypeOK, NEW e \in Execs, Raise(e)
  PROVE  /\ exec' \in [Execs -> Exec] /\ run' \in [Execs -> RunRow]
         /\ loop' \in [Servers -> Loop]
<1> USE DEF TypeOK, Raise
<1>1. exec[e] \in Exec /\ run[e] \in RunRow
  OBVIOUS
<1>2. exec' \in [Execs -> Exec]
  BY ExecTypes
<1>3. run' \in [Execs -> RunRow]
  BY <1>1, RunTypes
<1>4. loop' \in [Servers -> Loop]
  BY LoopTypes
<1> QED BY <1>2, <1>3, <1>4

LEMMA MoveTypes ==
  ASSUME TypeOK, NEW e \in Execs,
         NEW pc \in {"attempt", "backoff", "cancelling", "finish"},
         NEW n \in Nat, NEW o \in Terminal \cup {"none"},
         exec' = [exec EXCEPT ![e] = Move(@, pc, n, o)]
  PROVE  exec' \in [Execs -> Exec]
<1>1. Move(exec[e], pc, n, o) \in Exec
  BY MoveType DEF TypeOK
<1> QED BY <1>1 DEF TypeOK

LEMMA CancelledType == ASSUME TypeOK, NEW e \in Execs PROVE Cancelled(e) \in Exec
<1>1. exec[e] \in Exec /\ exec[e].attempt \in Nat
  BY ExecTypes DEF TypeOK
<1>2. Move(exec[e], "cancelling", exec[e].attempt, "none") \in Exec
  BY <1>1, MoveType
<1> QED BY <1>1, <1>2, ExecTypes DEF Cancelled

LEMMA TypeStep == TypeOK /\ [Next]_vars => TypeOK'
<1> SUFFICES ASSUME TypeOK, [Next]_vars PROVE TypeOK'
  OBVIOUS
<1> USE DEF TypeOK, table
<1>a. \A e \in Execs : /\ exec[e] \in Exec /\ exec[e].attempt \in Nat
                       /\ exec[e].outcome \in Terminal \cup {"none"}
                       /\ run[e] \in RunRow /\ run[e].age \in 0 .. AgeCap
  BY ExecTypes, RunTypes
<1>b. \A e \in Execs : /\ ScheduleOf[e] \in Schedules
                       /\ Interval[ScheduleOf[e]] - run[e].age \in Int
  <2> SUFFICES ASSUME NEW e \in Execs
               PROVE  /\ ScheduleOf[e] \in Schedules
                      /\ Interval[ScheduleOf[e]] - run[e].age \in Int
    OBVIOUS
  <2>1. ScheduleOf[e] \in Schedules
    BY PopulationAssumption DEF PopulationAssumption
  <2>2. Interval[ScheduleOf[e]] \in Nat
    BY <2>1
  <2>3. run[e].age \in Int
    BY <1>a
  <2> HIDE DEF TypeOK
  <2> QED BY <2>1, <2>2, <2>3
<1>1. ASSUME NEW s \in Schedules, NEW lag \in 0 .. TxDelay, CreateSchedule(s, lag) PROVE TypeOK'
  BY <1>1 DEF CreateSchedule
<1>2. ASSUME NEW s \in Schedules, NEW value \in BOOLEAN, NEW lag \in 0 .. TxDelay,
             SetEnabled(s, value, lag)
      PROVE  TypeOK'
  BY <1>2 DEF SetEnabled, Disrupt
<1>3. ASSUME NEW s \in Schedules, DeleteSchedule(s) PROVE TypeOK'
  BY <1>3 DEF DeleteSchedule, Disrupt
<1>4. ASSUME NEW p \in Servers, NEW s \in Schedules, NEW lag \in 0 .. TxDelay,
             RunNow(p, s, lag)
      PROVE  TypeOK'
  <2> USE <1>4 DEF RunNow
  <2>1. exec' \in [Execs -> Exec]
    BY ExecTypes
  <2>2. run' \in [Execs -> RunRow]
    <3>1. [status |-> "none", age |-> lag] \in RunRow
      BY DEF RunRow
    <3> QED BY <3>1
  <2>3. claimAge' \in [Schedules -> 0 .. AgeCap] /\ running' \in [Schedules -> BOOLEAN]
    OBVIOUS
  <2> QED BY <2>1, <2>2, <2>3
<1>5. ASSUME NEW e \in Execs, InsertRun(e) PROVE TypeOK'
  <2> USE <1>5 DEF InsertRun
  <2>1. exec' \in [Execs -> Exec]
    BY MoveTypes DEF Terminal
  <2>2. run' \in [Execs -> RunRow]
    BY <1>a, RunTypes
  <2> QED BY <2>1, <2>2
<1>6. ASSUME NEW e \in Execs, InsertRaises(e) PROVE TypeOK'
  <2>1. Raise(e)
    BY <1>6 DEF InsertRaises
  <2> QED BY <1>6, <2>1, RaiseTypes DEF InsertRaises, Disrupt
<1>7. ASSUME NEW e \in Execs, AttemptSucceeds(e) PROVE TypeOK'
  <2>1. exec' \in [Execs -> Exec]
    BY <1>7, <1>a, MoveTypes DEF AttemptSucceeds, ToFinish, Terminal
  <2> QED BY <1>7, <2>1 DEF AttemptSucceeds
<1>8. ASSUME NEW e \in Execs, AttemptFails(e) PROVE TypeOK'
  <2>1. exec' \in [Execs -> Exec]
    <3>1. CASE exec[e].attempt >= AttemptLimit(ScheduleOf[e])
      BY <1>8, <1>a, <3>1, MoveTypes DEF AttemptFails, ToFinish, Terminal
    <3>2. CASE ~(exec[e].attempt >= AttemptLimit(ScheduleOf[e]))
      BY <1>8, <1>a, <3>2, MoveTypes DEF AttemptFails
    <3> QED BY <3>1, <3>2
  <2> QED BY <1>8, <2>1 DEF AttemptFails
<1>9. ASSUME NEW e \in Execs, BackoffEnds(e) PROVE TypeOK'
  <2>1. exec' \in [Execs -> Exec]
    <3>1. exec[e].attempt + 1 \in Nat
      BY <1>a
    <3> QED BY <1>9, <3>1, MoveTypes DEF BackoffEnds
  <2> QED BY <1>9, <2>1 DEF BackoffEnds
<1>10. ASSUME NEW e \in Execs, CancelUnwinds(e) PROVE TypeOK'
  <2>1. exec' \in [Execs -> Exec]
    BY <1>10, <1>a, MoveTypes DEF CancelUnwinds, ToFinish, Terminal
  <2> QED BY <1>10, <2>1 DEF CancelUnwinds
<1>11. ASSUME NEW e \in Execs, Finish(e) PROVE TypeOK'
  <2> USE <1>11 DEF Finish
  <2>1. exec' \in [Execs -> Exec]
    BY ExecTypes
  <2>2. run' \in [Execs -> RunRow]
    <3>1. [status |-> exec[e].outcome, age |-> 0] \in RunRow
      BY <1>a DEF RunRow
    <3> QED BY <3>1
  <2>3. loop' \in [Servers -> Loop]
    BY LoopTypes
  <2>4. /\ running' \in [Schedules -> BOOLEAN]
        /\ claimAge' \in [Schedules -> 0 .. AgeCap]
    <3>1. running' = running \/ running' = [running EXCEPT ![ScheduleOf[e]] = FALSE]
      OBVIOUS
    <3>2. claimAge' = claimAge \/ claimAge' = [claimAge EXCEPT ![ScheduleOf[e]] = 0]
      OBVIOUS
    <3> HIDE <1>11 DEF Finish
    <3>3. running' \in [Schedules -> BOOLEAN]
      BY <3>1
    <3>4. claimAge' \in [Schedules -> 0 .. AgeCap]
      BY <3>2
    <3> QED BY <3>3, <3>4
  <2>5. dueIn' \in [Schedules -> Int]
    <3>1. \E d \in Int : dueIn' = dueIn \/ dueIn' = [dueIn EXCEPT ![ScheduleOf[e]] = d]
      <4>1. Interval[ScheduleOf[e]] - run[e].age \in Int /\ -OverdueCap \in Int
        BY <1>b
      <4>2. CASE Interval[ScheduleOf[e]] - run[e].age < -OverdueCap
        BY <4>1, <4>2
      <4>3. CASE ~(Interval[ScheduleOf[e]] - run[e].age < -OverdueCap)
        BY <4>1, <4>3
      <4> QED BY <4>2, <4>3
    <3> HIDE <1>11 DEF Finish
    <3> QED BY <3>1
  <2> QED BY <2>1, <2>2, <2>3, <2>4, <2>5
<1>12. ASSUME NEW e \in Execs, FinishRaises(e) PROVE TypeOK'
  <2>1. Raise(e)
    BY <1>12 DEF FinishRaises
  <2> QED BY <1>12, <2>1, RaiseTypes DEF FinishRaises, Disrupt
<1>13. ASSUME NEW e \in Execs, CancelRunNow(e) PROVE TypeOK'
  <2> USE <1>13 DEF CancelRunNow
  <2>1. exec' \in [Execs -> Exec]
    BY CancelledType
  <2>2. run' \in [Execs -> RunRow]
    BY <1>a, RunTypes
  <2> QED BY <2>1, <2>2 DEF Disrupt
<1>14. ASSUME NEW p \in Servers, ClaimRaises(p) PROVE TypeOK'
  BY <1>14, LoopTypes DEF ClaimRaises, Disrupt
<1>15. ASSUME NEW p \in Servers, Crash(p) \/ Exit(p) PROVE TypeOK'
  <2>1. Down(p)
    BY <1>15 DEF Crash, Exit
  <2>2. exec' \in [Execs -> Exec]
    BY <2>1, <1>a, ExecTypes DEF Down
  <2>3. run' \in [Execs -> RunRow]
    BY <2>1, <1>a, RunTypes DEF Down
  <2>4. loop' \in [Servers -> Loop]
    BY <2>1, LoopTypes DEF Down
  <2> QED BY <1>15, <2>1, <2>2, <2>3, <2>4 DEF Crash, Exit, Down, Disrupt
<1>16. ASSUME NEW p \in Servers, Shutdown(p) PROVE TypeOK'
  <2> USE <1>16 DEF Shutdown
  <2>1. exec' \in [Execs -> Exec]
    BY <1>a, CancelledType
  <2>2. run' \in [Execs -> RunRow]
    BY <1>a, RunTypes
  <2>3. loop' \in [Servers -> Loop]
    BY LoopTypes
  <2> QED BY <2>1, <2>2, <2>3 DEF Disrupt
<1>17. ASSUME NEW p \in Servers, NEW lag \in 0 .. TxDelay, ClaimDue(p, lag)
       PROVE  TypeOK'
  <2> USE <1>17 DEF ClaimDue
  <2>1. exec' \in [Execs -> Exec]
    BY <1>a, ExecTypes
  <2>2. run' \in [Execs -> RunRow]
    <3>1. [status |-> "none", age |-> lag] \in RunRow
      BY DEF RunRow
    <3>2. \A e \in Execs : [status |-> "interrupted",
                            age |-> IF Live(e) THEN run[e].age ELSE 0] \in RunRow
      BY <1>a, RunTypes DEF Terminal
    <3> QED BY <1>a, <3>1, <3>2
  <2>3. loop' \in [Servers -> Loop]
    BY LoopTypes
  <2>4. /\ running' \in [Schedules -> BOOLEAN]
        /\ claimAge' \in [Schedules -> 0 .. AgeCap]
        /\ lastStart' \in [Schedules -> 0 .. AgeCap]
    OBVIOUS
  <2> QED BY <2>1, <2>2, <2>3, <2>4
<1>18. ASSUME NEW p \in Servers, BatchDone(p) \/ Restart(p) PROVE TypeOK'
  BY <1>18, LoopTypes DEF BatchDone, Restart
<1>19. ASSUME Tick PROVE TypeOK'
  <2> USE <1>19 DEF Tick
  <2>1. exec' \in [Execs -> Exec]
    BY <1>a, ExecTypes
  <2>2. run' \in [Execs -> RunRow]
    BY <1>a, RunTypes
  <2>3. loop' \in [Servers -> Loop]
    BY LoopTypes
  <2>4. /\ claimAge' \in [Schedules -> 0 .. AgeCap]
        /\ lastStart' \in [Schedules -> 0 .. AgeCap]
    BY DEF Older
  <2>5. dueIn' \in [Schedules -> Int]
    OBVIOUS
  <2> QED BY <2>1, <2>2, <2>3, <2>4, <2>5
<1>20. CASE UNCHANGED vars
  BY <1>20 DEF vars
<1> QED
  BY <1>1, <1>2, <1>3, <1>4, <1>5, <1>6, <1>7, <1>8, <1>9, <1>10, <1>11, <1>12,
     <1>13, <1>14, <1>15, <1>16, <1>17, <1>18, <1>19, <1>20
     DEF Next, Operate, Execute, Fault, Serve, Claim

\* Every variable keeps its type: in particular ages stay within AgeCap.
THEOREM TypeCorrect == Spec => []TypeOK
<1>1. Init => TypeOK
  <2>1. [status |-> "none", age |-> 0] \in RunRow
    BY DEF RunRow
  <2> QED BY <2>1, ExecTypes, LoopTypes DEF Init, TypeOK
<1> QED BY <1>1, TypeStep, PTL DEF Spec

-----------------------------------------------------------------------------
(* Mutual exclusion of the executions of a schedule, when the lease outlives
   the longest execution. *)

Good(e) == Live(e) => HoldsClaim(e) /\ RunOpen(e)

LEMMA StartByFacts ==
  /\ 1 \in Attempts /\ StartBy[1] = 2 * TxDelay
  /\ \A n \in Attempts : /\ n \in Nat /\ StartBy[n] \in Nat /\ Backoff[n] \in Nat
  /\ \A n \in Attempts : n + 1 \in Attempts =>
       StartBy[n + 1] = StartBy[n] + JobTimeout + Backoff[n]
<1>1. 1 \in Attempts
  BY DEF Attempts
<1>2. \A n \in Attempts : n \in Nat
  BY DEF Attempts
<1> QED BY <1>1, <1>2, StartByAssumption

LEMMA LimitFacts ==
  ASSUME NEW s \in Schedules
  PROVE  /\ AttemptLimit(s) \in Nat /\ AttemptLimit(s) >= 1 /\ AttemptLimit(s) <= MaxAttempts
         /\ \A n \in 1 .. AttemptLimit(s) : n \in Attempts
         /\ \A n \in 1 .. (AttemptLimit(s) - 1) : n \in Attempts /\ n + 1 \in Attempts
  BY DEF AttemptLimit, Attempts

LEMMA FieldTypes ==
  ASSUME TypeOK, NEW e \in Execs
  PROVE  /\ exec[e].t \in Nat /\ exec[e].attempt \in Nat /\ run[e].age \in Nat
         /\ exec[e].pc \in {"idle", "insert", "attempt", "backoff", "cancelling", "finish"}
         /\ claimAge[ScheduleOf[e]] \in Nat /\ ScheduleOf[e] \in Schedules
<1>1. exec[e] \in Exec /\ run[e] \in RunRow
  BY DEF TypeOK
<1>2. exec[e].t \in Nat /\ exec[e].attempt \in Nat
  BY <1>1 DEF Exec
<1>3. exec[e].pc \in {"idle", "insert", "attempt", "backoff", "cancelling", "finish"}
  BY <1>1 DEF Exec
<1>4. run[e].age \in Nat
  BY <1>1 DEF RunRow
<1>5. ScheduleOf[e] \in Schedules
  BY PopulationAssumption DEF PopulationAssumption
<1>6. claimAge[ScheduleOf[e]] \in Nat
  <2>1. claimAge \in [Schedules -> 0 .. AgeCap]
    BY DEF TypeOK
  <2>2. claimAge[ScheduleOf[e]] \in 0 .. AgeCap
    BY <1>5, <2>1
  <2> QED BY <2>2
<1> QED BY <1>2, <1>3, <1>4, <1>5, <1>6

LEMMA SlotIsFree ==
  ASSUME NEW s \in Schedules, NEW I, FreeSlots(s, I) # {}
  PROVE  /\ SlotFor(s, I) \in Execs /\ ScheduleOf[SlotFor(s, I)] = s
         /\ ~Live(SlotFor(s, I))
<1>1. SlotFor(s, I) \in FreeSlots(s, I)
  BY DEF SlotFor
<1> QED BY <1>1 DEF FreeSlots

-----------------------------------------------------------------------------
(* How long executions take, whatever becomes of their claims. *)

\* The inductive invariant, which needs no assumption on the lease.
Timely == \A e \in Execs : Live(e) => AgeBounded(e)

\* The attempts start one after the other, the first when the run is recorded.
LEMMA StartByGrows == \A n \in Attempts : StartBy[n] >= 2 * TxDelay
<1> DEFINE Early == {n \in Attempts : ~(StartBy[n] >= 2 * TxDelay)}
<1> SUFFICES ASSUME Early # {} PROVE FALSE
  OBVIOUS
<1>1. Early \subseteq Nat
  BY StartByFacts
<1>b. PICK Below : Below = {ab \in Nat \X Nat : ab[1] < ab[2]} /\ IsWellFoundedOn(Below, Nat)
  BY NatLessThanWellFounded, Zenon DEF OpToRel
<1>2. PICK n \in Early : \A m \in Early : ~(<<m, n>> \in Below)
  <2> HIDE DEF Early
  <2> QED BY <1>1, <1>b, WFMin, Zenon
<1>3. n \in Attempts /\ n \in Nat /\ ~(StartBy[n] >= 2 * TxDelay)
  BY <1>1
<1>4. n # 1
  BY <1>3, StartByFacts
<1>5. n - 1 \in Attempts /\ (n - 1) + 1 = n
  BY <1>3, <1>4 DEF Attempts
<1>6. <<n - 1, n>> \in Below
  BY <1>b, <1>3, <1>5, StartByFacts
<1>7. StartBy[n - 1] >= 2 * TxDelay
  BY <1>2, <1>5, <1>6
<1>8. StartBy[n] = StartBy[n - 1] + JobTimeout + Backoff[n - 1]
  BY <1>3, <1>5, StartByFacts
<1> QED BY <1>3, <1>5, <1>7, <1>8, StartByFacts

\* The attempt a live execution is at exists.
LEMMA AttemptInRange ==
  ASSUME TypeOK, NEW e \in Execs, NEW age, MayBeAged(e, age)
  PROVE  /\ exec[e].pc = "attempt" => exec[e].attempt \in Attempts
         /\ exec[e].pc = "backoff" => exec[e].attempt \in Attempts /\ exec[e].attempt + 1 \in Attempts
  BY FieldTypes, LimitFacts DEF MayBeAged

\* What was written now, with a timestamp read while waiting for the store, is
\* young enough wherever the execution is.
LEMMA FreshMayBe ==
  ASSUME TypeOK, NEW e \in Execs, NEW age, MayBeAged(e, age), NEW lag \in 0 .. TxDelay
  PROVE  MayBeAged(e, lag)
<1>1. exec[e].t \in Nat /\ lag \in Nat /\ lag <= TxDelay
  BY FieldTypes
<1>2. exec[e].pc = "attempt" => lag <= StartBy[exec[e].attempt] + exec[e].t
  <2> SUFFICES ASSUME exec[e].pc = "attempt"
               PROVE  lag <= StartBy[exec[e].attempt] + exec[e].t
    OBVIOUS
  <2>1. StartBy[exec[e].attempt] \in Nat /\ StartBy[exec[e].attempt] >= 2 * TxDelay
    BY AttemptInRange, StartByFacts, StartByGrows
  <2> QED BY <1>1, <2>1
<1>3. exec[e].pc = "backoff" => lag <= StartBy[exec[e].attempt] + JobTimeout + exec[e].t
  <2> SUFFICES ASSUME exec[e].pc = "backoff"
               PROVE  lag <= StartBy[exec[e].attempt] + JobTimeout + exec[e].t
    OBVIOUS
  <2>1. StartBy[exec[e].attempt] \in Nat /\ StartBy[exec[e].attempt] >= 2 * TxDelay
    BY AttemptInRange, StartByFacts, StartByGrows
  <2> QED BY <1>1, <2>1
<1>4. /\ lag <= StartBy[1] + JobTimeout + exec[e].t
      /\ lag <= StartBy[1] + JobTimeout + TxDelay + exec[e].t
      /\ lag <= TxDelay + exec[e].t
  BY <1>1, StartByFacts
<1> QED BY <1>2, <1>3, <1>4, StartByFacts DEF MayBeAged

\* The steps of an execution from one await to another.
Moved(e) ==
  LET x == exec[e]  y == exec'[e]  limit == AttemptLimit(ScheduleOf[e])
  IN  /\ y.t = 0
      /\ \/ x.pc = "insert" /\ y.pc = "attempt" /\ y.attempt = 1
         \/ x.pc \in {"insert", "attempt", "cancelling"} /\ y.pc = "finish"
         \/ x.pc = "attempt" /\ y.pc = "backoff" /\ y.attempt = x.attempt /\ ~(x.attempt >= limit)
         \/ x.pc = "backoff" /\ y.pc = "attempt" /\ y.attempt = x.attempt + 1
         \/ x.pc \in {"attempt", "backoff"} /\ y.pc = "cancelling"

\* An execution that moves on in time may be as old at its next await as it was.
LEMMA MovedMayBe ==
  ASSUME TypeOK, NEW e \in Execs, exec[e].t <= Stay(e), NEW age \in Nat, MayBeAged(e, age),
         Moved(e)
  PROVE  exec'[e].t <= Stay(e)' /\ MayBeAged(e, age)'
<1> DEFINE n == exec[e].attempt
           limit == AttemptLimit(ScheduleOf[e])
<1>1. /\ exec[e].t \in Nat /\ n \in Nat /\ exec'[e].t = 0
      /\ limit \in Nat /\ limit >= 1 /\ limit <= MaxAttempts
  BY FieldTypes, LimitFacts DEF Moved
<1>2. CASE exec[e].pc = "insert"
  <2>1. age <= TxDelay + exec[e].t /\ exec[e].t <= TxDelay
    BY <1>2 DEF MayBeAged, Stay
  <2>2. age <= StartBy[1] + 0 /\ age <= StartBy[1] + JobTimeout + TxDelay + 0 /\ 1 \in 1 .. limit
    BY <1>1, <2>1, StartByFacts
  <2>3. CASE exec'[e].pc = "attempt" /\ exec'[e].attempt = 1
    BY <1>1, <2>2, <2>3 DEF MayBeAged, Stay
  <2>4. CASE exec'[e].pc = "finish"
    BY <1>1, <2>2, <2>4, StartByFacts DEF MayBeAged, Stay
  <2> QED BY <1>2, <2>3, <2>4 DEF Moved
<1>3. CASE exec[e].pc = "attempt"
  <2>1. /\ n \in 1 .. limit /\ n \in Attempts /\ StartBy[n] \in Nat /\ Backoff[n] \in Nat
        /\ age <= StartBy[n] + exec[e].t /\ exec[e].t <= JobTimeout
    BY <1>3, AttemptInRange, StartByFacts DEF MayBeAged, Stay
  <2>2. age <= StartBy[n] + JobTimeout + 0 /\ age <= StartBy[n] + JobTimeout + TxDelay + 0
    BY <1>1, <2>1
  <2>3. CASE exec'[e].pc = "finish" \/ exec'[e].pc = "cancelling"
    BY <1>1, <2>1, <2>2, <2>3 DEF MayBeAged, Stay
  <2>4. CASE exec'[e].pc = "backoff" /\ exec'[e].attempt = n /\ ~(n >= limit)
    <3>1. n \in 1 .. (limit - 1)
      BY <1>1, <2>1, <2>4
    <3> QED BY <1>1, <2>1, <2>2, <2>4, <3>1 DEF MayBeAged, Stay
  <2> QED BY <1>3, <2>3, <2>4 DEF Moved
<1>4. CASE exec[e].pc = "backoff"
  <2>1. /\ n \in 1 .. (limit - 1) /\ exec[e].t <= Backoff[n]
        /\ age <= StartBy[n] + JobTimeout + exec[e].t
    BY <1>4 DEF MayBeAged, Stay
  <2>2. n \in Attempts /\ n + 1 \in Attempts
    BY <1>4, AttemptInRange
  <2>3. /\ StartBy[n + 1] = StartBy[n] + JobTimeout + Backoff[n]
        /\ StartBy[n] \in Nat /\ Backoff[n] \in Nat /\ StartBy[n + 1] \in Nat
    BY <2>2, StartByFacts
  <2>4. /\ n + 1 \in 1 .. limit /\ age <= StartBy[n + 1] + 0
        /\ age <= StartBy[n + 1] + JobTimeout + 0
    <3> HIDE DEF n, limit
    <3> QED BY <1>1, <2>1, <2>3
  <2>5. CASE exec'[e].pc = "attempt" /\ exec'[e].attempt = n + 1
    BY <1>1, <2>4, <2>5 DEF MayBeAged, Stay
  <2>6. CASE exec'[e].pc = "cancelling"
    BY <1>1, <2>2, <2>4, <2>6 DEF MayBeAged, Stay
  <2> QED BY <1>4, <2>5, <2>6 DEF Moved
<1>5. CASE exec[e].pc = "cancelling"
  <2>1. PICK m \in Attempts : age <= StartBy[m] + JobTimeout + exec[e].t
    BY <1>5 DEF MayBeAged
  <2>2. exec[e].t <= TxDelay /\ exec'[e].pc = "finish"
    BY <1>5 DEF Stay, Moved
  <2>3. age <= StartBy[m] + JobTimeout + TxDelay + 0
    BY <1>1, <2>1, <2>2, StartByFacts
  <2> QED BY <1>1, <2>2, <2>3 DEF MayBeAged, Stay
<1> QED BY <1>2, <1>3, <1>4, <1>5 DEF Moved

\* Time passes only while no execution overstays.
LEMMA TickMayBe ==
  ASSUME TypeOK, Tick, NEW e \in Execs, Live(e), NEW age \in Nat, MayBeAged(e, age),
         NEW older \in Nat, older <= age + 1
  PROVE  exec'[e].t <= Stay(e)' /\ MayBeAged(e, older)'
<1>1. exec[e] \in Exec /\ exec[e].t \in Nat /\ exec[e].attempt \in Nat
  BY FieldTypes DEF TypeOK
<1>2. /\ exec[e].t < Stay(e) /\ exec'[e].pc = exec[e].pc /\ exec'[e].attempt = exec[e].attempt
      /\ exec'[e].t = exec[e].t + 1
  BY <1>1 DEF Tick, Exec
<1>3. Stay(e)' = Stay(e) /\ Stay(e) \in Nat
  <2>1. Stay(e)' = Stay(e)
    BY <1>2 DEF Stay
  <2>2. CASE exec[e].pc = "backoff"
    BY <2>1, <2>2, AttemptInRange, StartByFacts DEF Stay
  <2>3. CASE exec[e].pc # "backoff"
    BY <2>1, <2>3 DEF Stay
  <2> QED BY <2>2, <2>3
<1>4. \A b \in Nat : age <= b + exec[e].t => older <= b + exec'[e].t
  BY <1>1, <1>2
<1>5. exec[e].pc = "insert" => older <= TxDelay + exec'[e].t
  BY <1>4 DEF MayBeAged
<1>6. exec[e].pc = "attempt" => older <= StartBy[exec[e].attempt] + exec'[e].t
  BY <1>4, AttemptInRange, StartByFacts DEF MayBeAged
<1>7. exec[e].pc = "backoff" => older <= StartBy[exec[e].attempt] + JobTimeout + exec'[e].t
  <2> SUFFICES ASSUME exec[e].pc = "backoff"
               PROVE  older <= StartBy[exec[e].attempt] + JobTimeout + exec'[e].t
    OBVIOUS
  <2>1. age <= StartBy[exec[e].attempt] + JobTimeout + exec[e].t
    BY DEF MayBeAged
  <2>2. StartBy[exec[e].attempt] + JobTimeout \in Nat
    BY AttemptInRange, StartByFacts
  <2> QED BY <1>4, <2>1, <2>2
<1>8. exec[e].pc = "cancelling" =>
        \E n \in Attempts : older <= StartBy[n] + JobTimeout + exec'[e].t
  BY <1>4, StartByFacts DEF MayBeAged
<1>9. exec[e].pc = "finish" =>
        \E n \in Attempts : older <= StartBy[n] + JobTimeout + TxDelay + exec'[e].t
  BY <1>4, StartByFacts DEF MayBeAged
<1>10. MayBeAged(e, older)'
  BY <1>2, <1>5, <1>6, <1>7, <1>8, <1>9 DEF MayBeAged
<1> QED BY <1>1, <1>2, <1>3, <1>10

\* What is written to a claim's timestamp was read while waiting for the store.
LEMMA ClaimAges ==
  ASSUME TypeOK, [Next]_vars, NEW s \in Schedules
  PROVE  \/ claimAge'[s] = claimAge[s]
         \/ claimAge'[s] \in 0 .. TxDelay
         \/ Tick
<1> USE DEF table, TypeOK
<1>1. 0 \in 0 .. TxDelay
  OBVIOUS
<1>2. ASSUME NEW r \in Schedules, NEW lag \in 0 .. TxDelay,
             claimAge' = [claimAge EXCEPT ![r] = lag] \/ claimAge' = [claimAge EXCEPT ![r] = 0]
      PROVE  claimAge'[s] = claimAge[s] \/ claimAge'[s] \in 0 .. TxDelay
  BY <1>1, <1>2
<1>3. ASSUME NEW r \in Schedules, NEW value \in BOOLEAN, NEW lag \in 0 .. TxDelay,
             SetEnabled(r, value, lag) \/ \E p \in Servers : RunNow(p, r, lag)
      PROVE  claimAge'[s] = claimAge[s] \/ claimAge'[s] \in 0 .. TxDelay
  <2>1. claimAge' = [claimAge EXCEPT ![r] = lag] \/ claimAge' = [claimAge EXCEPT ![r] = 0]
    BY <1>3 DEF SetEnabled, RunNow
  <2> HIDE DEF TypeOK
  <2> QED BY <1>2, <2>1
<1>4. ASSUME NEW e \in Execs, Finish(e)
      PROVE  claimAge'[s] = claimAge[s] \/ claimAge'[s] \in 0 .. TxDelay
  <2>1. claimAge' = claimAge \/ claimAge' = [claimAge EXCEPT ![ScheduleOf[e]] = 0]
    BY <1>4 DEF Finish
  <2> HIDE DEF TypeOK
  <2> QED BY <1>1, <1>2, <2>1, FieldTypes
<1>5. ASSUME NEW p \in Servers, NEW lag \in 0 .. TxDelay, ClaimDue(p, lag)
      PROVE  claimAge'[s] = claimAge[s] \/ claimAge'[s] \in 0 .. TxDelay
  BY <1>1, <1>5 DEF ClaimDue
<1>6. CASE \/ \E r \in Schedules : DeleteSchedule(r) \/ \E lag \in 0 .. TxDelay : CreateSchedule(r, lag)
           \/ Fault
           \/ \E e \in Execs : \/ InsertRun(e) \/ AttemptSucceeds(e) \/ AttemptFails(e)
                               \/ BackoffEnds(e) \/ CancelUnwinds(e)
           \/ \E p \in Servers : BatchDone(p) \/ Exit(p) \/ Restart(p)
           \/ UNCHANGED vars
  <2>1. claimAge' = claimAge
    BY <1>6 DEF DeleteSchedule, CreateSchedule, Fault, InsertRaises, FinishRaises, CancelRunNow,
                ClaimRaises, Crash, Exit, Down, Shutdown, InsertRun, AttemptSucceeds, AttemptFails,
                BackoffEnds, CancelUnwinds, BatchDone, Restart, vars
  <2> QED BY <2>1
<1> QED BY <1>3, <1>4, <1>5, <1>6 DEF Next, Operate, Execute, Serve, Claim

\* How an execution comes to be alive after a step: it is claimed, it stays where it
\* is, it moves on, or time passes.
LEMMA LiveSteps ==
  ASSUME TypeOK, [Next]_vars, NEW e \in Execs, Live(e)'
  PROVE  \/ /\ exec'[e].pc = "insert" /\ exec'[e].t = 0
            /\ run'[e].age \in 0 .. TxDelay /\ claimAge'[ScheduleOf[e]] \in 0 .. TxDelay
         \/ /\ Live(e) /\ run'[e].age = run[e].age
            /\ exec'[e] = exec[e] \/ Moved(e)
         \/ Tick /\ Live(e)
<1> USE DEF table
<1> DEFINE Begun == /\ exec'[e].pc = "insert" /\ exec'[e].t = 0
                    /\ run'[e].age \in 0 .. TxDelay /\ claimAge'[ScheduleOf[e]] \in 0 .. TxDelay
           GoesOn == /\ Live(e) /\ run'[e].age = run[e].age
                     /\ exec'[e] = exec[e] \/ Moved(e)
<1> SUFFICES Begun \/ GoesOn \/ (Tick /\ Live(e))
  OBVIOUS
<1>a. ASSUME exec'[e] = exec[e], run'[e] = run[e] PROVE GoesOn
  BY <1>a DEF Live
\* A step of one execution: e is it, or another.
<1>b. ASSUME NEW d \in Execs, NEW x, exec' = [exec EXCEPT ![d] = x],
             \A c \in Execs : c # d => run'[c] = run[c]
      PROVE  (e = d /\ exec'[e] = x) \/ GoesOn
  <2>1. exec'[d] = x /\ \A c \in Execs : c # d => exec'[c] = exec[c]
    BY <1>b DEF TypeOK
  <2> QED BY <1>a, <1>b, <2>1
<1>c. ASSUME NEW d \in Execs, exec' = [exec EXCEPT ![d] = Idle],
             \A c \in Execs : c # d => run'[c] = run[c]
      PROVE  GoesOn
  <2>1. (e = d /\ exec'[e] = Idle) \/ GoesOn
    BY <1>b, <1>c
  <2>2. exec'[e] # Idle
    BY DEF Live, Idle
  <2> QED BY <2>1, <2>2
<1>d. ASSUME Live(e), exec'[e] = Cancelled(e), InStore(e) \/ run'[e] = run[e] PROVE GoesOn
  <2>1. exec[e].pc \in {"insert", "attempt", "backoff", "cancelling", "finish"}
    BY <1>d, FieldTypes DEF Live
  <2>2. CASE InStore(e)
    BY <1>d, <2>2 DEF Cancelled, InStore, Live, Idle
  <2>3. CASE exec[e].pc \in {"attempt", "backoff"}
    BY <1>d, <2>3 DEF Cancelled, InStore, Move, Moved
  <2>4. CASE exec[e].pc = "cancelling"
    BY <1>d, <2>4 DEF Cancelled, InStore
  <2> QED BY <2>1, <2>2, <2>3, <2>4 DEF InStore
<1>1. ASSUME NEW p \in Servers, NEW s \in Schedules, NEW lag \in 0 .. TxDelay, RunNow(p, s, lag)
      PROVE  Begun \/ GoesOn
  <2>1. PICK d \in Execs : /\ ScheduleOf[d] = s
                           /\ exec' = [exec EXCEPT ![d] = Claimed(p, FALSE)]
                           /\ run' = [run EXCEPT ![d] = [status |-> "none", age |-> lag]]
    BY <1>1, SlotIsFree DEF RunNow
  <2>2. \A c \in Execs : c # d => run'[c] = run[c]
    BY <2>1 DEF TypeOK
  <2>3. (e = d /\ exec'[e] = Claimed(p, FALSE)) \/ GoesOn
    BY <1>b, <2>1, <2>2
  <2>4. run'[d].age = lag /\ claimAge'[s] = lag
    BY <1>1, <2>1 DEF RunNow, TypeOK
  <2> QED BY <2>1, <2>3, <2>4 DEF Claimed
<1>2. ASSUME NEW p \in Servers, NEW lag \in 0 .. TxDelay, ClaimDue(p, lag)
      PROVE  Begun \/ GoesOn
  <2> DEFINE interrupted == StaleRuns(lag)
             started == {SlotFor(s, interrupted) : s \in FirstDue(lag)}
  <2>1. /\ exec'[e] = IF e \in started THEN Claimed(p, TRUE) ELSE exec[e]
        /\ run'[e].age = IF e \in started THEN lag
                         ELSE IF e \in interrupted /\ ~Live(e) THEN 0 ELSE run[e].age
        /\ \A s \in FirstDue(lag) : s \in Schedules /\ claimAge'[s] = lag
    BY <1>2 DEF ClaimDue, FirstDue, Due
  <2>2. CASE e \in started
    <3>1. PICK s \in FirstDue(lag) : e = SlotFor(s, interrupted)
      BY <2>2
    <3>2. ScheduleOf[e] = s
      BY <1>2, <2>1, <3>1, SlotIsFree DEF ClaimDue
    <3> QED BY <2>1, <2>2, <3>2 DEF Claimed
  <2>3. CASE e \notin started
    <3> HIDE DEF started, interrupted
    <3> QED BY <2>1, <2>3 DEF Live
  <2> QED BY <2>2, <2>3
<1>3. ASSUME NEW d \in Execs, InsertRun(d) PROVE GoesOn
  <2>1. PICK x : /\ exec' = [exec EXCEPT ![d] = x]
                 /\ \/ x = Move(exec[d], "attempt", 1, "none")
                    \/ x = Move(exec[d], "finish", 1, "failed")
    BY <1>3 DEF InsertRun
  <2>2. \A c \in Execs : run'[c].age = run[c].age /\ (c # d => run'[c] = run[c])
    BY <1>3 DEF InsertRun, TypeOK
  <2>3. (e = d /\ exec'[e] = x) \/ GoesOn
    BY <1>b, <2>1, <2>2
  <2> QED BY <1>3, <2>1, <2>2, <2>3 DEF InsertRun, Live, Move, Moved
<1>e. ASSUME NEW d \in Execs, Live(d), run' = run, NEW x, exec' = [exec EXCEPT ![d] = x],
             exec'[d] = x => Moved(d)
      PROVE  GoesOn
  <2>1. (e = d /\ exec'[e] = x) \/ GoesOn
    BY <1>b, <1>e
  <2> QED BY <1>e, <2>1
<1>4. ASSUME NEW d \in Execs,
             AttemptSucceeds(d) \/ AttemptFails(d) \/ BackoffEnds(d) \/ CancelUnwinds(d)
      PROVE  GoesOn
  <2>1. Live(d) /\ run' = run
    BY <1>4 DEF AttemptSucceeds, AttemptFails, BackoffEnds, CancelUnwinds, Live
  <2>2. ASSUME exec[d].pc \in {"attempt", "cancelling"}, NEW o, ToFinish(d, o) PROVE GoesOn
    <3>1. PICK x : x = Move(exec[d], "finish", exec[d].attempt, o) /\ exec' = [exec EXCEPT ![d] = x]
      BY <2>2 DEF ToFinish
    <3>2. x.t = 0 /\ x.pc = "finish"
      BY <3>1 DEF Move
    <3>3. exec'[d] = x => Moved(d)
      BY <2>2, <3>2 DEF Moved
    <3> QED BY <1>e, <2>1, <3>1, <3>3
  <2>3. CASE AttemptSucceeds(d) \/ CancelUnwinds(d)
    BY <2>2, <2>3 DEF AttemptSucceeds, CancelUnwinds
  <2>4. CASE AttemptFails(d) /\ exec[d].attempt >= AttemptLimit(ScheduleOf[d])
    BY <2>2, <2>4 DEF AttemptFails
  <2>5. CASE AttemptFails(d) /\ ~(exec[d].attempt >= AttemptLimit(ScheduleOf[d]))
    <3>1. PICK x : /\ x = Move(exec[d], "backoff", exec[d].attempt, "none")
                   /\ exec' = [exec EXCEPT ![d] = x]
      BY <2>5 DEF AttemptFails
    <3>2. x.t = 0 /\ x.pc = "backoff" /\ x.attempt = exec[d].attempt
      BY <3>1 DEF Move
    <3>3. exec'[d] = x => Moved(d)
      BY <2>5, <3>2 DEF AttemptFails, Moved
    <3> QED BY <1>e, <2>1, <3>1, <3>3
  <2>6. CASE BackoffEnds(d)
    <3>1. PICK x : /\ x = Move(exec[d], "attempt", exec[d].attempt + 1, "none")
                   /\ exec' = [exec EXCEPT ![d] = x]
      BY <2>6 DEF BackoffEnds
    <3>2. x.t = 0 /\ x.pc = "attempt" /\ x.attempt = exec[d].attempt + 1
      BY <3>1 DEF Move
    <3>3. exec'[d] = x => Moved(d)
      BY <2>6, <3>2 DEF BackoffEnds, Moved
    <3> QED BY <1>e, <2>1, <3>1, <3>3
  <2> QED BY <1>4, <2>3, <2>4, <2>5, <2>6
<1>5. ASSUME NEW d \in Execs, Finish(d) \/ Raise(d) PROVE GoesOn
  <2>1. exec' = [exec EXCEPT ![d] = Idle] /\ \A c \in Execs : c # d => run'[c] = run[c]
    BY <1>5 DEF Finish, Raise, TypeOK
  <2> QED BY <1>c, <2>1
<1>6. ASSUME NEW d \in Execs, InsertRaises(d) \/ FinishRaises(d) PROVE GoesOn
  BY <1>5, <1>6 DEF InsertRaises, FinishRaises
<1>7. ASSUME NEW d \in Execs, CancelRunNow(d) PROVE GoesOn
  <2>1. PICK x : x = Cancelled(d) /\ exec' = [exec EXCEPT ![d] = x]
    BY <1>7 DEF CancelRunNow
  <2>2. /\ Live(d) /\ (InStore(d) \/ run'[d] = run[d])
        /\ \A c \in Execs : c # d => run'[c] = run[c]
    BY <1>7 DEF CancelRunNow, TypeOK
  <2>3. (e = d /\ exec'[e] = x) \/ GoesOn
    BY <1>b, <2>1, <2>2
  <2> QED BY <1>d, <2>1, <2>2, <2>3
<1>8. ASSUME NEW p \in Servers, Shutdown(p) PROVE GoesOn
  <2>1. \/ exec'[e] = exec[e] /\ run'[e] = run[e]
        \/ Live(e) /\ exec'[e] = Cancelled(e) /\ (InStore(e) \/ run'[e] = run[e])
    BY <1>8 DEF Shutdown, BatchOf
  <2> QED BY <1>a, <1>d, <2>1
<1>9. ASSUME NEW p \in Servers, Crash(p) \/ Exit(p) PROVE GoesOn
  <2>1. exec'[e] = Idle \/ (exec'[e] = exec[e] /\ run'[e] = run[e])
    BY <1>9 DEF Crash, Exit, Down
  <2> QED BY <1>a, <2>1 DEF Live, Idle
<1>10. CASE \/ Edit
            \/ \E p \in Servers : ClaimRaises(p) \/ BatchDone(p) \/ Restart(p)
            \/ UNCHANGED vars
  <2>1. exec' = exec /\ run' = run
    BY <1>10 DEF Edit, CreateSchedule, DeleteSchedule, SetEnabled, ClaimRaises, BatchDone, Restart, vars
  <2> QED BY <1>a, <2>1
<1>11. CASE Tick
  BY <1>11 DEF Tick, Live
<1> HIDE DEF Begun, GoesOn
<1> QED BY <1>1, <1>2, <1>3, <1>4, <1>5, <1>6, <1>7, <1>8, <1>9, <1>10, <1>11
        DEF Next, Operate, Edit, Execute, Fault, Serve, Claim

LEMMA TimelyStep ==
  ASSUME TypeOK, Timely, [Next]_vars
  PROVE  Timely'
<1> SUFFICES ASSUME NEW e \in Execs, Live(e)' PROVE AgeBounded(e)'
  BY DEF Timely
<1>1. PICK s \in Schedules : s = ScheduleOf[e]
  BY FieldTypes
<1>2. run[e].age \in Nat /\ claimAge[s] \in Nat
  BY <1>1, FieldTypes
<1>3. CASE /\ exec'[e].pc = "insert" /\ exec'[e].t = 0
           /\ run'[e].age \in 0 .. TxDelay /\ claimAge'[s] \in 0 .. TxDelay
  BY <1>1, <1>3 DEF AgeBounded, MayBeAged, Stay
<1>4. CASE /\ Live(e) /\ run'[e].age = run[e].age /\ ~Tick
           /\ exec'[e] = exec[e] \/ Moved(e)
  <2>1. PICK a \in Nat : a = run[e].age
    BY <1>2
  <2>2. exec[e].t <= Stay(e) /\ MayBeAged(e, a) /\ MayBeAged(e, claimAge[s])
    BY <1>1, <1>4, <2>1 DEF Timely, AgeBounded
  <2>3. PICK b \in Nat : b = claimAge'[s] /\ MayBeAged(e, b)
    <3>1. CASE claimAge'[s] = claimAge[s]
      BY <1>2, <2>2, <3>1
    <3>2. CASE claimAge'[s] \in 0 .. TxDelay
      BY <2>2, <3>2, FreshMayBe
    <3> QED BY <1>4, <3>1, <3>2, ClaimAges
  <2>4. exec'[e].t <= Stay(e)' /\ MayBeAged(e, a)' /\ MayBeAged(e, b)'
    <3>1. CASE exec'[e] = exec[e]
      BY <2>2, <2>3, <3>1 DEF MayBeAged, Stay
    <3>2. CASE Moved(e)
      BY <2>2, <2>3, <3>2, MovedMayBe
    <3> QED BY <1>4, <3>1, <3>2
  <2> QED BY <1>1, <1>4, <2>1, <2>3, <2>4 DEF AgeBounded, MayBeAged
<1>5. CASE Tick /\ Live(e)
  <2>1. MayBeAged(e, run[e].age) /\ MayBeAged(e, claimAge[s])
    BY <1>1, <1>5 DEF Timely, AgeBounded
  <2>2. PICK a \in Nat : a = run'[e].age /\ a <= run[e].age + 1
    <3>1. run[e] \in RunRow
      BY DEF TypeOK
    <3>2. run'[e].age = Older(run[e].age)
      BY <1>5, <3>1 DEF Tick, RunRow
    <3> QED BY <1>2, <3>2 DEF Older
  <2>3. PICK b \in Nat : b = claimAge'[s] /\ b <= claimAge[s] + 1
    <3>1. claimAge'[s] = IF running[s] THEN Older(claimAge[s]) ELSE 0
      BY <1>5 DEF Tick
    <3> QED BY <1>2, <3>1 DEF Older
  <2>4. exec'[e].t <= Stay(e)' /\ MayBeAged(e, a)' /\ MayBeAged(e, b)'
    BY <1>2, <1>5, <2>1, <2>2, <2>3, TickMayBe
  <2> QED BY <1>1, <2>2, <2>3, <2>4 DEF AgeBounded, MayBeAged
<1> QED BY <1>1, <1>3, <1>4, <1>5, LiveSteps

\* Every execution makes no more attempts than its schedule allows, and neither its
\* run nor the claim on its schedule has a timestamp older than the timeout, the
\* backoffs and the store allow where it is; it holds whatever the lease is, and
\* however often recovery, manual runs and edits rewrite the claim (_execute,
\* asyncio.timeout, set_schedule_enabled).
THEOREM ExecutionsAreTimely == Spec => []Timely
<1>1. Init => Timely
  BY DEF Init, Timely, Live, Idle
<1> QED BY <1>1, TimelyStep, TypeCorrect, PTL DEF Spec

-----------------------------------------------------------------------------
(* The lease. *)

\* What a live execution may be aged is less than the lease.
LEMMA YoungWhileLive ==
  ASSUME LeaseLongEnough, TypeOK, NEW e \in Execs, Live(e), exec[e].t <= Stay(e),
         NEW age \in Nat, MayBeAged(e, age)
  PROVE  age < StaleAfter
<1> DEFINE s == ScheduleOf[e]
<1>1. /\ exec[e].t \in Nat /\ exec[e].attempt \in Nat /\ s \in Schedules
      /\ exec[e].pc \in {"insert", "attempt", "backoff", "cancelling", "finish"}
  BY FieldTypes DEF Live
<1>2. \A n \in Attempts : /\ StartBy[n] \in Nat
                          /\ StartBy[n] + JobTimeout + 2 * TxDelay < StaleAfter
  BY StartByFacts DEF LeaseLongEnough
<1>3. CASE exec[e].pc = "insert"
  <2>1. age <= TxDelay + exec[e].t /\ exec[e].t <= TxDelay
    BY <1>3 DEF MayBeAged, Stay
  <2> QED BY <1>1, <1>2, <2>1, StartByFacts
<1>4. CASE exec[e].pc = "attempt"
  <2>1. /\ exec[e].attempt \in Attempts /\ exec[e].t <= JobTimeout
        /\ age <= StartBy[exec[e].attempt] + exec[e].t
    BY <1>4, AttemptInRange DEF MayBeAged, Stay
  <2> QED BY <1>1, <1>2, <2>1
<1>5. CASE exec[e].pc = "backoff"
  <2> DEFINE n == exec[e].attempt
  <2>1. exec[e].t <= Backoff[n] /\ age <= StartBy[n] + JobTimeout + exec[e].t
    BY <1>5 DEF MayBeAged, Stay
  <2>2. n \in Attempts /\ n + 1 \in Attempts
    BY <1>5, AttemptInRange
  <2>3. /\ StartBy[n + 1] = StartBy[n] + JobTimeout + Backoff[n]
        /\ StartBy[n] \in Nat /\ Backoff[n] \in Nat
    BY <2>2, StartByFacts
  <2>4. StartBy[n + 1] + JobTimeout + 2 * TxDelay < StaleAfter
    BY <1>2, <2>2
  <2> HIDE DEF n
  <2> QED BY <1>1, <2>1, <2>3, <2>4
<1>6. CASE exec[e].pc = "cancelling"
  <2>1. PICK n \in Attempts : age <= StartBy[n] + JobTimeout + exec[e].t
    BY <1>6 DEF MayBeAged
  <2>2. exec[e].t <= TxDelay
    BY <1>6 DEF Stay
  <2> QED BY <1>1, <1>2, <2>1, <2>2
<1>7. CASE exec[e].pc = "finish"
  <2>1. PICK n \in Attempts : age <= StartBy[n] + JobTimeout + TxDelay + exec[e].t
    BY <1>7 DEF MayBeAged
  <2>2. exec[e].t <= TxDelay
    BY <1>7 DEF Stay
  <2> QED BY <1>1, <1>2, <2>1, <2>2
<1> QED BY <1>1, <1>3, <1>4, <1>5, <1>6, <1>7

\* An execution no action touched is as good as it was.
LEMMA Untouched ==
  ASSUME TypeOK, NEW e \in Execs, Good(e), exec'[e] = exec[e], run'[e] = run[e],
         Live(e) => /\ row'[ScheduleOf[e]] = row[ScheduleOf[e]]
                    /\ running'[ScheduleOf[e]] = running[ScheduleOf[e]]
  PROVE  Good(e)'
<1> SUFFICES ASSUME Live(e)' PROVE HoldsClaim(e)' /\ RunOpen(e)'
  BY DEF Good
<1>1. Live(e)
  BY DEF Live
<1>2. HoldsClaim(e)'
  BY <1>1 DEF Good, HoldsClaim
<1>3. RunOpen(e)'
  BY <1>1 DEF Good, RunOpen
<1> QED BY <1>2, <1>3

\* With no new live execution there is no new overlap.
LEMMA NoNewLive ==
  ASSUME NoOverlap, \A e \in Execs : Live(e)' => Live(e)
  PROVE  NoOverlap'
  BY DEF NoOverlap

\* Nor with new ones that are alone on their schedules.
LEMMA NewAlone ==
  ASSUME NoOverlap, NEW New \in SUBSET Execs,
         \A e \in Execs \ New : Live(e)' => Live(e),
         \A d \in New : \A e \in Execs \ New : Live(e) => ScheduleOf[e] # ScheduleOf[d],
         \A d, e \in New : ScheduleOf[d] = ScheduleOf[e] => d = e
  PROVE  NoOverlap'
<1> SUFFICES ASSUME NEW d \in Execs, NEW e \in Execs, Live(d)', Live(e)',
                    ScheduleOf[d] = ScheduleOf[e]
             PROVE  d = e
  BY DEF NoOverlap
<1>1. CASE d \in New /\ e \in New
  BY <1>1
<1>2. CASE d \in New /\ e \notin New
  BY <1>2
<1>3. CASE d \notin New /\ e \in New
  BY <1>3
<1>4. CASE d \notin New /\ e \notin New
  BY <1>4 DEF NoOverlap
<1> QED BY <1>1, <1>2, <1>3, <1>4

\* What an execution is when it has just been claimed.
LEMMA NewClaimGood ==
  ASSUME TypeOK, NEW e \in Execs, NEW p \in Servers, NEW b \in BOOLEAN, NEW lag \in 0 .. TxDelay,
         exec'[e] = Claimed(p, b), run'[e] = [status |-> "none", age |-> lag],
         row'[ScheduleOf[e]] = "present", running'[ScheduleOf[e]]
  PROVE  Good(e)'
<1>1. HoldsClaim(e)'
  BY DEF HoldsClaim
<1>2. RunOpen(e)'
  BY DEF RunOpen, Claimed
<1> QED BY <1>1, <1>2 DEF Good

\* A live execution that moves on keeps its claim and its open run.
LEMMA MoveGood ==
  ASSUME TypeOK, NEW e \in Execs, Good(e), Live(e),
         NEW pc \in {"attempt", "backoff", "cancelling", "finish"}, NEW n, NEW o,
         exec'[e] = Move(exec[e], pc, n, o),
         run'[e] = [status |-> "running", age |-> run[e].age],
         UNCHANGED <<row, running>>
  PROVE  Good(e)'
<1>1. HoldsClaim(e)'
  BY DEF Good, HoldsClaim
<1>2. RunOpen(e)'
  BY DEF RunOpen, Move
<1> QED BY <1>1, <1>2 DEF Good

LEMMA LeaseStep ==
  ASSUME LeaseLongEnough, TypeOK, LeaseInv, [Next]_vars
  PROVE  LeaseInv'
<1> USE DEF table
<1>a. \A e \in Execs : Good(e)
  BY DEF LeaseInv, Good
<1>b. NoOverlap
  BY DEF LeaseInv
<1>c. \A e \in Execs : ScheduleOf[e] \in Schedules
  BY PopulationAssumption DEF PopulationAssumption
<1>d. \A e \in Execs : Live(e) => /\ row[ScheduleOf[e]] = "present" /\ running[ScheduleOf[e]]
                                  /\ claimAge[ScheduleOf[e]] < StaleAfter
                                  /\ run[e].age < StaleAfter
  <2> SUFFICES ASSUME NEW e \in Execs, Live(e)
               PROVE  /\ row[ScheduleOf[e]] = "present" /\ running[ScheduleOf[e]]
                      /\ claimAge[ScheduleOf[e]] < StaleAfter
                      /\ run[e].age < StaleAfter
    OBVIOUS
  <2>1. AgeBounded(e) /\ run[e].age \in Nat /\ claimAge[ScheduleOf[e]] \in Nat
    BY FieldTypes DEF LeaseInv
  <2>2. run[e].age < StaleAfter /\ claimAge[ScheduleOf[e]] < StaleAfter
    BY <2>1, YoungWhileLive DEF AgeBounded
  <2> QED BY <1>a, <2>2 DEF Good, HoldsClaim
<1>t. Timely'
  BY TimelyStep DEF LeaseInv, Timely
<1>e. SUFFICES (\A e \in Execs : Good(e)') /\ NoOverlap'
  BY <1>t DEF LeaseInv, Good, Timely
\* Actions of operators.
<1>1. ASSUME NEW s \in Schedules, NEW lag \in 0 .. TxDelay, CreateSchedule(s, lag)
      PROVE  (\A e \in Execs : Good(e)') /\ NoOverlap'
  <2>1. \A e \in Execs : Good(e)'
    <3> SUFFICES ASSUME NEW e \in Execs PROVE Good(e)'
      OBVIOUS
    <3>1. Live(e) => ScheduleOf[e] # s
      BY <1>1, <1>d DEF CreateSchedule
    <3> QED BY <1>1, <1>a, <3>1, Untouched DEF CreateSchedule
  <2>2. NoOverlap'
    BY <1>1, <1>b, NoNewLive DEF CreateSchedule, Live
  <2> QED BY <2>1, <2>2
<1>2. ASSUME NEW s \in Schedules, NEW value \in BOOLEAN, NEW lag \in 0 .. TxDelay,
             SetEnabled(s, value, lag)
      PROVE  (\A e \in Execs : Good(e)') /\ NoOverlap'
  <2>1. \A e \in Execs : Good(e)'
    BY <1>2, <1>a, Untouched DEF SetEnabled
  <2>2. NoOverlap'
    BY <1>2, <1>b, NoNewLive DEF SetEnabled, Live
  <2> QED BY <2>1, <2>2
<1>3. ASSUME NEW s \in Schedules, DeleteSchedule(s)
      PROVE  (\A e \in Execs : Good(e)') /\ NoOverlap'
  <2>1. \A e \in Execs : Good(e)'
    <3> SUFFICES ASSUME NEW e \in Execs PROVE Good(e)'
      OBVIOUS
    <3>1. Live(e) => ScheduleOf[e] # s
      BY <1>3, <1>d DEF DeleteSchedule
    <3> QED BY <1>3, <1>a, <3>1, Untouched DEF DeleteSchedule
  <2>2. NoOverlap'
    BY <1>3, <1>b, NoNewLive DEF DeleteSchedule, Live
  <2> QED BY <2>1, <2>2
<1>4. ASSUME NEW p \in Servers, NEW s \in Schedules, NEW lag \in 0 .. TxDelay,
             RunNow(p, s, lag)
      PROVE  (\A e \in Execs : Good(e)') /\ NoOverlap'
  <2>d. PICK d \in Execs : d = SlotFor(s, {})
    BY <1>4, SlotIsFree DEF RunNow
  <2>1. d \in Execs /\ ScheduleOf[d] = s /\ ~Live(d)
    BY <1>4, <2>d, SlotIsFree DEF RunNow
  <2>2. \A e \in Execs : Live(e) => ScheduleOf[e] # s
    BY <1>4, <1>d DEF RunNow
  <2>3. /\ exec' = [exec EXCEPT ![d] = Claimed(p, FALSE)]
        /\ run' = [run EXCEPT ![d] = [status |-> "none", age |-> lag]]
        /\ running' = [running EXCEPT ![s] = TRUE]
        /\ row' = row /\ row[s] = "present"
    BY <1>4, <2>d DEF RunNow
  <2>a. /\ exec'[d] = Claimed(p, FALSE) /\ run'[d] = [status |-> "none", age |-> lag]
        /\ row'[ScheduleOf[d]] = "present" /\ running'[ScheduleOf[d]]
    BY <2>1, <2>3 DEF TypeOK
  <2>4. Good(d)'
    BY <2>1, <2>a, NewClaimGood
  <2>5. \A e \in Execs : e # d => Good(e)'
    <3> SUFFICES ASSUME NEW e \in Execs, e # d PROVE Good(e)'
      OBVIOUS
    <3>1. exec'[e] = exec[e] /\ run'[e] = run[e]
      BY <2>3 DEF TypeOK
    <3>2. Live(e) => /\ row'[ScheduleOf[e]] = row[ScheduleOf[e]]
                     /\ running'[ScheduleOf[e]] = running[ScheduleOf[e]]
      BY <2>2, <2>3, <1>c DEF TypeOK
    <3> QED BY <1>a, <3>1, <3>2, Untouched
  <2>6. NoOverlap'
    <3>1. \A e \in Execs : e # d => exec'[e] = exec[e]
      BY <2>3 DEF TypeOK
    <3>2. \A e \in Execs \ {d} : Live(e)' => Live(e)
      BY <3>1 DEF Live
    <3>3. \A x \in {d} : \A e \in Execs \ {d} : Live(e) => ScheduleOf[e] # ScheduleOf[x]
      BY <2>1, <2>2
    <3>4. \A x, y \in {d} : ScheduleOf[x] = ScheduleOf[y] => x = y
      OBVIOUS
    <3>5. {d} \in SUBSET Execs
      OBVIOUS
    <3> QED BY <1>b, <3>2, <3>3, <3>4, <3>5, NewAlone
  <2> QED BY <2>4, <2>5, <2>6

\* Steps of one execution: the others are untouched.
<1>f. ASSUME NEW e \in Execs, NEW x, NEW y,
             exec' = [exec EXCEPT ![e] = x], run' = [run EXCEPT ![e] = y],
             Good(e)', x.pc = "idle" \/ Live(e),
             \/ UNCHANGED <<row, running>>
             \/ /\ Live(e) /\ row' = row
                /\ \A s \in Schedules \ {ScheduleOf[e]} :
                     running'[s] = running[s]
      PROVE  (\A d \in Execs : Good(d)') /\ NoOverlap'
  <2>1. /\ exec'[e] = x /\ run'[e] = y
        /\ \A d \in Execs : d # e => exec'[d] = exec[d] /\ run'[d] = run[d]
    BY <1>f DEF TypeOK
  <2>2. \A d \in Execs : Good(d)'
    <3> SUFFICES ASSUME NEW d \in Execs, d # e PROVE Good(d)'
      BY <1>f
    <3>1. exec'[d] = exec[d] /\ run'[d] = run[d]
      BY <2>1
    <3>2. Live(d) => /\ row'[ScheduleOf[d]] = row[ScheduleOf[d]]
                     /\ running'[ScheduleOf[d]] = running[ScheduleOf[d]]
      <4>1. CASE UNCHANGED <<row, running>>
        BY <4>1
      <4>2. CASE ~(UNCHANGED <<row, running>>)
        <5>1. Live(d) => ScheduleOf[d] # ScheduleOf[e]
          BY <1>b, <1>f, <4>2 DEF NoOverlap
        <5> QED BY <5>1, <1>f, <4>2, <1>c
      <4> QED BY <4>1, <4>2
    <3> QED BY <1>a, <3>1, <3>2, Untouched
  <2>3. \A d \in Execs : Live(d)' => Live(d)
    <3>1. Live(e)' => Live(e)
      BY <1>f, <2>1 DEF Live
    <3>2. \A d \in Execs : d # e => (Live(d)' => Live(d))
      BY <2>1 DEF Live
    <3> QED BY <3>1, <3>2
  <2>4. NoOverlap'
    BY <1>b, <2>3, NoNewLive
  <2> QED BY <2>2, <2>4
<1>g. ASSUME NEW e \in Execs, exec' = [exec EXCEPT ![e] = Idle]
      PROVE  Good(e)'
  <2>1. exec'[e] = Idle
    BY <1>g DEF TypeOK
  <2> QED BY <2>1 DEF Good, Live, Idle
<1>h. ASSUME NEW e \in Execs, Live(e), exec[e].pc # "insert"
      PROVE  run[e] = [status |-> "running", age |-> run[e].age]
  <2>1. run[e].status = "running"
    BY <1>a, <1>h DEF Good, RunOpen
  <2> QED BY <2>1, RunTypes DEF TypeOK, RunRow
\* A step to pc keeps the execution good.
<1>i. ASSUME NEW e \in Execs, Live(e),
             NEW pc \in {"attempt", "backoff", "cancelling", "finish"}, NEW n, NEW o,
             exec' = [exec EXCEPT ![e] = Move(@, pc, n, o)],
             run' = [run EXCEPT ![e] = [status |-> "running", age |-> run[e].age]],
             UNCHANGED <<row, running>>
      PROVE  (\A d \in Execs : Good(d)') /\ NoOverlap'
  <2>1. /\ exec'[e] = Move(exec[e], pc, n, o)
        /\ run'[e] = [status |-> "running", age |-> run[e].age]
    BY <1>i DEF TypeOK
  <2>2. Good(e)'
    BY <1>a, <1>i, <2>1, MoveGood
  <2> QED BY <1>f, <1>i, <2>2
<1>5. ASSUME NEW e \in Execs, InsertRun(e)
      PROVE  (\A d \in Execs : Good(d)') /\ NoOverlap'
  <2>1. /\ Live(e) /\ UNCHANGED <<row, running>>
        /\ run' = [run EXCEPT ![e] = [status |-> "running", age |-> run[e].age]]
        /\ \/ exec' = [exec EXCEPT ![e] = Move(@, "attempt", 1, "none")]
           \/ exec' = [exec EXCEPT ![e] = Move(@, "finish", 1, "failed")]
    BY <1>5 DEF InsertRun, Live
  <2> QED BY <1>i, <2>1
<1>6. ASSUME NEW e \in Execs, Raise(e), Live(e), UNCHANGED <<row, running>>
      PROVE  (\A d \in Execs : Good(d)') /\ NoOverlap'
  <2>1. exec' = [exec EXCEPT ![e] = Idle] /\ run' = [run EXCEPT ![e] = Settled(run[e])]
    BY <1>6 DEF Raise
  <2>2. Good(e)'
    BY <1>g, <2>1
  <2> QED BY <1>f, <1>6, <2>1, <2>2 DEF Idle
<1>7. ASSUME NEW e \in Execs, InsertRaises(e) \/ FinishRaises(e)
      PROVE  (\A d \in Execs : Good(d)') /\ NoOverlap'
  BY <1>6, <1>7 DEF InsertRaises, FinishRaises, Live
\* The handler, the backoff or the unwinding ends.
<1>8. ASSUME NEW e \in Execs,
             \/ AttemptSucceeds(e) \/ AttemptFails(e) \/ BackoffEnds(e) \/ CancelUnwinds(e)
      PROVE  (\A d \in Execs : Good(d)') /\ NoOverlap'
  <2>1. /\ Live(e) /\ exec[e].pc # "insert" /\ UNCHANGED <<row, running, run>>
        /\ \E pc \in {"attempt", "backoff", "finish"} : \E n, o :
             exec' = [exec EXCEPT ![e] = Move(@, pc, n, o)]
    BY <1>8 DEF AttemptSucceeds, AttemptFails, BackoffEnds, CancelUnwinds, ToFinish, Live
  <2>2. run' = [run EXCEPT ![e] = [status |-> "running", age |-> run[e].age]]
    BY <1>h, <2>1 DEF TypeOK
  <2>3. PICK pc \in {"attempt", "backoff", "finish"} :
          \E n, o : exec' = [exec EXCEPT ![e] = Move(@, pc, n, o)]
    BY <2>1
  <2>4. PICK n, o : exec' = [exec EXCEPT ![e] = Move(@, pc, n, o)]
    BY <2>3
  <2> QED BY <1>i, <2>1, <2>2, <2>4
<1>13. ASSUME NEW e \in Execs, Finish(e)
       PROVE  (\A d \in Execs : Good(d)') /\ NoOverlap'
  <2>1. /\ Live(e) /\ row' = row
        /\ exec' = [exec EXCEPT ![e] = Idle]
        /\ run' = [run EXCEPT ![e] = [status |-> exec[e].outcome, age |-> 0]]
    BY <1>13 DEF Finish, Live
  <2>2. \A s \in Schedules \ {ScheduleOf[e]} : running'[s] = running[s]
    <3>1. running' = running \/ running' = [running EXCEPT ![ScheduleOf[e]] = FALSE]
      BY <1>13 DEF Finish
    <3> QED BY <3>1 DEF TypeOK
  <2>3. Good(e)'
    BY <1>g, <2>1
  <2> QED BY <1>f, <2>1, <2>2, <2>3 DEF Idle

\* Steps that cancel or end several executions.
<1>k. ASSUME NEW e \in Execs, Live(e), exec[e].pc \in {"attempt", "backoff"},
             exec'[e] = Cancelled(e), run'[e] = run[e], UNCHANGED <<row, running>>
      PROVE  Good(e)'
  <2>1. exec'[e] = Move(exec[e], "cancelling", exec[e].attempt, "none")
    BY <1>k DEF Cancelled
  <2>2. run'[e] = [status |-> "running", age |-> run[e].age]
    BY <1>h, <1>k
  <2> QED BY <1>a, <1>k, <2>1, <2>2, MoveGood
<1>l. ASSUME NEW e \in Execs, exec'[e] = Idle PROVE Good(e)'
  BY <1>l DEF Good, Live, Idle
<1>14. ASSUME NEW e \in Execs, CancelRunNow(e)
       PROVE  (\A d \in Execs : Good(d)') /\ NoOverlap'
  <2>1. /\ Live(e) /\ exec[e].pc # "cancelling" /\ exec' = [exec EXCEPT ![e] = Cancelled(e)]
        /\ UNCHANGED <<row, running>>
    BY <1>14 DEF CancelRunNow
  <2>2. exec[e].pc \in {"insert", "attempt", "backoff", "finish"}
    BY <2>1, FieldTypes DEF Live
  <2>3. CASE InStore(e)
    <3>1. /\ exec' = [exec EXCEPT ![e] = Idle]
          /\ run' = [run EXCEPT ![e] = Settled(run[e])]
      BY <1>14, <2>1, <2>3 DEF CancelRunNow, Cancelled, InStore
    <3>2. Good(e)'
      BY <1>g, <3>1
    <3> QED BY <1>f, <2>1, <3>1, <3>2 DEF Idle
  <2>4. CASE ~InStore(e)
    <3>1. exec[e].pc \in {"attempt", "backoff"} /\ run' = run
      BY <1>14, <2>2, <2>4 DEF CancelRunNow, InStore
    <3>2. exec'[e] = Cancelled(e)
      BY <2>1 DEF TypeOK
    <3>3. Good(e)'
      BY <1>k, <2>1, <3>1, <3>2
    <3>4. run' = [run EXCEPT ![e] = run[e]]
      BY <3>1 DEF TypeOK
    <3>5. PICK x : x = Cancelled(e)
      OBVIOUS
    <3>6. exec' = [exec EXCEPT ![e] = x]
      BY <2>1, <3>5
    <3>7. PICK y : y = run[e]
      OBVIOUS
    <3>8. run' = [run EXCEPT ![e] = y]
      BY <3>4, <3>7
    <3> QED BY <1>f, <2>1, <3>3, <3>6, <3>8
  <2> QED BY <2>3, <2>4
<1>15. ASSUME NEW p \in Servers, ClaimRaises(p) \/ BatchDone(p) \/ Restart(p)
       PROVE  (\A e \in Execs : Good(e)') /\ NoOverlap'
  <2>1. UNCHANGED <<row, running, run, exec>>
    BY <1>15 DEF ClaimRaises, BatchDone, Restart
  <2>2. \A e \in Execs : Good(e)'
    BY <1>a, <2>1, Untouched
  <2> QED BY <1>b, <2>1, <2>2, NoNewLive DEF Live
<1>16. ASSUME NEW p \in Servers, Crash(p) \/ Exit(p)
       PROVE  (\A e \in Execs : Good(e)') /\ NoOverlap'
  <2>1. /\ UNCHANGED <<row, running>>
        /\ \A e \in Execs : \/ exec'[e] = Idle
                            \/ exec'[e] = exec[e] /\ run'[e] = run[e]
    BY <1>16 DEF Crash, Exit, Down
  <2>2. \A e \in Execs : Good(e)'
    <3> SUFFICES ASSUME NEW e \in Execs PROVE Good(e)'
      OBVIOUS
    <3>1. CASE exec'[e] = Idle
      BY <1>l, <3>1
    <3>2. CASE exec'[e] = exec[e] /\ run'[e] = run[e]
      BY <1>a, <2>1, <3>2, Untouched
    <3> QED BY <2>1, <3>1, <3>2
  <2> QED BY <1>b, <2>1, <2>2, NoNewLive DEF Live, Idle
<1>17. ASSUME NEW p \in Servers, Shutdown(p)
       PROVE  (\A e \in Execs : Good(e)') /\ NoOverlap'
  <2> DEFINE cut == IF loop[p].pc = "busy" THEN BatchOf(p) ELSE {}
  <2>1. /\ UNCHANGED <<row, running>>
        /\ \A e \in Execs : exec'[e] = IF e \in cut THEN Cancelled(e) ELSE exec[e]
        /\ \A e \in Execs : run'[e] = IF e \in cut /\ InStore(e) THEN Settled(run[e]) ELSE run[e]
    BY <1>17 DEF Shutdown
  <2>2. \A e \in cut : Live(e)
    BY DEF BatchOf
  <2> HIDE DEF cut
  <2>3. ASSUME NEW e \in Execs PROVE Good(e)' /\ (Live(e)' => Live(e))
    <3>1. CASE e \notin cut
      <4>1. exec'[e] = exec[e] /\ run'[e] = run[e]
        BY <2>1, <3>1
      <4> QED BY <1>a, <2>1, <4>1, Untouched DEF Live
    <3>2. CASE e \in cut /\ InStore(e)
      <4>1. exec'[e] = Idle
        BY <2>1, <3>2 DEF Cancelled, InStore
      <4> QED BY <1>l, <2>2, <3>2, <4>1
    <3>3. CASE e \in cut /\ ~InStore(e)
      <4>1. exec[e].pc \in {"attempt", "backoff", "cancelling"} /\ Live(e)
        BY <2>2, <3>3, FieldTypes DEF InStore, Live
      <4>2. run'[e] = run[e] /\ exec'[e] = Cancelled(e)
        BY <2>1, <3>3
      <4>3. CASE exec[e].pc = "cancelling"
        <5>1. exec'[e] = exec[e]
          BY <4>2, <4>3 DEF Cancelled, InStore
        <5> QED BY <1>a, <2>1, <4>1, <4>2, <5>1, Untouched
      <4>4. CASE exec[e].pc # "cancelling"
        BY <1>k, <2>1, <4>1, <4>2, <4>4
      <4> QED BY <4>3, <4>4
    <3> QED BY <3>1, <3>2, <3>3
  <2> QED BY <1>b, <2>3, NoNewLive

\* A claiming transaction finds no live execution stale.
<1>18. ASSUME NEW p \in Servers, NEW lag \in 0 .. TxDelay, ClaimDue(p, lag)
       PROVE  (\A e \in Execs : Good(e)') /\ NoOverlap'
  <2>1. PICK I : I = StaleRuns(lag)
    OBVIOUS
  <2>2. PICK B : B = FirstDue(lag)
    OBVIOUS
  <2>3. PICK S : S = {SlotFor(s, I) : s \in B}
    OBVIOUS
  <2>4. /\ B \subseteq Schedules
        /\ \A s \in B : row[s] = "present" /\ (running[s] => s \in StaleClaims(lag))
    BY <2>2 DEF FirstDue, Due
  <2>5. \A s \in B : FreeSlots(s, I) # {}
    BY <1>18, <2>1, <2>2 DEF ClaimDue
  <2>6. S \subseteq Execs
    BY <2>3, <2>4, <2>5, SlotIsFree
  <2>7. \A e \in S : ScheduleOf[e] \in B /\ ~Live(e) /\ e = SlotFor(ScheduleOf[e], I)
    BY <2>3, <2>4, <2>5, SlotIsFree
  <2>8. \A e \in Execs : Live(e) => /\ e \notin I /\ ScheduleOf[e] \notin StaleClaims(lag)
                                    /\ ScheduleOf[e] \notin B
    <3> SUFFICES ASSUME NEW e \in Execs, Live(e)
                 PROVE  /\ e \notin I /\ ScheduleOf[e] \notin StaleClaims(lag)
                        /\ ScheduleOf[e] \notin B
      OBVIOUS
    <3>1. /\ running[ScheduleOf[e]] /\ claimAge[ScheduleOf[e]] < StaleAfter
          /\ run[e].age < StaleAfter
      BY <1>d
    <3>2. run[e].age \in Nat /\ claimAge[ScheduleOf[e]] \in Nat
      BY FieldTypes
    <3>3. ~(run[e].age - lag >= StaleAfter) /\ ~(claimAge[ScheduleOf[e]] - lag >= StaleAfter)
      BY <3>1, <3>2
    <3> QED BY <2>1, <2>4, <3>1, <3>3 DEF StaleRuns, StaleClaims
  <2>9. /\ \A e \in Execs : exec'[e] = IF e \in S THEN Claimed(p, TRUE) ELSE exec[e]
        /\ \A e \in S : run'[e] = [status |-> "none", age |-> lag]
        /\ \A e \in Execs \ S : e \notin I => run'[e] = run[e]
        /\ row' = row
        /\ \A s \in B : running'[s]
        /\ \A s \in Schedules \ B : s \notin StaleClaims(lag) => running'[s] = running[s]
    <3> USE <1>18, <2>1, <2>2, <2>3, <2>4, <2>6 DEF ClaimDue
    <3>1. \A e \in Execs : exec'[e] = IF e \in S THEN Claimed(p, TRUE) ELSE exec[e]
      OBVIOUS
    <3>2. /\ \A e \in S : run'[e] = [status |-> "none", age |-> lag]
          /\ \A e \in Execs \ S : e \notin I => run'[e] = run[e]
      OBVIOUS
    <3>3. /\ \A s \in B : running'[s]
          /\ \A s \in Schedules \ B : s \notin StaleClaims(lag) => running'[s] = running[s]
      BY DEF TypeOK
    <3> QED BY <3>1, <3>2, <3>3
  <2>10. ASSUME NEW e \in Execs PROVE Good(e)'
    <3>1. CASE e \in S
      <4>1. /\ exec'[e] = Claimed(p, TRUE) /\ run'[e] = [status |-> "none", age |-> lag]
            /\ row'[ScheduleOf[e]] = "present" /\ running'[ScheduleOf[e]]
        BY <2>4, <2>7, <2>9, <3>1
      <4> QED BY <4>1, NewClaimGood
    <3>2. CASE e \notin S /\ Live(e)
      <4>1. e \notin I /\ ScheduleOf[e] \notin StaleClaims(lag) /\ ScheduleOf[e] \notin B
        BY <2>8, <3>2
      <4>2. exec'[e] = exec[e] /\ run'[e] = run[e]
        BY <2>9, <3>2, <4>1
      <4>3. /\ row'[ScheduleOf[e]] = row[ScheduleOf[e]]
            /\ running'[ScheduleOf[e]] = running[ScheduleOf[e]]
        BY <1>c, <2>9, <4>1
      <4> QED BY <1>a, <4>2, <4>3, Untouched
    <3>3. CASE e \notin S /\ ~Live(e)
      BY <2>9, <3>3 DEF Good, Live
    <3> QED BY <3>1, <3>2, <3>3
  <2>11. NoOverlap'
    <3>1. \A e \in Execs \ S : Live(e)' => Live(e)
      BY <2>9 DEF Live
    <3>2. \A d \in S : \A e \in Execs \ S : Live(e) => ScheduleOf[e] # ScheduleOf[d]
      BY <2>7, <2>8
    <3>3. \A d, e \in S : ScheduleOf[d] = ScheduleOf[e] => d = e
      BY <2>7
    <3> QED BY <1>b, <2>6, <3>1, <3>2, <3>3, NewAlone
  <2> QED BY <2>10, <2>11
\* Time moves no execution, closes no run and gives up no claim.
<1>19. ASSUME Tick PROVE (\A e \in Execs : Good(e)') /\ NoOverlap'
  <2>1. ASSUME NEW e \in Execs PROVE Good(e)' /\ (Live(e)' => Live(e))
    <3>1. exec[e] \in Exec /\ run[e] \in RunRow
      BY DEF TypeOK
    <3>2. /\ exec'[e].pc = exec[e].pc /\ run'[e].status = run[e].status
          /\ row' = row /\ running' = running
      BY <1>19, <3>1 DEF Tick, Exec, RunRow
    <3> QED BY <1>a, <3>2 DEF Good, HoldsClaim, RunOpen, Live
  <2> QED BY <1>b, <2>1, NoNewLive
<1>20. CASE UNCHANGED vars
  <2>1. \A e \in Execs : Good(e)'
    BY <1>20, <1>a, Untouched DEF vars
  <2> QED BY <1>20, <1>b, <2>1, NoNewLive DEF vars, Live
<1> QED
  BY <1>1, <1>2, <1>3, <1>4, <1>5, <1>7, <1>8, <1>13, <1>14,
     <1>15, <1>16, <1>17, <1>18, <1>19, <1>20
     DEF Next, Operate, Execute, Fault, Serve, Claim

\* The lease is safe: when StaleAfter exceeds the longest execution, a live
\* execution is alone, holds its claim, and neither its run nor the claim has a
\* timestamp as old as the lease (_claim_due, set_schedule_enabled).
THEOREM LeaseSafe == LeaseLongEnough => (Spec => []LeaseInv)
<1> SUFFICES ASSUME LeaseLongEnough PROVE Spec => []LeaseInv
  OBVIOUS
<1>1. Init => LeaseInv
  BY DEF Init, LeaseInv, NoOverlap, Live, Idle
<1>2. TypeOK /\ LeaseInv /\ [Next]_vars => LeaseInv'
  BY LeaseStep
<1> QED BY <1>1, <1>2, TypeCorrect, PTL DEF Spec

\* Under the same condition no schedule ever has two executions alive: the
\* overlap prevention of _claim_due and run_schedule_now, for any number of
\* server processes on the database.
THEOREM MutualExclusion == LeaseLongEnough => (Spec => []NoOverlap)
<1>1. LeaseInv => NoOverlap
  BY DEF LeaseInv
<1> QED BY <1>1, LeaseSafe, PTL

\* Nor is a schedule deleted or released while an execution of it is alive (delete,
\* _claim_due).
THEOREM ClaimsHeld == LeaseLongEnough => (Spec => []LiveHoldsClaim)
<1>1. LeaseInv => LiveHoldsClaim
  BY DEF LeaseInv, LiveHoldsClaim, HoldsClaim
<1> QED BY <1>1, LeaseSafe, PTL

\* Nor is the run of a live execution closed as interrupted (_claim_due's recovery
\* of stale runs).
THEOREM RunsStayOpen == LeaseLongEnough => (Spec => []LiveRunNotClosed)
<1>1. LeaseInv => LiveRunNotClosed
  BY DEF LeaseInv, LiveRunNotClosed, RunOpen, Terminal
<1> QED BY <1>1, LeaseSafe, PTL

-----------------------------------------------------------------------------
(* The time between two starts of a schedule by the loop. *)

\* A schedule that has been started has a row.
NeverStarted(s) == row[s] = "absent" => lastStart[s] = AgeCap

\* Why a schedule is not started again too soon: it is not due, its claim is as
\* young as its last start, or that start is a lease ago; all of them but for a
\* timestamp that was read before the start.
NotYet(s) ==
  row[s] = "present" /\ lastStart[s] < AgeCap =>
    \/ Interval[s] <= dueIn[s] + lastStart[s] + TxDelay
    \/ running[s] /\ claimAge[s] <= lastStart[s] + TxDelay
    \/ StaleAfter <= lastStart[s] + TxDelay

\* No live execution began before the last start, but for a timestamp that was
\* read before it.
SinceStart(e) == Live(e) => run[e].age <= lastStart[ScheduleOf[e]] + TxDelay

SpacingInv ==
  /\ \A s \in Schedules : NeverStarted(s) /\ NotYet(s)
  /\ \A e \in Execs : SinceStart(e)

LEMMA Columns ==
  ASSUME TypeOK, NEW s \in Schedules
  PROVE  /\ lastStart[s] \in 0 .. AgeCap /\ claimAge[s] \in 0 .. AgeCap
         /\ dueIn[s] \in Int /\ Interval[s] \in Nat /\ running[s] \in BOOLEAN
  BY DEF TypeOK

\* A step that writes neither schedules nor starts anything.
Quiet ==
  /\ UNCHANGED <<row, running, claimAge, dueIn, lastStart>>
  /\ \A e \in Execs : Live(e)' => Live(e) /\ run'[e].age = run[e].age

LEMMA QuietStep == ASSUME SpacingInv, Quiet PROVE SpacingInv'
<1>1. \A s \in Schedules : NeverStarted(s)' /\ NotYet(s)'
  BY DEF SpacingInv, Quiet, NeverStarted, NotYet
<1>2. \A e \in Execs : SinceStart(e)'
  BY DEF SpacingInv, Quiet, SinceStart
<1> QED BY <1>1, <1>2 DEF SpacingInv

\* An execution that moves on, or ends.
LEMMA QuietExec ==
  ASSUME TypeOK, NEW e \in Execs, NEW x, NEW y, UNCHANGED <<row, running, claimAge, dueIn, lastStart>>,
         exec' = [exec EXCEPT ![e] = x], run' = [run EXCEPT ![e] = y],
         x.pc = "idle" \/ (Live(e) /\ y.age = run[e].age)
  PROVE  Quiet
<1>1. /\ exec'[e] = x /\ run'[e] = y
      /\ \A d \in Execs : d # e => exec'[d] = exec[d] /\ run'[d] = run[d]
  BY DEF TypeOK
<1> QED BY <1>1 DEF Quiet, Live

LEMMA QuietActions ==
  ASSUME TypeOK,
         \/ \E e \in Execs : \/ InsertRun(e) \/ AttemptSucceeds(e) \/ AttemptFails(e)
                             \/ BackoffEnds(e) \/ CancelUnwinds(e)
         \/ Fault
         \/ \E p \in Servers : BatchDone(p) \/ Exit(p) \/ Restart(p)
         \/ UNCHANGED vars
  PROVE  Quiet
<1> USE DEF table
\* An execution that moves on keeps its run's age.
<1>1. ASSUME NEW e \in Execs, Live(e), UNCHANGED <<row, running, claimAge, dueIn, lastStart>>,
             NEW x, exec' = [exec EXCEPT ![e] = x], run' = run
      PROVE  Quiet
  <2>1. run' = [run EXCEPT ![e] = run[e]]
    BY <1>1 DEF TypeOK
  <2> QED BY <1>1, <2>1, QuietExec
<1>2. ASSUME NEW e \in Execs, InsertRun(e)
      PROVE  Quiet
  <2>1. Live(e) /\ run' = [run EXCEPT ![e] = [status |-> "running", age |-> run[e].age]]
    BY <1>2 DEF InsertRun, Live
  <2>2. PICK x : exec' = [exec EXCEPT ![e] = x]
    BY <1>2 DEF InsertRun
  <2>3. UNCHANGED <<row, running, claimAge, dueIn, lastStart>>
    BY <1>2 DEF InsertRun
  <2>4. [status |-> "running", age |-> run[e].age].age = run[e].age
    OBVIOUS
  <2> QED BY <2>1, <2>2, <2>3, <2>4, QuietExec
<1>3. ASSUME NEW e \in Execs,
             AttemptSucceeds(e) \/ AttemptFails(e) \/ BackoffEnds(e) \/ CancelUnwinds(e)
      PROVE  Quiet
  <2>1. Live(e) /\ run' = run /\ UNCHANGED <<row, running, claimAge, dueIn, lastStart>>
    BY <1>3 DEF AttemptSucceeds, AttemptFails, BackoffEnds, CancelUnwinds, Live
  <2>2. PICK x : exec' = [exec EXCEPT ![e] = x]
    BY <1>3 DEF AttemptSucceeds, AttemptFails, BackoffEnds, CancelUnwinds, ToFinish
  <2> QED BY <1>1, <2>1, <2>2
<1>4. ASSUME NEW e \in Execs, InsertRaises(e) \/ FinishRaises(e)
      PROVE  Quiet
  <2>1. Raise(e) /\ UNCHANGED <<row, running, claimAge, dueIn, lastStart>>
    BY <1>4 DEF InsertRaises, FinishRaises
  <2>2. exec' = [exec EXCEPT ![e] = Idle] /\ run' = [run EXCEPT ![e] = Settled(run[e])]
    BY <2>1 DEF Raise
  <2> QED BY <2>1, <2>2, QuietExec DEF Idle
\* Executions that are cancelled.
<1>5. ASSUME UNCHANGED <<row, running, claimAge, dueIn, lastStart>>,
             \A e \in Execs :
               \/ exec'[e] = Idle
               \/ exec'[e] \in {exec[e], Cancelled(e)} /\ run'[e] = run[e]
      PROVE  Quiet
  <2>1. \A e \in Execs : Cancelled(e).pc # "idle" => Live(e)
    BY DEF Cancelled, Live, Idle, InStore
  <2> QED BY <1>5, <2>1 DEF Quiet, Live, Idle
<1>6. ASSUME NEW e \in Execs, CancelRunNow(e)
      PROVE  Quiet
  <2>1. /\ exec'[e] = Cancelled(e)
        /\ \A d \in Execs : d # e => exec'[d] = exec[d] /\ run'[d] = run[d]
    BY <1>6 DEF CancelRunNow, TypeOK
  <2>2. Cancelled(e) = Idle \/ run'[e] = run[e]
    BY <1>6 DEF CancelRunNow, Cancelled, InStore
  <2>3. UNCHANGED <<row, running, claimAge, dueIn, lastStart>>
    BY <1>6 DEF CancelRunNow
  <2> QED BY <1>5, <2>1, <2>2, <2>3
<1>7. ASSUME NEW p \in Servers, Shutdown(p)
      PROVE  Quiet
  <2>1. UNCHANGED <<row, running, claimAge, dueIn, lastStart>>
    BY <1>7 DEF Shutdown
  <2>2. \A e \in Execs :
          \/ exec'[e] = Idle
          \/ exec'[e] \in {exec[e], Cancelled(e)} /\ run'[e] = run[e]
    BY <1>7 DEF Shutdown, Cancelled, InStore
  <2> QED BY <1>5, <2>1, <2>2
<1>8. ASSUME NEW p \in Servers, Crash(p) \/ Exit(p)
      PROVE  Quiet
  <2>1. Down(p)
    BY <1>8 DEF Crash, Exit
  <2>2. UNCHANGED <<row, running, claimAge, dueIn, lastStart>>
    BY <2>1 DEF Down
  <2>3. \A e \in Execs : exec'[e] = Idle \/ (exec'[e] = exec[e] /\ run'[e] = run[e])
    BY <2>1 DEF Down
  <2> QED BY <1>5, <2>2, <2>3
<1>9. ASSUME NEW p \in Servers, ClaimRaises(p) \/ BatchDone(p) \/ Restart(p)
      PROVE  Quiet
  BY <1>9 DEF ClaimRaises, BatchDone, Restart, Quiet, Live
<1>10. CASE UNCHANGED vars
  BY <1>10 DEF vars, Quiet, Live
<1> QED BY <1>2, <1>3, <1>4, <1>6, <1>7, <1>8, <1>9, <1>10 DEF Fault

\* Steps that write one schedule's row, without a start.
LEMMA RowStep ==
  ASSUME TypeOK, SpacingInv, NEW s \in Schedules,
         lastStart' = lastStart,
         \A r \in Schedules \ {s} :
           /\ row'[r] = row[r] /\ running'[r] = running[r]
           /\ claimAge'[r] = claimAge[r] /\ dueIn'[r] = dueIn[r],
         NeverStarted(s)', NotYet(s)',
         \A e \in Execs : SinceStart(e)'
  PROVE  SpacingInv'
  BY DEF SpacingInv, NeverStarted, NotYet

LEMMA RunNowStep ==
  ASSUME TypeOK, SpacingInv, NEW p \in Servers, NEW s \in Schedules, NEW lag \in 0 .. TxDelay,
         RunNow(p, s, lag)
  PROVE  SpacingInv'
<1>1. PICK d \in Execs : d = SlotFor(s, {}) /\ ScheduleOf[d] = s
  BY SlotIsFree DEF RunNow
<1>2. /\ exec' = [exec EXCEPT ![d] = Claimed(p, FALSE)]
      /\ run' = [run EXCEPT ![d] = [status |-> "none", age |-> lag]]
      /\ running' = [running EXCEPT ![s] = TRUE]
      /\ claimAge' = [claimAge EXCEPT ![s] = lag]
      /\ UNCHANGED <<row, dueIn, lastStart>>
      /\ row[s] = "present" /\ ~running[s]
  BY <1>1 DEF RunNow, table
<1>3. \A r \in Schedules \ {s} : running'[r] = running[r] /\ claimAge'[r] = claimAge[r]
  BY <1>2 DEF TypeOK
<1>4. NeverStarted(s)' /\ NotYet(s)'
  BY <1>2 DEF SpacingInv, NeverStarted, NotYet
<1>5. \A e \in Execs : SinceStart(e)'
  <2>1. SinceStart(d)'
    <3>1. run'[d].age = lag
      BY <1>2 DEF TypeOK
    <3>2. lastStart[s] \in 0 .. AgeCap
      BY Columns
    <3> QED BY <1>1, <1>2, <3>1, <3>2 DEF SinceStart
  <2>2. \A e \in Execs : e # d => exec'[e] = exec[e] /\ run'[e] = run[e]
    BY <1>2 DEF TypeOK
  <2> QED BY <1>2, <2>1, <2>2 DEF SpacingInv, SinceStart, Live
<1> QED BY <1>2, <1>3, <1>4, <1>5, RowStep

\* What a start is done with, the schedule is not due for an interval.
LEMMA FinishStep ==
  ASSUME TypeOK, SpacingInv, NEW e \in Execs, Finish(e)
  PROVE  SpacingInv'
<1> DEFINE s == ScheduleOf[e]
           next == Interval[s] - run[e].age
<1>1. s \in Schedules /\ Live(e) /\ run[e].age \in Nat
  BY FieldTypes DEF Finish, Live
<1>2. /\ exec' = [exec EXCEPT ![e] = Idle]
      /\ \A d \in Execs : d # e => run'[d] = run[d]
      /\ UNCHANGED <<row, lastStart>>
      /\ row[s] = "present" =>
           /\ running' = [running EXCEPT ![s] = FALSE]
           /\ claimAge' = [claimAge EXCEPT ![s] = 0]
           /\ dueIn' = [dueIn EXCEPT ![s] = IF next < -OverdueCap THEN -OverdueCap ELSE next]
      /\ row[s] # "present" => UNCHANGED <<running, claimAge, dueIn>>
  BY DEF Finish, TypeOK
<1>3. \A r \in Schedules \ {s} :
        running'[r] = running[r] /\ claimAge'[r] = claimAge[r] /\ dueIn'[r] = dueIn[r]
  BY <1>2 DEF TypeOK
<1>4. NotYet(s)'
  <2> SUFFICES ASSUME row[s] = "present"
               PROVE  Interval[s] <= dueIn'[s] + lastStart[s] + TxDelay
    BY <1>2 DEF NotYet
  <2>1. dueIn'[s] = IF next < -OverdueCap THEN -OverdueCap ELSE next
    BY <1>1, <1>2 DEF TypeOK
  <2>2. lastStart[s] \in 0 .. AgeCap /\ Interval[s] \in Nat
    BY <1>1, Columns
  <2>3. run[e].age <= lastStart[s] + TxDelay
    BY <1>1 DEF SpacingInv, SinceStart
  <2> QED BY <1>1, <2>1, <2>2, <2>3
<1>5. \A d \in Execs : SinceStart(d)'
  <2>1. ~Live(e)'
    BY <1>2 DEF Live, Idle, TypeOK
  <2>2. \A d \in Execs : d # e => exec'[d] = exec[d]
    BY <1>2 DEF TypeOK
  <2> QED BY <1>2, <2>1, <2>2 DEF SpacingInv, SinceStart, Live
<1>6. NeverStarted(s)'
  BY <1>1, <1>2 DEF SpacingInv, NeverStarted
<1> HIDE DEF s
<1> QED BY <1>1, <1>2, <1>3, <1>4, <1>5, <1>6, RowStep

\* A start leaves its execution the only one of its schedule, and a claim that is
\* released for its age was made a lease ago.
LEMMA ClaimStep ==
  ASSUME TypeOK, NoOverlap', SpacingInv, NEW p \in Servers, NEW lag \in 0 .. TxDelay,
         ClaimDue(p, lag)
  PROVE  SpacingInv'
<1> DEFINE batch == FirstDue(lag)
           interrupted == StaleRuns(lag)
           started == {SlotFor(s, interrupted) : s \in batch}
<1>1. batch \subseteq Schedules /\ \A s \in batch : row[s] = "present"
  BY DEF FirstDue, Due
<1>2. /\ \A s \in batch : FreeSlots(s, interrupted) # {}
      /\ running' = [s \in Schedules |-> s \in batch \/ (running[s] /\ s \notin StaleClaims(lag))]
      /\ claimAge' = [s \in Schedules |->
                        IF s \in batch THEN lag
                        ELSE IF s \in StaleClaims(lag) THEN 0 ELSE claimAge[s]]
      /\ run' = [e \in Execs |->
                   IF e \in started THEN [status |-> "none", age |-> lag]
                   ELSE IF e \in interrupted
                        THEN [status |-> "interrupted", age |-> IF Live(e) THEN run[e].age ELSE 0]
                        ELSE run[e]]
      /\ exec' = [e \in Execs |-> IF e \in started THEN Claimed(p, TRUE) ELSE exec[e]]
      /\ lastStart' = [s \in Schedules |-> IF s \in batch THEN lag ELSE lastStart[s]]
      /\ UNCHANGED <<row, dueIn>>
  BY DEF ClaimDue, table
<1>3. \A s \in batch : /\ SlotFor(s, interrupted) \in Execs \cap started
                       /\ ScheduleOf[SlotFor(s, interrupted)] = s
  BY <1>1, <1>2, SlotIsFree
<1>4. \A e \in started : e \in Execs /\ ScheduleOf[e] \in batch
  BY <1>3
<1> HIDE DEF batch, interrupted, started
<1>5. \A s \in Schedules : NeverStarted(s)'
  BY <1>1, <1>2 DEF SpacingInv, NeverStarted
<1>6. ASSUME NEW s \in Schedules
      PROVE  NotYet(s)'
  <2>1. CASE s \in batch
    <3>1. running'[s] /\ claimAge'[s] = lag /\ lastStart'[s] = lag
      BY <1>2, <2>1
    <3> QED BY <3>1 DEF NotYet
  <2>2. CASE s \notin batch /\ s \in StaleClaims(lag)
    <3> SUFFICES ASSUME row[s] = "present", lastStart[s] < AgeCap
                 PROVE  \/ Interval[s] <= dueIn[s] + lastStart[s] + TxDelay
                        \/ StaleAfter <= lastStart[s] + TxDelay
      BY <1>2, <2>2 DEF NotYet
    <3>1. claimAge[s] - lag >= StaleAfter
      BY <2>2 DEF StaleClaims
    <3>2. lastStart[s] \in 0 .. AgeCap /\ claimAge[s] \in 0 .. AgeCap
      BY Columns
    <3>3. claimAge[s] <= lastStart[s] + TxDelay => StaleAfter <= lastStart[s] + TxDelay
      BY <3>1, <3>2
    <3> QED BY <3>3 DEF SpacingInv, NotYet
  <2>3. CASE s \notin batch /\ s \notin StaleClaims(lag)
    <3>1. /\ running'[s] = (s \in batch \/ (running[s] /\ s \notin StaleClaims(lag)))
          /\ claimAge'[s] = claimAge[s] /\ lastStart'[s] = lastStart[s]
      BY <1>2, <2>3
    <3>2. running[s] => running'[s]
      BY <2>3, <3>1
    <3> QED BY <1>2, <3>1, <3>2 DEF SpacingInv, NotYet
  <2> QED BY <2>1, <2>2, <2>3
<1>7. ASSUME NEW e \in Execs, Live(e)'
      PROVE  run'[e].age <= lastStart'[ScheduleOf[e]] + TxDelay
  <2>1. CASE e \in started
    BY <1>1, <1>2, <1>4, <2>1
  <2>2. CASE e \notin started
    <3>1. Live(e)
      BY <1>2, <1>7, <2>2 DEF Live
    <3>2. run'[e].age = run[e].age
      BY <1>2, <2>2, <3>1
    <3>3. ScheduleOf[e] \notin batch
      <4> SUFFICES ASSUME ScheduleOf[e] \in batch PROVE FALSE
        OBVIOUS
      <4>1. PICK d \in Execs : d \in started /\ ScheduleOf[d] = ScheduleOf[e]
        BY <1>3
      <4>2. Live(d)'
        BY <1>2, <4>1 DEF Live, Claimed
      <4> QED BY <1>7, <2>2, <4>1, <4>2 DEF NoOverlap
    <3>4. lastStart'[ScheduleOf[e]] = lastStart[ScheduleOf[e]]
      BY <1>2, <3>3, FieldTypes
    <3> QED BY <3>1, <3>2, <3>4 DEF SpacingInv, SinceStart
  <2> QED BY <2>1, <2>2
<1>8. \A e \in Execs : SinceStart(e)'
  BY <1>7 DEF SinceStart
<1> QED BY <1>5, <1>6, <1>8 DEF SpacingInv

\* Time passes alike for all of them.
LEMMA TickSpacing ==
  ASSUME TypeOK, SpacingInv, Tick
  PROVE  SpacingInv'
<1>1. ASSUME NEW s \in Schedules
      PROVE  NeverStarted(s)' /\ NotYet(s)'
  <2>1. /\ row' = row /\ running' = running
        /\ lastStart'[s] = Older(lastStart[s])
        /\ claimAge'[s] = IF running[s] THEN Older(claimAge[s]) ELSE 0
        /\ dueIn'[s] = IF row[s] = "present" /\ dueIn[s] > -OverdueCap
                       THEN dueIn[s] - 1 ELSE dueIn[s]
    BY DEF Tick
  <2>2. /\ lastStart[s] \in 0 .. AgeCap /\ claimAge[s] \in 0 .. AgeCap
        /\ dueIn[s] \in Int /\ Interval[s] \in Nat
    BY Columns
  <2>3. NeverStarted(s)'
    BY <2>1, <2>2 DEF SpacingInv, NeverStarted, Older
  <2>4. NotYet(s)'
    <3> SUFFICES ASSUME row[s] = "present", lastStart'[s] < AgeCap
                 PROVE  \/ Interval[s] <= dueIn'[s] + lastStart'[s] + TxDelay
                        \/ running[s] /\ claimAge'[s] <= lastStart'[s] + TxDelay
                        \/ StaleAfter <= lastStart'[s] + TxDelay
      BY <2>1 DEF NotYet
    <3>1. lastStart[s] < AgeCap /\ lastStart'[s] = lastStart[s] + 1
      BY <2>1, <2>2 DEF Older
    <3>2. CASE Interval[s] <= dueIn[s] + lastStart[s] + TxDelay
      <4>1. dueIn'[s] >= dueIn[s] - 1 /\ dueIn'[s] \in Int
        BY <2>1, <2>2
      <4> QED BY <2>2, <3>1, <3>2, <4>1
    <3>3. CASE running[s] /\ claimAge[s] <= lastStart[s] + TxDelay
      BY <2>1, <2>2, <3>1, <3>3 DEF Older
    <3>4. CASE StaleAfter <= lastStart[s] + TxDelay
      BY <2>2, <3>1, <3>4
    <3> QED BY <3>1, <3>2, <3>3, <3>4 DEF SpacingInv, NotYet
  <2> QED BY <2>3, <2>4
<1>2. ASSUME NEW e \in Execs, Live(e)'
      PROVE  run'[e].age <= lastStart'[ScheduleOf[e]] + TxDelay
  <2>1. Live(e)
    BY <1>2 DEF Tick, Live
  <2>2. run[e] \in RunRow /\ ScheduleOf[e] \in Schedules
    BY FieldTypes DEF TypeOK
  <2>3. run'[e].age = Older(run[e].age) /\ run[e].age \in 0 .. AgeCap
    BY <2>1, <2>2 DEF Tick, RunRow
  <2>4. lastStart'[ScheduleOf[e]] = Older(lastStart[ScheduleOf[e]])
    BY <2>2 DEF Tick
  <2>5. lastStart[ScheduleOf[e]] \in 0 .. AgeCap
    BY <2>2, Columns
  <2>6. run[e].age <= lastStart[ScheduleOf[e]] + TxDelay
    BY <2>1 DEF SpacingInv, SinceStart
  <2> QED BY <2>3, <2>4, <2>5, <2>6 DEF Older
<1> QED BY <1>1, <1>2 DEF SpacingInv, SinceStart

LEMMA OperatorStep ==
  ASSUME TypeOK, SpacingInv, NEW s \in Schedules, NEW lag \in 0 .. TxDelay,
         \/ CreateSchedule(s, lag)
         \/ \E value \in BOOLEAN : SetEnabled(s, value, lag)
         \/ DeleteSchedule(s)
  PROVE  SpacingInv'
<1>1. \A e \in Execs : SinceStart(e)'
  BY DEF CreateSchedule, SetEnabled, DeleteSchedule, SpacingInv, SinceStart, Live
<1>2. lastStart' = lastStart /\ lastStart[s] \in 0 .. AgeCap
  BY Columns DEF CreateSchedule, SetEnabled, DeleteSchedule
<1>3. \A r \in Schedules \ {s} :
        /\ row'[r] = row[r] /\ running'[r] = running[r]
        /\ claimAge'[r] = claimAge[r] /\ dueIn'[r] = dueIn[r]
  BY DEF CreateSchedule, SetEnabled, DeleteSchedule, TypeOK
<1>4. NeverStarted(s)' /\ NotYet(s)'
  <2>1. CASE CreateSchedule(s, lag)
    BY <1>2, <2>1 DEF CreateSchedule, SpacingInv, NeverStarted, NotYet, TypeOK
  <2>2. CASE \E value \in BOOLEAN : SetEnabled(s, value, lag)
    <3>1. /\ running[s] => claimAge'[s] <= lastStart[s] + TxDelay
          /\ UNCHANGED <<row, running, dueIn>>
      BY <1>2, <2>2 DEF SetEnabled, TypeOK
    <3> QED BY <1>2, <3>1 DEF SpacingInv, NeverStarted, NotYet
  <2>3. CASE DeleteSchedule(s)
    BY <2>3 DEF DeleteSchedule, NeverStarted, NotYet, TypeOK
  <2> QED BY <2>1, <2>2, <2>3
<1> QED BY <1>1, <1>2, <1>3, <1>4, RowStep

LEMMA SpacingStep ==
  ASSUME TypeOK, NoOverlap', SpacingInv, [Next]_vars
  PROVE  SpacingInv'
<1>1. CASE Edit
  <2>1. 0 \in 0 .. TxDelay
    OBVIOUS
  <2> QED BY <1>1, <2>1, OperatorStep DEF Edit
<1>2. CASE \E s \in Schedules, p \in Servers, lag \in 0 .. TxDelay : RunNow(p, s, lag)
  BY <1>2, RunNowStep
<1>3. CASE \E e \in Execs : Finish(e)
  BY <1>3, FinishStep
<1>4. CASE \E p \in Servers, lag \in 0 .. TxDelay : ClaimDue(p, lag)
  BY <1>4, ClaimStep
<1>5. CASE Tick
  BY <1>5, TickSpacing
<1>6. CASE \/ \E e \in Execs : \/ InsertRun(e) \/ AttemptSucceeds(e) \/ AttemptFails(e)
                               \/ BackoffEnds(e) \/ CancelUnwinds(e)
           \/ Fault
           \/ \E p \in Servers : BatchDone(p) \/ Exit(p) \/ Restart(p)
           \/ UNCHANGED vars
  BY <1>6, QuietActions, QuietStep
<1> QED BY <1>1, <1>2, <1>3, <1>4, <1>5, <1>6 DEF Next, Operate, Edit, Execute, Serve, Claim

\* The loop does not start a schedule before its interval is over, or a lease when
\* the first start died, whichever manual runs, edits, crashes and late finishers
\* move next_run_at and updated_at meanwhile.
THEOREM StartsAreSpaced == LeaseLongEnough => (Spec => SpacedStarts)
<1> SUFFICES ASSUME LeaseLongEnough PROVE Spec => SpacedStarts
  OBVIOUS
<1>1. Init => SpacingInv
  BY DEF Init, SpacingInv, NeverStarted, NotYet, SinceStart, Live, Idle
<1>2. TypeOK /\ NoOverlap' /\ SpacingInv /\ [Next]_vars => SpacingInv'
  BY SpacingStep
<1> DEFINE Apart(s, lag) ==
             \/ lastStart[s] - lag + TxDelay >= Interval[s]
             \/ lastStart[s] - lag + 2 * TxDelay >= StaleAfter
           Spacing == \A s \in Schedules : \A p \in Servers, lag \in 0 .. TxDelay :
                        ClaimDue(p, lag) /\ s \in FirstDue(lag) /\ lastStart[s] < AgeCap =>
                          Apart(s, lag)
<1>3. TypeOK /\ SpacingInv => Spacing
  <2> SUFFICES ASSUME TypeOK, SpacingInv, NEW s \in Schedules, NEW lag \in 0 .. TxDelay,
                      s \in FirstDue(lag), lastStart[s] < AgeCap
               PROVE  Apart(s, lag)
    OBVIOUS
  <2>1. /\ row[s] = "present" /\ dueIn[s] <= -lag
        /\ running[s] => claimAge[s] - lag >= StaleAfter
    BY DEF FirstDue, Due, StaleClaims
  <2>2. /\ lastStart[s] \in 0 .. AgeCap /\ claimAge[s] \in 0 .. AgeCap
        /\ dueIn[s] \in Int /\ Interval[s] \in Nat
    BY Columns
  <2>3. CASE Interval[s] <= dueIn[s] + lastStart[s] + TxDelay
    BY <2>1, <2>2, <2>3
  <2>4. CASE running[s] /\ claimAge[s] <= lastStart[s] + TxDelay
    BY <2>1, <2>2, <2>4
  <2>5. CASE StaleAfter <= lastStart[s] + TxDelay
    BY <2>2, <2>5
  <2> QED BY <2>1, <2>3, <2>4, <2>5 DEF SpacingInv, NotYet
<1>4. Spacing => [Spacing]_vars
  OBVIOUS
<1> QED BY <1>1, <1>2, <1>3, TypeCorrect, MutualExclusion, PTL DEF Spec, SpacedStarts

-----------------------------------------------------------------------------
(* The scheduler implements JobLedger, when the lease outlives the longest
   execution. *)

\* What an execution that closes its run records.
HasOutcome ==
  \A e \in Execs : exec[e].pc = "finish" => exec[e].outcome \in Ledger!Outcomes

\* A step of one execution that ends, goes on or has its outcome.
LEMMA OneOutcome ==
  ASSUME TypeOK, HasOutcome, NEW e \in Execs, NEW x, exec' = [exec EXCEPT ![e] = x],
         x.pc = "finish" => x.outcome \in Ledger!Outcomes
  PROVE  HasOutcome'
<1>1. exec'[e] = x /\ \A d \in Execs : d # e => exec'[d] = exec[d]
  BY DEF TypeOK
<1> QED BY <1>1 DEF HasOutcome, Ledger!Outcomes

\* A step in which executions are cancelled, ended or begun, and none finishes.
LEMMA NoNewFinish ==
  ASSUME HasOutcome, \A e \in Execs : \/ exec'[e].pc = exec[e].pc /\ exec'[e].outcome = exec[e].outcome
                                      \/ exec'[e].pc # "finish"
  PROVE  HasOutcome'
  BY DEF HasOutcome, Ledger!Outcomes

LEMMA CancelledNotFinish ==
  ASSUME NEW e \in Execs
  PROVE  Cancelled(e).pc # "finish" \/ Cancelled(e) = exec[e]
  BY DEF Cancelled, Move, Idle

LEMMA OutcomeStep == TypeOK /\ HasOutcome /\ [Next]_vars => HasOutcome'
<1> SUFFICES ASSUME TypeOK, HasOutcome, [Next]_vars PROVE HasOutcome'
  OBVIOUS
<1> USE DEF table
<1>1. CASE exec' = exec
  BY <1>1, NoNewFinish
<1>2. ASSUME NEW p \in Servers, NEW s \in Schedules, NEW lag \in 0 .. TxDelay, RunNow(p, s, lag)
      PROVE  HasOutcome'
  <2>1. PICK d \in Execs : exec' = [exec EXCEPT ![d] = Claimed(p, FALSE)]
    BY <1>2, SlotIsFree DEF RunNow
  <2> QED BY <2>1, OneOutcome DEF Claimed
<1>3. ASSUME NEW e \in Execs, InsertRun(e) PROVE HasOutcome'
  BY <1>3, OneOutcome DEF InsertRun, Move, Ledger!Outcomes
<1>4. ASSUME NEW e \in Execs, Raise(e) PROVE HasOutcome'
  BY <1>4, OneOutcome DEF Raise, Idle
<1>5. ASSUME NEW e \in Execs, AttemptSucceeds(e) \/ CancelUnwinds(e) PROVE HasOutcome'
  BY <1>5, OneOutcome DEF AttemptSucceeds, CancelUnwinds, ToFinish, Move, Ledger!Outcomes
<1>6. ASSUME NEW e \in Execs, AttemptFails(e) PROVE HasOutcome'
  <2>1. CASE exec[e].attempt >= AttemptLimit(ScheduleOf[e])
    BY <1>6, <2>1, OneOutcome DEF AttemptFails, ToFinish, Move, Ledger!Outcomes
  <2>2. CASE ~(exec[e].attempt >= AttemptLimit(ScheduleOf[e]))
    BY <1>6, <2>2, OneOutcome DEF AttemptFails, Move
  <2> QED BY <2>1, <2>2
<1>7. ASSUME NEW e \in Execs, BackoffEnds(e) \/ Finish(e) PROVE HasOutcome'
  BY <1>7, OneOutcome DEF BackoffEnds, Finish, Move, Idle
<1>8. ASSUME NEW e \in Execs, CancelRunNow(e) PROVE HasOutcome'
  <2>1. \A d \in Execs : exec'[d] = IF d = e THEN Cancelled(e) ELSE exec[d]
    BY <1>8 DEF CancelRunNow, TypeOK
  <2> QED BY <2>1, CancelledNotFinish, NoNewFinish
<1>9. ASSUME NEW p \in Servers, Shutdown(p) PROVE HasOutcome'
  <2>1. \A d \in Execs : exec'[d] = Cancelled(d) \/ exec'[d] = exec[d]
    BY <1>9 DEF Shutdown
  <2> QED BY <2>1, CancelledNotFinish, NoNewFinish
<1>10. ASSUME NEW p \in Servers, Crash(p) \/ Exit(p) PROVE HasOutcome'
  <2>1. \A d \in Execs : exec'[d] = Idle \/ exec'[d] = exec[d]
    BY <1>10 DEF Crash, Exit, Down
  <2> QED BY <2>1, NoNewFinish DEF Idle
<1>11. ASSUME NEW p \in Servers, NEW lag \in 0 .. TxDelay, ClaimDue(p, lag) PROVE HasOutcome'
  <2>1. \A d \in Execs : exec'[d] = Claimed(p, TRUE) \/ exec'[d] = exec[d]
    BY <1>11 DEF ClaimDue
  <2> QED BY <2>1, NoNewFinish DEF Claimed
<1>12. ASSUME Tick PROVE HasOutcome'
  <2>1. \A d \in Execs : exec'[d].pc = exec[d].pc /\ exec'[d].outcome = exec[d].outcome
    BY <1>12 DEF Tick, TypeOK, Exec
  <2> QED BY <2>1, NoNewFinish
<1>13. ASSUME \/ Edit
              \/ \E p \in Servers : ClaimRaises(p) \/ BatchDone(p) \/ Restart(p)
              \/ UNCHANGED vars
       PROVE  exec' = exec
  BY <1>13 DEF Edit, CreateSchedule, DeleteSchedule, SetEnabled, ClaimRaises, BatchDone, Restart, vars
<1>14. ASSUME NEW e \in Execs, InsertRaises(e) \/ FinishRaises(e) PROVE HasOutcome'
  BY <1>4, <1>14 DEF InsertRaises, FinishRaises
<1> QED BY <1>1, <1>2, <1>3, <1>5, <1>6, <1>7, <1>8, <1>9, <1>10, <1>11, <1>12, <1>13, <1>14
        DEF Next, Operate, Edit, Execute, Fault, Serve, Claim

-----------------------------------------------------------------------------
LedgerVars == <<LiveExecs, Statuses, ClaimedSchedules>>

\* A step that writes no status and no claim and begins no execution is the end of
\* those whose coroutines it ends, or nothing.
LEMMA LedgerDies ==
  ASSUME \A e \in Execs : Live(e)' => Live(e),
         \A e \in Execs : run'[e].status = run[e].status,
         \A s \in Schedules : running'[s] = running[s]
  PROVE  Ledger!Next
<1> DEFINE E == {e \in Execs : Live(e) /\ ~Live(e)'}
<1>1. E \in SUBSET LiveExecs
  BY DEF LiveExecs
<1>2. LiveExecs' = LiveExecs \ E
  BY DEF LiveExecs
<1>3. Statuses' = Statuses /\ ClaimedSchedules' = ClaimedSchedules
  BY DEF Statuses, ClaimedSchedules
<1> HIDE DEF E
<1>4. Ledger!Die(E)
  BY <1>2, <1>3 DEF Ledger!Die
<1> QED BY <1>1, <1>4 DEF Ledger!Next

\* Nearly every action is one: coroutines move on or end, and rows keep what the
\* ledger shows of them.
LEMMA QuietLedger ==
  ASSUME TypeOK, \/ Edit
                 \/ \E e \in Execs : \/ AttemptSucceeds(e) \/ AttemptFails(e)
                                     \/ BackoffEnds(e) \/ CancelUnwinds(e)
                 \/ Fault \/ Tick \/ UNCHANGED vars
                 \/ \E p \in Servers : BatchDone(p) \/ Exit(p) \/ Restart(p)
  PROVE  Ledger!Next
<1> USE DEF table
<1>1. \A r \in RunRow : Settled(r).status = r.status
  BY DEF Settled
<1>2. running' = running
  BY DEF Edit, CreateSchedule, DeleteSchedule, SetEnabled, AttemptSucceeds, AttemptFails, BackoffEnds,
         CancelUnwinds, Fault, InsertRaises, FinishRaises, CancelRunNow, ClaimRaises, Crash, Shutdown,
         Down, Tick, BatchDone, Exit, Restart, vars
<1>3. ASSUME NEW e \in Execs, Raise(e), exec[e].pc \in {"insert", "finish"}
      PROVE  /\ \A d \in Execs : Live(d)' => Live(d)
             /\ \A d \in Execs : run'[d].status = run[d].status
  <2>1. \A d \in Execs : exec'[d] = IF d = e THEN Idle ELSE exec[d]
    BY <1>3 DEF Raise, TypeOK
  <2>2. \A d \in Execs : run'[d] = IF d = e THEN Settled(run[e]) ELSE run[d]
    BY <1>3 DEF Raise, TypeOK
  <2> QED BY <1>1, <2>1, <2>2 DEF Live, Idle, TypeOK
<1>4. ASSUME NEW e \in Execs,
             \/ AttemptSucceeds(e) \/ AttemptFails(e) \/ BackoffEnds(e) \/ CancelUnwinds(e)
      PROVE  /\ \A d \in Execs : Live(d)' => Live(d)
             /\ \A d \in Execs : run'[d].status = run[d].status
  <2>1. run' = run /\ Live(e)
    BY <1>4 DEF AttemptSucceeds, AttemptFails, BackoffEnds, CancelUnwinds, Live
  <2>2. \A d \in Execs : d # e => exec'[d] = exec[d]
    BY <1>4 DEF AttemptSucceeds, AttemptFails, BackoffEnds, CancelUnwinds, ToFinish, TypeOK
  <2> QED BY <2>1, <2>2 DEF Live
<1>5. \A d \in Execs : Cancelled(d).pc # "idle" => Live(d)
  BY DEF Cancelled, InStore, Live, Idle
<1>6. ASSUME NEW e \in Execs, CancelRunNow(e)
      PROVE  /\ \A d \in Execs : Live(d)' => Live(d)
             /\ \A d \in Execs : run'[d].status = run[d].status
  <2>1. \A d \in Execs : exec'[d] = IF d = e THEN Cancelled(e) ELSE exec[d]
    BY <1>6 DEF CancelRunNow, TypeOK
  <2>2. \A d \in Execs : run'[d] = run[d] \/ run'[d] = Settled(run[d])
    BY <1>6 DEF CancelRunNow, TypeOK
  <2> QED BY <1>1, <1>5, <2>1, <2>2 DEF Live, TypeOK
<1>7. ASSUME NEW p \in Servers, Shutdown(p) \/ Crash(p) \/ Exit(p)
      PROVE  /\ \A d \in Execs : Live(d)' => Live(d)
             /\ \A d \in Execs : run'[d].status = run[d].status
  <2>1. \A d \in Execs : exec'[d] \in {Cancelled(d), Idle, exec[d]}
    BY <1>7 DEF Shutdown, Crash, Exit, Down
  <2>2. \A d \in Execs : run'[d] = run[d] \/ run'[d] = Settled(run[d])
    BY <1>7 DEF Shutdown, Crash, Exit, Down
  <2> QED BY <1>1, <1>5, <2>1, <2>2 DEF Live, Idle, TypeOK
<1>8. ASSUME Tick
      PROVE  /\ \A d \in Execs : Live(d)' => Live(d)
             /\ \A d \in Execs : run'[d].status = run[d].status
  <2>1. \A d \in Execs : Live(d)' => Live(d)
    BY <1>8 DEF Tick, Live
  <2>2. \A d \in Execs : run'[d].status = run[d].status
    BY <1>8 DEF Tick, TypeOK, RunRow
  <2> QED BY <2>1, <2>2
<1>9. ASSUME exec' = exec, run' = run
      PROVE  /\ \A d \in Execs : Live(d)' => Live(d)
             /\ \A d \in Execs : run'[d].status = run[d].status
  BY <1>9 DEF Live
<1>10. /\ \A d \in Execs : Live(d)' => Live(d)
       /\ \A d \in Execs : run'[d].status = run[d].status
  <2>1. CASE \E e \in Execs : InsertRaises(e) \/ FinishRaises(e)
    BY <1>3, <2>1 DEF InsertRaises, FinishRaises
  <2>2. CASE Edit
    BY <1>9, <2>2 DEF Edit, CreateSchedule, DeleteSchedule, SetEnabled
  <2>3. CASE UNCHANGED vars \/ \E p \in Servers : ClaimRaises(p) \/ BatchDone(p) \/ Restart(p)
    BY <1>9, <2>3 DEF vars, ClaimRaises, BatchDone, Restart
  <2> QED BY <1>4, <1>6, <1>7, <1>8, <2>1, <2>2, <2>3 DEF Fault
<1> QED BY <1>2, <1>10, LedgerDies

LEMMA RunNowLedger ==
  ASSUME TypeOK, NEW p \in Servers, NEW s \in Schedules, NEW lag \in 0 .. TxDelay, RunNow(p, s, lag)
  PROVE  Ledger!Next
<1>1. PICK d \in Execs : d = SlotFor(s, {}) /\ d \in FreeSlots(s, {})
  BY DEF RunNow, SlotFor, FreeSlots
<1>2. /\ exec' = [exec EXCEPT ![d] = Claimed(p, FALSE)]
      /\ run' = [run EXCEPT ![d] = [status |-> "none", age |-> lag]]
      /\ running' = [running EXCEPT ![s] = TRUE]
      /\ ~running[s] /\ ScheduleOf[d] = s /\ ~Live(d) /\ run[d].status # "running"
  BY <1>1 DEF RunNow, FreeSlots
<1>3. /\ exec'[d].pc = "insert" /\ run'[d].status = "none"
      /\ \A e \in Execs : e # d => exec'[e] = exec[e] /\ run'[e] = run[e]
      /\ \A r \in Schedules : running'[r] = (r = s \/ running[r])
  BY <1>2 DEF TypeOK, Claimed
<1>4. LiveExecs' = LiveExecs \cup {d}
  BY <1>3 DEF LiveExecs, Live
<1>5. Statuses' = [e \in Execs |-> IF e \in {d} THEN "none"
                                   ELSE IF e \in {} THEN "interrupted" ELSE Statuses[e]]
  BY <1>3 DEF Statuses
<1>6. ClaimedSchedules' = (ClaimedSchedules \ {}) \cup {ScheduleOf[e] : e \in {d}}
  <2>1. {ScheduleOf[e] : e \in {d}} = {s}
    BY <1>2
  <2>2. ClaimedSchedules' = ClaimedSchedules \cup {s}
    BY <1>3 DEF ClaimedSchedules
  <2> QED BY <2>1, <2>2
<1>7. Ledger!Claim({d}, {}, {})
  BY <1>2, <1>4, <1>5, <1>6 DEF Ledger!Claim, LiveExecs, Statuses, ClaimedSchedules
<1>8. {d} \in SUBSET Execs /\ {} \in SUBSET Execs /\ {} \in SUBSET Schedules
  OBVIOUS
<1> QED BY <1>7, <1>8 DEF Ledger!Next

LEMMA InsertLedger ==
  ASSUME TypeOK, LeaseInv, NEW e \in Execs, InsertRun(e)
  PROVE  Ledger!Next
<1>1. Live(e) /\ run[e].status = "none"
  BY DEF InsertRun, Live, LeaseInv, RunOpen
<1>2. /\ \A d \in Execs : run'[d].status = IF d = e THEN "running" ELSE run[d].status
      /\ \A d \in Execs : d # e => exec'[d] = exec[d]
      /\ exec'[e].pc # "idle" /\ running' = running
  BY DEF InsertRun, TypeOK, Move
<1>3. LiveExecs' = LiveExecs
  BY <1>1, <1>2 DEF LiveExecs, Live
<1>4. Statuses' = [Statuses EXCEPT ![e] = "running"]
  BY <1>2 DEF Statuses
<1>5. ClaimedSchedules' = ClaimedSchedules
  BY <1>2 DEF ClaimedSchedules
<1> QED BY <1>1, <1>3, <1>4, <1>5 DEF Ledger!Next, Ledger!Open, LiveExecs, Statuses

\* The claim a finished execution releases is its own.
LEMMA FinishLedger ==
  ASSUME TypeOK, LeaseInv, HasOutcome, NEW e \in Execs, Finish(e)
  PROVE  Ledger!Next
<1> DEFINE s == ScheduleOf[e]
           outcome == exec[e].outcome
<1>1. Live(e) /\ run[e].status = "running" /\ row[s] = "present"
  BY DEF Finish, Live, LeaseInv, RunOpen, HoldsClaim
<1>2. outcome \in Ledger!Outcomes
  BY DEF Finish, HasOutcome
<1>3. /\ \A d \in Execs : run'[d].status = IF d = e THEN outcome ELSE run[d].status
      /\ \A d \in Execs : exec'[d] = IF d = e THEN Idle ELSE exec[d]
      /\ \A r \in Schedules : running'[r] = (r # s /\ running[r])
  BY <1>1 DEF Finish, TypeOK
<1>4. LiveExecs' = LiveExecs \ {e}
  BY <1>3 DEF LiveExecs, Live, Idle
<1>5. Statuses' = [Statuses EXCEPT ![e] = outcome]
  BY <1>3 DEF Statuses
<1>6. ClaimedSchedules' = ClaimedSchedules \ {ScheduleOf[e]}
  BY <1>3 DEF ClaimedSchedules
<1> HIDE DEF outcome
<1>7. Ledger!Close(e, outcome)
  BY <1>1, <1>4, <1>5, <1>6 DEF Ledger!Close, LiveExecs, Statuses
<1> QED BY <1>2, <1>7 DEF Ledger!Next

\* What recovery closes and releases is dead, and what is due has no execution.
LEMMA ClaimLedger ==
  ASSUME LeaseLongEnough, TypeOK, LeaseInv, NEW p \in Servers, NEW lag \in 0 .. TxDelay,
         ClaimDue(p, lag)
  PROVE  Ledger!Next
<1> DEFINE batch == FirstDue(lag)
           I == StaleRuns(lag)
           S == StaleClaims(lag)
           E == {SlotFor(s, I) : s \in batch}
<1>1. /\ batch \subseteq Schedules /\ S \subseteq Schedules /\ I \subseteq Execs
      /\ \A s \in batch : running[s] => s \in S
      /\ \A s \in S : running[s]
      /\ \A e \in I : run[e].status = "running"
  BY DEF FirstDue, Due, StaleRuns, StaleClaims
<1>2. \A s \in batch : SlotFor(s, I) \in FreeSlots(s, I)
  BY DEF ClaimDue, SlotFor
<1>3. /\ \A e \in E : /\ e \in Execs /\ ~Live(e) /\ ScheduleOf[e] \in batch
                      /\ run[e].status = "running" => e \in I
      /\ \A d, e \in E : ScheduleOf[d] = ScheduleOf[e] => d = e
      /\ {ScheduleOf[e] : e \in E} = batch
  <2>1. \A s \in batch : /\ SlotFor(s, I) \in Execs /\ ScheduleOf[SlotFor(s, I)] = s
                         /\ ~Live(SlotFor(s, I))
                         /\ run[SlotFor(s, I)].status = "running" => SlotFor(s, I) \in I
    BY <1>2 DEF FreeSlots
  <2> HIDE DEF batch, I
  <2>2. \A e \in E : e = SlotFor(ScheduleOf[e], I) /\ ScheduleOf[e] \in batch
    BY <2>1
  <2> QED BY <2>1, <2>2
<1>4. \A e \in Execs : Live(e) => e \notin I /\ ScheduleOf[e] \notin S
  <2> SUFFICES ASSUME NEW e \in Execs, Live(e) PROVE e \notin I /\ ScheduleOf[e] \notin S
    OBVIOUS
  <2>1. AgeBounded(e) /\ run[e].age \in Nat /\ claimAge[ScheduleOf[e]] \in Nat
    BY FieldTypes DEF LeaseInv
  <2>2. run[e].age < StaleAfter /\ claimAge[ScheduleOf[e]] < StaleAfter
    BY <2>1, YoungWhileLive DEF AgeBounded
  <2> QED BY <2>1, <2>2 DEF StaleRuns, StaleClaims
<1>5. /\ \A e \in Execs : exec'[e] = IF e \in E THEN Claimed(p, TRUE) ELSE exec[e]
      /\ \A e \in Execs : run'[e].status = IF e \in E THEN "none"
                                           ELSE IF e \in I THEN "interrupted" ELSE run[e].status
      /\ \A s \in Schedules : running'[s] = (s \in batch \/ (running[s] /\ s \notin S))
  BY DEF ClaimDue
<1> HIDE DEF batch, I, S, E
<1>6. LiveExecs' = LiveExecs \cup E
  BY <1>3, <1>5 DEF LiveExecs, Live, Claimed
<1>7. Statuses' = [e \in Execs |-> IF e \in E THEN "none"
                                   ELSE IF e \in I THEN "interrupted" ELSE Statuses[e]]
  BY <1>5 DEF Statuses
<1>8. ClaimedSchedules' = (ClaimedSchedules \ S) \cup {ScheduleOf[e] : e \in E}
  BY <1>1, <1>3, <1>5 DEF ClaimedSchedules
<1>9. /\ (E \cup I) \cap LiveExecs = {}
      /\ \A e \in I : Statuses[e] = "running"
      /\ \A e \in E : /\ Statuses[e] = "running" => e \in I
                      /\ ScheduleOf[e] \notin ClaimedSchedules \ S
      /\ S \subseteq ClaimedSchedules
      /\ \A e \in LiveExecs : ScheduleOf[e] \notin S
  BY <1>1, <1>3, <1>4 DEF LiveExecs, Statuses, ClaimedSchedules
<1>10. Ledger!Claim(E, I, S)
  BY <1>3, <1>6, <1>7, <1>8, <1>9 DEF Ledger!Claim
<1>11. E \in SUBSET Execs /\ I \in SUBSET Execs /\ S \in SUBSET Schedules
  BY <1>1, <1>3
<1> QED BY <1>10, <1>11 DEF Ledger!Next

LEMMA LedgerStep ==
  ASSUME LeaseLongEnough, TypeOK, LeaseInv, HasOutcome, [Next]_vars
  PROVE  [Ledger!Next]_LedgerVars
<1>1. CASE \E s \in Schedules, p \in Servers, lag \in 0 .. TxDelay : RunNow(p, s, lag)
  BY <1>1, RunNowLedger
<1>2. CASE \E e \in Execs : InsertRun(e)
  BY <1>2, InsertLedger
<1>3. CASE \E e \in Execs : Finish(e)
  BY <1>3, FinishLedger
<1>4. CASE \E p \in Servers, lag \in 0 .. TxDelay : ClaimDue(p, lag)
  BY <1>4, ClaimLedger
<1>5. CASE \/ Edit
           \/ \E e \in Execs : \/ AttemptSucceeds(e) \/ AttemptFails(e)
                               \/ BackoffEnds(e) \/ CancelUnwinds(e)
           \/ Fault \/ Tick \/ UNCHANGED vars
           \/ \E p \in Servers : BatchDone(p) \/ Exit(p) \/ Restart(p)
  BY <1>5, QuietLedger
<1> QED BY <1>1, <1>2, <1>3, <1>4, <1>5 DEF Next, Operate, Edit, Execute, Serve, Claim

\* When the lease outlives the longest execution, every step of the scheduler is a
\* step of JobLedger or none: no transaction closes the record or gives up the claim
\* of an execution that lives, except that execution's own (_claim_due, _execute).
THEOREM ImplementsLedger == LeaseLongEnough => (Spec => KeepsLedger)
<1> SUFFICES ASSUME LeaseLongEnough PROVE Spec => KeepsLedger
  OBVIOUS
<1>1. Init => Ledger!Init /\ HasOutcome
  BY DEF Init, Idle, Live, Ledger!Init, LiveExecs, Statuses, ClaimedSchedules, HasOutcome
<1>2. TypeOK /\ LeaseInv /\ HasOutcome /\ [Next]_vars => [Ledger!Next]_LedgerVars
  BY LedgerStep
<1>3. Spec => []HasOutcome
  BY <1>1, OutcomeStep, TypeCorrect, PTL DEF Spec
<1> QED BY <1>1, <1>2, <1>3, TypeCorrect, LeaseSafe, PTL
        DEF Spec, KeepsLedger, Ledger!Spec, LedgerVars

-----------------------------------------------------------------------------
(* What follows of JobLedger. *)

\* In a step of the ledger, a record that is closed changes only as its slot begins anew.
StaysClosed(e) ==
  Statuses[e] \in Ledger!Closed =>
    \/ Statuses'[e] = Statuses[e]
    \/ Statuses'[e] = "none" /\ e \in LiveExecs' \ LiveExecs

LEMMA ClaimExclusive ==
  ASSUME Ledger!Exclusive, NEW E \in SUBSET Execs, NEW I \in SUBSET Execs,
         NEW S \in SUBSET Schedules, Ledger!Claim(E, I, S)
  PROVE  Ledger!Exclusive' /\ \A e \in Execs : StaysClosed(e)
<1>1. LiveExecs' = LiveExecs \cup E /\ ClaimedSchedules' = (ClaimedSchedules \ S) \cup {ScheduleOf[e] : e \in E}
  BY DEF Ledger!Claim
<1>2. \A e \in Execs : Statuses'[e] = IF e \in E THEN "none"
                                      ELSE IF e \in I THEN "interrupted" ELSE Statuses[e]
  BY DEF Ledger!Claim
<1>3. /\ (E \cup I) \cap LiveExecs = {}
      /\ \A e \in I : Statuses[e] = "running"
      /\ \A e \in E : ScheduleOf[e] \notin ClaimedSchedules \ S
      /\ \A d, e \in E : ScheduleOf[d] = ScheduleOf[e] => d = e
      /\ \A e \in LiveExecs : ScheduleOf[e] \notin S
  BY DEF Ledger!Claim
<1>4. \A e \in LiveExecs : ScheduleOf[e] \in ClaimedSchedules \ S
  BY <1>3 DEF Ledger!Exclusive
<1>5. LiveExecs' \subseteq Execs
  BY <1>1 DEF Ledger!Exclusive
<1>6. \A e \in LiveExecs' : ScheduleOf[e] \in ClaimedSchedules' /\ Statuses'[e] \in {"none", "running"}
  BY <1>1, <1>2, <1>3, <1>4, <1>5 DEF Ledger!Exclusive
<1>7. \A d, e \in LiveExecs' : ScheduleOf[d] = ScheduleOf[e] => d = e
  BY <1>1, <1>3, <1>4 DEF Ledger!Exclusive
<1>8. \A e \in Execs : StaysClosed(e)
  BY <1>1, <1>2, <1>3 DEF StaysClosed, Ledger!Closed, Ledger!Outcomes
<1> QED BY <1>5, <1>6, <1>7, <1>8 DEF Ledger!Exclusive

LEMMA ExclusiveStep ==
  ASSUME Ledger!Exclusive, [Ledger!Next]_LedgerVars
  PROVE  Ledger!Exclusive' /\ \A e \in Execs : StaysClosed(e)
<1>1. ASSUME NEW e \in Execs, Ledger!Open(e)
      PROVE  Ledger!Exclusive' /\ \A d \in Execs : StaysClosed(d)
  <2>1. /\ Statuses' = [Statuses EXCEPT ![e] = "running"] /\ Statuses[e] = "none"
        /\ LiveExecs' = LiveExecs /\ ClaimedSchedules' = ClaimedSchedules
    BY <1>1 DEF Ledger!Open
  <2>2. \A d \in Execs : d # e => Statuses'[d] = Statuses[d]
    BY <2>1 DEF Statuses
  <2>3. Statuses'[e] = "running"
    BY <2>1 DEF Statuses
  <2> QED BY <2>1, <2>2, <2>3 DEF Ledger!Exclusive, StaysClosed, Ledger!Closed, Ledger!Outcomes
<1>2. ASSUME NEW e \in Execs, NEW outcome \in Ledger!Outcomes, Ledger!Close(e, outcome)
      PROVE  Ledger!Exclusive' /\ \A d \in Execs : StaysClosed(d)
  <2>1. /\ Statuses' = [Statuses EXCEPT ![e] = outcome] /\ Statuses[e] = "running"
        /\ LiveExecs' = LiveExecs \ {e} /\ e \in LiveExecs
        /\ ClaimedSchedules' = ClaimedSchedules \ {ScheduleOf[e]}
    BY <1>2 DEF Ledger!Close
  <2>2. \A d \in Execs : d # e => Statuses'[d] = Statuses[d]
    BY <2>1 DEF Statuses
  <2>3. \A d \in LiveExecs' : ScheduleOf[d] # ScheduleOf[e]
    BY <2>1 DEF Ledger!Exclusive
  <2> QED BY <2>1, <2>2, <2>3 DEF Ledger!Exclusive, StaysClosed, Ledger!Closed, Ledger!Outcomes
<1>3. ASSUME NEW E \in SUBSET LiveExecs, Ledger!Die(E)
      PROVE  Ledger!Exclusive' /\ \A d \in Execs : StaysClosed(d)
  BY <1>3 DEF Ledger!Die, Ledger!Exclusive, StaysClosed
<1>4. CASE UNCHANGED LedgerVars
  BY <1>4 DEF LedgerVars, Ledger!Exclusive, StaysClosed
<1> QED BY <1>1, <1>2, <1>3, <1>4, ClaimExclusive DEF Ledger!Next

\* The history in job_runs is not rewritten: a record that says how an execution
\* ended, or that it was interrupted, is never changed, not by that execution should
\* it end late, nor by another process.
THEOREM HistoryStays ==
  LeaseLongEnough => (Spec => []Ledger!Exclusive /\ Ledger!ClosedForGood)
<1> SUFFICES ASSUME LeaseLongEnough
             PROVE  Spec => []Ledger!Exclusive /\ Ledger!ClosedForGood
  OBVIOUS
<1>1. Ledger!Init => Ledger!Exclusive
  BY DEF Ledger!Init, Ledger!Exclusive
<1>2. Ledger!Exclusive /\ [Ledger!Next]_LedgerVars =>
        Ledger!Exclusive' /\ \A e \in Execs : StaysClosed(e)
  BY ExclusiveStep
<1>3. (\A e \in Execs : StaysClosed(e)) <=>
        \A e \in Execs : Statuses[e] \in Ledger!Closed =>
          \/ Statuses'[e] = Statuses[e]
          \/ Statuses'[e] = "none" /\ e \in LiveExecs' \ LiveExecs
  BY DEF StaysClosed
<1> QED BY <1>1, <1>2, <1>3, ImplementsLedger, PTL
        DEF KeepsLedger, Ledger!Spec, Ledger!ClosedForGood, LedgerVars

=============================================================================
