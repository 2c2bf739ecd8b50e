---------------------------- MODULE EventPolling ----------------------------
(***************************************************************************)
(* Jobs poll_events (runtime/services.py) ask the sources of events        *)
(* (events/sources.py) concurrently, each source on its own                *)
(* (events/poller.py): the cursor is read in one transaction, the page is  *)
(* asked for, and its events are stored with the next cursor in another    *)
(* (runtime/events.py).  Two polls of a source may overlap.  Controllers   *)
(* report an event some time after it occurred.                            *)
(***************************************************************************)
EXTENDS Integers, FiniteSets

CONSTANTS
  Events,          \* what may occur, by its source key
  Sources,         \* configured sources
  Protect,         \* those that are Protect consoles, the others are Network
  SourceOf,        \* the source of each event
  Jobs,            \* polls that may be in progress at once
  MaxConcurrency,  \* EventPoller.max_concurrency
  PageLimit,       \* as many events in a window are an error
  Overlap,         \* ProtectEventSource.overlap_ms
  Day,             \* the first window of a Protect source
  Lateness,        \* how long a controller takes to report an event
  Broken,          \* sources that never answer
  Malformed,       \* events without a usable timestamp
  MaxFailures,     \* bound: failed polls of the other sources
  MaxTime          \* bound: the last tick

ASSUME EventPollingAssumption ==
  /\ Protect \subseteq Sources /\ Broken \subseteq Sources /\ Malformed \subseteq Events
  /\ Events \subseteq Nat /\ SourceOf \in [Events -> Sources]
  /\ MaxConcurrency \in Nat \ {0} /\ PageLimit \in Nat \ {0}
  /\ Overlap \in Nat /\ Day \in Nat /\ Lateness \in Nat
  /\ MaxFailures \in Nat /\ MaxTime \in Nat

\* What the overlap of Protect windows relies on: no controller reports an event
\* later than that.
ASSUME ReportedInTime == Lateness <= Overlap

VARIABLES
  now,       \* clock
  occurred,  \* when each event occurred
  reported,  \* the events that controllers list
  stored,    \* table events, rows deleted since included
  cursor,    \* table event_cursors: watermark_ms
  horizon,   \* history: where the latest window without a cursor began
  failures,  \* history: failed polls of sources that are not broken
  task       \* the _poll_source of each job for each source

world == <<now, occurred, reported>>
tables == <<stored, cursor, horizon>>
vars == <<now, occurred, reported, stored, cursor, horizon, failures, task>>

None == -1
Time == 0 .. MaxTime
Of(s) == {e \in Events : SourceOf[e] = s}

\* A _poll_source that is not in progress, or waits for the semaphore.
Rest(pc) == [pc |-> pc, mark |-> None, from |-> 0, to |-> 0, page |-> {}]

Task == [pc : {"idle", "queued", "asking", "inserting"}, mark : Time \cup {None},
         from : Int, to : Time, page : SUBSET Events]

TypeOK ==
  /\ now \in Time
  /\ occurred \in [Events -> Time \cup {None}]
  /\ reported \subseteq {e \in Events : occurred[e] # None}
  /\ stored \subseteq reported
  /\ cursor \in [Sources -> Time \cup {None}]
  /\ horizon \in [Sources -> Int]
  /\ failures \in 0 .. MaxFailures
  /\ task \in [Jobs \X Sources -> Task]

Init ==
  /\ now = 0
  /\ occurred = [e \in Events |-> None]
  /\ reported = {}
  /\ stored = {}
  /\ cursor = [s \in Sources |-> None]
  /\ horizon = [s \in Sources |-> 0 - Day]
  /\ failures = 0
  /\ task = [t \in Jobs \X Sources |-> Rest("idle")]

-----------------------------------------------------------------------------
(* Controllers. *)

\* The events of a source are numbered in the order in which they occur.
Occur(e) ==
  /\ occurred[e] = None
  /\ \A f \in Of(SourceOf[e]) : f < e => occurred[f] # None
  /\ occurred' = [occurred EXCEPT ![e] = now]
  /\ UNCHANGED <<now, reported, tables, failures, task>>

Report(e) ==
  /\ occurred[e] # None
  /\ reported' = reported \cup {e}
  /\ UNCHANGED <<now, occurred, tables, failures, task>>

Tick ==
  /\ now < MaxTime
  /\ \A e \in Events : occurred[e] # None /\ e \notin reported => now < occurred[e] + Lateness
  /\ now' = now + 1
  /\ UNCHANGED <<occurred, reported, tables, failures, task>>

-----------------------------------------------------------------------------
(* Polls. *)

\* The job asks the sources that its arguments select and ends when all of
\* them have.
Poll(j, S) ==
  /\ \A s \in Sources : task[<<j, s>>].pc = "idle"
  /\ task' = [t \in Jobs \X Sources |->
                IF t[1] = j /\ t[2] \in S THEN Rest("queued") ELSE task[t]]
  /\ UNCHANGED <<world, tables, failures>>

Holders == {t \in Jobs \X Sources : task[t].pc \in {"asking", "inserting"}}

\* Mutant of WindowStart: no overlap.
WindowStart_NoOverlap(s, mark) ==
  CASE s \notin Protect -> 0
    [] s \in Protect /\ mark = None -> now - Day
    [] s \in Protect /\ mark # None -> mark

\* Mutant of WindowEnd: a tick ahead of the clock.
WindowEnd_Ahead(s) == IF s \in Protect THEN now + 1 ELSE 0

\* The window that a Protect source is asked for; a Network console knows none.
WindowStart(s, mark) ==
  CASE s \notin Protect -> 0
    [] s \in Protect /\ mark = None -> now - Day
    [] s \in Protect /\ mark # None -> mark - Overlap

WindowEnd(s) == IF s \in Protect THEN now ELSE 0

\* A place of the semaphore is free: the cursor is read and the source is asked.
Ask(j, s) ==
  /\ task[<<j, s>>].pc = "queued"
  /\ Cardinality(Holders) < MaxConcurrency
  /\ task' = [task EXCEPT ![<<j, s>>] =
                [pc |-> "asking", mark |-> cursor[s],
                 from |-> WindowStart(s, cursor[s]), to |-> WindowEnd(s), page |-> {}]]
  /\ UNCHANGED <<world, tables, failures>>

\* What the controller lists: a Network console all it has, a Protect console
\* what lies in the window.
Listing(s, from, to) ==
  {e \in Of(s) \cap reported :
     s \in Protect => from <= occurred[e] /\ occurred[e] <= to}

\* The window is full, or an event in it cannot be normalized.
Unusable(page) == Cardinality(page) >= PageLimit \/ page \cap Malformed # {}

\* Mutant of Answer: of a full window the page holds what the limit leaves.
Answer_Truncated(j, s) ==
  LET t == task[<<j, s>>]
      page == Listing(s, t.from, t.to)
  IN  /\ t.pc = "asking"
      /\ s \notin Broken
      /\ \E E \in SUBSET page :
           /\ IF Unusable(page) THEN Cardinality(E) = PageLimit - 1 ELSE E = page
           /\ task' = [task EXCEPT ![<<j, s>>] = [t EXCEPT !.pc = "inserting", !.page = E]]
      /\ UNCHANGED <<world, tables, failures>>

Answer(j, s) ==
  LET t == task[<<j, s>>]
      page == Listing(s, t.from, t.to)
  IN  /\ t.pc = "asking"
      /\ s \notin Broken
      /\ task' = [task EXCEPT ![<<j, s>>] =
                    IF Unusable(page) THEN Rest("idle")
                    ELSE [t EXCEPT !.pc = "inserting", !.page = page]]
      /\ UNCHANGED <<world, tables, failures>>

\* Mutant of Fail: no timeout, a source that does not answer is waited for.
Fail_Waits(j, s) == FALSE

\* A timeout, or an exception of the source or of a transaction.
Fail(j, s) ==
  /\ task[<<j, s>>].pc \in {"asking", "inserting"}
  /\ \/ s \in Broken /\ UNCHANGED failures
     \/ s \notin Broken /\ failures < MaxFailures /\ failures' = failures + 1
  /\ task' = [task EXCEPT ![<<j, s>>] = Rest("idle")]
  /\ UNCHANGED <<world, tables>>

\* Mutant of Insert: the cursor is the end of the window.
Insert_ToEnd(j, s) ==
  /\ task[<<j, s>>].pc = "inserting"
  /\ stored' = stored \cup task[<<j, s>>].page
  /\ cursor' = [cursor EXCEPT ![s] = task[<<j, s>>].to]
  /\ task' = [task EXCEPT ![<<j, s>>] = Rest("idle")]
  /\ UNCHANGED <<world, horizon, failures>>

\* Mutant of Insert: the cursor is written in a transaction of its own, before the events.
Insert_CursorFirst(j, s) ==
  /\ task[<<j, s>>].pc = "inserting"
  /\ \E newest \in task[<<j, s>>].page : cursor' = [cursor EXCEPT ![s] = occurred[newest]]
  /\ stored' \in {stored, stored \cup task[<<j, s>>].page}
  /\ task' = IF stored' = stored THEN task ELSE [task EXCEPT ![<<j, s>>] = Rest("idle")]
  /\ UNCHANGED <<world, horizon, failures>>

\* The watermark is that of the newest event of the page, or what it was.
Insert(j, s) ==
  LET t == task[<<j, s>>]
  IN  /\ t.pc = "inserting"
      /\ stored' = stored \cup t.page
      /\ \/ /\ t.page = {}
            /\ cursor' = [cursor EXCEPT ![s] = t.mark]
         \/ \E newest \in t.page :
              /\ \A e \in t.page : occurred[e] <= occurred[newest]
              /\ cursor' = [cursor EXCEPT ![s] = occurred[newest]]
      /\ horizon' = [horizon EXCEPT ![s] =
                       IF t.mark = None /\ @ < t.from THEN t.from ELSE @]
      /\ task' = [task EXCEPT ![<<j, s>>] = Rest("idle")]
      /\ UNCHANGED <<world, failures>>

\* The job's own timeout, or its cancellation, ends all of its polls.
Cut(j) ==
  /\ \E s \in Sources : task[<<j, s>>].pc # "idle"
  /\ failures < MaxFailures /\ failures' = failures + 1
  /\ task' = [t \in Jobs \X Sources |-> IF t[1] = j THEN Rest("idle") ELSE task[t]]
  /\ UNCHANGED <<world, tables>>

-----------------------------------------------------------------------------
Source(j, s) == Ask(j, s) \/ Answer(j, s) \/ Fail(j, s) \/ Insert(j, s)

Next ==
  \/ \E e \in Events : Occur(e) \/ Report(e)
  \/ Tick
  \/ \E j \in Jobs : Cut(j) \/ \E S \in SUBSET Sources : Poll(j, S)
  \/ \E j \in Jobs, s \in Sources : Source(j, s)

Spec == Init /\ [][Next]_vars

\* A schedule polls all sources again and again, among other polls, and the
\* timeout lets every poll go on.
FairSpec ==
  /\ Spec
  /\ WF_vars(Tick) /\ \A e \in Events : WF_vars(Report(e))
  /\ \A j \in Jobs : SF_vars(Poll(j, Sources))
  /\ \A j \in Jobs, s \in Sources : WF_vars(Source(j, s))

-----------------------------------------------------------------------------
(* Properties. *)

\* A poll never leaves the watermark behind the one it read, whatever the
\* controller reports late: to set it back takes two polls that overlap.
NeverBehindRead ==
  [][\A j \in Jobs, s \in Sources : Insert(j, s) => cursor'[s] >= task[<<j, s>>].mark]_vars

\* An event that the next window of a Protect source will not show again has
\* been stored: late reports, overlapping polls that set the cursor back, failed
\* polls and full windows leave nothing behind.
NothingLeftBehind ==
  \A s \in Protect :
    cursor[s] # None =>
      \A e \in Of(s) :
        occurred[e] # None /\ horizon[s] <= occurred[e] /\ occurred[e] < WindowStart(s, cursor[s])
        => e \in stored

\* The cursor of a source shows the time of an event that is stored: a page and
\* its cursor are written together (insert_batch's one transaction).
CursorShowsStored ==
  \A s \in Sources :
    cursor[s] # None => \E e \in stored \cap Of(s) : occurred[e] = cursor[s]

\* The source cannot be read any more: its window is full or holds an event that
\* cannot be normalized, and as the cursor does not move it stays like that.
Stuck(s) == Unusable(Listing(s, WindowStart(s, cursor[s]), WindowEnd(s)))

\* An event a working source reports is stored, whatever the other sources do,
\* unless the source is stuck or the event is older than its first window.
ReportedIsStored ==
  \A e \in Events :
    SourceOf[e] \notin Broken =>
      (e \in reported ~>
         \/ e \in stored
         \/ Stuck(SourceOf[e])
         \/ SourceOf[e] \in Protect
            /\ occurred[e] < (IF cursor[SourceOf[e]] = None THEN now - Day
                              ELSE horizon[SourceOf[e]]))

\* Polling takes events in the way EventIntake describes.
Intake ==
  INSTANCE EventIntake
    WITH when <- occurred, taken <- stored, mark <- cursor, horizon <- horizon,
         Incremental <- Protect, Slack <- Overlap

TakesAsPromised == Intake!Spec

=============================================================================
