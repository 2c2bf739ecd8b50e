------------------------- MODULE EventPollingProofs -------------------------
(***************************************************************************)
(* Proofs about EventPolling for any number of events, sources and jobs:   *)
(* the types, that no event falls behind the window of a source, that a    *)
(* poll never sets back the watermark it read, and that polling implements *)
(* EventIntake.                                                            *)
(***************************************************************************)
EXTENDS EventPolling, TLAPS

USE EventPollingAssumption

-----------------------------------------------------------------------------
(* The strengthening.  All of it but the types speaks of one source at a   *)
(* time, and of a task only while it is in progress.                       *)

\* Events are reported in time, and none occurs after now.
WorldInv ==
  \A e \in Events :
    /\ occurred[e] <= now
    /\ occurred[e] # None /\ e \notin reported => now <= occurred[e] + Lateness

\* m is no time, or that of an event of s that is stored.
Shown(s, m) == m # None => \E e \in stored \cap Of(s) : occurred[e] = m

\* What occurred before start has been stored.
Settled(s, start) ==
  \A e \in Of(s) :
    occurred[e] # None /\ horizon[s] <= occurred[e] /\ occurred[e] < start => e \in stored

\* What a page holds, and what it may have missed: events that the controller
\* had not reported when it was asked.
PageInv(s, t) ==
  /\ t.page \subseteq Of(s) \cap reported
  /\ t.pc = "inserting" /\ s \in Protect =>
       /\ \A e \in t.page : occurred[e] <= t.to
       /\ \A e \in Of(s) :
            /\ occurred[e] # None
            /\ t.from <= occurred[e] /\ occurred[e] < t.to - Lateness
            => e \in t.page

WindowInv(s, t) ==
  /\ t.to <= now
  /\ Shown(s, t.mark)
  /\ s \in Protect /\ t.mark # None =>
       /\ t.from = t.mark - Overlap
       /\ Settled(s, t.from)

TaskInv == \A j \in Jobs, s \in Sources : PageInv(s, task[<<j, s>>]) /\ WindowInv(s, task[<<j, s>>])

CursorInv ==
  /\ \A s \in Sources : Shown(s, cursor[s])
  /\ \A s \in Protect : cursor[s] # None => Settled(s, cursor[s] - Overlap)

PollInv == TypeOK /\ WorldInv /\ CursorInv /\ TaskInv

-----------------------------------------------------------------------------
(* What is unpacked again and again. *)

Numbers ==
  /\ now \in Int
  /\ \A e \in Events : occurred[e] \in Int
  /\ \A s \in Sources : cursor[s] \in Int /\ horizon[s] \in Int
  /\ \A j \in Jobs, s \in Sources :
       /\ task[<<j, s>>] \in Task
       /\ task[<<j, s>>].mark \in Int /\ task[<<j, s>>].from \in Int
       /\ task[<<j, s>>].to \in Int /\ task[<<j, s>>].page \subseteq Events

LEMMA Types == TypeOK => Numbers
<1>1. Time \subseteq Int /\ None \in Int
  BY DEF Time, None
<1>2. TypeOK => \A j \in Jobs, s \in Sources : task[<<j, s>>] \in Task
  BY DEF TypeOK
<1>3. \A t \in Task : t.mark \in Int /\ t.from \in Int /\ t.to \in Int /\ t.page \subseteq Events
  BY <1>1 DEF Task
<1> QED BY <1>1, <1>2, <1>3 DEF TypeOK, Numbers

LEMMA TypesNext == TypeOK' => Numbers'
  BY Types, PTL

LEMMA RestType ==
  ASSUME NEW pc \in {"idle", "queued"}
  PROVE  Rest(pc) \in Task
  BY DEF Rest, Task, Time, None

LEMMA RestInv ==
  ASSUME TypeOK, NEW s, NEW pc \in {"idle", "queued"}
  PROVE  PageInv(s, Rest(pc)) /\ WindowInv(s, Rest(pc))
  BY DEF Rest, PageInv, WindowInv, Shown, TypeOK, Time

LEMMA MarkInPast ==
  ASSUME TypeOK, WorldInv, NEW s \in Sources, NEW m, Shown(s, m), m # None
  PROVE  m \in Time /\ m <= now
  BY DEF Shown, TypeOK, WorldInv, Of

\* What is settled stays so when more is stored and the horizon moves on.
LEMMA SettledStays ==
  ASSUME TypeOK, TypeOK', NEW s \in Sources, NEW start \in Int, Settled(s, start),
         occurred' = occurred, stored \subseteq stored', horizon[s] <= horizon'[s]
  PROVE  Settled(s, start)'
  BY Types, TypesNext DEF Numbers, Settled, Of

\* A task that no step touches keeps its part while time goes on and more is
\* reported and stored.
LEMMA TaskKept ==
  ASSUME PollInv, TypeOK', NEW j \in Jobs, NEW s \in Sources,
         task'[<<j, s>>] = task[<<j, s>>],
         now <= now', occurred' = occurred, reported \subseteq reported',
         stored \subseteq stored', horizon[s] <= horizon'[s]
  PROVE  (PageInv(s, task[<<j, s>>]) /\ WindowInv(s, task[<<j, s>>]))'
<1> DEFINE t == task[<<j, s>>]
<1>1. PageInv(s, t) /\ WindowInv(s, t) /\ t.to \in Int /\ t.from \in Int
  BY Types DEF Numbers, PollInv, TaskInv
<1>2. PageInv(s, t)'
  BY <1>1 DEF PageInv, Of
<1>3. WindowInv(s, t)'
  <2>1. t.to <= now'
    BY <1>1, Types, TypesNext DEF Numbers, WindowInv, PollInv
  <2>2. Shown(s, t.mark)'
    BY <1>1 DEF WindowInv, Shown, Of
  <2>3. s \in Protect /\ t.mark # None => Settled(s, t.from)'
    <3>1. SUFFICES ASSUME s \in Protect, t.mark # None PROVE Settled(s, t.from)'
      OBVIOUS
    <3>2. Settled(s, t.from)
      BY <1>1, <3>1 DEF WindowInv
    <3> QED BY <1>1, <3>2, SettledStays DEF PollInv
  <2> QED BY <1>1, <2>1, <2>2, <2>3 DEF WindowInv
<1> QED BY <1>2, <1>3

LEMMA CursorKept ==
  ASSUME PollInv, TypeOK', cursor' = cursor,
         occurred' = occurred, stored \subseteq stored', horizon' = horizon
  PROVE  CursorInv'
<1>1. \A s \in Sources : Shown(s, cursor[s])'
  BY DEF PollInv, CursorInv, Shown, Of
<1>2. ASSUME NEW s \in Protect, cursor[s] # None PROVE Settled(s, cursor[s] - Overlap)'
  <2>1. Settled(s, cursor[s] - Overlap) /\ cursor[s] - Overlap \in Int
    BY <1>2, Types DEF Numbers, PollInv, CursorInv
  <2>2. horizon[s] <= horizon'[s]
    BY Types DEF Numbers, PollInv
  <2> QED BY <2>1, <2>2, SettledStays DEF PollInv
<1> QED BY <1>1, <1>2 DEF CursorInv

-----------------------------------------------------------------------------
(* The types. *)

LEMMA TaskType ==
  ASSUME TypeOK, NEW j \in Jobs, NEW s \in Sources, NEW t \in Task,
         task' = [task EXCEPT ![<<j, s>>] = t]
  PROVE  task' \in [Jobs \X Sources -> Task]
  BY DEF TypeOK

LEMMA WindowType ==
  ASSUME TypeOK, NEW s \in Sources
  PROVE  [pc |-> "asking", mark |-> cursor[s], from |-> WindowStart(s, cursor[s]),
          to |-> WindowEnd(s), page |-> {}] \in Task
<1>1. cursor[s] \in Time \cup {None} /\ now \in Time /\ 0 \in Time
  BY DEF TypeOK, Time
<1>2. WindowStart(s, cursor[s]) \in Int
  <2>1. cursor[s] \in Int /\ now \in Int
    BY <1>1 DEF Time, None
  <2> QED BY <2>1 DEF WindowStart
<1>3. WindowEnd(s) \in Time
  BY <1>1 DEF WindowEnd
<1> QED BY <1>1, <1>2, <1>3 DEF Task

LEMMA TypeStep ==
  ASSUME PollInv, [Next]_vars
  PROVE  TypeOK'
<1> USE DEF world, tables
<1>a. TypeOK /\ TaskInv
  BY DEF PollInv
<1>1. ASSUME NEW e \in Events, Occur(e) PROVE TypeOK'
  BY <1>1, <1>a DEF Occur, TypeOK, Time
<1>2. ASSUME NEW e \in Events, Report(e) PROVE TypeOK'
  BY <1>2, <1>a DEF Report, TypeOK
<1>3. CASE Tick
  BY <1>3, <1>a DEF Tick, TypeOK, Time
<1>4. ASSUME NEW j \in Jobs, NEW S \in SUBSET Sources, Poll(j, S) PROVE TypeOK'
  <2>1. task' \in [Jobs \X Sources -> Task]
    <3>1. Rest("queued") \in Task
      BY RestType
    <3> QED BY <1>4, <1>a, <3>1 DEF Poll, TypeOK
  <2> QED BY <1>4, <1>a, <2>1 DEF Poll, TypeOK
<1>5. ASSUME NEW j \in Jobs, NEW s \in Sources, Ask(j, s) PROVE TypeOK'
  <2>1. task' \in [Jobs \X Sources -> Task]
    BY <1>5, <1>a, WindowType, TaskType DEF Ask
  <2> QED BY <1>5, <1>a, <2>1 DEF Ask, TypeOK
<1>6. ASSUME NEW j \in Jobs, NEW s \in Sources, Answer(j, s) PROVE TypeOK'
  <2> DEFINE t == task[<<j, s>>]
             page == Listing(s, t.from, t.to)
  <2>1. t \in Task
    BY <1>a, Types DEF Numbers
  <2>2. page \subseteq Events
    BY DEF Listing, Of
  <2>3. [t EXCEPT !.pc = "inserting", !.page = page] \in Task
    <3> HIDE DEF page, t
    <3> QED BY <2>1, <2>2 DEF Task
  <2>4. Rest("idle") \in Task
    BY RestType
  <2>5. task' \in [Jobs \X Sources -> Task]
    BY <1>6, <1>a, <2>3, <2>4, TaskType DEF Answer
  <2> QED BY <1>6, <1>a, <2>5 DEF Answer, TypeOK
<1>7. ASSUME NEW j \in Jobs, NEW s \in Sources, Fail(j, s) PROVE TypeOK'
  <2>1. task' \in [Jobs \X Sources -> Task]
    BY <1>7, <1>a, RestType, TaskType DEF Fail
  <2> QED BY <1>7, <1>a, <2>1 DEF Fail, TypeOK
<1>8. ASSUME NEW j \in Jobs, NEW s \in Sources, Insert(j, s) PROVE TypeOK'
  <2> DEFINE t == task[<<j, s>>]
  <2>0. t \in Task /\ t.mark \in Time \cup {None} /\ t.from \in Int
    BY <1>a, Types DEF Numbers, Task
  <2>1. t.page \subseteq reported /\ t.page \subseteq Events
    BY <1>a, <2>0 DEF TaskInv, PageInv, Task
  <2>2. task' \in [Jobs \X Sources -> Task]
    BY <1>8, <1>a, RestType, TaskType DEF Insert
  <2>3. cursor' \in [Sources -> Time \cup {None}]
    <3>1. cursor' = [cursor EXCEPT ![s] = t.mark]
          \/ \E newest \in t.page : cursor' = [cursor EXCEPT ![s] = occurred[newest]]
      BY <1>8 DEF Insert
    <3> QED BY <1>a, <2>0, <2>1, <3>1 DEF TypeOK
  <2>4. horizon' \in [Sources -> Int]
    <3>1. horizon' = horizon \/ horizon' = [horizon EXCEPT ![s] = t.from]
      BY <1>8, <1>a DEF Insert, TypeOK
    <3> QED BY <1>a, <2>0, <3>1 DEF TypeOK
  <2> QED BY <1>8, <1>a, <2>1, <2>2, <2>3, <2>4 DEF Insert, TypeOK
<1>9. CASE UNCHANGED vars
  BY <1>9, <1>a DEF vars, TypeOK
<1>10. ASSUME NEW j \in Jobs, Cut(j) PROVE TypeOK'
  <2>1. task' \in [Jobs \X Sources -> Task]
    <3>1. Rest("idle") \in Task
      BY RestType
    <3> QED BY <1>10, <1>a, <3>1 DEF Cut, TypeOK
  <2> QED BY <1>10, <1>a, <2>1 DEF Cut, TypeOK
<1> QED BY <1>1, <1>2, <1>3, <1>4, <1>5, <1>6, <1>7, <1>8, <1>9, <1>10 DEF Next, Source

-----------------------------------------------------------------------------
(* The strengthening is inductive, with one lemma per action. *)

\* One task changes.
LEMMA TaskChanged ==
  ASSUME PollInv, TypeOK', NEW j \in Jobs, NEW s \in Sources, NEW t \in Task,
         task' = [task EXCEPT ![<<j, s>>] = t], PageInv(s, t)', WindowInv(s, t)',
         now <= now', occurred' = occurred, reported \subseteq reported',
         stored \subseteq stored', \A r \in Sources : horizon[r] <= horizon'[r]
  PROVE  TaskInv'
<1>1. SUFFICES ASSUME NEW i \in Jobs, NEW r \in Sources
               PROVE  (PageInv(r, task[<<i, r>>]) /\ WindowInv(r, task[<<i, r>>]))'
  BY DEF TaskInv
<1>2. CASE i = j /\ r = s
  <2>1. task'[<<i, r>>] = t
    BY <1>2 DEF PollInv, TypeOK
  <2> QED BY <1>2, <2>1
<1>3. CASE ~(i = j /\ r = s)
  <2>1. task'[<<i, r>>] = task[<<i, r>>]
    BY <1>3 DEF PollInv, TypeOK
  <2> QED BY <2>1, TaskKept
<1> QED BY <1>2, <1>3

LEMMA OccurStep ==
  ASSUME PollInv, TypeOK', NEW e \in Events, Occur(e)
  PROVE  PollInv'
<1> USE DEF PollInv, tables
<1>1. /\ occurred' = [occurred EXCEPT ![e] = now] /\ occurred[e] = None
      /\ now' = now /\ reported' = reported /\ stored' = stored /\ cursor' = cursor
      /\ horizon' = horizon /\ task' = task
  BY DEF Occur
<1>2. Numbers /\ now \in Nat /\ Lateness \in Nat
  BY Types DEF TypeOK, Time
<1>3. /\ \A f \in Events : f # e => occurred'[f] = occurred[f]
      /\ occurred'[e] = now /\ e \notin reported /\ e \notin stored
  BY <1>1 DEF TypeOK
<1>4. WorldInv'
  BY <1>1, <1>2, <1>3 DEF WorldInv, Numbers
<1>5. ASSUME NEW s, NEW m, Shown(s, m) PROVE Shown(s, m)'
  BY <1>1, <1>3, <1>5 DEF Shown, Of
<1>6. ASSUME NEW s \in Sources, NEW start \in Int, start <= now, Settled(s, start)
      PROVE  Settled(s, start)'
  BY <1>1, <1>2, <1>3, <1>6 DEF Settled, Of, Numbers
<1>7. CursorInv'
  <2>1. ASSUME NEW s \in Protect, cursor[s] # None PROVE Settled(s, cursor[s] - Overlap)'
    <3>1. cursor[s] <= now /\ cursor[s] - Overlap \in Int /\ Settled(s, cursor[s] - Overlap)
      BY <1>2, <2>1, MarkInPast DEF CursorInv, Numbers
    <3>2. cursor[s] - Overlap <= now
      BY <3>1, <1>2, <2>1 DEF Numbers
    <3>3. PICK start \in Int : start = cursor[s] - Overlap
      BY <3>1
    <3>4. Settled(s, start)'
      BY <3>1, <3>2, <3>3, <1>6
    <3> QED BY <1>1, <3>3, <3>4
  <2> QED BY <1>1, <1>5, <2>1 DEF CursorInv
<1>8. TaskInv'
  <2>1. SUFFICES ASSUME NEW j \in Jobs, NEW s \in Sources
                 PROVE  (PageInv(s, task[<<j, s>>]) /\ WindowInv(s, task[<<j, s>>]))'
    BY DEF TaskInv
  <2>2. PICK t \in Task : t = task[<<j, s>>]
    BY <1>2 DEF Numbers
  <2>3. PageInv(s, t) /\ WindowInv(s, t) /\ t.to \in Int /\ t.from \in Int /\ t.mark \in Int
    BY <1>2, <2>2 DEF TaskInv, Numbers
  <2>4. PageInv(s, t)'
    <3>1. e \notin t.page
      BY <1>3, <2>3 DEF PageInv
    <3>2. ~(now < t.to - Lateness)
      BY <1>2, <2>3 DEF WindowInv, Numbers
    <3>3. t.page \subseteq Of(s) \cap reported
      BY <2>3 DEF PageInv
    <3>4. \A f \in t.page : f # e /\ f \in Events
      BY <3>1, <3>3 DEF Of
    <3> QED BY <1>1, <1>3, <2>3, <3>2, <3>3, <3>4 DEF PageInv, Of
  <2>5. WindowInv(s, t)'
    <3>1. ASSUME s \in Protect, t.mark # None PROVE Settled(s, t.from)'
      <4>1. t.from = t.mark - Overlap /\ Settled(s, t.from) /\ t.mark <= now
        BY <2>3, <3>1, MarkInPast DEF WindowInv
      <4>2. t.from <= now
        BY <1>2, <2>3, <4>1 DEF Numbers
      <4> QED BY <2>3, <4>1, <4>2, <1>6
    <3> QED BY <1>1, <1>5, <2>3, <3>1 DEF WindowInv
  <2> QED BY <1>1, <2>2, <2>4, <2>5
<1> QED BY <1>4, <1>7, <1>8

LEMMA TimeStep ==
  ASSUME PollInv, TypeOK', Tick \/ \E e \in Events : Report(e)
  PROVE  PollInv'
<1> USE DEF PollInv, tables
<1>1. /\ occurred' = occurred /\ reported \subseteq reported' /\ stored' = stored
      /\ cursor' = cursor /\ horizon' = horizon /\ task' = task
  BY DEF Tick, Report
<1>2. Numbers /\ Numbers' /\ Lateness \in Int
  BY Types, TypesNext
<1>3. now <= now' /\ WorldInv'
  <2>1. CASE Tick
    BY <1>2, <2>1 DEF Tick, WorldInv, Numbers
  <2>2. CASE \E e \in Events : Report(e)
    BY <1>2, <2>2 DEF Report, WorldInv, Numbers
  <2> QED BY <2>1, <2>2
<1>4. CursorInv'
  BY <1>1, CursorKept
<1>5. TaskInv'
  <2>1. SUFFICES ASSUME NEW j \in Jobs, NEW s \in Sources
                 PROVE  (PageInv(s, task[<<j, s>>]) /\ WindowInv(s, task[<<j, s>>]))'
    BY DEF TaskInv
  <2>2. horizon[s] <= horizon'[s]
    BY <1>1, <1>2 DEF Numbers
  <2> QED BY <1>1, <1>3, <2>2, TaskKept
<1> QED BY <1>3, <1>4, <1>5

\* The polls of a job are queued, or cut off.
LEMMA JobStep ==
  ASSUME PollInv, TypeOK', NEW pc \in {"idle", "queued"},
         UNCHANGED <<world, tables>>,
         \A t \in Jobs \X Sources : task'[t] \in {task[t], Rest(pc)}
  PROVE  PollInv'
<1> USE DEF PollInv, world, tables
<1>2. WorldInv' /\ CursorInv' /\ Numbers
  BY CursorKept, Types DEF WorldInv
<1>3. SUFFICES ASSUME NEW i \in Jobs, NEW s \in Sources
               PROVE  (PageInv(s, task[<<i, s>>]) /\ WindowInv(s, task[<<i, s>>]))'
  BY <1>2 DEF TaskInv
<1>4. CASE task'[<<i, s>>] = Rest(pc)
  <2>1. (PageInv(s, Rest(pc)) /\ WindowInv(s, Rest(pc)))'
    BY DEF Rest, PageInv, WindowInv, Shown, TypeOK, Time
  <2> QED BY <1>4, <2>1
<1>5. CASE task'[<<i, s>>] = task[<<i, s>>]
  <2>1. now <= now' /\ horizon[s] <= horizon'[s]
    BY <1>2 DEF Numbers
  <2> QED BY <1>5, <2>1, TaskKept
<1> QED BY <1>4, <1>5

\* What all steps of a task have in common that leave the tables alone.
LEMMA TaskStep ==
  ASSUME PollInv, TypeOK', NEW j \in Jobs, NEW s \in Sources, NEW t \in Task,
         task' = [task EXCEPT ![<<j, s>>] = t], PageInv(s, t), WindowInv(s, t),
         UNCHANGED <<world, tables>>
  PROVE  PollInv'
<1> USE DEF PollInv, world, tables
<1>1. WorldInv' /\ CursorInv' /\ Numbers
  BY CursorKept, Types DEF WorldInv
<1>2. PageInv(s, t)' /\ WindowInv(s, t)'
  BY DEF PageInv, WindowInv, Shown, Settled, Of
<1>3. now <= now' /\ \A r \in Sources : horizon[r] <= horizon'[r]
  BY <1>1 DEF Numbers
<1> QED BY <1>1, <1>2, <1>3, TaskChanged

LEMMA AskStep ==
  ASSUME PollInv, TypeOK', NEW j \in Jobs, NEW s \in Sources, Ask(j, s)
  PROVE  PollInv'
<1> USE DEF PollInv
<1>1. Numbers /\ 0 <= now
  BY Types DEF TypeOK, Time
<1>2. PICK t \in Task : t = [pc |-> "asking", mark |-> cursor[s], from |-> WindowStart(s, cursor[s]),
                             to |-> WindowEnd(s), page |-> {}]
  BY WindowType
<1>3. PageInv(s, t)
  BY <1>2 DEF PageInv
<1>4. WindowInv(s, t)
  <2>1. t.to <= now
    BY <1>1, <1>2 DEF WindowEnd, Numbers
  <2>2. Shown(s, t.mark)
    BY <1>2 DEF CursorInv
  <2>3. ASSUME s \in Protect, t.mark # None
        PROVE  t.from = t.mark - Overlap /\ Settled(s, t.from)
    BY <1>2, <2>3 DEF CursorInv, WindowStart
  <2> QED BY <2>1, <2>2, <2>3 DEF WindowInv
<1> QED BY <1>2, <1>3, <1>4, TaskStep DEF Ask

LEMMA EndStep ==
  ASSUME PollInv, TypeOK', NEW j \in Jobs, NEW s \in Sources,
         task' = [task EXCEPT ![<<j, s>>] = Rest("idle")], UNCHANGED <<world, tables>>
  PROVE  PollInv'
<1>1. Rest("idle") \in Task /\ PageInv(s, Rest("idle")) /\ WindowInv(s, Rest("idle"))
  BY RestType, RestInv DEF PollInv
<1> QED BY <1>1, TaskStep

LEMMA AnswerStep ==
  ASSUME PollInv, TypeOK', NEW j \in Jobs, NEW s \in Sources, Answer(j, s)
  PROVE  PollInv'
<1> USE DEF PollInv
<1>1. Numbers /\ Lateness \in Int
  BY Types
<1>2. PICK t \in Task : t = task[<<j, s>>]
  BY <1>1 DEF Numbers
<1>3. PageInv(s, t) /\ WindowInv(s, t) /\ t.to \in Int /\ t.from \in Int
  BY <1>1, <1>2 DEF TaskInv, Numbers
<1>4. PICK page : page = Listing(s, t.from, t.to)
  OBVIOUS
<1>5. CASE Unusable(page)
  <2>1. task' = [task EXCEPT ![<<j, s>>] = Rest("idle")]
    BY <1>2, <1>4, <1>5 DEF Answer
  <2> QED BY <2>1, EndStep DEF Answer
<1>6. CASE ~Unusable(page)
  <2>1. page \subseteq Of(s) \cap reported /\ page \subseteq Events
    BY <1>4 DEF Listing, Of
  <2>2. PICK u \in Task : u = [t EXCEPT !.pc = "inserting", !.page = page]
    BY <2>1 DEF Task
  <2>3. /\ u.pc = "inserting" /\ u.page = page
        /\ u.mark = t.mark /\ u.from = t.from /\ u.to = t.to
    BY <2>2 DEF Task
  <2>4. task' = [task EXCEPT ![<<j, s>>] = u]
    BY <1>2, <1>4, <1>6, <2>2 DEF Answer
  <2>5. PageInv(s, u)
    <3>1. ASSUME s \in Protect, NEW e \in page PROVE occurred[e] <= u.to
      BY <1>4, <2>3, <3>1 DEF Listing
    <3>2. ASSUME s \in Protect, NEW e \in Of(s), occurred[e] # None,
                 u.from <= occurred[e], occurred[e] < u.to - Lateness
          PROVE  e \in page
      <4>1. occurred[e] \in Int /\ now \in Int /\ t.to <= now /\ e \in Events
        BY <1>1, <1>3 DEF Numbers, Of, WindowInv
      <4>2. e \in reported
        BY <1>1, <1>3, <2>3, <3>2, <4>1 DEF WorldInv
      <4>3. occurred[e] <= t.to
        BY <1>1, <1>3, <2>3, <3>2, <4>1
      <4> QED BY <1>4, <2>3, <3>2, <4>2, <4>3 DEF Listing
    <3> QED BY <2>1, <2>3, <3>1, <3>2 DEF PageInv
  <2>6. WindowInv(s, u)
    BY <1>3, <2>3 DEF WindowInv
  <2> QED BY <2>4, <2>5, <2>6, TaskStep DEF Answer
<1> QED BY <1>5, <1>6

LEMMA InsertStep ==
  ASSUME PollInv, TypeOK', NEW j \in Jobs, NEW s \in Sources, Insert(j, s)
  PROVE  PollInv'
<1> USE DEF PollInv
<1>1. Numbers /\ Numbers' /\ Lateness \in Int /\ Overlap \in Int
  BY Types, TypesNext
<1>2. PICK t \in Task : t = task[<<j, s>>]
  BY <1>1 DEF Numbers
<1>3. PageInv(s, t) /\ WindowInv(s, t) /\ t.to \in Int /\ t.from \in Int /\ t.mark \in Int
  BY <1>1, <1>2 DEF TaskInv, Numbers
<1>4. /\ now' = now /\ occurred' = occurred /\ reported' = reported
      /\ t.pc = "inserting" /\ stored' = stored \cup t.page
      /\ task' = [task EXCEPT ![<<j, s>>] = Rest("idle")]
      /\ horizon' = [horizon EXCEPT ![s] = IF t.mark = None /\ @ < t.from THEN t.from ELSE @]
  BY <1>2 DEF Insert, world
<1>5. /\ \A r \in Sources : horizon[r] <= horizon'[r]
      /\ t.mark = None => t.from <= horizon'[s]
  BY <1>1, <1>3, <1>4 DEF Numbers, TypeOK
<1>6. PICK w \in Int : /\ cursor' = [cursor EXCEPT ![s] = w]
                       /\ \/ t.page = {} /\ w = t.mark
                          \/ \E newest \in t.page : w = occurred[newest]
  <2>1. t.page \subseteq Events
    BY <1>3 DEF PageInv, Of
  <2> QED BY <1>1, <1>2, <1>3, <2>1 DEF Insert, Numbers
<1>7. Shown(s, w)'
  <2>1. CASE w = t.mark
    BY <1>3, <1>4, <2>1 DEF WindowInv, Shown, Of
  <2>2. CASE \E newest \in t.page : w = occurred[newest]
    BY <1>3, <1>4, <2>2 DEF PageInv, Shown, Of
  <2> QED BY <1>6, <2>1, <2>2
<1>8. ASSUME s \in Protect, w # None PROVE Settled(s, w - Overlap)'
  <2>1. CASE t.page = {} /\ w = t.mark
    <3>1. PICK start \in Int : start = w - Overlap
      BY <1>1
    <3>2. Settled(s, start)
      BY <1>3, <1>8, <2>1, <3>1 DEF WindowInv
    <3>3. Settled(s, start)'
      BY <1>4, <1>5, <3>2, SettledStays
    <3> QED BY <1>1, <3>1, <3>3
  <2>2. CASE \E newest \in t.page : w = occurred[newest]
    <3>1. SUFFICES ASSUME NEW e \in Of(s), occurred[e] # None, horizon'[s] <= occurred[e],
                          occurred[e] < w - Overlap
                   PROVE  e \in stored'
      BY <1>4 DEF Settled, Of
    <3>2. w <= t.to /\ occurred[e] \in Int
      BY <1>1, <1>3, <1>4, <1>8, <2>2 DEF PageInv, Numbers, Of
    <3>3. occurred[e] < t.to - Lateness
      BY <1>1, <1>3, <3>1, <3>2, ReportedInTime
    <3>4. CASE t.from <= occurred[e]
      BY <1>3, <1>4, <1>8, <3>1, <3>3, <3>4 DEF PageInv
    <3>5. CASE occurred[e] < t.from
      <4>1. t.mark # None /\ horizon[s] <= occurred[e]
        BY <1>1, <1>3, <1>5, <3>1, <3>2, <3>5 DEF Numbers
      <4>2. Settled(s, t.from)
        BY <1>3, <1>8, <4>1 DEF WindowInv
      <4> QED BY <1>4, <3>1, <3>5, <4>1, <4>2 DEF Settled
    <3> QED BY <1>3, <3>2, <3>4, <3>5
  <2> QED BY <1>6, <2>1, <2>2
<1>9. CursorInv'
  <2>0. cursor'[s] = w /\ \A r \in Sources : r # s => cursor'[r] = cursor[r]
    BY <1>6 DEF TypeOK
  <2>1. ASSUME NEW r \in Sources PROVE Shown(r, cursor[r])'
    <3>1. CASE r = s
      BY <1>7, <2>0, <3>1
    <3>2. CASE r # s
      BY <1>4, <2>0, <3>2 DEF CursorInv, Shown, Of
    <3> QED BY <3>1, <3>2
  <2>2. ASSUME NEW r \in Protect, cursor'[r] # None PROVE Settled(r, cursor[r] - Overlap)'
    <3>1. CASE r = s
      BY <1>1, <1>8, <2>0, <2>2, <3>1
    <3>2. CASE r # s
      <4>1. PICK start \in Int : start = cursor[r] - Overlap
        BY <1>1 DEF Numbers
      <4>2. Settled(r, start)
        BY <2>0, <2>2, <3>2, <4>1 DEF CursorInv
      <4>3. Settled(r, start)'
        BY <1>4, <1>5, <4>2, SettledStays
      <4> QED BY <2>0, <3>2, <4>1, <4>3
    <3> QED BY <3>1, <3>2
  <2> QED BY <2>1, <2>2 DEF CursorInv
<1>10. TaskInv'
  <2>1. (PageInv(s, Rest("idle")) /\ WindowInv(s, Rest("idle")))'
    BY <1>1, <1>4 DEF Rest, PageInv, WindowInv, Shown, TypeOK, Time
  <2>2. now <= now' /\ Rest("idle") \in Task
    BY <1>1, <1>4, RestType DEF Numbers
  <2> QED BY <1>4, <1>5, <2>1, <2>2, TaskChanged
<1>11. WorldInv'
  BY <1>4 DEF WorldInv
<1> QED BY <1>9, <1>10, <1>11

LEMMA InvInit == Init => PollInv
<1> SUFFICES ASSUME Init PROVE PollInv
  OBVIOUS
<1> USE DEF Init
<1>1. TypeOK
  BY RestType DEF TypeOK, Time, None
<1>2. WorldInv /\ CursorInv
  BY DEF WorldInv, CursorInv, Shown, None
<1>3. TaskInv
  BY <1>1, RestInv DEF TaskInv
<1> QED BY <1>1, <1>2, <1>3 DEF PollInv

LEMMA InvStep == PollInv /\ [Next]_vars => PollInv'
<1> SUFFICES ASSUME PollInv, [Next]_vars PROVE PollInv'
  OBVIOUS
<1>1. TypeOK'
  BY TypeStep
<1>2. ASSUME NEW e \in Events, Occur(e) \/ Report(e) PROVE PollInv'
  BY <1>1, <1>2, OccurStep, TimeStep
<1>3. CASE Tick
  BY <1>1, <1>3, TimeStep
<1>4. ASSUME NEW j \in Jobs, Cut(j) \/ \E S \in SUBSET Sources : Poll(j, S) PROVE PollInv'
  <2>1. CASE Cut(j)
    <3>1. \A t \in Jobs \X Sources : task'[t] \in {task[t], Rest("idle")}
      BY <2>1 DEF Cut
    <3> QED BY <1>1, <2>1, <3>1, JobStep DEF Cut
  <2>2. ASSUME NEW S \in SUBSET Sources, Poll(j, S) PROVE PollInv'
    <3>1. \A t \in Jobs \X Sources : task'[t] \in {task[t], Rest("queued")}
      BY <2>2 DEF Poll
    <3> QED BY <1>1, <2>2, <3>1, JobStep DEF Poll
  <2> QED BY <1>4, <2>1, <2>2
<1>5. ASSUME NEW j \in Jobs, NEW s \in Sources, Source(j, s) PROVE PollInv'
  <2>1. CASE Fail(j, s)
    BY <1>1, <2>1, EndStep DEF Fail
  <2> QED BY <1>1, <1>5, <2>1, AskStep, AnswerStep, InsertStep DEF Source
<1>6. CASE UNCHANGED vars
  <2> USE DEF vars, PollInv
  <2>1. WorldInv' /\ CursorInv'
    BY <1>6 DEF WorldInv, CursorInv, Shown, Settled, Of
  <2>2. TaskInv'
    <3>1. SUFFICES ASSUME NEW j \in Jobs, NEW s \in Sources
                   PROVE  (PageInv(s, task[<<j, s>>]) /\ WindowInv(s, task[<<j, s>>]))'
      BY DEF TaskInv
    <3>2. now <= now' /\ horizon[s] <= horizon'[s]
      BY <1>6, Types DEF Numbers
    <3> QED BY <1>1, <1>6, <3>2, TaskKept
  <2> QED BY <1>1, <2>1, <2>2
<1> QED BY <1>2, <1>3, <1>4, <1>5, <1>6 DEF Next

-----------------------------------------------------------------------------
(* The theorems. *)

LEMMA Invariant == Spec => []PollInv
  BY InvInit, InvStep, PTL DEF Spec

\* The variables have their types: in particular only events that a controller
\* has reported are stored.
THEOREM TypeCorrect == Spec => []TypeOK
<1>1. PollInv => TypeOK
  BY DEF PollInv
<1> QED BY <1>1, Invariant, PTL

\* No event that the next window of a Protect source will not show is missing,
\* for any number of overlapping polls: it takes a controller that reports
\* within the overlap, and pages that are stored whole or not at all.
THEOREM NothingIsLeftBehind == Spec => []NothingLeftBehind
<1>1. PollInv => NothingLeftBehind
  BY Types DEF PollInv, CursorInv, Settled, NothingLeftBehind, WindowStart
<1> QED BY <1>1, Invariant, PTL

\* The cursor of a source is the time of an event of that source that is stored.
THEOREM CursorIsStored == Spec => []CursorShowsStored
<1>1. PollInv => CursorShowsStored
  BY DEF PollInv, CursorInv, Shown, CursorShowsStored
<1> QED BY <1>1, Invariant, PTL

-----------------------------------------------------------------------------
(* The watermark. *)

\* A page goes back to the event whose time is the watermark it was asked with.
ReachesBack(s, t) ==
  /\ s \in Protect => t.mark <= t.to
  /\ t.pc = "inserting" /\ t.mark # None => \E e \in t.page : occurred[e] = t.mark

Reaching == \A j \in Jobs, s \in Sources : ReachesBack(s, task[<<j, s>>])

LEMMA RestReaches ==
  ASSUME NEW s, NEW pc \in {"idle", "queued"}
  PROVE  ReachesBack(s, Rest(pc)) /\ ReachesBack(s, Rest(pc))'
  BY DEF Rest, ReachesBack, None

LEMMA ReachingStep ==
  ASSUME PollInv, Reaching, [Next]_vars
  PROVE  Reaching'
<1> USE DEF PollInv
<1>1. Numbers /\ 0 <= now
  BY Types DEF TypeOK, Time
<1>2. \A j \in Jobs, s \in Sources :
        PageInv(s, task[<<j, s>>]) /\ WindowInv(s, task[<<j, s>>]) /\ ReachesBack(s, task[<<j, s>>])
  BY DEF TaskInv, Reaching
\* A task that changes, while nothing occurs.
<1>3. ASSUME NEW j \in Jobs, NEW s \in Sources, NEW t,
             task' = [task EXCEPT ![<<j, s>>] = t], ReachesBack(s, t), occurred' = occurred
      PROVE  Reaching'
  <2>1. ASSUME NEW i \in Jobs, NEW r \in Sources PROVE ReachesBack(r, task[<<i, r>>])'
    <3>1. CASE i = j /\ r = s
      BY <1>3, <3>1 DEF ReachesBack, TypeOK
    <3>2. CASE ~(i = j /\ r = s)
      BY <1>2, <1>3, <3>2 DEF ReachesBack, TypeOK
    <3> QED BY <3>1, <3>2
  <2> QED BY <2>1 DEF Reaching
<1>4. ASSUME NEW e \in Events, Occur(e) PROVE Reaching'
  <2>1. ASSUME NEW j \in Jobs, NEW s \in Sources PROVE ReachesBack(s, task[<<j, s>>])'
    <3>1. e \notin task[<<j, s>>].page /\ task[<<j, s>>].page \subseteq Events
      BY <1>1, <1>2, <1>4 DEF Occur, PageInv, TypeOK, Numbers
    <3>2. \A f \in Events : f # e => occurred'[f] = occurred[f]
      BY <1>4 DEF Occur, TypeOK
    <3> QED BY <1>2, <1>4, <3>1, <3>2 DEF Occur, ReachesBack
  <2> QED BY <2>1 DEF Reaching
<1>5. ASSUME occurred' = occurred, NEW pc \in {"idle", "queued"},
             \A t \in Jobs \X Sources : task'[t] \in {task[t], Rest(pc)}
      PROVE  Reaching'
  <2>1. ASSUME NEW j \in Jobs, NEW s \in Sources PROVE ReachesBack(s, task[<<j, s>>])'
    <3>1. CASE task'[<<j, s>>] = task[<<j, s>>]
      BY <1>2, <1>5, <3>1 DEF ReachesBack
    <3>2. CASE task'[<<j, s>>] = Rest(pc)
      BY <3>2, RestReaches
    <3> QED BY <1>5, <3>1, <3>2
  <2> QED BY <2>1 DEF Reaching
<1>6. CASE Tick \/ (\E e \in Events : Report(e)) \/ UNCHANGED vars
  BY <1>5, <1>6 DEF Tick, Report, vars
<1>7. ASSUME NEW j \in Jobs, Cut(j) \/ \E S \in SUBSET Sources : Poll(j, S)
      PROVE  Reaching'
  <2>1. CASE Cut(j)
    BY <1>5, <2>1 DEF Cut, world
  <2>2. CASE \E S \in SUBSET Sources : Poll(j, S)
    BY <1>5, <2>2 DEF Poll, world
  <2> QED BY <1>7, <2>1, <2>2
<1>8. ASSUME NEW j \in Jobs, NEW s \in Sources, Ask(j, s)
      PROVE  Reaching'
  <2>1. PICK t \in Task : t = [pc |-> "asking", mark |-> cursor[s], from |-> WindowStart(s, cursor[s]),
                               to |-> WindowEnd(s), page |-> {}]
    BY WindowType
  <2>2. s \in Protect => t.mark <= t.to
    <3>1. cursor[s] # None => cursor[s] <= now
      BY MarkInPast DEF CursorInv
    <3> QED BY <1>1, <2>1, <3>1 DEF WindowEnd, Numbers, None
  <2>3. ReachesBack(s, t)
    BY <2>1, <2>2 DEF ReachesBack
  <2> QED BY <1>3, <1>8, <2>1, <2>3 DEF Ask, world
<1>9. ASSUME NEW j \in Jobs, NEW s \in Sources, Answer(j, s)
      PROVE  Reaching'
  <2>1. PICK t \in Task : t = task[<<j, s>>]
    BY <1>1 DEF Numbers
  <2>2. PICK page : page = Listing(s, t.from, t.to)
    OBVIOUS
  <2>3. CASE Unusable(page)
    BY <1>3, <1>9, <2>1, <2>2, <2>3, RestReaches DEF Answer, world
  <2>4. CASE ~Unusable(page)
    <3>1. PICK u : u = [t EXCEPT !.pc = "inserting", !.page = page]
      OBVIOUS
    <3>2. u.page = page /\ u.mark = t.mark /\ u.to = t.to
      BY <3>1 DEF Task
    <3>3. ASSUME t.mark # None PROVE \E e \in page : occurred[e] = t.mark
      <4>1. PICK e \in stored \cap Of(s) : occurred[e] = t.mark
        BY <1>2, <2>1, <3>3 DEF WindowInv, Shown
      <4>2. e \in reported
        BY <4>1 DEF TypeOK
      <4>3. s \in Protect => t.from <= t.mark /\ t.mark <= t.to
        <5>1. t.mark \in Int /\ t.from \in Int
          BY <1>1, <2>1 DEF Numbers
        <5>2. s \in Protect => t.from = t.mark - Overlap /\ t.mark <= t.to
          BY <1>2, <2>1, <3>3 DEF WindowInv, ReachesBack
        <5> QED BY <5>1, <5>2
      <4> QED BY <2>2, <4>1, <4>2, <4>3 DEF Listing
    <3>4. s \in Protect => t.mark <= t.to
      BY <1>2, <2>1 DEF ReachesBack
    <3>5. ReachesBack(s, u)
      BY <3>2, <3>3, <3>4 DEF ReachesBack
    <3> QED BY <1>3, <1>9, <2>1, <2>2, <2>4, <3>1, <3>5 DEF Answer, world
  <2> QED BY <2>3, <2>4
<1>10. ASSUME NEW j \in Jobs, NEW s \in Sources, Fail(j, s) \/ Insert(j, s)
       PROVE  Reaching'
  BY <1>3, <1>10, RestReaches DEF Fail, Insert, world
<1> QED BY <1>4, <1>6, <1>7, <1>8, <1>9, <1>10 DEF Next, Source

\* What a poll writes is no older than the watermark it read, so that a watermark
\* goes back only where two polls overlap.
THEOREM WatermarksGoOn == Spec => NeverBehindRead
<1>1. Init => Reaching
  BY RestReaches DEF Init, Reaching
<1>2. PollInv /\ Reaching /\ [Next]_vars => Reaching'
  BY ReachingStep
<1>3. ASSUME PollInv, Reaching, NEW j \in Jobs, NEW s \in Sources, Insert(j, s)
      PROVE  cursor'[s] >= task[<<j, s>>].mark
  <2> DEFINE t == task[<<j, s>>]
  <2>1. TypeOK /\ Numbers
    BY <1>3, Types DEF PollInv
  <2>2. t.mark \in Int /\ t.page \subseteq Events /\ t.page \subseteq reported /\ t \in Task
    BY <1>3, <2>1 DEF PollInv, TaskInv, PageInv, Numbers
  <2>3. CASE t.page = {} /\ cursor' = [cursor EXCEPT ![s] = t.mark]
    BY <2>1, <2>2, <2>3 DEF TypeOK
  <2>4. ASSUME NEW newest \in t.page, \A e \in t.page : occurred[e] <= occurred[newest],
               cursor' = [cursor EXCEPT ![s] = occurred[newest]]
        PROVE  cursor'[s] >= t.mark
    <3>1. cursor'[s] = occurred[newest] /\ occurred[newest] \in Int
      BY <2>1, <2>2, <2>4 DEF TypeOK, Numbers
    <3>2. CASE t.mark = None
      <4>1. occurred[newest] \in Time
        BY <2>1, <2>2, <2>4 DEF TypeOK
      <4> QED BY <3>1, <3>2, <4>1 DEF Time, None
    <3>3. CASE t.mark # None
      <4>1. PICK e \in t.page : occurred[e] = t.mark
        BY <1>3, <3>3 DEF Reaching, ReachesBack, Insert
      <4> QED BY <2>2, <2>4, <3>1, <4>1
    <3> QED BY <3>2, <3>3
  <2> QED BY <1>3, <2>3, <2>4 DEF Insert
<1> DEFINE Forward == \A j \in Jobs, s \in Sources : Insert(j, s) => cursor'[s] >= task[<<j, s>>].mark
<1>4. PollInv /\ Reaching => Forward
  BY <1>3
<1> QED BY <1>1, <1>2, <1>4, Invariant, PTL DEF Spec, NeverBehindRead

-----------------------------------------------------------------------------
(* Polling implements EventIntake. *)

LEMMA IntakeStep ==
  ASSUME PollInv, PollInv', [Next]_vars
  PROVE  [Intake!Next]_<<occurred, stored, cursor, horizon>>
<1> USE DEF PollInv
<1>0. Numbers /\ Numbers'
  BY Types, TypesNext
<1>1. ASSUME NEW e \in Events, Occur(e) PROVE Intake!Occur(e)
  <2>1. occurred'[e] = now /\ now \in Nat /\ SourceOf[e] \in Sources
    BY <1>1 DEF Occur, TypeOK, Time
  <2>2. cursor[SourceOf[e]] <= now
    BY <1>0, <2>1, MarkInPast DEF CursorInv, Numbers, None
  <2> QED BY <1>1, <2>1, <2>2 DEF Occur, Intake!Occur, Intake!None, None, tables
<1>2. ASSUME NEW j \in Jobs, NEW s \in Sources, Insert(j, s)
      PROVE  \E E \in SUBSET Intake!Of(s) : Intake!Take(s, E)
  <2>1. PICK E : E = task[<<j, s>>].page
    OBVIOUS
  <2>2. E \subseteq Of(s) /\ E \subseteq reported
    BY <2>1 DEF TaskInv, PageInv
  <2>3. /\ stored' = stored \cup E
        /\ occurred' = occurred
        /\ cursor' = [cursor EXCEPT ![s] = cursor'[s]]
        /\ horizon' = [horizon EXCEPT ![s] = horizon'[s]]
    BY <1>2, <2>1 DEF Insert, world, TypeOK
  <2>4. \A e \in E : occurred[e] # None
    BY <2>2 DEF TypeOK
  <2>5. cursor'[s] # None => \E e \in stored' : SourceOf[e] = s /\ occurred[e] = cursor'[s]
    BY <2>3 DEF CursorInv, Shown, Of
  <2>6. s \in Protect => Intake!Settled(s)'
    BY DEF CursorInv, Settled, Of, Intake!Settled, Intake!Of, Intake!None, None
  <2>7. horizon[s] <= horizon'[s]
    <3>1. horizon'[s] = IF task[<<j, s>>].mark = None /\ horizon[s] < task[<<j, s>>].from
                        THEN task[<<j, s>>].from ELSE horizon[s]
      BY <1>2 DEF Insert, TypeOK
    <3> QED BY <1>0, <3>1 DEF Numbers
  <2>8. E \in SUBSET Intake!Of(s)
    BY <2>2 DEF Of, Intake!Of
  <2> QED BY <2>3, <2>4, <2>5, <2>6, <2>7, <2>8 DEF Intake!Take, Intake!None, None
<1>3. ASSUME UNCHANGED <<occurred, tables>>
      PROVE  UNCHANGED <<occurred, stored, cursor, horizon>>
  BY <1>3 DEF tables
<1>4. ASSUME NEW j \in Jobs, NEW s \in Sources, Source(j, s), ~Insert(j, s)
      PROVE  UNCHANGED <<occurred, tables>>
  BY <1>4 DEF Source, Ask, Answer, Fail, world
<1>5. ASSUME Tick \/ (\E e \in Events : Report(e)) \/ UNCHANGED vars
             \/ \E j \in Jobs : Cut(j) \/ \E S \in SUBSET Sources : Poll(j, S)
      PROVE  UNCHANGED <<occurred, tables>>
  BY <1>5 DEF Tick, Report, Cut, Poll, world, tables, vars
<1> QED BY <1>1, <1>2, <1>3, <1>4, <1>5 DEF Next, Intake!Next

\* Whatever jobs poll, fail and overlap, events are taken as EventIntake says:
\* whole pages of a source's own events, each with a watermark that leaves
\* nothing behind.
THEOREM Refinement == Spec => TakesAsPromised
<1>1. Init => Intake!Init
  BY DEF Init, Intake!Init, Intake!None, None
<1> QED BY <1>1, IntakeStep, Invariant, PTL DEF Spec, TakesAsPromised, Intake!Spec

=============================================================================
