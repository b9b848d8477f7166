---------------------------- MODULE ServerProofs ----------------------------
(***************************************************************************)
(* The session count and the lifecycle log, for any number of connections, *)
(* workers and runs, any line shapes and any length of the tail read back. *)
(***************************************************************************)
EXTENDS Server, FiniteSetTheorems, SequenceTheorems, TLAPS

-----------------------------------------------------------------------------
(* The count.  `live` is the set of the counted tasks; a step adds one to  *)
(* it, takes one from it, or leaves it.                                    *)

TasksOK == conn \in [Conns -> TaskStates] /\ panicked \in 0 .. MaxPanics

Live == In(Counted)

LEMMA LiveIsFinite == IsFiniteSet(Live) /\ Cardinality(Live) \in Nat
  BY ServerConstants, FS_Subset, FS_CardinalityType DEF Live, In

LEMMA LiveGains ==
  ASSUME NEW c \in Conns \ Live, Live' = Live \cup {c}
  PROVE  Cardinality(Live)' = Cardinality(Live) + 1
  BY LiveIsFinite, FS_AddElement

LEMMA LiveLoses ==
  ASSUME NEW c \in Live, Live' = Live \ {c}
  PROVE  Cardinality(Live)' = Cardinality(Live) - 1
  BY LiveIsFinite, FS_RemoveElement

CountInv == TasksOK /\ CountIsExplained

LEMMA GoneKeepsCount == ASSUME Gone PROVE CountInv'
<1>1. Live' = {}
  BY DEF Gone, NoTasks, Live, In, Counted
<1>2. Cardinality(Live)' = 0
  BY <1>1, FS_EmptySet
<1>3. TasksOK'
  BY ServerConstants DEF Gone, NoTasks, TasksOK, TaskStates
<1> QED
  BY <1>2, <1>3 DEF Gone, CountInv, CountIsExplained, Live

LEMMA ProcessKeepsCount == ASSUME CountInv, Process PROVE CountInv'
<1>1. Gone \/ UNCHANGED tasks
  BY DEF Process, Boot, Start, Bind, BindFails, Leave, Stop, Drop, Exit, Kill
<1>2. CASE UNCHANGED tasks
  BY <1>2 DEF tasks, CountInv, TasksOK, CountIsExplained, In
<1> QED
  BY <1>1, <1>2, GoneKeepsCount

(* A task that moves without entering or leaving the counted states.       *)
LEMMA MoveKeepsCount ==
  ASSUME CountInv, NEW c \in Conns, NEW to \in TaskStates, Moves(c, to),
         conn[c] \in Counted <=> to \in Counted,
         UNCHANGED <<open_sessions, panicked>>
  PROVE  CountInv'
<1>1. Live' = Live
  BY DEF CountInv, TasksOK, Live, In, Moves
<1>2. TasksOK'
  BY DEF CountInv, TasksOK, Moves
<1> QED
  BY <1>1, <1>2 DEF CountInv, CountIsExplained, Live

LEMMA TaskKeepsCount == ASSUME CountInv, NEW c \in Conns, Task(c) PROVE CountInv'
<1>0. conn \in [Conns -> TaskStates] /\ Cardinality(Live) \in Nat /\ panicked \in Nat
  BY LiveIsFinite, ServerConstants DEF CountInv, TasksOK
<1>1. CASE Accept(c)
  BY <1>1, MoveKeepsCount DEF Accept, Counted, TaskStates
<1>2. CASE Peek(c) \/ Receive(c) \/ Sent(c)
  <2>1. \E to \in Counted : Moves(c, to) /\ conn[c] \in Counted
                              /\ UNCHANGED <<open_sessions, panicked>>
    BY <1>2 DEF Peek, Receive, Sent, Step, Counted
  <2> QED
    BY <2>1, MoveKeepsCount DEF Counted, TaskStates
<1>3. CASE Handled(c)
  BY <1>3, MoveKeepsCount DEF Handled, Counted, TaskStates
<1>4. CASE Begin(c)
  <2>1. c \notin Live /\ Live' = Live \cup {c}
    BY <1>0, <1>4 DEF Begin, Moves, Live, In, Counted
  <2>2. Cardinality(Live)' = Cardinality(Live) + 1
    BY <2>1, LiveGains
  <2>3. open_sessions' = open_sessions + 1 /\ panicked' = panicked
    BY <1>4 DEF Begin
  <2>4. TasksOK'
    BY <1>0, <1>4, <2>3 DEF Begin, Moves, TasksOK, TaskStates, CountInv
  <2> QED
    BY <1>0, <2>2, <2>3, <2>4 DEF CountInv, CountIsExplained, Live
<1>5. ASSUME Moves(c, "none"), conn[c] \in Counted
      PROVE  /\ Cardinality(Live)' = Cardinality(Live) - 1
             /\ conn' \in [Conns -> TaskStates]
  <2>1. c \in Live /\ Live' = Live \ {c}
    BY <1>0, <1>5 DEF Moves, Live, In, Counted
  <2> QED
    BY <1>0, <1>5, <2>1, LiveLoses DEF Moves, TaskStates
<1>6. CASE End(c)
  <2>1. /\ Cardinality(Live)' = Cardinality(Live) - 1
        /\ conn' \in [Conns -> TaskStates]
    BY <1>5, <1>6 DEF End
  <2>2. open_sessions' = open_sessions - 1 /\ panicked' = panicked
    BY <1>6 DEF End
  <2> QED
    BY <1>0, <2>1, <2>2 DEF CountInv, TasksOK, CountIsExplained, Live
<1>7. CASE Panic(c)
  <2>1. /\ Cardinality(Live)' = Cardinality(Live) - 1
        /\ conn' \in [Conns -> TaskStates]
    BY <1>5, <1>7 DEF Panic, Counted
  <2>2. open_sessions' = open_sessions /\ panicked' = panicked + 1 /\ panicked < MaxPanics
    BY <1>7 DEF Panic
  <2> QED
    BY <1>0, <2>1, <2>2, ServerConstants DEF CountInv, TasksOK, CountIsExplained, Live
<1> QED
  BY <1>1, <1>2, <1>3, <1>4, <1>6, <1>7 DEF Task

LEMMA SpecCountInv == Spec => []CountInv
<1>1. Init => CountInv
  <2>1. Init => Live = {}
    BY DEF Init, NoTasks, Live, In, Counted
  <2>2. Init => TasksOK
    BY ServerConstants DEF Init, NoTasks, TasksOK, TaskStates
  <2> QED
    BY <2>1, <2>2, FS_EmptySet DEF Init, CountInv, CountIsExplained, Live
<1>2. CountInv /\ Next => CountInv'
  BY ProcessKeepsCount, TaskKeepsCount DEF Next
<1>3. CountInv /\ UNCHANGED vars => CountInv'
  BY DEF vars, tasks, CountInv, TasksOK, CountIsExplained, In
<1> QED
  BY <1>1, <1>2, <1>3, PTL DEF Spec

(* OPEN_SESSIONS is the number of tasks being served plus the number that  *)
(* panicked in this run.                                                   *)
THEOREM CountNeverDrifts == Spec => []CountIsExplained
<1>1. CountInv => CountIsExplained
  BY DEF CountInv
<1> QED
  BY <1>1, SpecCountInv, PTL

-----------------------------------------------------------------------------
(* The log.  A run that is about to say START has left the last line clean;*)
(* once it said START, the last line is its own.                           *)

Running == {"binding", "listening", "leaving", "stopped", "dropping"}

LogInv ==
  /\ LogTypeOK
  /\ phase \in Phases
  /\ run \in Nat
  /\ Len(bytes) <= TailLen =>
       /\ LogReadsAsRuns
       /\ phase = "starting" /\ log # << >> => log[Len(log)].event \in {"STOP", "UNCLEAN"}
       /\ phase \in Running => log # << >> /\ log[Len(log)].run = run

LEMMA Appended ==
  ASSUME LogTypeOK, NEW event \in Events, NEW r \in Nat, Record(event, r)
  PROVE  /\ LogTypeOK'
         /\ Len(bytes') >= Len(bytes)
         /\ Len(log') = Len(log) + 1
         /\ log'[Len(log')] = Line(event, r)
         /\ \A i \in 1 .. Len(log) : log'[i] = log[i]
<1>1. Shape[event] \in Seq(ByteClasses) /\ Len(Shape[event]) \in Nat
  BY LifecycleConstants
<1>2. bytes' \in Seq(ByteClasses) /\ Len(bytes') = Len(bytes) + Len(Shape[event])
  BY <1>1 DEF Record, LogTypeOK
<1>3. Line(event, r) \in [event : Events, run : Nat]
  BY DEF Line
<1>4. log' \in Seq([event : Events, run : Nat])
  BY <1>3 DEF Record, LogTypeOK
<1>5. Len(log') = Len(log) + 1 /\ log'[Len(log) + 1] = Line(event, r)
  BY DEF Record, LogTypeOK
<1>6. \A i \in 1 .. Len(log) : log'[i] = log[i]
  BY DEF Record, LogTypeOK
<1> QED
  BY <1>1, <1>2, <1>4, <1>5, <1>6 DEF LogTypeOK

(* A line may follow the last one; the rest reads as it did.               *)
LEMMA LogGrows ==
  ASSUME LogTypeOK, LogReadsAsRuns, NEW event \in Events, NEW r \in Nat,
         Record(event, r),
         log # << >> =>
           /\ event = "START" => log[Len(log)].event \in {"STOP", "UNCLEAN"}
           /\ event = "UNCLEAN" => log[Len(log)].event \in {"START", "PANIC"}
           /\ event \in {"STOP", "PANIC"} => log[Len(log)].run = r
  PROVE  LogReadsAsRuns'
<1>1. /\ Len(log) \in Nat
      /\ Len(log') = Len(log) + 1
      /\ log'[Len(log')] = Line(event, r)
      /\ \A i \in 1 .. Len(log) : log'[i] = log[i]
  BY Appended DEF LogTypeOK
<1>2. ASSUME NEW i \in 2 .. Len(log')
      PROVE  /\ log'[i].event = "START" => log'[i - 1].event \in {"STOP", "UNCLEAN"}
             /\ log'[i].event = "UNCLEAN" => log'[i - 1].event \in {"START", "PANIC"}
             /\ log'[i].event \in {"STOP", "PANIC"} => log'[i - 1].run = log'[i].run
  <2>1. CASE i \in 2 .. Len(log)
    <3>1. i \in 1 .. Len(log) /\ i - 1 \in 1 .. Len(log)
      BY <1>1, <2>1
    <3>2. log'[i] = log[i] /\ log'[i - 1] = log[i - 1]
      BY <1>1, <3>1
    <3> QED
      BY <2>1, <3>2 DEF LogReadsAsRuns
  <2>2. CASE i = Len(log')
    <3>1. i - 1 = Len(log) /\ Len(log) \in 1 .. Len(log) /\ log # << >>
      BY <1>1, <2>2
    <3>2. log'[i - 1] = log[Len(log)]
      BY <1>1, <3>1
    <3> QED
      BY <1>1, <2>2, <3>1, <3>2 DEF Line
  <2> QED
    BY <1>1, <2>1, <2>2
<1> QED
  BY <1>2 DEF LogReadsAsRuns

LEMMA BootKeepsLog == ASSUME LogInv, Boot PROVE LogInv'
<1>1. run' = run + 1 /\ phase' = "starting" /\ run + 1 \in Nat
  BY DEF Boot, LogInv
<1>2. CASE NothingToReport
  <2>1. UNCHANGED file
    BY <1>2 DEF Boot
  <2>2. Len(bytes) <= TailLen /\ log # << >> => log[Len(log)].event \in {"STOP", "UNCLEAN"}
    BY <1>2 DEF NothingToReport, HasLastLine, Readable, IsCleanEnd
  <2> QED
    BY <1>1, <2>1, <2>2 DEF LogInv, LogTypeOK, LogReadsAsRuns, file, Phases, Running
<1>3. CASE ~ NothingToReport
  <2>1. Record("UNCLEAN", run + 1)
    BY <1>3 DEF Boot
  <2>2. log # << >> /\ log[Len(log)].event \in {"START", "PANIC"}
    <3>1. log # << >> /\ log[Len(log)].event \notin {"STOP", "UNCLEAN"}
      BY <1>3 DEF NothingToReport, HasLastLine, IsCleanEnd
    <3>2. Len(log) \in 1 .. Len(log)
      BY <3>1 DEF LogInv, LogTypeOK
    <3>3. log[Len(log)] \in [event : Events, run : Nat]
      BY <3>2, ElementOfSeq DEF LogInv, LogTypeOK
    <3> QED
      BY <3>1, <3>3 DEF Events
  <2>3. /\ LogTypeOK'
        /\ Len(bytes') >= Len(bytes)
        /\ log'[Len(log')] = Line("UNCLEAN", run + 1)
    BY <1>1, <2>1, Appended DEF LogInv, Events
  <2>4. LogReadsAsRuns => LogReadsAsRuns'
    BY <1>1, <2>1, <2>2, LogGrows DEF LogInv, Events
  <2>5. Len(bytes') <= TailLen => Len(bytes) <= TailLen
    BY <2>3, LifecycleConstants DEF LogInv, LogTypeOK
  <2> QED
    BY <1>1, <2>3, <2>4, <2>5 DEF LogInv, Line, Phases, Running
<1> QED
  BY <1>2, <1>3

(* A run that has booted writes a line of its own and goes on running.     *)
LEMMA LineOfTheRun ==
  ASSUME LogInv, NEW event \in {"START", "STOP", "PANIC"}, Record(event, run),
         UNCHANGED run, phase' \in Running,
         event = "START" => phase = "starting",
         event # "START" => phase \in Running
  PROVE  LogInv'
<1>1. event \in Events /\ run \in Nat
  BY DEF Events, LogInv
<1>2. /\ LogTypeOK'
      /\ Len(bytes') >= Len(bytes)
      /\ Len(log') = Len(log) + 1
      /\ log'[Len(log')] = Line(event, run)
  BY <1>1, Appended DEF LogInv
<1>3. Len(bytes') <= TailLen => Len(bytes) <= TailLen
  BY <1>2, LifecycleConstants DEF LogInv, LogTypeOK
<1>4. Len(bytes) <= TailLen => LogReadsAsRuns'
  <2>1. Len(bytes) <= TailLen /\ log # << >> =>
          /\ event = "START" => log[Len(log)].event \in {"STOP", "UNCLEAN"}
          /\ event = "UNCLEAN" => log[Len(log)].event \in {"START", "PANIC"}
          /\ event \in {"STOP", "PANIC"} => log[Len(log)].run = run
    BY DEF LogInv
  <2> QED
    BY <1>1, <2>1, LogGrows DEF LogInv
<1>5. log' # << >> /\ log'[Len(log')].run = run'
  BY <1>2 DEF Line, LogInv, LogTypeOK
<1> QED
  BY <1>1, <1>2, <1>3, <1>4, <1>5 DEF LogInv, Phases, Running

(* Tasks exist only while the runtime does.                                *)
Serving == {"listening", "leaving", "stopped", "dropping"}
TasksNeedTheRuntime ==
  /\ conn \in [Conns -> TaskStates]
  /\ phase \notin Serving => conn = NoTasks

LEMMA SpecTasksNeedTheRuntime == Spec => []TasksNeedTheRuntime
<1>1. Init => TasksNeedTheRuntime
  BY DEF Init, NoTasks, TasksNeedTheRuntime, TaskStates
<1>2. ASSUME TasksNeedTheRuntime, Process PROVE TasksNeedTheRuntime'
  <2>1. CASE Gone
    BY <2>1 DEF Gone, NoTasks, TasksNeedTheRuntime, TaskStates
  <2>2. CASE Boot \/ Start \/ Bind \/ Leave \/ Stop \/ Drop
    BY <1>2, <2>2 DEF Boot, Start, Bind, Leave, Stop, Drop, tasks, NoTasks,
                      TasksNeedTheRuntime, Serving
  <2> QED
    BY <1>2, <2>1, <2>2 DEF Process, BindFails, Exit, Kill
<1>3. ASSUME TasksNeedTheRuntime, NEW c \in Conns, Task(c) PROVE TasksNeedTheRuntime'
  <2>1. \E to \in TaskStates : Moves(c, to)
    BY <1>3 DEF Task, Accept, Begin, Peek, Receive, Sent, Step, Handled, End, Panic, TaskStates
  <2>2. UNCHANGED phase
    BY <1>3 DEF Task, Accept, Begin, Peek, Receive, Sent, Step, Handled, End, Panic, process
  <2>3. phase \in Serving
    <3>1. conn[c] = "handling" \/ phase = "listening" \/ Polling
      BY <1>3 DEF Task, Accept, Begin, Peek, Receive, Sent, Step, Handled, End, Panic
    <3> QED
      BY <1>3, <3>1 DEF Polling, Serving, TasksNeedTheRuntime, NoTasks
  <2> QED
    BY <1>3, <2>1, <2>2, <2>3 DEF TasksNeedTheRuntime, Moves
<1>4. TasksNeedTheRuntime /\ UNCHANGED vars => TasksNeedTheRuntime'
  BY DEF vars, tasks, process, TasksNeedTheRuntime
<1>5. TasksNeedTheRuntime /\ Next => TasksNeedTheRuntime'
  BY <1>2, <1>3 DEF Next
<1> QED
  BY <1>1, <1>4, <1>5, PTL DEF Spec

LEMMA NextKeepsLog == LogInv /\ TasksNeedTheRuntime /\ Next => LogInv'
<1>. SUFFICES ASSUME LogInv, TasksNeedTheRuntime, Next PROVE LogInv'
  OBVIOUS
<1>1. CASE Boot
  BY <1>1, BootKeepsLog
<1>2. CASE Start
  BY <1>2, LineOfTheRun DEF Start, Running
<1>3. CASE Stop
  BY <1>3, LineOfTheRun DEF Stop, Running
<1>4. CASE Gone
  BY <1>4 DEF Gone, LogInv, LogTypeOK, LogReadsAsRuns, file, Phases, Running
<1>5. CASE Bind \/ Leave \/ Drop
  BY <1>5 DEF Bind, Leave, Drop, LogInv, LogTypeOK, LogReadsAsRuns, file, Phases, Running
<1>6. ASSUME NEW c \in Conns, Panic(c) PROVE LogInv'
  <2>1. phase \in Running
    BY <1>6 DEF Panic, TasksNeedTheRuntime, NoTasks, Serving, Running
  <2> QED
    BY <1>6, <2>1, LineOfTheRun DEF Panic, process
<1>7. ASSUME NEW c \in Conns, Task(c) PROVE Panic(c) \/ UNCHANGED <<file, process>>
  BY <1>7 DEF Task, Accept, Begin, Peek, Receive, Sent, Step, Handled, End
<1>8. CASE UNCHANGED <<file, process>>
  BY <1>8 DEF file, process, LogInv, LogTypeOK, LogReadsAsRuns
<1> QED
  BY <1>1, <1>2, <1>3, <1>4, <1>5, <1>6, <1>7, <1>8
  DEF Next, Process, BindFails, Exit, Kill

LEMMA SpecLogInv == Spec => []LogInv
<1>1. Init => LogInv
  BY ServerConstants DEF Init, LogInit, LogInv, LogTypeOK, LogReadsAsRuns, Phases, Running
<1>2. LogInv /\ UNCHANGED vars => LogInv'
  BY DEF vars, file, process, LogInv, LogTypeOK, LogReadsAsRuns
<1> QED
  BY <1>1, <1>2, NextKeepsLog, SpecTasksNeedTheRuntime, PTL DEF Spec

(* While the file is short enough to be read back whole, it never shows    *)
(* two runs without a STOP or an UNCLEAN between them, nor accuses a run   *)
(* twice, whatever kills, failed binds, panics and signals it went through.*)
THEOREM ShortLogsTellTheRuns == Spec => []ShortLogReadsAsRuns
<1>1. LogInv => ShortLogReadsAsRuns
  BY DEF LogInv, ShortLogReadsAsRuns
<1> QED
  BY <1>1, SpecLogInv, PTL

RunInv == run \in 0 .. MaxRuns

LEMMA SpecRunInv == Spec => []RunInv
<1>1. Init => RunInv
  BY ServerConstants DEF Init, RunInv
<1>2. ASSUME RunInv, Process PROVE RunInv'
  <2>1. CASE Boot
    BY <1>2, <2>1, ServerConstants DEF Boot, RunInv
  <2>2. CASE UNCHANGED run
    BY <1>2, <2>2 DEF RunInv
  <2> QED
    BY <1>2, <2>1, <2>2
    DEF Process, Start, Bind, BindFails, Leave, Stop, Drop, Exit, Kill, Gone
<1>3. ASSUME RunInv, NEW c \in Conns, Task(c) PROVE RunInv'
  BY <1>3 DEF Task, Accept, Begin, Peek, Receive, Sent, Step, Handled, End, Panic,
              process, RunInv
<1>4. RunInv /\ Next => RunInv'
  BY <1>2, <1>3 DEF Next
<1>5. RunInv /\ UNCHANGED vars => RunInv'
  BY DEF vars, process, RunInv
<1> QED
  BY <1>1, <1>4, <1>5, PTL DEF Spec

(* The state of the server stays well formed; OPEN_SESSIONS, an unsigned   *)
(* counter, is never taken below zero.                                     *)
THEOREM ServerTypes == Spec => []TypeOK
<1>1. CountInv => conn \in [Conns -> TaskStates] /\ panicked \in 0 .. MaxPanics
                  /\ open_sessions \in Nat
  BY LiveIsFinite, ServerConstants DEF CountInv, TasksOK, CountIsExplained, Live
<1>2. CountInv /\ LogInv /\ RunInv => TypeOK
  BY <1>1 DEF LogInv, RunInv, TypeOK
<1> QED
  BY <1>2, SpecCountInv, SpecLogInv, SpecRunInv, PTL
=============================================================================
