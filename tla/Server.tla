------------------------------- MODULE Server -------------------------------
(***************************************************************************)
(* The server process over several runs (cdp-server/src/main.rs) with its  *)
(* lifecycle log.  `run` boots, logs, binds and accepts until a signal or  *)
(* a failed accept; every connection is a task on a fixed set of worker    *)
(* threads.  A command is handled without yielding, so it occupies its     *)
(* worker; everywhere else a task waits without one.                       *)
(*                                                                         *)
(* A connection is                                                         *)
(*   spawned   accepted, its task not polled yet                           *)
(*   peeked    counted, waiting for its first bytes                        *)
(*   health    a health check being answered                               *)
(*   open      a WebSocket session waiting for a message                   *)
(*   handling  a message being handled, on a worker                        *)
(*   sending   outputs being sent, waiting for the client                  *)
(*                                                                         *)
(* A definition that stands before another and bears its name with an      *)
(* addition, as ExitWhenIdle beside Exit, is that code with a plausible    *)
(* slip. No action uses it: it tells which property would notice (README,  *)
(* Slips).                                                                 *)
(***************************************************************************)
EXTENDS Lifecycle, FiniteSets

CONSTANTS
  Conns,       \* connections at one time
  Workers,     \* worker threads
  MaxRuns,     \* bound on the boots
  MaxPanics    \* bound on the sessions that panic in one run

ASSUME ServerConstants ==
  /\ IsFiniteSet(Conns)
  /\ Workers \in Nat \ {0}
  /\ MaxRuns \in Nat
  /\ MaxPanics \in Nat

VARIABLES
  phase,          \* of the process
  run,            \* number of the current run, or of the last one
  conn,           \* connection -> where its task is, "none" if there is none
  open_sessions,  \* OPEN_SESSIONS
  panicked        \* history: sessions of this run that panicked

process == <<phase, run>>
tasks == <<conn, open_sessions, panicked>>
vars == <<file, process, tasks>>

Phases ==
  {"down", "starting", "binding", "listening", "leaving", "stopped", "dropping"}
TaskStates == {"none", "spawned", "peeked", "health", "open", "handling", "sending"}

In(states) == {c \in Conns : conn[c] \in states}
Counted == {"peeked", "health", "open", "handling", "sending"}
WebSockets == {"open", "handling", "sending"}

(* The runtime is up, and a worker can poll a task that was woken. *)
Polling ==
  /\ phase \in {"listening", "leaving", "stopped"}
  /\ Cardinality(In({"handling"})) < Workers

NoTasks == [c \in Conns |-> "none"]

Init ==
  /\ LogInit
  /\ phase = "down"
  /\ run = 0
  /\ conn = NoTasks
  /\ open_sessions = 0
  /\ panicked = 0

-----------------------------------------------------------------------------
(* The process: lifecycle::start, then `run`. *)

Boot ==
  /\ phase = "down" /\ run < MaxRuns
  /\ phase' = "starting"
  /\ run' = run + 1
  /\ IF NothingToReport THEN UNCHANGED file ELSE Record("UNCLEAN", run + 1)
  /\ UNCHANGED tasks

Start ==
  /\ phase = "starting"
  /\ phase' = "binding"
  /\ Record("START", run)
  /\ UNCHANGED <<tasks, run>>

Bind ==
  /\ phase = "binding"
  /\ phase' = "listening"
  /\ UNCHANGED <<file, tasks, run>>

(* The process is gone, with everything it held. *)
Gone ==
  /\ phase' = "down"
  /\ conn' = NoTasks
  /\ open_sessions' = 0
  /\ panicked' = 0
  /\ UNCHANGED <<file, run>>

BindFails == phase = "binding" /\ Gone

(* A signal, or an accept that failed. *)
Leave ==
  /\ phase = "listening"
  /\ phase' = "leaving"
  /\ UNCHANGED <<file, tasks, run>>

Stop ==
  /\ phase = "leaving"
  /\ phase' = "stopped"
  /\ Record("STOP", run)
  /\ UNCHANGED <<tasks, run>>

(* `main` returns: the runtime is dropped and polls no task any more. *)
Drop ==
  /\ phase = "stopped"
  /\ phase' = "dropping"
  /\ UNCHANGED <<file, tasks, run>>

ExitWhenIdle == phase = "dropping" /\ In(Counted) = {} /\ Gone

(* The drop waits for the tasks that are on a worker, and drops the others *)
(* where they wait.                                                        *)
Exit == phase = "dropping" /\ In({"handling"}) = {} /\ Gone

(* SIGKILL, out of memory, a stack overflow: no trace is left. *)
Kill == phase # "down" /\ Gone

-----------------------------------------------------------------------------
(* The connections: the accept loop, the spawned task and `serve`. *)

Moves(c, to) == conn' = [conn EXCEPT ![c] = to]

Accept(c) ==
  /\ phase = "listening" /\ conn[c] = "none"
  /\ Moves(c, "spawned")
  /\ UNCHANGED <<file, process, open_sessions, panicked>>

BeginWhenAlone(c) ==
  /\ Polling /\ conn[c] = "spawned" /\ In(Counted) = {}
  /\ Moves(c, "peeked")
  /\ open_sessions' = open_sessions + 1
  /\ UNCHANGED <<file, process, panicked>>

Begin(c) ==
  /\ Polling /\ conn[c] = "spawned"
  /\ Moves(c, "peeked")
  /\ open_sessions' = open_sessions + 1
  /\ UNCHANGED <<file, process, panicked>>

(* The first bytes choose between the health check and the handshake; a    *)
(* message is handled and its outputs are sent.                            *)
Step(c, from, to) ==
  /\ Polling /\ conn[c] = from
  /\ Moves(c, to)
  /\ UNCHANGED <<file, process, open_sessions, panicked>>

Peek(c) == Step(c, "peeked", "health") \/ Step(c, "peeked", "open")
Receive(c) == Step(c, "open", "handling")
Sent(c) == Step(c, "sending", "open")

Handled(c) ==
  /\ conn[c] = "handling"
  /\ Moves(c, "sending")
  /\ UNCHANGED <<file, process, open_sessions, panicked>>

EndUnbegun(c) ==
  /\ Polling /\ conn[c] \in {"spawned"} \cup (Counted \ {"handling"})
  /\ Moves(c, "none")
  /\ open_sessions' = open_sessions - 1
  /\ UNCHANGED <<file, process, panicked>>

EndUncountedOnError(c) ==
  /\ Polling /\ conn[c] \in Counted \ {"handling"}
  /\ Moves(c, "none")
  /\ open_sessions' = IF conn[c] = "sending" THEN open_sessions ELSE open_sessions - 1
  /\ UNCHANGED <<file, process, panicked>>

(* `serve` returns: the health check was answered, the peer is gone, the   *)
(* handshake or a send failed.                                             *)
End(c) ==
  /\ Polling /\ conn[c] \in Counted \ {"handling"}
  /\ Moves(c, "none")
  /\ open_sessions' = open_sessions - 1
  /\ UNCHANGED <<file, process, panicked>>

(* The handler panics: the hook writes its line, and the task unwinds past *)
(* the code that follows `serve`.                                          *)
Panic(c) ==
  /\ conn[c] = "handling" /\ panicked < MaxPanics
  /\ Moves(c, "none")
  /\ panicked' = panicked + 1
  /\ Record("PANIC", run)
  /\ UNCHANGED <<process, open_sessions>>

Process ==
  \/ Boot \/ Start \/ Bind \/ BindFails
  \/ Leave \/ Stop \/ Drop \/ Exit \/ Kill

Task(c) ==
  \/ Accept(c) \/ Begin(c) \/ Peek(c) \/ Receive(c)
  \/ Handled(c) \/ Sent(c) \/ End(c) \/ Panic(c)

Next == Process \/ \E c \in Conns : Task(c)

Spec == Init /\ [][Next]_vars

(* The process goes on once it is leaving, handlers return, and the run    *)
(* queue is served in turn, so a task that can be polled again and again   *)
(* is.  Nothing is owed by clients: they may stay silent for ever.         *)
Fairness ==
  /\ WF_vars(Stop) /\ WF_vars(Drop) /\ WF_vars(Exit)
  /\ \A c \in Conns : SF_vars(Begin(c)) /\ WF_vars(Handled(c) \/ Panic(c))

FairSpec == Spec /\ Fairness

-----------------------------------------------------------------------------
TypeOK ==
  /\ LogTypeOK
  /\ phase \in Phases
  /\ run \in 0 .. MaxRuns
  /\ conn \in [Conns -> TaskStates]
  /\ open_sessions \in Nat
  /\ panicked \in 0 .. MaxPanics

(* OPEN_SESSIONS is what was added and not taken back: a task is counted   *)
(* from its first poll to the end of `serve`, on every way out but one,    *)
(* and each panic leaves one behind.  It never wraps below zero.           *)
CountIsExplained == open_sessions = Cardinality(In(Counted)) + panicked

(* Once asked to stop, the process ends, whatever sessions are open and    *)
(* however silent their clients are (main.rs: "a parada é imediata").      *)
StopEnds == phase = "leaving" ~> phase = "down"

(* A connection accepted is taken up, even when another one has a command  *)
(* ready whenever a worker is free; a health check gets its turn.          *)
AcceptedIsTakenUp == \A c \in Conns : conn[c] = "spawned" ~> conn[c] # "spawned"

(* lifecycle.rs:22: "Sessões WebSocket abertas agora".  Nothing connected, *)
(* nothing counted.                                                        *)
IdleCountsNothing == In(TaskStates \ {"none"}) = {} => open_sessions = 0
=============================================================================
