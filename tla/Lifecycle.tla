----------------------------- MODULE Lifecycle -----------------------------
(***************************************************************************)
(* The lifecycle log (cdp-server/src/lifecycle.rs): a file that outlives   *)
(* the process, to which a run appends START when it comes up, STOP when   *)
(* it was asked to stop, PANIC when a session panics, and UNCLEAN, at      *)
(* boot, when the last line says that the run before ended without STOP.   *)
(*                                                                         *)
(* Only the end of the file is read back, from a byte offset, as UTF-8.    *)
(* Bytes are kept as far as that needs: whether they begin a character or  *)
(* continue one.  The fixed texts of the lines hold characters of several  *)
(* bytes ("versão", "sessões_abertas", "execução").                        *)
(*                                                                         *)
(* A definition that stands before another and bears its name with an      *)
(* addition, as IsCleanEndStopOnly beside IsCleanEnd, is that code with a  *)
(* plausible slip. No action uses it: it tells which property would notice *)
(* (README, Slips).                                                        *)
(***************************************************************************)
EXTENDS Naturals, Sequences

CONSTANTS
  TailLen,   \* TAIL, the bytes read back at boot
  Shape    \* event -> the bytes of its line

Events == {"START", "STOP", "PANIC", "UNCLEAN"}
ByteClasses == {"begins", "continues"}

(* A line is read back whole. *)
ASSUME LifecycleConstants ==
  /\ TailLen \in Nat \ {0}
  /\ Shape \in [Events -> Seq(ByteClasses)]
  /\ \A e \in Events : Len(Shape[e]) \in 1 .. TailLen

VARIABLES
  log,     \* the lines: their event and the run that wrote them
  bytes    \* the bytes of the file

file == <<log, bytes>>

LogInit ==
  /\ log = << >>
  /\ bytes = << >>

Line(event, run) == [event |-> event, run |-> run]

Record(event, run) ==
  /\ log' = Append(log, Line(event, run))
  /\ bytes' = bytes \o Shape[event]

(* Reading from the middle of a character is an error, which reads as no   *)
(* line at all.                                                            *)
Readable ==
  Len(bytes) <= TailLen \/ bytes[Len(bytes) - TailLen + 1] = "begins"

HasLastLine == log # << >> /\ Readable

IsCleanEndStopOnly(line) == line.event = "STOP"

IsCleanEnd(line) == line.event \in {"STOP", "UNCLEAN"}

NothingToReport == HasLastLine => IsCleanEnd(log[Len(log)])

LogTypeOK ==
  /\ log \in Seq([event : Events, run : Nat])
  /\ bytes \in Seq(ByteClasses)

(* The log can be read as a history of runs: a START follows a STOP or an  *)
(* UNCLEAN, or begins the file; an UNCLEAN accuses a run that left traces, *)
(* once; and a STOP says nothing of another run.                           *)
LogReadsAsRuns ==
  \A i \in 2 .. Len(log) :
    /\ log[i].event = "START" => log[i - 1].event \in {"STOP", "UNCLEAN"}
    /\ log[i].event = "UNCLEAN" => log[i - 1].event \in {"START", "PANIC"}
    /\ log[i].event \in {"STOP", "PANIC"} => log[i - 1].run = log[i].run

(* The log reads as a history of runs while the file is no longer than     *)
(* what is read back of it.                                                *)
ShortLogReadsAsRuns == Len(bytes) <= TailLen => LogReadsAsRuns
=============================================================================
