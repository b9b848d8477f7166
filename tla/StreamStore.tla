---------------------------- MODULE StreamStore ----------------------------
(***************************************************************************)
(* The streams of one CDP session (cdp-server/src/session/streams.rs): the *)
(* bytes of a PDF are parked under a handle and drained in chunks of a     *)
(* fixed size.  The buffer is freed by the read that reaches its end; the  *)
(* handle stays until it is closed.                                        *)
(*                                                                         *)
(* Handle "stream-n" is n and 0 is any handle that was never given out.    *)
(* Bytes are numbered, so a buffer is its length.                          *)
(*                                                                         *)
(* A definition that stands before another and bears its name with an      *)
(* addition, as ChunkEofEarly beside Chunk, is that code with a plausible  *)
(* slip. No action uses it: it tells which property would notice (README,  *)
(* Slips).                                                                 *)
(***************************************************************************)
EXTENDS Integers

CONSTANTS
  ChunkSize,   \* CHUNK
  MaxStreams,  \* bound on the handles given out, far below the u32 counter's
  Drained      \* Stream::Drained

ASSUME StreamConstants ==
  /\ ChunkSize \in Nat \ {0}
  /\ MaxStreams \in Nat
  /\ Drained \notin [bytes : Nat, pos : Nat]

VARIABLES
  counter,  \* handles given out so far
  open      \* handle -> stream

storeVars == <<counter, open>>

Handles == 0 .. MaxStreams

StoreInit ==
  /\ counter = 0
  /\ open = << >>

(* The store holds bytes under h that were not all handed out. *)
Holds(h) == h \in DOMAIN open /\ open[h] # Drained

ChunkEnd(stream) ==
  IF stream.pos + ChunkSize < stream.bytes
  THEN stream.pos + ChunkSize
  ELSE stream.bytes

Insert(f, h, stream) == [x \in DOMAIN f \cup {h} |-> IF x = h THEN stream ELSE f[x]]

OpenUncounted(n) ==
  /\ counter < MaxStreams
  /\ open' = Insert(open, counter + 1, [bytes |-> n, pos |-> 0])
  /\ UNCHANGED counter

OpenOverLast(n) ==
  /\ counter < MaxStreams
  /\ counter' = counter + 1
  /\ open' = Insert(open, counter, [bytes |-> n, pos |-> 0])

Open(n) ==
  /\ counter < MaxStreams
  /\ counter' = counter + 1
  /\ open' = Insert(open, counter + 1, [bytes |-> n, pos |-> 0])

ChunkEofEarly(h) ==
  IF Holds(h)
  THEN [handle |-> h, from |-> open[h].pos, to |-> ChunkEnd(open[h]),
        eof |-> open[h].pos + 2 * ChunkSize > open[h].bytes]
  ELSE [handle |-> h, from |-> 0, to |-> 0, eof |-> TRUE]

ChunkEofNever(h) ==
  IF Holds(h)
  THEN [handle |-> h, from |-> open[h].pos, to |-> ChunkEnd(open[h]),
        eof |-> FALSE]
  ELSE [handle |-> h, from |-> 0, to |-> 0, eof |-> TRUE]

ChunkUnknownIsOpen(h) ==
  IF Holds(h)
  THEN [handle |-> h, from |-> open[h].pos, to |-> ChunkEnd(open[h]),
        eof |-> ChunkEnd(open[h]) >= open[h].bytes]
  ELSE [handle |-> h, from |-> 0, to |-> 0, eof |-> FALSE]

(* What a read of h answers: bytes from + 1 .. to, and whether that was    *)
(* the end.  A handle the store does not hold reads as an empty end.       *)
Chunk(h) ==
  IF Holds(h)
  THEN [handle |-> h, from |-> open[h].pos, to |-> ChunkEnd(open[h]),
        eof |-> ChunkEnd(open[h]) >= open[h].bytes]
  ELSE [handle |-> h, from |-> 0, to |-> 0, eof |-> TRUE]

Read(h) ==
  /\ open' = IF ~ Holds(h) THEN open
             ELSE IF Chunk(h).eof THEN Insert(open, h, Drained)
             ELSE [open EXCEPT ![h].pos = Chunk(h).to]
  /\ UNCHANGED counter

Close(h) ==
  /\ open' = [x \in DOMAIN open \ {h} |-> open[x]]
  /\ UNCHANGED counter

StoreTypeOK ==
  /\ counter \in 0 .. MaxStreams
  /\ DOMAIN open \subseteq 1 .. counter
  /\ \A h \in DOMAIN open : open[h] \in [bytes : Nat, pos : Nat] \cup {Drained}
=============================================================================
