--------------------------- MODULE StreamClient ---------------------------
(***************************************************************************)
(* The stream store driven by clients that read and close any handle at    *)
(* any time, in any order, with the history needed to say what a client    *)
(* collected.  The store implements ByteStreams.                           *)
(***************************************************************************)
EXTENDS StreamStore

CONSTANTS
  Sizes,    \* lengths of the documents printed
  NoReply   \* the last command was not a read

ASSUME ClientConstants == Sizes \subseteq Nat

VARIABLES
  length,   \* history: handle -> length of the document it was opened with
  sent,     \* history: handle -> bytes handed out so far
  reply     \* the answer of the last read

vars == <<counter, open, length, sent, reply>>

Init ==
  /\ StoreInit
  /\ length = << >>
  /\ sent = << >>
  /\ reply = NoReply

OpenStream ==
  \E n \in Sizes :
    /\ Open(n)
    /\ length' = Insert(length, counter + 1, n)
    /\ sent' = Insert(sent, counter + 1, 0)
    /\ reply' = NoReply

ReadStream(h) ==
  /\ Read(h)
  /\ reply' = Chunk(h)
  /\ sent' = IF Holds(h)
             THEN [sent EXCEPT ![h] = @ + (Chunk(h).to - Chunk(h).from)]
             ELSE sent
  /\ UNCHANGED length

CloseStream(h) ==
  /\ Close(h)
  /\ reply' = NoReply
  /\ UNCHANGED <<length, sent>>

Next ==
  \/ OpenStream
  \/ \E h \in Handles : ReadStream(h) \/ CloseStream(h)

Spec == Init /\ [][Next]_vars

-----------------------------------------------------------------------------
TypeOK ==
  /\ StoreTypeOK
  /\ length \in [1 .. counter -> Nat]
  /\ sent \in [1 .. counter -> Nat]
  /\ reply \in [handle : Handles, from : Nat, to : Nat, eof : BOOLEAN] \cup {NoReply}

(* What a client collected is a prefix of its document, and it is the      *)
(* whole of it once the buffer is gone: the store's own position agrees    *)
(* with the bytes that left, buffers are dropped only when empty, and a    *)
(* buffer still held is one that has something left to send or was never   *)
(* read (streams.rs: "keeps its bytes only until they have all been handed *)
(* out").                                                                  *)
Delivery ==
  \A h \in DOMAIN open :
    IF open[h] = Drained
    THEN sent[h] = length[h]
    ELSE /\ open[h].bytes = length[h]
         /\ open[h].pos = sent[h]
         /\ sent[h] < length[h] \/ sent[h] = 0

(* A read that is not the last is never empty and never past the end, so a *)
(* client looping until eof always advances.                               *)
Progress ==
  reply # NoReply /\ ~ reply.eof => reply.from < reply.to /\ reply.to < length[reply.handle]

(* Clients reading different handles in turns do not disturb each other,   *)
(* and no handle is ever given out again, however the calls interleave:    *)
(* bytes leave in order, each once (`IO.read`, `IO.close`).                *)
Streams == INSTANCE ByteStreams WITH live <- {h \in DOMAIN open : open[h] # Drained}

ImplementsByteStreams == Streams!Spec
=============================================================================
