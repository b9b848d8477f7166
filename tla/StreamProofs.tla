---------------------------- MODULE StreamProofs ----------------------------
(***************************************************************************)
(* The stream store delivers every document whole, in order and once, for  *)
(* any chunk size, any documents and any interleaving of reads and closes, *)
(* and implements ByteStreams.                                             *)
(*                                                                         *)
(* Behind a socket it is driven by Connection, whose steps are steps of    *)
(* the store or leave it alone; there, replies and bytes keep their order  *)
(* whatever the sizes of the socket's buffers.                             *)
(***************************************************************************)
EXTENDS Connection, SequenceTheorems, FiniteSetTheorems, TLAPS

(* The strengthening: a buffer is never read past its end.  Delivery       *)
(* relates the store's positions to the history and is inductive with the  *)
(* types.                                                                  *)
IInv == TypeOK /\ Delivery /\ Progress

Live == {h \in DOMAIN open : open[h] # Drained}

LEMMA HoldsLive == \A h : Holds(h) <=> h \in Live
  BY DEF Holds, Live

(* What the store holds of a handle that is not drained. *)
LEMMA HeldStream ==
  ASSUME IInv, NEW h, Holds(h)
  PROVE  /\ h \in 1 .. counter
         /\ open[h] \in [bytes : Nat, pos : Nat]
         /\ open[h].bytes = length[h]
         /\ open[h].pos = sent[h]
         /\ sent[h] <= length[h]
         /\ sent[h] \in Nat /\ length[h] \in Nat
  BY DEF IInv, TypeOK, StoreTypeOK, Delivery, Holds

(* A chunk of a held stream starts where the last one ended, and advances  *)
(* unless the document is empty; it is the last exactly when it reaches    *)
(* the end.                                                                *)
LEMMA HeldChunk ==
  ASSUME IInv, NEW h, Holds(h)
  PROVE  /\ Chunk(h).handle = h
         /\ Chunk(h).from = sent[h]
         /\ Chunk(h).to \in sent[h] .. length[h]
         /\ Chunk(h).eof = (Chunk(h).to = length[h])
         /\ Chunk(h).to = sent[h] => Chunk(h).to = length[h]
         /\ Chunk(h) = [handle |-> h, from |-> sent[h], to |-> Chunk(h).to,
                        eof |-> (Chunk(h).to = length[h])]
<1>1. /\ open[h].bytes = length[h] /\ open[h].pos = sent[h]
      /\ sent[h] <= length[h] /\ sent[h] \in Nat /\ length[h] \in Nat
  BY HeldStream
<1>2. /\ ChunkEnd(open[h]) \in sent[h] .. length[h]
      /\ ChunkEnd(open[h]) = sent[h] => ChunkEnd(open[h]) = length[h]
      /\ (ChunkEnd(open[h]) >= length[h]) = (ChunkEnd(open[h]) = length[h])
  BY <1>1, StreamConstants DEF ChunkEnd
<1>3. Chunk(h) = [handle |-> h, from |-> sent[h], to |-> ChunkEnd(open[h]),
                  eof |-> ChunkEnd(open[h]) >= length[h]]
  BY <1>1 DEF Chunk
<1> QED
  BY <1>2, <1>3

LEMMA InitIInv == Init => IInv
  BY StreamConstants
  DEF Init, StoreInit, IInv, TypeOK, StoreTypeOK, Delivery, Progress

LEMMA OpenIInv ==
  ASSUME IInv, OpenStream
  PROVE  IInv'
<1>1. PICK n \in Sizes :
        /\ counter < MaxStreams
        /\ counter' = counter + 1
        /\ open' = Insert(open, counter + 1, [bytes |-> n, pos |-> 0])
        /\ length' = Insert(length, counter + 1, n)
        /\ sent' = Insert(sent, counter + 1, 0)
        /\ reply' = NoReply
  BY DEF OpenStream, Open
<1>2. n \in Nat /\ counter \in Nat /\ counter + 1 \notin DOMAIN open
  BY ClientConstants, StreamConstants DEF IInv, TypeOK, StoreTypeOK
<1>3. TypeOK'
  <2>1. counter' \in 0 .. MaxStreams
    BY <1>1, <1>2, StreamConstants DEF IInv, TypeOK, StoreTypeOK
  <2>2. DOMAIN open' \subseteq 1 .. counter'
    BY <1>1, <1>2 DEF Insert, IInv, TypeOK, StoreTypeOK
  <2>3. \A h \in DOMAIN open' : open'[h] \in [bytes : Nat, pos : Nat] \cup {Drained}
    BY <1>1, <1>2 DEF Insert, IInv, TypeOK, StoreTypeOK
  <2>4. length' \in [1 .. counter' -> Nat] /\ sent' \in [1 .. counter' -> Nat]
    BY <1>1, <1>2 DEF Insert, IInv, TypeOK
  <2> QED
    BY <1>1, <2>1, <2>2, <2>3, <2>4 DEF TypeOK, StoreTypeOK
<1>4. Delivery'
  BY <1>1, <1>2, StreamConstants DEF Insert, IInv, TypeOK, StoreTypeOK, Delivery
<1>5. Progress'
  BY <1>1 DEF Progress
<1> QED
  BY <1>3, <1>4, <1>5 DEF IInv

LEMMA ReadIInv ==
  ASSUME IInv, NEW h \in Handles, ReadStream(h)
  PROVE  IInv'
<1>1. CASE ~ Holds(h)
  <2>1. /\ open' = open /\ counter' = counter /\ sent' = sent /\ length' = length
        /\ reply' = [handle |-> h, from |-> 0, to |-> 0, eof |-> TRUE]
    BY <1>1 DEF ReadStream, Read, Chunk
  <2>2. TypeOK' /\ Delivery'
    BY <2>1 DEF IInv, TypeOK, StoreTypeOK, Delivery
  <2>3. Progress'
    BY <2>1 DEF Progress
  <2> QED
    BY <2>2, <2>3 DEF IInv
<1>2. CASE Holds(h)
  <2> DEFINE to == Chunk(h).to
  <2>1. /\ h \in 1 .. counter /\ h \in DOMAIN open
        /\ open[h] \in [bytes : Nat, pos : Nat]
        /\ open[h].bytes = length[h]
        /\ sent[h] \in Nat /\ length[h] \in Nat
    BY <1>2, HeldStream DEF Holds
  <2>2. /\ Chunk(h).from = sent[h]
        /\ to \in sent[h] .. length[h]
        /\ Chunk(h).eof = (to = length[h])
        /\ to = sent[h] => to = length[h]
        /\ Chunk(h) = [handle |-> h, from |-> sent[h], to |-> to,
                       eof |-> (to = length[h])]
    BY <1>2, HeldChunk
  <2>. HIDE DEF to
  <2>3. to \in Nat
    BY <2>1, <2>2
  <2>4. /\ counter' = counter /\ length' = length
        /\ reply' = [handle |-> h, from |-> sent[h], to |-> to,
                     eof |-> (to = length[h])]
        /\ sent' = [sent EXCEPT ![h] = to]
    <3>1. sent' = [sent EXCEPT ![h] = @ + (to - sent[h])]
      BY <1>2, <2>2 DEF ReadStream, to
    <3>2. sent[h] + (to - sent[h]) = to
      BY <2>1, <2>3
    <3> QED
      BY <2>2, <3>1, <3>2 DEF ReadStream, Read
  <2>5. open' = IF to = length[h] THEN Insert(open, h, Drained)
                ELSE [open EXCEPT ![h].pos = to]
    BY <1>2, <2>2 DEF ReadStream, Read, to
  <2>6. /\ DOMAIN open' = DOMAIN open
        /\ \A x \in DOMAIN open : x # h => open'[x] = open[x]
        /\ to = length[h] => open'[h] = Drained
        /\ to # length[h] => /\ open'[h] = [open[h] EXCEPT !.pos = to]
                             /\ open'[h] \in [bytes : Nat, pos : Nat]
                             /\ open'[h].bytes = length[h]
                             /\ open'[h].pos = to
    BY <2>1, <2>3, <2>5 DEF Insert
  <2>7. sent' \in [1 .. counter -> Nat] /\ sent'[h] = to
        /\ \A x \in 1 .. counter : x # h => sent'[x] = sent[x]
    BY <2>1, <2>3, <2>4 DEF IInv, TypeOK
  <2>8. TypeOK'
    <3>1. StoreTypeOK'
      BY <2>4, <2>6 DEF IInv, TypeOK, StoreTypeOK
    <3>2. reply' \in [handle : Handles, from : Nat, to : Nat, eof : BOOLEAN]
      BY <2>1, <2>3, <2>4
    <3> QED
      BY <2>4, <2>7, <3>1, <3>2 DEF IInv, TypeOK
  <2>9. Delivery'
    <3> SUFFICES ASSUME NEW x \in DOMAIN open
                 PROVE  IF open'[x] = Drained
                        THEN sent'[x] = length[x]
                        ELSE /\ open'[x].bytes = length[x]
                             /\ open'[x].pos = sent'[x]
                             /\ sent'[x] < length[x] \/ sent'[x] = 0
      BY <2>4, <2>6 DEF Delivery
    <3>1. x \in 1 .. counter
      BY DEF IInv, TypeOK, StoreTypeOK
    <3>2. CASE x = h
      BY <2>1, <2>2, <2>6, <2>7, <3>2, StreamConstants
    <3>3. CASE x # h
      BY <2>6, <2>7, <3>1, <3>3 DEF IInv, Delivery
    <3> QED
      BY <3>2, <3>3
  <2>10. Progress'
    <3>1. /\ reply'.eof = (to = length[h]) /\ reply'.from = sent[h]
          /\ reply'.to = to /\ reply'.handle = h
      BY <2>4
    <3>2. to # length[h] => sent[h] < to /\ to < length[h]
      BY <2>1, <2>2
    <3> QED
      BY <2>4, <3>1, <3>2 DEF Progress
  <2> QED
    BY <2>8, <2>9, <2>10 DEF IInv
<1> QED
  BY <1>1, <1>2

LEMMA CloseIInv ==
  ASSUME IInv, NEW h \in Handles, CloseStream(h)
  PROVE  IInv'
  BY DEF CloseStream, Close, IInv, TypeOK, StoreTypeOK, Delivery, Progress

LEMMA NextIInv == IInv /\ [Next]_vars => IInv'
<1>1. ASSUME IInv, Next PROVE IInv'
  BY <1>1, OpenIInv, ReadIInv, CloseIInv DEF Next
<1>2. ASSUME IInv, UNCHANGED vars PROVE IInv'
  BY <1>2 DEF vars, IInv, TypeOK, StoreTypeOK, Delivery, Progress
<1> QED
  BY <1>1, <1>2

LEMMA SpecIInv == Spec => []IInv
  BY InitIInv, NextIInv, PTL DEF Spec

-----------------------------------------------------------------------------
(* The store and its history are well typed in every reachable state. *)
THEOREM StreamTypes == Spec => []TypeOK
<1>1. IInv => TypeOK
  BY DEF IInv
<1> QED
  BY <1>1, SpecIInv, PTL

(* A client collects a prefix of its document, and all of it by the time   *)
(* the store frees the buffer.                                             *)
THEOREM StreamsDeliver == Spec => []Delivery
<1>1. IInv => Delivery
  BY DEF IInv
<1> QED
  BY <1>1, SpecIInv, PTL

(* A read that does not say eof has advanced. *)
THEOREM ReadsAdvance == Spec => []Progress
<1>1. IInv => Progress
  BY DEF IInv
<1> QED
  BY <1>1, SpecIInv, PTL

-----------------------------------------------------------------------------
(* The refinement: opening issues a handle, reading sends or says eof,     *)
(* closing forgets.                                                        *)

LEMMA OpenIssues ==
  ASSUME IInv, OpenStream
  PROVE  Streams!Issue
<1>1. PICK n \in Sizes :
        /\ counter < MaxStreams
        /\ counter' = counter + 1
        /\ open' = Insert(open, counter + 1, [bytes |-> n, pos |-> 0])
        /\ length' = Insert(length, counter + 1, n)
        /\ sent' = Insert(sent, counter + 1, 0)
        /\ reply' = NoReply
  BY DEF OpenStream, Open
<1>2. n \in Nat /\ counter \in Nat /\ DOMAIN length = 1 .. counter
  BY ClientConstants, StreamConstants DEF IInv, TypeOK, StoreTypeOK
<1>3. counter + 1 \in Handles \ DOMAIN length
  BY <1>1, <1>2, StreamConstants DEF Handles
<1>4. Live' = Live \cup {counter + 1}
  BY <1>1, <1>2, StreamConstants DEF Live, Insert, IInv, TypeOK, StoreTypeOK
<1>5. /\ length' = Streams!Extended(length, counter + 1, n)
      /\ sent' = Streams!Extended(sent, counter + 1, 0)
  BY <1>1 DEF Insert, Streams!Extended
<1> QED
  BY <1>1, <1>3, <1>4, <1>5 DEF Streams!Issue, Live

LEMMA ReadSends ==
  ASSUME IInv, NEW h \in Handles, ReadStream(h)
  PROVE  Streams!Send \/ Streams!SendNothing
<1>1. CASE ~ Holds(h)
  <2>1. /\ open' = open /\ sent' = sent /\ length' = length
        /\ reply' = Streams!Nothing(h)
    BY <1>1 DEF ReadStream, Read, Chunk, Streams!Nothing
  <2>2. h \in Handles \ Live
    BY <1>1, HoldsLive
  <2> QED
    BY <2>1, <2>2 DEF Streams!SendNothing, Live
<1>2. CASE Holds(h)
  <2> DEFINE to == Chunk(h).to
  <2>1. /\ h \in Live
        /\ h \in DOMAIN open /\ open[h] \in [bytes : Nat, pos : Nat]
        /\ sent[h] \in Nat /\ length[h] \in Nat
    BY <1>2, HoldsLive, HeldStream DEF Live
  <2>2. /\ Chunk(h).from = sent[h]
        /\ to \in sent[h] .. length[h]
        /\ Chunk(h).eof = (to = length[h])
        /\ to = sent[h] => to = length[h]
        /\ Chunk(h) = [handle |-> h, from |-> sent[h], to |-> to,
                       eof |-> (to = length[h])]
    BY <1>2, HeldChunk
  <2>. HIDE DEF to
  <2>3. /\ length' = length
        /\ reply' = [handle |-> h, from |-> sent[h], to |-> to,
                     eof |-> (to = length[h])]
        /\ sent' = [sent EXCEPT ![h] = to]
    <3>1. sent' = [sent EXCEPT ![h] = @ + (to - sent[h])]
      BY <1>2, <2>2 DEF ReadStream, to
    <3>2. sent[h] + (to - sent[h]) = to
      BY <2>1, <2>2
    <3> QED
      BY <2>2, <3>1, <3>2 DEF ReadStream
  <2>4. open' = IF to = length[h] THEN Insert(open, h, Drained)
                ELSE [open EXCEPT ![h].pos = to]
    BY <1>2, <2>2 DEF ReadStream, Read, to
  <2>5. Live' = IF to = length[h] THEN Live \ {h} ELSE Live
    <3>1. CASE to = length[h]
      BY <2>1, <2>4, <3>1 DEF Live, Insert
    <3>2. CASE to # length[h]
      <4>1. /\ open' = [open EXCEPT ![h].pos = to]
            /\ open'[h] \in [bytes : Nat, pos : Nat]
        BY <2>1, <2>2, <2>4, <3>2
      <4> QED
        BY <2>1, <3>2, <4>1, StreamConstants DEF Live
    <3> QED
      BY <3>1, <3>2
  <2> QED
    BY <2>1, <2>2, <2>3, <2>5 DEF Streams!Send, Live
<1> QED
  BY <1>1, <1>2

LEMMA CloseForgets ==
  ASSUME IInv, NEW h \in Handles, CloseStream(h)
  PROVE  Streams!Forget
<1>1. Live' = Live \ {h}
  BY DEF CloseStream, Close, Live
<1> QED
  BY <1>1 DEF CloseStream, Streams!Forget, Live

(* The chunked store implements the byte streams a client is promised. *)
THEOREM StoreImplementsByteStreams == Spec => ImplementsByteStreams
<1>1. Init => Streams!Init
  BY DEF Init, StoreInit, Streams!Init
<1>2. IInv /\ [Next]_vars => [Streams!Next]_Streams!vars
  <2>1. ASSUME IInv, Next PROVE Streams!Next
    BY <2>1, OpenIssues, ReadSends, CloseForgets DEF Next, Streams!Next
  <2>2. ASSUME UNCHANGED vars PROVE UNCHANGED Streams!vars
    BY <2>2 DEF vars, Streams!vars
  <2> QED
    BY <2>1, <2>2
<1> QED
  BY <1>1, <1>2, SpecIInv, PTL DEF Spec, ImplementsByteStreams, Streams!Spec

-----------------------------------------------------------------------------
(* Places in a line of commands and gaps.                                  *)

Entries == Commands \cup {Unparsed}

CommandsIn(line, k) == Cardinality({j \in 1 .. k : line[j] # Unparsed})

InLine(line, asked) ==
  \A k \in DOMAIN line : line[k] # Unparsed =>
    CommandsIn(line, k) <= Len(asked) /\ line[k] = asked[CommandsIn(line, k)]

Complete(line, asked) == CommandsIn(line, Len(line)) = Len(asked)

LEMMA CountBounds ==
  ASSUME NEW line, NEW k \in Nat
  PROVE  /\ CommandsIn(line, k) \in Nat
         /\ IsFiniteSet({j \in 1 .. k : line[j] # Unparsed})
         /\ CommandsIn(line, 0) = 0
<1>1. IsFiniteSet(1 .. k)
  BY FS_Interval
<1>2. IsFiniteSet({j \in 1 .. k : line[j] # Unparsed})
  BY <1>1, FS_Subset
<1>3. {j \in 1 .. 0 : line[j] # Unparsed} = {}
  OBVIOUS
<1> QED
  BY <1>2, <1>3, FS_CardinalityType, FS_EmptySet DEF CommandsIn

LEMMA CountStep ==
  ASSUME NEW line, NEW k \in Nat
  PROVE  CommandsIn(line, k + 1) =
           CommandsIn(line, k) + (IF line[k + 1] # Unparsed THEN 1 ELSE 0)
<1> DEFINE S == {j \in 1 .. k : line[j] # Unparsed}
           T == {j \in 1 .. k + 1 : line[j] # Unparsed}
<1>1. IsFiniteSet(S) /\ Cardinality(S) \in Nat
  BY CountBounds DEF CommandsIn
<1>2. CASE line[k + 1] # Unparsed
  <2>1. T = S \cup {k + 1} /\ k + 1 \notin S
    BY <1>2
  <2> HIDE DEF S, T
  <2>2. Cardinality(T) = Cardinality(S) + 1
    BY <1>1, <2>1, FS_AddElement
  <2> QED
    BY <1>2, <2>2 DEF CommandsIn, S, T
<1>3. CASE line[k + 1] = Unparsed
  <2>1. T = S
    BY <1>3
  <2> QED
    BY <1>1, <1>3, <2>1 DEF CommandsIn
<1> QED
  BY <1>2, <1>3

LEMMA CountOne ==
  ASSUME NEW line
  PROVE  CommandsIn(line, 1) = IF line[1] # Unparsed THEN 1 ELSE 0
<1>1. 0 + 1 = 1 /\ 0 \in Nat
  OBVIOUS
<1>2. CommandsIn(line, 0) = 0
  BY CountBounds
<1> QED
  BY <1>1, <1>2, CountStep

(* Two stretches with the same entries hold as many commands.              *)
LEMMA CountShift ==
  ASSUME NEW l, NEW m, NEW a \in Nat, NEW b \in Nat, NEW c \in Nat, NEW e \in Nat,
         NEW d \in Int, a <= b, c = a + d, e = b + d,
         \A j \in a + 1 .. b : m[j + d] = l[j]
  PROVE  CommandsIn(m, e) - CommandsIn(m, c) = CommandsIn(l, b) - CommandsIn(l, a)
<1> DEFINE At(s, i, j) == {k \in i + 1 .. j : s[k] # Unparsed}
<1>1. ASSUME NEW s, NEW i \in Nat, NEW j \in Nat, i <= j
      PROVE  /\ IsFiniteSet(At(s, i, j)) /\ Cardinality(At(s, i, j)) \in Nat
             /\ CommandsIn(s, j) = CommandsIn(s, i) + Cardinality(At(s, i, j))
  <2>1. /\ IsFiniteSet(At(s, 0, i)) /\ CommandsIn(s, i) = Cardinality(At(s, 0, i))
        /\ IsFiniteSet(At(s, 0, j)) /\ CommandsIn(s, j) = Cardinality(At(s, 0, j))
        /\ CommandsIn(s, i) \in Nat
    <3>1. /\ At(s, 0, i) = {k \in 1 .. i : s[k] # Unparsed}
          /\ At(s, 0, j) = {k \in 1 .. j : s[k] # Unparsed}
      OBVIOUS
    <3> HIDE DEF At
    <3> QED
      BY <3>1, CountBounds DEF CommandsIn
  <2>2. At(s, 0, j) = At(s, 0, i) \cup At(s, i, j) /\ At(s, 0, i) \cap At(s, i, j) = {}
    BY <1>1
  <2>3. IsFiniteSet(At(s, i, j))
    <3>1. At(s, i, j) \in SUBSET At(s, 0, j)
      BY <2>2
    <3> QED
      BY <2>1, <3>1, FS_Subset
  <2> HIDE DEF At
  <2>4. Cardinality(At(s, i, j)) \in Nat
    BY <2>3, FS_CardinalityType
  <2>5. Cardinality(At(s, 0, j)) = Cardinality(At(s, 0, i)) + Cardinality(At(s, i, j)) - Cardinality({})
    BY <2>1, <2>2, <2>3, FS_Union
  <2> QED
    BY <2>1, <2>3, <2>4, <2>5, FS_EmptySet
<1>2. c <= e
  OBVIOUS
<1>3. Cardinality(At(m, c, e)) = Cardinality(At(l, a, b))
  <2> DEFINE f == [k \in At(l, a, b) |-> k + d]
  <2>1. \A k \in At(l, a, b) : k + d \in At(m, c, e)
    BY <1>2
  <2>2. \A k \in At(m, c, e) : k - d \in At(l, a, b) /\ (k - d) + d = k
    <3> SUFFICES ASSUME NEW k \in At(m, c, e)
                 PROVE  k - d \in At(l, a, b) /\ (k - d) + d = k
      OBVIOUS
    <3>1. k \in Int /\ k - d \in a + 1 .. b /\ (k - d) + d = k
      BY <1>2
    <3>2. m[(k - d) + d] = l[k - d]
      BY <3>1
    <3> QED
      BY <3>1, <3>2
  <2>3. At(l, a, b) \subseteq Int
    OBVIOUS
  <2> HIDE DEF At
  <2>4. f \in Bijection(At(l, a, b), At(m, c, e))
    <3>1. f \in Injection(At(l, a, b), At(m, c, e))
      BY <2>1, <2>3 DEF Injection, IsInjective
    <3>2. f \in Surjection(At(l, a, b), At(m, c, e))
      BY <2>1, <2>2 DEF Surjection
    <3> QED
      BY <3>1, <3>2 DEF Bijection
  <2>5. ExistsBijection(At(l, a, b), At(m, c, e))
    BY <2>4 DEF ExistsBijection
  <2>6. IsFiniteSet(At(l, a, b))
    BY <1>1
  <2> QED
    BY <2>5, <2>6, FS_Bijection
<1> HIDE DEF At
<1>4. /\ CommandsIn(l, b) = CommandsIn(l, a) + Cardinality(At(l, a, b))
      /\ CommandsIn(m, e) = CommandsIn(m, c) + Cardinality(At(m, c, e))
      /\ Cardinality(At(l, a, b)) \in Nat
  BY <1>1, <1>2
<1>5. CommandsIn(l, a) \in Nat /\ CommandsIn(m, c) \in Nat
  BY CountBounds
<1> QED
  BY <1>3, <1>4, <1>5

LEMMA CountNone ==
  ASSUME NEW l, NEW a \in Nat, NEW b \in Nat, a <= b,
         \A j \in a + 1 .. b : l[j] = Unparsed
  PROVE  CommandsIn(l, b) = CommandsIn(l, a)
<1>1. {j \in 1 .. b : l[j] # Unparsed} = {j \in 1 .. a : l[j] # Unparsed}
  OBVIOUS
<1> QED
  BY <1>1 DEF CommandsIn

LEMMA CountSame ==
  ASSUME NEW l, NEW m, NEW b \in Nat, \A j \in 1 .. b : m[j] = l[j]
  PROVE  CommandsIn(m, b) = CommandsIn(l, b)
<1>1. {j \in 1 .. b : m[j] # Unparsed} = {j \in 1 .. b : l[j] # Unparsed}
  OBVIOUS
<1> QED
  BY <1>1 DEF CommandsIn

LEMMA CountAtCommand ==
  ASSUME NEW line, NEW k \in Nat, k > 0, line[k] # Unparsed
  PROVE  CommandsIn(line, k) \in 1 .. CommandsIn(line, k)
<1> DEFINE j == k - 1
<1>1. j \in Nat /\ k = j + 1
  OBVIOUS
<1> HIDE DEF j
<1>2. CommandsIn(line, j + 1) = CommandsIn(line, j) + 1
  BY <1>1, CountStep
<1>3. CommandsIn(line, j) \in Nat
  BY <1>1, CountBounds
<1> QED
  BY <1>1, <1>2, <1>3

(* What changes in the line: a command joins it, the first leaves it, the  *)
(* end of it is lost, or a command becomes its answer among events.        *)
LEMMA LineAppend ==
  ASSUME NEW line \in Seq(Entries), NEW asked \in Seq(Commands), NEW e \in Entries,
         InLine(line, asked), Complete(line, asked)
  PROVE  LET more == IF e = Unparsed THEN asked ELSE Append(asked, e) IN
           InLine(Append(line, e), more) /\ Complete(Append(line, e), more)
<1> DEFINE new == Append(line, e)
           more == IF e = Unparsed THEN asked ELSE Append(asked, e)
           n == Len(line)
<1>1. /\ n \in Nat /\ Len(new) = n + 1 /\ new[n + 1] = e /\ DOMAIN new = 1 .. n + 1
      /\ \A k \in 1 .. n : new[k] = line[k]
      /\ DOMAIN line = 1 .. n
  BY AppendProperties, LenProperties
<1>2. /\ Len(asked) \in Nat /\ \A k \in 1 .. Len(asked) : more[k] = asked[k]
      /\ Len(more) = IF e = Unparsed THEN Len(asked) ELSE Len(asked) + 1
      /\ e # Unparsed => more[Len(asked) + 1] = e
  BY DEF Entries
<1> HIDE DEF new, more, n
<1>3. ASSUME NEW k \in 0 .. n PROVE CommandsIn(new, k) = CommandsIn(line, k)
  <2>1. k \in Nat /\ \A j \in 1 .. k : new[j] = line[j]
    BY <1>1
  <2> QED
    BY <2>1, CountSame
<1>4. /\ CommandsIn(line, n) = Len(asked)
      /\ CommandsIn(new, n + 1) = CommandsIn(line, n) + (IF e # Unparsed THEN 1 ELSE 0)
  <2>1. CommandsIn(new, n + 1) = CommandsIn(new, n) + (IF new[n + 1] # Unparsed THEN 1 ELSE 0)
    BY <1>1, CountStep
  <2>2. CommandsIn(new, n) = CommandsIn(line, n)
    BY <1>1, <1>3
  <2> QED
    BY <1>1, <2>1, <2>2 DEF Complete, n
<1>5. Complete(new, more)
  BY <1>1, <1>2, <1>4 DEF Complete
<1>6. ASSUME NEW k \in 1 .. n + 1, new[k] # Unparsed
      PROVE  CommandsIn(new, k) <= Len(more) /\ new[k] = more[CommandsIn(new, k)]
  <2>1. CASE k = n + 1
    BY <1>1, <1>2, <1>4, <1>6, <2>1
  <2>2. CASE k \in 1 .. n
    <3>1. /\ CommandsIn(line, k) <= Len(asked) /\ line[k] = asked[CommandsIn(line, k)]
          /\ CommandsIn(new, k) = CommandsIn(line, k)
      BY <1>1, <1>3, <1>6, <2>2 DEF InLine
    <3>2. CommandsIn(line, k) \in 1 .. CommandsIn(line, k)
      BY <1>1, <1>6, <2>2, CountAtCommand
    <3>3. CommandsIn(line, k) \in 1 .. Len(asked)
      BY <1>2, <3>1, <3>2
    <3> QED
      BY <1>1, <1>2, <2>2, <3>1, <3>3
  <2> QED
    BY <1>1, <2>1, <2>2
<1> QED
  BY <1>1, <1>5, <1>6 DEF InLine, new, more

LEMMA LineTail ==
  ASSUME NEW line \in Seq(Entries), NEW asked \in Seq(Commands), line # << >>,
         InLine(line, asked)
  PROVE  LET less == IF line[1] = Unparsed THEN asked ELSE Tail(asked) IN
           /\ line[1] # Unparsed => asked # << >> /\ line[1] = asked[1]
           /\ InLine(Tail(line), less)
           /\ Complete(line, asked) => Complete(Tail(line), less)
<1> DEFINE new == Tail(line)
           less == IF line[1] = Unparsed THEN asked ELSE Tail(asked)
           n == Len(line)
           gone == IF line[1] # Unparsed THEN 1 ELSE 0
<1>1. /\ n \in Nat \ {0} /\ Len(new) = n - 1 /\ DOMAIN new = 1 .. n - 1
      /\ \A k \in 1 .. n - 1 : new[k] = line[k + 1]
      /\ DOMAIN line = 1 .. n
  BY HeadTailProperties, LenProperties, EmptySeq
<1>2. Len(asked) \in Nat /\ gone \in {0, 1}
  OBVIOUS
<1>3. ASSUME NEW k \in 0 .. n - 1 PROVE CommandsIn(line, k + 1) = CommandsIn(new, k) + gone
  <2> HIDE DEF new, less, n, gone
  <2>1. CommandsIn(line, 1) = gone
    BY CountOne DEF gone
  <2>2. k \in Nat /\ k + 1 \in Nat /\ 1 = 0 + 1 /\ \A j \in 0 + 1 .. k : line[j + 1] = new[j]
    BY <1>1
  <2>3. CommandsIn(line, k + 1) - CommandsIn(line, 1) = CommandsIn(new, k) - CommandsIn(new, 0)
    BY <2>2, CountShift
  <2>5. /\ CommandsIn(new, 0) = 0 /\ CommandsIn(new, k) \in Nat
        /\ CommandsIn(line, k + 1) \in Nat
    BY <2>2, CountBounds
  <2>6. CommandsIn(line, k + 1) - gone = CommandsIn(new, k)
    BY <2>1, <2>3, <2>5
  <2> QED
    BY <1>2, <2>5, <2>6
<1>4. line[1] # Unparsed => asked # << >> /\ line[1] = asked[1]
  <2> SUFFICES ASSUME line[1] # Unparsed PROVE asked # << >> /\ line[1] = asked[1]
    OBVIOUS
  <2>2. CommandsIn(line, 1) = 1
    BY CountOne
  <2>3. CommandsIn(line, 1) <= Len(asked) /\ line[1] = asked[CommandsIn(line, 1)]
    BY <1>1 DEF InLine
  <2> QED
    BY <1>2, <2>2, <2>3
<1>5. /\ Len(less) = Len(asked) - gone
      /\ \A k \in 1 .. Len(less) : less[k] = asked[k + gone]
  <2>1. CASE line[1] = Unparsed
    BY <2>1
  <2>2. CASE line[1] # Unparsed
    BY <1>4, <2>2, HeadTailProperties
  <2> QED
    BY <2>1, <2>2
<1>6. ASSUME NEW k \in 1 .. n - 1, new[k] # Unparsed
      PROVE  CommandsIn(new, k) <= Len(less) /\ new[k] = less[CommandsIn(new, k)]
  <2> HIDE DEF new, less, n, gone
  <2>1. /\ CommandsIn(line, k + 1) <= Len(asked) /\ new[k] = asked[CommandsIn(line, k + 1)]
        /\ CommandsIn(line, k + 1) = CommandsIn(new, k) + gone
    BY <1>1, <1>3, <1>6 DEF InLine
  <2>2. CommandsIn(new, k) \in 1 .. CommandsIn(new, k)
    BY <1>1, <1>6, CountAtCommand
  <2>3. CommandsIn(new, k) \in 1 .. Len(less)
    BY <1>2, <1>5, <2>1, <2>2
  <2> QED
    BY <1>5, <2>1, <2>3
<1>7. ASSUME Complete(line, asked) PROVE Complete(new, less)
  <2> HIDE DEF new, less, gone
  <2>1. CommandsIn(line, (n - 1) + 1) = CommandsIn(new, n - 1) + gone
    BY <1>1, <1>3
  <2>2. (n - 1) + 1 = n /\ n - 1 \in Nat
    BY <1>1
  <2>3. CommandsIn(new, n - 1) \in Nat
    BY <2>2, CountBounds
  <2>4. CommandsIn(line, n) = Len(asked)
    BY <1>7 DEF Complete
  <2> HIDE DEF n
  <2>5. CommandsIn(new, n - 1) + gone = Len(asked)
    BY <2>1, <2>2, <2>4
  <2> QED
    BY <1>1, <1>2, <1>5, <2>3, <2>5 DEF Complete
<1> QED
  BY <1>1, <1>4, <1>6, <1>7 DEF InLine

LEMMA LinePrefix ==
  ASSUME NEW line \in Seq(Entries), NEW asked, InLine(line, asked),
         NEW new \in Seq(Entries), Len(new) <= Len(line),
         \A k \in 1 .. Len(new) : new[k] = line[k]
  PROVE  InLine(new, asked)
<1>1. ASSUME NEW k \in 1 .. Len(new) PROVE CommandsIn(new, k) = CommandsIn(line, k)
  <2>1. k \in Nat /\ \A j \in 1 .. k : new[j] = line[j]
    OBVIOUS
  <2> QED
    BY <2>1, CountSame
<1>2. DOMAIN new = 1 .. Len(new) /\ DOMAIN line = 1 .. Len(line) /\ DOMAIN new \subseteq DOMAIN line
  OBVIOUS
<1> QED
  BY <1>1, <1>2 DEF InLine

(* The entry after the first w ones gives way to n others, of which the    *)
(* p-th is the entry and the rest are gaps.                                *)
Replaced(line, new, w, n, p) ==
  /\ w < Len(line) /\ Len(new) = Len(line) + n - 1
  /\ IF line[w + 1] = Unparsed THEN n = 0 ELSE p \in 1 .. n
  /\ \A k \in 1 .. w : new[k] = line[k]
  /\ \A k \in 1 .. n : new[w + k] = IF k = p THEN line[w + 1] ELSE Unparsed
  /\ \A k \in w + 2 .. Len(line) : new[k + (n - 1)] = line[k]

LEMMA LineAnswered ==
  ASSUME NEW line \in Seq(Entries), NEW asked, NEW w \in Nat, NEW n \in Nat, NEW p \in Nat,
         NEW new \in Seq(Entries), Replaced(line, new, w, n, p), InLine(line, asked)
  PROVE  /\ InLine(new, asked)
         /\ Complete(line, asked) => Complete(new, asked)
<1> USE DEF Replaced
<1> DEFINE c == IF line[w + 1] # Unparsed THEN 1 ELSE 0
<1>1. ASSUME NEW k \in 0 .. w PROVE CommandsIn(new, k) = CommandsIn(line, k)
  <2>1. k \in Nat /\ \A j \in 1 .. k : new[j] = line[j]
    OBVIOUS
  <2> QED
    BY <2>1, CountSame
<1>2. CommandsIn(line, w + 1) = CommandsIn(line, w) + c /\ CommandsIn(line, w) \in Nat
  BY CountStep, CountBounds
<1>3. ASSUME n # 0
      PROVE  /\ c = 1 /\ p \in 1 .. n
             /\ CommandsIn(new, w + p) = CommandsIn(line, w + 1)
             /\ CommandsIn(new, w + n) = CommandsIn(line, w + 1)
             /\ \A i \in 1 .. n : new[w + i] # Unparsed => i = p
  <2>1. c = 1 /\ p \in 1 .. n
    BY <1>3
  <2> DEFINE q == w + p - 1
  <2>2. q \in Nat /\ w <= q /\ q + 1 = w + p
    BY <2>1
  <2>3. \A j \in w + 1 .. q : new[j] = Unparsed
    <3> TAKE j \in w + 1 .. q
    <3>1. j - w \in 1 .. n /\ j - w # p /\ w + (j - w) = j
      BY <2>1
    <3> QED
      BY <3>1
  <2>4. new[w + p] = line[w + 1] /\ line[w + 1] # Unparsed
    BY <2>1
  <2> HIDE DEF q
  <2>5. CommandsIn(new, q) = CommandsIn(new, w)
    BY <2>2, <2>3, CountNone
  <2>6. CommandsIn(new, q + 1) = CommandsIn(new, q) + 1
    BY <2>2, <2>4, CountStep
  <2>7. CommandsIn(new, w + p) = CommandsIn(line, w + 1)
    <3>1. CommandsIn(new, w) = CommandsIn(line, w)
      BY <1>1
    <3> QED
      BY <1>2, <2>1, <2>2, <2>5, <2>6, <3>1
  <2>8. \A j \in (w + p) + 1 .. w + n : new[j] = Unparsed
    <3> TAKE j \in (w + p) + 1 .. w + n
    <3>1. j - w \in 1 .. n /\ j - w # p /\ w + (j - w) = j
      BY <2>1
    <3> QED
      BY <3>1
  <2>9. CommandsIn(new, w + n) = CommandsIn(new, w + p)
    <3>1. w + p \in Nat /\ w + n \in Nat /\ w + p <= w + n
      BY <2>1
    <3> QED
      BY <2>8, <3>1, CountNone
  <2>10. \A i \in 1 .. n : new[w + i] # Unparsed => i = p
    OBVIOUS
  <2> QED
    BY <2>1, <2>7, <2>9, <2>10
<1>4. CommandsIn(new, w + n) = CommandsIn(line, w + 1)
  <2>1. CASE n = 0
    <3>1. c = 0 /\ w + n = w
      BY <2>1
    <3> QED
      BY <1>1, <1>2, <3>1
  <2> QED
    BY <1>3, <2>1
<1>5. ASSUME NEW k \in w + 1 .. Len(line)
      PROVE  CommandsIn(new, k + (n - 1)) = CommandsIn(line, k)
  <2> DEFINE a == w + 1
             b == w + n
             d == n - 1
             e == k + d
  <2>1. /\ a \in Nat /\ k \in Nat /\ b \in Nat /\ e \in Nat /\ d \in Int
        /\ a <= k /\ b = a + d /\ e = k + d
    OBVIOUS
  <2>2. \A j \in a + 1 .. k : new[j + d] = line[j]
    OBVIOUS
  <2>3. CommandsIn(new, b) = CommandsIn(line, a)
    BY <1>4
  <2> HIDE DEF a, b, d, e
  <2>4. CommandsIn(new, e) - CommandsIn(new, b) = CommandsIn(line, k) - CommandsIn(line, a)
    BY <2>1, <2>2, CountShift
  <2>5. CommandsIn(new, e) \in Nat /\ CommandsIn(line, k) \in Nat /\ CommandsIn(line, a) \in Nat
    BY <2>1, CountBounds
  <2>6. CommandsIn(new, e) = CommandsIn(line, k)
    BY <2>3, <2>4, <2>5
  <2> QED
    BY <2>6 DEF d, e
<1>6. DOMAIN line = 1 .. Len(line) /\ DOMAIN new = 1 .. Len(new)
  OBVIOUS
<1>7. ASSUME NEW k \in 1 .. Len(new), new[k] # Unparsed
      PROVE  CommandsIn(new, k) <= Len(asked) /\ new[k] = asked[CommandsIn(new, k)]
  <2>1. CASE k <= w
    <3>1. k \in DOMAIN line /\ new[k] = line[k] /\ CommandsIn(new, k) = CommandsIn(line, k)
      BY <1>1, <1>6, <2>1
    <3> QED
      BY <1>7, <3>1 DEF InLine
  <2>2. CASE w < k /\ k <= w + n
    <3>1. k - w \in 1 .. n /\ w + (k - w) = k /\ n # 0
      BY <2>2
    <3>2. k - w = p
      <4>1. new[w + (k - w)] # Unparsed
        BY <1>7, <3>1
      <4> QED
        BY <1>3, <3>1, <4>1
    <3>3. /\ new[k] = line[w + 1] /\ CommandsIn(new, k) = CommandsIn(line, w + 1)
          /\ w + 1 \in DOMAIN line
      BY <1>3, <1>6, <3>1, <3>2
    <3> QED
      BY <1>7, <3>3 DEF InLine
  <2>3. CASE w + n < k
    <3> DEFINE j == k - (n - 1)
    <3>1. j \in w + 2 .. Len(line) /\ j + (n - 1) = k
      BY <2>3
    <3>2. new[k] = line[j] /\ CommandsIn(new, k) = CommandsIn(line, j) /\ j \in DOMAIN line
      BY <1>5, <1>6, <3>1
    <3> QED
      BY <1>7, <3>2 DEF InLine
  <2> QED
    BY <2>1, <2>2, <2>3
<1>8. ASSUME Complete(line, asked) PROVE Complete(new, asked)
  <2>1. Len(line) \in w + 1 .. Len(line) /\ Len(new) = Len(line) + (n - 1)
    OBVIOUS
  <2> QED
    BY <1>5, <1>8, <2>1 DEF Complete
<1> QED
  BY <1>6, <1>7, <1>8 DEF InLine

-----------------------------------------------------------------------------
(* Places a client reaches in a stream along the messages that come.       *)

CarriesIn(c, k, h) ==
  c[k].chunk # NoReply /\ c[k].chunk.handle = h /\ c[k].chunk.from < c[k].chunk.to

ReachedIn(c, g, k, h, n) ==
  \/ n = g /\ \A j \in 1 .. k - 1 : ~ CarriesIn(c, j, h)
  \/ \E j \in 1 .. k - 1 :
       /\ CarriesIn(c, j, h) /\ n = c[j].chunk.to
       /\ \A i \in j + 1 .. k - 1 : ~ CarriesIn(c, i, h)

LEMMA ReachedSame ==
  ASSUME NEW c, NEW d, NEW g, NEW h, NEW n, NEW k \in Nat,
         \A j \in 1 .. k - 1 : d[j] = c[j], ReachedIn(c, g, k, h, n)
  PROVE  ReachedIn(d, g, k, h, n)
<1>1. \A j \in 1 .. k - 1 : CarriesIn(d, j, h) = CarriesIn(c, j, h)
  BY DEF CarriesIn
<1> QED
  BY <1>1 DEF ReachedIn

LEMMA ReachedStep ==
  ASSUME NEW c, NEW g, NEW h, NEW n, NEW k \in Nat \ {0}, ReachedIn(c, g, k, h, n)
  PROVE  ReachedIn(c, g, k + 1, h, IF CarriesIn(c, k, h) THEN c[k].chunk.to ELSE n)
<1>1. (k + 1) - 1 = k /\ \A j \in 1 .. k : j = k \/ j \in 1 .. k - 1
  OBVIOUS
<1>2. CASE CarriesIn(c, k, h)
  <2>1. k \in 1 .. k /\ \A i \in k + 1 .. k : ~ CarriesIn(c, i, h)
    OBVIOUS
  <2> QED
    BY <1>1, <1>2, <2>1 DEF ReachedIn
<1>3. CASE ~ CarriesIn(c, k, h)
  BY <1>1, <1>3 DEF ReachedIn
<1> QED
  BY <1>2, <1>3

LEMMA ReachedOver ==
  ASSUME NEW c, NEW g, NEW h, NEW n, NEW k \in Nat \ {0}, NEW l \in Nat, k <= l,
         \A j \in k .. l - 1 : ~ CarriesIn(c, j, h), ReachedIn(c, g, k, h, n)
  PROVE  ReachedIn(c, g, l, h, n)
<1>1. \A j \in 1 .. l - 1 : j \in 1 .. k - 1 \/ j \in k .. l - 1
  OBVIOUS
<1>2. 1 .. k - 1 \subseteq 1 .. l - 1
  OBVIOUS
<1>3. CASE n = g /\ \A j \in 1 .. k - 1 : ~ CarriesIn(c, j, h)
  BY <1>1, <1>3 DEF ReachedIn
<1>4. ASSUME NEW j \in 1 .. k - 1, CarriesIn(c, j, h), n = c[j].chunk.to,
             \A i \in j + 1 .. k - 1 : ~ CarriesIn(c, i, h)
      PROVE  ReachedIn(c, g, l, h, n)
  <2>1. \A i \in j + 1 .. l - 1 : i \in j + 1 .. k - 1 \/ i \in k .. l - 1
    OBVIOUS
  <2>2. \A i \in j + 1 .. l - 1 : ~ CarriesIn(c, i, h)
    BY <1>4, <2>1
  <2> QED
    BY <1>2, <1>4, <2>2 DEF ReachedIn
<1> QED
  BY <1>3, <1>4 DEF ReachedIn

LEMMA ReachedTail ==
  ASSUME NEW c \in Seq(Messages), c # << >>, NEW g, NEW h, NEW n,
         NEW k \in 2 .. Len(c) + 1, ReachedIn(c, g, k, h, n)
  PROVE  ReachedIn(Tail(c), IF CarriesIn(c, 1, h) THEN c[1].chunk.to ELSE g, k - 1, h, n)
<1> DEFINE d == Tail(c)
           e == IF CarriesIn(c, 1, h) THEN c[1].chunk.to ELSE g
           m == k - 1
<1>1. Len(c) \in Nat \ {0} /\ \A j \in 1 .. Len(c) - 1 : d[j] = c[j + 1]
  BY HeadTailProperties, EmptySeq
<1>2. m \in 1 .. Len(c) /\ k = m + 1
  BY <1>1
<1> HIDE DEF d, e, m
<1>3. \A j \in 1 .. m - 1 : CarriesIn(d, j, h) = CarriesIn(c, j + 1, h) /\ d[j].chunk = c[j + 1].chunk
  BY <1>1, <1>2 DEF CarriesIn
<1>4. ASSUME n = g, \A j \in 1 .. k - 1 : ~ CarriesIn(c, j, h)
      PROVE  ReachedIn(d, e, m, h, n)
  <2>1. 1 \in 1 .. k - 1 /\ \A j \in 1 .. m - 1 : j + 1 \in 1 .. k - 1
    BY <1>1, <1>2
  <2> QED
    BY <1>3, <1>4, <2>1 DEF ReachedIn, e
<1>5. ASSUME NEW j \in 1 .. k - 1, CarriesIn(c, j, h), n = c[j].chunk.to,
             \A i \in j + 1 .. k - 1 : ~ CarriesIn(c, i, h)
      PROVE  ReachedIn(d, e, m, h, n)
  <2>1. CASE j = 1
    <3>1. \A i \in 1 .. m - 1 : i + 1 \in j + 1 .. k - 1
      BY <1>2, <2>1
    <3> QED
      BY <1>3, <1>5, <2>1, <3>1 DEF ReachedIn, e
  <2>2. CASE j # 1
    <3> DEFINE i == j - 1
    <3>1. i \in 1 .. m - 1 /\ j = i + 1 /\ \A o \in i + 1 .. m - 1 : o + 1 \in j + 1 .. k - 1
      BY <1>2, <2>2
    <3>2. \A o \in i + 1 .. m - 1 : o \in 1 .. m - 1
      BY <3>1
    <3> HIDE DEF i
    <3> QED
      BY <1>3, <1>5, <3>1, <3>2 DEF ReachedIn
  <2> QED
    BY <2>1, <2>2
<1>6. ReachedIn(d, e, m, h, n)
  BY <1>4, <1>5 DEF ReachedIn
<1> QED
  BY <1>6 DEF d, e, m

-----------------------------------------------------------------------------
(* The connection: what holds beside the properties.                       *)
Sound ==
  /\ link = "down" => inbox = << >> /\ outbox = << >>
  /\ \A k \in DOMAIN Coming :
       /\ Coming[k].kind = "answer" <=> Coming[k].of # Unparsed
       /\ Coming[k].chunk # NoReply => Coming[k].chunk.from <= Coming[k].chunk.to
       /\ \A h \in Handles : CarriesIn(Coming, k, h) => h \in 1 .. counter
  /\ \A h \in Handles : h \notin 1 .. counter => got[h] = 0

CInv == IInv /\ ConnectionTypeOK /\ Sound /\ RepliesInOrder /\ ClientCollectsInOrder

LineOf(c, i) == [k \in DOMAIN c |-> c[k].of] \o i

LEMMA LineOfFacts ==
  ASSUME NEW c \in Seq(Messages), NEW i \in Seq(Entries)
  PROVE  /\ LineOf(c, i) \in Seq(Entries)
         /\ Len(LineOf(c, i)) = Len(c) + Len(i)
         /\ \A k \in 1 .. Len(c) : LineOf(c, i)[k] = c[k].of
         /\ \A k \in 1 .. Len(i) : LineOf(c, i)[Len(c) + k] = i[k]
<1> DEFINE o == [k \in DOMAIN c |-> c[k].of]
<1>1. DOMAIN c = 1 .. Len(c) /\ Len(c) \in Nat /\ Len(i) \in Nat
  OBVIOUS
<1>2. ASSUME NEW k \in 1 .. Len(c) PROVE c[k].of \in Entries
  <2>1. c[k] \in Messages
    BY ElementOfSeq
  <2> QED
    BY <2>1 DEF Messages, Entries
<1>3. o \in [1 .. Len(c) -> Entries] /\ Len(o) = Len(c)
  BY <1>1, <1>2
<1>4. o \in Seq(Entries)
  BY <1>1, <1>3, SeqDef
<1> HIDE DEF o
<1>5. /\ o \o i \in Seq(Entries) /\ Len(o \o i) = Len(o) + Len(i)
      /\ \A k \in 1 .. Len(o) + Len(i) : (o \o i)[k] = IF k <= Len(o) THEN o[k] ELSE i[k - Len(o)]
  BY <1>4, ConcatProperties
<1>6. \A k \in 1 .. Len(c) : (o \o i)[k] = c[k].of
  BY <1>1, <1>3, <1>5 DEF o
<1>7. \A k \in 1 .. Len(i) : (o \o i)[Len(c) + k] = i[k]
  <2> TAKE k \in 1 .. Len(i)
  <2> DEFINE q == Len(c) + k
  <2>1. q \in 1 .. Len(o) + Len(i) /\ ~ (q <= Len(o)) /\ q - Len(o) = k
    BY <1>1, <1>3
  <2> HIDE DEF q
  <2>2. (o \o i)[q] = i[k]
    BY <1>5, <2>1
  <2> QED
    BY <2>2 DEF q
<1> QED
  BY <1>3, <1>5, <1>6, <1>7 DEF LineOf, o

(* The same, of the state.                                                 *)
LineFacts ==
  /\ Coming \in Seq(Messages)
  /\ Len(Coming) = Len(wire) + Len(outbox) /\ Len(Coming) \in Nat
  /\ \A k \in 1 .. Len(wire) : Coming[k] = wire[k]
  /\ \A k \in 1 .. Len(outbox) : Coming[Len(wire) + k] = outbox[k]
  /\ Line = LineOf(Coming, inbox)
  /\ RepliesInOrder <=> InLine(Line, awaiting) /\ (link = "up" => Complete(Line, awaiting))
  /\ ClientCollectsInOrder <=>
       \A h \in 1 .. counter :
         /\ \A k \in 1 .. Len(Coming) :
              CarriesIn(Coming, k, h) => ReachedIn(Coming, got[h], k, h, Coming[k].chunk.from)
         /\ link = "up" => ReachedIn(Coming, got[h], Len(Coming) + 1, h, sent[h])

LEMMA StateFacts == ConnectionTypeOK => LineFacts
<1> SUFFICES ASSUME ConnectionTypeOK PROVE LineFacts
  OBVIOUS
<1>1. wire \in Seq(Messages) /\ outbox \in Seq(Messages) /\ Len(wire) \in Nat /\ Len(outbox) \in Nat
  BY DEF ConnectionTypeOK
<1>2. /\ Coming \in Seq(Messages) /\ Len(Coming) = Len(wire) + Len(outbox)
      /\ \A k \in 1 .. Len(wire) + Len(outbox) :
           Coming[k] = IF k <= Len(wire) THEN wire[k] ELSE outbox[k - Len(wire)]
  BY <1>1, ConcatProperties DEF Coming
<1>3. \A k \in 1 .. Len(wire) : Coming[k] = wire[k]
  BY <1>1, <1>2
<1>4. \A k \in 1 .. Len(outbox) : Coming[Len(wire) + k] = outbox[k]
  <2> TAKE k \in 1 .. Len(outbox)
  <2> DEFINE q == Len(wire) + k
  <2>1. q \in 1 .. Len(wire) + Len(outbox) /\ ~ (q <= Len(wire)) /\ q - Len(wire) = k
    BY <1>1
  <2> HIDE DEF q
  <2>2. Coming[q] = outbox[k]
    BY <1>2, <2>1
  <2> QED
    BY <2>2 DEF q
<1>5. Line = LineOf(Coming, inbox)
  BY DEF Line, LineOf
<1>6. RepliesInOrder <=> InLine(Line, awaiting) /\ (link = "up" => Complete(Line, awaiting))
  BY DEF RepliesInOrder, InLine, Complete, CommandsTo, CommandsIn
<1>7. \A k, h : Carries(k, h) <=> CarriesIn(Coming, k, h)
  BY DEF Carries, CarriesIn
<1>8. \A k, h, n : Reached(k, h, n) <=> ReachedIn(Coming, got[h], k, h, n)
  BY <1>7 DEF Reached, ReachedIn
<1>9. DOMAIN Coming = 1 .. Len(Coming) /\ Len(Coming) \in Nat
  BY <1>2
<1> QED
  BY <1>2, <1>3, <1>4, <1>5, <1>6, <1>7, <1>8, <1>9 DEF ClientCollectsInOrder, LineFacts

LEMMA SameComing ==
  ASSUME NEW c \in Seq(Messages), NEW d \in Seq(Messages), Len(c) = Len(d),
         \A k \in 1 .. Len(c) : c[k] = d[k]
  PROVE  c = d
  BY SeqEqual

LEMMA SameLine ==
  ASSUME NEW c \in Seq(Entries), NEW d \in Seq(Entries), Len(c) = Len(d),
         \A k \in 1 .. Len(c) : c[k] = d[k]
  PROVE  c = d
  BY SeqEqual

LEMMA ReceiveCInv ==
  ASSUME CInv, Receive
  PROVE  CInv'
<1>1. /\ UNCHANGED <<vars, link, inbox, outbox>> /\ wire # << >> /\ wire' = Tail(wire)
      /\ IInv /\ ConnectionTypeOK /\ Sound /\ RepliesInOrder /\ ClientCollectsInOrder /\ LineFacts
  BY StateFacts DEF Receive, CInv
<1>2. IInv' /\ TypeOK'
  BY <1>1, NextIInv DEF IInv
<1>3. /\ wire \in Seq(Messages) /\ outbox \in Seq(Messages) /\ inbox \in Seq(Entries)
      /\ Len(wire) \in Nat \ {0} /\ Len(outbox) \in Nat /\ Len(inbox) \in Nat
      /\ wire' \in Seq(Messages) /\ Len(wire') = Len(wire) - 1
      /\ \A k \in 1 .. Len(wire) - 1 : wire'[k] = wire[k + 1]
      /\ Head(wire) = Coming[1] /\ Coming # << >> /\ Coming[1] \in Messages
      /\ Len(Coming) \in Nat \ {0}
  <2>1. /\ wire \in Seq(Messages) /\ outbox \in Seq(Messages) /\ inbox \in Seq(Entries)
        /\ Len(wire) \in Nat \ {0} /\ Len(outbox) \in Nat /\ Len(inbox) \in Nat
    BY <1>1, EmptySeq DEF ConnectionTypeOK, Entries
  <2>2. /\ wire' \in Seq(Messages) /\ Len(wire') = Len(wire) - 1
        /\ \A k \in 1 .. Len(wire) - 1 : wire'[k] = wire[k + 1]
    BY <1>1, <2>1, HeadTailProperties
  <2>3. Head(wire) = wire[1] /\ wire[1] = Coming[1] /\ Head(wire) \in Messages /\ Len(Coming) \in Nat \ {0}
    BY <1>1, <2>1, HeadTailProperties DEF LineFacts
  <2> QED
    BY <1>1, <2>1, <2>2, <2>3 DEF LineFacts
<1>4. /\ Line \in Seq(Entries) /\ Len(Line) = Len(Coming) + Len(inbox) /\ Line # << >>
      /\ \A k \in 1 .. Len(Coming) : Line[k] = Coming[k].of
      /\ \A k \in 1 .. Len(inbox) : Line[Len(Coming) + k] = inbox[k]
  <2>1. Coming \in Seq(Messages) /\ Line = LineOf(Coming, inbox)
    BY <1>1 DEF LineFacts
  <2>2. /\ Line \in Seq(Entries) /\ Len(Line) = Len(Coming) + Len(inbox)
        /\ \A k \in 1 .. Len(Coming) : Line[k] = Coming[k].of
        /\ \A k \in 1 .. Len(inbox) : Line[Len(Coming) + k] = inbox[k]
    BY <1>3, <2>1, LineOfFacts
  <2>3. Len(Line) # 0
    BY <1>3, <2>2
  <2> QED
    BY <2>2, <2>3, EmptySeq
<1>5. Coming[1].kind = "answer" <=> Line[1] # Unparsed
  BY <1>1, <1>3, <1>4 DEF Sound
<1>6. awaiting' = IF Line[1] = Unparsed THEN awaiting ELSE Tail(awaiting)
  BY <1>3, <1>5 DEF Receive
<1>7. /\ Line[1] # Unparsed => awaiting # << >>
      /\ InLine(Tail(Line), awaiting')
      /\ Complete(Line, awaiting) => Complete(Tail(Line), awaiting')
  BY <1>1, <1>4, <1>6, LineTail DEF LineFacts, ConnectionTypeOK
<1>8. awaiting' \in Seq(Commands)
  BY <1>1, <1>6, <1>7, HeadTailProperties DEF ConnectionTypeOK
<1>9. ASSUME NEW h \in Handles
      PROVE  /\ CarriesIn(Coming, 1, h) => Coming[1].chunk.from = got[h] /\ h \in 1 .. counter
             /\ got'[h] = IF CarriesIn(Coming, 1, h) THEN Coming[1].chunk.to ELSE got[h]
             /\ got'[h] \in Nat
  <2>1. got \in [Handles -> Nat] /\ Coming[1].chunk \in Chunks \cup {NoReply} /\ 1 \in 1 .. Len(Coming)
    BY <1>1, <1>3 DEF ConnectionTypeOK, Messages
  <2>2. CarriesIn(Coming, 1, h) => Coming[1].chunk.from = got[h] /\ h \in 1 .. counter
    <3> SUFFICES ASSUME CarriesIn(Coming, 1, h)
                 PROVE  Coming[1].chunk.from = got[h] /\ h \in 1 .. counter
      OBVIOUS
    <3>1. h \in 1 .. counter
      BY <1>1, <1>3 DEF Sound
    <3>2. ReachedIn(Coming, got[h], 1, h, Coming[1].chunk.from)
      BY <1>1, <2>1, <3>1 DEF LineFacts
    <3>3. 1 .. 1 - 1 = {}
      OBVIOUS
    <3> QED
      BY <3>1, <3>2, <3>3 DEF ReachedIn
  <2>3. CASE Coming[1].chunk = NoReply
    BY <1>3, <2>1, <2>3 DEF Receive, CarriesIn
  <2>4. CASE Coming[1].chunk # NoReply
    <3> DEFINE b == Coming[1].chunk
    <3>1. b \in Chunks /\ b.from <= b.to /\ b.from \in Nat /\ b.to \in Nat /\ b.handle \in Handles
      BY <1>1, <1>3, <2>1, <2>4 DEF Sound, Chunks
    <3>2. got' = [got EXCEPT ![b.handle] = @ + b.to - b.from]
      BY <1>3, <2>4 DEF Receive
    <3>3. CASE h = b.handle /\ b.from < b.to
      <4>1. CarriesIn(Coming, 1, h)
        BY <2>4, <3>3 DEF CarriesIn
      <4>2. got'[h] = got[h] + b.to - b.from /\ got[h] = b.from
        BY <2>1, <2>2, <3>2, <3>3, <4>1
      <4>3. got'[h] = b.to
        BY <3>1, <4>2
      <4> QED
        BY <2>2, <3>1, <4>1, <4>3
    <3>4. CASE h = b.handle /\ b.from = b.to
      <4>1. got'[h] = got[h] + b.to - b.from /\ got[h] \in Nat
        BY <2>1, <3>2, <3>4
      <4>2. got'[h] = got[h] /\ ~ CarriesIn(Coming, 1, h)
        BY <3>1, <3>4, <4>1 DEF CarriesIn
      <4> QED
        BY <4>1, <4>2
    <3>5. CASE h # b.handle
      BY <2>1, <3>1, <3>2, <3>5 DEF CarriesIn
    <3> QED
      BY <3>1, <3>3, <3>4, <3>5
  <2> QED
    BY <2>3, <2>4
<1>10. got' \in [Handles -> Nat]
  <2>1. got \in [Handles -> Nat] /\ Coming[1].chunk \in Chunks \cup {NoReply}
    BY <1>1, <1>3 DEF ConnectionTypeOK, Messages
  <2>2. CASE Coming[1].chunk = NoReply
    BY <1>3, <2>1, <2>2 DEF Receive
  <2>3. CASE Coming[1].chunk # NoReply
    <3> DEFINE b == Coming[1].chunk
               e == got[b.handle] + b.to - b.from
    <3>1. got' = [got EXCEPT ![b.handle] = e] /\ b.handle \in Handles
      BY <1>3, <2>1, <2>3 DEF Receive, Chunks
    <3>2. e \in Nat
      BY <1>9, <2>1, <3>1
    <3> HIDE DEF b, e
    <3> QED
      BY <2>1, <3>1, <3>2
  <2> QED
    BY <2>2, <2>3
<1>11. ConnectionTypeOK'
  <2>1. link' \in {"up", "down"} /\ inbox' \in Seq(Entries) /\ Len(inbox') <= Window /\ outbox' \in Seq(Messages)
    BY <1>1, <1>3 DEF ConnectionTypeOK
  <2>2. Len(wire') <= Buffer
    BY <1>1, <1>3, ConnectionConstants DEF ConnectionTypeOK
  <2> QED
    BY <1>2, <1>3, <1>8, <1>10, <2>1, <2>2 DEF ConnectionTypeOK, Entries
<1>12. LineFacts'
  BY <1>11, StateFacts, PTL
<1>13. Coming' = Tail(Coming)
  <2>1. /\ Tail(Coming) \in Seq(Messages) /\ Len(Tail(Coming)) = Len(Coming) - 1
        /\ \A k \in 1 .. Len(Coming) - 1 : Tail(Coming)[k] = Coming[k + 1]
    BY <1>1, <1>3, HeadTailProperties DEF LineFacts
  <2>2. Coming' \in Seq(Messages) /\ Len(Coming') = Len(Coming) - 1
    BY <1>1, <1>3, <1>12 DEF LineFacts
  <2>3. ASSUME NEW k \in 1 .. Len(Coming) - 1 PROVE Coming'[k] = Coming[k + 1]
    <3>1. CASE k <= Len(wire) - 1
      <4>1. k \in 1 .. Len(wire) - 1 /\ k + 1 \in 1 .. Len(wire)
        BY <1>1, <1>3, <3>1 DEF LineFacts
      <4> QED
        BY <1>1, <1>3, <1>12, <4>1 DEF LineFacts
    <3>2. CASE k > Len(wire) - 1
      <4> DEFINE q == k - (Len(wire) - 1)
      <4>1. q \in 1 .. Len(outbox) /\ k = (Len(wire) - 1) + q /\ k + 1 = Len(wire) + q
        BY <1>1, <1>3, <3>2 DEF LineFacts
      <4> HIDE DEF q
      <4>2. Coming'[(Len(wire) - 1) + q] = outbox[q]
        BY <1>1, <1>3, <1>12, <4>1 DEF LineFacts
      <4>3. Coming[Len(wire) + q] = outbox[q]
        BY <1>1, <4>1 DEF LineFacts
      <4> QED
        BY <4>1, <4>2, <4>3
    <3> QED
      BY <1>3, <3>1, <3>2
  <2> QED
    BY <2>1, <2>2, <2>3, SameComing
<1>14. Line' = Tail(Line)
  <2>1. /\ Tail(Line) \in Seq(Entries) /\ Len(Tail(Line)) = Len(Line) - 1
        /\ \A k \in 1 .. Len(Line) - 1 : Tail(Line)[k] = Line[k + 1]
    BY <1>4, HeadTailProperties
  <2>2. /\ Line' = LineOf(Tail(Coming), inbox)
        /\ Tail(Coming) \in Seq(Messages) /\ Len(Tail(Coming)) = Len(Coming) - 1
        /\ \A k \in 1 .. Len(Coming) - 1 : Tail(Coming)[k] = Coming[k + 1]
    BY <1>1, <1>3, <1>12, <1>13, HeadTailProperties DEF LineFacts
  <2>3. /\ Line' \in Seq(Entries) /\ Len(Line') = (Len(Coming) - 1) + Len(inbox)
        /\ \A k \in 1 .. Len(Coming) - 1 : Line'[k] = Tail(Coming)[k].of
        /\ \A k \in 1 .. Len(inbox) : Line'[(Len(Coming) - 1) + k] = inbox[k]
    <3> DEFINE t == Tail(Coming)
    <3>1. Line' = LineOf(t, inbox) /\ t \in Seq(Messages) /\ Len(t) = Len(Coming) - 1
      BY <2>2
    <3> HIDE DEF t
    <3>2. /\ Line' \in Seq(Entries) /\ Len(Line') = Len(t) + Len(inbox)
          /\ \A k \in 1 .. Len(t) : Line'[k] = t[k].of
          /\ \A k \in 1 .. Len(inbox) : Line'[Len(t) + k] = inbox[k]
      BY <1>3, <3>1, LineOfFacts
    <3> QED
      BY <3>1, <3>2 DEF t
  <2>4. ASSUME NEW k \in 1 .. Len(Line) - 1 PROVE Line'[k] = Line[k + 1]
    <3>1. CASE k <= Len(Coming) - 1
      <4>1. k \in 1 .. Len(Coming) - 1 /\ k + 1 \in 1 .. Len(Coming)
        BY <1>3, <3>1
      <4> QED
        BY <1>4, <2>2, <2>3, <4>1
    <3>2. CASE k > Len(Coming) - 1
      <4> DEFINE q == k - (Len(Coming) - 1)
      <4>1. q \in 1 .. Len(inbox) /\ k = (Len(Coming) - 1) + q /\ k + 1 = Len(Coming) + q
        BY <1>3, <1>4, <3>2
      <4> HIDE DEF q
      <4> QED
        BY <1>4, <2>3, <4>1
    <3> QED
      BY <1>3, <3>1, <3>2
  <2>5. Len(Line') = Len(Line) - 1
    BY <1>3, <1>4, <2>3
  <2> QED
    BY <2>1, <2>3, <2>4, <2>5, SameLine
<1>15. RepliesInOrder'
  BY <1>1, <1>7, <1>12, <1>14 DEF LineFacts
<1>16. ClientCollectsInOrder'
  <2>1. /\ Len(Coming') = Len(Coming) - 1
        /\ \A k \in 1 .. Len(Coming) - 1 : Coming'[k] = Coming[k + 1]
    BY <1>1, <1>3, <1>13, HeadTailProperties DEF LineFacts
  <2>2. ASSUME NEW h \in 1 .. counter, NEW k \in 1 .. Len(Coming), NEW n,
               ReachedIn(Coming, got[h], k + 1, h, n)
        PROVE  ReachedIn(Coming', got'[h], k, h, n)
    <3>1. k + 1 \in 2 .. Len(Coming) + 1 /\ (k + 1) - 1 = k
      BY <1>3
    <3>2. ReachedIn(Tail(Coming), IF CarriesIn(Coming, 1, h) THEN Coming[1].chunk.to ELSE got[h], (k + 1) - 1, h, n)
      BY <1>1, <1>3, <2>2, <3>1, ReachedTail DEF LineFacts
    <3>3. h \in Handles
      BY <1>1, StreamConstants DEF Handles, IInv, TypeOK, StoreTypeOK
    <3> QED
      BY <1>9, <1>13, <3>1, <3>2, <3>3
  <2>3. ASSUME NEW h \in 1 .. counter, NEW k \in 1 .. Len(Coming) - 1, CarriesIn(Coming', k, h)
        PROVE  ReachedIn(Coming', got'[h], k, h, Coming'[k].chunk.from)
    <3>1. k + 1 \in 1 .. Len(Coming) /\ k \in 1 .. Len(Coming) /\ Coming'[k] = Coming[k + 1]
      BY <1>3, <2>1
    <3>2. CarriesIn(Coming, k + 1, h)
      BY <2>3, <3>1 DEF CarriesIn
    <3>3. ReachedIn(Coming, got[h], k + 1, h, Coming[k + 1].chunk.from)
      BY <1>1, <3>1, <3>2 DEF LineFacts
    <3> QED
      BY <2>2, <3>1, <3>3
  <2>4. ASSUME NEW h \in 1 .. counter, link = "up"
        PROVE  ReachedIn(Coming', got'[h], Len(Coming') + 1, h, sent[h])
    <3>1. ReachedIn(Coming, got[h], Len(Coming) + 1, h, sent[h])
      BY <1>1, <2>4 DEF LineFacts
    <3>2. Len(Coming) \in 1 .. Len(Coming) /\ Len(Coming') + 1 = Len(Coming)
      BY <1>3, <2>1
    <3> QED
      BY <2>2, <3>1, <3>2
  <2>5. counter' = counter /\ sent' = sent /\ link' = link
    BY <1>1 DEF vars
  <2> QED
    BY <1>12, <2>1, <2>3, <2>4, <2>5 DEF LineFacts
<1>17. Sound'
  <2>1. /\ Len(Coming') = Len(Coming) - 1 /\ DOMAIN Coming' = 1 .. Len(Coming) - 1
        /\ DOMAIN Coming = 1 .. Len(Coming)
        /\ \A k \in 1 .. Len(Coming) - 1 : Coming'[k] = Coming[k + 1]
    BY <1>1, <1>3, <1>12, <1>13, HeadTailProperties DEF LineFacts
  <2>2. counter' = counter
    BY <1>1 DEF vars
  <2>3. ASSUME NEW k \in 1 .. Len(Coming) - 1
        PROVE  /\ Coming'[k].kind = "answer" <=> Coming'[k].of # Unparsed
               /\ Coming'[k].chunk # NoReply => Coming'[k].chunk.from <= Coming'[k].chunk.to
               /\ \A h \in Handles : CarriesIn(Coming', k, h) => h \in 1 .. counter
    <3>1. k + 1 \in DOMAIN Coming /\ Coming'[k] = Coming[k + 1]
      BY <1>3, <2>1
    <3>2. \A h : CarriesIn(Coming', k, h) <=> CarriesIn(Coming, k + 1, h)
      BY <3>1 DEF CarriesIn
    <3> QED
      BY <1>1, <3>1, <3>2 DEF Sound
  <2>4. ASSUME NEW h \in Handles, h \notin 1 .. counter PROVE got'[h] = 0
    BY <1>1, <1>9, <2>4 DEF Sound
  <2> QED
    BY <1>1, <2>1, <2>2, <2>3, <2>4 DEF Sound
<1> QED
  BY <1>2, <1>11, <1>15, <1>16, <1>17 DEF CInv

(* A message moves from the server's side of the line to the wire.         *)
LEMMA SendCInv ==
  ASSUME CInv, Send
  PROVE  CInv'
<1>1. /\ UNCHANGED <<vars, link, inbox, client>> /\ outbox # << >>
      /\ wire' = Append(wire, Head(outbox)) /\ outbox' = Tail(outbox)
      /\ Len(wire) < Buffer
      /\ IInv /\ ConnectionTypeOK /\ Sound /\ RepliesInOrder /\ ClientCollectsInOrder /\ LineFacts
      /\ link = "up"
  BY StateFacts DEF Send, CInv
<1>2. IInv' /\ TypeOK'
  BY <1>1, NextIInv DEF IInv
<1>3. /\ wire \in Seq(Messages) /\ outbox \in Seq(Messages)
      /\ Len(wire) \in Nat /\ Len(outbox) \in Nat \ {0} /\ Head(outbox) = outbox[1]
  BY <1>1, EmptySeq DEF ConnectionTypeOK
<1>4. /\ outbox' \in Seq(Messages) /\ Len(outbox') = Len(outbox) - 1
      /\ \A k \in 1 .. Len(outbox) - 1 : outbox'[k] = outbox[k + 1]
      /\ Head(outbox) \in Messages
  BY <1>1, <1>3, HeadTailProperties
<1>5. /\ wire' \in Seq(Messages) /\ Len(wire') = Len(wire) + 1
      /\ \A k \in 1 .. Len(wire) : wire'[k] = wire[k]
      /\ wire'[Len(wire) + 1] = outbox[1]
  BY <1>1, <1>3, <1>4, AppendProperties
<1>6. ConnectionTypeOK'
  <2>1. Len(wire') <= Buffer
    BY <1>1, <1>3, <1>5, ConnectionConstants
  <2> QED
    BY <1>1, <1>2, <1>4, <1>5, <2>1 DEF ConnectionTypeOK, client
<1>7. LineFacts'
  BY <1>6, StateFacts, PTL
<1>8. Coming' = Coming
  <2>1. Coming' \in Seq(Messages) /\ Len(Coming') = Len(Coming) /\ Len(Coming) = Len(wire) + Len(outbox)
    BY <1>1, <1>3, <1>4, <1>5, <1>7 DEF LineFacts
  <2>2. ASSUME NEW k \in 1 .. Len(Coming) PROVE Coming'[k] = Coming[k]
    <3>1. CASE k <= Len(wire)
      <4>1. k \in 1 .. Len(wire) /\ k \in 1 .. Len(wire')
        BY <1>3, <1>5, <3>1
      <4> QED
        BY <1>1, <1>5, <1>7, <4>1 DEF LineFacts
    <3>2. CASE k = Len(wire) + 1
      <4>1. k \in 1 .. Len(wire') /\ 1 \in 1 .. Len(outbox)
        BY <1>3, <1>5, <3>2
      <4>2. Coming'[k] = wire'[k] /\ Coming[Len(wire) + 1] = outbox[1]
        BY <1>1, <1>7, <4>1 DEF LineFacts
      <4> QED
        BY <1>5, <3>2, <4>2
    <3>3. CASE k > Len(wire) + 1
      <4> DEFINE q == k - (Len(wire) + 1)
      <4>1. /\ q \in 1 .. Len(outbox) - 1 /\ q + 1 \in 1 .. Len(outbox)
            /\ k = (Len(wire) + 1) + q /\ k = Len(wire) + (q + 1)
        BY <1>3, <2>1, <3>3
      <4> HIDE DEF q
      <4>2. Coming'[(Len(wire) + 1) + q] = outbox'[q]
        BY <1>4, <1>5, <1>7, <4>1 DEF LineFacts
      <4>3. Coming[Len(wire) + (q + 1)] = outbox[q + 1]
        BY <1>1, <4>1 DEF LineFacts
      <4> QED
        BY <1>4, <4>1, <4>2, <4>3
    <3> QED
      BY <1>3, <2>1, <3>1, <3>2, <3>3
  <2>3. Coming \in Seq(Messages)
    BY <1>1 DEF LineFacts
  <2> QED
    BY <2>1, <2>2, <2>3, SameComing
<1>9. Line' = Line
  BY <1>1, <1>7, <1>8 DEF LineFacts
<1>10. RepliesInOrder' /\ ClientCollectsInOrder'
  BY <1>1, <1>7, <1>8, <1>9 DEF LineFacts, client, vars
<1>11. Sound'
  BY <1>1, <1>8 DEF Sound, client, vars
<1> QED
  BY <1>2, <1>6, <1>10, <1>11 DEF CInv

(* A command joins the line, and the list of what is awaited.              *)
LEMMA AskCInv ==
  ASSUME CInv, NEW command \in Entries, Ask(command)
  PROVE  CInv'
<1>1. /\ UNCHANGED <<vars, link, outbox, wire, got>> /\ link = "up"
      /\ Len(inbox) < Window /\ inbox' = Append(inbox, command)
      /\ awaiting' = IF command = Unparsed THEN awaiting ELSE Append(awaiting, command)
      /\ IInv /\ ConnectionTypeOK /\ Sound /\ RepliesInOrder /\ ClientCollectsInOrder /\ LineFacts
  BY StateFacts DEF Ask, CInv
<1>2. IInv' /\ TypeOK'
  BY <1>1, NextIInv DEF IInv
<1>3. inbox \in Seq(Entries) /\ Len(inbox) \in Nat /\ Len(Coming) \in Nat /\ Coming \in Seq(Messages)
  BY <1>1 DEF ConnectionTypeOK, Entries, LineFacts
<1>4. /\ inbox' \in Seq(Entries) /\ Len(inbox') = Len(inbox) + 1
      /\ \A k \in 1 .. Len(inbox) : inbox'[k] = inbox[k]
      /\ inbox'[Len(inbox) + 1] = command
  BY <1>1, <1>3, AppendProperties
<1>5. awaiting' \in Seq(Commands)
  <2>1. command # Unparsed => command \in Commands
    BY DEF Entries
  <2> QED
    BY <1>1, <2>1, AppendProperties DEF ConnectionTypeOK
<1>6. ConnectionTypeOK'
  <2>1. Len(inbox') <= Window
    BY <1>1, <1>3, <1>4, ConnectionConstants
  <2> QED
    BY <1>1, <1>2, <1>4, <1>5, <2>1 DEF ConnectionTypeOK, Entries
<1>7. LineFacts'
  BY <1>6, StateFacts, PTL
<1>8. Coming' = Coming
  BY <1>1 DEF Coming
<1>9. Line' = Append(Line, command)
  <2>1. Line = LineOf(Coming, inbox) /\ Line' = LineOf(Coming, inbox')
    BY <1>1, <1>7, <1>8 DEF LineFacts
  <2>2. /\ Line \in Seq(Entries) /\ Len(Line) = Len(Coming) + Len(inbox)
        /\ \A k \in 1 .. Len(Coming) : Line[k] = Coming[k].of
        /\ \A k \in 1 .. Len(inbox) : Line[Len(Coming) + k] = inbox[k]
    BY <1>3, <2>1, LineOfFacts
  <2>3. /\ Line' \in Seq(Entries) /\ Len(Line') = Len(Coming) + (Len(inbox) + 1)
        /\ \A k \in 1 .. Len(Coming) : Line'[k] = Coming[k].of
        /\ \A k \in 1 .. Len(inbox) + 1 : Line'[Len(Coming) + k] = inbox'[k]
    <3> DEFINE i == inbox'
    <3>1. i \in Seq(Entries) /\ Len(i) = Len(inbox) + 1 /\ Line' = LineOf(Coming, i)
      BY <1>4, <2>1
    <3> HIDE DEF i
    <3>2. /\ Line' \in Seq(Entries) /\ Len(Line') = Len(Coming) + Len(i)
          /\ \A k \in 1 .. Len(Coming) : Line'[k] = Coming[k].of
          /\ \A k \in 1 .. Len(i) : Line'[Len(Coming) + k] = i[k]
      BY <1>3, <3>1, LineOfFacts
    <3> QED
      BY <3>1, <3>2 DEF i
  <2>4. /\ Append(Line, command) \in Seq(Entries) /\ Len(Append(Line, command)) = Len(Line) + 1
        /\ \A k \in 1 .. Len(Line) : Append(Line, command)[k] = Line[k]
        /\ Append(Line, command)[Len(Line) + 1] = command
    BY <2>2, AppendProperties
  <2>5. ASSUME NEW k \in 1 .. Len(Line) + 1 PROVE Line'[k] = Append(Line, command)[k]
    <3>1. CASE k <= Len(Coming)
      <4>1. k \in 1 .. Len(Coming) /\ k \in 1 .. Len(Line)
        BY <1>3, <2>2, <3>1
      <4> QED
        BY <2>2, <2>3, <2>4, <4>1
    <3>2. CASE k > Len(Coming) /\ k <= Len(Line)
      <4> DEFINE q == k - Len(Coming)
      <4>1. q \in 1 .. Len(inbox) /\ q \in 1 .. Len(inbox) + 1 /\ k = Len(Coming) + q /\ k \in 1 .. Len(Line)
        BY <1>3, <2>2, <3>2
      <4> HIDE DEF q
      <4> QED
        BY <1>4, <2>2, <2>3, <2>4, <4>1
    <3>3. CASE k = Len(Line) + 1
      <4>1. k = Len(Coming) + (Len(inbox) + 1) /\ Len(inbox) + 1 \in 1 .. Len(inbox) + 1
        BY <1>3, <2>2, <3>3
      <4>2. Line'[Len(Coming) + (Len(inbox) + 1)] = command
        BY <1>4, <2>3, <4>1
      <4> QED
        BY <2>4, <3>3, <4>1, <4>2
    <3> QED
      BY <1>3, <2>2, <3>1, <3>2, <3>3
  <2>6. Len(Line') = Len(Append(Line, command)) /\ Len(Line') = Len(Line) + 1
    BY <1>3, <2>2, <2>3, <2>4
  <2> QED
    BY <2>3, <2>4, <2>5, <2>6, SameLine
<1>10. RepliesInOrder'
  <2>1. InLine(Line, awaiting) /\ Complete(Line, awaiting)
    BY <1>1 DEF LineFacts
  <2>2. Line \in Seq(Entries) /\ awaiting \in Seq(Commands)
    BY <1>1, <1>3, LineOfFacts DEF LineFacts, ConnectionTypeOK
  <2>3. InLine(Append(Line, command), awaiting') /\ Complete(Append(Line, command), awaiting')
    BY <1>1, <2>1, <2>2, LineAppend
  <2> QED
    BY <1>7, <1>9, <2>3 DEF LineFacts
<1>11. ClientCollectsInOrder'
  BY <1>1, <1>7, <1>8 DEF LineFacts, vars
<1>12. Sound'
  BY <1>1, <1>8 DEF Sound, vars
<1> QED
  BY <1>2, <1>6, <1>10, <1>11, <1>12 DEF CInv

(* What is lost is lost from the end of the line.                          *)
LEMMA BreakCInv ==
  ASSUME CInv, Break
  PROVE  CInv'
<1>1. /\ UNCHANGED <<vars, client>> /\ link' = "down" /\ inbox' = << >> /\ outbox' = << >>
      /\ IInv /\ ConnectionTypeOK /\ Sound /\ RepliesInOrder /\ ClientCollectsInOrder /\ LineFacts
  BY StateFacts DEF Break, CInv
<1>2. IInv' /\ TypeOK'
  BY <1>1, NextIInv DEF IInv
<1>3. PICK n \in 0 .. Len(wire) : wire' = SubSeq(wire, 1, n)
  BY DEF Break
<1>4. wire \in Seq(Messages) /\ Len(wire) \in Nat /\ Len(outbox) \in Nat /\ Len(wire) <= Buffer
  BY <1>1 DEF ConnectionTypeOK
<1>5. /\ wire' \in Seq(Messages) /\ Len(wire') = n
      /\ \A k \in 1 .. n : wire'[k] = wire[k]
  <2>1. \A k \in 1 .. n : wire[k] \in Messages
    BY <1>3, <1>4
  <2>2. /\ SubSeq(wire, 1, n) \in Seq(Messages)
        /\ Len(SubSeq(wire, 1, n)) = IF 1 <= n THEN n - 1 + 1 ELSE 0
        /\ \A k \in 1 .. n - 1 + 1 : SubSeq(wire, 1, n)[k] = wire[1 + k - 1]
    BY <2>1, SubSeqProperties
  <2>3. n - 1 + 1 = n /\ \A k \in 1 .. n : 1 + k - 1 = k
    BY <1>3
  <2> QED
    BY <1>3, <1>4, <2>2, <2>3
<1>6. ConnectionTypeOK'
  <2>1. << >> \in Seq(Messages) /\ << >> \in Seq(Entries) /\ Len(<< >>) = 0
    OBVIOUS
  <2>2. Len(wire') <= Buffer /\ 0 <= Window
    BY <1>3, <1>4, <1>5, ConnectionConstants
  <2> QED
    BY <1>1, <1>2, <1>5, <2>1, <2>2 DEF ConnectionTypeOK, Entries, client
<1>7. LineFacts'
  BY <1>6, StateFacts, PTL
<1>8. /\ Coming' \in Seq(Messages) /\ Len(Coming') = n /\ n \in Nat /\ n <= Len(Coming)
      /\ \A k \in 1 .. n : Coming'[k] = Coming[k] /\ k \in 1 .. Len(Coming)
  <2>1. Len(Coming') = n /\ Coming' \in Seq(Messages) /\ n <= Len(Coming)
    BY <1>1, <1>3, <1>4, <1>5, <1>7 DEF LineFacts
  <2>2. \A k \in 1 .. n : Coming'[k] = Coming[k] /\ k \in 1 .. Len(Coming)
    BY <1>1, <1>3, <1>4, <1>5, <1>7 DEF LineFacts
  <2> QED
    BY <1>3, <2>1, <2>2
<1>9. RepliesInOrder'
  <2>1. Coming \in Seq(Messages) /\ inbox \in Seq(Entries) /\ << >> \in Seq(Entries) /\ Len(<< >>) = 0
    BY <1>1 DEF LineFacts, ConnectionTypeOK, Entries
  <2>2. Line = LineOf(Coming, inbox) /\ Line' = LineOf(Coming', << >>)
    BY <1>1, <1>7 DEF LineFacts
  <2>3. /\ Line \in Seq(Entries) /\ Len(Line) = Len(Coming) + Len(inbox)
        /\ \A k \in 1 .. Len(Coming) : Line[k] = Coming[k].of
    BY <2>1, <2>2, LineOfFacts
  <2>4. /\ Line' \in Seq(Entries) /\ Len(Line') = n + 0
        /\ \A k \in 1 .. n : Line'[k] = Coming'[k].of
    <3> DEFINE d == Coming'
    <3>1. d \in Seq(Messages) /\ Len(d) = n /\ Line' = LineOf(d, << >>)
      BY <1>8, <2>2
    <3> HIDE DEF d
    <3>2. /\ Line' \in Seq(Entries) /\ Len(Line') = Len(d) + Len(<< >>)
          /\ \A k \in 1 .. Len(d) : Line'[k] = d[k].of
      BY <2>1, <3>1, LineOfFacts
    <3> QED
      BY <2>1, <3>1, <3>2 DEF d
  <2>5. Len(Line') = n /\ Len(Line') <= Len(Line)
    BY <1>1, <1>8, <2>1, <2>3, <2>4 DEF LineFacts
  <2>6. \A k \in 1 .. Len(Line') : Line'[k] = Line[k]
    BY <1>8, <2>3, <2>4, <2>5
  <2>7. InLine(Line, awaiting)
    BY <1>1 DEF LineFacts
  <2>8. InLine(Line', awaiting)
    BY <2>3, <2>4, <2>5, <2>6, <2>7, LinePrefix
  <2> QED
    BY <1>1, <1>7, <2>8 DEF LineFacts, client
<1>10. ClientCollectsInOrder'
  <2>1. counter' = counter /\ got' = got
    BY <1>1 DEF vars, client
  <2>2. ASSUME NEW h \in 1 .. counter, NEW k \in 1 .. n, CarriesIn(Coming', k, h)
        PROVE  ReachedIn(Coming', got[h], k, h, Coming'[k].chunk.from)
    <3>1. CarriesIn(Coming, k, h) /\ k \in 1 .. Len(Coming) /\ Coming'[k] = Coming[k]
      BY <1>8, <2>2 DEF CarriesIn
    <3>2. ReachedIn(Coming, got[h], k, h, Coming[k].chunk.from)
      BY <1>1, <3>1 DEF LineFacts
    <3>3. k \in Nat /\ \A j \in 1 .. k - 1 : Coming'[j] = Coming[j]
      BY <1>8
    <3> QED
      BY <3>1, <3>2, <3>3, ReachedSame
  <2> QED
    BY <1>1, <1>7, <1>8, <2>1, <2>2 DEF LineFacts
<1>11. Sound'
  <2>1. \A k \in 1 .. n : Coming'[k] = Coming[k] /\ k \in DOMAIN Coming
    BY <1>1, <1>8 DEF LineFacts
  <2>2. DOMAIN Coming' = 1 .. n
    BY <1>8
  <2>3. \A k \in 1 .. n : \A h : CarriesIn(Coming', k, h) = CarriesIn(Coming, k, h)
    BY <2>1 DEF CarriesIn
  <2> QED
    BY <1>1, <2>1, <2>2, <2>3 DEF Sound, vars, client
<1> QED
  BY <1>2, <1>6, <1>9, <1>10, <1>11 DEF CInv

(* What running a command does: one answer among gaps, chunks that go on   *)
(* where the stream was, and no other stream moved.                        *)
Outcome(c) ==
  /\ Next \/ UNCHANGED vars
  /\ outbox' \in Seq(Messages)
  /\ \E p \in Nat :
       /\ IF c = Unparsed THEN Len(outbox') = 0 ELSE p \in 1 .. Len(outbox')
       /\ \A k \in 1 .. Len(outbox') : outbox'[k].of = IF k = p THEN c ELSE Unparsed
  /\ \A k \in 1 .. Len(outbox') : outbox'[k].kind = "answer" <=> outbox'[k].of # Unparsed
  /\ \A k \in 1 .. Len(outbox') :
       /\ outbox'[k].chunk # NoReply => outbox'[k].chunk.from <= outbox'[k].chunk.to
       /\ \A h \in Handles : CarriesIn(outbox', k, h) =>
            /\ h \in 1 .. counter /\ k = 1 /\ Len(outbox') = 1
            /\ outbox'[k].chunk.from = sent[h] /\ outbox'[k].chunk.to = sent'[h]
  /\ counter' \in Nat /\ counter <= counter'
  /\ \A h \in 1 .. counter' :
       (\A k \in 1 .. Len(outbox') : ~ CarriesIn(outbox', k, h)) =>
         sent'[h] = IF h \in 1 .. counter THEN sent[h] ELSE 0

LEMMA ChunkFacts ==
  ASSUME IInv, NEW h \in Handles
  PROVE  /\ Chunk(h) \in Chunks /\ Chunk(h).handle = h /\ Chunk(h).from <= Chunk(h).to
         /\ Chunk(h).from < Chunk(h).to =>
              Holds(h) /\ h \in 1 .. counter /\ Chunk(h).from = sent[h]
<1>1. CASE Holds(h)
  <2>1. /\ h \in 1 .. counter /\ sent[h] \in Nat /\ length[h] \in Nat
        /\ Chunk(h).handle = h /\ Chunk(h).from = sent[h] /\ Chunk(h).to \in sent[h] .. length[h]
        /\ Chunk(h) = [handle |-> h, from |-> sent[h], to |-> Chunk(h).to,
                       eof |-> (Chunk(h).to = length[h])]
    BY <1>1, HeldStream, HeldChunk
  <2> DEFINE to == Chunk(h).to
             eof == (to = length[h])
  <2>2. to \in Nat /\ eof \in BOOLEAN /\ Chunk(h) = [handle |-> h, from |-> sent[h], to |-> to, eof |-> eof]
    BY <2>1
  <2> HIDE DEF to, eof
  <2>3. Chunk(h) \in Chunks
    BY <2>1, <2>2 DEF Chunks
  <2> QED
    BY <1>1, <2>1, <2>3
<1>2. CASE ~ Holds(h)
  <2>1. Chunk(h) = [handle |-> h, from |-> 0, to |-> 0, eof |-> TRUE]
    BY <1>2 DEF Chunk
  <2> QED
    BY <2>1 DEF Chunks
<1> QED
  BY <1>1, <1>2

LEMMA HandleOutcome ==
  ASSUME IInv, NEW c \in Entries, Handle(c)
  PROVE  Outcome(c)
<1>1. counter \in Nat /\ sent \in [1 .. counter -> Nat]
  BY StreamConstants DEF IInv, TypeOK, StoreTypeOK
<1>2. /\ Unparsed.kind = "unparsed" /\ c.kind = "unparsed" => c = Unparsed
      /\ c \in Commands => c # Unparsed
      /\ c # Unparsed => c \in Commands
      /\ c.kind \in {"read", "close"} => c.about \in Handles
  BY DEF Entries, Commands, Command, Unparsed
<1>3. ASSUME NEW a \in Messages, outbox' = <<a>>, a.of = c, a.kind = "answer", c # Unparsed
      PROVE  /\ outbox' \in Seq(Messages) /\ Len(outbox') = 1 /\ outbox'[1] = a
             /\ \E p \in Nat :
                  /\ IF c = Unparsed THEN Len(outbox') = 0 ELSE p \in 1 .. Len(outbox')
                  /\ \A k \in 1 .. Len(outbox') : outbox'[k].of = IF k = p THEN c ELSE Unparsed
             /\ \A k \in 1 .. Len(outbox') : outbox'[k].kind = "answer" <=> outbox'[k].of # Unparsed
  <2>1. outbox' \in Seq(Messages) /\ Len(outbox') = 1 /\ outbox'[1] = a
    BY <1>3
  <2>2. \A k \in 1 .. Len(outbox') : k = 1 /\ outbox'[k] = a
    BY <2>1
  <2>3. 1 \in Nat /\ 1 \in 1 .. Len(outbox')
    BY <2>1
  <2> QED
    BY <1>3, <2>1, <2>2, <2>3
<1>4. ASSUME c \in Commands
      PROVE  /\ \A b \in Chunks \cup {NoReply} : Answer(c, b) \in Messages
             /\ \A b : Answer(c, b).of = c /\ Answer(c, b).kind = "answer" /\ Answer(c, b).chunk = b
  BY <1>4 DEF Answer, Messages
<1>5. CASE c.kind = "print" /\ OpenStream /\ Answered(c, NoReply)
  <2> DEFINE a == Answer(c, NoReply)
  <2>1. c \in Commands /\ a \in Messages /\ outbox' = <<a>> /\ a.of = c /\ a.kind = "answer" /\ a.chunk = NoReply
    BY <1>2, <1>4, <1>5 DEF Answered, Unparsed, Command
  <2> HIDE DEF a
  <2>2. \A k \in 1 .. Len(outbox') : outbox'[k] = a
    BY <1>2, <1>3, <2>1
  <2>3. /\ counter' = counter + 1 /\ sent' = Insert(sent, counter + 1, 0)
    BY <1>5 DEF OpenStream, Open
  <2>4. \A h \in 1 .. counter' : sent'[h] = IF h \in 1 .. counter THEN sent[h] ELSE 0
    BY <1>1, <2>3 DEF Insert
  <2>5. \A k \in 1 .. Len(outbox') : \A h : outbox'[k].chunk = NoReply /\ ~ CarriesIn(outbox', k, h)
    BY <2>1, <2>2 DEF CarriesIn
  <2>6. Next
    BY <1>5 DEF Next
  <2>7. /\ outbox' \in Seq(Messages)
        /\ \E p \in Nat :
             /\ IF c = Unparsed THEN Len(outbox') = 0 ELSE p \in 1 .. Len(outbox')
             /\ \A k \in 1 .. Len(outbox') : outbox'[k].of = IF k = p THEN c ELSE Unparsed
        /\ \A k \in 1 .. Len(outbox') : outbox'[k].kind = "answer" <=> outbox'[k].of # Unparsed
    BY <1>2, <1>3, <2>1
  <2>8. \A k \in 1 .. Len(outbox') :
           /\ outbox'[k].chunk # NoReply => outbox'[k].chunk.from <= outbox'[k].chunk.to
           /\ \A h \in Handles : CarriesIn(outbox', k, h) =>
                /\ h \in 1 .. counter /\ k = 1 /\ Len(outbox') = 1
                /\ outbox'[k].chunk.from = sent[h] /\ outbox'[k].chunk.to = sent'[h]
    BY <2>5
  <2>9. counter' \in Nat /\ counter <= counter'
    BY <1>1, <2>3
  <2>10. \A h \in 1 .. counter' :
           (\A k \in 1 .. Len(outbox') : ~ CarriesIn(outbox', k, h)) =>
             sent'[h] = IF h \in 1 .. counter THEN sent[h] ELSE 0
    BY <2>4
  <2> QED
    BY <2>6, <2>7, <2>8, <2>9, <2>10 DEF Outcome
<1>6. CASE c.kind = "read" /\ ReadStream(c.about) /\ Answered(c, Chunk(c.about))
  <2> DEFINE g == c.about
             b == Chunk(g)
             a == Answer(c, b)
  <2>1. c \in Commands /\ g \in Handles
    BY <1>2, <1>6 DEF Unparsed, Command
  <2>2. /\ b \in Chunks /\ b.handle = g /\ b.from <= b.to
        /\ b.from < b.to => Holds(g) /\ g \in 1 .. counter /\ b.from = sent[g]
    BY <2>1, ChunkFacts
  <2>3. a \in Messages /\ outbox' = <<a>> /\ a.of = c /\ a.kind = "answer" /\ a.chunk = b
    BY <1>4, <1>6, <2>1, <2>2 DEF Answered
  <2>4. counter' = counter /\ sent' = IF Holds(g) THEN [sent EXCEPT ![g] = @ + (b.to - b.from)] ELSE sent
    BY <1>6 DEF ReadStream, Read
  <2>5. Holds(g) => g \in 1 .. counter /\ b.from = sent[g] /\ b.to \in Nat /\ b.from \in Nat
    BY <2>1, <2>2, HeldStream, HeldChunk DEF Chunks
  <2>6. Next
    BY <1>6, <2>1 DEF Next
  <2> HIDE DEF g, b, a
  <2>7. Len(outbox') = 1 /\ \A k \in 1 .. Len(outbox') : k = 1 /\ outbox'[k] = a
    <3>1. Len(outbox') = 1 /\ outbox'[1] = a
      BY <1>2, <1>3, <2>1, <2>3
    <3> QED
      BY <3>1
  <2>8. ASSUME NEW h \in Handles, CarriesIn(outbox', 1, h)
        PROVE  h = g /\ h \in 1 .. counter /\ b.from = sent[h] /\ b.to = sent'[h]
    <3>1. h = g /\ b.from < b.to
      BY <2>2, <2>3, <2>7, <2>8 DEF CarriesIn
    <3>2. Holds(g) /\ g \in 1 .. counter /\ b.from = sent[g] /\ b.to \in Nat
      BY <2>2, <2>5, <3>1
    <3>3. sent'[g] = sent[g] + (b.to - sent[g]) /\ sent[g] \in Nat
      BY <1>1, <2>4, <3>2
    <3>4. sent'[g] = b.to
      BY <3>2, <3>3
    <3> QED
      BY <3>1, <3>2, <3>4
  <2>9. ASSUME NEW h \in 1 .. counter, ~ CarriesIn(outbox', 1, h)
        PROVE  sent'[h] = sent[h]
    <3>1. CASE Holds(g) /\ h = g
      <4>1. outbox'[1].chunk = b /\ b # NoReply
        BY <2>2, <2>3, <2>7, ConnectionConstants
      <4>2. ~ (b.from < b.to)
        BY <2>2, <2>9, <3>1, <4>1 DEF CarriesIn
      <4>3. b.to = b.from
        BY <2>2, <2>5, <3>1, <4>2
      <4>4. sent'[g] = sent[g] + (b.to - b.from) /\ sent[g] \in Nat
        BY <1>1, <2>4, <2>5, <3>1
      <4> QED
        BY <2>5, <3>1, <4>3, <4>4
    <3>2. CASE ~ (Holds(g) /\ h = g)
      BY <1>1, <2>4, <3>2
    <3> QED
      BY <3>1, <3>2
  <2>10. \A k \in 1 .. Len(outbox') :
           /\ outbox'[k].chunk # NoReply => outbox'[k].chunk.from <= outbox'[k].chunk.to
           /\ \A h \in Handles : CarriesIn(outbox', k, h) =>
                /\ h \in 1 .. counter /\ k = 1 /\ Len(outbox') = 1
                /\ outbox'[k].chunk.from = sent[h] /\ outbox'[k].chunk.to = sent'[h]
    BY <2>2, <2>3, <2>7, <2>8
  <2>11. \A h \in 1 .. counter' :
           (\A k \in 1 .. Len(outbox') : ~ CarriesIn(outbox', k, h)) =>
             sent'[h] = IF h \in 1 .. counter THEN sent[h] ELSE 0
    <3>1. 1 \in 1 .. Len(outbox')
      BY <2>7
    <3> QED
      BY <2>4, <2>9, <3>1
  <2>12. /\ outbox' \in Seq(Messages)
         /\ \E p \in Nat :
              /\ IF c = Unparsed THEN Len(outbox') = 0 ELSE p \in 1 .. Len(outbox')
              /\ \A k \in 1 .. Len(outbox') : outbox'[k].of = IF k = p THEN c ELSE Unparsed
         /\ \A k \in 1 .. Len(outbox') : outbox'[k].kind = "answer" <=> outbox'[k].of # Unparsed
    BY <1>2, <1>3, <2>1, <2>3
  <2>13. counter' \in Nat /\ counter <= counter'
    BY <1>1, <2>4
  <2> QED
    BY <2>6, <2>10, <2>11, <2>12, <2>13 DEF Outcome
<1>7. CASE c.kind = "close" /\ CloseStream(c.about) /\ Answered(c, NoReply)
  <2> DEFINE a == Answer(c, NoReply)
  <2>1. /\ c \in Commands /\ c.about \in Handles
        /\ a \in Messages /\ outbox' = <<a>> /\ a.of = c /\ a.kind = "answer" /\ a.chunk = NoReply
    BY <1>2, <1>4, <1>7 DEF Answered, Unparsed, Command
  <2> HIDE DEF a
  <2>2. \A k \in 1 .. Len(outbox') : outbox'[k] = a
    BY <1>2, <1>3, <2>1
  <2>3. counter' = counter /\ sent' = sent
    BY <1>7 DEF CloseStream, Close
  <2>4. \A k \in 1 .. Len(outbox') : \A h : outbox'[k].chunk = NoReply /\ ~ CarriesIn(outbox', k, h)
    BY <2>1, <2>2 DEF CarriesIn
  <2>5. Next
    BY <1>7, <2>1 DEF Next
  <2>6. /\ outbox' \in Seq(Messages)
        /\ \E p \in Nat :
             /\ IF c = Unparsed THEN Len(outbox') = 0 ELSE p \in 1 .. Len(outbox')
             /\ \A k \in 1 .. Len(outbox') : outbox'[k].of = IF k = p THEN c ELSE Unparsed
        /\ \A k \in 1 .. Len(outbox') : outbox'[k].kind = "answer" <=> outbox'[k].of # Unparsed
    BY <1>2, <1>3, <2>1
  <2>7. \A h \in 1 .. counter' : sent'[h] = IF h \in 1 .. counter THEN sent[h] ELSE 0
    BY <1>1, <2>3
  <2>8. \A k \in 1 .. Len(outbox') :
           /\ outbox'[k].chunk # NoReply => outbox'[k].chunk.from <= outbox'[k].chunk.to
           /\ \A h \in Handles : CarriesIn(outbox', k, h) =>
                /\ h \in 1 .. counter /\ k = 1 /\ Len(outbox') = 1
                /\ outbox'[k].chunk.from = sent[h] /\ outbox'[k].chunk.to = sent'[h]
    BY <2>4
  <2>9. counter' \in Nat /\ counter <= counter'
    BY <1>1, <2>3
  <2>10. \A h \in 1 .. counter' :
           (\A k \in 1 .. Len(outbox') : ~ CarriesIn(outbox', k, h)) =>
             sent'[h] = IF h \in 1 .. counter THEN sent[h] ELSE 0
    BY <2>7
  <2> QED
    BY <2>5, <2>6, <2>8, <2>9, <2>10 DEF Outcome
<1>8. CASE /\ c.kind = "other" /\ UNCHANGED vars
           /\ \E before \in 0 .. c.about :
                outbox' = [k \in 1 .. c.about + 1 |->
                             IF k = before + 1 THEN Answer(c, NoReply) ELSE Event]
  <2>1. PICK before \in 0 .. c.about :
          outbox' = [k \in 1 .. c.about + 1 |->
                       IF k = before + 1 THEN Answer(c, NoReply) ELSE Event]
    BY <1>8
  <2>2. c \in Commands /\ c # Unparsed /\ c.about \in Nat
    BY <1>2, <1>8, ConnectionConstants DEF Unparsed, Command, Commands
  <2> DEFINE a == Answer(c, NoReply)
             n == c.about + 1
             p == before + 1
  <2>3. /\ a \in Messages /\ a.of = c /\ a.kind = "answer" /\ a.chunk = NoReply
        /\ Event \in Messages /\ Event.of = Unparsed /\ Event.kind = "event" /\ Event.chunk = NoReply
    BY <1>4, <2>2 DEF Event, Messages
  <2>4. n \in Nat /\ p \in 1 .. n /\ p \in Nat /\ outbox' = [k \in 1 .. n |-> IF k = p THEN a ELSE Event]
    BY <2>1, <2>2
  <2> HIDE DEF a, n, p
  <2>5. outbox' \in [1 .. n -> Messages]
    BY <2>3, <2>4
  <2>6. outbox' \in Seq(Messages) /\ Len(outbox') = n
    <3> DEFINE o == outbox'
    <3>1. o \in [1 .. n -> Messages] /\ DOMAIN o = 1 .. n
      BY <2>4, <2>5
    <3> HIDE DEF o
    <3>2. o \in Seq(Messages)
      BY <2>4, <3>1, SeqDef
    <3>3. Len(o) = n
      BY <2>4, <3>1, <3>2, LenProperties
    <3> QED
      BY <3>2, <3>3 DEF o
  <2>7. \A k \in 1 .. Len(outbox') :
          /\ outbox'[k].of = IF k = p THEN c ELSE Unparsed
          /\ outbox'[k].kind = "answer" <=> outbox'[k].of # Unparsed
          /\ outbox'[k].chunk = NoReply /\ \A h : ~ CarriesIn(outbox', k, h)
    BY <2>2, <2>3, <2>4, <2>6 DEF CarriesIn
  <2>8. counter' = counter /\ sent' = sent
    BY <1>8 DEF vars
  <2>9. \E q \in Nat :
          /\ IF c = Unparsed THEN Len(outbox') = 0 ELSE q \in 1 .. Len(outbox')
          /\ \A k \in 1 .. Len(outbox') : outbox'[k].of = IF k = q THEN c ELSE Unparsed
    BY <2>2, <2>4, <2>6, <2>7
  <2>10. \A h \in 1 .. counter' : sent'[h] = IF h \in 1 .. counter THEN sent[h] ELSE 0
    BY <1>1, <2>8
  <2>11. UNCHANGED vars
    BY <1>8
  <2>12. \A k \in 1 .. Len(outbox') : outbox'[k].kind = "answer" <=> outbox'[k].of # Unparsed
    BY <2>7
  <2>13. \A k \in 1 .. Len(outbox') :
           outbox'[k].chunk = NoReply /\ \A h \in Handles : ~ CarriesIn(outbox', k, h)
    BY <2>7
  <2>14. \A k \in 1 .. Len(outbox') :
           /\ outbox'[k].chunk # NoReply => outbox'[k].chunk.from <= outbox'[k].chunk.to
           /\ \A h \in Handles : CarriesIn(outbox', k, h) =>
                /\ h \in 1 .. counter /\ k = 1 /\ Len(outbox') = 1
                /\ outbox'[k].chunk.from = sent[h] /\ outbox'[k].chunk.to = sent'[h]
    BY <2>13
  <2>15. counter' \in Nat /\ counter <= counter'
    BY <1>1, <2>8
  <2>16. \A h \in 1 .. counter' :
           (\A k \in 1 .. Len(outbox') : ~ CarriesIn(outbox', k, h)) =>
             sent'[h] = IF h \in 1 .. counter THEN sent[h] ELSE 0
    BY <2>10
  <2> QED
    BY <2>6, <2>9, <2>11, <2>12, <2>14, <2>15, <2>16 DEF Outcome
<1>9. CASE c = Unparsed /\ UNCHANGED vars /\ outbox' = << >>
  <2>1. counter' = counter /\ sent' = sent /\ outbox' \in Seq(Messages) /\ Len(outbox') = 0 /\ 0 \in Nat
    BY <1>9 DEF vars
  <2>2. 1 .. Len(outbox') = {}
    BY <2>1
  <2> QED
    BY <1>1, <1>9, <2>1, <2>2 DEF Outcome
<1> QED
  BY <1>5, <1>6, <1>7, <1>8, <1>9 DEF Handle

(* The outputs of a command take its place in the line.                    *)
LEMMA TakeCInv ==
  ASSUME CInv, Take
  PROVE  CInv'
<1> DEFINE c == inbox[1]
           w == Len(wire)
           m == Len(outbox')
<1>1. /\ link = "up" /\ inbox # << >> /\ outbox = << >> /\ inbox' = Tail(inbox)
      /\ Handle(Head(inbox)) /\ UNCHANGED <<link, wire, client>>
      /\ IInv /\ ConnectionTypeOK /\ Sound /\ RepliesInOrder /\ ClientCollectsInOrder /\ LineFacts
  BY StateFacts DEF Take, CInv
<1>2. /\ inbox \in Seq(Entries) /\ Len(inbox) \in Nat \ {0} /\ Len(inbox) <= Window
      /\ Head(inbox) = c /\ c \in Entries
      /\ wire \in Seq(Messages) /\ w \in Nat /\ Len(outbox) = 0
  <2>1. inbox \in Seq(Entries) /\ wire \in Seq(Messages) /\ Len(inbox) <= Window
    BY <1>1 DEF ConnectionTypeOK, Entries
  <2>2. Len(inbox) \in Nat \ {0} /\ Head(inbox) = inbox[1]
    BY <1>1, <2>1, EmptySeq
  <2>3. 1 \in 1 .. Len(inbox)
    BY <2>2
  <2> QED
    BY <1>1, <2>1, <2>2, <2>3, ElementOfSeq
<1>3. /\ inbox' \in Seq(Entries) /\ Len(inbox') = Len(inbox) - 1
      /\ \A k \in 1 .. Len(inbox) - 1 : inbox'[k] = inbox[k + 1]
  BY <1>1, <1>2, HeadTailProperties
<1>4. Outcome(c)
  BY <1>1, <1>2, HandleOutcome
<1> HIDE DEF c
<1>5. IInv' /\ TypeOK'
  BY <1>1, <1>4, NextIInv DEF Outcome, IInv
<1>6. outbox' \in Seq(Messages) /\ m \in Nat
  BY <1>4 DEF Outcome
<1>7. ConnectionTypeOK'
  <2>1. Len(inbox') <= Window
    BY <1>2, <1>3, ConnectionConstants
  <2> QED
    BY <1>1, <1>3, <1>5, <1>6, <2>1 DEF ConnectionTypeOK, Entries, client
<1>8. LineFacts'
  BY <1>7, StateFacts, PTL
<1>9. /\ Coming \in Seq(Messages) /\ Len(Coming) = w
      /\ Coming' \in Seq(Messages) /\ Len(Coming') = w + m
      /\ \A k \in 1 .. w : Coming'[k] = Coming[k]
      /\ \A k \in 1 .. m : Coming'[w + k] = outbox'[k]
  <2>1. /\ Coming \in Seq(Messages) /\ Len(Coming) = w + Len(outbox)
        /\ \A k \in 1 .. w : Coming[k] = wire[k]
    BY <1>1 DEF LineFacts
  <2>2. /\ Coming' \in Seq(Messages) /\ Len(Coming') = Len(wire') + Len(outbox')
        /\ \A k \in 1 .. Len(wire') : Coming'[k] = wire'[k]
        /\ \A k \in 1 .. Len(outbox') : Coming'[Len(wire') + k] = outbox'[k]
    BY <1>8 DEF LineFacts
  <2>3. wire' = wire
    BY <1>1
  <2>4. w + Len(outbox) = w
    BY <1>2
  <2> QED
    BY <2>1, <2>2, <2>3, <2>4
<1> HIDE DEF w, m
<1>10. RepliesInOrder'
  <2>1. PICK p \in Nat :
          /\ IF c = Unparsed THEN m = 0 ELSE p \in 1 .. m
          /\ \A k \in 1 .. m : outbox'[k].of = IF k = p THEN c ELSE Unparsed
    BY <1>4 DEF Outcome, m
  <2>2. /\ Line \in Seq(Entries) /\ Len(Line) = w + Len(inbox)
        /\ \A k \in 1 .. w : Line[k] = Coming[k].of
        /\ \A k \in 1 .. Len(inbox) : Line[w + k] = inbox[k]
    <3>1. Line = LineOf(Coming, inbox)
      BY <1>1 DEF LineFacts
    <3>2. /\ LineOf(Coming, inbox) \in Seq(Entries)
          /\ Len(LineOf(Coming, inbox)) = Len(Coming) + Len(inbox)
          /\ \A k \in 1 .. Len(Coming) : LineOf(Coming, inbox)[k] = Coming[k].of
          /\ \A k \in 1 .. Len(inbox) : LineOf(Coming, inbox)[Len(Coming) + k] = inbox[k]
      BY <1>2, <1>9, LineOfFacts
    <3> QED
      BY <1>9, <3>1, <3>2
  <2> DEFINE new == Line'
             i == inbox'
             d == Coming'
  <2>3. /\ i \in Seq(Entries) /\ Len(i) = Len(inbox) - 1 /\ d \in Seq(Messages) /\ Len(d) = w + m
        /\ \A k \in 1 .. w : d[k] = Coming[k]
        /\ \A k \in 1 .. m : d[w + k] = outbox'[k]
        /\ \A k \in 1 .. Len(inbox) - 1 : i[k] = inbox[k + 1]
        /\ new = LineOf(d, i)
    BY <1>3, <1>8, <1>9 DEF LineFacts
  <2> HIDE DEF new, i, d
  <2>4. /\ new \in Seq(Entries) /\ Len(new) = Len(d) + Len(i)
        /\ \A k \in 1 .. Len(d) : new[k] = d[k].of
        /\ \A k \in 1 .. Len(i) : new[Len(d) + k] = i[k]
    BY <2>3, LineOfFacts
  <2>5. w < Len(Line) /\ Len(new) = Len(Line) + m - 1 /\ Line[w + 1] = c
    <3>1. 1 \in 1 .. Len(inbox)
      BY <1>2
    <3> QED
      BY <1>2, <1>6, <2>2, <2>3, <2>4, <3>1 DEF c, w, m
  <2>6. \A k \in 1 .. w : new[k] = Line[k]
    <3>1. \A k \in 1 .. w : k \in 1 .. Len(d)
      BY <1>2, <1>6, <2>3 DEF w, m
    <3> QED
      BY <2>2, <2>3, <2>4, <3>1
  <2>7. \A k \in 1 .. m : new[w + k] = IF k = p THEN Line[w + 1] ELSE Unparsed
    <3> TAKE k \in 1 .. m
    <3> DEFINE q == w + k
    <3>1. q \in 1 .. Len(d)
      BY <1>2, <1>6, <2>3 DEF w, m
    <3>2. d[q] = outbox'[k]
      BY <2>3
    <3> HIDE DEF q
    <3>3. new[q] = outbox'[k].of
      BY <2>4, <3>1, <3>2
    <3> QED
      BY <2>1, <2>5, <3>3 DEF q
  <2>8. \A k \in w + 2 .. Len(Line) : new[k + (m - 1)] = Line[k]
    <3> TAKE k \in w + 2 .. Len(Line)
    <3> DEFINE q == k - (w + 1)
    <3>1. /\ q \in 1 .. Len(inbox) - 1 /\ q \in 1 .. Len(i) /\ q + 1 \in 1 .. Len(inbox)
          /\ k + (m - 1) = Len(d) + q /\ k = w + (q + 1)
      BY <1>2, <1>6, <2>2, <2>3 DEF w, m
    <3> HIDE DEF q
    <3>2. new[Len(d) + q] = i[q] /\ i[q] = inbox[q + 1]
      BY <2>3, <2>4, <3>1
    <3>3. Line[w + (q + 1)] = inbox[q + 1]
      BY <2>2, <3>1
    <3> QED
      BY <3>1, <3>2, <3>3
  <2>9. InLine(Line, awaiting) /\ Complete(Line, awaiting)
    BY <1>1 DEF LineFacts
  <2>10. IF Line[w + 1] = Unparsed THEN m = 0 ELSE p \in 1 .. m
    BY <2>1, <2>5
  <2>11. InLine(new, awaiting) /\ Complete(new, awaiting)
    <3>1. w \in Nat /\ m \in Nat
      BY <1>2, <1>6 DEF w, m
    <3>2. Line \in Seq(Entries) /\ new \in Seq(Entries)
      BY <2>2, <2>4
    <3>3. Replaced(Line, new, w, m, p)
      BY <2>5, <2>6, <2>7, <2>8, <2>10 DEF Replaced
    <3> QED
      BY <2>1, <2>9, <3>1, <3>2, <3>3, LineAnswered
  <2> QED
    BY <1>1, <1>8, <2>11 DEF LineFacts, client, new
<1>11. /\ counter \in Nat /\ counter' \in Nat /\ counter <= counter'
       /\ 1 .. counter \subseteq Handles /\ 1 .. counter' \subseteq Handles
  <2>1. counter \in 0 .. MaxStreams /\ counter' \in 0 .. MaxStreams
    BY <1>1, <1>5 DEF IInv, TypeOK, StoreTypeOK
  <2> QED
    BY <1>4, <2>1, StreamConstants DEF Handles, Outcome
<1>12. ASSUME NEW k \in 1 .. m
       PROVE  \A h : CarriesIn(Coming', w + k, h) = CarriesIn(outbox', k, h)
  <2> DEFINE q == w + k
  <2>1. Coming'[q] = outbox'[k]
    BY <1>9
  <2> HIDE DEF q
  <2>2. \A h : CarriesIn(Coming', q, h) = CarriesIn(outbox', k, h)
    BY <2>1 DEF CarriesIn
  <2> QED
    BY <2>2 DEF q
<1>13. \A k \in 1 .. w : \A h : CarriesIn(Coming', k, h) = CarriesIn(Coming, k, h)
  BY <1>9 DEF CarriesIn
<1>14. ASSUME NEW h \in Handles, NEW k \in 1 .. m, CarriesIn(outbox', k, h)
       PROVE  /\ h \in 1 .. counter /\ k = 1 /\ m = 1
              /\ outbox'[k].chunk.from = sent[h] /\ outbox'[k].chunk.to = sent'[h]
  BY <1>4, <1>14 DEF Outcome, m
<1>15. ASSUME NEW h \in 1 .. counter
       PROVE  ReachedIn(Coming', got[h], w + 1, h, sent[h])
  <2>1. ReachedIn(Coming, got[h], w + 1, h, sent[h])
    BY <1>1, <1>9 DEF LineFacts
  <2>2. w + 1 \in Nat /\ \A j \in 1 .. (w + 1) - 1 : Coming'[j] = Coming[j]
    BY <1>2, <1>9 DEF w
  <2> QED
    BY <2>1, <2>2, ReachedSame
<1>16. \A k \in 1 .. w + m : k \in 1 .. w \/ (k - w \in 1 .. m /\ k = w + (k - w))
  BY <1>2, <1>6 DEF w, m
<1>17. ASSUME NEW h \in 1 .. counter', NEW k \in 1 .. w + m, CarriesIn(Coming', k, h)
       PROVE  ReachedIn(Coming', got[h], k, h, Coming'[k].chunk.from)
  <2>1. CASE k \in 1 .. w
    <3>1. CarriesIn(Coming, k, h) /\ k \in DOMAIN Coming /\ k \in 1 .. Len(Coming) /\ Coming'[k] = Coming[k]
      BY <1>9, <1>13, <1>17, <2>1
    <3>2. h \in 1 .. counter
      BY <1>1, <1>11, <3>1 DEF Sound
    <3>3. ReachedIn(Coming, got[h], k, h, Coming[k].chunk.from)
      BY <1>1, <3>1, <3>2 DEF LineFacts
    <3>4. k \in Nat /\ \A j \in 1 .. k - 1 : j \in 1 .. w
      BY <1>2, <2>1 DEF w
    <3>5. \A j \in 1 .. k - 1 : Coming'[j] = Coming[j]
      BY <1>9, <3>4
    <3>6. ReachedIn(Coming', got[h], k, h, Coming[k].chunk.from)
      BY <3>3, <3>4, <3>5, ReachedSame
    <3> QED
      BY <3>1, <3>6
  <2>2. CASE k - w \in 1 .. m /\ k = w + (k - w)
    <3> DEFINE q == k - w
    <3>1. q \in 1 .. m /\ k = w + q
      BY <2>2
    <3> HIDE DEF q
    <3>2. CarriesIn(outbox', q, h) /\ Coming'[k] = outbox'[q]
      BY <1>9, <1>12, <1>17, <3>1
    <3>3. h \in 1 .. counter /\ q = 1 /\ outbox'[q].chunk.from = sent[h]
      BY <1>11, <1>14, <3>1, <3>2
    <3> QED
      BY <1>15, <3>1, <3>2, <3>3
  <2> QED
    BY <1>16, <2>1, <2>2
<1>18. ASSUME NEW h \in 1 .. counter'
       PROVE  ReachedIn(Coming', got[h], (w + m) + 1, h, sent'[h])
  <2>1. ASSUME NEW k \in 1 .. m, CarriesIn(outbox', k, h)
        PROVE  ReachedIn(Coming', got[h], (w + m) + 1, h, sent'[h])
    <3> DEFINE q == w + 1
    <3>1. h \in 1 .. counter /\ k = 1 /\ m = 1 /\ outbox'[k].chunk.to = sent'[h]
      BY <1>11, <1>14, <2>1
    <3>2. q \in Nat \ {0} /\ (w + m) + 1 = q + 1 /\ q = w + k
      BY <1>2, <3>1 DEF w
    <3>3. CarriesIn(Coming', q, h) /\ Coming'[q].chunk.to = sent'[h]
      BY <1>9, <1>12, <2>1, <3>1, <3>2
    <3>4. ReachedIn(Coming', got[h], q, h, sent[h])
      BY <1>15, <3>1
    <3> HIDE DEF q
    <3>5. ReachedIn(Coming', got[h], q + 1, h, sent'[h])
      BY <3>2, <3>3, <3>4, ReachedStep
    <3> QED
      BY <3>2, <3>5
  <2>2. ASSUME \A k \in 1 .. m : ~ CarriesIn(outbox', k, h)
        PROVE  ReachedIn(Coming', got[h], (w + m) + 1, h, sent'[h])
    <3>1. sent'[h] = IF h \in 1 .. counter THEN sent[h] ELSE 0
      BY <1>4, <2>2 DEF Outcome, m
    <3>2. \A k \in 1 .. m : ~ CarriesIn(Coming', w + k, h)
      BY <1>12, <2>2
    <3> DEFINE l == (w + m) + 1
    <3>3. l \in Nat /\ w + 1 \in Nat \ {0} /\ w + 1 <= l /\ \A j \in 1 .. l - 1 : j \in 1 .. w + m
      BY <1>2, <1>6 DEF w, m
    <3>4. \A j \in w + 1 .. l - 1 : j - w \in 1 .. m /\ j = w + (j - w)
      BY <1>2, <1>6 DEF w, m
    <3>5. \A j \in w + 1 .. l - 1 : ~ CarriesIn(Coming', j, h)
      BY <3>2, <3>4
    <3> HIDE DEF l
    <3>6. CASE h \in 1 .. counter
      <4>1. ReachedIn(Coming', got[h], w + 1, h, sent[h])
        BY <1>15, <3>6
      <4>2. ReachedIn(Coming', got[h], l, h, sent[h])
        BY <3>3, <3>5, <4>1, ReachedOver
      <4> QED
        BY <3>1, <3>6, <4>2 DEF l
    <3>7. CASE h \notin 1 .. counter
      <4>1. h \in Handles /\ got[h] = 0 /\ sent'[h] = 0
        BY <1>1, <1>11, <3>1, <3>7 DEF Sound
      <4>2. \A j \in 1 .. w : ~ CarriesIn(Coming', j, h)
        BY <1>1, <1>9, <1>13, <3>7, <4>1 DEF Sound
      <4>3. \A j \in 1 .. l - 1 : ~ CarriesIn(Coming', j, h)
        BY <1>16, <3>2, <3>3, <4>2
      <4>4. ReachedIn(Coming', got[h], l, h, sent'[h])
        BY <4>1, <4>3 DEF ReachedIn
      <4> QED
        BY <4>4 DEF l
    <3> QED
      BY <3>6, <3>7
  <2> QED
    BY <2>1, <2>2
<1>19. ClientCollectsInOrder'
  <2>1. got' = got
    BY <1>1 DEF client
  <2> QED
    BY <1>8, <1>9, <1>17, <1>18, <2>1 DEF LineFacts
<1>20. Sound'
  <2>1. link' = "up" /\ got' = got
    BY <1>1 DEF client
  <2>2. ASSUME NEW k \in 1 .. w + m
        PROVE  /\ Coming'[k].kind = "answer" <=> Coming'[k].of # Unparsed
               /\ Coming'[k].chunk # NoReply => Coming'[k].chunk.from <= Coming'[k].chunk.to
               /\ \A h \in Handles : CarriesIn(Coming', k, h) => h \in 1 .. counter
    <3>1. CASE k \in 1 .. w
      <4>1. k \in DOMAIN Coming /\ Coming'[k] = Coming[k]
        BY <1>9, <3>1
      <4>2. \A h : CarriesIn(Coming', k, h) = CarriesIn(Coming, k, h)
        BY <1>13, <3>1
      <4> QED
        BY <1>1, <4>1, <4>2 DEF Sound
    <3>2. CASE k - w \in 1 .. m /\ k = w + (k - w)
      <4> DEFINE q == k - w
      <4>1. q \in 1 .. m /\ k = w + q
        BY <3>2
      <4> HIDE DEF q
      <4>2. Coming'[k] = outbox'[q] /\ \A h : CarriesIn(Coming', k, h) = CarriesIn(outbox', q, h)
        BY <1>9, <1>12, <4>1
      <4>3. /\ outbox'[q].kind = "answer" <=> outbox'[q].of # Unparsed
            /\ outbox'[q].chunk # NoReply => outbox'[q].chunk.from <= outbox'[q].chunk.to
        BY <1>4, <4>1 DEF Outcome, m
      <4>4. \A h \in Handles : CarriesIn(outbox', q, h) => h \in 1 .. counter
        BY <1>14, <4>1
      <4> QED
        BY <4>2, <4>3, <4>4
    <3> QED
      BY <1>16, <3>1, <3>2
  <2>3. 1 .. counter \subseteq 1 .. counter'
    BY <1>11
  <2>4. DOMAIN Coming' = 1 .. w + m
    BY <1>9
  <2>5. \A h \in Handles : h \notin 1 .. counter' => got[h] = 0
    BY <1>1, <2>3 DEF Sound
  <2>6. \A k \in 1 .. w + m : \A h \in Handles : CarriesIn(Coming', k, h) => h \in 1 .. counter'
    BY <2>2, <2>3
  <2> QED
    BY <2>1, <2>2, <2>4, <2>5, <2>6 DEF Sound
<1> QED
  BY <1>5, <1>7, <1>10, <1>19, <1>20 DEF CInv

LEMMA InitCInv == ConnectionInit => CInv
<1> SUFFICES ASSUME ConnectionInit PROVE CInv
  OBVIOUS
<1>1. /\ IInv /\ TypeOK /\ link = "up" /\ inbox = << >> /\ outbox = << >> /\ wire = << >>
      /\ awaiting = << >> /\ got = [h \in Handles |-> 0] /\ counter = 0
  BY InitIInv DEF ConnectionInit, IInv, Init, StoreInit
<1>2. /\ << >> \in Seq(Messages) /\ << >> \in Seq(Entries) /\ << >> \in Seq(Commands)
      /\ Len(<< >>) = 0 /\ << >> \o << >> = << >>
  OBVIOUS
<1>3. ConnectionTypeOK
  <2>1. 0 <= Window /\ 0 <= Buffer
    BY ConnectionConstants
  <2> QED
    BY <1>1, <1>2, <2>1 DEF ConnectionTypeOK, Entries
<1>4. LineFacts
  BY <1>3, StateFacts
<1>5. Coming = << >> /\ Len(Coming) = 0 /\ DOMAIN Coming = {}
  <2>1. Coming = << >>
    BY <1>1, <1>2 DEF Coming
  <2> QED
    BY <2>1
<1>6. Line \in Seq(Entries) /\ Len(Line) = 0 /\ DOMAIN Line = {}
  <2>1. Line \in Seq(Entries) /\ Len(Line) = Len(Coming) + Len(inbox)
    BY <1>1, <1>2, <1>4, LineOfFacts DEF LineFacts
  <2>2. Len(Line) = 0
    BY <1>1, <1>2, <1>5, <2>1
  <2> QED
    BY <2>1, <2>2
<1>7. RepliesInOrder
  <2>1. {j \in 1 .. 0 : Line[j] # Unparsed} = {}
    OBVIOUS
  <2>2. CommandsIn(Line, 0) = 0
    BY <2>1, FS_EmptySet DEF CommandsIn
  <2> QED
    BY <1>1, <1>2, <1>4, <1>6, <2>2 DEF LineFacts, InLine, Complete
<1>8. ClientCollectsInOrder
  <2>1. 1 .. counter = {}
    BY <1>1
  <2> QED
    BY <2>1 DEF ClientCollectsInOrder
<1>9. Sound
  BY <1>1, <1>5 DEF Sound
<1> QED
  BY <1>1, <1>3, <1>7, <1>8, <1>9 DEF CInv

LEMMA NextCInv == CInv /\ [ConnectionNext]_connectionVars => CInv'
<1> SUFFICES ASSUME CInv, [ConnectionNext]_connectionVars PROVE CInv'
  OBVIOUS
<1>1. ASSUME NEW command \in Commands \cup {Unparsed}, Ask(command) PROVE CInv'
  BY <1>1, AskCInv DEF Entries
<1>2. CASE Receive
  BY <1>2, ReceiveCInv
<1>3. CASE Take
  BY <1>3, TakeCInv
<1>4. CASE Send
  BY <1>4, SendCInv
<1>5. CASE Break
  BY <1>5, BreakCInv
<1>6. CASE UNCHANGED connectionVars
  <2>1. UNCHANGED <<vars, link, inbox, outbox, wire, awaiting, got>>
    BY <1>6 DEF connectionVars, sockets, client
  <2>2. IInv' /\ TypeOK'
    BY <2>1, NextIInv DEF CInv, IInv
  <2>3. ConnectionTypeOK'
    BY <2>1, <2>2 DEF CInv, ConnectionTypeOK
  <2>4. LineFacts /\ LineFacts'
    <3>1. LineFacts
      BY StateFacts DEF CInv
    <3>2. LineFacts'
      BY <2>3, StateFacts, PTL
    <3> QED
      BY <3>1, <3>2
  <2>5. Coming' = Coming /\ Line' = Line
    BY <2>1 DEF Coming, Line
  <2>6. RepliesInOrder' /\ ClientCollectsInOrder'
    BY <2>1, <2>4, <2>5 DEF CInv, LineFacts, vars
  <2>7. Sound'
    BY <2>1, <2>5 DEF CInv, Sound, vars
  <2> QED
    BY <2>2, <2>3, <2>6, <2>7 DEF CInv
<1> QED
  BY <1>1, <1>2, <1>3, <1>4, <1>5, <1>6 DEF ConnectionNext

(* A step of the connection is a step of the store or leaves it alone.     *)
LEMMA ConnectionStep == CInv /\ [ConnectionNext]_connectionVars => [Next]_vars
<1> SUFFICES ASSUME CInv, [ConnectionNext]_connectionVars PROVE [Next]_vars
  OBVIOUS
<1>1. ASSUME NEW command \in Commands \cup {Unparsed}, Ask(command) PROVE UNCHANGED vars
  BY <1>1 DEF Ask
<1>2. CASE Receive
  BY <1>2 DEF Receive
<1>3. CASE Take
  <2>1. inbox \in Seq(Entries) /\ inbox # << >> /\ Handle(Head(inbox))
    BY <1>3 DEF Take, CInv, ConnectionTypeOK, Entries
  <2>2. Head(inbox) \in Entries
    BY <2>1, HeadTailProperties
  <2>3. Outcome(Head(inbox))
    BY <2>1, <2>2, HandleOutcome DEF CInv
  <2> QED
    BY <2>3 DEF Outcome
<1>4. CASE Send
  BY <1>4 DEF Send
<1>5. CASE Break
  BY <1>5 DEF Break
<1>6. CASE UNCHANGED connectionVars
  BY <1>6 DEF connectionVars
<1> QED
  BY <1>1, <1>2, <1>3, <1>4, <1>5, <1>6 DEF ConnectionNext

LEMMA SpecCInv == ConnectionSpec => []CInv
<1> QED
  BY InitCInv, NextCInv, PTL DEF ConnectionSpec

(* The socket never holds more than it can, and what is on its way is      *)
(* what the server sends: the loop of `serve` waits on a full socket.      *)
THEOREM ConnectionTypes == ConnectionSpec => []ConnectionTypeOK
<1>1. CInv => ConnectionTypeOK
  BY DEF CInv
<1> QED
  BY <1>1, SpecCInv, PTL

(* However far a client sends ahead of `serve`, and however small the      *)
(* socket, the answers come in the order of the commands, one for each,    *)
(* and none is missing while the link holds.                               *)
THEOREM RepliesKeepTheirOrder == ConnectionSpec => []RepliesInOrder
<1>1. CInv => RepliesInOrder
  BY DEF CInv
<1> QED
  BY <1>1, SpecCInv, PTL

(* For any documents, chunk sizes and buffers: the bytes a client has of a *)
(* stream are the first bytes of it, with none twice and none left out.    *)
THEOREM ClientCollects == ConnectionSpec => []ClientCollectsInOrder
<1>1. CInv => ClientCollectsInOrder
  BY DEF CInv
<1> QED
  BY <1>1, SpecCInv, PTL

(* A connection, for all it adds to the store, does to it no more than the *)
(* store's own specification says.                                         *)
LEMMA ConnectionRefinesStore == ConnectionSpec => Spec
<1>1. ConnectionInit => Init
  BY DEF ConnectionInit
<1> QED
  BY <1>1, ConnectionStep, SpecCInv, PTL DEF ConnectionSpec, Spec

(* The streams promise through the queues of a connection what ByteStreams *)
(* says of them.                                                           *)
THEOREM ConnectionImplementsByteStreams == ConnectionSpec => ImplementsByteStreams
  BY ConnectionRefinesStore, StoreImplementsByteStreams

(* What a stream has told its client stays true of it in a connection.     *)
THEOREM ConnectionDelivers == ConnectionSpec => []Delivery
  BY ConnectionRefinesStore, StreamsDeliver, PTL
=============================================================================
