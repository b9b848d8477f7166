---------------------------- MODULE Connection ----------------------------
(***************************************************************************)
(* One WebSocket connection after its handshake (the loop of `serve` in    *)
(* cdp-server/src/main.rs): messages are taken one at a time, a command is *)
(* run to its end, and its outputs are sent one by one before the next     *)
(* message is taken.  A client may send ahead of the answers; the socket   *)
(* holds a bounded number of messages each way and may fail at any time.   *)
(*                                                                         *)
(* The commands that move streams act on StreamClient's store.  Any other  *)
(* is a number of events with the answer somewhere among them, as Session  *)
(* says of each.  An answer copies the id of its command; here, as         *)
(* commands have no ids, it copies the command.                            *)
(*                                                                         *)
(* A definition that stands before another and bears its name with an      *)
(* addition, as TakeEarly beside Take, is that code with a plausible slip. *)
(* No action uses it: it tells which property would notice (README,        *)
(* Slips).                                                                 *)
(***************************************************************************)
EXTENDS StreamClient, Sequences, FiniteSets

CONSTANTS
  Window,     \* messages the socket holds on their way to the server
  Buffer,     \* and on their way to the client
  MaxEvents   \* bound on the events of a command

Chunks == [handle : Handles, from : Nat, to : Nat, eof : BOOLEAN]

ASSUME ConnectionConstants ==
  /\ Window \in Nat \ {0} /\ Buffer \in Nat \ {0} /\ MaxEvents \in Nat
  /\ NoReply \notin Chunks

VARIABLES
  link,      \* "up", or "down" once serve has returned or unwound
  inbox,     \* messages of the client not taken yet
  outbox,    \* outputs of the last command not sent yet
  wire,      \* outputs the client has not received yet
  awaiting,  \* commands the client has no answer to, in the order sent
  got        \* handle -> bytes the client has received

sockets == <<inbox, outbox, wire>>
client == <<awaiting, got>>
connectionVars == <<vars, link, sockets, client>>

Command(kind, about) == [kind |-> kind, about |-> about]

(* `about` is a handle, or a number of events.                             *)
Commands ==
  {Command("print", 0)} \cup [kind : {"read", "close"}, about : Handles]
    \cup [kind : {"other"}, about : 1 .. MaxEvents]

(* Text that is not JSON, or a binary frame.                               *)
Unparsed == Command("unparsed", 0)

Event == [kind |-> "event", of |-> Unparsed, chunk |-> NoReply]

Answer(command, chunk) == [kind |-> "answer", of |-> command, chunk |-> chunk]

ConnectionInit ==
  /\ Init
  /\ link = "up"
  /\ inbox = << >> /\ outbox = << >> /\ wire = << >>
  /\ awaiting = << >> /\ got = [h \in Handles |-> 0]

-----------------------------------------------------------------------------
(* The client.  At most one print is on its way, as the bound on handles   *)
(* counts those given out.                                                 *)
Ask(command) ==
  /\ link = "up" /\ Len(inbox) < Window
  /\ command.kind = "print" =>
       counter < MaxStreams /\ \A k \in DOMAIN inbox : inbox[k].kind # "print"
  /\ inbox' = Append(inbox, command)
  /\ awaiting' = IF command = Unparsed THEN awaiting ELSE Append(awaiting, command)
  /\ UNCHANGED <<vars, link, outbox, wire, got>>

(* The first answer that comes is for the oldest command.                  *)
Receive ==
  /\ wire # << >>
  /\ wire' = Tail(wire)
  /\ LET message == Head(wire) IN
       /\ awaiting' = IF message.kind = "answer" THEN Tail(awaiting) ELSE awaiting
       /\ got' = IF message.chunk = NoReply THEN got
                 ELSE [got EXCEPT ![message.chunk.handle] = @ + message.chunk.to - message.chunk.from]
  /\ UNCHANGED <<vars, link, inbox, outbox>>

-----------------------------------------------------------------------------
(* Session::handle: what a command does to the streams, and its outputs.   *)
Answered(command, chunk) == outbox' = <<Answer(command, chunk)>>

Handle(command) ==
  \/ /\ command.kind = "print" /\ OpenStream
     /\ Answered(command, NoReply)
  \/ /\ command.kind = "read" /\ ReadStream(command.about)
     /\ Answered(command, Chunk(command.about))
  \/ /\ command.kind = "close" /\ CloseStream(command.about)
     /\ Answered(command, NoReply)
  \/ /\ command.kind = "other" /\ UNCHANGED vars
     /\ \E before \in 0 .. command.about :
          outbox' = [k \in 1 .. command.about + 1 |->
                       IF k = before + 1 THEN Answer(command, NoReply) ELSE Event]
  \/ /\ command = Unparsed /\ UNCHANGED vars
     /\ outbox' = << >>

TakeEarly ==
  /\ link = "up" /\ inbox # << >>
  /\ inbox' = Tail(inbox)
  /\ Handle(Head(inbox))
  /\ UNCHANGED <<link, wire, client>>

Take ==
  /\ link = "up" /\ inbox # << >> /\ outbox = << >>
  /\ inbox' = Tail(inbox)
  /\ Handle(Head(inbox))
  /\ UNCHANGED <<link, wire, client>>

SendLast ==
  /\ link = "up" /\ outbox # << >> /\ Len(wire) < Buffer
  /\ wire' = Append(wire, outbox[Len(outbox)])
  /\ outbox' = << >>
  /\ UNCHANGED <<vars, link, inbox, client>>

(* sink.send: waits while the socket is full. *)
Send ==
  /\ link = "up" /\ outbox # << >> /\ Len(wire) < Buffer
  /\ wire' = Append(wire, Head(outbox))
  /\ outbox' = Tail(outbox)
  /\ UNCHANGED <<vars, link, inbox, client>>

(* The client hangs up, a send or the receipt of a message fails, or a     *)
(* handler panics: the session goes with its streams, the outputs not sent *)
(* are lost and so may those on the way be.                                *)
Break ==
  /\ link = "up" /\ link' = "down"
  /\ inbox' = << >> /\ outbox' = << >>
  /\ \E n \in 0 .. Len(wire) : wire' = SubSeq(wire, 1, n)
  /\ UNCHANGED <<vars, client>>

ConnectionNext ==
  \/ \E command \in Commands \cup {Unparsed} : Ask(command)
  \/ Receive \/ Take \/ Send \/ Break

ConnectionSpec == ConnectionInit /\ [][ConnectionNext]_connectionVars

(* tokio polls the task while it can go on; the client reads what comes.   *)
Served == WF_connectionVars(Take) /\ WF_connectionVars(Send) /\ WF_connectionVars(Receive)

(* A client that was given a handle asks for more of it again and again,   *)
(* whatever else it asks.                                                  *)
Reading == \A h \in Handles : SF_connectionVars(Holds(h) /\ Ask(Command("read", h)))

ConnectionFair == ConnectionSpec /\ Served /\ Reading

-----------------------------------------------------------------------------
Messages ==
  [kind : {"event", "answer"}, of : Commands \cup {Unparsed}, chunk : Chunks \cup {NoReply}]

ConnectionTypeOK ==
  /\ TypeOK
  /\ link \in {"up", "down"}
  /\ inbox \in Seq(Commands \cup {Unparsed}) /\ Len(inbox) <= Window
  /\ outbox \in Seq(Messages)
  /\ wire \in Seq(Messages) /\ Len(wire) <= Buffer
  /\ awaiting \in Seq(Commands)
  /\ got \in [Handles -> Nat]

(* What waits for the client to take it, then for the server to take it:   *)
(* every command that is under way, in the order it went in.               *)
Coming == wire \o outbox

Line == [k \in DOMAIN Coming |-> Coming[k].of] \o inbox

(* How many commands stand in the first k places of the line.              *)
CommandsTo(k) == Cardinality({j \in 1 .. k : Line[j] # Unparsed})

(* The handlers of one session run one after the other and every output    *)
(* leaves before the next command is looked at, so however far a client    *)
(* sends ahead, and whatever it sends that is no command, every command    *)
(* the server can parse is answered once, in the order sent, and while the *)
(* link is up none is forgotten.                                           *)
RepliesInOrder ==
  /\ \A k \in DOMAIN Line : Line[k] # Unparsed =>
       CommandsTo(k) <= Len(awaiting) /\ Line[k] = awaiting[CommandsTo(k)]
  /\ link = "up" => CommandsTo(Len(Line)) = Len(awaiting)

Carries(k, h) ==
  LET chunk == Coming[k].chunk IN chunk # NoReply /\ chunk.handle = h /\ chunk.from < chunk.to

(* Byte n of stream h is where the client will be before message k.        *)
Reached(k, h, n) ==
  \/ n = got[h] /\ \A j \in 1 .. k - 1 : ~ Carries(j, h)
  \/ \E j \in 1 .. k - 1 :
       /\ Carries(j, h) /\ n = Coming[j].chunk.to
       /\ \A i \in j + 1 .. k - 1 : ~ Carries(i, h)

(* What the client received of a document is a prefix of it, whatever else *)
(* it was asking for and whether or not the link held: the chunks on their *)
(* way go on exactly where the last one received ended.                    *)
ClientCollectsInOrder ==
  \A h \in 1 .. counter :
    /\ \A k \in DOMAIN Coming : Carries(k, h) => Reached(k, h, Coming[k].chunk.from)
    /\ link = "up" => Reached(Len(Coming) + 1, h, sent[h])

(* While the link holds no command waits for ever, though others are sent  *)
(* all the time: everything is answered again and again, or at least the   *)
(* list of what is not is shortened again and again.                       *)
EveryCommandIsAnswered ==
  \/ <>(link = "down")
  \/ []<>(awaiting = << >>)
  \/ []<><<Len(awaiting') < Len(awaiting)>>_connectionVars

(* A client that keeps reading is told eof: every stream ends up drained   *)
(* or closed, whatever is done to the other ones, or the link is lost.     *)
EveryStreamEnds == \A h \in Handles : Holds(h) ~> (~ Holds(h) \/ link = "down")
=============================================================================
