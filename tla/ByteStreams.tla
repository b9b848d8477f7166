---------------------------- MODULE ByteStreams ----------------------------
(***************************************************************************)
(* What the IO domain promises a client: a handle stands for one finished  *)
(* document; reading it hands out the document's bytes front to back, each *)
(* exactly once, and says `eof` on the very read that hands out the last.  *)
(* A handle that was closed, or never given, reads as an immediate eof.    *)
(*                                                                         *)
(* The bytes of a document are numbered, so a document is its length and a *)
(* chunk is the interval from + 1 .. to of byte positions.                 *)
(***************************************************************************)
EXTENDS Naturals

CONSTANTS Handles, Sizes, NoReply

VARIABLES
  length,   \* handle -> length of its document, for the handles given out
  sent,     \* handle -> how many of its bytes were handed out
  live,     \* handles neither read to the end nor closed
  reply     \* what the last call answered

vars == <<length, sent, live, reply>>

Nothing(h) == [handle |-> h, from |-> 0, to |-> 0, eof |-> TRUE]

Init ==
  /\ length = << >>
  /\ sent = << >>
  /\ live = {}
  /\ reply = NoReply

Extended(f, h, v) == [x \in DOMAIN f \cup {h} |-> IF x = h THEN v ELSE f[x]]

Issue ==
  \E h \in Handles \ DOMAIN length, n \in Sizes :
    /\ length' = Extended(length, h, n)
    /\ sent' = Extended(sent, h, 0)
    /\ live' = live \cup {h}
    /\ reply' = NoReply

(* Any amount may be sent at once, as long as an empty chunk ends the      *)
(* stream and `eof` is said exactly when everything has been sent.         *)
Send ==
  \E h \in live : \E to \in sent[h] .. length[h] :
    /\ to = sent[h] => to = length[h]
    /\ sent' = [sent EXCEPT ![h] = to]
    /\ live' = IF to = length[h] THEN live \ {h} ELSE live
    /\ reply' = [handle |-> h, from |-> sent[h], to |-> to,
                 eof |-> to = length[h]]
    /\ UNCHANGED length

SendNothing ==
  \E h \in Handles \ live :
    /\ reply' = Nothing(h)
    /\ UNCHANGED <<length, sent, live>>

Forget ==
  \E h \in Handles :
    /\ live' = live \ {h}
    /\ reply' = NoReply
    /\ UNCHANGED <<length, sent>>

Next == Issue \/ Send \/ SendNothing \/ Forget

Spec == Init /\ [][Next]_vars
=============================================================================
