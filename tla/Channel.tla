-------------------------------- MODULE Channel --------------------------------
(***************************************************************************)
(* What a connection promises to class ddp, which sends, receives and      *)
(* looks at no error: two streams that lose, repeat and reorder nothing,   *)
(* until the connection closes.  Nothing is sent or received before it is  *)
(* open or after it is closed; it opens at most once, if its end is final. *)
(* Module Ddp is written against this; module WsConnection implements it.  *)
(***************************************************************************)
EXTENDS Naturals, Sequences, FiniteSets

CONSTANT Message

VARIABLES
  status,    \* "connecting", "open" or "closed"
  final,     \* whether a connection that closed stays so
  sent,      \* messages the client gave to connection::send
  arrived,   \* those the server has got
  published, \* messages the server sent
  received   \* those given to the message handler

vars == <<status, final, sent, arrived, published, received>>

Init ==
  /\ status = "connecting" /\ final \in BOOLEAN
  /\ sent = <<>> /\ arrived = <<>> /\ published = <<>> /\ received = <<>>

Open ==
  /\ status = "connecting" \/ (status = "closed" /\ ~final /\ sent = <<>> /\ received = <<>>)
  /\ status' = "open"
  /\ UNCHANGED <<final, sent, arrived, published, received>>

Send(m) ==
  /\ status = "open"
  /\ sent' = Append(sent, m)
  /\ UNCHANGED <<status, final, arrived, published, received>>

Publish(m) ==
  /\ published' = Append(published, m)
  /\ UNCHANGED <<status, final, sent, arrived, received>>

Receive ==
  /\ status = "open"
  /\ Len(received) < Len(published)
  /\ received' = Append(received, published[Len(received) + 1])
  /\ UNCHANGED <<status, final, sent, arrived, published>>

Close ==
  /\ status # "closed"
  /\ status' = "closed"
  /\ UNCHANGED <<final, sent, arrived, published, received>>

(* What is under way when the connection closes may arrive or be lost; the *)
(* loss of a write may be what closes the connection.                      *)
Arrive ==
  /\ \E n \in Len(arrived) + 1 .. Len(sent) : arrived' = SubSeq(sent, 1, n)
  /\ status' \in {status, "closed"}
  /\ UNCHANGED <<final, sent, published, received>>

Next ==
  \/ Open \/ Close \/ Receive \/ Arrive
  \/ \E m \in Message : Send(m) \/ Publish(m)

Spec == Init /\ [][Next]_vars

(* An attempt to connect ends. *)
Settles == status = "connecting" ~> status # "connecting"

(* What is sent arrives, in both directions, or the connection closes. *)
Delivers ==
  \A n \in 1 .. Cardinality(Message) :
    /\ Len(sent) >= n ~> Len(arrived) >= n \/ status = "closed"
    /\ Len(published) >= n ~> Len(received) >= n \/ status = "closed"
=============================================================================
