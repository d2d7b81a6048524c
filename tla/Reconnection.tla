------------------------------ MODULE Reconnection ------------------------------
(***************************************************************************)
(* What the loss of a connection does to a mirrored collection.  Class ddp *)
(* has no handler for a connection that closes or fails, and the           *)
(* collection hears of neither: its pushes stay connected, documents stay  *)
(* in `_idle', methods called in between are lost with everything that was *)
(* under way.                                                              *)
(*                                                                         *)
(* Users connect again and, as far as the code lets them, repair: they     *)
(* subscribe once more through the session.  What the server then sends    *)
(* reaches the old slots of the collection; its "ready" only theirs.       *)
(*                                                                         *)
(* A message sent while the connection is down is dropped: here it joins a *)
(* queue that nobody reads and connect discards.                           *)
(***************************************************************************)
EXTENDS DdpCollection

CONSTANTS
  MaxLosses,  \* bound on the connections that are lost
  Haste       \* when users write: "before", "during" the new subscription

ASSUME ReconnectionAssumption == MaxLosses \in Nat /\ Haste \subseteq {"before", "during"}

(***************************************************************************)
(* "first": the connection the collection subscribed on; "down"; "bare": a *)
(* new one; "asked": users subscribed again; "fresh": the server has sent  *)
(* all documents since.                                                    *)
(***************************************************************************)
VARIABLES
  link,    \* the state of the connection
  losses,  \* how many connections were lost
  called   \* how many methods were called before the latest one

connection == <<link, losses, called>>
allVars == <<vars, connection>>

LinkTypeOK ==
  /\ TypeOK
  /\ link \in {"first", "down", "bare", "asked", "fresh"}
  /\ losses \in 0 .. MaxLosses /\ called \in 0 .. methods

InitLink == Init /\ link = "first" /\ losses = 0 /\ called = 0

-----------------------------------------------------------------------------
(* The connection closes, in a callback or between calls: what was under   *)
(* way is lost, and the server forgets the session.                        *)
Lose ==
  /\ link # "down" /\ losses < MaxLosses
  /\ link' = "down" /\ losses' = losses + 1
  /\ toServer' = <<>> /\ toClient' = <<>>
  /\ published' = FALSE /\ unsynced' = {}
  /\ UNCHANGED <<local, db, foreign, called>>

(* The new connection is open and its session established. *)
connect ==
  /\ link = "down" /\ depth = 0
  /\ link' = "bare" /\ called' = methods
  /\ toServer' = <<>>
  /\ UNCHANGED <<local, toClient, server, losses>>

(* ddp::subscribe by the user, to what the collection subscribed to. *)
subscribe ==
  /\ link = "bare" /\ UserRuns
  /\ link' = "asked"
  /\ toServer' = Append(toServer, [msg |-> "sub"])
  /\ UNCHANGED <<local, toClient, server, losses, called>>

(* Only the slot of the subscription with this id runs. *)
on_ready ==
  IF link = "first"
  THEN on_initial_batch /\ UNCHANGED connection
  ELSE /\ Received("ready")
       /\ link' = "fresh"
       /\ UNCHANGED <<store, ready, idle, methods, frames, depth, losses, called>>

(* Users write on the first connection, while it is down and when they     *)
(* have the server's documents again; or also in between.                  *)
Timely ==
  /\ link = "bare" => "before" \in Haste
  /\ link = "asked" => "during" \in Haste

UserWrites == Timely /\ UserCall /\ UNCHANGED connection

Proceeds == Progress /\ UNCHANGED connection

Hears ==
  \/ on_ready
  \/ /\ on_document_added \/ on_document_changed \/ on_document_removed \/ on_synchronized
     /\ UNCHANGED connection

ServerOnline == link # "down" /\ Server /\ UNCHANGED connection

OthersWrite ==
  /\ \E id \in Id, after \in Documents \cup {NoDoc} : OtherClientWrites(id, after)
  /\ UNCHANGED connection

NextLink ==
  \/ UserWrites \/ Proceeds \/ Hears \/ ServerOnline \/ OthersWrite
  \/ Lose \/ connect \/ subscribe

SpecLink == InitLink /\ [][NextLink]_allVars

(* As in DdpCollection; nobody has to connect or to subscribe again. *)
FairSpecLink ==
  /\ SpecLink
  /\ \A d \in Depth : SF_allVars(Proceeds /\ depth = d)
  /\ SF_allVars(Hears)
  /\ WF_allVars(ServerOnline)

-----------------------------------------------------------------------------
(* The method of a document in `_idle' was called on a connection that was *)
(* lost, and so was its "updated".                                         *)
Deaf(id) == \E p \in idle : p[2] = id /\ p[1] <= called

(***************************************************************************)
(* A document stays deaf to the server only by the loss of a connection:   *)
(* it does not wait for ever for a method that was called on a connection  *)
(* that stays, subscribed or not (ddp_collection.cpp:92-94, 108, 134,      *)
(* 144).                                                                   *)
(***************************************************************************)
Awaited(id) == link # "down" /\ Pending(id) /\ ~Deaf(id)

IdleEndsUnlessLost == \A id \in Own : Awaited(id) ~> ~Awaited(id)

(***************************************************************************)
(* What a new subscription repairs: when its "ready" is handled, the local *)
(* copy of every document that the server has is the server's, but for the *)
(* messages still under way, unless the document is deaf.  For this users  *)
(* must not write before.  Nothing is said of documents removed meanwhile, *)
(* of which no message tells (ddp_collection.cpp:155-165).                 *)
(***************************************************************************)
Repaired == \A id \in Id : db[id] = NoDoc \/ Deaf(id) \/ AfterData(id) = db[id]

SubscribingRepairs == [][link = "asked" /\ link' = "fresh" => Repaired']_allVars
=============================================================================
