------------------------------- MODULE Replica -------------------------------
(***************************************************************************)
(* What a collection promises that mirrors one of the server.              *)
(*                                                                         *)
(* This client writes its own documents, others write the rest.  The       *)
(* server takes over each version of an own document, one after the other: *)
(* the client does not write a document again before.  Of the documents of *)
(* others, and of all documents until the collection is ready, the client  *)
(* goes through the versions the server had since it published, in order   *)
(* and without leaving one out.                                            *)
(***************************************************************************)
EXTENDS Documents, Sequences

CONSTANT Own  \* the documents this client writes

VARIABLES
  here,      \* the collection of the client
  there,     \* the collection of the server
  underway,  \* the versions the client has still to go through
  phase      \* "unpublished", then "filling", then "ready"

replicaVars == <<here, there, underway, phase>>

Collection == [Id -> Stored]

(* The documents the client has from the server, and a version of those.   *)
Followed == IF phase = "ready" THEN Id \ Own ELSE Id
Part(version, ids) == [id \in ids |-> version[id]]

Init ==
  /\ here = [id \in Id |-> NoDoc]
  /\ there \in Collection
  /\ underway = <<>>
  /\ phase = "unpublished"

(* The server tells of its documents, one or more at a time. *)
Publish ==
  /\ phase = "unpublished" /\ phase' = "filling"
  /\ underway' \in Seq(Collection) \ {<<>>}
  /\ underway'[Len(underway')] = there
  /\ \A i \in 1 .. Len(underway'), id \in Id : underway'[i][id] \in {NoDoc, there[id]}
  /\ UNCHANGED <<here, there>>

(* The client writes own documents of which the server has the version.    *)
Write ==
  /\ phase = "ready"
  /\ here' \in Collection
  /\ \A id \in Id : here'[id] # here[id] => id \in Own /\ here[id] = there[id]
  /\ UNCHANGED <<there, underway, phase>>

(* The server takes over the client's version of a document, and may tell. *)
Accept(id) ==
  /\ phase = "ready"
  /\ there' = [there EXCEPT ![id] = here[id]]
  /\ underway' \in {underway, Append(underway, Part(there', Followed))}
  /\ UNCHANGED <<here, phase>>

(* Other clients write, if anything, and the server tells.                 *)
OtherWrites ==
  /\ there' \in Collection
  /\ \A id \in Own : there'[id] = there[id]
  /\ underway' = IF phase = "unpublished" THEN <<>>
                 ELSE Append(underway, Part(there', Followed))
  /\ UNCHANGED <<here, phase>>

(* The client goes on to the next version of what it follows. *)
Follow ==
  /\ underway # <<>>
  /\ here' = [id \in Id |-> IF id \in Followed THEN Head(underway)[id] ELSE here[id]]
  /\ underway' = Tail(underway)
  /\ UNCHANGED <<there, phase>>

(* The collection is ready: the client has the server's version of its own *)
(* documents, and does not follow them any more.                           *)
Open ==
  /\ phase = "filling" /\ phase' = "ready"
  /\ underway # <<>>
  /\ here' = Head(underway)
  /\ \A id \in Own : here'[id] = there[id]
  /\ underway' = [i \in 1 .. Len(underway) - 1 |-> Part(underway[i + 1], Id \ Own)]
  /\ UNCHANGED there

Next ==
  \/ Publish \/ Write \/ OtherWrites \/ Follow \/ Open
  \/ \E id \in Own : Accept(id)

Spec == Init /\ [][Next]_replicaVars
=============================================================================
