----------------------------- MODULE DdpCollection -----------------------------
(***************************************************************************)
(* class ddp_collection: a collection that mirrors one of the server, over *)
(* the session of module Ddp while its connection is open: two queues, in  *)
(* order and without loss.                                                 *)
(*                                                                         *)
(* A write of the user changes the local store at once; a slot in the      *)
(* signal of the announcement pushes it to the server as a method.  The    *)
(* echo of the write comes back in messages that are dropped as long as    *)
(* the document is in `_idle', until the server says that the method is    *)
(* "updated".  Messages of the server are applied with the push blocked.   *)
(* Callbacks of live queries run in both cases and may write again: where  *)
(* the push is blocked, the write connects a push of its own for as long   *)
(* as it takes.                                                            *)
(*                                                                         *)
(* Of the collection, module Collection, only this is kept: a write        *)
(* changes the store, then announces document after document, and user     *)
(* callbacks run in every announcement.  The live queries they belong to   *)
(* are created once the collection is ready, as ddp_monitor does, so their *)
(* slots come after the push of an insertion; those of a change or removal *)
(* have signals of their own, emitted first.  The server is external.      *)
(***************************************************************************)
EXTENDS Documents, SequencesExt

CONSTANTS
  Own,         \* the documents this client writes
  Documents,   \* the documents users insert
  Modifiers,   \* the modifiers users update with
  Contents,    \* the possible initial contents of the server
  NoEvent,     \* nothing is being announced
  MaxDepth,    \* bound on the nesting of writes
  MaxWrites,   \* bound on the documents this client changes, one by one
  MaxForeign,  \* bound on the writes of other clients
  Liberty      \* what users and the server may do

ASSUME BoundsAssumption ==
  MaxDepth \in Nat \ {0} /\ MaxWrites \in Nat /\ MaxForeign \in Nat

ASSUME FiniteAssumption == IsFiniteSet(Id)

ASSUME InputsAssumption ==
  /\ Own \subseteq Id
  /\ Documents \subseteq Doc
  /\ Modifiers \subseteq Modifier
  /\ Contents \subseteq [Id -> Stored]

(***************************************************************************)
(* "pending": users write documents whose last method is not updated yet;  *)
(* "conflict": callbacks write documents that are being announced; "shared"*)
(* other clients write the documents of this one; "reject": the server     *)
(* rejects methods; "upsert" and "remove": callbacks upsert, or remove,    *)
(* while a message of the server is applied; "deep": callbacks of writes   *)
(* made there write again.                                                 *)
(***************************************************************************)
ASSUME LibertyAssumption ==
  Liberty \subseteq {"pending", "conflict", "shared", "reject", "upsert", "remove", "deep"}

Depth == 1 .. MaxDepth
Kind == {"insert", "update", "remove"}   \* of announcements and of pushes

Event == [id : Id, before : Stored, after : Stored]

ASSUME NoEventAssumption == NoEvent \notin Event

KindOf(e) ==
  CASE e.before = NoDoc -> "insert"
    [] e.after = NoDoc -> "remove"
    [] OTHER -> "update"

(* A method: insert a document, $set and $unset fields, or remove.         *)
Insertion == [op : {"insert"}, doc : Doc]
Change == [op : {"update"}, modifier : Modifier]
Removal == [op : {"remove"}]
Edit == Insertion \cup Change \cup Removal

(***************************************************************************)
(* A write in progress: the push its handler blocks (on_document_added and *)
(* so on), the pushes its wrapper connected (insert, update, upsert,       *)
(* remove), what is left to announce, and the announcement whose callbacks *)
(* run.                                                                    *)
(***************************************************************************)
Frame == [blocks : SUBSET Kind, connects : SUBSET Kind, todo : SUBSET Event,
          event : Event \cup {NoEvent}]

Started(blocks, connects, events) ==
  [blocks |-> blocks, connects |-> connects, todo |-> events, event |-> NoEvent]

IdleFrame == Started({}, {}, {})

VARIABLES
  store,      \* the local collection
  ready,      \* the pushes are connected
  idle,       \* ddp_collection::_idle: pairs <<method, document>>
  methods,    \* how many methods were called; their ids are 1, 2, ...
  frames,     \* the writes in progress, outermost first
  depth,      \* how many they are
  writes,     \* how many changes of documents this client made
  toServer,   \* messages to the server
  toClient,   \* messages to the client
  db,         \* the collection of the server
  published,  \* the server has executed the subscription
  unsynced,   \* methods executed and not reported as updated
  foreign     \* how many writes other clients made

vars == <<store, ready, idle, methods, frames, depth, writes, toServer, toClient, db,
          published, unsynced, foreign>>
local == <<store, ready, idle, methods, frames, depth, writes>>
server == <<db, published, unsynced, foreign>>

ToServer == [msg : {"sub"}] \cup [msg : {"method"}, method : Nat, id : Id, edit : Edit]
ToClient == [msg : {"ready"}] \cup [msg : {"updated"}, method : Nat]
              \cup [msg : {"data"}, id : Id, edit : Edit]

(* _idle is a bimap: no method and no document is in it twice. *)
TypeOK ==
  /\ store \in [Id -> Stored] /\ db \in [Id -> Stored]
  /\ ready \in BOOLEAN /\ published \in BOOLEAN
  /\ idle \subseteq (1 .. methods) \X Id /\ unsynced \subseteq 1 .. methods
  /\ \A p1, p2 \in idle : p1[1] = p2[1] \/ p1[2] = p2[2] => p1 = p2
  /\ methods \in Nat /\ writes \in 0 .. MaxWrites /\ foreign \in 0 .. MaxForeign
  /\ frames \in [Depth -> Frame] /\ depth \in 0 .. MaxDepth
  /\ toServer \in Seq(ToServer) /\ toClient \in Seq(ToClient)

(* ddp_collection::init_ddp_collection has subscribed. *)
Init ==
  /\ store = [id \in Id |-> NoDoc]
  /\ ready = FALSE
  /\ idle = {}
  /\ methods = 0
  /\ frames = [d \in Depth |-> IdleFrame]
  /\ depth = 0 /\ writes = 0
  /\ toServer = <<[msg |-> "sub"]>>
  /\ toClient = <<>>
  /\ db \in Contents
  /\ published = FALSE
  /\ unsynced = {}
  /\ foreign = 0

-----------------------------------------------------------------------------
(* What an edit makes of a document, at the server as in the client.  A    *)
(* server refuses to insert an _id again; the client overwrites.           *)
Edited(edit, doc) ==
  CASE edit.op = "insert" -> edit.doc
    [] edit.op = "remove" -> NoDoc
    [] edit.op = "update" -> IF doc = NoDoc THEN NoDoc ELSE Apply(edit.modifier, doc)

ServerEdited(edit, doc) ==
  IF edit.op = "insert" /\ doc # NoDoc THEN doc ELSE Edited(edit, doc)

(* The edit that leads from one version to another: the server's message   *)
(* tells it to the client, and the client's method to the server.          *)
Difference(before, after) ==
  CASE before = NoDoc -> [op |-> "insert", doc |-> after]
    [] after = NoDoc -> [op |-> "remove"]
    [] OTHER -> [op |-> "update", modifier |-> AsModifier(modified_fields(before, after))]

-----------------------------------------------------------------------------
(* Writes of the user. *)
Blocked(kind) == \E d \in Depth : kind \in frames[d].blocks
Connected(kind) == {d \in Depth : kind \in frames[d].connects}

Announcing(id) ==
  \E d \in Depth : \/ \E e \in frames[d].todo : e.id = id
                   \/ frames[d].event # NoEvent /\ frames[d].event.id = id

(* Mutant of Pending: messages for idle documents are not recognized. *)
Pending_Never(id) == FALSE

(* Mutant of Pending: one idle document has the messages for all dropped.  *)
Pending_Any(id) == idle # {}

Pending(id) == \E p \in idle : p[2] = id

UserRuns == depth = 0 \/ (depth > 0 /\ frames[depth].event # NoEvent)

(* A wrapper throws before the subscription is ready, and otherwise calls  *)
(* the collection with pushes of its own connected where one is blocked.   *)
Write(connects, events) ==
  /\ UserRuns
  /\ ready
  /\ depth < MaxDepth /\ writes + Cardinality(events) <= MaxWrites
  /\ "pending" \in Liberty \/ \A e \in events : ~Pending(e.id)
  /\ "conflict" \in Liberty \/ \A e \in events : ~Announcing(e.id)
  /\ "deep" \in Liberty \/ \A e \in events : Connected(KindOf(e)) = {}
  /\ store' = [id \in Id |-> IF \E e \in events : e.id = id
                             THEN (CHOOSE e \in events : e.id = id).after
                             ELSE store[id]]
  /\ frames' = [frames EXCEPT ![depth + 1] = Started({}, connects, events)]
  /\ depth' = depth + 1
  /\ writes' = writes + Cardinality(events)
  /\ UNCHANGED <<ready, idle, methods, toServer, toClient, server>>

(* What is announced when the documents in the domain of `new' change.     *)
Changes(new) ==
  {[id |-> id, before |-> store[id], after |-> new[id]] :
     id \in {i \in DOMAIN new : new[i] # store[i]}}

Modified(ids, m) == [id \in ids |-> Apply(m, store[id])]

Existing == {ids \in SUBSET Own : ids # {} /\ \A id \in ids : store[id] # NoDoc}

(* With an _id of the caller that is not stored, or a generated one.       *)
insert(id, doc) ==
  /\ store[id] = NoDoc
  /\ Write(IF Blocked("insert") THEN {"insert"} ELSE {},
           {[id |-> id, before |-> NoDoc, after |-> doc]})

(* Mutant of update: no push is connected in the handler of a change. *)
update_Unconnected(ids, m) == Write({}, Changes(Modified(ids, m)))

update(ids, m) ==
  Write(IF Blocked("update") THEN {"update"} ELSE {}, Changes(Modified(ids, m)))

(* The code connects commit_insert twice, the second time in place of the  *)
(* first, and commit_update never.                                         *)
upsert(ids, id, doc) ==
  LET connects == IF Blocked("insert") \/ Blocked("update") THEN {"insert"} ELSE {}
  IN  /\ "upsert" \in Liberty \/ ~Blocked("update")
      /\ \/ ids # {} /\ Write(connects, Changes(Modified(ids, [set |-> doc, unset |-> {}])))
         \/ /\ ids = {} /\ store[id] = NoDoc
            /\ Write(connects, {[id |-> id, before |-> NoDoc, after |-> doc]})

remove(ids) ==
  LET connects == IF \E kind \in Kind : Blocked(kind) THEN {"remove"} ELSE {}
  IN  /\ "remove" \in Liberty \/ connects = {} \/ Blocked("remove")
      /\ Write(connects, Changes([id \in ids |-> NoDoc]))

-----------------------------------------------------------------------------
(* The announcements of a write. *)
SetTop(f) == frames' = [frames EXCEPT ![depth] = f]

(***************************************************************************)
(* commit_insert, commit_update or commit_remove runs n times for e.  The  *)
(* bimap takes no second method for a document, nor says that it does not. *)
(***************************************************************************)
Push(e, n) ==
  LET method(i) == [msg |-> "method", method |-> methods + i, id |-> e.id,
                    edit |-> Difference(e.before, e.after)]
  IN  /\ toServer' = toServer \o [i \in 1 .. n |-> method(i)]
      /\ methods' = methods + n
      /\ idle' = IF n = 0 \/ Pending(e.id) THEN idle
                 ELSE idle \cup {<<methods + 1, e.id>>}

(* The push that on_initial_batch connected. *)
StandingPush(kind) == IF ready /\ ~Blocked(kind) THEN 1 ELSE 0

(* The next document is announced.  Of the slots of an insertion the       *)
(* standing push is the first; then come those of the live queries.        *)
Announce ==
  /\ depth > 0
  /\ frames[depth].event = NoEvent
  /\ \E e \in frames[depth].todo :
       /\ SetTop([frames[depth] EXCEPT !.todo = frames[depth].todo \ {e}, !.event = e])
       /\ Push(e, IF KindOf(e) = "insert" THEN StandingPush("insert") ELSE 0)
  /\ UNCHANGED <<store, ready, depth, writes, toClient, server>>

(* The callbacks have run; the slots after them push.                      *)
Announced ==
  LET e == frames[depth].event
  IN  /\ depth > 0
      /\ e # NoEvent
      /\ SetTop([frames[depth] EXCEPT !.event = NoEvent])
      /\ Push(e, Cardinality(Connected(KindOf(e)))
                   + IF KindOf(e) = "insert" THEN 0 ELSE StandingPush(KindOf(e)))
      /\ UNCHANGED <<store, ready, depth, writes, toClient, server>>

(* The write returns: its connections and its block end with it. *)
Return ==
  /\ depth > 0
  /\ frames[depth].event = NoEvent /\ frames[depth].todo = {}
  /\ frames' = [frames EXCEPT ![depth] = IdleFrame]
  /\ depth' = depth - 1
  /\ UNCHANGED <<store, ready, idle, methods, writes, toServer, toClient, server>>

-----------------------------------------------------------------------------
(* Messages of the server, which the event loop handles between calls.     *)
Received(msg) ==
  /\ depth = 0
  /\ toClient # <<>> /\ Head(toClient).msg = msg
  /\ toClient' = Tail(toClient)
  /\ UNCHANGED <<writes, toServer, server>>

(* A document is written as the server says, and the write announced with  *)
(* the push of this kind blocked.                                          *)
Applied(kind, after, events) ==
  /\ store' = [store EXCEPT ![Head(toClient).id] = after]
  /\ IF events = {} THEN UNCHANGED <<frames, depth>>
     ELSE /\ frames' = [frames EXCEPT ![1] = Started({kind}, {}, events)]
          /\ depth' = 1

(* Messages for a document with a method under way are dropped for good. *)
OnDocument(kind, events) ==
  LET m == Head(toClient)
  IN  /\ Received("data")
      /\ m.edit.op = kind
      /\ IF Pending(m.id) THEN UNCHANGED <<store, frames, depth>>
         ELSE Applied(kind, Edited(m.edit, store[m.id]), events)
      /\ UNCHANGED <<ready, idle, methods>>

(* Mutant of on_document_added: its insertion is pushed back. *)
on_document_added_Unblocked ==
  /\ Received("data")
  /\ Head(toClient).edit.op = "insert"
  /\ Applied("update", Head(toClient).edit.doc,
             {[id |-> Head(toClient).id, before |-> NoDoc, after |-> Head(toClient).edit.doc]})
  /\ UNCHANGED <<ready, idle, methods>>

(* Mutant of on_document_added: a document that is stored already stays.   *)
on_document_added_New ==
  LET m == Head(toClient)
      added == {[id |-> m.id, before |-> NoDoc, after |-> m.edit.doc]}
  IN  IF toClient # <<>> /\ m.msg = "data" /\ store[m.id] # NoDoc
      THEN /\ Received("data") /\ m.edit.op = "insert"
           /\ UNCHANGED <<store, ready, idle, methods, frames, depth>>
      ELSE OnDocument("insert", added)

(* collection::insert stores the document whether or not it has the _id. *)
on_document_added ==
  OnDocument("insert",
             {[id |-> Head(toClient).id, before |-> NoDoc, after |-> Head(toClient).edit.doc]})

on_document_changed ==
  LET m == Head(toClient)
  IN  OnDocument("update", Changes([id \in {m.id} |-> Edited(m.edit, store[id])]))

on_document_removed ==
  OnDocument("remove", Changes([id \in {Head(toClient).id} |-> NoDoc]))

(* Mutant of on_synchronized: the document stays idle. *)
on_synchronized_Keeps ==
  /\ Received("updated")
  /\ UNCHANGED local

(* The slot init_ddp_collection gives to ddp::on_synchronized. *)
on_synchronized ==
  /\ Received("updated")
  /\ idle' = {p \in idle : p[1] # Head(toClient).method}
  /\ UNCHANGED <<store, ready, methods, frames, depth>>

on_initial_batch ==
  /\ Received("ready")
  /\ ready' = TRUE
  /\ UNCHANGED <<store, idle, methods, frames, depth>>

-----------------------------------------------------------------------------
(* The server, which is external: it publishes the whole collection.       *)
AllDocuments ==
  LET ids == SetToSeq({id \in Id : db[id] # NoDoc})
  IN  [i \in 1 .. Len(ids) |->
         [msg |-> "data", id |-> ids[i], edit |-> Difference(NoDoc, db[ids[i]])]]

ServerPublishes ==
  /\ toServer # <<>> /\ Head(toServer).msg = "sub"
  /\ toServer' = Tail(toServer)
  /\ toClient' = toClient \o Append(AllDocuments, [msg |-> "ready"])
  /\ published' = TRUE
  /\ UNCHANGED <<local, db, unsynced, foreign>>

ServerWrites(id, after) ==
  /\ db' = [db EXCEPT ![id] = after]
  /\ toClient' = IF published /\ after # db[id]
                 THEN Append(toClient, [msg |-> "data", id |-> id,
                                        edit |-> Difference(db[id], after)])
                 ELSE toClient

ServerRuns ==
  LET m == Head(toServer)
  IN  /\ toServer # <<>> /\ m.msg = "method"
      /\ toServer' = Tail(toServer)
      /\ \/ ServerWrites(m.id, ServerEdited(m.edit, db[m.id]))
         \/ "reject" \in Liberty /\ UNCHANGED <<db, toClient>>
      /\ unsynced' = unsynced \cup {m.method}
      /\ UNCHANGED <<local, published, foreign>>

(* The writes of a method have been sent to its client: "updated".         *)
ServerSyncs(method) ==
  /\ method \in unsynced
  /\ unsynced' = unsynced \ {method}
  /\ toClient' = Append(toClient, [msg |-> "updated", method |-> method])
  /\ UNCHANGED <<local, toServer, db, published, foreign>>

OtherClientWrites(id, after) ==
  /\ foreign < MaxForeign
  /\ "shared" \in Liberty \/ id \notin Own
  /\ after # db[id]
  /\ ServerWrites(id, after)
  /\ foreign' = foreign + 1
  /\ UNCHANGED <<local, toServer, published, unsynced>>

-----------------------------------------------------------------------------
UserCall ==
  \/ \E id \in Own, doc \in Documents : insert(id, doc)
  \/ \E ids \in Existing, m \in Modifiers : update(ids, m)
  \/ \E ids \in Existing \cup {{}}, id \in Own, doc \in Documents : upsert(ids, id, doc)
  \/ \E ids \in Existing : remove(ids)

Progress == Announce \/ Announced \/ Return

on_message ==
  \/ on_document_added \/ on_document_changed \/ on_document_removed
  \/ on_synchronized \/ on_initial_batch

Server == ServerPublishes \/ ServerRuns \/ \E method \in unsynced : ServerSyncs(method)

Next ==
  \/ UserCall \/ Progress \/ on_message \/ Server
  \/ \E id \in Id, after \in Documents \cup {NoDoc} : OtherClientWrites(id, after)

Spec == Init /\ [][Next]_vars

(* A callback returns however often it writes first, the event loop gets   *)
(* its turns between the calls of the user, and the server answers.        *)
FairSpec ==
  /\ Spec
  /\ \A d \in Depth : SF_vars(Progress /\ depth = d)
  /\ SF_vars(on_message)
  /\ WF_vars(Server)

-----------------------------------------------------------------------------
(* A document after the messages about it that are still under way. *)
AfterMethods(id) ==
  FoldLeft(LAMBDA doc, m : IF m.msg = "method" /\ m.id = id THEN ServerEdited(m.edit, doc)
                                                            ELSE doc,
           db[id], toServer)

Reached(id, q) ==
  FoldLeft(LAMBDA doc, m : IF m.msg = "data" /\ m.id = id THEN Edited(m.edit, doc) ELSE doc,
           store[id], q)

AfterData(id) == Reached(id, toClient)

Quiet == ready /\ depth = 0 /\ toServer = <<>> /\ toClient = <<>> /\ unsynced = {}

(***************************************************************************)
(* When nothing is under way, the collection holds what the server's does, *)
(* and listens to every document (README.md:20, "keep your data mirrored"; *)
(* ddp_collection.cpp:92-94, 155-196).                                     *)
(***************************************************************************)
Mirrors == Quiet => store = db /\ idle = {}

(***************************************************************************)
(* Between calls the copies differ by messages only: executing the methods *)
(* under way makes the server's copy of a document of this client the      *)
(* local one, and applying the messages under way makes the local copy of  *)
(* any other document the server's (ddp_collection.cpp:98-145, 155-196).   *)
(***************************************************************************)
CopiesDifferByMessages ==
  depth = 0 =>
    /\ ready => \A id \in Own : store[id] = AfterMethods(id)
    /\ published => \A id \in Id \ Own : db[id] = AfterData(id)

(***************************************************************************)
(* Every change of a document that the user makes, in callbacks as well,   *)
(* calls one method, and a change that the server tells of calls none      *)
(* (ddp_collection.cpp:34-77 and the blocks at 158, 170 and 191).          *)
(***************************************************************************)
ChangesPushedOnce == depth = 0 => methods = writes

(* When writing has ended, the two collections become equal for good.      *)
MirroredInTheEnd == <>[](store = db)

-----------------------------------------------------------------------------
(***************************************************************************)
(* The two collections keep the promise of Replica: the server takes over  *)
(* every version of an own document, one after the other, and the client   *)
(* goes through every version of the others' documents, in order           *)
(* (ddp_collection.cpp:30-77, 98-145, 155-196).  What is under way is what *)
(* each message to the client makes of the documents it follows.           *)
(***************************************************************************)
Phase == IF ready THEN "ready" ELSE IF published THEN "filling" ELSE "unpublished"

Followed == IF ready THEN Id \ Own ELSE Id

Underway ==
  [i \in 1 .. Len(toClient) |-> [id \in Followed |-> Reached(id, SubSeq(toClient, 1, i))]]

R == INSTANCE Replica WITH here <- store, there <- db, underway <- Underway, phase <- Phase

ImplementsReplica == R!Spec
=============================================================================
