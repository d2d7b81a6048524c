------------------------------- MODULE Lifetimes -------------------------------
(***************************************************************************)
(* Who keeps whom alive, and who still calls the dead.                     *)
(*                                                                         *)
(* Collections share one EJDB database as long as any of them lives; the   *)
(* next one truncates it.  A live query holds its collection, and a        *)
(* ddp_collection its ddp, by shared pointers.  The other way round there  *)
(* are slots bound to a bare `this' that no destructor disconnects: those  *)
(* of a live query in its collection, those of a ddp_collection in its     *)
(* ddp, those of a ddp in its connection.                                  *)
(*                                                                         *)
(* One document stands for the contents of a collection, a version for     *)
(* the document.  Collections that are mirrored change by messages only;   *)
(* module DdpCollection has the writes of their users.  The server is      *)
(* external, and executes subscriptions at once.                           *)
(***************************************************************************)
EXTENDS Naturals, Sequences

CONSTANTS
  Name,        \* names of collections
  Query,       \* live queries
  MaxObjects,  \* bound on the collection objects that are constructed
  MaxVersion,  \* bound on the versions of a document
  MaxQueue,    \* bound on the messages of the server under way
  NoName,      \* what an object not constructed yet is called
  Liberty      \* what users may do

ASSUME BoundsAssumption ==
  MaxObjects \in Nat /\ MaxVersion \in Nat \ {0} /\ MaxQueue \in Nat

ASSUME NamesAssumption == NoName \notin Name /\ Query \cap Nat = {}

(***************************************************************************)
(* "twins": two objects of one name live at once; "drop": a live query is  *)
(* destroyed before its collection; "leave": a ddp_collection or a ddp is  *)
(* destroyed while the event loop runs; "unwind": the event loop is        *)
(* destroyed before them; "late": on_ready is called once they are ready.  *)
(***************************************************************************)
ASSUME LibertyAssumption == Liberty \subseteq {"twins", "drop", "leave", "unwind", "late"}

Object == 1 .. MaxObjects   \* in the order of their construction
Version == 0 .. MaxVersion
Absent == 0

VARIABLES
  created,   \* how many objects were constructed
  mirrors,   \* those that are ddp_collections
  name,      \* their names
  tracked,   \* the collection of each live query, live_query::_coll; 0 for none
  alive,     \* objects and live queries that are not destroyed
  held,      \* those that users hold pointers to
  pinned,    \* live queries in a callback of their own, as in README.md:142
  ddpHeld,   \* users hold the ddp
  contents,  \* the database: the document of each collection
  results,   \* live_query::_results
  waiting,   \* objects with a slot in _ready_sig
  readied,   \* objects whose _ready_sig was emitted
  loop,      \* the event loop, io_service
  subs,      \* the subscriptions the server knows
  master,    \* the documents of the server
  toClient,  \* messages to the client
  misused    \* something destroyed was called or used

vars == <<created, mirrors, name, tracked, alive, held, pinned, ddpHeld, contents,
          results, waiting, readied, loop, subs, master, toClient, misused>>
objects == <<created, mirrors, name>>
pointers == <<tracked, alive, held, pinned, ddpHeld>>
remote == <<subs, master, toClient>>

Message == [msg : {"ready"}, sub : mirrors]
             \cup [msg : {"added", "changed", "removed"}, name : Name, version : Version]

(* What is alive was constructed; what users hold is alive, and so is the  *)
(* collection of every live query that is (live_query.hpp:38).             *)
TypeOK ==
  /\ created \in 0 .. MaxObjects /\ mirrors \subseteq 1 .. created
  /\ name \in [Object -> Name \cup {NoName}] /\ tracked \in [Query -> 0 .. created]
  /\ alive \subseteq (1 .. created) \cup {q \in Query : tracked[q] # 0}
  /\ \A q \in alive \cap Query : tracked[q] \in alive
  /\ held \subseteq alive /\ pinned \subseteq alive \cap Query
  /\ ddpHeld \in BOOLEAN /\ misused \in BOOLEAN
  /\ contents \in [Name -> Version] /\ results \in [Query -> Version]
  /\ waiting \subseteq mirrors /\ readied \subseteq mirrors /\ subs \subseteq mirrors
  /\ loop \in {"running", "stopped", "destroyed"}
  /\ master \in [Name -> Version]
  /\ toClient \in Seq(Message)

Init ==
  /\ created = 0 /\ mirrors = {}
  /\ name = [o \in Object |-> NoName]
  /\ tracked = [q \in Query |-> 0]
  /\ alive = {} /\ held = {} /\ pinned = {}
  /\ ddpHeld = TRUE
  /\ contents = [n \in Name |-> Absent]
  /\ results = [q \in Query |-> Absent]
  /\ waiting = {} /\ readied = {}
  /\ loop = "running"
  /\ subs = {}
  /\ master \in [Name -> {Absent, 1}]
  /\ toClient = <<>>
  /\ misused = FALSE

-----------------------------------------------------------------------------
AliveObjects == alive \cap Object
AliveMirrors == alive \cap mirrors

(* Mutant of DdpAlive: a ddp_collection does not hold its ddp. *)
DdpAlive_Held == ddpHeld

(* ddp_collection::_ddp is a shared pointer. *)
DdpAlive == ddpHeld \/ AliveMirrors # {}

(* The slots in the signals of an object: nothing disconnects them.        *)
Slots(o) == {q \in Query : tracked[q] = o}

(* Mutant of Opened: every collection opens, and truncates, the database.  *)
Opened_Each == [n \in Name |-> Absent]

(* Mutant of Opened: the database is opened without truncating it. *)
Opened_Kept == contents

(* The database as the next collection finds it: a weak pointer of the     *)
(* file shares it, and the one that finds none opens it truncated.         *)
Opened == IF AliveObjects = {} THEN [n \in Name |-> Absent] ELSE contents

Construct(n) ==
  /\ ~misused
  /\ created < MaxObjects
  /\ "twins" \in Liberty \/ \A o \in AliveObjects : name[o] # n
  /\ created' = created + 1
  /\ name' = [name EXCEPT ![created + 1] = n]
  /\ alive' = alive \cup {created + 1}
  /\ held' = held \cup {created + 1}
  /\ contents' = Opened
  /\ UNCHANGED <<tracked, pinned, ddpHeld, results, waiting, readied, loop, misused>>

collection(n) == Construct(n) /\ UNCHANGED <<mirrors, remote>>

Subscribed(n) == \E s \in subs : name[s] = n

(* It subscribes: the server sends what no other subscription has sent.    *)
ddp_collection(n) ==
  /\ loop = "running" /\ ddpHeld
  /\ Construct(n)
  /\ mirrors' = mirrors \cup {created + 1}
  /\ subs' = subs \cup {created + 1}
  /\ toClient' = toClient
       \o (IF Subscribed(n) \/ master[n] = Absent THEN <<>>
           ELSE <<[msg |-> "added", name |-> n, version |-> master[n]]>>)
       \o <<[msg |-> "ready", sub |-> created + 1]>>
  /\ UNCHANGED master

(* collection::track, and the constructor of live_query. *)
track(o, q) ==
  /\ ~misused
  /\ o \in held /\ tracked[q] = 0
  /\ tracked' = [tracked EXCEPT ![q] = o]
  /\ alive' = alive \cup {q}
  /\ held' = held \cup {q}
  /\ results' = [results EXCEPT ![q] = contents[name[o]]]
  /\ UNCHANGED <<objects, pinned, ddpHeld, contents, waiting, readied, loop, remote, misused>>

(* live_query::on_changed with a callback that holds the query. *)
Pin(q) ==
  /\ ~misused
  /\ q \in held
  /\ pinned' = pinned \cup {q}
  /\ UNCHANGED <<objects, tracked, alive, held, ddpHeld, contents, results, waiting,
                 readied, loop, remote, misused>>

on_ready(o) ==
  /\ ~misused
  /\ o \in held \cap mirrors /\ o \notin waiting
  /\ "late" \in Liberty \/ o \notin readied
  /\ waiting' = waiting \cup {o}
  /\ UNCHANGED <<objects, pointers, contents, results, readied, loop, remote, misused>>

-----------------------------------------------------------------------------
(* Mutant of Surviving: a live query does not hold its collection. *)
Surviving_Unheld(pointed) == {x \in alive : x \in pointed \cup pinned}

(* What is alive when users hold no more than `pointed'. *)
Surviving(pointed) ==
  LET queries == {q \in alive \cap Query : q \in pointed \cup pinned}
  IN  queries \cup {o \in AliveObjects : o \in pointed \/ \E q \in queries : tracked[q] = o}

(* The destructor of ddp_collection unsubscribes; the server takes back    *)
(* the documents that no other subscription wants.                         *)
Removed(gone) ==
  LET names == {name[o] : o \in gone} \ {name[s] : s \in subs \ gone}
  IN  /\ subs' = subs \ gone
      /\ toClient' = IF \E n \in names : master[n] # Absent
                     THEN Append(toClient, [msg |-> "removed", version |-> Absent,
                                            name |-> CHOOSE n \in names : TRUE])
                     ELSE toClient

(* A pointer is dropped, and what it alone kept alive is destroyed: at     *)
(* most a live query and its collection.                                   *)
Release(x) ==
  LET dying == alive \ Surviving(held \ {x})
      gone == dying \cap mirrors
  IN  /\ ~misused
      /\ x \in held
      /\ "drop" \in Liberty \/ \A q \in dying \cap Query : tracked[q] \in dying
      /\ "leave" \in Liberty \/ gone = {} \/ loop # "running"
      /\ held' = held \ {x}
      /\ alive' = alive \ dying
      /\ IF gone = {} \/ loop # "running" THEN UNCHANGED <<subs, toClient>> ELSE Removed(gone)
      /\ misused' = (gone # {} /\ loop = "destroyed")
      /\ UNCHANGED <<objects, tracked, pinned, ddpHeld, contents, results, waiting,
                     readied, loop, master>>

ReleaseDdp ==
  /\ ~misused
  /\ ddpHeld
  /\ "leave" \in Liberty \/ AliveMirrors # {} \/ loop # "running"
  /\ ddpHeld' = FALSE
  /\ UNCHANGED <<objects, tracked, alive, held, pinned, contents, results, waiting,
                 readied, loop, remote, misused>>

(* Everything closes, or an exception leaves io_service::run. *)
Stop ==
  /\ ~misused
  /\ loop = "running"
  /\ loop' = "stopped"
  /\ UNCHANGED <<objects, pointers, contents, results, waiting, readied, remote, misused>>

DestroyLoop ==
  /\ ~misused
  /\ loop = "stopped"
  /\ "unwind" \in Liberty \/ ~DdpAlive
  /\ loop' = "destroyed"
  /\ UNCHANGED <<objects, pointers, contents, results, waiting, readied, remote, misused>>

-----------------------------------------------------------------------------
(* The contents of a collection change, and its objects in `announcing'    *)
(* tell the live queries in their signals.                                 *)
Announce(n, version, announcing) ==
  /\ contents' = [contents EXCEPT ![n] = version]
  /\ results' = [q \in Query |-> IF tracked[q] \in announcing THEN version ELSE results[q]]
  /\ misused' = \E o \in announcing : ~(Slots(o) \subseteq alive)

(* insert, update and remove of a collection that is no mirror. *)
Write(o, version) ==
  /\ ~misused
  /\ o \in held \ mirrors
  /\ version # contents[name[o]]
  /\ Announce(name[o], version, {o})
  /\ UNCHANGED <<objects, pointers, waiting, readied, loop, remote>>

ServerWrites(n, version) ==
  /\ ~misused
  /\ loop = "running" /\ Len(toClient) < MaxQueue
  /\ version # master[n]
  /\ master' = [master EXCEPT ![n] = version]
  /\ toClient' = IF ~Subscribed(n) THEN toClient
                 ELSE Append(toClient, [msg |-> CASE master[n] = Absent -> "added"
                                                  [] version = Absent -> "removed"
                                                  [] OTHER -> "changed",
                                        name |-> n, version |-> version])
  /\ UNCHANGED <<objects, pointers, contents, results, waiting, readied, loop, subs, misused>>

Receive(messages) ==
  /\ ~misused
  /\ loop = "running"
  /\ toClient # <<>> /\ Head(toClient).msg \in messages
  /\ toClient' = Tail(toClient)
  /\ UNCHANGED <<objects, pointers, loop, subs, master>>

(* Every ddp_collection there ever was has slots in the ddp, which compare *)
(* the name first.  Several of one name write the document in turn: each   *)
(* stores an addition, of a change only the first finds anything to do.    *)
on_document ==
  LET m == Head(toClient)
      named == {o \in AliveMirrors : name[o] = m.name}
      first == {o \in named : \A p \in named : o <= p}
  IN  /\ Receive({"added", "changed", "removed"})
      /\ IF ~DdpAlive \/ ~(mirrors \subseteq alive)
         THEN misused' = TRUE /\ UNCHANGED <<contents, results>>
         ELSE IF \/ m.msg # "added" /\ contents[m.name] \in {Absent, m.version}
                 \/ named = {}
         THEN UNCHANGED <<contents, results, misused>>
         ELSE Announce(m.name, m.version, IF m.msg = "added" THEN named ELSE first)
      /\ UNCHANGED <<waiting, readied>>

(* Mutant of on_initial_batch: the slots of on_ready are not called. *)
on_initial_batch_Silent ==
  /\ Receive({"ready"})
  /\ readied' = readied \cup {Head(toClient).sub}
  /\ UNCHANGED <<contents, results, waiting, misused>>

(* The slot of the subscription; those of on_ready run and disconnect.     *)
on_initial_batch ==
  LET o == Head(toClient).sub
  IN  /\ Receive({"ready"})
      /\ IF DdpAlive /\ o \in alive
         THEN /\ readied' = readied \cup {o}
              /\ waiting' = waiting \ {o}
              /\ UNCHANGED misused
         ELSE misused' = TRUE /\ UNCHANGED <<readied, waiting>>
      /\ UNCHANGED <<contents, results>>

-----------------------------------------------------------------------------
User ==
  \/ \E n \in Name : collection(n) \/ ddp_collection(n)
  \/ \E o \in Object : on_ready(o) \/ \E version \in Version : Write(o, version)
  \/ \E q \in Query : Pin(q) \/ \E o \in Object : track(o, q)
  \/ \E x \in Object \cup Query : Release(x)
  \/ ReleaseDdp

on_message == on_document \/ on_initial_batch

Next ==
  \/ User \/ on_message
  \/ Stop \/ DestroyLoop
  \/ \E n \in Name, version \in Version : ServerWrites(n, version)

Spec == Init /\ [][Next]_vars

(* The event loop runs the handlers of the messages that arrive. *)
FairSpec == Spec /\ WF_vars(on_message)

-----------------------------------------------------------------------------
(***************************************************************************)
(* Nothing destroyed is called or used, if users destroy a live query no   *)
(* earlier than its collection, and what belongs to the session after the  *)
(* event loop stopped and before it is destroyed; the ddp, and a           *)
(* collection with live queries, they may drop at any time                 *)
(* (live_query.cpp:33-41, ddp_collection.cpp:29-32, 81-92, ddp.cpp:33-34). *)
(***************************************************************************)
NothingDeadIsUsed == ~misused

(***************************************************************************)
(* A live query that lives shows its collection in the shared database,    *)
(* whoever else opens, closes or drops collections meanwhile               *)
(* (collection.cpp:61-84, live_query.cpp:31-38).                           *)
(***************************************************************************)
FollowsStore ==
  \A q \in alive \cap Query : results[q] = contents[name[tracked[q]]]

(***************************************************************************)
(* A program that dropped its collections and live queries, and has none   *)
(* that keeps itself alive, starts with an empty database: every test of   *)
(* tests/minimongo.cpp counts on it (collection.cpp:72-78).                *)
(***************************************************************************)
FreshStart ==
  [][created' > created /\ held = {} /\ pinned = {} =>
       contents' = [n \in Name |-> Absent]]_vars

(***************************************************************************)
(* Callbacks given to on_ready run, if they are given before the message   *)
(* of the server arrives and the loop keeps running                        *)
(* (ddp_collection.cpp:79-85, 147-153).                                    *)
(***************************************************************************)
ReadySlotsRun ==
  \A o \in Object : o \in waiting ~> o \notin waiting \/ loop # "running"
=============================================================================
