---------------------------- MODULE LifetimesProofs ----------------------------
(***************************************************************************)
(* Theorems about the lifetimes of collections, live queries and sessions, *)
(* for any number of them.                                                 *)
(***************************************************************************)
EXTENDS Lifetimes, SequenceTheorems, TLAPS

Named == \A o \in 1 .. created : name[o] \in Name

TypeInv == TypeOK /\ Named

LEMMA InitTypeInv == Init => TypeInv
<1> SUFFICES ASSUME Init
             PROVE  TypeInv
  OBVIOUS
<1>1. created \in 0 .. MaxObjects /\ mirrors \subseteq 1 .. created /\ Named
  BY BoundsAssumption DEF Init, Named
<1>2. /\ name \in [Object -> Name \cup {NoName}] /\ tracked \in [Query -> 0 .. created]
      /\ contents \in [Name -> Version] /\ results \in [Query -> Version]
      /\ master \in [Name -> Version]
  BY BoundsAssumption DEF Init, Version, Absent
<1>3. toClient \in Seq(Message)
  BY DEF Init
<1>4. /\ alive = {} /\ held = {} /\ pinned = {} /\ waiting = {} /\ readied = {} /\ subs = {}
      /\ ddpHeld \in BOOLEAN /\ misused \in BOOLEAN
      /\ loop \in {"running", "stopped", "destroyed"}
  BY DEF Init
<1>5. QED
  BY <1>1, <1>2, <1>3, <1>4 DEF TypeInv, TypeOK

LEMMA ConstructTypes ==
  ASSUME TypeInv, NEW n \in Name, Construct(n)
  PROVE  /\ created' = created + 1 /\ created' \in 0 .. MaxObjects
         /\ name' \in [Object -> Name \cup {NoName}] /\ Named'
         /\ contents' \in [Name -> Version]
         /\ created + 1 \in Object
<1>1. created' = created + 1 /\ created' \in 0 .. MaxObjects
  BY BoundsAssumption DEF TypeInv, TypeOK, Construct
<1>2. created + 1 \in Object
  BY <1>1, BoundsAssumption DEF Object, TypeInv, TypeOK
<1>3. name' \in [Object -> Name \cup {NoName}] /\ Named'
  BY <1>1, <1>2, BoundsAssumption DEF TypeInv, TypeOK, Named, Construct, Object
<1>4. contents' \in [Name -> Version]
  BY BoundsAssumption DEF TypeInv, TypeOK, Construct, Opened, Version, Absent
<1>5. QED
  BY <1>1, <1>2, <1>3, <1>4

LEMMA ConstructKeepsTypes ==
  ASSUME TypeInv, NEW n \in Name, Construct(n),
         mirrors' \subseteq 1 .. created + 1, mirrors \subseteq mirrors',
         subs' \subseteq mirrors', master' \in [Name -> Version], (toClient \in Seq(Message))'
  PROVE  TypeInv'
<1>1. /\ created' = created + 1 /\ created' \in 0 .. MaxObjects
      /\ name' \in [Object -> Name \cup {NoName}] /\ Named'
      /\ contents' \in [Name -> Version]
      /\ created + 1 \in Object
  BY ConstructTypes
<1>2. tracked' \in [Query -> 0 .. created']
  BY <1>1, BoundsAssumption DEF TypeInv, TypeOK, Construct
<1>3. /\ alive' \subseteq (1 .. created') \cup {q \in Query : tracked'[q] # 0}
      /\ \A q \in alive' \cap Query : tracked'[q] \in alive'
      /\ held' \subseteq alive' /\ pinned' \subseteq alive' \cap Query
  <2>1. /\ tracked' = tracked /\ pinned' = pinned /\ created' = created + 1
        /\ alive' = alive \cup {created + 1} /\ held' = held \cup {created + 1}
        /\ created \in Nat
    BY BoundsAssumption DEF TypeInv, TypeOK, Construct
  <2>2. 1 .. created \subseteq 1 .. created' /\ created + 1 \in 1 .. created'
    BY <2>1
  <2>3. created + 1 \notin Query
    BY <2>1, NamesAssumption
  <2>4. QED
    BY <2>1, <2>2, <2>3 DEF TypeInv, TypeOK
<1>4. waiting' \subseteq mirrors' /\ readied' \subseteq mirrors'
  BY DEF TypeInv, TypeOK, Construct
<1>5. /\ ddpHeld' \in BOOLEAN /\ misused' \in BOOLEAN /\ results' \in [Query -> Version]
      /\ loop' \in {"running", "stopped", "destroyed"}
  BY DEF TypeInv, TypeOK, Construct
<1>6. QED
  BY <1>1, <1>2, <1>3, <1>4, <1>5 DEF TypeInv, TypeOK

LEMMA MessageTypes ==
  ASSUME TypeInv
  PROVE  /\ \A n \in Name, v \in Version, m \in {"added", "changed", "removed"} :
              [msg |-> m, name |-> n, version |-> v] \in Message
         /\ Absent \in Version
BY BoundsAssumption DEF Message, Version, Absent

LEMMA ConstructionTypes ==
  ASSUME TypeInv, NEW n \in Name, collection(n) \/ ddp_collection(n)
  PROVE  TypeInv'
<1>1. CASE collection(n)
  <2>1. mirrors' \subseteq 1 .. created + 1 /\ mirrors \subseteq mirrors' /\ subs' \subseteq mirrors'
        /\ master' \in [Name -> Version] /\ (toClient \in Seq(Message))'
    BY <1>1 DEF collection, TypeInv, TypeOK, remote, Message
  <2>2. QED
    BY <1>1, <2>1, ConstructKeepsTypes DEF collection
<1>2. CASE ddp_collection(n)
  <2>1. Construct(n) /\ created + 1 \in Object
    BY <1>2, ConstructTypes DEF ddp_collection
  <2>2. mirrors' \subseteq 1 .. created + 1 /\ mirrors \subseteq mirrors' /\ subs' \subseteq mirrors'
        /\ master' \in [Name -> Version]
    BY <1>2, <2>1 DEF ddp_collection, TypeInv, TypeOK, Object
  <2>3. (toClient \in Seq(Message))'
    <3> DEFINE batch == IF Subscribed(n) \/ master[n] = Absent THEN <<>>
                        ELSE <<[msg |-> "added", name |-> n, version |-> master[n]]>>
               ready == <<[msg |-> "ready", sub |-> created + 1]>>
               Message1 == Message'
    <3>1. Message \subseteq Message1
      BY <2>2 DEF Message
    <3>2. batch \in Seq(Message1)
      <4>1. [msg |-> "added", name |-> n, version |-> master[n]] \in Message1
        BY <3>1, MessageTypes DEF TypeInv, TypeOK
      <4>2. QED
        BY <4>1
    <3>3. ready \in Seq(Message1)
      <4>1. created + 1 \in mirrors'
        BY <1>2 DEF ddp_collection
      <4>2. [msg |-> "ready", sub |-> created + 1] \in Message1
        BY <4>1 DEF Message
      <4>3. QED
        BY <4>2
    <3>4. toClient' = toClient \o batch \o ready
      BY <1>2 DEF ddp_collection
    <3>5. toClient \in Seq(Message1)
      <4>1. toClient \in Seq(Message)
        BY DEF TypeInv, TypeOK
      <4>2. QED
        <5> HIDE DEF Message1
        <5>1. QED
          BY <3>1, <4>1, SeqMonotonic
    <3>6. toClient' \in Seq(Message1)
      <4> HIDE DEF batch, ready, Message1
      <4>1. QED
        BY <3>2, <3>3, <3>4, <3>5
    <3>7. QED
      BY <3>6
  <2>4. QED
    BY <2>1, <2>2, <2>3, ConstructKeepsTypes
<1>3. QED
  BY <1>1, <1>2

LEMMA TrackTypes ==
  ASSUME TypeInv, NEW o \in Object, NEW q \in Query,
         track(o, q)
  PROVE  TypeInv'
<1>1. o \in 1 .. created /\ o \in alive
  BY NamesAssumption, BoundsAssumption DEF track, TypeInv, TypeOK, Object
<1>2. tracked' \in [Query -> 0 .. created'] /\ tracked'[q] = o
  BY <1>1 DEF track, TypeInv, TypeOK, objects
<1>3. /\ alive' \subseteq (1 .. created') \cup {p \in Query : tracked'[p] # 0}
      /\ \A p \in alive' \cap Query : tracked'[p] \in alive'
      /\ held' \subseteq alive' /\ pinned' \subseteq alive' \cap Query
  <2>1. /\ created' = created /\ pinned' = pinned
        /\ alive' = alive \cup {q} /\ held' = held \cup {q}
        /\ \A p \in Query : tracked'[p] = IF p = q THEN o ELSE tracked[p]
        /\ o # 0
    BY <1>1 DEF track, TypeInv, TypeOK, objects
  <2>2. QED
    BY <1>1, <2>1 DEF TypeInv, TypeOK
<1>4. results' \in [Query -> Version]
  BY <1>1 DEF track, TypeInv, TypeOK, Named
<1>5. QED
  BY <1>2, <1>3, <1>4 DEF track, TypeInv, TypeOK, Named, objects, remote, Message

(* What a release destroys: nothing that users hold, and no collection     *)
(* of a live query that stays.                                             *)
LEMMA SurvivorsAreClosed ==
  ASSUME TypeInv, NEW x \in held
  PROVE  LET stay == alive \ (alive \ Surviving(held \ {x})) IN
         /\ stay = Surviving(held \ {x}) /\ stay \subseteq alive
         /\ held \ {x} \subseteq stay /\ pinned \subseteq stay
         /\ \A q \in stay \cap Query : tracked[q] \in stay
<1> DEFINE stay == Surviving(held \ {x})
<1>1. stay \subseteq alive
  BY DEF Surviving, AliveObjects
<1>2. alive \subseteq Object \cup Query
  BY BoundsAssumption DEF TypeInv, TypeOK, Object
<1>3. held \ {x} \subseteq stay /\ pinned \subseteq stay
  BY <1>2 DEF TypeInv, TypeOK, Surviving, AliveObjects
<1>4. ASSUME NEW q \in stay \cap Query
      PROVE  tracked[q] \in stay
  <2>1. q \in alive \cap Query /\ q \in (held \ {x}) \cup pinned
    BY <1>4, NamesAssumption DEF Surviving, AliveObjects, Object
  <2>2. tracked[q] \in alive /\ tracked[q] \in 0 .. created /\ tracked[q] # 0
    BY <2>1, NamesAssumption DEF TypeInv, TypeOK
  <2>3. tracked[q] \in AliveObjects
    BY <2>2, BoundsAssumption DEF AliveObjects, Object, TypeInv, TypeOK
  <2>4. QED
    BY <2>1, <2>3 DEF Surviving
<1>5. QED
  BY <1>1, <1>3, <1>4

(* Taking documents back is a message about collections that exist.        *)
LEMMA RemovedTypes ==
  ASSUME TypeInv, NEW gone \in SUBSET mirrors, Removed(gone)
  PROVE  subs' \subseteq mirrors /\ toClient' \in Seq(Message)
<1> DEFINE names == {name[o] : o \in gone} \ {name[s] : s \in subs \ gone}
           taken == [msg |-> "removed", version |-> Absent, name |-> CHOOSE n \in names : TRUE]
<1>1. subs' \subseteq mirrors
  BY DEF Removed, TypeInv, TypeOK
<1>2. names \subseteq Name
  BY DEF TypeInv, TypeOK, Named
<1>3. CASE \E n \in names : master[n] # Absent
  <2>1. (CHOOSE n \in names : TRUE) \in Name
    BY <1>2, <1>3
  <2>2. taken \in Message
    BY <2>1, MessageTypes DEF Message
  <2>3. toClient' = Append(toClient, taken)
    BY <1>3 DEF Removed
  <2>4. QED
    <3> HIDE DEF taken
    <3>1. QED
      BY <1>1, <2>2, <2>3 DEF TypeInv, TypeOK
<1>4. CASE ~ \E n \in names : master[n] # Absent
  BY <1>1, <1>4 DEF Removed, TypeInv, TypeOK
<1>5. QED
  BY <1>3, <1>4

LEMMA ReleaseTypes ==
  ASSUME TypeInv, NEW x, Release(x)
  PROVE  TypeInv'
<1> DEFINE dying == alive \ Surviving(held \ {x})
           gone == dying \cap mirrors
<1>1. x \in held /\ held' = held \ {x} /\ alive' = alive \ dying
  BY DEF Release
<1>2. /\ alive' = Surviving(held \ {x}) /\ alive' \subseteq alive
      /\ held' \subseteq alive' /\ pinned \subseteq alive'
      /\ \A q \in alive' \cap Query : tracked[q] \in alive'
  BY <1>1, SurvivorsAreClosed
<1>3. subs' \subseteq mirrors /\ toClient' \in Seq(Message)
  <2>1. CASE gone = {} \/ loop # "running"
    BY <2>1 DEF Release, TypeInv, TypeOK
  <2>2. CASE ~(gone = {} \/ loop # "running")
    BY <2>2, RemovedTypes DEF Release
  <2>3. QED
    BY <2>1, <2>2
<1>4. misused' \in BOOLEAN
  BY DEF Release
<1>5. /\ UNCHANGED <<created, mirrors, name, tracked, pinned, ddpHeld, contents, results>>
      /\ UNCHANGED <<waiting, readied, loop, master>>
  BY DEF Release, objects
<1>6. alive' \subseteq (1 .. created') \cup {q \in Query : tracked'[q] # 0}
  BY <1>2, <1>5 DEF TypeInv, TypeOK
<1>7. Named'
  BY <1>5 DEF TypeInv, Named
<1>8. QED
  <2> HIDE DEF dying, gone
  <2>1. QED
    BY <1>2, <1>3, <1>4, <1>5, <1>6, <1>7 DEF TypeInv, TypeOK, Message

(* Announcements write versions, whatever they call. *)
LEMMA AnnounceTypes ==
  ASSUME TypeInv, NEW n \in Name, NEW v \in Version, NEW announcing, Announce(n, v, announcing)
  PROVE  /\ contents' \in [Name -> Version] /\ results' \in [Query -> Version]
         /\ misused' \in BOOLEAN
BY DEF TypeInv, TypeOK, Announce

LEMMA WriteTypes ==
  ASSUME TypeInv, NEW o \in Object, NEW v \in Version, Write(o, v)
  PROVE  TypeInv'
<1>1. o \in alive /\ o \in 1 .. created
  <2>1. o \in held
    BY DEF Write
  <2>2. o \in alive
    BY <2>1 DEF TypeInv, TypeOK
  <2>3. o \in Nat
    BY BoundsAssumption DEF Object
  <2>4. QED
    BY <2>2, <2>3, NamesAssumption DEF TypeInv, TypeOK
<1>2. name[o] \in Name /\ Announce(name[o], v, {o})
  BY <1>1 DEF TypeInv, Named, Write
<1>3. /\ contents' \in [Name -> Version] /\ results' \in [Query -> Version]
      /\ misused' \in BOOLEAN
  BY <1>2, AnnounceTypes
<1>4. QED
  BY <1>3 DEF Write, TypeInv, TypeOK, Named, objects, pointers, remote, Message

LEMMA ServerTypes ==
  ASSUME TypeInv, NEW n \in Name, NEW v \in Version, ServerWrites(n, v)
  PROVE  TypeInv'
<1> DEFINE m == [msg |-> CASE master[n] = Absent -> "added"
                           [] v = Absent -> "removed"
                           [] OTHER -> "changed",
                 name |-> n, version |-> v]
<1>1. m \in Message
  BY DEF Message
<1>2. toClient' \in {toClient, Append(toClient, m)}
  BY DEF ServerWrites
<1>3. toClient' \in Seq(Message)
  <2>1. toClient \in Seq(Message)
    BY DEF TypeInv, TypeOK
  <2>2. Append(toClient, m) \in Seq(Message)
    <3> HIDE DEF m
    <3>1. QED
      BY <1>1, <2>1
  <2>3. QED
    BY <1>2, <2>1, <2>2
<1>4. master' \in [Name -> Version]
  BY DEF ServerWrites, TypeInv, TypeOK
<1>5. QED
  BY <1>3, <1>4 DEF ServerWrites, TypeInv, TypeOK, Named, objects, pointers, Message

LEMMA DocumentTypes ==
  ASSUME TypeInv, on_document
  PROVE  TypeInv'
<1> DEFINE m == Head(toClient)
<1>1. /\ m \in Message /\ m.msg \in {"added", "changed", "removed"}
      /\ toClient' \in Seq(Message)
  BY DEF on_document, Receive, TypeInv, TypeOK
<1>2. m.name \in Name /\ m.version \in Version
  BY <1>1 DEF Message
<1>3. /\ contents' \in [Name -> Version] /\ results' \in [Query -> Version]
      /\ misused' \in BOOLEAN
  <2>1. \/ UNCHANGED <<contents, results>> /\ misused' \in BOOLEAN
        \/ \E a : Announce(m.name, m.version, a)
    BY DEF on_document, TypeInv, TypeOK
  <2>2. QED
    BY <1>2, <2>1, AnnounceTypes DEF TypeInv, TypeOK
<1>4. UNCHANGED <<created, mirrors, name, tracked, alive, held, pinned, ddpHeld, loop>>
      /\ UNCHANGED <<subs, master, waiting, readied>>
  BY DEF on_document, Receive, objects, pointers
<1>5. QED
  <2> HIDE DEF m
  <2>1. QED
    BY <1>1, <1>3, <1>4 DEF TypeInv, TypeOK, Named, Message

LEMMA BatchTypes ==
  ASSUME TypeInv, on_initial_batch
  PROVE  TypeInv'
<1> DEFINE m == Head(toClient)
<1>1. m \in Message /\ m.msg = "ready" /\ toClient' \in Seq(Message)
  BY DEF on_initial_batch, Receive, TypeInv, TypeOK
<1>2. m.sub \in mirrors
  BY <1>1 DEF Message
<1>3. readied' \subseteq mirrors /\ waiting' \subseteq mirrors /\ misused' \in BOOLEAN
  BY <1>2 DEF on_initial_batch, TypeInv, TypeOK
<1>4. UNCHANGED <<created, mirrors, name, tracked, alive, held, pinned, ddpHeld, loop>>
      /\ UNCHANGED <<subs, master, contents, results>>
  BY DEF on_initial_batch, Receive, objects, pointers
<1>5. QED
  <2> HIDE DEF m
  <2>1. QED
    BY <1>1, <1>3, <1>4 DEF TypeInv, TypeOK, Named, Message

LEMMA TypesKept == TypeInv /\ [Next]_vars => TypeInv'
<1> SUFFICES ASSUME TypeInv, [Next]_vars
             PROVE  TypeInv'
  OBVIOUS
<1>1. CASE User
  <2>1. CASE \E n \in Name : collection(n) \/ ddp_collection(n)
    BY <2>1, ConstructionTypes
  <2>2. CASE \E o \in Object : on_ready(o)
    BY <2>2 DEF on_ready, TypeInv, TypeOK, Named, objects, pointers, remote, Message
  <2>3. CASE \E o \in Object : \E v \in Version : Write(o, v)
    BY <2>3, WriteTypes
  <2>4. CASE \E q \in Query : Pin(q) \/ \E o \in Object : track(o, q)
    <3>1. PICK q \in Query : Pin(q) \/ \E o \in Object : track(o, q)
      BY <2>4
    <3>2. CASE Pin(q)
      BY <3>2 DEF Pin, TypeInv, TypeOK, Named, objects, remote, Message
    <3>3. QED
      BY <3>1, <3>2, TrackTypes
  <2>5. CASE \E x \in Object \cup Query : Release(x)
    BY <2>5, ReleaseTypes
  <2>6. CASE ReleaseDdp
    BY <2>6 DEF ReleaseDdp, TypeInv, TypeOK, Named, objects, remote, Message
  <2>7. QED
    BY <1>1, <2>1, <2>2, <2>3, <2>4, <2>5, <2>6 DEF User
<1>2. CASE on_message
  BY <1>2, DocumentTypes, BatchTypes DEF on_message
<1>3. CASE Stop \/ DestroyLoop
  BY <1>3 DEF Stop, DestroyLoop, TypeInv, TypeOK, Named, objects, pointers, remote, Message
<1>4. CASE \E n \in Name, v \in Version : ServerWrites(n, v)
  BY <1>4, ServerTypes
<1>5. CASE UNCHANGED vars
  BY <1>5 DEF vars, TypeInv, TypeOK, Named, Message
<1>6. QED
  BY <1>1, <1>2, <1>3, <1>4, <1>5 DEF Next

(***************************************************************************)
(* Ids, names, pointers and messages keep their types, and whatever users  *)
(* do, what they hold lives and a live query that lives has a collection   *)
(* that does (live_query.hpp:38, ddp_collection.hpp:63, collection.cpp:61).*)
(***************************************************************************)
THEOREM TypesHold == Spec => []TypeOK
<1>1. TypeInv => TypeOK
  BY DEF TypeInv
<1>2. QED
  BY InitTypeInv, TypesKept, <1>1, PTL DEF Spec

-----------------------------------------------------------------------------
(* A constructor takes a number that nobody has, and that is no query.     *)
LEMMA ConstructIsFresh ==
  ASSUME TypeInv, NEW n \in Name, Construct(n)
  PROVE  /\ created + 1 \in Object \ Query /\ created + 1 \notin alive
         /\ created + 1 \notin mirrors /\ Slots(created + 1) = {}
         /\ AliveObjects' = AliveObjects \cup {created + 1}
<1>1. created \in Nat /\ created + 1 \in Object
  BY ConstructTypes, BoundsAssumption DEF TypeInv, TypeOK
<1>2. created + 1 \notin Query
  BY <1>1, NamesAssumption
<1>3. created + 1 \notin alive /\ created + 1 \notin mirrors
  BY <1>1, <1>2 DEF TypeInv, TypeOK
<1>4. Slots(created + 1) = {}
  BY <1>1 DEF Slots, TypeInv, TypeOK
<1>5. QED
  BY <1>1, <1>2, <1>3, <1>4 DEF Construct, AliveObjects

(* What users hold and is an object is one that lives. *)
LEMMA HeldObjects ==
  ASSUME TypeInv, NEW o \in Object, o \in held
  PROVE  o \in AliveObjects /\ o \in 1 .. created /\ name[o] \in Name
<1>1. o \in alive /\ o \in Nat
  BY BoundsAssumption DEF TypeInv, TypeOK, Object
<1>2. o \in 1 .. created
  BY <1>1, NamesAssumption DEF TypeInv, TypeOK
<1>3. QED
  BY <1>1, <1>2 DEF AliveObjects, TypeInv, Named

LEMMA MirrorsAreObjects ==
  ASSUME TypeInv
  PROVE  mirrors \subseteq Object /\ Query \cap Object = {} /\ Query \cap mirrors = {}
<1>1. created \in 0 .. MaxObjects /\ mirrors \subseteq 1 .. created
  BY DEF TypeInv, TypeOK
<1>2. mirrors \subseteq Object
  BY <1>1, BoundsAssumption DEF Object
<1>3. Query \cap Object = {}
  BY NamesAssumption, BoundsAssumption DEF Object
<1>4. QED
  BY <1>2, <1>3

(* What a constructor changes.                                             *)
LEMMA ConstructFrame ==
  ASSUME NEW n \in Name, collection(n) \/ ddp_collection(n)
  PROVE  /\ Construct(n) /\ alive' = alive \cup {created + 1} /\ held' = held \cup {created + 1}
         /\ UNCHANGED <<tracked, pinned, ddpHeld, results, loop, misused>>
         /\ \/ mirrors' = mirrors
            \/ mirrors' = mirrors \cup {created + 1} /\ loop = "running" /\ ddpHeld
BY DEF collection, ddp_collection, Construct

(* Actions that change nothing but who waits, what is under way, and the   *)
(* copy of the server.                                                     *)
Quiet == UNCHANGED <<created, mirrors, name, tracked, alive, held, pinned, contents, results, misused>>

LEMMA QuietActions ==
  ASSUME \/ \E o \in Object : on_ready(o)
         \/ \E n \in Name, v \in Version : ServerWrites(n, v)
         \/ UNCHANGED vars
  PROVE  Quiet /\ UNCHANGED <<ddpHeld, loop>>
BY DEF Quiet, on_ready, ServerWrites, objects, pointers, vars

-----------------------------------------------------------------------------
(* What users who drop live queries last, and leave the session alone      *)
(* while it runs, keep: slots in collections that live are of queries that *)
(* do, a session that runs has all its collections, and one that has none  *)
(* of its event loop left is gone.                                         *)
SlotsLive == \A o \in AliveObjects : Slots(o) \subseteq alive

SessionLives ==
  /\ loop = "running" => mirrors \subseteq alive /\ DdpAlive
  /\ loop = "destroyed" => ~DdpAlive

SafeInv == TypeInv /\ SlotsLive /\ SessionLives /\ ~misused

LEMMA ConstructSafe ==
  ASSUME SafeInv, NEW n \in Name, collection(n) \/ ddp_collection(n)
  PROVE  SafeInv'
<1>1. /\ Construct(n) /\ alive' = alive \cup {created + 1}
      /\ UNCHANGED <<tracked, ddpHeld, loop, misused>>
      /\ \/ mirrors' = mirrors
         \/ mirrors' = mirrors \cup {created + 1} /\ loop = "running" /\ ddpHeld
  BY ConstructFrame
<1>2. /\ created + 1 \notin mirrors /\ Slots(created + 1) = {}
      /\ AliveObjects' = AliveObjects \cup {created + 1}
  BY <1>1, ConstructIsFresh DEF SafeInv
<1>3. TypeInv'
  BY ConstructionTypes DEF SafeInv
<1>4. SlotsLive'
  BY <1>1, <1>2 DEF SafeInv, SlotsLive, Slots
<1>5. SessionLives'
  BY <1>1, <1>2 DEF SafeInv, SessionLives, DdpAlive, AliveMirrors
<1>6. QED
  BY <1>1, <1>3, <1>4, <1>5 DEF SafeInv

LEMMA TrackSafe ==
  ASSUME SafeInv, NEW o \in Object, NEW q \in Query, track(o, q)
  PROVE  SafeInv'
<1>1. TypeInv'
  BY TrackTypes DEF SafeInv
<1>2. /\ tracked[q] = 0 /\ alive' = alive \cup {q} /\ tracked' = [tracked EXCEPT ![q] = o]
      /\ UNCHANGED <<mirrors, ddpHeld, loop, misused>>
  BY DEF track, objects
<1>3. AliveObjects' = AliveObjects
  BY <1>2, NamesAssumption, BoundsAssumption DEF AliveObjects, Object
<1>4. \A p \in Object : Slots(p)' \subseteq Slots(p) \cup {q}
  BY <1>2 DEF Slots, SafeInv, TypeInv, TypeOK
<1>5. SlotsLive'
  BY <1>2, <1>3, <1>4 DEF SafeInv, SlotsLive, AliveObjects
<1>6. AliveMirrors' = AliveMirrors
  BY <1>2, MirrorsAreObjects DEF AliveMirrors, SafeInv
<1>7. SessionLives'
  BY <1>2, <1>6 DEF SafeInv, SessionLives, DdpAlive
<1>8. QED
  BY <1>1, <1>2, <1>5, <1>7 DEF SafeInv

LEMMA ReleaseSafe ==
  ASSUME SafeInv, "drop" \notin Liberty, "leave" \notin Liberty, NEW x, Release(x)
  PROVE  SafeInv'
<1> DEFINE dying == alive \ Surviving(held \ {x})
           gone == dying \cap mirrors
<1>1. /\ \A q \in dying \cap Query : tracked[q] \in dying
      /\ gone = {} \/ loop # "running"
      /\ alive' = alive \ dying
      /\ misused' = (gone # {} /\ loop = "destroyed")
      /\ UNCHANGED <<mirrors, tracked, ddpHeld, loop>>
  BY DEF Release, objects
<1>2. TypeInv'
  BY ReleaseTypes DEF SafeInv
<1> HIDE DEF dying
<1>3. SlotsLive'
  <2> SUFFICES ASSUME NEW o \in AliveObjects', NEW q \in Slots(o)'
               PROVE  q \in alive'
    BY DEF SlotsLive
  <2>1. o \in AliveObjects /\ o \notin dying /\ q \in Query /\ tracked[q] = o
    BY <1>1 DEF AliveObjects, Slots
  <2>2. q \in alive
    BY <2>1 DEF SafeInv, SlotsLive, Slots
  <2>3. q \notin dying
    BY <1>1, <2>1
  <2>4. QED
    BY <1>1, <2>2, <2>3
<1>4. SessionLives'
  BY <1>1 DEF SafeInv, SessionLives, DdpAlive, AliveMirrors
<1>5. ~misused'
  <2>1. CASE loop = "destroyed"
    <3>1. AliveMirrors = {}
      BY <2>1 DEF SafeInv, SessionLives, DdpAlive
    <3>2. dying \subseteq alive
      BY DEF dying
    <3>3. QED
      BY <1>1, <3>1, <3>2 DEF AliveMirrors
  <2>2. CASE loop # "destroyed"
    BY <1>1, <2>2
  <2>3. QED
    BY <2>1, <2>2
<1>6. QED
  BY <1>2, <1>3, <1>4, <1>5 DEF SafeInv

LEMMA WriteSafe ==
  ASSUME SafeInv, NEW o \in Object, NEW v \in Version, Write(o, v)
  PROVE  SafeInv'
<1>1. TypeInv'
  BY WriteTypes DEF SafeInv
<1>2. o \in held
  BY DEF Write
<1>3. o \in AliveObjects
  BY <1>2, HeldObjects DEF SafeInv
<1>4. misused' = \E p \in {o} : ~(Slots(p) \subseteq alive)
  BY DEF Write, Announce
<1>5. ~misused'
  BY <1>3, <1>4 DEF SafeInv, SlotsLive
<1>6. UNCHANGED <<mirrors, tracked, alive, ddpHeld, loop>>
  BY DEF Write, objects, pointers
<1>7. SlotsLive' /\ SessionLives'
  BY <1>6 DEF SafeInv, SlotsLive, SessionLives, Slots, AliveObjects, AliveMirrors, DdpAlive
<1>8. QED
  BY <1>1, <1>5, <1>7 DEF SafeInv

LEMMA MessageSafe ==
  ASSUME SafeInv, on_message
  PROVE  SafeInv'
<1>1. TypeInv'
  BY DocumentTypes, BatchTypes DEF SafeInv, on_message
<1>2. mirrors \subseteq alive /\ DdpAlive
  BY DEF SafeInv, SessionLives, on_message, on_document, on_initial_batch, Receive
<1>3. UNCHANGED <<mirrors, tracked, alive, ddpHeld, loop>>
  BY DEF on_message, on_document, on_initial_batch, Receive, objects, pointers
<1>4. SlotsLive' /\ SessionLives'
  BY <1>3 DEF SafeInv, SlotsLive, SessionLives, Slots, AliveObjects, AliveMirrors, DdpAlive
<1>5. ~misused'
  <2>1. CASE on_document
    <3> DEFINE named == {o \in AliveMirrors : name[o] = Head(toClient).name}
               first == {o \in named : \A p \in named : o <= p}
    <3>1. named \subseteq AliveObjects /\ first \subseteq named
      BY MirrorsAreObjects DEF AliveMirrors, AliveObjects, SafeInv
    <3>2. \/ misused' = misused
          \/ misused' = \E o \in named : ~(Slots(o) \subseteq alive)
          \/ misused' = \E o \in first : ~(Slots(o) \subseteq alive)
      BY <1>2, <2>1 DEF on_document, Announce
    <3>3. QED
      BY <3>1, <3>2 DEF SafeInv, SlotsLive
  <2>2. CASE on_initial_batch
    <3>1. Head(toClient) \in Message /\ Head(toClient).msg = "ready"
      BY <2>2 DEF on_initial_batch, Receive, SafeInv, TypeInv, TypeOK
    <3>2. Head(toClient).sub \in mirrors
      BY <3>1 DEF Message
    <3>3. QED
      BY <1>2, <2>2, <3>2 DEF on_initial_batch, SafeInv
  <2>3. QED
    BY <2>1, <2>2 DEF on_message
<1>6. QED
  BY <1>1, <1>4, <1>5 DEF SafeInv

LEMMA SafeKept ==
  ASSUME SafeInv, {"drop", "leave", "unwind"} \cap Liberty = {}, [Next]_vars
  PROVE  SafeInv'
<1>0. TypeInv'
  BY TypesKept DEF SafeInv
<1>1. CASE User
  <2>1. CASE \E n \in Name : collection(n) \/ ddp_collection(n)
    BY <2>1, ConstructSafe
  <2>2. CASE \E o \in Object, v \in Version : Write(o, v)
    BY <2>2, WriteSafe
  <2>3. CASE \E q \in Query, o \in Object : track(o, q)
    BY <2>3, TrackSafe
  <2>4. CASE \E x \in Object \cup Query : Release(x)
    BY <2>4, ReleaseSafe
  <2>5. CASE ReleaseDdp
    BY <1>0, <2>5 DEF ReleaseDdp, SafeInv, SlotsLive, SessionLives, DdpAlive, AliveMirrors,
                      AliveObjects, Slots, objects
  <2>6. CASE (\E q \in Query : Pin(q)) \/ (\E o \in Object : on_ready(o))
    BY <1>0, <2>6 DEF Pin, on_ready, SafeInv, SlotsLive, SessionLives, DdpAlive, AliveMirrors,
                      AliveObjects, Slots, objects, pointers
  <2>7. QED
    BY <1>1, <2>1, <2>2, <2>3, <2>4, <2>5, <2>6 DEF User
<1>2. CASE on_message
  BY <1>2, MessageSafe
<1>3. CASE Stop \/ DestroyLoop
  BY <1>0, <1>3 DEF Stop, DestroyLoop, SafeInv, SlotsLive, SessionLives, DdpAlive, AliveMirrors,
                    AliveObjects, Slots, objects, pointers
<1>4. CASE (\E n \in Name, v \in Version : ServerWrites(n, v)) \/ UNCHANGED vars
  BY <1>0, <1>4, QuietActions DEF Quiet, SafeInv, SlotsLive, SessionLives, DdpAlive,
                                  AliveMirrors, AliveObjects, Slots
<1>5. QED
  BY <1>1, <1>2, <1>3, <1>4 DEF Next

(***************************************************************************)
(* Nobody calls or uses what was destroyed, if users drop live queries no  *)
(* earlier than their collection and keep the session while it runs: no    *)
(* destructor disconnects the slots that hold a bare `this'                *)
(* (live_query.cpp:33-41, ddp_collection.cpp:29-32, 81-92, ddp.cpp:33-34). *)
(***************************************************************************)
THEOREM DisciplineIsSafe ==
  ASSUME {"drop", "leave", "unwind"} \cap Liberty = {}
  PROVE  Spec => []NothingDeadIsUsed
<1>1. Init => SafeInv
  <2> SUFFICES ASSUME Init
               PROVE  SafeInv
    OBVIOUS
  <2>1. TypeInv
    BY InitTypeInv
  <2>2. SlotsLive /\ SessionLives /\ ~misused
    BY DEF Init, SlotsLive, SessionLives, AliveObjects, DdpAlive
  <2>3. QED
    BY <2>1, <2>2 DEF SafeInv
<1>2. SafeInv /\ [Next]_vars => SafeInv'
  BY SafeKept
<1>3. SafeInv => NothingDeadIsUsed
  BY DEF SafeInv, NothingDeadIsUsed
<1>4. QED
  BY <1>1, <1>2, <1>3, PTL DEF Spec

-----------------------------------------------------------------------------
(* One object for each name: then whoever writes a document announces it   *)
(* to every live query of its collection.                                  *)
NoTwins == \A o, p \in AliveObjects : name[o] = name[p] => o = p

FollowInv == TypeInv /\ NoTwins /\ FollowsStore

(* The collection of a live query. *)
LEMMA TrackedObjects ==
  ASSUME TypeInv
  PROVE  \A q \in alive \cap Query :
           /\ tracked[q] \in AliveObjects /\ tracked[q] \in 1 .. created
           /\ name[tracked[q]] \in Name
<1> SUFFICES ASSUME NEW q \in alive \cap Query
             PROVE  /\ tracked[q] \in AliveObjects /\ tracked[q] \in 1 .. created
                    /\ name[tracked[q]] \in Name
  OBVIOUS
<1>1. tracked[q] \in alive /\ tracked[q] \in 0 .. created /\ created \in 0 .. MaxObjects
  BY DEF TypeInv, TypeOK
<1>2. q \notin 1 .. created
  BY NamesAssumption
<1>3. tracked[q] # 0
  BY <1>2 DEF TypeInv, TypeOK
<1>4. tracked[q] \in 1 .. created /\ tracked[q] \in Object
  BY <1>1, <1>3, BoundsAssumption DEF Object
<1>5. QED
  BY <1>1, <1>4 DEF AliveObjects, TypeInv, Named

(* An announcement that reaches every living object of the name reaches    *)
(* the live queries that it concerns, and no others.                       *)
LEMMA AnnounceFollows ==
  ASSUME FollowInv, NEW n \in Name, NEW v \in Version, NEW announcing,
         Announce(n, v, announcing),
         {o \in AliveObjects : name[o] = n} \subseteq announcing,
         \A o \in announcing : name[o] = n,
         UNCHANGED <<alive, tracked, name>>
  PROVE  FollowsStore'
<1> SUFFICES ASSUME NEW q \in alive \cap Query
             PROVE  results'[q] = contents'[name[tracked[q]]]
  BY DEF FollowsStore
<1>1. tracked[q] \in AliveObjects /\ name[tracked[q]] \in Name
  BY TrackedObjects DEF FollowInv
<1>2. results[q] = contents[name[tracked[q]]]
  BY DEF FollowInv, FollowsStore
<1>3. CASE name[tracked[q]] = n
  BY <1>1, <1>3 DEF Announce, FollowInv, TypeInv, TypeOK
<1>4. CASE name[tracked[q]] # n
  BY <1>1, <1>2, <1>4 DEF Announce, FollowInv, TypeInv, TypeOK
<1>5. QED
  BY <1>3, <1>4

LEMMA ConstructFollows ==
  ASSUME FollowInv, "twins" \notin Liberty, NEW n \in Name, collection(n) \/ ddp_collection(n)
  PROVE  NoTwins' /\ FollowsStore'
<1>1. /\ Construct(n) /\ alive' = alive \cup {created + 1}
      /\ UNCHANGED <<tracked, results>>
  BY ConstructFrame
<1>2. /\ created + 1 \in Object \ Query /\ created + 1 \notin alive
      /\ AliveObjects' = AliveObjects \cup {created + 1}
  BY <1>1, ConstructIsFresh DEF FollowInv
<1>3. /\ \A o \in AliveObjects : name[o] # n
      /\ name' = [name EXCEPT ![created + 1] = n] /\ contents' = Opened
  BY <1>1 DEF Construct
<1>4. \A o \in AliveObjects : name'[o] = name[o]
  BY <1>2, <1>3 DEF AliveObjects, FollowInv, TypeInv, TypeOK
<1>5. name'[created + 1] = n
  BY <1>2, <1>3 DEF FollowInv, TypeInv, TypeOK
<1>6. NoTwins'
  BY <1>2, <1>3, <1>4, <1>5 DEF NoTwins, FollowInv
<1>7. FollowsStore'
  <2> SUFFICES ASSUME NEW q \in alive' \cap Query
               PROVE  results'[q] = contents'[name'[tracked'[q]]]
    BY DEF FollowsStore
  <2>1. q \in alive \cap Query
    BY <1>1, <1>2
  <2>2. tracked[q] \in AliveObjects
    BY <2>1, TrackedObjects DEF FollowInv
  <2>3. contents' = contents
    BY <1>3, <2>2 DEF Opened
  <2>4. QED
    BY <1>1, <1>4, <2>1, <2>2, <2>3 DEF FollowInv, FollowsStore
<1>8. QED
  BY <1>6, <1>7

LEMMA TrackFollows ==
  ASSUME FollowInv, NEW o \in Object, NEW q \in Query, track(o, q)
  PROVE  NoTwins' /\ FollowsStore'
<1>1. /\ o \in held /\ tracked' = [tracked EXCEPT ![q] = o] /\ alive' = alive \cup {q}
      /\ results' = [results EXCEPT ![q] = contents[name[o]]]
      /\ UNCHANGED <<name, contents>>
  BY DEF track, objects
<1>2. AliveObjects' = AliveObjects
  BY <1>1, MirrorsAreObjects DEF AliveObjects, FollowInv
<1>3. NoTwins'
  BY <1>1, <1>2 DEF NoTwins, FollowInv
<1>4. FollowsStore'
  BY <1>1 DEF FollowInv, FollowsStore, TypeInv, TypeOK
<1>5. QED
  BY <1>3, <1>4

LEMMA WriteFollows ==
  ASSUME FollowInv, NEW o \in Object, NEW v \in Version, Write(o, v)
  PROVE  NoTwins' /\ FollowsStore'
<1>1. o \in held /\ Announce(name[o], v, {o}) /\ UNCHANGED <<alive, tracked, name>>
  BY DEF Write, objects, pointers
<1>2. o \in AliveObjects /\ name[o] \in Name
  BY <1>1, HeldObjects DEF FollowInv
<1>3. {p \in AliveObjects : name[p] = name[o]} \subseteq {o}
  BY <1>2 DEF FollowInv, NoTwins
<1>4. FollowsStore'
  BY <1>1, <1>2, <1>3, AnnounceFollows
<1>5. QED
  BY <1>1, <1>4 DEF FollowInv, NoTwins, AliveObjects

LEMMA MessageFollows ==
  ASSUME FollowInv, on_message
  PROVE  NoTwins' /\ FollowsStore'
<1>1. UNCHANGED <<alive, tracked, name>>
  BY DEF on_message, on_document, on_initial_batch, Receive, objects, pointers
<1>2. NoTwins'
  BY <1>1 DEF FollowInv, NoTwins, AliveObjects
<1>3. CASE UNCHANGED <<contents, results>>
  BY <1>1, <1>2, <1>3 DEF FollowInv, FollowsStore
<1>4. CASE ~UNCHANGED <<contents, results>>
  <2> DEFINE m == Head(toClient)
             named == {o \in AliveMirrors : name[o] = m.name}
             first == {o \in named : \A p \in named : o <= p}
  <2>1. on_document
    BY <1>4 DEF on_message, on_initial_batch
  <2>2. m \in Message /\ m.msg \in {"added", "changed", "removed"}
    BY <2>1 DEF on_document, Receive, FollowInv, TypeInv, TypeOK
  <2>3. m.name \in Name /\ m.version \in Version
    BY <2>2 DEF Message
  <2>4. /\ named # {}
        /\ Announce(m.name, m.version, named) \/ Announce(m.name, m.version, first)
    BY <1>4, <2>1 DEF on_document
  <2>5. PICK o \in named : TRUE
    BY <2>4
  <2>6. named \subseteq AliveObjects /\ o \in Nat
    BY MirrorsAreObjects, BoundsAssumption DEF AliveMirrors, AliveObjects, FollowInv, Object
  <2>7. named = {o} /\ {p \in AliveObjects : name[p] = m.name} \subseteq {o}
    BY <2>5, <2>6 DEF FollowInv, NoTwins
  <2>8. first = {o}
    BY <2>6, <2>7
  <2>9. Announce(m.name, m.version, {o}) /\ name[o] = m.name
    BY <2>4, <2>5, <2>7, <2>8
  <2>10. FollowsStore'
    <3> HIDE DEF m, named, first
    <3>1. QED
      BY <1>1, <2>3, <2>7, <2>9, AnnounceFollows
  <2>11. QED
    BY <1>2, <2>10
<1>5. QED
  BY <1>3, <1>4

LEMMA FollowKept ==
  ASSUME FollowInv, "twins" \notin Liberty, [Next]_vars
  PROVE  FollowInv'
<1>0. TypeInv'
  BY TypesKept DEF FollowInv
<1>1. CASE User
  <2>1. CASE \E n \in Name : collection(n) \/ ddp_collection(n)
    BY <1>0, <2>1, ConstructFollows DEF FollowInv
  <2>2. CASE \E o \in Object, v \in Version : Write(o, v)
    BY <1>0, <2>2, WriteFollows DEF FollowInv
  <2>3. CASE \E q \in Query, o \in Object : track(o, q)
    BY <1>0, <2>3, TrackFollows DEF FollowInv
  <2>4. CASE \E x \in Object \cup Query : Release(x)
    <3>1. alive' \subseteq alive /\ UNCHANGED <<name, tracked, contents, results>>
      BY <2>4 DEF Release, objects
    <3>2. QED
      BY <1>0, <3>1 DEF FollowInv, NoTwins, FollowsStore, AliveObjects
  <2>5. CASE ReleaseDdp
    BY <1>0, <2>5 DEF ReleaseDdp, FollowInv, NoTwins, FollowsStore, AliveObjects, objects
  <2>6. CASE (\E q \in Query : Pin(q)) \/ (\E o \in Object : on_ready(o))
    BY <1>0, <2>6 DEF Pin, on_ready, FollowInv, NoTwins, FollowsStore, AliveObjects, objects, pointers
  <2>7. QED
    BY <1>1, <2>1, <2>2, <2>3, <2>4, <2>5, <2>6 DEF User
<1>2. CASE on_message
  BY <1>0, <1>2, MessageFollows DEF FollowInv
<1>3. CASE Stop \/ DestroyLoop
  BY <1>0, <1>3 DEF Stop, DestroyLoop, FollowInv, NoTwins, FollowsStore, AliveObjects, objects, pointers
<1>4. CASE (\E n \in Name, v \in Version : ServerWrites(n, v)) \/ UNCHANGED vars
  BY <1>0, <1>4, QuietActions DEF Quiet, FollowInv, NoTwins, FollowsStore, AliveObjects
<1>5. QED
  BY <1>1, <1>2, <1>3, <1>4 DEF Next

(***************************************************************************)
(* A live query that lives shows its collection in the shared database, if *)
(* users have one object of a name at a time, whatever else they do        *)
(* (collection.cpp:61-84, live_query.cpp:31-38).                           *)
(***************************************************************************)
THEOREM LiveQueriesFollow ==
  ASSUME "twins" \notin Liberty
  PROVE  Spec => []FollowsStore
<1>1. Init => FollowInv
  <2> SUFFICES ASSUME Init
               PROVE  FollowInv
    OBVIOUS
  <2>1. TypeInv
    BY InitTypeInv
  <2>2. NoTwins /\ FollowsStore
    BY DEF Init, NoTwins, FollowsStore, AliveObjects
  <2>3. QED
    BY <2>1, <2>2 DEF FollowInv
<1>2. FollowInv /\ [Next]_vars => FollowInv'
  BY FollowKept
<1>3. FollowInv => FollowsStore
  BY DEF FollowInv
<1>4. QED
  BY <1>1, <1>2, <1>3, PTL DEF Spec

-----------------------------------------------------------------------------
(* Nothing lives but what users, callbacks or live queries hold.           *)
Owned ==
  /\ \A q \in alive \cap Query : q \in held \cup pinned
  /\ \A o \in AliveObjects : o \in held \/ \E q \in alive \cap Query : tracked[q] = o

OwnedInv == TypeInv /\ Owned

LEMMA OwnedKept ==
  ASSUME OwnedInv, [Next]_vars
  PROVE  OwnedInv'
<1>0. TypeInv'
  BY TypesKept DEF OwnedInv
<1>1. CASE \E n \in Name : collection(n) \/ ddp_collection(n)
  <2>1. PICK n \in Name : collection(n) \/ ddp_collection(n)
    BY <1>1
  <2>2. /\ Construct(n) /\ alive' = alive \cup {created + 1} /\ held' = held \cup {created + 1}
        /\ UNCHANGED <<tracked, pinned>>
    BY <2>1, ConstructFrame
  <2>3. created + 1 \notin Query /\ AliveObjects' = AliveObjects \cup {created + 1}
    BY <2>2, ConstructIsFresh DEF OwnedInv
  <2>4. QED
    BY <1>0, <2>2, <2>3 DEF OwnedInv, Owned
<1>2. CASE \E q \in Query, o \in Object : track(o, q)
  <2>1. PICK q \in Query, o \in Object : track(o, q)
    BY <1>2
  <2>2. /\ tracked[q] = 0 /\ o \in held
        /\ tracked' = [tracked EXCEPT ![q] = o] /\ alive' = alive \cup {q}
        /\ held' = held \cup {q} /\ pinned' = pinned
    BY <2>1 DEF track
  <2>3. AliveObjects' = AliveObjects /\ 0 \notin Object
    BY <2>2, MirrorsAreObjects, BoundsAssumption DEF AliveObjects, OwnedInv, Object
  <2>4. q \notin alive
    BY <2>2, <2>3, TrackedObjects DEF OwnedInv, AliveObjects
  <2>5. \A p \in alive \cap Query : tracked'[p] = tracked[p]
    BY <2>2, <2>4 DEF OwnedInv, TypeInv, TypeOK
  <2>6. QED
    BY <1>0, <2>2, <2>3, <2>5 DEF OwnedInv, Owned
<1>3. CASE \E x \in Object \cup Query : Release(x)
  <2>1. PICK x : Release(x)
    BY <1>3
  <2>2. x \in held /\ held' = held \ {x} /\ UNCHANGED <<tracked, pinned>>
        /\ alive' = alive \ (alive \ Surviving(held \ {x}))
    BY <2>1 DEF Release
  <2>3. alive' = Surviving(held')
    BY <2>2, SurvivorsAreClosed DEF OwnedInv
  <2>4. \A q \in alive' \cap Query : q \in held' \cup pinned'
    BY <2>2, <2>3, MirrorsAreObjects DEF Surviving, AliveObjects, OwnedInv
  <2>5. \A o \in AliveObjects' : o \in held' \/ \E q \in alive' \cap Query : tracked'[q] = o
    BY <2>2, <2>3, MirrorsAreObjects DEF Surviving, AliveObjects, OwnedInv
  <2>6. QED
    BY <1>0, <2>4, <2>5 DEF OwnedInv, Owned
<1>4. CASE \E q \in Query : Pin(q)
  BY <1>0, <1>4 DEF Pin, OwnedInv, Owned, AliveObjects, objects
<1>5. CASE UNCHANGED <<tracked, alive, held, pinned>>
  BY <1>0, <1>5 DEF OwnedInv, Owned, AliveObjects
<1>6. CASE Stop \/ DestroyLoop \/ on_message \/ ReleaseDdp \/ (\E o \in Object, v \in Version : Write(o, v))
  BY <1>5, <1>6 DEF Stop, DestroyLoop, on_message, on_document, on_initial_batch, Receive, Write,
                    ReleaseDdp, pointers
<1>7. CASE \/ \E n \in Name, v \in Version : ServerWrites(n, v)
           \/ \E o \in Object : on_ready(o)
           \/ UNCHANGED vars
  BY <1>5, <1>7, QuietActions DEF Quiet
<1>8. QED
  BY <1>1, <1>2, <1>3, <1>4, <1>6, <1>7 DEF Next, User

(***************************************************************************)
(* Whatever users do, an object constructed when they hold nothing, nor a  *)
(* live query holds itself, finds an empty database (collection.cpp:72-78).*)
(***************************************************************************)
THEOREM FreshStarts == Spec => FreshStart
<1>1. Init => OwnedInv
  <2> SUFFICES ASSUME Init
               PROVE  OwnedInv
    OBVIOUS
  <2>1. TypeInv
    BY InitTypeInv
  <2>2. Owned
    BY DEF Init, Owned, AliveObjects
  <2>3. QED
    BY <2>1, <2>2 DEF OwnedInv
<1>2. OwnedInv /\ [Next]_vars => OwnedInv'
  BY OwnedKept
<1>3. OwnedInv /\ [Next]_vars =>
        [created' > created /\ held = {} /\ pinned = {} =>
           contents' = [n \in Name |-> Absent]]_vars
  <2> SUFFICES ASSUME OwnedInv, [Next]_vars, created' > created, held = {}, pinned = {}
               PROVE  contents' = [n \in Name |-> Absent]
    OBVIOUS
  <2>1. created' # created
    BY DEF OwnedInv, TypeInv, TypeOK
  <2>2. \E n \in Name : Construct(n)
    BY <2>1 DEF Next, User, collection, ddp_collection, track, Pin, on_ready, Write, Release, ReleaseDdp,
                on_message, on_document, on_initial_batch, Receive, Stop, DestroyLoop,
                ServerWrites, objects, vars
  <2>3. AliveObjects = {}
    BY DEF OwnedInv, Owned
  <2>4. QED
    BY <2>2, <2>3 DEF Construct, Opened
<1>4. QED
  BY <1>1, <1>2, <1>3, PTL DEF Spec, FreshStart
=============================================================================
