--------------------------- MODULE ReplicationProofs ---------------------------
(***************************************************************************)
(* Theorems about the collection that mirrors one of the server, for any   *)
(* finite set of documents, any number of writes and of messages under way *)
(* and any depth of nested writes: its types and the methods it calls,     *)
(* whatever happens; that it mirrors, as long as nobody takes a liberty    *)
(* (see module DdpCollection); and what is left when connections are lost  *)
(* (Reconnection).                                                         *)
(*                                                                         *)
(* The properties fold over a queue: see module FoldProofs for the path    *)
(* that a document takes through it.                                       *)
(***************************************************************************)
EXTENDS Reconnection, DocumentsProofs, FoldProofs, FunctionTheorems, FiniteSetTheorems

(* The announcements a frame has still to make or is making.               *)
Events(d) == frames[d].todo \cup ({frames[d].event} \ {NoEvent})

(* Every announcement is of a change, and every method under way has been  *)
(* called.                                                                 *)
Sent(n) == [msg : {"sub"}] \cup [msg : {"method"}, method : 1 .. n, id : Id, edit : Edit]
Real == \A d \in Depth : \A e \in Events(d) : e.before # e.after

TypeInv == TypeOK /\ toServer \in Seq(Sent(methods)) /\ Real

-----------------------------------------------------------------------------
(* Sequences and finite sets. *)
LEMMA FunctionIsSeq ==
  ASSUME NEW S, NEW n \in Nat, NEW f \in [1 .. n -> S]
  PROVE  f \in Seq(S) /\ Len(f) = n
<1>1. f \in Seq(S)
  BY SeqDef
<1>2. Len(f) \in Nat /\ DOMAIN f = 1 .. Len(f) /\ DOMAIN f = 1 .. n
  BY <1>1, LenProperties
<1>3. QED
  BY <1>1, <1>2

LEMMA SetToSeqType ==
  ASSUME NEW S, IsFiniteSet(S)
  PROVE  SetToSeq(S) \in Seq(S)
<1> DEFINE n == Cardinality(S)
<1>1. n \in Nat /\ \E f \in [1 .. n -> S] : IsInjective(f)
  <2>1. n \in Nat /\ ExistsBijection(1 .. n, S)
    BY FS_CardinalityType
  <2>2. QED
    BY <2>1 DEF ExistsBijection, Bijection, Injection
<1>2. SetToSeq(S) \in [1 .. n -> S]
  BY <1>1 DEF SetToSeq
<1>3. QED
  BY <1>1, <1>2, FunctionIsSeq

(* The values of a function with a finite domain. *)
LEMMA FiniteImage ==
  ASSUME NEW F, IsFiniteSet(DOMAIN F), F = [x \in DOMAIN F |-> F[x]]
  PROVE  IsFiniteSet({F[x] : x \in DOMAIN F})
<1> DEFINE T == {F[x] : x \in DOMAIN F}
<1>1. F \in Surjection(DOMAIN F, T)
  BY DEF Surjection
<1>2. QED
  BY <1>1, FS_Surjection

-----------------------------------------------------------------------------
(* Documents, edits and announcements. *)
LEMMA EditedType ==
  ASSUME NEW edit \in Edit, NEW doc \in Stored
  PROVE  Edited(edit, doc) \in Stored /\ ServerEdited(edit, doc) \in Stored
<1>1. CASE edit.op = "insert"
  BY <1>1 DEF Edit, Insertion, Change, Removal, Edited, ServerEdited, Stored
<1>2. CASE edit.op = "remove"
  BY <1>2 DEF Edit, Insertion, Change, Removal, Edited, ServerEdited, Stored
<1>3. CASE edit.op = "update"
  <2>1. edit.modifier \in Modifier
    BY <1>3 DEF Edit, Insertion, Change, Removal
  <2>2. doc # NoDoc => Apply(edit.modifier, doc) \in Doc
    BY <2>1, ApplyType DEF Stored
  <2>3. QED
    BY <1>3, <2>2 DEF Edited, ServerEdited, Stored
<1>4. QED
  BY <1>1, <1>2, <1>3 DEF Edit, Insertion, Change, Removal

LEMMA DifferenceIsEdit ==
  ASSUME NEW a \in Stored, NEW b \in Stored, a # b
  PROVE  Difference(a, b) \in Edit
<1>1. CASE a = NoDoc
  BY <1>1, NoDocAssumption DEF Difference, Edit, Insertion, Stored
<1>2. CASE a # NoDoc /\ b = NoDoc
  BY <1>2 DEF Difference, Edit, Removal
<1>3. CASE a # NoDoc /\ b # NoDoc
  <2>1. a \in Doc /\ b \in Doc
    BY <1>3 DEF Stored
  <2>2. AsModifier(modified_fields(a, b)) \in Modifier
    BY <2>1, DifferenceType
  <2>3. QED
    BY <1>3, <2>2 DEF Difference, Edit, Change
<1>4. QED
  BY <1>1, <1>2, <1>3

(* The kinds of announcements. *)
LEMMA Kinds ==
  ASSUME NEW e \in Event, e.before # e.after
  PROVE  /\ KindOf(e) \in Kind
         /\ e.before = NoDoc => KindOf(e) = "insert"
         /\ e.after = NoDoc => KindOf(e) = "remove"
         /\ e.before # NoDoc /\ e.after # NoDoc => KindOf(e) = "update"
BY DEF KindOf, Kind

(* What a write announces is finite, and about documents that change.      *)
LEMMA ChangesType ==
  ASSUME TypeOK, NEW ids \in SUBSET Id, NEW new \in [ids -> Stored]
  PROVE  /\ Changes(new) \in SUBSET Event /\ IsFiniteSet(Changes(new))
         /\ \A e \in Changes(new) : /\ e.id \in ids /\ e.before # e.after
                                    /\ e.before = store[e.id] /\ e.after = new[e.id]
         /\ \A e1, e2 \in Changes(new) : e1.id = e2.id => e1 = e2
<1> DEFINE C == {i \in DOMAIN new : new[i] # store[i]}
           F == [id \in C |-> [id |-> id, before |-> store[id], after |-> new[id]]]
<1>1. C \subseteq ids /\ C \subseteq Id /\ DOMAIN F = C
  OBVIOUS
<1>2. \A id \in C : store[id] \in Stored /\ new[id] \in Stored
  BY <1>1 DEF TypeOK
<1>3. Changes(new) = {F[id] : id \in C}
  BY DEF Changes
<1>4. IsFiniteSet(C)
  BY <1>1, FiniteAssumption, FS_Subset
<1>5. IsFiniteSet(Changes(new))
  <2>1. IsFiniteSet({F[id] : id \in DOMAIN F})
    <3>1. F = [id \in DOMAIN F |-> F[id]]
      BY <1>1
    <3> HIDE DEF F, C
    <3>2. QED
      BY <1>1, <1>4, <3>1, FiniteImage
  <2>2. QED
    BY <1>1, <1>3, <2>1
<1>6. Changes(new) \in SUBSET Event
  BY <1>1, <1>2, <1>3 DEF Event
<1>7. QED
  BY <1>1, <1>3, <1>5, <1>6

-----------------------------------------------------------------------------
LEMMA Numbers ==
  ASSUME TypeOK
  PROVE  /\ depth \in Nat /\ methods \in Nat /\ writes \in Nat /\ foreign \in Nat
         /\ depth < MaxDepth => depth + 1 \in Depth
         /\ depth > 0 => depth \in Depth
         /\ 1 \in Depth
BY BoundsAssumption DEF TypeOK, Depth

LEMMA IdleFrameType == IdleFrame \in Frame
BY DEF IdleFrame, Started, Frame

LEMMA StartedType ==
  ASSUME NEW blocks \in SUBSET Kind, NEW connects \in SUBSET Kind, NEW events \in SUBSET Event
  PROVE  Started(blocks, connects, events) \in Frame
BY DEF Started, Frame

LEMMA FrameTypes ==
  ASSUME TypeOK, NEW d \in Depth
  PROVE  /\ frames[d] \in Frame /\ frames[d].todo \subseteq Event
         /\ frames[d].event \in Event \cup {NoEvent}
         /\ frames[d].blocks \subseteq Kind /\ frames[d].connects \subseteq Kind
BY DEF TypeOK, Frame

LEMMA InitTypes == Init => TypeInv
<1> SUFFICES ASSUME Init
             PROVE  TypeInv
  OBVIOUS
<1>1. toServer \in Seq(ToServer) /\ toServer \in Seq(Sent(methods))
  <2>1. [msg |-> "sub"] \in ToServer /\ [msg |-> "sub"] \in Sent(methods)
    BY DEF ToServer, Sent
  <2>2. QED
    BY <2>1 DEF Init
<1>2. store \in [Id -> Stored] /\ db \in [Id -> Stored]
  BY InputsAssumption DEF Init, Stored
<1>3. frames \in [Depth -> Frame]
  BY IdleFrameType DEF Init
<1>4. /\ ready \in BOOLEAN /\ published \in BOOLEAN /\ toClient \in Seq(ToClient)
  <2>1. ready \in BOOLEAN /\ published \in BOOLEAN
    BY Zenon DEF Init
  <2>2. QED
    BY <2>1 DEF Init
<1>5. /\ idle \subseteq (1 .. methods) \X Id /\ unsynced \subseteq 1 .. methods
      /\ \A p1, p2 \in idle : p1[1] = p2[1] \/ p1[2] = p2[2] => p1 = p2
      /\ methods \in Nat /\ writes \in 0 .. MaxWrites /\ foreign \in 0 .. MaxForeign
      /\ depth \in 0 .. MaxDepth
  BY BoundsAssumption DEF Init
<1>6. Real
  BY DEF Init, Real, Events, IdleFrame, Started
<1>7. QED
  BY <1>1, <1>2, <1>3, <1>4, <1>5, <1>6 DEF TypeInv, TypeOK

(* A write of the user. *)
LEMMA WriteTypes ==
  ASSUME TypeInv, NEW connects \in SUBSET Kind, NEW events \in SUBSET Event,
         IsFiniteSet(events), \A e \in events : e.before # e.after,
         Write(connects, events)
  PROVE  TypeInv'
<1>1. /\ depth + 1 \in Depth /\ depth' = depth + 1 /\ depth' \in 0 .. MaxDepth
  BY Numbers, BoundsAssumption DEF TypeInv, Write, Depth
<1>2. store' \in [Id -> Stored]
  <2>1. ASSUME NEW id \in Id
        PROVE  (IF \E e \in events : e.id = id
                THEN (CHOOSE e \in events : e.id = id).after ELSE store[id]) \in Stored
    <3>1. \A e \in events : e.after \in Stored
      BY DEF Event
    <3>2. store[id] \in Stored
      BY DEF TypeInv, TypeOK
    <3>3. QED
      BY <3>1, <3>2
  <2>2. QED
    BY <2>1 DEF Write
<1>3. writes' \in 0 .. MaxWrites
  <2>1. Cardinality(events) \in Nat
    BY FS_CardinalityType
  <2>2. QED
    BY <2>1, BoundsAssumption, Numbers DEF TypeInv, Write
<1>4. frames' = [frames EXCEPT ![depth + 1] = Started({}, connects, events)]
  BY DEF Write
<1>5. Started({}, connects, events) \in Frame
  BY StartedType
<1>6. frames' \in [Depth -> Frame]
  BY <1>4, <1>5 DEF TypeInv, TypeOK
<1>7. Real'
  BY <1>1, <1>4 DEF TypeInv, TypeOK, Real, Events, Started
<1>8. QED
  BY <1>1, <1>2, <1>3, <1>6, <1>7 DEF Write, server, TypeInv, TypeOK

(* What a call of the user changes: documents of this client, each once.   *)
OwnChanges(events) ==
  /\ \A e \in events : e.id \in Own /\ e.before = store[e.id] /\ e.before # e.after
  /\ \A e1, e2 \in events : e1.id = e2.id => e1 = e2

(* The calls of the user: which pushes they connect, and what they change. *)
LEMMA UserCallWrites ==
  ASSUME TypeOK, UserCall
  PROVE  \E connects \in SUBSET Kind, events \in SUBSET Event :
           /\ Write(connects, events) /\ IsFiniteSet(events) /\ OwnChanges(events)
           /\ \/ /\ connects = IF Blocked("insert") THEN {"insert"} ELSE {}
                 /\ \A e \in events : KindOf(e) = "insert"
              \/ /\ connects = IF Blocked("update") THEN {"update"} ELSE {}
                 /\ \A e \in events : KindOf(e) = "update"
              \/ /\ connects = IF Blocked("insert") \/ Blocked("update") THEN {"insert"} ELSE {}
                 /\ "upsert" \in Liberty \/ ~Blocked("update")
                 /\ \/ \A e \in events : KindOf(e) = "update"
                    \/ \A e \in events : KindOf(e) = "insert"
              \/ /\ connects = IF \E kind \in Kind : Blocked(kind) THEN {"remove"} ELSE {}
                 /\ "remove" \in Liberty \/ connects = {} \/ Blocked("remove")
                 /\ \A e \in events : KindOf(e) = "remove"
<1>1. /\ Own \subseteq Id /\ Documents \subseteq Doc /\ Modifiers \subseteq Modifier
      /\ \A doc \in Documents : doc \in Stored /\ doc # NoDoc
  BY InputsAssumption, NoDocAssumption DEF Stored
<1>2. ASSUME NEW id \in Own, NEW doc \in Documents, store[id] = NoDoc
      PROVE  LET E == {[id |-> id, before |-> NoDoc, after |-> doc]}
             IN  /\ E \in SUBSET Event /\ IsFiniteSet(E) /\ OwnChanges(E)
                 /\ \A e \in E : KindOf(e) = "insert"
  <2> DEFINE e == [id |-> id, before |-> NoDoc, after |-> doc]
  <2>1. e \in Event /\ e.before # e.after /\ e.before = NoDoc
    BY <1>1 DEF Event, Stored
  <2>2. KindOf(e) = "insert"
    BY <2>1, Kinds
  <2>3. IsFiniteSet({e})
    BY FS_Singleton
  <2>4. OwnChanges({e})
    BY <1>2, <2>1 DEF OwnChanges
  <2>5. QED
    BY <2>1, <2>2, <2>3, <2>4
<1>3. ASSUME NEW ids \in Existing, NEW m \in Modifier
      PROVE  LET E == Changes(Modified(ids, m))
             IN  /\ E \in SUBSET Event /\ IsFiniteSet(E) /\ OwnChanges(E)
                 /\ \A e \in E : KindOf(e) = "update"
  <2>1. ids \in SUBSET Id /\ \A id \in ids : store[id] \in Doc
    BY <1>1 DEF Existing, TypeOK, Stored
  <2>2. Modified(ids, m) \in [ids -> Stored] /\ \A id \in ids : Modified(ids, m)[id] # NoDoc
    BY <2>1, ApplyType, NoDocAssumption DEF Modified, Stored
  <2>3. /\ Changes(Modified(ids, m)) \in SUBSET Event /\ IsFiniteSet(Changes(Modified(ids, m)))
        /\ \A e \in Changes(Modified(ids, m)) :
             e.before # e.after /\ e.before # NoDoc /\ e.after # NoDoc
    BY <2>1, <2>2, ChangesType, NoDocAssumption
  <2>4. OwnChanges(Changes(Modified(ids, m)))
    <3>1. \A id \in ids : id \in Own
      BY DEF Existing
    <3>2. QED
      BY <2>1, <2>2, <3>1, ChangesType DEF OwnChanges
  <2>5. QED
    BY <2>3, <2>4, Kinds
<1>4. CASE \E id \in Own, doc \in Documents : insert(id, doc)
  <2>1. PICK id \in Own, doc \in Documents : insert(id, doc)
    BY <1>4
  <2> DEFINE connects == IF Blocked("insert") THEN {"insert"} ELSE {}
             events == {[id |-> id, before |-> NoDoc, after |-> doc]}
  <2>2. connects \in SUBSET Kind
    BY DEF Kind
  <2>3. /\ events \in SUBSET Event /\ IsFiniteSet(events) /\ OwnChanges(events)
        /\ \A e \in events : KindOf(e) = "insert"
    BY <1>2, <2>1 DEF insert
  <2>4. Write(connects, events)
    BY <2>1 DEF insert
  <2>5. connects = IF Blocked("insert") THEN {"insert"} ELSE {}
    OBVIOUS
  <2> HIDE DEF connects, events
  <2>6. QED
    BY <2>2, <2>3, <2>4, <2>5
<1>5. CASE \E ids \in Existing, m \in Modifiers : update(ids, m)
  <2>1. PICK ids \in Existing, m \in Modifiers : update(ids, m)
    BY <1>5
  <2> DEFINE connects == IF Blocked("update") THEN {"update"} ELSE {}
             events == Changes(Modified(ids, m))
  <2>2. connects \in SUBSET Kind
    BY DEF Kind
  <2>3. /\ events \in SUBSET Event /\ IsFiniteSet(events) /\ OwnChanges(events)
        /\ \A e \in events : KindOf(e) = "update"
    BY <1>1, <1>3
  <2>4. Write(connects, events)
    BY <2>1 DEF update
  <2>5. connects = IF Blocked("update") THEN {"update"} ELSE {}
    OBVIOUS
  <2> HIDE DEF connects, events
  <2>6. QED
    BY <2>2, <2>3, <2>4, <2>5
<1>6. CASE \E ids \in Existing \cup {{}}, id \in Own, doc \in Documents : upsert(ids, id, doc)
  <2>1. PICK ids \in Existing \cup {{}}, id \in Own, doc \in Documents : upsert(ids, id, doc)
    BY <1>6
  <2> DEFINE connects == IF Blocked("insert") \/ Blocked("update") THEN {"insert"} ELSE {}
             changes == Changes(Modified(ids, [set |-> doc, unset |-> {}]))
             insertion == {[id |-> id, before |-> NoDoc, after |-> doc]}
  <2>2. connects \in SUBSET Kind
    BY DEF Kind
  <2>3. /\ "upsert" \in Liberty \/ ~Blocked("update")
        /\ (ids # {} /\ Write(connects, changes)) \/ (store[id] = NoDoc /\ Write(connects, insertion))
    BY <2>1 DEF upsert
  <2>4. CASE ids # {} /\ Write(connects, changes)
    <3>1. ids \in Existing /\ [set |-> doc, unset |-> {}] \in Modifier
      BY <1>1, <2>4 DEF Modifier
    <3>2. /\ changes \in SUBSET Event /\ IsFiniteSet(changes) /\ OwnChanges(changes)
          /\ \A e \in changes : KindOf(e) = "update"
      BY <1>3, <3>1
    <3>3. connects = IF Blocked("insert") \/ Blocked("update") THEN {"insert"} ELSE {}
      OBVIOUS
    <3> HIDE DEF connects, changes
    <3>4. QED
      BY <2>2, <2>3, <2>4, <3>2, <3>3
  <2>5. CASE store[id] = NoDoc /\ Write(connects, insertion)
    <3>1. /\ insertion \in SUBSET Event /\ IsFiniteSet(insertion) /\ OwnChanges(insertion)
          /\ \A e \in insertion : KindOf(e) = "insert"
      BY <1>2, <2>5
    <3>2. connects = IF Blocked("insert") \/ Blocked("update") THEN {"insert"} ELSE {}
      OBVIOUS
    <3> HIDE DEF connects, insertion
    <3>3. QED
      BY <2>2, <2>3, <2>5, <3>1, <3>2
  <2>6. QED
    BY <2>3, <2>4, <2>5
<1>7. CASE \E ids \in Existing : remove(ids)
  <2>1. PICK ids \in Existing : remove(ids)
    BY <1>7
  <2> DEFINE connects == IF \E kind \in Kind : Blocked(kind) THEN {"remove"} ELSE {}
             new == [id \in ids |-> NoDoc]
             events == Changes(new)
  <2>2. connects \in SUBSET Kind
    BY DEF Kind
  <2>3. /\ "remove" \in Liberty \/ connects = {} \/ Blocked("remove")
        /\ Write(connects, events)
    BY <2>1 DEF remove
  <2>4. ids \in SUBSET Id /\ ids \in SUBSET Own /\ new \in [ids -> Stored]
    BY <1>1 DEF Existing, Stored
  <2>5. \A id \in ids : new[id] = NoDoc
    OBVIOUS
  <2>6. /\ events \in SUBSET Event /\ IsFiniteSet(events) /\ OwnChanges(events)
        /\ \A e \in events : e.before # e.after /\ e.after = NoDoc
    <3> HIDE DEF new
    <3>1. QED
      BY <2>4, <2>5, ChangesType DEF OwnChanges
  <2>7. connects = IF \E kind \in Kind : Blocked(kind) THEN {"remove"} ELSE {}
    OBVIOUS
  <2> HIDE DEF connects, events
  <2>8. QED
    BY <2>2, <2>3, <2>6, <2>7, Kinds
<1>8. QED
  BY <1>4, <1>5, <1>6, <1>7 DEF UserCall

-----------------------------------------------------------------------------
(* Methods are called: their ids are new.                                  *)
LEMMA PushTypes ==
  ASSUME TypeInv, NEW e \in Event, e.before # e.after, NEW n \in Nat, Push(e, n)
  PROVE  /\ methods' = methods + n /\ methods' \in Nat
         /\ toServer' \in Seq(ToServer) /\ toServer' \in Seq(Sent(methods'))
         /\ idle' \subseteq (1 .. methods') \X Id
         /\ \A p1, p2 \in idle' : p1[1] = p2[1] \/ p1[2] = p2[2] => p1 = p2
<1> DEFINE method(i) == [msg |-> "method", method |-> methods + i, id |-> e.id,
                         edit |-> Difference(e.before, e.after)]
           calls == [i \in 1 .. n |-> method(i)]
<1>1. /\ toServer' = toServer \o calls /\ methods' = methods + n
      /\ idle' = IF n = 0 \/ Pending(e.id) THEN idle ELSE idle \cup {<<methods + 1, e.id>>}
  BY DEF Push
<1>2. /\ methods \in Nat /\ toServer \in Seq(ToServer) /\ toServer \in Seq(Sent(methods))
      /\ idle \subseteq (1 .. methods) \X Id
      /\ \A p1, p2 \in idle : p1[1] = p2[1] \/ p1[2] = p2[2] => p1 = p2
  BY DEF TypeInv, TypeOK
<1>3. e.id \in Id /\ Difference(e.before, e.after) \in Edit
  <2>1. e.id \in Id /\ e.before \in Stored /\ e.after \in Stored
    BY DEF Event
  <2>2. QED
    BY <2>1, DifferenceIsEdit
<1>4. \A i \in 1 .. n : method(i) \in ToServer /\ method(i) \in Sent(methods + n)
  BY <1>2, <1>3 DEF ToServer, Sent
<1>5. calls \in Seq(ToServer) /\ calls \in Seq(Sent(methods + n))
  <2>1. calls \in [1 .. n -> ToServer] /\ calls \in [1 .. n -> Sent(methods + n)]
    BY <1>4
  <2> HIDE DEF calls
  <2>2. QED
    BY <2>1, FunctionIsSeq
<1>6. toServer \in Seq(Sent(methods + n))
  <2>1. Sent(methods) \subseteq Sent(methods + n)
    BY <1>2 DEF Sent
  <2>2. QED
    BY <1>2, <2>1, SeqMonotonic
<1> HIDE DEF calls
<1>7. toServer' \in Seq(ToServer) /\ toServer' \in Seq(Sent(methods'))
  <2>1. toServer \o calls \in Seq(ToServer)
    BY <1>2, <1>5, ConcatProperties
  <2>2. toServer \o calls \in Seq(Sent(methods + n))
    BY <1>5, <1>6, ConcatProperties
  <2>3. QED
    BY <1>1, <2>1, <2>2
<1>8. idle' \subseteq (1 .. methods') \X Id
  <2>1. (1 .. methods) \subseteq 1 .. methods'
    BY <1>1, <1>2
  <2>2. CASE n = 0 \/ Pending(e.id)
    BY <1>1, <1>2, <2>1, <2>2
  <2>3. CASE n # 0 /\ ~Pending(e.id)
    <3>1. <<methods + 1, e.id>> \in (1 .. methods') \X Id
      BY <1>1, <1>2, <1>3, <2>3
    <3>2. QED
      BY <1>1, <1>2, <2>1, <2>3, <3>1
  <2>4. QED
    BY <2>2, <2>3
<1>9. ASSUME NEW p1 \in idle', NEW p2 \in idle', p1[1] = p2[1] \/ p1[2] = p2[2]
      PROVE  p1 = p2
  <2>1. CASE p1 \in idle /\ p2 \in idle
    BY <1>2, <1>9, <2>1
  <2>2. CASE ~(p1 \in idle /\ p2 \in idle)
    <3>1. ~Pending(e.id) /\ idle' = idle \cup {<<methods + 1, e.id>>}
      BY <1>1, <2>2
    <3>2. \A p \in idle : p[1] # methods + 1 /\ p[2] # e.id
      BY <1>2, <3>1 DEF Pending
    <3>3. QED
      BY <1>9, <2>2, <3>1, <3>2
  <2>3. QED
    BY <2>1, <2>2
<1>10. QED
  BY <1>1, <1>2, <1>7, <1>8, <1>9

(* How many methods the slots of an announcement call.                     *)
LEMMA PushCounts ==
  ASSUME TypeOK, NEW kind
  PROVE  /\ StandingPush(kind) \in 0 .. 1
         /\ IsFiniteSet(Connected(kind)) /\ Cardinality(Connected(kind)) \in Nat
<1>1. StandingPush(kind) \in 0 .. 1
  BY DEF StandingPush
<1>2. IsFiniteSet(Depth) /\ Connected(kind) \in SUBSET Depth
  BY BoundsAssumption, FS_Interval DEF Depth, Connected
<1>3. QED
  BY <1>1, <1>2, FS_Subset, FS_CardinalityType

(* An announcement is made: the slots before the callbacks have run.       *)
LEMMA AnnounceStep ==
  ASSUME TypeInv, Announce
  PROVE  \E e \in frames[depth].todo, n \in Nat :
           /\ depth \in Depth /\ frames[depth].event = NoEvent
           /\ frames' = [frames EXCEPT
                ![depth] = [frames[depth] EXCEPT !.todo = frames[depth].todo \ {e}, !.event = e]]
           /\ n = IF KindOf(e) = "insert" THEN StandingPush("insert") ELSE 0
           /\ Push(e, n)
           /\ UNCHANGED <<store, ready, depth, writes, toClient, server>>
<1>1. PICK e \in frames[depth].todo :
        /\ SetTop([frames[depth] EXCEPT !.todo = frames[depth].todo \ {e}, !.event = e])
        /\ Push(e, IF KindOf(e) = "insert" THEN StandingPush("insert") ELSE 0)
  BY DEF Announce
<1>2. StandingPush("insert") \in Nat
  BY DEF StandingPush
<1>3. depth \in Depth
  BY Numbers DEF Announce, TypeInv
<1>4. QED
  BY <1>1, <1>2, <1>3 DEF Announce, SetTop

(* The callbacks have run: the slots after them call methods.              *)
LEMMA AnnouncedStep ==
  ASSUME TypeInv, Announced
  PROVE  \E e \in Event, n \in Nat :
           /\ depth \in Depth /\ frames[depth].event = e /\ e # NoEvent
           /\ frames' = [frames EXCEPT ![depth] = [frames[depth] EXCEPT !.event = NoEvent]]
           /\ n = Cardinality(Connected(KindOf(e)))
                    + IF KindOf(e) = "insert" THEN 0 ELSE StandingPush(KindOf(e))
           /\ Push(e, n)
           /\ UNCHANGED <<store, ready, depth, writes, toClient, server>>
<1> DEFINE e == frames[depth].event
           n == Cardinality(Connected(KindOf(e)))
                  + IF KindOf(e) = "insert" THEN 0 ELSE StandingPush(KindOf(e))
<1>1. depth \in Depth
  BY Numbers DEF Announced, TypeInv
<1>2. e \in Event /\ e # NoEvent
  BY <1>1, FrameTypes DEF Announced, TypeInv
<1>3. n \in Nat
  BY PushCounts DEF TypeInv
<1>4. /\ frames' = [frames EXCEPT ![depth] = [frames[depth] EXCEPT !.event = NoEvent]]
      /\ Push(e, n)
      /\ UNCHANGED <<store, ready, depth, writes, toClient, server>>
  BY DEF Announced, SetTop
<1>5. QED
  <2> HIDE DEF n
  <2>1. n = Cardinality(Connected(KindOf(e)))
              + IF KindOf(e) = "insert" THEN 0 ELSE StandingPush(KindOf(e))
    BY DEF n
  <2>2. QED
    BY <1>1, <1>2, <1>3, <1>4, <2>1

LEMMA ProgressTypes ==
  ASSUME TypeInv, Progress
  PROVE  TypeInv'
<1>1. ASSUME NEW e \in Event, e.before # e.after, NEW n \in Nat, Push(e, n),
             frames' \in [Depth -> Frame], Real',
             UNCHANGED <<store, ready, depth, writes, toClient, server>>
      PROVE  TypeInv'
  <2>1. /\ methods' = methods + n /\ methods' \in Nat
        /\ toServer' \in Seq(ToServer) /\ toServer' \in Seq(Sent(methods'))
        /\ idle' \subseteq (1 .. methods') \X Id
        /\ \A p1, p2 \in idle' : p1[1] = p2[1] \/ p1[2] = p2[2] => p1 = p2
    BY <1>1, PushTypes
  <2>2. unsynced' \subseteq 1 .. methods'
    <3>1. unsynced \subseteq 1 .. methods /\ methods \in Nat /\ unsynced' = unsynced
      BY <1>1 DEF TypeInv, TypeOK, server
    <3>2. QED
      BY <2>1, <3>1
  <2>3. QED
    BY <1>1, <2>1, <2>2 DEF TypeInv, TypeOK, server
<1>2. CASE Announce
  <2>1. PICK e \in frames[depth].todo, n \in Nat :
          /\ depth \in Depth /\ frames[depth].event = NoEvent
          /\ frames' = [frames EXCEPT
               ![depth] = [frames[depth] EXCEPT !.todo = frames[depth].todo \ {e}, !.event = e]]
          /\ Push(e, n) /\ UNCHANGED <<store, ready, depth, writes, toClient, server>>
    BY <1>2, AnnounceStep
  <2>2. PICK d \in Depth : d = depth
    BY <2>1
  <2>3. /\ frames[d] \in Frame /\ e \in Event /\ frames \in [Depth -> Frame]
        /\ e.before # e.after
    BY <2>1, <2>2, FrameTypes DEF TypeInv, TypeOK, Real, Events
  <2>4. [frames[d] EXCEPT !.todo = frames[d].todo \ {e}, !.event = e] \in Frame
    BY <2>3 DEF Frame
  <2>5. frames' \in [Depth -> Frame]
    BY <2>1, <2>2, <2>3, <2>4
  <2>6. Real'
    <3>1. /\ frames'[d].todo = frames[d].todo \ {e} /\ frames'[d].event = e
          /\ \A c \in Depth : c # d => frames'[c] = frames[c]
      BY <2>1, <2>2, <2>3 DEF Frame
    <3>2. QED
      BY <2>3, <3>1 DEF TypeInv, Real, Events
  <2>7. QED
    BY <1>1, <2>1, <2>3, <2>5, <2>6
<1>3. CASE Announced
  <2>1. PICK e \in Event, n \in Nat :
          /\ depth \in Depth /\ frames[depth].event = e /\ e # NoEvent
          /\ frames' = [frames EXCEPT ![depth] = [frames[depth] EXCEPT !.event = NoEvent]]
          /\ Push(e, n) /\ UNCHANGED <<store, ready, depth, writes, toClient, server>>
    BY <1>3, AnnouncedStep
  <2>2. PICK d \in Depth : d = depth
    BY <2>1
  <2>3. frames[d] \in Frame /\ frames \in [Depth -> Frame] /\ e.before # e.after
    BY <2>1, <2>2, FrameTypes DEF TypeInv, TypeOK, Real, Events
  <2>4. [frames[d] EXCEPT !.event = NoEvent] \in Frame
    BY <2>3 DEF Frame
  <2>5. frames' \in [Depth -> Frame]
    BY <2>1, <2>2, <2>3, <2>4
  <2>6. Real'
    <3>1. /\ frames'[d].todo = frames[d].todo /\ frames'[d].event = NoEvent
          /\ \A c \in Depth : c # d => frames'[c] = frames[c]
      BY <2>1, <2>2, <2>3 DEF Frame
    <3>2. QED
      BY <3>1 DEF TypeInv, Real, Events
  <2>7. QED
    BY <1>1, <2>1, <2>3, <2>5, <2>6
<1>4. CASE Return
  <2>1. depth \in Depth /\ depth \in Nat /\ depth' = depth - 1
        /\ frames' = [frames EXCEPT ![depth] = IdleFrame]
        /\ UNCHANGED <<store, ready, idle, methods, writes, toServer, toClient, server>>
    BY <1>4, Numbers DEF Return, TypeInv
  <2>2. depth' \in 0 .. MaxDepth
    BY <1>4, <2>1, BoundsAssumption DEF Return, TypeInv, TypeOK
  <2>3. frames' \in [Depth -> Frame]
    BY <2>1, IdleFrameType DEF TypeInv, TypeOK
  <2>4. Real'
    BY <2>1 DEF TypeInv, TypeOK, Real, Events, IdleFrame, Started
  <2>5. QED
    BY <2>1, <2>2, <2>3, <2>4 DEF server, TypeInv, TypeOK
<1>5. QED
  BY <1>2, <1>3, <1>4 DEF Progress

-----------------------------------------------------------------------------
(* A message of the server is taken off the queue.                         *)
LEMMA ReceivedTypes ==
  ASSUME TypeInv, NEW k, Received(k)
  PROVE  /\ toClient' \in Seq(ToClient) /\ Head(toClient) \in ToClient /\ Head(toClient).msg = k
         /\ depth = 0 /\ UNCHANGED <<writes, toServer, server>>
<1>1. toClient \in Seq(ToClient) /\ toClient # <<>> /\ toClient' = Tail(toClient)
  BY DEF TypeInv, TypeOK, Received
<1>2. QED
  BY <1>1, HeadTailProperties DEF Received

(* What the three handlers of documents do: nothing, or a write that is    *)
(* announced with the push of its kind blocked.                            *)
DocumentTaken(kind, events) ==
  /\ \A e \in events : e.before # e.after /\ KindOf(e) = kind
  /\ \A e1, e2 \in events : e1 = e2
  /\ \/ UNCHANGED <<frames, depth>>
     \/ /\ frames' = [frames EXCEPT ![1] = Started({kind}, {}, events)]
        /\ depth' = 1
  /\ store' \in [Id -> Stored]
  /\ LET m == Head(toClient)
     IN  store' = IF Pending(m.id) THEN store
                  ELSE [store EXCEPT ![m.id] = Edited(m.edit, store[m.id])]
  /\ Received("data")
  /\ UNCHANGED <<ready, idle, methods>>

LEMMA DocumentStep ==
  ASSUME TypeInv, on_document_added \/ on_document_changed \/ on_document_removed
  PROVE  \E kind \in Kind, events \in SUBSET Event : DocumentTaken(kind, events)
<1> DEFINE m == Head(toClient)
<1>1. Received("data") /\ UNCHANGED <<ready, idle, methods>>
  BY DEF on_document_added, on_document_changed, on_document_removed, OnDocument
<1>2. m.id \in Id /\ m.edit \in Edit
  <2>1. m \in ToClient /\ m.msg = "data"
    BY <1>1, ReceivedTypes
  <2>2. QED
    BY <2>1 DEF ToClient
<1>3. store \in [Id -> Stored] /\ store[m.id] \in Stored
  BY <1>2 DEF TypeInv, TypeOK
<1>4. Edited(m.edit, store[m.id]) \in Stored
  BY <1>2, <1>3, EditedType
<1>5. ASSUME NEW kind \in Kind, NEW events \in SUBSET Event,
             \A e \in events : e.before # e.after /\ KindOf(e) = kind,
             \A e1, e2 \in events : e1 = e2, OnDocument(kind, events)
      PROVE  DocumentTaken(kind, events)
  <2>1. CASE Pending(m.id)
    BY <1>1, <1>3, <1>5, <2>1 DEF OnDocument, DocumentTaken
  <2>2. CASE ~Pending(m.id)
    <3>1. Applied(kind, Edited(m.edit, store[m.id]), events)
      BY <1>5, <2>2 DEF OnDocument
    <3> HIDE DEF m
    <3>2. store' = [store EXCEPT ![m.id] = Edited(m.edit, store[m.id])]
      BY <3>1 DEF Applied, m
    <3>3. store' \in [Id -> Stored]
      BY <1>2, <1>3, <1>4, <3>2
    <3>4. \/ UNCHANGED <<frames, depth>>
          \/ frames' = [frames EXCEPT ![1] = Started({kind}, {}, events)] /\ depth' = 1
      BY <3>1 DEF Applied
    <3>5. QED
      BY <1>1, <1>5, <2>2, <3>2, <3>3, <3>4 DEF DocumentTaken, m
  <2>3. QED
    BY <2>1, <2>2
<1>6. CASE on_document_added
  <2> DEFINE e == [id |-> m.id, before |-> NoDoc, after |-> m.edit.doc]
             events == {e}
  <2>1. m.edit.op = "insert" /\ OnDocument("insert", events)
    BY <1>6 DEF on_document_added, OnDocument
  <2>2. m.edit.doc \in Doc
    BY <1>2, <2>1 DEF Edit, Insertion, Change, Removal
  <2>3. e \in Event /\ e.before # e.after /\ e.before = NoDoc
    BY <1>2, <2>2, NoDocAssumption DEF Event, Stored
  <2>4. KindOf(e) = "insert" /\ "insert" \in Kind
    BY <2>3, Kinds DEF Kind
  <2> HIDE DEF e, m
  <2>5. events \in SUBSET Event /\ \A x \in events : x.before # x.after /\ KindOf(x) = "insert"
    BY <2>3, <2>4
  <2>6. \A e1, e2 \in events : e1 = e2
    OBVIOUS
  <2> HIDE DEF events
  <2>7. QED
    BY <1>5, <2>1, <2>4, <2>5, <2>6
<1>7. CASE on_document_changed
  <2> DEFINE new == [id \in {m.id} |-> Edited(m.edit, store[id])]
             events == Changes(new)
  <2>1. m.edit.op = "update" /\ OnDocument("update", events)
    BY <1>7 DEF on_document_changed, OnDocument
  <2>2. /\ {m.id} \in SUBSET Id /\ new \in [{m.id} -> Stored]
        /\ new[m.id] = Edited(m.edit, store[m.id])
    BY <1>2, <1>4
  <2>3. /\ events \in SUBSET Event
        /\ \A e \in events : /\ e.before # e.after /\ e.before = store[m.id]
                             /\ e.after = Edited(m.edit, store[m.id])
        /\ \A e1, e2 \in events : e1 = e2
    <3> HIDE DEF new, m
    <3>1. /\ Changes(new) \in SUBSET Event
          /\ \A e \in Changes(new) : /\ e.id \in {m.id} /\ e.before # e.after
                                     /\ e.before = store[e.id] /\ e.after = new[e.id]
          /\ \A e1, e2 \in Changes(new) : e1.id = e2.id => e1 = e2
      BY <2>2, ChangesType DEF TypeInv
    <3>2. \A e \in Changes(new) : e.id = m.id
      BY <3>1
    <3>3. QED
      BY <2>2, <3>1, <3>2
  <2>4. ASSUME NEW e \in events
        PROVE  e.before # NoDoc /\ e.after # NoDoc
    <3>1. store[m.id] # NoDoc
      BY <2>1, <2>3 DEF Edited
    <3>2. m.edit.modifier \in Modifier /\ store[m.id] \in Doc
      BY <1>2, <1>3, <2>1, <3>1 DEF Edit, Insertion, Change, Removal, Stored
    <3>3. Edited(m.edit, store[m.id]) = Apply(m.edit.modifier, store[m.id])
      BY <2>1, <3>1 DEF Edited
    <3>4. QED
      BY <2>3, <3>1, <3>2, <3>3, ApplyType, NoDocAssumption
  <2> HIDE DEF events
  <2>5. \A e \in events : e.before # e.after /\ KindOf(e) = "update"
    BY <2>3, <2>4, Kinds
  <2>6. "update" \in Kind
    BY DEF Kind
  <2>7. QED
    BY <1>5, <2>1, <2>3, <2>5, <2>6
<1>8. CASE on_document_removed
  <2> DEFINE new == [id \in {m.id} |-> NoDoc]
             events == Changes(new)
  <2>1. OnDocument("remove", events)
    BY <1>8 DEF on_document_removed
  <2>2. {m.id} \in SUBSET Id /\ new \in [{m.id} -> Stored] /\ new[m.id] = NoDoc
    BY <1>2 DEF Stored
  <2>3. /\ events \in SUBSET Event /\ \A e \in events : e.before # e.after /\ e.after = NoDoc
        /\ \A e1, e2 \in events : e1 = e2
    <3> HIDE DEF new, m
    <3>1. /\ Changes(new) \in SUBSET Event
          /\ \A e \in Changes(new) : /\ e.id \in {m.id} /\ e.before # e.after
                                     /\ e.before = store[e.id] /\ e.after = new[e.id]
          /\ \A e1, e2 \in Changes(new) : e1.id = e2.id => e1 = e2
      BY <2>2, ChangesType DEF TypeInv
    <3>2. \A e \in Changes(new) : e.id = m.id
      BY <3>1
    <3>3. QED
      BY <2>2, <3>1, <3>2
  <2> HIDE DEF events
  <2>4. \A e \in events : e.before # e.after /\ KindOf(e) = "remove"
    BY <2>3, Kinds
  <2>5. "remove" \in Kind
    BY DEF Kind
  <2>6. QED
    BY <1>5, <2>1, <2>3, <2>4, <2>5
<1>9. QED
  BY <1>6, <1>7, <1>8

LEMMA MessageTypes ==
  ASSUME TypeInv, on_message
  PROVE  TypeInv'
<1>1. CASE on_document_added \/ on_document_changed \/ on_document_removed
  <2>0. PICK kind \in Kind, events \in SUBSET Event : DocumentTaken(kind, events)
    BY <1>1, DocumentStep
  <2>1. /\ \A e \in events : e.before # e.after
        /\ \/ UNCHANGED <<frames, depth>>
           \/ /\ frames' = [frames EXCEPT ![1] = Started({kind}, {}, events)]
              /\ depth' = 1
        /\ store' \in [Id -> Stored]
        /\ Received("data")
        /\ UNCHANGED <<ready, idle, methods>>
    BY <2>0 DEF DocumentTaken
  <2>2. toClient' \in Seq(ToClient) /\ UNCHANGED <<writes, toServer, server>>
    BY <2>1, ReceivedTypes
  <2>3. Started({kind}, {}, events) \in Frame
    BY StartedType
  <2>4. depth' \in 0 .. MaxDepth /\ frames' \in [Depth -> Frame]
    <3>1. depth \in 0 .. MaxDepth /\ frames \in [Depth -> Frame]
      BY DEF TypeInv, TypeOK
    <3>2. 1 \in 0 .. MaxDepth
      BY BoundsAssumption
    <3>3. QED
      BY <2>1, <2>3, <3>1, <3>2
  <2>5. Real'
    <3>1. CASE UNCHANGED <<frames, depth>>
      BY <3>1 DEF TypeInv, Real, Events
    <3>2. CASE frames' = [frames EXCEPT ![1] = Started({kind}, {}, events)]
      BY <2>1, <3>2 DEF TypeInv, TypeOK, Real, Events, Started
    <3>3. QED
      BY <2>1, <3>1, <3>2
  <2>6. QED
    BY <2>1, <2>2, <2>4, <2>5 DEF server, TypeInv, TypeOK
<1>2. CASE on_synchronized
  <2>1. /\ Received("updated") /\ idle' \subseteq idle
        /\ UNCHANGED <<store, ready, methods, frames, depth>>
    BY <1>2 DEF on_synchronized
  <2>2. toClient' \in Seq(ToClient) /\ UNCHANGED <<writes, toServer, server>>
    BY <2>1, ReceivedTypes
  <2>3. /\ idle' \subseteq (1 .. methods) \X Id
        /\ \A p1, p2 \in idle' : p1[1] = p2[1] \/ p1[2] = p2[2] => p1 = p2
    BY <2>1 DEF TypeInv, TypeOK
  <2>4. QED
    BY <2>1, <2>2, <2>3 DEF server, TypeInv, TypeOK, Real, Events
<1>3. CASE on_initial_batch
  <2>1. /\ Received("ready") /\ ready' = TRUE
        /\ UNCHANGED <<store, idle, methods, frames, depth>>
    BY <1>3 DEF on_initial_batch
  <2>2. toClient' \in Seq(ToClient) /\ UNCHANGED <<writes, toServer, server>>
    BY <2>1, ReceivedTypes
  <2>3. QED
    BY <2>1, <2>2 DEF server, TypeInv, TypeOK, Real, Events
<1>4. QED
  BY <1>1, <1>2, <1>3 DEF on_message

-----------------------------------------------------------------------------
(* The server tells of the change of a document.                           *)
LEMMA ServerWritesTypes ==
  ASSUME TypeInv, NEW id \in Id, NEW after \in Stored, ServerWrites(id, after)
  PROVE  db' \in [Id -> Stored] /\ toClient' \in Seq(ToClient)
<1>1. db \in [Id -> Stored] /\ db[id] \in Stored /\ toClient \in Seq(ToClient)
  BY DEF TypeInv, TypeOK
<1>2. CASE after # db[id]
  <2>1. Difference(db[id], after) \in Edit
    BY <1>1, <1>2, DifferenceIsEdit
  <2> DEFINE data == [msg |-> "data", id |-> id, edit |-> Difference(db[id], after)]
  <2>2. data \in ToClient
    BY <2>1 DEF ToClient
  <2>3. toClient' = toClient \/ toClient' = Append(toClient, data)
    BY DEF ServerWrites
  <2> HIDE DEF data
  <2>4. Append(toClient, data) \in Seq(ToClient)
    BY <1>1, <2>2
  <2>5. QED
    BY <1>1, <2>3, <2>4 DEF ServerWrites
<1>3. CASE after = db[id]
  BY <1>1, <1>3 DEF ServerWrites
<1>4. QED
  BY <1>2, <1>3

(* What the server publishes: every document, then "ready".                *)
LEMMA PublishedTypes ==
  ASSUME TypeInv
  PROVE  /\ Append(AllDocuments, [msg |-> "ready"]) \in Seq(ToClient)
         /\ AllDocuments \in Seq(ToClient)
         /\ \A i \in 1 .. Len(AllDocuments) : AllDocuments[i].msg = "data"
<1> DEFINE S == {id \in Id : db[id] # NoDoc}
           ids == SetToSeq(S)
           datum(i) == [msg |-> "data", id |-> ids[i], edit |-> Difference(NoDoc, db[ids[i]])]
<1>1. IsFiniteSet(S)
  BY FiniteAssumption, FS_Subset
<1>2. ids \in Seq(S)
  BY <1>1, SetToSeqType
<1>3. Len(ids) \in Nat /\ \A i \in 1 .. Len(ids) : ids[i] \in S
  BY <1>2, LenProperties
<1>4. \A i \in 1 .. Len(ids) : datum(i) \in ToClient
  <2>1. ASSUME NEW id \in S
        PROVE  [msg |-> "data", id |-> id, edit |-> Difference(NoDoc, db[id])] \in ToClient
    <3>1. NoDoc \in Stored /\ db[id] \in Stored /\ NoDoc # db[id]
      BY DEF TypeInv, TypeOK, Stored
    <3>2. Difference(NoDoc, db[id]) \in Edit
      BY <3>1, DifferenceIsEdit
    <3>3. QED
      BY <3>2 DEF ToClient
  <2> HIDE DEF ids, S
  <2>2. QED
    BY <1>3, <2>1
<1>5. /\ AllDocuments \in Seq(ToClient)
      /\ \A i \in 1 .. Len(AllDocuments) : AllDocuments[i].msg = "data"
  <2>1. AllDocuments = [i \in 1 .. Len(ids) |-> datum(i)]
    BY DEF AllDocuments
  <2>2. AllDocuments \in [1 .. Len(ids) -> ToClient]
    <3> HIDE DEF ids
    <3>1. QED
      BY <1>4, <2>1
  <2>3. AllDocuments \in Seq(ToClient) /\ Len(AllDocuments) = Len(ids)
    <3> HIDE DEF ids
    <3>1. QED
      BY <1>3, <2>2, FunctionIsSeq
  <2>4. QED
    <3> HIDE DEF ids
    <3>1. QED
      BY <2>1, <2>3
<1>6. [msg |-> "ready"] \in ToClient
  BY DEF ToClient
<1>7. QED
  BY <1>5, <1>6, AppendProperties

LEMMA ServerTypes ==
  ASSUME TypeInv, Server
  PROVE  TypeInv'
<1>1. CASE ServerPublishes
  <2>1. /\ toServer # <<>> /\ toServer' = Tail(toServer) /\ published' = TRUE
        /\ toClient' = toClient \o Append(AllDocuments, [msg |-> "ready"])
        /\ UNCHANGED <<local, db, unsynced, foreign>>
    BY <1>1 DEF ServerPublishes
  <2>2. toServer' \in Seq(ToServer) /\ toServer' \in Seq(Sent(methods'))
    BY <2>1, HeadTailProperties DEF TypeInv, TypeOK, local
  <2>3. toClient' \in Seq(ToClient)
    BY <2>1, PublishedTypes, ConcatProperties DEF TypeInv, TypeOK
  <2>4. QED
    BY <2>1, <2>2, <2>3 DEF local, TypeInv, TypeOK, Real, Events
<1>2. CASE ServerRuns
  <2> DEFINE m == Head(toServer)
  <2>1. /\ toServer # <<>> /\ m.msg = "method" /\ toServer' = Tail(toServer)
        /\ \/ ServerWrites(m.id, ServerEdited(m.edit, db[m.id]))
           \/ UNCHANGED <<db, toClient>>
        /\ unsynced' = unsynced \cup {m.method}
        /\ UNCHANGED <<local, published, foreign>>
    BY <1>2 DEF ServerRuns
  <2>2. toServer' \in Seq(ToServer) /\ toServer' \in Seq(Sent(methods)) /\ m \in Sent(methods)
    BY <2>1, HeadTailProperties DEF TypeInv, TypeOK
  <2>3. m.method \in 1 .. methods /\ m.id \in Id /\ m.edit \in Edit
    BY <2>1, <2>2 DEF Sent
  <2>4. ServerEdited(m.edit, db[m.id]) \in Stored
    BY <2>3, EditedType DEF TypeInv, TypeOK
  <2>5. db' \in [Id -> Stored] /\ toClient' \in Seq(ToClient)
    <3>1. CASE ServerWrites(m.id, ServerEdited(m.edit, db[m.id]))
      BY <2>3, <2>4, <3>1, ServerWritesTypes
    <3>2. CASE UNCHANGED <<db, toClient>>
      BY <3>2 DEF TypeInv, TypeOK
    <3>3. QED
      BY <2>1, <3>1, <3>2
  <2>6. unsynced' \subseteq 1 .. methods
    BY <2>1, <2>3 DEF TypeInv, TypeOK
  <2>7. QED
    BY <2>1, <2>2, <2>5, <2>6 DEF local, TypeInv, TypeOK, Real, Events
<1>3. CASE \E method \in unsynced : ServerSyncs(method)
  <2>1. PICK method \in unsynced :
          /\ unsynced' = unsynced \ {method}
          /\ toClient' = Append(toClient, [msg |-> "updated", method |-> method])
          /\ UNCHANGED <<local, toServer, db, published, foreign>>
    BY <1>3 DEF ServerSyncs
  <2>2. [msg |-> "updated", method |-> method] \in ToClient
    BY DEF TypeInv, TypeOK, ToClient
  <2>3. toClient' \in Seq(ToClient)
    BY <2>1, <2>2, AppendProperties DEF TypeInv, TypeOK
  <2>4. QED
    BY <2>1, <2>3 DEF local, TypeInv, TypeOK, Real, Events
<1>4. QED
  BY <1>1, <1>2, <1>3 DEF Server

LEMMA OthersTypes ==
  ASSUME TypeInv, NEW id \in Id, NEW after \in Documents \cup {NoDoc}, OtherClientWrites(id, after)
  PROVE  TypeInv'
<1>1. after \in Stored
  BY InputsAssumption DEF Stored
<1>2. db' \in [Id -> Stored] /\ toClient' \in Seq(ToClient)
  BY <1>1, ServerWritesTypes DEF OtherClientWrites
<1>3. foreign' \in 0 .. MaxForeign
  BY BoundsAssumption DEF OtherClientWrites, TypeInv, TypeOK
<1>4. UNCHANGED <<local, toServer, published, unsynced>>
  BY DEF OtherClientWrites
<1>5. QED
  BY <1>2, <1>3, <1>4 DEF local, TypeInv, TypeOK, Real, Events

LEMMA TypesKept == TypeInv /\ [Next]_vars => TypeInv'
<1> SUFFICES ASSUME TypeInv, [Next]_vars
             PROVE  TypeInv'
  OBVIOUS
<1>1. CASE UserCall
  BY <1>1, UserCallWrites, WriteTypes DEF TypeInv, OwnChanges
<1>2. CASE Progress \/ on_message \/ Server
  BY <1>2, ProgressTypes, MessageTypes, ServerTypes
<1>3. CASE \E id \in Id, after \in Documents \cup {NoDoc} : OtherClientWrites(id, after)
  BY <1>3, OthersTypes
<1>4. CASE UNCHANGED vars
  BY <1>4 DEF vars, TypeInv, TypeOK, Real, Events
<1>5. QED
  BY <1>1, <1>2, <1>3, <1>4 DEF Next

(***************************************************************************)
(* The bimap _idle never holds a method or a document twice, every edit    *)
(* under way is one the other side can carry out, and no method is         *)
(* reported that was not called, whatever users and the server do          *)
(* (ddp_collection.cpp:34-77, 98-196).                                     *)
(***************************************************************************)
THEOREM ReplicationTypes == Spec => []TypeOK
<1>1. TypeInv => TypeOK
  BY DEF TypeInv
<1>2. QED
  BY <1>1, InitTypes, TypesKept, PTL DEF Spec

-----------------------------------------------------------------------------
(***************************************************************************)
(* One method for every change: the pushes the writes of the user still    *)
(* owe.  An insertion whose slots before the callbacks have pushed it owes *)
(* none, and a message of the server never does.                           *)
(***************************************************************************)
Due(d, e) ==
  /\ frames[d].blocks = {}
  /\ \/ e \in frames[d].todo
     \/ /\ e = frames[d].event
        /\ KindOf(e) = "insert" => "insert" \in frames[d].connects

Owed == {p \in Depth \X Event : Due(p[1], p[2])}

(* Only the outermost write may block a push, of the kind it announces;    *)
(* every other one connected its own push exactly where one is blocked,    *)
(* and no write around it connected one.                                   *)
FrameInv(d) ==
  /\ d > depth => frames[d] = IdleFrame
  /\ frames[d].event \notin frames[d].todo
  /\ frames[d].blocks # {} =>
       /\ d = 1 /\ frames[d].connects = {}
       /\ \A e \in Events(d) : KindOf(e) \in frames[d].blocks
  /\ frames[d].blocks = {} =>
       \A e \in Events(d) : /\ ready
                            /\ KindOf(e) \in frames[d].connects <=> Blocked(KindOf(e))
                            /\ \A c \in 1 .. d - 1 : KindOf(e) \notin frames[c].connects

PushInv ==
  /\ TypeInv
  /\ \A d \in Depth : FrameInv(d)
  /\ IsFiniteSet(Owed) /\ writes = methods + Cardinality(Owed)

LEMMA IdleFrameFields ==
  /\ IdleFrame.blocks = {} /\ IdleFrame.connects = {} /\ IdleFrame.todo = {}
  /\ IdleFrame.event = NoEvent
BY DEF IdleFrame, Started

(* A frame with nothing to announce owes nothing.                          *)
LEMMA NothingDue ==
  ASSUME NEW d \in Depth, NEW e \in Event, frames[d].todo = {}, frames[d].event = NoEvent
  PROVE  ~Due(d, e)
BY NoEventAssumption DEF Due

LEMMA InitPush == Init => PushInv
<1> SUFFICES ASSUME Init
             PROVE  PushInv
  OBVIOUS
<1>1. TypeInv
  BY InitTypes
<1>2. \A d \in Depth : frames[d] = IdleFrame
  BY DEF Init
<1>3. \A d \in Depth : FrameInv(d)
  BY <1>2, IdleFrameFields DEF FrameInv, Events
<1>4. Owed = {}
  BY <1>2, IdleFrameFields, NothingDue DEF Owed
<1>5. IsFiniteSet({}) /\ Cardinality({}) = 0
  BY FS_EmptySet
<1>6. writes = 0 /\ methods = 0
  BY DEF Init
<1>7. QED
  BY <1>1, <1>3, <1>4, <1>5, <1>6 DEF PushInv

(* Steps that leave the writes in progress alone. *)
LEMMA FramesStay ==
  ASSUME PushInv, TypeInv', UNCHANGED <<frames, depth, methods, writes>>, ready => ready'
  PROVE  PushInv'
<1>1. \A d : Events(d)' = Events(d)
  BY DEF Events
<1>2. \A kind : Blocked(kind)' <=> Blocked(kind)
  BY DEF Blocked
<1>3. \A d \in Depth : FrameInv(d)'
  BY <1>1, <1>2 DEF PushInv, FrameInv
<1>4. Owed' = Owed
  BY DEF Owed, Due
<1>5. QED
  BY <1>3, <1>4 DEF PushInv

(* A call of the user owes a push for every document it changes.           *)
LEMMA UserPush ==
  ASSUME PushInv, TypeInv', {"deep", "upsert", "remove"} \cap Liberty = {}, UserCall
  PROVE  PushInv'
<1>1. PICK connects \in SUBSET Kind, events \in SUBSET Event :
        /\ Write(connects, events) /\ IsFiniteSet(events)
        /\ \/ /\ connects = IF Blocked("insert") THEN {"insert"} ELSE {}
              /\ \A e \in events : KindOf(e) = "insert"
           \/ /\ connects = IF Blocked("update") THEN {"update"} ELSE {}
              /\ \A e \in events : KindOf(e) = "update"
           \/ /\ connects = IF Blocked("insert") \/ Blocked("update") THEN {"insert"} ELSE {}
              /\ "upsert" \in Liberty \/ ~Blocked("update")
              /\ \/ \A e \in events : KindOf(e) = "update"
                 \/ \A e \in events : KindOf(e) = "insert"
           \/ /\ connects = IF \E kind \in Kind : Blocked(kind) THEN {"remove"} ELSE {}
              /\ "remove" \in Liberty \/ connects = {} \/ Blocked("remove")
              /\ \A e \in events : KindOf(e) = "remove"
  BY UserCallWrites DEF PushInv, TypeInv
<1>2. \A e \in events : KindOf(e) \in connects <=> Blocked(KindOf(e))
  BY <1>1 DEF Kind
<1>3. \A e \in events, c \in Depth : KindOf(e) \notin frames[c].connects
  BY <1>1 DEF Write, Connected
<1>4. PICK n \in Depth : n = depth + 1
  BY <1>1, Numbers DEF PushInv, TypeInv, Write
<1>5. /\ frames' = [frames EXCEPT ![n] = Started({}, connects, events)]
      /\ depth' = n /\ ready /\ ready' = ready /\ methods' = methods
      /\ writes' = writes + Cardinality(events)
  BY <1>1, <1>4 DEF Write
<1>6. frames[n] = IdleFrame
  BY <1>4, Numbers DEF PushInv, TypeInv, FrameInv
<1>7. /\ frames'[n].blocks = {} /\ frames'[n].connects = connects
      /\ frames'[n].todo = events /\ frames'[n].event = NoEvent
      /\ \A d \in Depth : d # n => frames'[d] = frames[d]
  BY <1>5 DEF Started, PushInv, TypeInv, TypeOK
<1>8. \A kind : Blocked(kind)' <=> Blocked(kind)
  BY <1>6, <1>7, IdleFrameFields DEF Blocked
<1>9. ASSUME NEW d \in Depth
      PROVE  FrameInv(d)'
  <2>1. CASE d = n
    <3>1. Events(n)' = events
      BY <1>7 DEF Events
    <3>2. \A c \in 1 .. n - 1 : c \in Depth /\ c # n
      BY BoundsAssumption DEF Depth
    <3>3. \A e \in events : /\ ready'
                            /\ KindOf(e) \in frames'[n].connects <=> Blocked(KindOf(e))'
                            /\ \A c \in 1 .. n - 1 : KindOf(e) \notin frames'[c].connects
      BY <1>2, <1>3, <1>5, <1>7, <1>8, <3>2
    <3>4. NoEvent \notin events
      BY NoEventAssumption
    <3>5. ~(n > depth')
      BY <1>5 DEF Depth
    <3>6. QED
      BY <1>7, <2>1, <3>1, <3>3, <3>4, <3>5 DEF FrameInv
  <2>2. CASE d # n
    <3>1. FrameInv(d) /\ frames'[d] = frames[d]
      BY <1>7, <2>2 DEF PushInv
    <3>2. CASE d > n
      <4>1. frames[d] = IdleFrame
        BY <1>4, <3>1, <3>2, Numbers DEF FrameInv, Depth, PushInv, TypeInv
      <4>2. /\ frames'[d] = IdleFrame /\ frames'[d].blocks = {}
            /\ frames'[d].event \notin frames'[d].todo
        BY <3>1, <4>1, IdleFrameFields
      <4>3. Events(d)' = {}
        BY <4>2, IdleFrameFields DEF Events
      <4>4. QED
        BY <4>2, <4>3 DEF FrameInv
    <3>3. CASE ~(d > n)
      <4>1. ~(d > depth') /\ \A c \in 1 .. d - 1 : c \in Depth /\ c # n
        BY <1>5, <2>2, <3>3, BoundsAssumption DEF Depth
      <4>2. Events(d)' = Events(d)
        BY <3>1 DEF Events
      <4>3. \A c \in 1 .. d - 1 : frames'[c] = frames[c]
        BY <1>7, <4>1
      <4>4. QED
        BY <1>5, <1>8, <3>1, <4>1, <4>2, <4>3 DEF FrameInv
    <3>4. QED
      BY <3>2, <3>3
  <2>3. QED
    BY <2>1, <2>2
<1>10. Owed' = Owed \cup ({n} \X events) /\ Owed \cap ({n} \X events) = {}
  <2>1. \A e \in Event : ~Due(n, e)
    BY <1>6, IdleFrameFields, NothingDue
  <2>2. \A e \in Event : Due(n, e)' <=> e \in events
    BY <1>7, NoEventAssumption DEF Due
  <2>3. \A d \in Depth, e \in Event : d # n => (Due(d, e)' <=> Due(d, e))
    BY <1>7 DEF Due
  <2>4. \A d \in Depth, e \in Event :
          <<d, e>> \in Owed' <=> <<d, e>> \in Owed \/ (d = n /\ e \in events)
    BY <2>1, <2>2, <2>3 DEF Owed
  <2>5. QED
    BY <2>1, <2>4 DEF Owed
<1>11. /\ IsFiniteSet({n} \X events)
       /\ Cardinality({n} \X events) = Cardinality(events)
  <2>1. IsFiniteSet({n}) /\ Cardinality({n}) = 1
    BY FS_Singleton
  <2>2. /\ IsFiniteSet({n} \X events)
        /\ Cardinality({n} \X events) = Cardinality({n}) * Cardinality(events)
    BY <1>1, <2>1, FS_Product
  <2>3. Cardinality(events) \in Nat
    BY <1>1, FS_CardinalityType
  <2>4. QED
    BY <2>1, <2>2, <2>3
<1>12. /\ IsFiniteSet(Owed')
       /\ Cardinality(Owed') = Cardinality(Owed) + Cardinality({n} \X events)
                                 - Cardinality(Owed \cap ({n} \X events))
  <2> HIDE DEF Owed
  <2>1. IsFiniteSet(Owed)
    BY DEF PushInv
  <2> DEFINE T == {n} \X events
  <2>2. IsFiniteSet(T) /\ Owed' = Owed \cup T
    BY <1>10, <1>11
  <2> HIDE DEF T
  <2>3. /\ IsFiniteSet(Owed \cup T)
        /\ Cardinality(Owed \cup T) = Cardinality(Owed) + Cardinality(T) - Cardinality(Owed \cap T)
    BY <2>1, <2>2, FS_Union
  <2>4. /\ IsFiniteSet(Owed')
        /\ Cardinality(Owed') = Cardinality(Owed) + Cardinality(T) - Cardinality(Owed \cap T)
    BY <2>2, <2>3
  <2>5. QED
    BY <2>4 DEF T
<1>13. writes' = methods' + Cardinality(Owed')
  <2>1. Cardinality({}) = 0 /\ Cardinality(events) \in Nat /\ Cardinality(Owed) \in Nat
    BY <1>1, FS_EmptySet, FS_CardinalityType DEF PushInv
  <2>2. Cardinality(Owed \cap ({n} \X events)) = 0
    BY <1>10, <2>1
  <2>3. Cardinality(Owed') = Cardinality(Owed) + Cardinality(events)
    BY <1>11, <1>12, <2>1, <2>2
  <2>4. QED
    BY <1>5, <2>1, <2>3, Numbers DEF PushInv, TypeInv
<1>14. QED
  BY <1>9, <1>12, <1>13 DEF PushInv

(* An announcement begins or ends: what the frames block and connect, and  *)
(* what they still have to announce, does not grow.                        *)
LEMMA SameFrames ==
  ASSUME PushInv, NEW d \in Depth, d = depth,
         frames'[d].blocks = frames[d].blocks, frames'[d].connects = frames[d].connects,
         Events(d)' \subseteq Events(d), frames'[d].event \notin frames'[d].todo,
         \A c \in Depth : c # d => frames'[c] = frames[c],
         UNCHANGED <<ready, depth>>
  PROVE  \A c \in Depth : FrameInv(c)'
<1>1. \A kind : Blocked(kind)' <=> Blocked(kind)
  BY DEF Blocked
<1> SUFFICES ASSUME NEW c \in Depth
             PROVE  FrameInv(c)'
  OBVIOUS
<1>2. /\ frames'[c].blocks = frames[c].blocks /\ frames'[c].connects = frames[c].connects
      /\ frames'[c].event \notin frames'[c].todo
  BY DEF PushInv, FrameInv
<1>3. Events(c)' \subseteq Events(c)
  BY DEF Events
<1>4. c > depth' => frames'[c] = IdleFrame
  BY DEF PushInv, FrameInv, Depth
<1>5. \A b \in 1 .. c - 1 : b \in Depth /\ frames'[b].connects = frames[b].connects
  BY BoundsAssumption DEF Depth
<1>6. QED
  BY <1>1, <1>2, <1>3, <1>4, <1>5 DEF PushInv, FrameInv

(* An announcement that is pushed is no longer owed.                       *)
LEMMA Paid ==
  ASSUME PushInv, NEW p, NEW n \in Nat,
         \/ Owed' = Owed /\ n = 0
         \/ p \in Owed /\ Owed' = Owed \ {p} /\ n = 1,
         methods' = methods + n, writes' = writes
  PROVE  IsFiniteSet(Owed') /\ writes' = methods' + Cardinality(Owed')
<1>1. methods \in Nat /\ IsFiniteSet(Owed) /\ Cardinality(Owed) \in Nat
  BY Numbers, FS_CardinalityType DEF PushInv, TypeInv
<1>2. /\ IsFiniteSet(Owed \ {p})
      /\ p \in Owed => Cardinality(Owed \ {p}) = Cardinality(Owed) - 1
  BY <1>1, FS_RemoveElement
<1>3. writes = methods + Cardinality(Owed)
  BY DEF PushInv
<1> HIDE DEF Owed
<1>4. CASE Owed' = Owed /\ n = 0
  <2>1. Cardinality(Owed') = Cardinality(Owed) /\ IsFiniteSet(Owed')
    BY <1>1, <1>4
  <2>2. QED
    BY <1>1, <1>3, <1>4, <2>1
<1>5. CASE p \in Owed /\ Owed' = Owed \ {p} /\ n = 1
  <2>1. Cardinality(Owed') = Cardinality(Owed) - 1 /\ IsFiniteSet(Owed')
    BY <1>2, <1>5
  <2>2. QED
    BY <1>1, <1>3, <1>5, <2>1
<1>6. QED
  BY <1>4, <1>5

(* A step of an announcement pushes it once if that is due, and then it no *)
(* longer is, or leaves it as it was.                                      *)
Pays(d, e, n) ==
  /\ d = depth /\ e \in Events(d) /\ n \in {0, 1} /\ Push(e, n)
  /\ n = 1 => Due(d, e) /\ ~Due(d, e)'
  /\ n = 0 => (Due(d, e)' <=> Due(d, e))
  /\ \A x \in Event : x # e => (Due(d, x)' <=> Due(d, x))
  /\ frames'[d].blocks = frames[d].blocks /\ frames'[d].connects = frames[d].connects
  /\ Events(d)' \subseteq Events(d) /\ frames'[d].event \notin frames'[d].todo
  /\ \A c \in Depth : c # d => frames'[c] = frames[c]
  /\ UNCHANGED <<store, ready, depth, writes, toClient, server>>

(* The next announcement: only an insertion without a push of its own is   *)
(* pushed before the callbacks run.                                        *)
LEMMA AnnouncePays ==
  ASSUME PushInv, Announce
  PROVE  \E d \in Depth, e \in Event, n \in Nat : Pays(d, e, n)
<1>1. PICK e \in frames[depth].todo, n \in Nat :
        /\ depth \in Depth /\ frames[depth].event = NoEvent
        /\ frames' = [frames EXCEPT
             ![depth] = [frames[depth] EXCEPT !.todo = frames[depth].todo \ {e}, !.event = e]]
        /\ n = IF KindOf(e) = "insert" THEN StandingPush("insert") ELSE 0
        /\ Push(e, n)
        /\ UNCHANGED <<store, ready, depth, writes, toClient, server>>
  BY AnnounceStep DEF PushInv
<1>2. PICK d \in Depth : d = depth
  BY <1>1
<1>3. e \in Event /\ e \in frames[d].todo /\ frames[d].event = NoEvent /\ frames[d] \in Frame
  BY <1>1, <1>2, FrameTypes DEF PushInv, TypeInv
<1>4. /\ frames'[d].blocks = frames[d].blocks /\ frames'[d].connects = frames[d].connects
      /\ frames'[d].todo = frames[d].todo \ {e} /\ frames'[d].event = e
      /\ \A c \in Depth : c # d => frames'[c] = frames[c]
  BY <1>1, <1>2, <1>3 DEF PushInv, TypeInv, TypeOK, Frame
<1>5. /\ e \in Events(d) /\ Events(d)' \subseteq Events(d)
      /\ frames'[d].event \notin frames'[d].todo
  BY <1>3, <1>4, NoEventAssumption DEF Events
<1>6. PICK owes \in BOOLEAN :
        owes <=> /\ frames[d].blocks = {}
                 /\ KindOf(e) = "insert" => "insert" \in frames[d].connects
  OBVIOUS
<1>7. n = IF frames[d].blocks = {} /\ ~owes THEN 1 ELSE 0
  <2>2. CASE frames[d].blocks = {}
    <3>1. ready /\ (KindOf(e) \in frames[d].connects <=> Blocked(KindOf(e)))
      BY <1>5, <2>2 DEF PushInv, FrameInv
    <3>2. QED
      BY <1>1, <1>6, <2>2, <3>1 DEF StandingPush
  <2>3. CASE frames[d].blocks # {}
    <3>1. KindOf(e) \in frames[d].blocks
      BY <1>5, <2>3 DEF PushInv, FrameInv
    <3>2. Blocked(KindOf(e))
      BY <3>1 DEF Blocked
    <3>3. QED
      BY <1>1, <2>3, <3>2 DEF StandingPush
  <2>4. QED
    BY <2>2, <2>3
<1>8. \A x \in Event : x # e => (Due(d, x)' <=> Due(d, x))
  BY <1>3, <1>4, NoEventAssumption DEF Due
<1>9. /\ Due(d, e)' <=> owes
      /\ Due(d, e) <=> frames[d].blocks = {}
  BY <1>3, <1>4, <1>6 DEF Due
<1>10. n \in {0, 1} /\ (n = 1 => Due(d, e) /\ ~Due(d, e)') /\ (n = 0 => (Due(d, e)' <=> Due(d, e)))
  BY <1>6, <1>7, <1>9
<1>11. Pays(d, e, n)
  BY <1>1, <1>2, <1>4, <1>5, <1>8, <1>10 DEF Pays
<1>12. QED
  BY <1>3, <1>11

(* The announcement has been made: every other change is pushed now, by    *)
(* the push of its write or by the standing one.                           *)
LEMMA AnnouncedPays ==
  ASSUME PushInv, Announced
  PROVE  \E d \in Depth, e \in Event, n \in Nat : Pays(d, e, n)
<1>1. PICK e \in Event, n \in Nat :
        /\ depth \in Depth /\ frames[depth].event = e /\ e # NoEvent
        /\ frames' = [frames EXCEPT ![depth] = [frames[depth] EXCEPT !.event = NoEvent]]
        /\ n = Cardinality(Connected(KindOf(e)))
                 + IF KindOf(e) = "insert" THEN 0 ELSE StandingPush(KindOf(e))
        /\ Push(e, n)
        /\ UNCHANGED <<store, ready, depth, writes, toClient, server>>
  BY AnnouncedStep DEF PushInv
<1>2. PICK d \in Depth : d = depth
  BY <1>1
<1>3. /\ e \in Events(d) /\ frames[d].event = e /\ frames[d] \in Frame
      /\ e \notin frames[d].todo /\ NoEvent \notin frames[d].todo
  BY <1>1, <1>2, FrameTypes, NoEventAssumption DEF Events, PushInv, TypeInv, FrameInv
<1>4. /\ frames'[d].blocks = frames[d].blocks /\ frames'[d].connects = frames[d].connects
      /\ frames'[d].todo = frames[d].todo /\ frames'[d].event = NoEvent
      /\ \A c \in Depth : c # d => frames'[c] = frames[c]
  BY <1>1, <1>2, <1>3 DEF PushInv, TypeInv, TypeOK, Frame
<1>5. Events(d)' \subseteq Events(d) /\ frames'[d].event \notin frames'[d].todo
  BY <1>3, <1>4 DEF Events
<1>6. \A c \in Depth : c > d => frames[c].connects = {} /\ frames[c].blocks = {}
  BY <1>2, IdleFrameFields DEF PushInv, FrameInv
<1>7. n = IF Due(d, e) THEN 1 ELSE 0
  <2>1. CASE frames[d].blocks = {}
    <3>1. /\ ready /\ (KindOf(e) \in frames[d].connects <=> Blocked(KindOf(e)))
          /\ \A c \in 1 .. d - 1 : KindOf(e) \notin frames[c].connects
      BY <1>3, <2>1 DEF PushInv, FrameInv
    <3>2. Connected(KindOf(e)) = IF Blocked(KindOf(e)) THEN {d} ELSE {}
      <4>1. \A c \in Depth : c = d \/ c > d \/ c \in 1 .. d - 1
        BY BoundsAssumption DEF Depth
      <4>2. \A c \in Depth : KindOf(e) \in frames[c].connects <=> c = d /\ Blocked(KindOf(e))
        BY <1>6, <3>1, <4>1
      <4>3. QED
        BY <4>2 DEF Connected
    <3>3. Cardinality(Connected(KindOf(e))) = IF Blocked(KindOf(e)) THEN 1 ELSE 0
      BY <3>2, FS_Singleton, FS_EmptySet
    <3>4. StandingPush(KindOf(e)) = IF Blocked(KindOf(e)) THEN 0 ELSE 1
      BY <3>1 DEF StandingPush
    <3>5. Due(d, e) <=> (KindOf(e) = "insert" => Blocked(KindOf(e)))
      BY <1>3, <2>1, <3>1 DEF Due
    <3>6. QED
      BY <1>1, <3>3, <3>4, <3>5
  <2>2. CASE frames[d].blocks # {}
    <3>1. d = 1 /\ frames[d].connects = {} /\ KindOf(e) \in frames[d].blocks
      BY <1>3, <2>2 DEF PushInv, FrameInv
    <3>2. Connected(KindOf(e)) = {}
      <4>1. \A c \in Depth : c = d \/ c > d
        BY <3>1 DEF Depth
      <4>2. QED
        BY <1>6, <3>1, <4>1 DEF Connected
    <3>3. Cardinality(Connected(KindOf(e))) = 0
      BY <3>2, FS_EmptySet
    <3>4. StandingPush(KindOf(e)) = 0
      BY <3>1 DEF StandingPush, Blocked
    <3>5. ~Due(d, e)
      BY <2>2 DEF Due
    <3>6. QED
      BY <1>1, <3>3, <3>4, <3>5
  <2>3. QED
    BY <2>1, <2>2
<1>8. ~Due(d, e)' /\ \A x \in Event : x # e => (Due(d, x)' <=> Due(d, x))
  BY <1>1, <1>3, <1>4, NoEventAssumption DEF Due
<1>9. Pays(d, e, n)
  BY <1>1, <1>2, <1>3, <1>4, <1>5, <1>7, <1>8 DEF Pays
<1>10. QED
  BY <1>9

(* Either way what is owed and what has been pushed are the same together. *)
LEMMA PaysPush ==
  ASSUME PushInv, TypeInv', NEW d \in Depth, NEW e \in Event, NEW n \in Nat, Pays(d, e, n)
  PROVE  PushInv'
<1>1. \A c \in Depth : FrameInv(c)'
  BY SameFrames DEF Pays
<1>2. \A c \in Depth, x \in Event : c # d => (Due(c, x)' <=> Due(c, x))
  BY DEF Due, Pays
<1>3. \/ Owed' = Owed /\ n = 0
      \/ <<d, e>> \in Owed /\ Owed' = Owed \ {<<d, e>>} /\ n = 1
  <2>1. CASE n = 0
    <3>1. \A c \in Depth, x \in Event : Due(c, x)' <=> Due(c, x)
      BY <1>2, <2>1 DEF Pays
    <3>2. QED
      BY <2>1, <3>1 DEF Owed
  <2>2. CASE n = 1
    <3>1. \A c \in Depth, x \in Event :
            <<c, x>> \in Owed' <=> <<c, x>> \in Owed /\ <<c, x>> # <<d, e>>
      BY <1>2, <2>2 DEF Owed, Pays
    <3>2. <<d, e>> \in Owed
      BY <2>2 DEF Owed, Pays
    <3>3. QED
      BY <2>2, <3>1, <3>2 DEF Owed
  <2>3. QED
    BY <2>1, <2>2 DEF Pays
<1>4. writes' = writes /\ methods' = methods + n
  BY DEF Pays, Push
<1>5. QED
  BY <1>1, <1>3, <1>4, Paid DEF PushInv

(* A write returns with nothing owed, and with it the block of a message.  *)
LEMMA ReturnPush ==
  ASSUME PushInv, TypeInv', Return
  PROVE  PushInv'
<1>1. PICK d \in Depth : d = depth
  BY Numbers DEF PushInv, TypeInv, Return
<1>2. /\ frames[d].event = NoEvent /\ frames[d].todo = {}
      /\ frames' = [frames EXCEPT ![d] = IdleFrame] /\ depth' = d - 1
      /\ UNCHANGED <<ready, methods, writes>>
  BY <1>1 DEF Return
<1>3. frames'[d] = IdleFrame /\ \A c \in Depth : c # d => frames'[c] = frames[c]
  BY <1>2 DEF PushInv, TypeInv, TypeOK
<1>4. \A c \in Depth : c > depth' => frames'[c] = IdleFrame
  BY <1>1, <1>2, <1>3 DEF PushInv, FrameInv, Depth
<1>5. Owed' = Owed
  <2>1. \A e \in Event : ~Due(d, e) /\ ~Due(d, e)'
    BY <1>2, <1>3, IdleFrameFields, NoEventAssumption DEF Due
  <2>2. \A c \in Depth, e \in Event : Due(c, e)' <=> Due(c, e)
    BY <1>3, <2>1 DEF Due
  <2>3. QED
    BY <2>2 DEF Owed
<1>6. ASSUME NEW c \in Depth
      PROVE  FrameInv(c)'
  <2>1. CASE c > depth'
    <3>1. frames'[c].event \notin frames'[c].todo /\ frames'[c].blocks = {}
      BY <1>4, <2>1, IdleFrameFields
    <3>2. Events(c)' = {}
      BY <1>4, <2>1, IdleFrameFields DEF Events
    <3>3. QED
      BY <1>4, <2>1, <3>1, <3>2 DEF FrameInv
  <2>2. CASE ~(c > depth')
    <3>1. c # d /\ d # 1
      BY <1>2, <2>2 DEF Depth
    <3>2. frames[d].blocks = {}
      BY <3>1 DEF PushInv, FrameInv
    <3>3. \A kind : Blocked(kind)' <=> Blocked(kind)
      BY <1>3, <3>2, IdleFrameFields DEF Blocked
    <3>4. frames'[c] = frames[c]
      BY <1>3, <3>1
    <3>5. Events(c)' = Events(c)
      BY <3>4 DEF Events
    <3>6. \A b \in 1 .. c - 1 : frames'[b] = frames[b]
      BY <1>2, <1>3, <2>2, BoundsAssumption DEF Depth
    <3>7. QED
      BY <1>2, <2>2, <3>3, <3>4, <3>5, <3>6 DEF PushInv, FrameInv
  <2>3. QED
    BY <2>1, <2>2
<1>7. QED
  BY <1>2, <1>5, <1>6 DEF PushInv

(* A message of the server owes nothing: its kind of push is blocked.      *)
LEMMA MessagePush ==
  ASSUME PushInv, TypeInv', on_message
  PROVE  PushInv'
<1>1. CASE on_document_added \/ on_document_changed \/ on_document_removed
  <2>0. PICK kind \in Kind, events \in SUBSET Event : DocumentTaken(kind, events)
    BY <1>1, DocumentStep DEF PushInv
  <2>1. /\ \A e \in events : KindOf(e) = kind
        /\ \/ UNCHANGED <<frames, depth>>
           \/ /\ frames' = [frames EXCEPT ![1] = Started({kind}, {}, events)]
              /\ depth' = 1
        /\ Received("data")
        /\ UNCHANGED <<ready, idle, methods>>
    BY <2>0 DEF DocumentTaken
  <2>2. depth = 0 /\ writes' = writes
    BY <2>1 DEF Received
  <2>3. CASE UNCHANGED <<frames, depth>>
    BY <2>1, <2>2, <2>3, FramesStay
  <2>4. CASE frames' = [frames EXCEPT ![1] = Started({kind}, {}, events)] /\ depth' = 1
    <3>1. \A d \in Depth : frames[d] = IdleFrame
      BY <2>2 DEF PushInv, FrameInv, Depth
    <3>2. /\ frames'[1].blocks = {kind} /\ frames'[1].connects = {}
          /\ frames'[1].todo = events /\ frames'[1].event = NoEvent
          /\ \A d \in Depth : d # 1 => frames'[d] = IdleFrame
      BY <2>4, <3>1, Numbers DEF PushInv, TypeInv, TypeOK, Started
    <3>3. ASSUME NEW d \in Depth
          PROVE  FrameInv(d)'
      <4>1. CASE d = 1
        <5>1. Events(1)' = events
          BY <3>2 DEF Events
        <5>2. NoEvent \notin events
          BY NoEventAssumption
        <5>3. QED
          BY <2>1, <2>4, <3>2, <4>1, <5>1, <5>2 DEF FrameInv
      <4>2. CASE d # 1
        <5>1. /\ frames'[d] = IdleFrame /\ frames'[d].blocks = {}
              /\ frames'[d].event \notin frames'[d].todo
          BY <3>2, <4>2, IdleFrameFields
        <5>2. Events(d)' = {}
          BY <5>1, IdleFrameFields DEF Events
        <5>3. QED
          BY <5>1, <5>2 DEF FrameInv
      <4>3. QED
        BY <4>1, <4>2
    <3>4. Owed' = Owed
      <4>1. \A d \in Depth, e \in Event : ~Due(d, e)
        BY <3>1, IdleFrameFields, NoEventAssumption DEF Due
      <4>2. \A d \in Depth, e \in Event : ~Due(d, e)'
        BY <3>2, IdleFrameFields, NoEventAssumption DEF Due
      <4>3. QED
        BY <4>1, <4>2 DEF Owed
    <3>5. QED
      BY <2>1, <2>2, <3>3, <3>4 DEF PushInv
  <2>5. QED
    BY <2>1, <2>3, <2>4
<1>2. CASE on_synchronized \/ on_initial_batch
  <2>1. UNCHANGED <<frames, depth, methods, writes>> /\ (ready => ready')
    BY <1>2 DEF on_synchronized, on_initial_batch, Received
  <2>2. QED
    BY <2>1, FramesStay
<1>3. QED
  BY <1>1, <1>2 DEF on_message

LEMMA PushKept ==
  ASSUME {"deep", "upsert", "remove"} \cap Liberty = {}, PushInv, [Next]_vars
  PROVE  PushInv'
<1>1. TypeInv'
  BY TypesKept DEF PushInv
<1>2. CASE UserCall
  BY <1>1, <1>2, UserPush
<1>3. CASE Progress
  BY <1>1, <1>3, AnnouncePays, AnnouncedPays, PaysPush, ReturnPush DEF Progress
<1>4. CASE on_message
  BY <1>1, <1>4, MessagePush
<1>5. CASE \/ Server
           \/ \E id \in Id, after \in Documents \cup {NoDoc} : OtherClientWrites(id, after)
  <2>1. UNCHANGED local
    BY <1>5 DEF Server, ServerPublishes, ServerRuns, ServerSyncs, OtherClientWrites
  <2>2. QED
    BY <1>1, <2>1, FramesStay DEF local
<1>6. CASE UNCHANGED vars
  BY <1>1, <1>6, FramesStay DEF vars
<1>7. QED
  BY <1>2, <1>3, <1>4, <1>5, <1>6 DEF Next

(* Between calls nothing is owed.                                          *)
LEMMA PushedAtRest == PushInv => ChangesPushedOnce
<1> SUFFICES ASSUME PushInv, depth = 0
             PROVE  methods = writes
  BY DEF ChangesPushedOnce
<1>1. \A d \in Depth : frames[d] = IdleFrame
  BY DEF PushInv, FrameInv, Depth
<1>2. Owed = {}
  BY <1>1, IdleFrameFields, NothingDue DEF Owed
<1>3. QED
  BY <1>2, FS_EmptySet, Numbers DEF PushInv, TypeInv

(***************************************************************************)
(* Every change of a document that the user makes calls one method, at     *)
(* whatever depth of callbacks and however the documents written overlap,  *)
(* and a change that the server tells of calls none, as long as callbacks  *)
(* of messages do not upsert or remove and the callbacks of their writes   *)
(* do not write again (ddp_collection.cpp:34-77, 98-153 and the blocks at  *)
(* 158, 170 and 191).                                                      *)
(***************************************************************************)
THEOREM ChangesArePushed ==
  ASSUME {"deep", "upsert", "remove"} \cap Liberty = {}
  PROVE  Spec => []ChangesPushedOnce
<1>1. PushInv => ChangesPushedOnce
  BY PushedAtRest
<1>2. PushInv /\ [Next]_vars => PushInv'
  BY PushKept
<1>3. QED
  BY <1>1, <1>2, InitPush, PTL DEF Spec

-----------------------------------------------------------------------------
(* What a message makes of a document, and the folds of AfterMethods and   *)
(* AfterData, for any queue.                                               *)
MethodStep(id, doc, m) ==
  IF m.msg = "method" /\ m.id = id THEN ServerEdited(m.edit, doc) ELSE doc
DataStep(id, doc, m) ==
  IF m.msg = "data" /\ m.id = id THEN Edited(m.edit, doc) ELSE doc

Ran(id, doc, q) == FoldLeft(LAMBDA d, m : MethodStep(id, d, m), doc, q)
Told(id, doc, q) == FoldLeft(LAMBDA d, m : DataStep(id, d, m), doc, q)

MethodEffect(id) ==
  [m \in ToServer |-> [doc \in Stored |-> MethodStep(id, doc, m)]]
DataEffect(id) ==
  [m \in ToClient |-> [doc \in Stored |-> DataStep(id, doc, m)]]

LEMMA EffectTypes ==
  ASSUME NEW id
  PROVE  /\ MethodEffect(id) \in [ToServer -> [Stored -> Stored]]
         /\ DataEffect(id) \in [ToClient -> [Stored -> Stored]]
<1>1. ASSUME NEW m \in ToServer, NEW doc \in Stored
      PROVE  MethodStep(id, doc, m) \in Stored
  <2>1. m.msg = "method" => m.edit \in Edit
    BY DEF ToServer
  <2>2. QED
    BY <2>1, EditedType DEF MethodStep
<1>2. ASSUME NEW m \in ToClient, NEW doc \in Stored
      PROVE  DataStep(id, doc, m) \in Stored
  <2>1. m.msg = "data" => m.edit \in Edit
    BY DEF ToClient
  <2>2. QED
    BY <2>1, EditedType DEF DataStep
<1>3. QED
  BY <1>1, <1>2 DEF MethodEffect, DataEffect

LEMMA RanIs ==
  ASSUME NEW id, NEW doc \in Stored, NEW q \in Seq(ToServer)
  PROVE  Ran(id, doc, q) = Through(MethodEffect(id), Stored, doc, q)
<1> DEFINE F == MethodEffect(id)
           n == Len(q)
           Body(g) == [S \in SUBSET (DOMAIN q) |->
                         IF S = {} THEN doc ELSE MethodStep(id, g[S \ {Max(S)}], q[Max(S)])]
           c == CHOOSE g : g = Body(g)
<1>1. Ran(id, doc, q) = c[DOMAIN q]
  BY Zenon DEF Ran, FoldLeft, MapThenFoldSet
<1>2. n \in Nat /\ DOMAIN q = 1 .. n /\ F \in [ToServer -> [Stored -> Stored]]
  BY LenProperties, EffectTypes
<1>3. \A S \in SUBSET (DOMAIN q) : S # {} => Max(S) \in DOMAIN q /\ q[Max(S)] \in ToServer
  BY <1>2, MaxIn, ElementOfSeq
<1>4. \A S \in SUBSET (DOMAIN q), d \in Stored :
        S # {} => MethodStep(id, d, q[Max(S)]) = F[q[Max(S)]][d]
  BY <1>3 DEF MethodEffect
<1>5. c = Body(c)
  <2> DEFINE H == [i \in 1 .. n |-> F[q[i]]]
  <2>1. H \in [1 .. n -> [Stored -> Stored]]
    BY <1>2, ElementOfSeq
  <2>2. PICK g : Iterates(H, Stored, doc, n, g)
    <3>1. n \in Nat
      BY <1>2
    <3> HIDE DEF H, n, F
    <3>2. QED
      BY <2>1, <3>1, Iteration
  <2>3. ASSUME NEW S \in SUBSET (DOMAIN q)
        PROVE  g[S] = IF S = {} THEN doc ELSE MethodStep(id, g[S \ {Max(S)}], q[Max(S)])
    <3>1. g[S \ {Max(S)}] \in Stored
      BY <1>2, <2>2 DEF Iterates
    <3>2. S # {} => H[Max(S)] = F[q[Max(S)]]
      BY <1>2, <1>3
    <3> HIDE DEF H, F
    <3>3. QED
      BY <1>2, <1>4, <2>2, <3>1, <3>2 DEF Iterates
  <2>4. g = Body(g)
    BY <1>2, <2>2, <2>3 DEF Iterates
  <2> HIDE DEF Body
  <2>5. QED
    BY <2>4
<1>6. /\ DOMAIN c = SUBSET (DOMAIN q)
      /\ c[{}] = doc
      /\ \A S \in SUBSET (DOMAIN q) :
           S # {} => c[S] = MethodStep(id, c[S \ {Max(S)}], q[Max(S)])
  <2> HIDE DEF c
  <2>1. QED
    BY <1>5
<1> HIDE DEF c, F
<1>7. c[DOMAIN q] = Through(F, Stored, doc, q)
  <2>1. \A S \in SUBSET (DOMAIN q) :
          S # {} /\ c[S \ {Max(S)}] \in Stored => c[S] = F[q[Max(S)]][c[S \ {Max(S)}]]
    BY <1>4, <1>6
  <2>2. F \in [ToServer -> [Stored -> Stored]]
    BY <1>2
  <2>3. DOMAIN c = SUBSET (DOMAIN q) /\ c[{}] = doc
    BY <1>6
  <2>4. Folds(F, Stored, doc, q, c)
    BY <2>1, <2>3 DEF Folds
  <2>5. QED
    BY <2>2, <2>4, FoldIs
<1>8. QED
  BY <1>1, <1>7 DEF F

LEMMA ToldIs ==
  ASSUME NEW id, NEW doc \in Stored, NEW q \in Seq(ToClient)
  PROVE  Told(id, doc, q) = Through(DataEffect(id), Stored, doc, q)
<1> DEFINE F == DataEffect(id)
           n == Len(q)
           Body(g) == [S \in SUBSET (DOMAIN q) |->
                         IF S = {} THEN doc ELSE DataStep(id, g[S \ {Max(S)}], q[Max(S)])]
           c == CHOOSE g : g = Body(g)
<1>1. Told(id, doc, q) = c[DOMAIN q]
  BY Zenon DEF Told, FoldLeft, MapThenFoldSet
<1>2. n \in Nat /\ DOMAIN q = 1 .. n /\ F \in [ToClient -> [Stored -> Stored]]
  BY LenProperties, EffectTypes
<1>3. \A S \in SUBSET (DOMAIN q) : S # {} => Max(S) \in DOMAIN q /\ q[Max(S)] \in ToClient
  BY <1>2, MaxIn, ElementOfSeq
<1>4. \A S \in SUBSET (DOMAIN q), d \in Stored :
        S # {} => DataStep(id, d, q[Max(S)]) = F[q[Max(S)]][d]
  BY <1>3 DEF DataEffect
<1>5. c = Body(c)
  <2> DEFINE H == [i \in 1 .. n |-> F[q[i]]]
  <2>1. H \in [1 .. n -> [Stored -> Stored]]
    BY <1>2, ElementOfSeq
  <2>2. PICK g : Iterates(H, Stored, doc, n, g)
    <3>1. n \in Nat
      BY <1>2
    <3> HIDE DEF H, n, F
    <3>2. QED
      BY <2>1, <3>1, Iteration
  <2>3. ASSUME NEW S \in SUBSET (DOMAIN q)
        PROVE  g[S] = IF S = {} THEN doc ELSE DataStep(id, g[S \ {Max(S)}], q[Max(S)])
    <3>1. g[S \ {Max(S)}] \in Stored
      BY <1>2, <2>2 DEF Iterates
    <3>2. S # {} => H[Max(S)] = F[q[Max(S)]]
      BY <1>2, <1>3
    <3> HIDE DEF H, F
    <3>3. QED
      BY <1>2, <1>4, <2>2, <3>1, <3>2 DEF Iterates
  <2>4. g = Body(g)
    BY <1>2, <2>2, <2>3 DEF Iterates
  <2> HIDE DEF Body
  <2>5. QED
    BY <2>4
<1>6. /\ DOMAIN c = SUBSET (DOMAIN q)
      /\ c[{}] = doc
      /\ \A S \in SUBSET (DOMAIN q) :
           S # {} => c[S] = DataStep(id, c[S \ {Max(S)}], q[Max(S)])
  <2> HIDE DEF c
  <2>1. QED
    BY <1>5
<1> HIDE DEF c, F
<1>7. c[DOMAIN q] = Through(F, Stored, doc, q)
  <2>1. \A S \in SUBSET (DOMAIN q) :
          S # {} /\ c[S \ {Max(S)}] \in Stored => c[S] = F[q[Max(S)]][c[S \ {Max(S)}]]
    BY <1>4, <1>6
  <2>2. F \in [ToClient -> [Stored -> Stored]]
    BY <1>2
  <2>3. DOMAIN c = SUBSET (DOMAIN q) /\ c[{}] = doc
    BY <1>6
  <2>4. Folds(F, Stored, doc, q, c)
    BY <2>1, <2>3 DEF Folds
  <2>5. QED
    BY <2>2, <2>4, FoldIs
<1>8. QED
  BY <1>1, <1>7 DEF F

LEMMA AfterMethodsFold == \A id : AfterMethods(id) = Ran(id, db[id], toServer)
BY Zenon DEF AfterMethods, Ran, MethodStep

LEMMA AfterDataFold == \A id : AfterData(id) = Told(id, store[id], toClient)
BY Zenon DEF AfterData, Reached, Told, DataStep

(* The two copies of a document after the messages about it, as paths.     *)
LEMMA AfterMethodsIs ==
  TypeInv => \A id \in Id : AfterMethods(id) = Through(MethodEffect(id), Stored, db[id], toServer)
<1> SUFFICES ASSUME TypeInv, NEW id \in Id
             PROVE  AfterMethods(id) = Through(MethodEffect(id), Stored, db[id], toServer)
  OBVIOUS
<1>1. db[id] \in Stored /\ toServer \in Seq(ToServer)
  BY DEF TypeInv, TypeOK
<1>2. QED
  BY <1>1, AfterMethodsFold, RanIs

LEMMA AfterDataIs ==
  TypeInv => \A id \in Id : AfterData(id) = Through(DataEffect(id), Stored, store[id], toClient)
<1> SUFFICES ASSUME TypeInv, NEW id \in Id
             PROVE  AfterData(id) = Through(DataEffect(id), Stored, store[id], toClient)
  OBVIOUS
<1>1. store[id] \in Stored /\ toClient \in Seq(ToClient)
  BY DEF TypeInv, TypeOK
<1>2. QED
  BY <1>1, AfterDataFold, ToldIs

LEMMA AfterMethodsNext ==
  TypeInv' => \A id \in Id : AfterMethods(id)' = Through(MethodEffect(id), Stored, db'[id], toServer')
<1>1. (TypeInv => \A id \in Id :
         AfterMethods(id) = Through(MethodEffect(id), Stored, db[id], toServer))'
  BY AfterMethodsIs, PTL
<1>2. QED
  BY <1>1

LEMMA AfterDataNext ==
  TypeInv' => \A id \in Id : AfterData(id)' = Through(DataEffect(id), Stored, store'[id], toClient')
<1>1. (TypeInv => \A id \in Id :
         AfterData(id) = Through(DataEffect(id), Stored, store[id], toClient))'
  BY AfterDataIs, PTL
<1>2. QED
  BY <1>1

-----------------------------------------------------------------------------
(* The copies in a step: nothing happens to them, a message is sent, or    *)
(* the first message arrives and does to the copy what the other side      *)
(* reckoned with.                                                          *)
LEMMA StepTypes ==
  ASSUME NEW id, NEW doc \in Stored
  PROVE  /\ \A m \in ToServer : /\ MethodEffect(id)[m][doc] = MethodStep(id, doc, m)
                                /\ MethodStep(id, doc, m) \in Stored
         /\ \A m \in ToClient : /\ DataEffect(id)[m][doc] = DataStep(id, doc, m)
                                /\ DataStep(id, doc, m) \in Stored
<1>1. /\ \A m \in ToServer : MethodEffect(id)[m][doc] = MethodStep(id, doc, m)
      /\ \A m \in ToClient : DataEffect(id)[m][doc] = DataStep(id, doc, m)
  BY DEF MethodEffect, DataEffect
<1>2. /\ MethodEffect(id) \in [ToServer -> [Stored -> Stored]]
      /\ DataEffect(id) \in [ToClient -> [Stored -> Stored]]
  BY EffectTypes
<1>3. /\ \A m \in ToServer : MethodEffect(id)[m][doc] \in Stored
      /\ \A m \in ToClient : DataEffect(id)[m][doc] \in Stored
  BY <1>2
<1>4. QED
  BY <1>1, <1>3

LEMMA MethodsSame ==
  ASSUME TypeInv, TypeInv', NEW id \in Id, db'[id] = db[id], toServer' = toServer
  PROVE  AfterMethods(id)' = AfterMethods(id)
BY AfterMethodsIs, AfterMethodsNext

LEMMA DataSame ==
  ASSUME TypeInv, TypeInv', NEW id \in Id, store'[id] = store[id], toClient' = toClient
  PROVE  AfterData(id)' = AfterData(id)
BY AfterDataIs, AfterDataNext

LEMMA MethodsSent ==
  ASSUME TypeInv, TypeInv', NEW id \in Id, db'[id] = db[id],
         NEW m \in ToServer, toServer' = Append(toServer, m)
  PROVE  AfterMethods(id)' = MethodStep(id, AfterMethods(id), m)
<1> DEFINE F == MethodEffect(id)
<1>1. /\ F \in [ToServer -> [Stored -> Stored]]
      /\ db[id] \in Stored /\ toServer \in Seq(ToServer)
  BY EffectTypes DEF TypeInv, TypeOK
<1> HIDE DEF F
<1>2. /\ Through(F, Stored, db[id], Append(toServer, m)) = F[m][Through(F, Stored, db[id], toServer)]
      /\ Through(F, Stored, db[id], toServer) \in Stored
  BY <1>1, ThroughAppend, ThroughType
<1>3. /\ AfterMethods(id) = Through(F, Stored, db[id], toServer)
      /\ AfterMethods(id)' = Through(F, Stored, db[id], Append(toServer, m))
  BY AfterMethodsIs, AfterMethodsNext DEF F
<1>4. QED
  BY <1>2, <1>3, StepTypes DEF F

LEMMA DataSent ==
  ASSUME TypeInv, TypeInv', NEW id \in Id, store'[id] = store[id],
         NEW m \in ToClient, toClient' = Append(toClient, m)
  PROVE  AfterData(id)' = DataStep(id, AfterData(id), m)
<1> DEFINE F == DataEffect(id)
<1>1. /\ F \in [ToClient -> [Stored -> Stored]]
      /\ store[id] \in Stored /\ toClient \in Seq(ToClient)
  BY EffectTypes DEF TypeInv, TypeOK
<1> HIDE DEF F
<1>2. /\ Through(F, Stored, store[id], Append(toClient, m))
           = F[m][Through(F, Stored, store[id], toClient)]
      /\ Through(F, Stored, store[id], toClient) \in Stored
  BY <1>1, ThroughAppend, ThroughType
<1>3. /\ AfterData(id) = Through(F, Stored, store[id], toClient)
      /\ AfterData(id)' = Through(F, Stored, store[id], Append(toClient, m))
  BY AfterDataIs, AfterDataNext DEF F
<1>4. QED
  BY <1>2, <1>3, StepTypes DEF F

LEMMA MethodsArrive ==
  ASSUME TypeInv, TypeInv', NEW id \in Id, toServer # <<>>, toServer' = Tail(toServer),
         db'[id] = MethodStep(id, db[id], Head(toServer))
  PROVE  AfterMethods(id)' = AfterMethods(id)
<1> DEFINE F == MethodEffect(id)
<1>1. F \in [ToServer -> [Stored -> Stored]] /\ db[id] \in Stored
  BY EffectTypes DEF TypeInv, TypeOK
<1> HIDE DEF F
<1>2. toServer \in Seq(ToServer)
  BY DEF TypeInv, TypeOK
<1>3. \A q \in Seq(ToServer) :
        q # <<>> => /\ Head(q) \in ToServer
                    /\ Through(F, Stored, db[id], q)
                         = Through(F, Stored, F[Head(q)][db[id]], Tail(q))
  BY <1>1, ThroughHead
<1>4. F[Head(toServer)][db[id]] = db'[id]
  BY <1>1, <1>2, <1>3, StepTypes DEF F
<1>5. /\ AfterMethods(id) = Through(F, Stored, db[id], toServer)
      /\ AfterMethods(id)' = Through(F, Stored, db'[id], Tail(toServer))
  BY AfterMethodsIs, AfterMethodsNext DEF F
<1>6. QED
  BY <1>2, <1>3, <1>4, <1>5

LEMMA DataArrive ==
  ASSUME TypeInv, TypeInv', NEW id \in Id, toClient # <<>>, toClient' = Tail(toClient),
         store'[id] = DataStep(id, store[id], Head(toClient))
  PROVE  AfterData(id)' = AfterData(id)
<1> DEFINE F == DataEffect(id)
<1>1. F \in [ToClient -> [Stored -> Stored]] /\ store[id] \in Stored
  BY EffectTypes DEF TypeInv, TypeOK
<1> HIDE DEF F
<1>2. toClient \in Seq(ToClient)
  BY DEF TypeInv, TypeOK
<1>3. \A q \in Seq(ToClient) :
        q # <<>> => /\ Head(q) \in ToClient
                    /\ Through(F, Stored, store[id], q)
                         = Through(F, Stored, F[Head(q)][store[id]], Tail(q))
  BY <1>1, ThroughHead
<1>4. F[Head(toClient)][store[id]] = store'[id]
  BY <1>1, <1>2, <1>3, StepTypes DEF F
<1>5. /\ AfterData(id) = Through(F, Stored, store[id], toClient)
      /\ AfterData(id)' = Through(F, Stored, store'[id], Tail(toClient))
  BY AfterDataIs, AfterDataNext DEF F
<1>6. QED
  BY <1>2, <1>3, <1>4, <1>5

(* Without messages about the document, both copies are what they are.     *)
LEMMA NoMethods ==
  ASSUME TypeInv, NEW id \in Id, toServer = <<>>
  PROVE  AfterMethods(id) = db[id]
<1> DEFINE F == MethodEffect(id)
<1>1. F \in [ToServer -> [Stored -> Stored]] /\ db[id] \in Stored
  BY EffectTypes DEF TypeInv, TypeOK
<1>2. AfterMethods(id) = Through(F, Stored, db[id], <<>>)
  BY AfterMethodsIs
<1> HIDE DEF F
<1>3. QED
  BY <1>1, <1>2, ThroughNothing

(* When only the first method is about the document, its execution makes   *)
(* the copy of the server the client's.                                    *)
LEMMA OneMethod ==
  ASSUME TypeInv, NEW id \in Id, toServer # <<>>,
         \A i \in 2 .. Len(toServer) : toServer[i].msg = "method" => toServer[i].id # id
  PROVE  AfterMethods(id) = MethodStep(id, db[id], Head(toServer))
<1> DEFINE F == MethodEffect(id)
           doc == MethodStep(id, db[id], Head(toServer))
           q == Tail(toServer)
<1>1. /\ F \in [ToServer -> [Stored -> Stored]]
      /\ db[id] \in Stored /\ toServer \in Seq(ToServer)
  BY EffectTypes DEF TypeInv, TypeOK
<1>2. /\ Head(toServer) \in ToServer /\ q \in Seq(ToServer)
      /\ \A i \in 1 .. Len(q) : i + 1 \in 2 .. Len(toServer) /\ q[i] = toServer[i + 1]
  <2>1. /\ Head(toServer) \in ToServer /\ q \in Seq(ToServer) /\ Len(q) = Len(toServer) - 1
        /\ \A i \in 1 .. Len(q) : q[i] = toServer[i + 1]
    BY <1>1, HeadTailProperties
  <2>2. Len(toServer) \in Nat
    BY <1>1, LenProperties
  <2> HIDE DEF q
  <2>3. QED
    BY <2>1, <2>2
<1>3. F[Head(toServer)][db[id]] = doc /\ doc \in Stored
  BY <1>1, <1>2, StepTypes
<1>4. AfterMethods(id) = Through(F, Stored, db[id], toServer)
  BY AfterMethodsIs
<1>5. Through(F, Stored, db[id], toServer) = Through(F, Stored, F[Head(toServer)][db[id]], q)
  <2> HIDE DEF F
  <2>1. QED
    BY <1>1, ThroughHead
<1>6. \A i \in 1 .. Len(q) : F[q[i]][doc] = doc
  <2>1. ASSUME NEW i \in 1 .. Len(q)
        PROVE  F[q[i]][doc] = doc
    <3>1. q[i] \in ToServer
      BY <1>2, ElementOfSeq
    <3>2. ~(q[i].msg = "method" /\ q[i].id = id)
      BY <1>2
    <3>3. F[q[i]][doc] = MethodStep(id, doc, q[i])
      BY <1>3, <3>1, StepTypes
    <3>4. MethodStep(id, doc, q[i]) = doc
      BY <3>2 DEF MethodStep
    <3>5. QED
      BY <3>3, <3>4
  <2>2. QED
    BY <2>1
<1> HIDE DEF F, q, doc
<1>7. Through(F, Stored, doc, q) = doc
  BY <1>1, <1>2, <1>3, <1>6, ThroughOthers
<1>8. QED
  BY <1>3, <1>4, <1>5, <1>7 DEF doc

(* Methods about other documents leave the copy of the server as it is.    *)
LEMMA OtherMethods ==
  ASSUME TypeInv, NEW id \in Id,
         \A i \in 1 .. Len(toServer) : toServer[i].msg = "method" => toServer[i].id # id
  PROVE  AfterMethods(id) = db[id]
<1>1. CASE toServer = <<>>
  BY <1>1, NoMethods
<1>2. CASE toServer # <<>>
  <2>1. toServer \in Seq(ToServer) /\ Len(toServer) \in Nat /\ Len(toServer) # 0
        /\ Head(toServer) = toServer[1]
    BY <1>2, LenProperties DEF TypeInv, TypeOK
  <2>2. /\ 1 \in 1 .. Len(toServer)
        /\ \A i \in 2 .. Len(toServer) : i \in 1 .. Len(toServer)
    BY <2>1
  <2>3. AfterMethods(id) = MethodStep(id, db[id], Head(toServer))
    BY <1>2, <2>2, OneMethod
  <2>4. QED
    BY <2>1, <2>2, <2>3 DEF MethodStep
<1>3. QED
  BY <1>1, <1>2

LEMMA NoData ==
  ASSUME TypeInv, NEW id \in Id,
         \A i \in 1 .. Len(toClient) : toClient[i].msg = "data" => toClient[i].id # id
  PROVE  AfterData(id) = store[id]
<1> DEFINE F == DataEffect(id)
<1>1. /\ F \in [ToClient -> [Stored -> Stored]]
      /\ store[id] \in Stored /\ toClient \in Seq(ToClient)
  BY EffectTypes DEF TypeInv, TypeOK
<1>2. \A i \in 1 .. Len(toClient) : F[toClient[i]][store[id]] = store[id]
  <2>1. \A i \in 1 .. Len(toClient) : toClient[i] \in ToClient
    BY <1>1, ElementOfSeq
  <2>2. ASSUME NEW i \in 1 .. Len(toClient)
        PROVE  F[toClient[i]][store[id]] = DataStep(id, store[id], toClient[i])
    BY <1>1, <2>1, StepTypes
  <2>3. QED
    BY <2>2 DEF DataStep
<1>3. AfterData(id) = Through(F, Stored, store[id], toClient)
  BY AfterDataIs
<1> HIDE DEF F
<1>4. QED
  BY <1>1, <1>2, <1>3, ThroughOthers

(* The server publishes every document once.                               *)
LEMMA SetToSeqOnto ==
  ASSUME NEW S, IsFiniteSet(S)
  PROVE  /\ SetToSeq(S) \in Seq(S)
         /\ \A i, j \in 1 .. Len(SetToSeq(S)) : SetToSeq(S)[i] = SetToSeq(S)[j] => i = j
         /\ \A x \in S : \E i \in 1 .. Len(SetToSeq(S)) : SetToSeq(S)[i] = x
<1> DEFINE n == Cardinality(S)
           f == SetToSeq(S)
<1>1. n \in Nat /\ \E g \in [1 .. n -> S] : IsInjective(g)
  <2>1. n \in Nat /\ ExistsBijection(1 .. n, S)
    BY FS_CardinalityType
  <2>2. QED
    BY <2>1 DEF ExistsBijection, Bijection, Injection
<1>2. f \in [1 .. n -> S] /\ IsInjective(f)
  BY <1>1 DEF SetToSeq
<1> HIDE DEF f
<1>3. f \in Seq(S) /\ Len(f) = n
  BY <1>1, <1>2, FunctionIsSeq
<1>4. f \in Injection(1 .. n, S)
  BY <1>2 DEF Injection
<1>5. Cardinality(1 .. n) = Cardinality(S)
  BY <1>1, FS_Interval
<1>6. f \in Surjection(1 .. n, S)
  BY <1>4, <1>5, FS_Injection
<1>7. QED
  BY <1>2, <1>3, <1>6 DEF Surjection, IsInjective, f

LEMMA PublishedPath ==
  ASSUME TypeInv, TypeInv', NEW id \in Id, toClient = <<>>,
         store[id] = NoDoc \/ db[id] # NoDoc,
         toClient' = toClient \o Append(AllDocuments, [msg |-> "ready"])
  PROVE  /\ toClient' \in Seq(ToClient) /\ toClient' # <<>>
         /\ \E v : /\ Path(DataEffect(id), Stored, store[id], toClient', v)
                  /\ v[Len(toClient')] = db[id]
                  /\ \A i \in 1 .. Len(toClient') : v[i] \in {store[id], db[id]}
<1> DEFINE S == {i \in Id : db[i] # NoDoc}
           ids == SetToSeq(S)
           n == Len(ids)
           F == DataEffect(id)
           q == Append(AllDocuments, [msg |-> "ready"])
           Datum(x) == [msg |-> "data", id |-> x, edit |-> Difference(NoDoc, db[x])]
<1>1. IsFiniteSet(S)
  BY FiniteAssumption, FS_Subset
<1>2. /\ \A i \in 1 .. n : ids[i] \in S
      /\ n \in Nat
      /\ \A i, j \in 1 .. n : ids[i] = ids[j] => i = j
      /\ \A x \in S : \E i \in 1 .. n : ids[i] = x
  BY <1>1, SetToSeqOnto, LenProperties, ElementOfSeq
<1>3. AllDocuments = [i \in 1 .. n |-> Datum(ids[i])]
  BY DEF AllDocuments
<1> HIDE DEF ids, n, S
<1>4. /\ Len(q) = n + 1 /\ q[n + 1].msg = "ready"
      /\ \A i \in 1 .. n : /\ q[i].msg = "data" /\ q[i].id = ids[i]
                            /\ q[i].edit = Difference(NoDoc, db[ids[i]])
  <2>1. Len(q) = n + 1 /\ q[n + 1].msg = "ready"
    BY <1>2, <1>3
  <2>2. ASSUME NEW i \in 1 .. n
        PROVE  /\ q[i].msg = "data" /\ q[i].id = ids[i]
               /\ q[i].edit = Difference(NoDoc, db[ids[i]])
    <3>1. q[i] = Datum(ids[i])
      BY <1>2, <1>3
    <3> HIDE DEF q
    <3>2. QED
      BY <3>1
  <2>3. QED
    BY <2>1, <2>2
<1>5. q \in Seq(ToClient) /\ toClient' = q
  BY PublishedTypes
<1>6. /\ F \in [ToClient -> [Stored -> Stored]]
      /\ db[id] \in Stored /\ store[id] \in Stored
  BY EffectTypes DEF TypeInv, TypeOK, Stored
<1> DEFINE Before(i) == id \in S => \E k \in 1 .. n : ids[k] = id /\ i < k
           v == [i \in 0 .. n + 1 |-> IF Before(i) THEN store[id] ELSE db[id]]
<1> HIDE DEF q
<1>7. ASSUME NEW i \in 1 .. n + 1
      PROVE  v[i] = F[q[i]][v[i - 1]]
  <2>1. q[i] \in ToClient /\ v[i - 1] \in Stored /\ i - 1 \in 0 .. n + 1
    BY <1>2, <1>4, <1>5, <1>6, ElementOfSeq
  <2>2. F[q[i]][v[i - 1]] = DataStep(id, v[i - 1], q[i])
    BY <2>1, StepTypes
  <2>3. CASE i \in 1 .. n /\ ids[i] = id
    <3>1. id \in S
      BY <1>2, <2>3
    <3>2. Before(i - 1) /\ ~Before(i)
      BY <1>2, <2>3, <3>1
    <3>3. Edited(Difference(NoDoc, db[id]), store[id]) = db[id]
      BY DEF Edited, Difference
    <3>4. q[i].msg = "data" /\ q[i].id = id /\ q[i].edit = Difference(NoDoc, db[id])
      BY <1>4, <2>3
    <3>5. DataStep(id, store[id], q[i]) = db[id]
      BY <3>3, <3>4 DEF DataStep
    <3>6. QED
      BY <2>1, <2>2, <3>2, <3>5
  <2>4. CASE ~(i \in 1 .. n /\ ids[i] = id)
    <3>1. ~(q[i].msg = "data" /\ q[i].id = id)
      <4>1. CASE i \in 1 .. n
        BY <1>4, <2>4, <4>1
      <4>2. CASE i = n + 1
        BY <1>4, <4>2
      <4>3. QED
        BY <1>2, <4>1, <4>2
    <3>2. Before(i) <=> Before(i - 1)
      BY <1>2, <2>4
    <3>3. DataStep(id, v[i - 1], q[i]) = v[i - 1]
      BY <3>1 DEF DataStep
    <3>4. QED
      BY <2>1, <2>2, <3>2, <3>3
  <2>5. QED
    BY <2>3, <2>4
<1>8. v \in [0 .. n + 1 -> Stored] /\ v[0] = store[id] /\ v[n + 1] = db[id]
  <2>1. id \notin S => db[id] = NoDoc /\ store[id] = NoDoc
    BY DEF S
  <2>2. Before(0)
    BY <1>2
  <2>3. Before(n + 1) => db[id] = store[id]
    BY <1>2, <2>1
  <2> HIDE DEF Before
  <2>4. QED
    BY <1>2, <1>6, <2>2, <2>3
<1>9. \A i \in 0 .. n + 1 : v[i] \in {store[id], db[id]}
  BY DEF v
<1> HIDE DEF v, F
<1>10. Path(F, Stored, store[id], q, v)
  BY <1>4, <1>7, <1>8 DEF Path
<1>11. q # <<>>
  BY <1>2, <1>4
<1>12. \A i \in 1 .. Len(q) : v[i] \in {store[id], db[id]}
  BY <1>2, <1>4, <1>9
<1>13. QED
  BY <1>4, <1>5, <1>8, <1>10, <1>11, <1>12 DEF F

LEMMA Published ==
  ASSUME TypeInv, TypeInv', NEW id \in Id, toClient = <<>>,
         store[id] = NoDoc \/ db[id] # NoDoc,
         store' = store,
         toClient' = toClient \o Append(AllDocuments, [msg |-> "ready"])
  PROVE  AfterData(id)' = db[id]
<1> DEFINE F == DataEffect(id)
<1>1. F \in [ToClient -> [Stored -> Stored]] /\ store[id] \in Stored
  BY EffectTypes DEF TypeInv, TypeOK
<1>2. PICK v : /\ toClient' \in Seq(ToClient)
               /\ Path(F, Stored, store[id], toClient', v) /\ v[Len(toClient')] = db[id]
  BY PublishedPath
<1>3. AfterData(id)' = Through(F, Stored, store[id], toClient')
  BY AfterDataNext
<1> DEFINE q == toClient'
<1>4. /\ q \in Seq(ToClient) /\ Path(F, Stored, store[id], q, v) /\ v[Len(q)] = db[id]
      /\ AfterData(id)' = Through(F, Stored, store[id], q)
  BY <1>2, <1>3
<1> HIDE DEF F, q
<1>5. Through(F, Stored, store[id], q) = v[Len(q)]
  BY <1>1, <1>4, ThroughIs
<1>6. QED
  BY <1>4, <1>5

-----------------------------------------------------------------------------
(* What is under way: the method m for a document at place i of the queue  *)
(* to the server; the report of method m, a change of a document, or the   *)
(* end of the publication at place i of the queue to the client.           *)
Asked(m, id, i) ==
  /\ i \in 1 .. Len(toServer) /\ toServer[i].msg = "method"
  /\ toServer[i].method = m /\ toServer[i].id = id
Reported(m, i) ==
  i \in 1 .. Len(toClient) /\ toClient[i].msg = "updated" /\ toClient[i].method = m
Telling(id, i) ==
  i \in 1 .. Len(toClient) /\ toClient[i].msg = "data" /\ toClient[i].id = id
Completing(i) == i \in 1 .. Len(toClient) /\ toClient[i].msg = "ready"

Unpushed(id) == \E d \in Depth, e \in Event : Due(d, e) /\ e.id = id

(* No document is written while a change of it is being announced.         *)
AnnouncementsDistinct ==
  \A c, d \in Depth : \A e1 \in Events(c), e2 \in Events(d) :
    e1.id = e2.id => c = d /\ e1 = e2

(* A method is asked for, executed, reported, each once; until it is       *)
(* reported its document is idle.                                          *)
MethodsOnce ==
  /\ \A m, i \in Nat, id \in Id : Asked(m, id, i) =>
       /\ <<m, id>> \in idle /\ m \notin unsynced
       /\ \A j \in Nat : ~Reported(m, j)
       /\ \A x \in Id, j \in Nat : Asked(m, x, j) => i = j
  /\ \A m, i \in Nat : Reported(m, i) =>
       /\ m \in 1 .. methods /\ m \notin unsynced
       /\ \A j \in Nat : Reported(m, j) => i = j

(* A document is not idle for longer than that. *)
IdleUntilReported ==
  \A m \in Nat, id \in Id : <<m, id>> \in idle =>
    /\ id \in Own
    /\ m \in unsynced \/ \E i \in Nat : Asked(m, id, i) \/ Reported(m, i)

(* What the server tells of a document of this client is the echo of a     *)
(* method that is not reported before it: the document is idle by then.    *)
ReportedAfter(m, i) == m \in unsynced \/ \E j \in Nat : i < j /\ Reported(m, j)

EchoesDropped ==
  ready => \A id \in Own, i \in Nat : Telling(id, i) =>
             \E m \in Nat : <<m, id>> \in idle /\ ReportedAfter(m, i)

(* Before the subscription is executed nothing is stored; until its end    *)
(* arrives nothing is written, and its documents come before its end.      *)
Subscribing ==
  /\ ~published => /\ toServer = <<[msg |-> "sub"]>> /\ toClient = <<>> /\ ~ready
                   /\ \A id \in Id : store[id] = NoDoc
  /\ published => \A i \in 1 .. Len(toServer) : toServer[i].msg = "method"
  /\ ~ready => /\ methods = 0
               /\ \A id \in Own, i, j \in Nat : Telling(id, i) /\ Completing(j) => i < j

(* The messages under way make the copy of the client the server's.        *)
DataMirrors ==
  published => \A id \in Id : (ready => id \notin Own) => db[id] = AfterData(id)

(* The methods under way make the copy of the server the client's, or what *)
(* it was before a change whose push is due.                               *)
MethodsMirror ==
  /\ \A d \in Depth, e \in Event : Due(d, e) =>
       /\ e.id \in Own /\ ~Pending(e.id)
       /\ AfterMethods(e.id) = e.before /\ store[e.id] = e.after
  /\ ready => \A id \in Own : Unpushed(id) \/ AfterMethods(id) = store[id]

MirrorInv ==
  /\ PushInv
  /\ AnnouncementsDistinct
  /\ MethodsOnce /\ IdleUntilReported /\ EchoesDropped /\ Subscribing
  /\ DataMirrors /\ MethodsMirror

-----------------------------------------------------------------------------
(* The queues in a step. *)
LEMMA ClientTakes ==
  ASSUME TypeInv, toClient # <<>>, toClient' = Tail(toClient)
  PROVE  /\ \A m, i \in Nat : Reported(m, i)' <=> i # 0 /\ Reported(m, i + 1)
         /\ \A id \in Id, i \in Nat : Telling(id, i)' <=> i # 0 /\ Telling(id, i + 1)
         /\ \A i \in Nat : Completing(i)' <=> i # 0 /\ Completing(i + 1)
         /\ \A m \in Nat : Reported(m, 1) <=> Head(toClient).msg = "updated" /\ Head(toClient).method = m
         /\ \A id \in Id : Telling(id, 1) <=> Head(toClient).msg = "data" /\ Head(toClient).id = id
         /\ Completing(1) <=> Head(toClient).msg = "ready"
         /\ \A i \in Nat : /\ \A m \in Nat : Reported(m, i) => i # 0
                           /\ \A id \in Id : Telling(id, i) => i # 0
                           /\ Completing(i) => i # 0
<1>1. /\ toClient \in Seq(ToClient) /\ Len(toClient) \in Nat
      /\ Len(toClient) # 0 /\ Head(toClient) = toClient[1]
  BY HeadTailProperties, LenProperties DEF TypeInv, TypeOK
<1>2. /\ Len(toClient') = Len(toClient) - 1
      /\ \A i \in 1 .. Len(toClient) - 1 : toClient'[i] = toClient[i + 1]
  BY <1>1, HeadTailProperties
<1>3. \A i \in Nat : i \in 1 .. Len(toClient') <=> i # 0 /\ i + 1 \in 1 .. Len(toClient)
  BY <1>1, <1>2
<1>4. 1 \in 1 .. Len(toClient)
  BY <1>1
<1>5. QED
  BY <1>1, <1>2, <1>3, <1>4 DEF Reported, Telling, Completing

LEMMA ClientGets ==
  ASSUME TypeInv, NEW x \in ToClient, toClient' = Append(toClient, x)
  PROVE  \E n \in Nat :
           /\ \A m, i \in Nat :
                Reported(m, i)' <=> Reported(m, i) \/ (i = n /\ x.msg = "updated" /\ x.method = m)
           /\ \A id \in Id, i \in Nat :
                Telling(id, i)' <=> Telling(id, i) \/ (i = n /\ x.msg = "data" /\ x.id = id)
           /\ \A i \in Nat : Completing(i)' <=> Completing(i) \/ (i = n /\ x.msg = "ready")
           /\ \A i \in Nat : /\ \A m \in Nat : Reported(m, i) => i < n
                             /\ \A id \in Id : Telling(id, i) => i < n
                             /\ Completing(i) => i < n
<1>1. toClient \in Seq(ToClient) /\ Len(toClient) \in Nat
  BY LenProperties DEF TypeInv, TypeOK
<1>2. /\ Len(toClient') = Len(toClient) + 1
      /\ \A i \in 1 .. Len(toClient) : toClient'[i] = toClient[i]
      /\ toClient'[Len(toClient) + 1] = x
  BY <1>1, AppendProperties
<1>3. PICK n \in Nat : n = Len(toClient) + 1
  BY <1>1
<1>4. \A i \in Nat : /\ i \in 1 .. Len(toClient') <=> i \in 1 .. Len(toClient) \/ i = n
                     /\ i \in 1 .. Len(toClient) => i < n
  BY <1>1, <1>2, <1>3
<1>5. ASSUME NEW i \in Nat
      PROVE  /\ \A m \in Nat :
                  /\ Reported(m, i)' <=> Reported(m, i) \/ (i = n /\ x.msg = "updated" /\ x.method = m)
                  /\ Reported(m, i) => i < n
             /\ \A id \in Id :
                  /\ Telling(id, i)' <=> Telling(id, i) \/ (i = n /\ x.msg = "data" /\ x.id = id)
                  /\ Telling(id, i) => i < n
             /\ Completing(i)' <=> Completing(i) \/ (i = n /\ x.msg = "ready")
             /\ Completing(i) => i < n
  BY <1>2, <1>3, <1>4 DEF Reported, Telling, Completing
<1>6. QED
  BY <1>5

LEMMA ServerTakes ==
  ASSUME TypeInv, toServer # <<>>, toServer' = Tail(toServer)
  PROVE  /\ \A m, i \in Nat, id \in Id : Asked(m, id, i)' <=> i # 0 /\ Asked(m, id, i + 1)
         /\ \A m \in Nat, id \in Id :
              Asked(m, id, 1) <=> /\ Head(toServer).msg = "method"
                                  /\ Head(toServer).method = m /\ Head(toServer).id = id
         /\ \A m, i \in Nat, id \in Id : Asked(m, id, i) => i # 0
         /\ \A i \in 1 .. Len(toServer') :
              i + 1 \in 1 .. Len(toServer) /\ toServer'[i] = toServer[i + 1]
         /\ 1 \in 1 .. Len(toServer) /\ toServer[1] = Head(toServer)
<1>1. /\ toServer \in Seq(ToServer) /\ Len(toServer) \in Nat
      /\ Len(toServer) # 0 /\ Head(toServer) = toServer[1]
  BY HeadTailProperties, LenProperties DEF TypeInv, TypeOK
<1>2. /\ Len(toServer') = Len(toServer) - 1
      /\ \A i \in 1 .. Len(toServer) - 1 : toServer'[i] = toServer[i + 1]
  BY <1>1, HeadTailProperties
<1>3. \A i \in Nat : i \in 1 .. Len(toServer') <=> i # 0 /\ i + 1 \in 1 .. Len(toServer)
  BY <1>1, <1>2
<1>4. 1 \in 1 .. Len(toServer)
  BY <1>1
<1>5. \A i \in 1 .. Len(toServer') :
        i + 1 \in 1 .. Len(toServer) /\ toServer'[i] = toServer[i + 1]
  BY <1>1, <1>2
<1>6. QED
  BY <1>1, <1>2, <1>3, <1>4, <1>5 DEF Asked

LEMMA ServerGets ==
  ASSUME TypeInv, NEW x \in ToServer, toServer' = Append(toServer, x)
  PROVE  \E n \in Nat :
           /\ \A m, i \in Nat, id \in Id :
                Asked(m, id, i)' <=> \/ Asked(m, id, i)
                                     \/ i = n /\ x.msg = "method" /\ x.method = m /\ x.id = id
           /\ \A m, i \in Nat, id \in Id : Asked(m, id, i) => i < n
           /\ \A i \in 1 .. Len(toServer') :
                \/ i \in 1 .. Len(toServer) /\ toServer'[i] = toServer[i]
                \/ toServer'[i] = x
<1>1. toServer \in Seq(ToServer) /\ Len(toServer) \in Nat
  BY LenProperties DEF TypeInv, TypeOK
<1>2. /\ Len(toServer') = Len(toServer) + 1
      /\ \A i \in 1 .. Len(toServer) : toServer'[i] = toServer[i]
      /\ toServer'[Len(toServer) + 1] = x
  BY <1>1, AppendProperties
<1>3. PICK n \in Nat : n = Len(toServer) + 1
  BY <1>1
<1>4. \A i \in Nat : /\ i \in 1 .. Len(toServer') <=> i \in 1 .. Len(toServer) \/ i = n
                     /\ i \in 1 .. Len(toServer) => i < n
  BY <1>1, <1>2, <1>3
<1>5. \A i \in 1 .. Len(toServer') : i \in Nat
  BY <1>1, <1>2
<1>6. QED
  BY <1>2, <1>3, <1>4, <1>5 DEF Asked

(* The methods under way have been called. *)
LEMMA AskedTypes ==
  ASSUME TypeInv, NEW m, NEW id, NEW i, Asked(m, id, i)
  PROVE  m \in 1 .. methods /\ id \in Id
<1>1. toServer[i] \in Sent(methods) /\ toServer[i].msg = "method"
  BY ElementOfSeq DEF TypeInv, Asked
<1>2. QED
  BY <1>1 DEF Sent, Asked

-----------------------------------------------------------------------------
(* What is due is being announced; between calls nothing is.               *)
LEMMA DueAnnounced ==
  ASSUME NEW d \in Depth, NEW e \in Event, Due(d, e)
  PROVE  e \in Events(d)
BY NoEventAssumption DEF Due, Events

LEMMA DueReady ==
  ASSUME PushInv, NEW d \in Depth, NEW e \in Event, Due(d, e)
  PROVE  ready
BY DueAnnounced DEF Due, PushInv, FrameInv

LEMMA AtRest ==
  ASSUME PushInv, depth = 0
  PROVE  /\ \A d \in Depth : frames[d] = IdleFrame /\ Events(d) = {}
         /\ \A d \in Depth, e \in Event : ~Due(d, e)
<1>1. \A d \in Depth : frames[d] = IdleFrame
  BY DEF PushInv, FrameInv, Depth
<1>2. \A d \in Depth : Events(d) = {}
  BY <1>1, IdleFrameFields DEF Events
<1>3. QED
  BY <1>1, <1>2, DueAnnounced

(* Steps that leave the queues, and the methods in them, alone.            *)
LEMMA QueuesStay ==
  ASSUME MethodsOnce, IdleUntilReported, EchoesDropped,
         UNCHANGED <<toServer, toClient, idle, methods, unsynced, ready>>
  PROVE  MethodsOnce' /\ IdleUntilReported' /\ EchoesDropped'
BY DEF MethodsOnce, IdleUntilReported, EchoesDropped, ReportedAfter, Asked, Reported, Telling

LEMMA InitMirror == Init => MirrorInv
<1> SUFFICES ASSUME Init
             PROVE  MirrorInv
  OBVIOUS
<1>1. PushInv /\ depth = 0
  BY InitPush DEF Init
<1>2. /\ \A m, i : ~Reported(m, i)
      /\ \A id, i : ~Telling(id, i)
      /\ \A m, id, i : ~Asked(m, id, i)
  BY DEF Init, Reported, Telling, Asked
<1>3. MethodsOnce /\ IdleUntilReported /\ EchoesDropped
  BY <1>2 DEF Init, MethodsOnce, IdleUntilReported, EchoesDropped
<1>4. Subscribing
  BY <1>2 DEF Init, Subscribing
<1>5. DataMirrors /\ MethodsMirror /\ AnnouncementsDistinct
  BY <1>1, AtRest DEF Init, DataMirrors, MethodsMirror, AnnouncementsDistinct
<1>6. QED
  BY <1>1, <1>3, <1>4, <1>5 DEF MirrorInv

-----------------------------------------------------------------------------
(* A call of the user: what it changes is due, and nothing was under way   *)
(* for it.                                                                 *)
LEMMA UserMirror ==
  ASSUME Liberty = {}, MirrorInv, PushInv', UserCall
  PROVE  MirrorInv'
<1>1. PICK connects \in SUBSET Kind, events \in SUBSET Event :
        Write(connects, events) /\ OwnChanges(events)
  BY UserCallWrites DEF MirrorInv, PushInv, TypeInv
<1>2. /\ PushInv /\ TypeInv /\ TypeInv' /\ Own \subseteq Id
  BY InputsAssumption DEF MirrorInv, PushInv
<1>3. /\ ready /\ depth < MaxDepth
      /\ \A e \in events : ~Pending(e.id) /\ ~Announcing(e.id)
      /\ UNCHANGED <<ready, idle, methods, toServer, toClient, server>>
  BY <1>1 DEF Write
<1>4. PICK n \in Depth : n = depth + 1
  BY <1>2, <1>3, Numbers DEF TypeInv
<1>5. frames' = [frames EXCEPT ![n] = Started({}, connects, events)]
  BY <1>1, <1>4 DEF Write
<1>6. frames[n] = IdleFrame
  BY <1>2, <1>4, Numbers DEF PushInv, TypeInv, FrameInv
<1>7. /\ frames'[n].blocks = {} /\ frames'[n].todo = events /\ frames'[n].event = NoEvent
      /\ \A d \in Depth : d # n => frames'[d] = frames[d]
  BY <1>2, <1>5 DEF Started, TypeInv, TypeOK
<1>8. /\ Events(n) = {} /\ Events(n)' = events
      /\ \A d \in Depth : d # n => Events(d)' = Events(d)
  BY <1>6, <1>7, IdleFrameFields DEF Events
<1>9. \A d \in Depth : \A x \in Events(d), e \in events : x.id # e.id
  BY <1>3 DEF Announcing, Events
<1>10. AnnouncementsDistinct'
  <2>1. AnnouncementsDistinct /\ \A e1, e2 \in events : e1.id = e2.id => e1 = e2
    BY <1>1 DEF MirrorInv, OwnChanges
  <2>2. QED
    BY <1>8, <1>9, <2>1 DEF AnnouncementsDistinct
<1>11. /\ \A e \in events : store'[e.id] = e.after
       /\ \A id \in Id : (\A e \in events : e.id # id) => store'[id] = store[id]
  <2>1. \A id \in Id : store'[id] = IF \E e \in events : e.id = id
                                   THEN (CHOOSE e \in events : e.id = id).after ELSE store[id]
    BY <1>1 DEF Write
  <2>2. \A e \in events : e.id \in Id /\ (CHOOSE x \in events : x.id = e.id) = e
    BY <1>1 DEF OwnChanges, Event
  <2>3. QED
    BY <2>1, <2>2
<1>12. \A d \in Depth, e \in Event : Due(d, e)' <=> Due(d, e) \/ (d = n /\ e \in events)
  <2>1. \A e \in Event : ~Due(n, e) /\ (Due(n, e)' <=> e \in events)
    BY <1>6, <1>7, IdleFrameFields, NoEventAssumption DEF Due
  <2>2. \A d \in Depth, e \in Event : d # n => (Due(d, e)' <=> Due(d, e))
    BY <1>7 DEF Due
  <2>3. QED
    BY <2>1, <2>2
<1>13. \A id \in Id : AfterMethods(id)' = AfterMethods(id)
  BY <1>2, <1>3, MethodsSame DEF server
<1>14. MethodsMirror'
  <2>1. ASSUME NEW d \in Depth, NEW e \in Event, Due(d, e)'
        PROVE  /\ e.id \in Own /\ ~Pending(e.id)'
               /\ AfterMethods(e.id)' = e.before /\ store'[e.id] = e.after
    <3>1. Pending(e.id)' <=> Pending(e.id)
      BY <1>3 DEF Pending
    <3>2. CASE Due(d, e)
      <4>1. /\ e.id \in Own /\ ~Pending(e.id)
            /\ AfterMethods(e.id) = e.before /\ store[e.id] = e.after
        BY <3>2 DEF MirrorInv, MethodsMirror
      <4>2. \A x \in events : x.id # e.id
        BY <1>9, <3>2, DueAnnounced
      <4>3. QED
        BY <1>2, <1>11, <1>13, <3>1, <4>1, <4>2
    <3>3. CASE e \in events
      <4>1. e.id \in Own /\ e.before = store[e.id] /\ ~Pending(e.id)
        BY <1>1, <1>3, <3>3 DEF OwnChanges
      <4>2. ~Unpushed(e.id)
        BY <1>9, <3>3, DueAnnounced DEF Unpushed
      <4>3. AfterMethods(e.id) = store[e.id]
        BY <1>3, <4>1, <4>2 DEF MirrorInv, MethodsMirror
      <4>4. QED
        BY <1>2, <1>11, <1>13, <3>1, <3>3, <4>1, <4>3
    <3>4. QED
      BY <1>12, <2>1, <3>2, <3>3
  <2>2. ASSUME NEW id \in Own
        PROVE  Unpushed(id)' \/ AfterMethods(id)' = store'[id]
    <3>1. Unpushed(id) => Unpushed(id)'
      BY <1>12 DEF Unpushed
    <3>2. (\E e \in events : e.id = id) => Unpushed(id)'
      BY <1>12 DEF Unpushed
    <3>3. Unpushed(id) \/ AfterMethods(id) = store[id]
      BY <1>3 DEF MirrorInv, MethodsMirror
    <3>4. QED
      BY <1>2, <1>11, <1>13, <3>1, <3>2, <3>3
  <2>3. QED
    BY <2>1, <2>2 DEF MethodsMirror
<1>15. DataMirrors'
  <2>1. ASSUME NEW id \in Id, id \notin Own, published
        PROVE  db'[id] = AfterData(id)'
    <3>1. store'[id] = store[id]
      BY <1>1, <1>11, <2>1 DEF OwnChanges
    <3>2. AfterData(id)' = AfterData(id)
      BY <1>2, <1>3, <3>1, DataSame
    <3>3. QED
      BY <1>3, <2>1, <3>2 DEF server, MirrorInv, DataMirrors
  <2>2. QED
    BY <1>3, <2>1 DEF DataMirrors, server
<1>16. Subscribing'
  BY <1>3 DEF server, MirrorInv, Subscribing
<1>17. MethodsOnce' /\ IdleUntilReported' /\ EchoesDropped'
  BY <1>3, QueuesStay DEF MirrorInv, server
<1>18. QED
  BY <1>10, <1>14, <1>15, <1>16, <1>17 DEF MirrorInv

(* Neither the queues nor the documents change, nor what is due.           *)
LEMMA CopiesStay ==
  ASSUME MirrorInv, PushInv',
         UNCHANGED <<store, ready, idle, methods, toServer, toClient, server>>,
         \A d \in Depth : Events(d)' \subseteq Events(d),
         \A d \in Depth, e \in Event : Due(d, e)' <=> Due(d, e)
  PROVE  MirrorInv'
<1>1. TypeInv /\ TypeInv' /\ Own \subseteq Id
  BY InputsAssumption DEF MirrorInv, PushInv
<1>2. \A id \in Id : AfterMethods(id)' = AfterMethods(id) /\ AfterData(id)' = AfterData(id)
  BY <1>1, MethodsSame, DataSame DEF server
<1>3. AnnouncementsDistinct'
  BY DEF MirrorInv, AnnouncementsDistinct
<1>4. MethodsMirror'
  <2>1. \A id : (Pending(id)' <=> Pending(id)) /\ (Unpushed(id)' <=> Unpushed(id))
    BY DEF Pending, Unpushed
  <2>2. QED
    BY <1>1, <1>2, <2>1 DEF MirrorInv, MethodsMirror
<1>5. DataMirrors'
  BY <1>2 DEF MirrorInv, DataMirrors, server
<1>6. Subscribing'
  BY DEF MirrorInv, Subscribing, Telling, Completing, server
<1>7. MethodsOnce' /\ IdleUntilReported' /\ EchoesDropped'
  BY QueuesStay DEF MirrorInv, server
<1>8. QED
  BY <1>3, <1>4, <1>5, <1>6, <1>7 DEF MirrorInv

LEMMA ReturnMirror ==
  ASSUME MirrorInv, PushInv', Return
  PROVE  MirrorInv'
<1>1. PICK d \in Depth : d = depth
  BY Numbers DEF MirrorInv, PushInv, TypeInv, Return
<1>2. /\ frames[d].event = NoEvent /\ frames[d].todo = {}
      /\ frames' = [frames EXCEPT ![d] = IdleFrame]
      /\ UNCHANGED <<store, ready, idle, methods, toServer, toClient, server>>
  BY <1>1 DEF Return
<1>3. frames'[d] = IdleFrame /\ \A c \in Depth : c # d => frames'[c] = frames[c]
  BY <1>2 DEF MirrorInv, PushInv, TypeInv, TypeOK
<1>4. \A c \in Depth : Events(c)' \subseteq Events(c)
  BY <1>3, IdleFrameFields DEF Events
<1>5. \A c \in Depth, e \in Event : Due(c, e)' <=> Due(c, e)
  BY <1>2, <1>3, IdleFrameFields, NoEventAssumption DEF Due
<1>6. QED
  BY <1>2, <1>4, <1>5, CopiesStay

(* A push that is due: the server's copy follows the client's.             *)
LEMMA EditRebuilds ==
  ASSUME NEW a \in Stored, NEW b \in Stored, a # b
  PROVE  /\ ServerEdited(Difference(a, b), a) = b
         /\ Edited(Difference(a, b), a) = b
<1>1. CASE a = NoDoc
  BY <1>1 DEF Difference, ServerEdited, Edited
<1>2. CASE a # NoDoc /\ b = NoDoc
  BY <1>2 DEF Difference, ServerEdited, Edited
<1>3. CASE a # NoDoc /\ b # NoDoc
  <2>1. Apply(AsModifier(modified_fields(a, b)), a) = b
    BY <1>3, DifferenceRebuilds DEF Stored
  <2>2. QED
    BY <1>3, <2>1 DEF Difference, ServerEdited, Edited
<1>4. QED
  BY <1>1, <1>2, <1>3

LEMMA PaysMirror ==
  ASSUME MirrorInv, PushInv', NEW d \in Depth, NEW e \in Event, NEW n \in Nat, Pays(d, e, n)
  PROVE  MirrorInv'
<1>1. /\ PushInv /\ TypeInv /\ TypeInv' /\ Own \subseteq Id /\ methods \in Nat
  BY InputsAssumption, Numbers DEF MirrorInv, PushInv, TypeInv
<1>2. /\ Push(e, n) /\ UNCHANGED <<store, ready, toClient, server>>
      /\ \A c \in Depth : Events(c)' \subseteq Events(c)
  <2>1. \A c \in Depth : c # d => Events(c)' = Events(c)
    BY DEF Pays, Events
  <2>2. QED
    BY <2>1 DEF Pays
<1>3. \A c \in Depth, x \in Event : <<c, x>> # <<d, e>> => (Due(c, x)' <=> Due(c, x))
  BY DEF Due, Pays
<1> DEFINE call == [msg |-> "method", method |-> methods + 1, id |-> e.id,
                    edit |-> Difference(e.before, e.after)]
<1>4. CASE n = 0
  <2>1. \A c \in Depth, x \in Event : Due(c, x)' <=> Due(c, x)
    BY <1>3, <1>4 DEF Pays
  <2>2. toServer' = toServer /\ methods' = methods /\ idle' = idle
    <3>1. toServer' = toServer \o <<>>
      BY <1>2, <1>4 DEF Push
    <3>2. toServer \in Seq(ToServer)
      BY <1>1 DEF TypeInv, TypeOK
    <3>3. QED
      BY <1>1, <1>2, <1>4, <3>1, <3>2 DEF Push
  <2>3. QED
    BY <1>2, <2>1, <2>2, CopiesStay
<1>5. CASE n = 1
  <2>1. /\ Due(d, e) /\ ~Due(d, e)' /\ ready /\ published
        /\ e.id \in Own /\ ~Pending(e.id)
        /\ AfterMethods(e.id) = e.before /\ store[e.id] = e.after
    <3>1. Due(d, e) /\ ~Due(d, e)'
      BY <1>5 DEF Pays
    <3>2. QED
      BY <1>1, <3>1, DueReady DEF MirrorInv, MethodsMirror, Subscribing
  <2>2. /\ toServer' = Append(toServer, call) /\ methods' = methods + 1
        /\ idle' = idle \cup {<<methods + 1, e.id>>}
    <3>1. toServer' = toServer \o [i \in 1 .. 1 |-> [call EXCEPT !.method = methods + i]]
      BY <1>2, <1>5 DEF Push
    <3>2. [i \in 1 .. 1 |-> [call EXCEPT !.method = methods + i]] = <<call>>
      OBVIOUS
    <3>3. toServer \in Seq(ToServer)
      BY <1>1 DEF TypeInv, TypeOK
    <3>4. toServer' = Append(toServer, call)
      BY <3>1, <3>2, <3>3, AppendIsConcat
    <3>5. QED
      BY <1>2, <1>5, <2>1, <3>4 DEF Push
  <2>3. e.before # e.after /\ e.before \in Stored /\ e.after \in Stored /\ e.id \in Id
    <3>1. e \in Events(d)
      BY DEF Pays
    <3>2. QED
      BY <1>1, <3>1 DEF TypeInv, Real, Event
  <2>4. call \in ToServer
    BY <1>1, <2>3, DifferenceIsEdit DEF ToServer
  <2>5. /\ call.msg = "method" /\ call.method = methods + 1 /\ call.id = e.id
        /\ call.edit = Difference(e.before, e.after)
    OBVIOUS
  <2> HIDE DEF call
  <2>6. AnnouncementsDistinct'
    BY <1>2 DEF MirrorInv, AnnouncementsDistinct
  <2>7. PICK k \in Nat :
          /\ \A m, i \in Nat, id \in Id :
               Asked(m, id, i)' <=> Asked(m, id, i) \/ (i = k /\ m = methods + 1 /\ id = e.id)
          /\ \A i \in 1 .. Len(toServer') :
               \/ i \in 1 .. Len(toServer) /\ toServer'[i] = toServer[i]
               \/ toServer'[i].msg = "method"
    <3>1. PICK x \in ToServer : x = call
      BY <2>4
    <3>2. TypeInv /\ toServer' = Append(toServer, x)
      BY <1>1, <2>2, <3>1
    <3>3. \E k \in Nat :
            /\ \A m, i \in Nat, id \in Id :
                 Asked(m, id, i)' <=> \/ Asked(m, id, i)
                                      \/ i = k /\ x.msg = "method" /\ x.method = m /\ x.id = id
            /\ \A m, i \in Nat, id \in Id : Asked(m, id, i) => i < k
            /\ \A i \in 1 .. Len(toServer') :
                 \/ i \in 1 .. Len(toServer) /\ toServer'[i] = toServer[i]
                 \/ toServer'[i] = x
      BY <3>2, ServerGets
    <3>4. QED
      BY <2>5, <3>1, <3>3
  <2>8. /\ \A m, i \in Nat : Reported(m, i)' <=> Reported(m, i)
        /\ \A id \in Id, i \in Nat : Telling(id, i)' <=> Telling(id, i)
        /\ unsynced' = unsynced
    BY <1>2 DEF Reported, Telling, server
  <2>9. /\ \A m, i \in Nat, id \in Id : Asked(m, id, i) => m # methods + 1
        /\ methods + 1 \notin unsynced
        /\ \A i \in Nat : ~Reported(methods + 1, i)
    <3>1. \A m, i \in Nat, id \in Id : Asked(m, id, i) => m \in 1 .. methods
      BY <1>1, AskedTypes
    <3>2. unsynced \subseteq 1 .. methods
      BY <1>1 DEF TypeInv, TypeOK
    <3>3. \A m, i \in Nat : Reported(m, i) => m \in 1 .. methods
      BY DEF MirrorInv, MethodsOnce
    <3>4. QED
      BY <1>1, <3>1, <3>2, <3>3
  <2>10. MethodsOnce'
    <3>1. ASSUME NEW m \in Nat, NEW i \in Nat, NEW id \in Id, Asked(m, id, i)'
          PROVE  /\ <<m, id>> \in idle' /\ m \notin unsynced'
                 /\ \A j \in Nat : ~Reported(m, j)'
                 /\ \A x \in Id, j \in Nat : Asked(m, x, j)' => i = j
      <4>1. CASE Asked(m, id, i)
        BY <2>2, <2>7, <2>8, <2>9, <4>1 DEF MirrorInv, MethodsOnce
      <4>2. CASE i = k /\ m = methods + 1 /\ id = e.id
        BY <2>2, <2>7, <2>8, <2>9, <4>2
      <4>3. QED
        BY <2>7, <3>1, <4>1, <4>2
    <3>2. \A m, i \in Nat : Reported(m, i)' =>
            /\ m \in 1 .. methods' /\ m \notin unsynced'
            /\ \A j \in Nat : Reported(m, j)' => i = j
      BY <1>1, <2>2, <2>8 DEF MirrorInv, MethodsOnce
    <3>3. QED
      BY <3>1, <3>2 DEF MethodsOnce
  <2>11. IdleUntilReported'
    <3>1. ASSUME NEW m \in Nat, NEW id \in Id, <<m, id>> \in idle'
          PROVE  /\ id \in Own
                 /\ m \in unsynced' \/ \E i \in Nat : Asked(m, id, i)' \/ Reported(m, i)'
      <4>1. CASE <<m, id>> \in idle
        BY <2>7, <2>8, <4>1 DEF MirrorInv, IdleUntilReported
      <4>2. CASE m = methods + 1 /\ id = e.id
        BY <2>1, <2>7, <4>2
      <4>3. QED
        BY <2>2, <3>1, <4>1, <4>2
    <3>2. QED
      BY <3>1 DEF IdleUntilReported
  <2>12. EchoesDropped'
    BY <1>1, <1>2, <2>1, <2>2, <2>8 DEF MirrorInv, EchoesDropped, ReportedAfter
  <2>13. Subscribing'
    BY <1>2, <2>1, <2>7 DEF MirrorInv, Subscribing, server
  <2>14. DataMirrors'
    BY <1>1, <1>2, DataSame DEF MirrorInv, DataMirrors, server
  <2>15. /\ AfterMethods(e.id)' = store'[e.id]
         /\ \A id \in Id : id # e.id => AfterMethods(id)' = AfterMethods(id)
    <3>1. \A id \in Id : AfterMethods(id)' = MethodStep(id, AfterMethods(id), call)
      BY <1>1, <1>2, <2>2, <2>4, MethodsSent DEF server
    <3>2. MethodStep(e.id, e.before, call) = e.after
      BY <2>3, <2>5, EditRebuilds DEF MethodStep
    <3>3. QED
      BY <1>2, <2>1, <2>3, <2>5, <3>1, <3>2 DEF MethodStep
  <2>16. ASSUME NEW c \in Depth, NEW x \in Event, Due(c, x)'
         PROVE  Due(c, x) /\ x.id # e.id
    <3>1. Due(c, x) /\ <<c, x>> # <<d, e>>
      BY <1>3, <2>1, <2>16
    <3>2. x \in Events(c) /\ e \in Events(d)
      BY <2>1, <3>1, DueAnnounced
    <3>3. QED
      BY <3>1, <3>2 DEF MirrorInv, AnnouncementsDistinct
  <2>17. MethodsMirror'
    <3>1. ASSUME NEW c \in Depth, NEW x \in Event, Due(c, x)'
          PROVE  /\ x.id \in Own /\ ~Pending(x.id)'
                 /\ AfterMethods(x.id)' = x.before /\ store'[x.id] = x.after
      <4>1. /\ x.id # e.id /\ x.id \in Own /\ ~Pending(x.id)
            /\ AfterMethods(x.id) = x.before /\ store[x.id] = x.after
        BY <2>16, <3>1 DEF MirrorInv, MethodsMirror
      <4>2. ~Pending(x.id)'
        BY <2>2, <4>1 DEF Pending
      <4>3. QED
        BY <1>1, <1>2, <2>15, <4>1, <4>2
    <3>2. ASSUME NEW id \in Own
          PROVE  Unpushed(id)' \/ AfterMethods(id)' = store'[id]
      <4>1. CASE id = e.id
        BY <2>15, <4>1
      <4>2. CASE id # e.id
        <5>1. Unpushed(id) => Unpushed(id)'
          BY <1>3, <4>2 DEF Unpushed
        <5>2. QED
          BY <1>1, <1>2, <2>1, <2>15, <4>2, <5>1 DEF MirrorInv, MethodsMirror
      <4>3. QED
        BY <4>1, <4>2
    <3>3. QED
      BY <3>1, <3>2 DEF MethodsMirror
  <2>18. QED
    BY <2>6, <2>10, <2>11, <2>12, <2>13, <2>14, <2>17 DEF MirrorInv
<1>6. QED
  BY <1>4, <1>5 DEF Pays

-----------------------------------------------------------------------------
(* What holds of the queues while the first message to the client is       *)
(* handled.                                                                *)
LEMMA Handling ==
  ASSUME MirrorInv, NEW k, Received(k)
  PROVE  /\ PushInv /\ TypeInv /\ Own \subseteq Id /\ methods \in Nat
         /\ toClient # <<>> /\ toClient' = Tail(toClient)
         /\ Head(toClient) \in ToClient /\ Head(toClient).msg = k
         /\ depth = 0 /\ published /\ UNCHANGED <<toServer, server>>
<1>1. PushInv /\ TypeInv /\ Own \subseteq Id
  BY InputsAssumption DEF MirrorInv, PushInv
<1>2. toClient # <<>> /\ toClient' = Tail(toClient)
  BY DEF Received
<1>3. published
  BY <1>2 DEF MirrorInv, Subscribing
<1>4. QED
  BY <1>1, <1>2, <1>3, ReceivedTypes, Numbers DEF TypeInv

(* A message that reports nothing and ends nothing has no part in what     *)
(* holds of the other messages.                                            *)
LEMMA QueuesAdvance ==
  ASSUME MirrorInv, NEW k, Received(k), k # "updated",
         UNCHANGED <<idle, methods>>
  PROVE  /\ MethodsOnce' /\ IdleUntilReported'
         /\ ready' = ready => EchoesDropped' /\ Subscribing'
<1>1. /\ TypeInv /\ toClient # <<>> /\ toClient' = Tail(toClient) /\ Head(toClient).msg = k
      /\ published /\ published' = published /\ toServer' = toServer /\ unsynced' = unsynced
  BY Handling DEF server
<1>2. /\ \A m, i \in Nat : Reported(m, i)' <=> i # 0 /\ Reported(m, i + 1)
      /\ \A id \in Id, i \in Nat : Telling(id, i)' <=> i # 0 /\ Telling(id, i + 1)
      /\ \A i \in Nat : Completing(i)' <=> i # 0 /\ Completing(i + 1)
      /\ \A m, i \in Nat : Reported(m, i) => i # 0 /\ i # 1
  BY <1>1, ClientTakes
<1>3. \A m, i \in Nat, id \in Id : Asked(m, id, i)' <=> Asked(m, id, i)
  BY <1>1 DEF Asked
<1>4. MethodsOnce'
  <2>1. ASSUME NEW m \in Nat, NEW i \in Nat, Reported(m, i)'
        PROVE  /\ m \in 1 .. methods /\ m \notin unsynced
               /\ \A j \in Nat : Reported(m, j)' => i = j
    <3>1. Reported(m, i + 1) /\ i + 1 \in Nat
      BY <1>2, <2>1
    <3>2. /\ m \in 1 .. methods /\ m \notin unsynced
          /\ \A j \in Nat : Reported(m, j) => i + 1 = j
      BY <3>1 DEF MirrorInv, MethodsOnce
    <3>3. ASSUME NEW j \in Nat, Reported(m, j)'
          PROVE  i = j
      BY <1>2, <3>2, <3>3
    <3>4. QED
      BY <3>2, <3>3
  <2>2. ASSUME NEW m \in Nat, NEW i \in Nat, NEW id \in Id, Asked(m, id, i)
        PROVE  \A j \in Nat : ~Reported(m, j)'
    <3>1. \A j \in Nat : ~Reported(m, j)
      BY <2>2 DEF MirrorInv, MethodsOnce
    <3>2. QED
      BY <1>2, <3>1
  <2>3. QED
    BY <1>1, <1>3, <2>1, <2>2 DEF MirrorInv, MethodsOnce
<1>5. \A m, i \in Nat : Reported(m, i) => \E j \in Nat : i = j + 1 /\ Reported(m, j)'
  <2>1. ASSUME NEW m \in Nat, NEW i \in Nat, Reported(m, i)
        PROVE  i - 1 \in Nat /\ i = (i - 1) + 1 /\ Reported(m, i - 1)'
    <3>1. PICK j \in Nat : i = j + 1 /\ j # 0
      <4>1. i # 0 /\ i # 1
        BY <1>2, <2>1
      <4>2. QED
        BY <4>1
    <3>2. Reported(m, j)'
      BY <1>2, <2>1, <3>1
    <3>3. j = i - 1
      BY <3>1
    <3>4. QED
      BY <3>1, <3>2, <3>3
  <2>2. QED
    BY <2>1
<1>6. IdleUntilReported'
  BY <1>1, <1>3, <1>5 DEF MirrorInv, IdleUntilReported
<1>7. ASSUME ready' = ready
      PROVE  EchoesDropped'
  <2>1. ASSUME ready, NEW id \in Own, NEW i \in Nat, Telling(id, i)'
        PROVE  \E m \in Nat : <<m, id>> \in idle /\ ReportedAfter(m, i)'
    <3>1. Telling(id, i + 1) /\ i + 1 \in Nat
      BY <1>2, <2>1, InputsAssumption
    <3>2. PICK n \in Nat : <<n, id>> \in idle /\ ReportedAfter(n, i + 1)
      BY <2>1, <3>1 DEF MirrorInv, EchoesDropped
    <3>3. (\E j \in Nat : i + 1 < j /\ Reported(n, j)) => \E j \in Nat : i < j /\ Reported(n, j)'
      BY <1>5
    <3>4. ReportedAfter(n, i)'
      BY <1>1, <3>2, <3>3 DEF ReportedAfter
    <3>5. QED
      BY <3>2, <3>4
  <2>2. QED
    BY <1>1, <1>7, <2>1 DEF EchoesDropped
<1>8. ASSUME ready' = ready
      PROVE  Subscribing'
  <2>1. ASSUME NEW id \in Own, NEW i \in Nat, NEW j \in Nat, ~ready, Telling(id, i)', Completing(j)'
        PROVE  i < j
    <3>1. Telling(id, i + 1) /\ Completing(j + 1) /\ i + 1 \in Nat /\ j + 1 \in Nat
      BY <1>2, <2>1, InputsAssumption
    <3>2. i + 1 < j + 1
      BY <2>1, <3>1 DEF MirrorInv, Subscribing
    <3>3. QED
      BY <3>2
  <2>2. QED
    BY <1>1, <1>8, <2>1 DEF MirrorInv, Subscribing
<1>9. QED
  BY <1>4, <1>6, <1>7, <1>8

(* A document of the server.  One that this client writes is idle by now,  *)
(* once the collection is ready; any other message takes its part in what  *)
(* the client stores.                                                      *)
LEMMA DocumentFollows ==
  ASSUME MirrorInv, NEW kind, NEW events, DocumentTaken(kind, events)
  PROVE  /\ \A id \in Id : (ready => id \notin Own) =>
              store'[id] = DataStep(id, store[id], Head(toClient))
         /\ ready => \A id \in Own : store'[id] = store[id]
<1> DEFINE m == Head(toClient)
<1>1. /\ store' = IF Pending(m.id) THEN store
                  ELSE [store EXCEPT ![m.id] = Edited(m.edit, store[m.id])]
      /\ Received("data")
  BY DEF DocumentTaken
<1>2. /\ PushInv /\ TypeInv /\ Own \subseteq Id /\ methods \in Nat
      /\ toClient # <<>> /\ toClient' = Tail(toClient) /\ m \in ToClient /\ m.msg = "data"
  BY <1>1, Handling
<1>3. m.id \in Id /\ store \in [Id -> Stored]
  BY <1>2 DEF ToClient, TypeInv, TypeOK
<1> HIDE DEF m
<1>4. Pending(m.id) => m.id \in Own /\ ready
  <2>1. SUFFICES ASSUME Pending(m.id)
                 PROVE  m.id \in Own /\ ready
    OBVIOUS
  <2>2. PICK k \in 1 .. methods : <<k, m.id>> \in idle
    <3>1. PICK p \in idle : p[2] = m.id
      BY <2>1 DEF Pending
    <3>2. p \in (1 .. methods) \X Id
      BY <1>2, <3>1 DEF TypeInv, TypeOK
    <3>3. p[1] \in 1 .. methods /\ p = <<p[1], m.id>>
      BY <3>1, <3>2
    <3>4. QED
      BY <3>1, <3>3
  <2>3. k \in Nat /\ methods # 0
    BY <1>2
  <2>4. QED
    BY <1>3, <2>2, <2>3 DEF MirrorInv, IdleUntilReported, Subscribing
<1>5. ready /\ m.id \in Own => Pending(m.id)
  <2>1. SUFFICES ASSUME ready, m.id \in Own
                 PROVE  Pending(m.id)
    OBVIOUS
  <2>2. Telling(m.id, 1)
    BY <1>2, <1>3, ClientTakes DEF m
  <2>3. PICK k \in Nat : <<k, m.id>> \in idle
    BY <2>1, <2>2 DEF MirrorInv, EchoesDropped
  <2>4. QED
    BY <2>3 DEF Pending
<1>6. ASSUME NEW id \in Id, ready => id \notin Own
      PROVE  store'[id] = DataStep(id, store[id], m)
  BY <1>1, <1>2, <1>3, <1>4, <1>6 DEF DataStep
<1>7. ready => \A id \in Own : store'[id] = store[id]
  BY <1>1, <1>2, <1>3, <1>5
<1>8. QED
  BY <1>6, <1>7 DEF m

LEMMA DocumentMirror ==
  ASSUME MirrorInv, PushInv', on_document_added \/ on_document_changed \/ on_document_removed
  PROVE  MirrorInv'
<1> DEFINE m == Head(toClient)
<1>0. PICK kind \in Kind, events \in SUBSET Event : DocumentTaken(kind, events)
  BY DocumentStep DEF MirrorInv, PushInv
<1>1. /\ \A e1, e2 \in events : e1 = e2
      /\ \/ UNCHANGED <<frames, depth>>
         \/ /\ frames' = [frames EXCEPT ![1] = Started({kind}, {}, events)]
            /\ depth' = 1
      /\ store' = IF Pending(m.id) THEN store
                  ELSE [store EXCEPT ![m.id] = Edited(m.edit, store[m.id])]
      /\ Received("data")
      /\ UNCHANGED <<ready, idle, methods>>
  BY <1>0 DEF DocumentTaken
<1>2. /\ PushInv /\ TypeInv /\ TypeInv' /\ Own \subseteq Id /\ methods \in Nat
      /\ toClient # <<>> /\ toClient' = Tail(toClient) /\ m \in ToClient /\ m.msg = "data"
      /\ depth = 0 /\ published /\ UNCHANGED <<toServer, server>>
  BY <1>1, Handling DEF PushInv
<1>3. m.id \in Id /\ store \in [Id -> Stored]
  BY <1>2 DEF ToClient, TypeInv, TypeOK
<1> HIDE DEF m
<1>4. /\ \A d \in Depth : frames[d] = IdleFrame /\ Events(d) = {}
      /\ \A d \in Depth, e \in Event : ~Due(d, e)
  BY <1>2, AtRest
<1>5. AnnouncementsDistinct' /\ \A d \in Depth, e \in Event : ~Due(d, e)'
  <2>1. CASE UNCHANGED <<frames, depth>>
    BY <1>4, <2>1 DEF AnnouncementsDistinct, Events, Due
  <2>2. CASE frames' = [frames EXCEPT ![1] = Started({kind}, {}, events)]
    <3>1. /\ frames'[1].blocks = {kind} /\ frames'[1].todo = events /\ frames'[1].event = NoEvent
          /\ \A d \in Depth : d # 1 => frames'[d] = IdleFrame
      BY <1>2, <1>4, <2>2, Numbers DEF TypeInv, TypeOK, Started
    <3>2. Events(1)' = events /\ \A d \in Depth : d # 1 => Events(d)' = {}
      BY <3>1, IdleFrameFields DEF Events
    <3>3. AnnouncementsDistinct'
      BY <1>1, <3>2 DEF AnnouncementsDistinct
    <3>4. \A d \in Depth, e \in Event : ~Due(d, e)'
      BY <3>1, IdleFrameFields, NoEventAssumption DEF Due
    <3>5. QED
      BY <3>3, <3>4
  <2>3. QED
    BY <1>1, <2>1, <2>2
<1>6. /\ \A id \in Id : (ready => id \notin Own) => store'[id] = DataStep(id, store[id], m)
      /\ ready => \A id \in Own : store'[id] = store[id]
  BY <1>0, DocumentFollows DEF m
<1>7. DataMirrors'
  <2>1. ASSUME NEW id \in Id, ready => id \notin Own
        PROVE  db'[id] = AfterData(id)'
    <3>1. store'[id] = DataStep(id, store[id], m)
      BY <1>6, <2>1
    <3>2. AfterData(id)' = AfterData(id)
      BY <1>2, <3>1, DataArrive DEF m
    <3>3. QED
      BY <1>2, <2>1, <3>2 DEF server, MirrorInv, DataMirrors
  <2>2. QED
    BY <1>1, <2>1 DEF DataMirrors
<1>8. MethodsMirror'
  <2>1. ASSUME NEW id \in Own, ready
        PROVE  AfterMethods(id)' = store'[id]
    <3>1. store'[id] = store[id]
      BY <1>6, <2>1
    <3>2. AfterMethods(id)' = AfterMethods(id)
      BY <1>2, MethodsSame DEF server
    <3>3. AfterMethods(id) = store[id]
      BY <1>4, <2>1 DEF MirrorInv, MethodsMirror, Unpushed
    <3>4. QED
      BY <3>1, <3>2, <3>3
  <2>2. QED
    BY <1>1, <1>5, <2>1 DEF MethodsMirror
<1>9. MethodsOnce' /\ IdleUntilReported' /\ EchoesDropped' /\ Subscribing'
  BY <1>1, QueuesAdvance
<1>10. QED
  BY <1>5, <1>7, <1>8, <1>9 DEF MirrorInv

(* The report of a method: its document is no longer idle.                 *)
LEMMA SynchronizedMirror ==
  ASSUME MirrorInv, PushInv', on_synchronized
  PROVE  MirrorInv'
<1>1. /\ Received("updated")
      /\ idle' = {p \in idle : p[1] # Head(toClient).method}
      /\ UNCHANGED <<store, ready, methods, frames, depth>>
  BY DEF on_synchronized
<1>2. /\ PushInv /\ TypeInv /\ TypeInv' /\ Own \subseteq Id /\ methods \in Nat
      /\ toClient # <<>> /\ toClient' = Tail(toClient)
      /\ Head(toClient) \in ToClient /\ Head(toClient).msg = "updated"
      /\ depth = 0 /\ published /\ UNCHANGED <<toServer, server>>
  BY <1>1, Handling DEF PushInv
<1>3. PICK k \in Nat : k = Head(toClient).method
  BY <1>2 DEF ToClient
<1>4. \A m, id : <<m, id>> \in idle' <=> <<m, id>> \in idle /\ m # k
  BY <1>1, <1>3
<1>5. /\ \A m, i \in Nat : Reported(m, i)' <=> i # 0 /\ Reported(m, i + 1)
      /\ \A id \in Id, i \in Nat : Telling(id, i)' <=> i # 0 /\ Telling(id, i + 1)
      /\ \A i \in Nat : ~Completing(i + 1) \/ (i # 0 /\ Completing(i)')
      /\ \A m \in Nat : Reported(m, 1) <=> m = k
      /\ \A m, i \in Nat : Reported(m, i) => i # 0
  BY <1>2, <1>3, ClientTakes
<1>6. Reported(k, 1) /\ k \notin unsynced /\ \A i \in Nat : Reported(k, i) => i = 1
  BY <1>5 DEF MirrorInv, MethodsOnce
<1>7. \A m, i \in Nat, id \in Id : Asked(m, id, i)' <=> Asked(m, id, i)
  BY <1>2 DEF Asked
<1>8. \A m, i \in Nat : Reported(m, i) => m = k \/ \E j \in Nat : i = j + 1 /\ Reported(m, j)'
  <2>1. ASSUME NEW m \in Nat, NEW i \in Nat, Reported(m, i), m # k
        PROVE  \E j \in Nat : i = j + 1 /\ Reported(m, j)'
    <3>1. i # 0 /\ i # 1
      BY <1>5, <2>1
    <3>2. PICK j \in Nat : i = j + 1 /\ j # 0
      <4>1. i - 1 \in Nat /\ i = (i - 1) + 1 /\ i - 1 # 0
        BY <3>1
      <4>2. QED
        BY <4>1
    <3>3. QED
      BY <1>5, <2>1, <3>2
  <2>2. QED
    BY <2>1
<1>9. MethodsOnce'
  <2>1. ASSUME NEW m \in Nat, NEW i \in Nat, Reported(m, i)'
        PROVE  /\ m \in 1 .. methods /\ m \notin unsynced
               /\ \A j \in Nat : Reported(m, j)' => i = j
    <3>1. Reported(m, i + 1) /\ i + 1 \in Nat
      BY <1>5, <2>1
    <3>2. /\ m \in 1 .. methods /\ m \notin unsynced
          /\ \A j \in Nat : Reported(m, j) => i + 1 = j
      BY <3>1 DEF MirrorInv, MethodsOnce
    <3>3. ASSUME NEW j \in Nat, Reported(m, j)'
          PROVE  i = j
      BY <1>5, <3>2, <3>3
    <3>4. QED
      BY <3>2, <3>3
  <2>2. ASSUME NEW m \in Nat, NEW i \in Nat, NEW id \in Id, Asked(m, id, i)
        PROVE  /\ <<m, id>> \in idle'
               /\ \A j \in Nat : ~Reported(m, j)'
    <3>1. <<m, id>> \in idle /\ \A j \in Nat : ~Reported(m, j)
      BY <2>2 DEF MirrorInv, MethodsOnce
    <3>2. m # k
      BY <1>6, <3>1
    <3>3. QED
      BY <1>4, <1>5, <3>1, <3>2
  <2>3. QED
    BY <1>1, <1>2, <1>7, <2>1, <2>2 DEF MirrorInv, MethodsOnce, server
<1>10. IdleUntilReported'
  <2>1. ASSUME NEW m \in Nat, NEW id \in Id, <<m, id>> \in idle'
        PROVE  /\ id \in Own
               /\ m \in unsynced' \/ \E i \in Nat : Asked(m, id, i)' \/ Reported(m, i)'
    <3>1. /\ id \in Own /\ m # k
          /\ m \in unsynced \/ \E i \in Nat : Asked(m, id, i) \/ Reported(m, i)
      BY <1>4, <2>1 DEF MirrorInv, IdleUntilReported
    <3>2. QED
      BY <1>2, <1>7, <1>8, <3>1 DEF server
  <2>2. QED
    BY <2>1 DEF IdleUntilReported
<1>11. EchoesDropped'
  <2>1. ASSUME ready, NEW id \in Own, NEW i \in Nat, Telling(id, i)'
        PROVE  \E m \in Nat : <<m, id>> \in idle' /\ ReportedAfter(m, i)'
    <3>1. Telling(id, i + 1) /\ i + 1 \in Nat /\ i # 0
      BY <1>2, <1>5, <2>1
    <3>2. PICK n \in Nat : <<n, id>> \in idle /\ ReportedAfter(n, i + 1)
      BY <2>1, <3>1 DEF MirrorInv, EchoesDropped
    <3>3. n # k
      BY <1>6, <3>1, <3>2 DEF ReportedAfter
    <3>4. <<n, id>> \in idle'
      BY <1>4, <3>2, <3>3
    <3>5. (\E j \in Nat : i + 1 < j /\ Reported(n, j)) => \E j \in Nat : i < j /\ Reported(n, j)'
      BY <1>8, <3>3
    <3>6. ReportedAfter(n, i)'
      BY <1>2, <3>2, <3>5 DEF ReportedAfter, server
    <3>7. QED
      BY <3>4, <3>6
  <2>2. QED
    BY <1>1, <1>2, <2>1 DEF EchoesDropped, server
<1>12. Subscribing'
  <2>1. ready
    <3>1. k \in 1 .. methods
      BY <1>6 DEF MirrorInv, MethodsOnce
    <3>2. QED
      BY <1>2, <3>1 DEF MirrorInv, Subscribing
  <2>2. QED
    BY <1>1, <1>2, <2>1 DEF MirrorInv, Subscribing, server
<1>13. DataMirrors'
  <2>1. \A id \in Id : AfterData(id)' = AfterData(id)
    BY <1>1, <1>2, DataArrive DEF DataStep
  <2>2. QED
    BY <1>1, <1>2, <2>1 DEF MirrorInv, DataMirrors, server
<1>14. MethodsMirror'
  <2>1. \A id \in Id : AfterMethods(id)' = AfterMethods(id)
    BY <1>2, MethodsSame DEF server
  <2>2. \A d \in Depth, e \in Event : ~Due(d, e) /\ ~Due(d, e)'
    BY <1>1, <1>2, AtRest DEF Due
  <2>3. QED
    BY <1>1, <1>2, <2>1, <2>2 DEF MirrorInv, MethodsMirror, Unpushed
<1>15. AnnouncementsDistinct'
  BY <1>1 DEF MirrorInv, AnnouncementsDistinct, Events
<1>16. QED
  BY <1>9, <1>10, <1>11, <1>12, <1>13, <1>14, <1>15 DEF MirrorInv

(* The end of the publication: nothing has been written yet, and what the  *)
(* server still tells is not about documents of this client.               *)
LEMMA BatchMirror ==
  ASSUME MirrorInv, PushInv', on_initial_batch
  PROVE  MirrorInv'
<1>1. /\ Received("ready") /\ ready' = TRUE
      /\ UNCHANGED <<store, idle, methods, frames, depth>>
  BY DEF on_initial_batch
<1>2. /\ PushInv /\ TypeInv /\ TypeInv' /\ Own \subseteq Id /\ methods \in Nat
      /\ toClient # <<>> /\ toClient' = Tail(toClient)
      /\ Head(toClient) \in ToClient /\ Head(toClient).msg = "ready"
      /\ depth = 0 /\ published /\ UNCHANGED <<toServer, server>>
  BY <1>1, Handling DEF PushInv
<1>3. MethodsOnce' /\ IdleUntilReported' /\ (ready => EchoesDropped' /\ Subscribing')
  BY <1>1, QueuesAdvance
<1>4. \A id \in Id : /\ AfterData(id)' = AfterData(id)
                     /\ AfterMethods(id)' = AfterMethods(id)
  BY <1>1, <1>2, DataArrive, MethodsSame DEF DataStep, server
<1>5. ~ready => \A id \in Own, i \in Nat : ~Telling(id, i)
  <2>1. /\ Completing(1)
        /\ \A id \in Id : ~Telling(id, 1)
        /\ \A id \in Id, i \in Nat : Telling(id, i) => i # 0
    BY <1>2, ClientTakes
  <2>2. \A id \in Own, i \in Nat : ~ready /\ Telling(id, i) => i < 1
    BY <2>1 DEF MirrorInv, Subscribing
  <2>3. QED
    BY <1>2, <2>1, <2>2
<1>6. EchoesDropped'
  <2>1. CASE ready
    BY <1>3, <2>1
  <2>2. CASE ~ready
    <3>1. \A id \in Own, i \in Nat : ~Telling(id, i)'
      BY <1>2, <1>5, <2>2, ClientTakes
    <3>2. QED
      BY <3>1 DEF EchoesDropped
  <2>3. QED
    BY <2>1, <2>2
<1>7. Subscribing'
  BY <1>1, <1>2 DEF MirrorInv, Subscribing, server
<1>8. DataMirrors'
  BY <1>1, <1>2, <1>4 DEF MirrorInv, DataMirrors, server
<1>9. \A d \in Depth, e \in Event : ~Due(d, e) /\ ~Due(d, e)'
  BY <1>1, <1>2, AtRest DEF Due
<1>10. ASSUME NEW id \in Own
       PROVE  AfterMethods(id) = store[id]
  <2>1. CASE ready
    BY <1>9, <2>1 DEF MirrorInv, MethodsMirror, Unpushed
  <2>2. CASE ~ready
    <3>1. methods = 0
      BY <2>2 DEF MirrorInv, Subscribing
    <3>2. toServer = <<>>
      <4>1. ASSUME toServer # <<>>
            PROVE  FALSE
        <5>1. 1 \in 1 .. Len(toServer)
          BY <1>2, <4>1, HeadTailProperties, LenProperties DEF TypeInv, TypeOK
        <5>2. toServer[1].msg = "method"
          BY <1>2, <5>1 DEF MirrorInv, Subscribing
        <5>3. toServer[1] \in Sent(methods)
          BY <1>2, <5>1, ElementOfSeq DEF TypeInv
        <5>4. QED
          BY <3>1, <5>2, <5>3 DEF Sent
      <4>2. QED
        BY <4>1
    <3>3. AfterMethods(id) = db[id]
      BY <1>2, <3>2, NoMethods
    <3>4. \A i \in 1 .. Len(toClient) : toClient[i].msg = "data" => toClient[i].id # id
      <4>1. \A i \in 1 .. Len(toClient) : i \in Nat
        BY <1>2, LenProperties DEF TypeInv, TypeOK
      <4>2. QED
        BY <1>5, <2>2, <4>1 DEF Telling
    <3>5. AfterData(id) = store[id]
      BY <1>2, <3>4, NoData
    <3>6. db[id] = AfterData(id)
      BY <1>2, <2>2 DEF MirrorInv, DataMirrors
    <3>7. QED
      BY <3>3, <3>5, <3>6
  <2>3. QED
    BY <2>1, <2>2
<1>11. MethodsMirror'
  BY <1>1, <1>2, <1>4, <1>9, <1>10 DEF MethodsMirror
<1>12. AnnouncementsDistinct'
  BY <1>1 DEF MirrorInv, AnnouncementsDistinct, Events
<1>13. QED
  BY <1>3, <1>6, <1>7, <1>8, <1>11, <1>12 DEF MirrorInv

-----------------------------------------------------------------------------
(* The server executes the subscription: its documents, from nothing.      *)
LEMMA PublishMirror ==
  ASSUME MirrorInv, PushInv', ServerPublishes
  PROVE  MirrorInv'
<1>1. /\ toServer # <<>> /\ Head(toServer).msg = "sub" /\ toServer' = Tail(toServer)
      /\ toClient' = toClient \o Append(AllDocuments, [msg |-> "ready"])
      /\ published' = TRUE /\ UNCHANGED <<local, db, unsynced, foreign>>
  BY DEF ServerPublishes
<1>2. PushInv /\ TypeInv /\ TypeInv' /\ Own \subseteq Id
  BY InputsAssumption DEF MirrorInv, PushInv
<1>3. ~published
  <2>1. 1 \in 1 .. Len(toServer) /\ toServer[1].msg # "method"
    BY <1>1, <1>2, ServerTakes
  <2>2. QED
    BY <2>1 DEF MirrorInv, Subscribing
<1>4. /\ toServer = <<[msg |-> "sub"]>> /\ toClient = <<>> /\ ~ready /\ methods = 0
      /\ \A id \in Id : store[id] = NoDoc
  BY <1>3 DEF MirrorInv, Subscribing
<1>5. toServer' = <<>> /\ idle = {}
  <2>1. idle \subseteq (1 .. 0) \X Id
    BY <1>2, <1>4 DEF TypeInv, TypeOK
  <2>2. QED
    BY <1>1, <1>4, <2>1
<1>6. \A m, i : \A id : ~Asked(m, id, i)'
  BY <1>5 DEF Asked
<1>7. PICK n \in Nat : \A i \in Nat :
        /\ \A m \in Nat : ~Reported(m, i)'
        /\ \A id \in Id : Telling(id, i)' => i < n
        /\ Completing(i)' => i = n
  <2>1. /\ AllDocuments \in Seq(ToClient) /\ Len(AllDocuments) \in Nat
        /\ \A i \in 1 .. Len(AllDocuments) : AllDocuments[i].msg = "data"
    BY <1>2, PublishedTypes, LenProperties
  <2>2. toClient' = Append(AllDocuments, [msg |-> "ready"])
    BY <1>1, <1>2, <1>4, PublishedTypes
  <2>3. PICK n \in Nat : n = Len(AllDocuments) + 1
    BY <2>1
  <2>4. /\ Len(toClient') = n /\ toClient'[n].msg = "ready"
        /\ \A i \in Nat : i \in 1 .. Len(toClient') => (toClient'[i].msg = "data" /\ i < n) \/ i = n
    BY <2>1, <2>2, <2>3
  <2>5. QED
    BY <2>4 DEF Reported, Telling, Completing
<1>8. MethodsOnce' /\ IdleUntilReported' /\ EchoesDropped'
  BY <1>1, <1>4, <1>5, <1>6, <1>7 DEF MethodsOnce, IdleUntilReported, EchoesDropped, local
<1>9. Subscribing'
  <2>1. \A i \in 1 .. Len(toServer') : FALSE
    BY <1>5
  <2>2. \A id \in Own, i, j \in Nat : Telling(id, i)' /\ Completing(j)' => i < j
    BY <1>2, <1>7
  <2>3. QED
    BY <1>1, <1>4, <2>1, <2>2 DEF Subscribing, local
<1>10. DataMirrors'
  <2>1. \A id \in Id : AfterData(id)' = db[id]
    BY <1>1, <1>2, <1>4, Published DEF local
  <2>2. QED
    BY <1>1, <2>1 DEF DataMirrors
<1>11. MethodsMirror'
  <2>1. \A d \in Depth, e \in Event : ~Due(d, e)'
    BY <1>1, <1>2, <1>4, DueReady DEF local, Due
  <2>2. QED
    BY <1>1, <1>4, <2>1 DEF MethodsMirror, local
<1>12. AnnouncementsDistinct'
  BY <1>1 DEF MirrorInv, AnnouncementsDistinct, Events, local
<1>13. QED
  BY <1>8, <1>9, <1>10, <1>11, <1>12 DEF MirrorInv

(* A message to the client that reports nothing and ends nothing: of a     *)
(* document of this client, it is the echo of a method still to report.    *)
LEMMA Echoes ==
  ASSUME MirrorInv, NEW x \in ToClient, x.msg = "data", toClient' = Append(toClient, x),
         UNCHANGED local,
         unsynced \subseteq unsynced',
         x.id \in Own => /\ ready
                        /\ \E m \in Nat : <<m, x.id>> \in idle /\ m \in unsynced'
  PROVE  /\ \A m, i \in Nat : Reported(m, i)' <=> Reported(m, i)
         /\ EchoesDropped'
         /\ ~ready' => \A id \in Own, i, j \in Nat : Telling(id, i)' /\ Completing(j)' => i < j
<1>1. TypeInv /\ Own \subseteq Id
  BY InputsAssumption DEF MirrorInv, PushInv
<1>2. PICK n \in Nat :
        /\ \A m, i \in Nat :
             Reported(m, i)' <=> Reported(m, i) \/ (i = n /\ x.msg = "updated" /\ x.method = m)
        /\ \A id \in Id, i \in Nat :
             Telling(id, i)' <=> Telling(id, i) \/ (i = n /\ x.msg = "data" /\ x.id = id)
        /\ \A i \in Nat : Completing(i)' <=> Completing(i) \/ (i = n /\ x.msg = "ready")
        /\ \A i \in Nat : /\ \A m \in Nat : Reported(m, i) => i < n
                          /\ \A id \in Id : Telling(id, i) => i < n
                          /\ Completing(i) => i < n
  BY <1>1, ClientGets
<1>3. \A m, i \in Nat : Reported(m, i)' <=> Reported(m, i)
  BY <1>2
<1>4. ASSUME ready, NEW id \in Own, NEW i \in Nat, Telling(id, i)'
      PROVE  \E m \in Nat : <<m, id>> \in idle /\ ReportedAfter(m, i)'
  <2>1. CASE Telling(id, i)
    <3>1. PICK k \in Nat : <<k, id>> \in idle /\ ReportedAfter(k, i)
      BY <1>4, <2>1 DEF MirrorInv, EchoesDropped
    <3>2. ReportedAfter(k, i)'
      BY <1>3, <3>1 DEF ReportedAfter
    <3>3. QED
      BY <3>1, <3>2
  <2>2. CASE x.id = id
    <3>1. PICK k \in Nat : <<k, x.id>> \in idle /\ k \in unsynced'
      BY <2>2
    <3>2. ReportedAfter(k, i)'
      BY <3>1 DEF ReportedAfter
    <3>3. QED
      BY <2>2, <3>1, <3>2
  <2>3. QED
    BY <1>1, <1>2, <1>4, <2>1, <2>2
<1>5. EchoesDropped'
  BY <1>4 DEF EchoesDropped, local
<1>6. ASSUME ~ready', NEW id \in Own, NEW i \in Nat, NEW j \in Nat, Telling(id, i)', Completing(j)'
      PROVE  i < j
  <2>1. Completing(j) /\ Telling(id, i) /\ ~ready
    BY <1>1, <1>2, <1>6 DEF local
  <2>2. QED
    BY <2>1 DEF MirrorInv, Subscribing
<1>7. QED
  BY <1>3, <1>5, <1>6

(* The server executes a method: it is the only one, and its document is   *)
(* idle.                                                                   *)
LEMMA Running ==
  ASSUME Liberty = {}, MirrorInv, ServerRuns
  PROVE  LET m == Head(toServer)
             after == ServerEdited(m.edit, db[m.id])
         IN  \E k \in Nat, own \in Id :
               /\ k = m.method /\ own = m.id /\ Asked(k, own, 1)
               /\ <<k, own>> \in idle /\ k \notin unsynced /\ own \in Own
               /\ \A j \in Nat : ~Reported(k, j)
               /\ \A x \in Id, j \in Nat : Asked(k, x, j) => j = 1
               /\ k \in 1 .. methods /\ ready /\ published
               /\ db' = [db EXCEPT ![own] = after] /\ after \in Stored /\ db \in [Id -> Stored]
               /\ \/ toClient' = toClient
                  \/ \E x \in ToClient : /\ x.msg = "data" /\ x.id = own
                                          /\ toClient' = Append(toClient, x)
<1> DEFINE m == Head(toServer)
           after == ServerEdited(m.edit, db[m.id])
<1>1. /\ toServer # <<>> /\ m.msg = "method" /\ toServer' = Tail(toServer)
      /\ ServerWrites(m.id, after)
  BY DEF ServerRuns
<1>2. PushInv /\ TypeInv
  BY DEF MirrorInv, PushInv
<1>3. PICK k \in Nat, own \in Id : k = m.method /\ own = m.id /\ Asked(k, own, 1)
  <2>1. toServer[1] = m /\ 1 \in 1 .. Len(toServer)
    BY <1>1, <1>2, ServerTakes
  <2>2. m \in ToServer
    BY <1>1, <1>2, HeadTailProperties DEF TypeInv, TypeOK
  <2>3. m.method \in Nat /\ m.id \in Id
    BY <1>1, <2>2 DEF ToServer
  <2>4. QED
    BY <1>1, <2>1, <2>3 DEF Asked
<1>4. /\ <<k, own>> \in idle /\ k \notin unsynced /\ own \in Own
      /\ \A j \in Nat : ~Reported(k, j)
      /\ \A x \in Id, j \in Nat : Asked(k, x, j) => j = 1
  BY <1>3 DEF MirrorInv, MethodsOnce, IdleUntilReported
<1>5. k \in 1 .. methods /\ ready /\ published
  <2>1. k \in 1 .. methods
    BY <1>2, <1>3, AskedTypes
  <2>2. QED
    BY <2>1 DEF MirrorInv, Subscribing
<1>6. /\ db' = [db EXCEPT ![own] = after] /\ after \in Stored /\ db \in [Id -> Stored]
      /\ \/ toClient' = toClient
         \/ \E x \in ToClient : x.msg = "data" /\ x.id = own /\ toClient' = Append(toClient, x)
  <2>1. m.edit \in Edit /\ db \in [Id -> Stored]
    <3>1. m \in ToServer
      BY <1>1, <1>2, HeadTailProperties DEF TypeInv, TypeOK
    <3>2. QED
      BY <1>1, <1>2, <3>1 DEF ToServer, TypeInv, TypeOK
  <2>2. after \in Stored
    BY <1>3, <2>1, EditedType
  <2> HIDE DEF m, after
  <2>3. CASE after # db[own]
    <3> DEFINE x == [msg |-> "data", id |-> own, edit |-> Difference(db[own], after)]
    <3>1. Difference(db[own], after) \in Edit
      BY <2>1, <2>2, <2>3, DifferenceIsEdit
    <3>2. x \in ToClient /\ x.msg = "data" /\ x.id = own
      BY <3>1 DEF ToClient
    <3>3. toClient' = Append(toClient, x)
      BY <1>1, <1>3, <1>5, <2>3 DEF ServerWrites
    <3> HIDE DEF x
    <3>4. QED
      BY <1>1, <1>3, <2>1, <2>2, <3>2, <3>3 DEF ServerWrites
  <2>4. CASE after = db[own]
    BY <1>1, <1>3, <2>1, <2>2, <2>4 DEF ServerWrites
  <2>5. QED
    BY <2>3, <2>4
<1> HIDE DEF after, m
<1>7. QED
  BY <1>3, <1>4, <1>5, <1>6 DEF after, m

LEMMA RunMirror ==
  ASSUME Liberty = {}, MirrorInv, PushInv', ServerRuns
  PROVE  MirrorInv'
<1> DEFINE m == Head(toServer)
           after == ServerEdited(m.edit, db[m.id])
<1>1. /\ toServer # <<>> /\ m.msg = "method" /\ toServer' = Tail(toServer)
      /\ ServerWrites(m.id, after)
      /\ unsynced' = unsynced \cup {m.method}
      /\ UNCHANGED <<local, published, foreign>>
  BY DEF ServerRuns
<1>2. PushInv /\ TypeInv /\ TypeInv' /\ Own \subseteq Id
  BY InputsAssumption DEF MirrorInv, PushInv
<1>3. PICK k \in Nat, own \in Id :
        /\ k = m.method /\ own = m.id /\ Asked(k, own, 1)
        /\ <<k, own>> \in idle /\ k \notin unsynced /\ own \in Own
        /\ \A j \in Nat : ~Reported(k, j)
        /\ \A x \in Id, j \in Nat : Asked(k, x, j) => j = 1
        /\ k \in 1 .. methods /\ ready /\ published
        /\ db' = [db EXCEPT ![own] = after] /\ after \in Stored /\ db \in [Id -> Stored]
        /\ \/ toClient' = toClient
           \/ \E x \in ToClient : x.msg = "data" /\ x.id = own /\ toClient' = Append(toClient, x)
  BY Running
<1> HIDE DEF after
<1>4. unsynced' = unsynced \cup {k}
  BY <1>1, <1>3
<1>5. /\ \A n, i \in Nat : Reported(n, i)' <=> Reported(n, i)
      /\ EchoesDropped'
  <2>1. CASE toClient' = toClient
    <3>1. \A n, i \in Nat : Reported(n, i)' <=> Reported(n, i)
      BY <2>1 DEF Reported
    <3>2. \A id, i : Telling(id, i)' <=> Telling(id, i)
      BY <2>1 DEF Telling
    <3>3. QED
      BY <1>1, <1>4, <3>1, <3>2 DEF MirrorInv, EchoesDropped, ReportedAfter, local
  <2>2. CASE \E x \in ToClient : x.msg = "data" /\ x.id = own /\ toClient' = Append(toClient, x)
    <3>1. PICK x \in ToClient : x.msg = "data" /\ x.id = own /\ toClient' = Append(toClient, x)
      BY <2>2
    <3>2. unsynced \subseteq unsynced' /\ <<k, x.id>> \in idle /\ k \in unsynced'
      BY <1>3, <1>4, <3>1
    <3>3. QED
      BY <1>1, <1>3, <3>1, <3>2, Echoes
  <2>3. QED
    BY <1>3, <2>1, <2>2
<1>6. /\ \A n, i \in Nat, id \in Id : Asked(n, id, i)' <=> i # 0 /\ Asked(n, id, i + 1)
      /\ \A i \in 1 .. Len(toServer') :
           i + 1 \in 1 .. Len(toServer) /\ toServer'[i] = toServer[i + 1]
      /\ \A n, i \in Nat, id \in Id : Asked(n, id, i) => i # 0
  BY <1>1, <1>2, ServerTakes
<1>7. MethodsOnce'
  <2>1. ASSUME NEW n \in Nat, NEW i \in Nat, NEW id \in Id, Asked(n, id, i)'
        PROVE  /\ <<n, id>> \in idle' /\ n \notin unsynced'
               /\ \A j \in Nat : ~Reported(n, j)'
               /\ \A x \in Id, j \in Nat : Asked(n, x, j)' => i = j
    <3>1. Asked(n, id, i + 1) /\ i + 1 \in Nat /\ i # 0
      BY <1>6, <2>1
    <3>2. /\ <<n, id>> \in idle /\ n \notin unsynced
          /\ \A j \in Nat : ~Reported(n, j)
          /\ \A x \in Id, j \in Nat : Asked(n, x, j) => i + 1 = j
      BY <3>1 DEF MirrorInv, MethodsOnce
    <3>3. n # k
      BY <1>3, <3>1
    <3>4. ASSUME NEW x \in Id, NEW j \in Nat, Asked(n, x, j)'
          PROVE  i = j
      BY <1>6, <3>2, <3>4
    <3>5. QED
      BY <1>1, <1>4, <1>5, <3>2, <3>3, <3>4 DEF local
  <2>2. \A n, i \in Nat : Reported(n, i)' =>
          /\ n \in 1 .. methods' /\ n \notin unsynced'
          /\ \A j \in Nat : Reported(n, j)' => i = j
    <3>1. SUFFICES ASSUME NEW n \in Nat, NEW i \in Nat, Reported(n, i)
                   PROVE  /\ n \in 1 .. methods' /\ n \notin unsynced'
                          /\ \A j \in Nat : Reported(n, j)' => i = j
      BY <1>5
    <3>2. /\ n \in 1 .. methods /\ n \notin unsynced
          /\ \A j \in Nat : Reported(n, j) => i = j
      BY <3>1 DEF MirrorInv, MethodsOnce
    <3>3. n # k
      BY <1>3, <3>1
    <3>4. methods' = methods
      BY <1>1 DEF local
    <3>5. QED
      BY <1>4, <1>5, <3>2, <3>3, <3>4
  <2>3. QED
    BY <2>1, <2>2 DEF MethodsOnce
<1>8. IdleUntilReported'
  <2>1. ASSUME NEW n \in Nat, NEW id \in Id, <<n, id>> \in idle'
        PROVE  /\ id \in Own
               /\ n \in unsynced' \/ \E i \in Nat : Asked(n, id, i)' \/ Reported(n, i)'
    <3>1. /\ id \in Own
          /\ n \in unsynced \/ \E i \in Nat : Asked(n, id, i) \/ Reported(n, i)
      BY <1>1, <2>1 DEF MirrorInv, IdleUntilReported, local
    <3>2. ASSUME NEW i \in Nat, Asked(n, id, i)
          PROVE  n \in unsynced' \/ \E j \in Nat : Asked(n, id, j)'
      <4>1. i # 0
        BY <1>6, <3>2
      <4>2. CASE i = 1
        <5>1. n = k
          BY <1>3, <3>2, <4>2 DEF Asked
        <5>2. QED
          BY <1>4, <5>1
      <4>3. CASE i # 1
        <5>1. PICK j \in Nat : i = j + 1 /\ j # 0
          <6>1. i - 1 \in Nat /\ i = (i - 1) + 1 /\ i - 1 # 0
            BY <4>1, <4>3
          <6>2. QED
            BY <6>1
        <5>2. Asked(n, id, j)'
          BY <1>6, <3>2, <5>1
        <5>3. QED
          BY <5>2
      <4>4. QED
        BY <4>2, <4>3
    <3>3. QED
      BY <1>4, <1>5, <3>1, <3>2
  <2>2. QED
    BY <2>1 DEF IdleUntilReported
<1>9. Subscribing'
  BY <1>1, <1>3, <1>6 DEF MirrorInv, Subscribing, local
<1>10. DataMirrors'
  <2>1. ASSUME NEW id \in Id, id \notin Own
        PROVE  db'[id] = AfterData(id)'
    <3>1. id # own /\ db'[id] = db[id]
      BY <1>3, <2>1
    <3>2. AfterData(id)' = AfterData(id)
      <4>1. CASE toClient' = toClient
        BY <1>1, <1>2, <4>1, DataSame DEF local
      <4>2. CASE \E x \in ToClient : /\ x.msg = "data" /\ x.id = own
                                     /\ toClient' = Append(toClient, x)
        BY <1>1, <1>2, <3>1, <4>2, DataSent DEF local, DataStep
      <4>3. QED
        BY <1>3, <4>1, <4>2
    <3>3. QED
      BY <1>3, <2>1, <3>1, <3>2 DEF MirrorInv, DataMirrors
  <2>2. QED
    BY <1>1, <1>3, <2>1 DEF DataMirrors, local
<1>11. MethodsMirror'
  <2>1. \A id \in Id : db'[id] = MethodStep(id, db[id], m)
    BY <1>1, <1>3 DEF MethodStep, after
  <2>2. \A id \in Id : AfterMethods(id)' = AfterMethods(id)
    BY <1>1, <1>2, <2>1, MethodsArrive
  <2>3. \A d, e : Due(d, e)' <=> Due(d, e)
    BY <1>1 DEF Due, local
  <2>4. \A id : Pending(id)' <=> Pending(id)
    BY <1>1 DEF Pending, local
  <2>5. \A id : Unpushed(id)' <=> Unpushed(id)
    BY <2>3 DEF Unpushed
  <2>6. QED
    BY <1>1, <1>2, <2>2, <2>3, <2>4, <2>5 DEF MirrorInv, MethodsMirror, local
<1>12. AnnouncementsDistinct'
  BY <1>1 DEF MirrorInv, AnnouncementsDistinct, Events, local
<1>13. QED
  BY <1>5, <1>7, <1>8, <1>9, <1>10, <1>11, <1>12 DEF MirrorInv

(* The server reports a method.                                            *)
LEMMA SyncMirror ==
  ASSUME MirrorInv, PushInv', NEW k \in unsynced, ServerSyncs(k)
  PROVE  MirrorInv'
<1>1. /\ unsynced' = unsynced \ {k}
      /\ toClient' = Append(toClient, [msg |-> "updated", method |-> k])
      /\ UNCHANGED <<local, toServer, db, published, foreign>>
  BY DEF ServerSyncs
<1>2. PushInv /\ TypeInv /\ TypeInv' /\ Own \subseteq Id
  BY InputsAssumption DEF MirrorInv, PushInv
<1>3. k \in 1 .. methods /\ k \in Nat /\ ready /\ published
  <2>1. k \in 1 .. methods
    BY <1>2 DEF TypeInv, TypeOK
  <2>2. QED
    BY <1>2, <2>1, Numbers DEF MirrorInv, Subscribing, TypeInv
<1>4. PICK x \in ToClient : x.msg = "updated" /\ x.method = k /\ toClient' = Append(toClient, x)
  <2> DEFINE x == [msg |-> "updated", method |-> k]
  <2>1. x \in ToClient /\ x.msg = "updated" /\ x.method = k
    BY <1>3 DEF ToClient
  <2>2. toClient' = Append(toClient, x)
    BY <1>1
  <2> HIDE DEF x
  <2>3. QED
    BY <2>1, <2>2
<1>5. PICK n \in Nat :
        /\ \A m, i \in Nat :
             Reported(m, i)' <=> Reported(m, i) \/ (i = n /\ x.msg = "updated" /\ x.method = m)
        /\ \A id \in Id, i \in Nat :
             Telling(id, i)' <=> Telling(id, i) \/ (i = n /\ x.msg = "data" /\ x.id = id)
        /\ \A i \in Nat : Completing(i)' <=> Completing(i) \/ (i = n /\ x.msg = "ready")
        /\ \A i \in Nat : /\ \A m \in Nat : Reported(m, i) => i < n
                          /\ \A id \in Id : Telling(id, i) => i < n
                          /\ Completing(i) => i < n
  BY <1>2, <1>4, ClientGets
<1>6. /\ \A m, i \in Nat : Reported(m, i)' <=> Reported(m, i) \/ (i = n /\ m = k)
      /\ \A id \in Id, i \in Nat : /\ Telling(id, i)' <=> Telling(id, i)
                                   /\ Telling(id, i) => i < n
  BY <1>4, <1>5
<1>7. \A i \in Nat : ~Reported(k, i)
  BY <1>3 DEF MirrorInv, MethodsOnce
<1>8. \A m, i \in Nat, id \in Id : Asked(m, id, i)' <=> Asked(m, id, i)
  BY <1>1 DEF Asked
<1>9. MethodsOnce'
  <2>1. ASSUME NEW m \in Nat, NEW i \in Nat, Reported(m, i)'
        PROVE  /\ m \in 1 .. methods' /\ m \notin unsynced'
               /\ \A j \in Nat : Reported(m, j)' => i = j
    <3>1. CASE m = k
      BY <1>1, <1>3, <1>6, <1>7, <2>1, <3>1 DEF local
    <3>2. CASE m # k
      BY <1>1, <1>6, <2>1, <3>2 DEF local, MirrorInv, MethodsOnce
    <3>3. QED
      BY <3>1, <3>2
  <2>2. ASSUME NEW m \in Nat, NEW i \in Nat, NEW id \in Id, Asked(m, id, i)
        PROVE  m \notin unsynced' /\ \A j \in Nat : ~Reported(m, j)'
    <3>1. m \notin unsynced /\ \A j \in Nat : ~Reported(m, j)
      BY <2>2 DEF MirrorInv, MethodsOnce
    <3>2. QED
      BY <1>1, <1>6, <3>1
  <2>3. QED
    BY <1>1, <1>8, <2>1, <2>2 DEF MirrorInv, MethodsOnce, local
<1>10. IdleUntilReported'
  <2>1. ASSUME NEW m \in Nat, NEW id \in Id, <<m, id>> \in idle
        PROVE  /\ id \in Own
               /\ m \in unsynced' \/ \E i \in Nat : Asked(m, id, i)' \/ Reported(m, i)'
    <3>1. CASE m = k
      BY <1>6, <2>1, <3>1 DEF MirrorInv, IdleUntilReported
    <3>2. CASE m # k
      BY <1>1, <1>6, <1>8, <2>1, <3>2 DEF MirrorInv, IdleUntilReported
    <3>3. QED
      BY <3>1, <3>2
  <2>2. QED
    BY <1>1, <2>1 DEF IdleUntilReported, local
<1>11. EchoesDropped'
  <2>1. ASSUME NEW id \in Own, NEW i \in Nat, Telling(id, i)'
        PROVE  \E m \in Nat : <<m, id>> \in idle /\ ReportedAfter(m, i)'
    <3>1. Telling(id, i) /\ i < n
      BY <1>2, <1>6, <2>1
    <3>2. PICK m \in Nat : <<m, id>> \in idle /\ ReportedAfter(m, i)
      BY <1>3, <3>1 DEF MirrorInv, EchoesDropped
    <3>3. CASE m = k
      <4>1. ReportedAfter(m, i)'
        BY <1>6, <3>1, <3>3 DEF ReportedAfter
      <4>2. QED
        BY <3>2, <4>1
    <3>4. CASE m # k
      <4>1. ReportedAfter(m, i)'
        BY <1>1, <1>6, <3>2, <3>4 DEF ReportedAfter
      <4>2. QED
        BY <3>2, <4>1
    <3>5. QED
      BY <3>3, <3>4
  <2>2. QED
    BY <1>1, <2>1 DEF EchoesDropped, local
<1>12. Subscribing'
  BY <1>1, <1>3 DEF MirrorInv, Subscribing, local
<1>13. DataMirrors'
  <2>1. \A id \in Id : AfterData(id)' = AfterData(id)
    BY <1>1, <1>2, <1>4, DataSent DEF DataStep, local
  <2>2. QED
    BY <1>1, <2>1 DEF MirrorInv, DataMirrors, local
<1>14. MethodsMirror'
  <2>1. \A id \in Id : AfterMethods(id)' = AfterMethods(id)
    BY <1>1, <1>2, MethodsSame
  <2>2. \A d, e : Due(d, e)' <=> Due(d, e)
    BY <1>1 DEF Due, local
  <2>3. \A id : Pending(id)' <=> Pending(id)
    BY <1>1 DEF Pending, local
  <2>4. \A id : Unpushed(id)' <=> Unpushed(id)
    BY <2>2 DEF Unpushed
  <2>5. QED
    BY <1>1, <1>2, <2>1, <2>2, <2>3, <2>4 DEF MirrorInv, MethodsMirror, local
<1>15. AnnouncementsDistinct'
  BY <1>1 DEF MirrorInv, AnnouncementsDistinct, Events, local
<1>16. QED
  BY <1>9, <1>10, <1>11, <1>12, <1>13, <1>14, <1>15 DEF MirrorInv

(* Other clients write other documents: the server tells of them.          *)
LEMMA OthersMirror ==
  ASSUME Liberty = {}, MirrorInv, PushInv',
         NEW other \in Id, NEW after \in Documents \cup {NoDoc}, OtherClientWrites(other, after)
  PROVE  MirrorInv'
<1>1. /\ other \notin Own /\ after # db[other] /\ ServerWrites(other, after)
      /\ UNCHANGED <<local, toServer, published, unsynced>>
  BY DEF OtherClientWrites
<1>2. /\ PushInv /\ TypeInv /\ TypeInv' /\ Own \subseteq Id /\ db \in [Id -> Stored]
  BY InputsAssumption DEF MirrorInv, PushInv, TypeInv, TypeOK
<1>3. after \in Stored /\ db[other] \in Stored
  BY <1>2, InputsAssumption DEF Stored
<1>4. db'[other] = after /\ \A id \in Id : id # other => db'[id] = db[id]
  BY <1>1, <1>2 DEF ServerWrites
<1>5. published =>
        \E x \in ToClient : /\ x.msg = "data" /\ x.id = other
                            /\ x.edit = Difference(db[other], after)
                            /\ toClient' = Append(toClient, x)
  <2> SUFFICES ASSUME published
               PROVE  \E x \in ToClient : /\ x.msg = "data" /\ x.id = other
                                          /\ x.edit = Difference(db[other], after)
                                          /\ toClient' = Append(toClient, x)
    OBVIOUS
  <2> DEFINE x == [msg |-> "data", id |-> other, edit |-> Difference(db[other], after)]
  <2>1. Difference(db[other], after) \in Edit
    BY <1>1, <1>3, DifferenceIsEdit
  <2>2. /\ x \in ToClient /\ x.msg = "data" /\ x.id = other
        /\ x.edit = Difference(db[other], after)
    BY <2>1 DEF ToClient
  <2>3. toClient' = Append(toClient, x)
    BY <1>1 DEF ServerWrites
  <2> HIDE DEF x
  <2>4. QED
    BY <2>2, <2>3
<1>6. ~published => toClient' = toClient
  BY <1>1 DEF ServerWrites
<1>7. \A m, i, id : Asked(m, id, i)' <=> Asked(m, id, i)
  BY <1>1 DEF Asked
<1>8. /\ \A m, i \in Nat : Reported(m, i)' <=> Reported(m, i)
      /\ EchoesDropped'
      /\ ~ready' => \A id \in Own, i, j \in Nat : Telling(id, i)' /\ Completing(j)' => i < j
  <2>1. CASE published
    <3>1. PICK x \in ToClient : /\ x.msg = "data" /\ x.id = other
                                /\ toClient' = Append(toClient, x)
      BY <1>5, <2>1
    <3>2. QED
      BY <1>1, <3>1, Echoes
  <2>2. CASE ~published
    <3>1. /\ \A m, i : Reported(m, i)' <=> Reported(m, i)
          /\ \A id, i : Telling(id, i)' <=> Telling(id, i)
          /\ \A i : Completing(i)' <=> Completing(i)
      BY <1>6, <2>2 DEF Reported, Telling, Completing
    <3>2. ~ready
      BY <2>2 DEF MirrorInv, Subscribing
    <3>3. \A id \in Own, i, j \in Nat : Telling(id, i) /\ Completing(j) => i < j
      BY <3>2 DEF MirrorInv, Subscribing
    <3>4. EchoesDropped'
      BY <1>1, <3>2 DEF EchoesDropped, local
    <3>5. QED
      BY <3>1, <3>3, <3>4
  <2>3. QED
    BY <2>1, <2>2
<1>9. MethodsOnce'
  BY <1>1, <1>7, <1>8 DEF MirrorInv, MethodsOnce, local
<1>10. IdleUntilReported'
  BY <1>1, <1>7, <1>8 DEF MirrorInv, IdleUntilReported, local
<1>11. Subscribing'
  BY <1>1, <1>6, <1>8 DEF MirrorInv, Subscribing, local
<1>12. DataMirrors'
  <2>1. ASSUME NEW id \in Id, ready => id \notin Own, published
        PROVE  db'[id] = AfterData(id)'
    <3>1. db[id] = AfterData(id)
      BY <2>1 DEF MirrorInv, DataMirrors
    <3>2. PICK x \in ToClient : /\ x.msg = "data" /\ x.id = other
                                /\ x.edit = Difference(db[other], after)
                                /\ toClient' = Append(toClient, x)
      BY <1>5, <2>1
    <3>3. AfterData(id)' = DataStep(id, AfterData(id), x)
      BY <1>1, <1>2, <3>2, DataSent DEF local
    <3>4. CASE id = other
      <4>1. Edited(x.edit, db[other]) = after
        BY <1>1, <1>3, <3>2, EditRebuilds
      <4>2. QED
        BY <1>4, <3>1, <3>2, <3>3, <3>4, <4>1 DEF DataStep
    <3>5. CASE id # other
      BY <1>4, <3>1, <3>2, <3>3, <3>5 DEF DataStep
    <3>6. QED
      BY <3>4, <3>5
  <2>2. QED
    BY <1>1, <2>1 DEF DataMirrors, local
<1>13. MethodsMirror'
  <2>1. \A id \in Own : AfterMethods(id)' = AfterMethods(id)
    BY <1>1, <1>2, <1>4, MethodsSame
  <2>2. \A d, e : Due(d, e)' <=> Due(d, e)
    BY <1>1 DEF Due, local
  <2>3. \A id : (Pending(id)' <=> Pending(id)) /\ (Unpushed(id)' <=> Unpushed(id))
    BY <1>1, <2>2 DEF Pending, Unpushed, local
  <2>4. QED
    BY <1>1, <2>1, <2>2, <2>3 DEF MirrorInv, MethodsMirror, local
<1>14. AnnouncementsDistinct'
  BY <1>1 DEF MirrorInv, AnnouncementsDistinct, Events, local
<1>15. QED
  BY <1>8, <1>9, <1>10, <1>11, <1>12, <1>13, <1>14 DEF MirrorInv

-----------------------------------------------------------------------------
LEMMA MirrorKept ==
  ASSUME Liberty = {}, MirrorInv, [Next]_vars
  PROVE  MirrorInv'
<1>1. PushInv /\ PushInv'
  BY PushKept DEF MirrorInv
<1>2. CASE UserCall
  BY <1>1, <1>2, UserMirror
<1>3. CASE Progress
  BY <1>1, <1>3, AnnouncePays, AnnouncedPays, PaysMirror, ReturnMirror DEF Progress
<1>4. CASE on_message
  BY <1>1, <1>4, DocumentMirror, SynchronizedMirror, BatchMirror DEF on_message
<1>5. CASE Server
  BY <1>1, <1>5, PublishMirror, RunMirror, SyncMirror DEF Server
<1>6. CASE \E id \in Id, after \in Documents \cup {NoDoc} : OtherClientWrites(id, after)
  BY <1>1, <1>6, OthersMirror
<1>7. CASE UNCHANGED vars
  <2>1. /\ \A d \in Depth : Events(d)' = Events(d)
        /\ \A d \in Depth, e \in Event : Due(d, e)' <=> Due(d, e)
    BY <1>7 DEF vars, Events, Due
  <2>2. UNCHANGED <<store, ready, idle, methods, toServer, toClient, server>>
    BY <1>7 DEF vars, server
  <2>3. QED
    BY <1>1, <2>1, <2>2, CopiesStay
<1>8. QED
  BY <1>2, <1>3, <1>4, <1>5, <1>6, <1>7 DEF Next

(* The invariant says both of the properties.                              *)
LEMMA MirrorInvSuffices == MirrorInv => Mirrors /\ CopiesDifferByMessages
<1> SUFFICES ASSUME MirrorInv
             PROVE  Mirrors /\ CopiesDifferByMessages
  OBVIOUS
<1>1. PushInv /\ TypeInv /\ Own \subseteq Id
  BY InputsAssumption DEF MirrorInv, PushInv
<1>2. depth = 0 /\ ready => \A id \in Own : store[id] = AfterMethods(id)
  BY <1>1, AtRest DEF MirrorInv, MethodsMirror, Unpushed
<1>3. published => \A id \in Id \ Own : db[id] = AfterData(id)
  BY DEF MirrorInv, DataMirrors
<1>4. ASSUME Quiet
      PROVE  store = db /\ idle = {}
  <2>1. published
    BY <1>4 DEF Quiet, MirrorInv, Subscribing
  <2>2. ASSUME NEW id \in Id
        PROVE  store[id] = db[id]
    <3>1. AfterMethods(id) = db[id] /\ AfterData(id) = store[id]
      BY <1>1, <1>4, NoMethods, NoData DEF Quiet
    <3>2. QED
      BY <1>2, <1>3, <1>4, <2>1, <3>1 DEF Quiet
  <2>3. store \in [Id -> Stored] /\ db \in [Id -> Stored]
    BY <1>1 DEF TypeInv, TypeOK
  <2>4. ASSUME NEW m \in Nat, NEW id \in Id, <<m, id>> \in idle
        PROVE  FALSE
    BY <1>4, <2>4 DEF Quiet, MirrorInv, IdleUntilReported, Asked, Reported
  <2>5. idle \subseteq Nat \X Id
    BY <1>1, Numbers DEF TypeInv, TypeOK
  <2>6. QED
    BY <2>2, <2>3, <2>4, <2>5
<1>5. QED
  BY <1>2, <1>3, <1>4 DEF Mirrors, CopiesDifferByMessages

(***************************************************************************)
(* When nothing is under way the collection of the client is the server's, *)
(* and it listens to every document, for any number of documents, of       *)
(* clients' writes and of nested callbacks, if users leave documents alone *)
(* whose method is under way, callbacks those that are being announced, no *)
(* other client writes the documents of this one and the server accepts    *)
(* its methods (README.md:20, "keep your data mirrored";                   *)
(* ddp_collection.cpp:92-94, 155-196).                                     *)
(***************************************************************************)
THEOREM CollectionMirrors ==
  ASSUME Liberty = {}
  PROVE  Spec => []Mirrors
<1>1. MirrorInv /\ [Next]_vars => MirrorInv'
  BY MirrorKept
<1>2. QED
  BY <1>1, InitMirror, MirrorInvSuffices, PTL DEF Spec

(***************************************************************************)
(* Between two calls, under the same conditions, executing the methods     *)
(* under way makes the server's copy of a document of this client the      *)
(* local one, and applying the messages under way makes the local copy of  *)
(* every other document the server's (ddp_collection.cpp:98-145, 155-196). *)
(***************************************************************************)
THEOREM CopiesDifferOnlyByMessages ==
  ASSUME Liberty = {}
  PROVE  Spec => []CopiesDifferByMessages
<1>1. MirrorInv /\ [Next]_vars => MirrorInv'
  BY MirrorKept
<1>2. QED
  BY <1>1, InitMirror, MirrorInvSuffices, PTL DEF Spec

-----------------------------------------------------------------------------
(***************************************************************************)
(* The promise of Replica.  While nobody takes a liberty, each step of the *)
(* two collections is one of Replica's or leaves its variables alone.      *)
(***************************************************************************)
(* The versions of the documents `ids' that a queue takes them through.    *)
Versions(ids, s, q) ==
  [i \in 1 .. Len(q) |-> [id \in ids |-> Told(id, s[id], SubSeq(q, 1, i))]]

LEMMA UnderwayIs == Underway = Versions(Followed, store, toClient)
BY Zenon DEF Underway, Versions, Reached, Told, DataStep

LEMMA UnderwayNext == Underway' = Versions(Followed', store', toClient')
<1>1. (Underway = Versions(Followed, store, toClient))'
  BY UnderwayIs, PTL
<1>2. QED
  BY <1>1

LEMMA ToldSteps ==
  ASSUME NEW id, NEW doc \in Stored, NEW q \in Seq(ToClient)
  PROVE  /\ Told(id, doc, q) \in Stored
         /\ Told(id, doc, <<>>) = doc
         /\ \A m \in ToClient : Told(id, doc, Append(q, m)) = DataStep(id, Told(id, doc, q), m)
         /\ q # <<>> => /\ DataStep(id, doc, Head(q)) \in Stored
                        /\ Told(id, doc, q) = Told(id, DataStep(id, doc, Head(q)), Tail(q))
<1> DEFINE F == DataEffect(id)
<1>1. F \in [ToClient -> [Stored -> Stored]]
  BY EffectTypes
<1>2. \A d \in Stored, r \in Seq(ToClient) : Told(id, d, r) = Through(F, Stored, d, r)
  BY ToldIs
<1>3. \A d \in Stored, m \in ToClient : /\ F[m][d] = DataStep(id, d, m)
                                        /\ DataStep(id, d, m) \in Stored
  BY StepTypes
<1> HIDE DEF F
<1>4. Through(F, Stored, doc, q) \in Stored /\ Through(F, Stored, doc, <<>>) = doc
  BY <1>1, ThroughType, ThroughNothing
<1>5. <<>> \in Seq(ToClient)
  OBVIOUS
<1>6. ASSUME NEW m \in ToClient
      PROVE  Told(id, doc, Append(q, m)) = DataStep(id, Told(id, doc, q), m)
  <2>1. Append(q, m) \in Seq(ToClient)
    BY AppendProperties
  <2>2. Through(F, Stored, doc, Append(q, m)) = F[m][Through(F, Stored, doc, q)]
    BY <1>1, ThroughAppend
  <2>3. QED
    BY <1>2, <1>3, <1>4, <2>1, <2>2
<1>7. ASSUME q # <<>>
      PROVE  /\ DataStep(id, doc, Head(q)) \in Stored
             /\ Told(id, doc, q) = Told(id, DataStep(id, doc, Head(q)), Tail(q))
  <2>1. /\ Head(q) \in ToClient /\ Tail(q) \in Seq(ToClient)
        /\ Through(F, Stored, doc, q) = Through(F, Stored, F[Head(q)][doc], Tail(q))
    BY <1>1, <1>7, ThroughHead
  <2>2. QED
    BY <1>2, <1>3, <2>1
<1>8. QED
  BY <1>2, <1>4, <1>5, <1>6, <1>7

LEMMA VersionsType ==
  ASSUME NEW ids \in SUBSET Id, NEW s \in [Id -> Stored], NEW q \in Seq(ToClient)
  PROVE  /\ Versions(ids, s, q) \in Seq([ids -> Stored])
         /\ Len(Versions(ids, s, q)) = Len(q)
         /\ \A i \in 1 .. Len(q) :
              Versions(ids, s, q)[i] = [id \in ids |-> Told(id, s[id], SubSeq(q, 1, i))]
<1>1. Len(q) \in Nat
  BY LenProperties
<1>2. ASSUME NEW i \in 1 .. Len(q), NEW id \in ids
      PROVE  Told(id, s[id], SubSeq(q, 1, i)) \in Stored
  <2>1. SubSeq(q, 1, i) \in Seq(ToClient)
    <3>1. q # <<>>
      BY <1>1
    <3>2. QED
      BY <3>1, PrefixTail
  <2>2. QED
    BY <2>1, ToldSteps
<1> DEFINE v == Versions(ids, s, q)
<1>3. v \in [1 .. Len(q) -> [ids -> Stored]]
  BY <1>2 DEF Versions
<1>4. \A i \in 1 .. Len(q) : v[i] = [id \in ids |-> Told(id, s[id], SubSeq(q, 1, i))]
  BY DEF Versions
<1> HIDE DEF v
<1>5. v \in Seq([ids -> Stored]) /\ Len(v) = Len(q)
  BY <1>1, <1>3, FunctionIsSeq
<1>6. QED
  BY <1>4, <1>5 DEF v

(* The same documents are taken through the same versions. *)
LEMMA VersionsSame ==
  ASSUME NEW ids, NEW s, NEW t, \A id \in ids : s[id] = t[id], NEW q
  PROVE  Versions(ids, s, q) = Versions(ids, t, q)
BY DEF Versions

(* A message more. *)
LEMMA VersionsAppend ==
  ASSUME NEW ids \in SUBSET Id, NEW s \in [Id -> Stored], NEW q \in Seq(ToClient),
         NEW m \in ToClient, NEW t,
         \A id \in ids : Told(id, s[id], Append(q, m)) = t[id]
  PROVE  Versions(ids, s, Append(q, m)) = Append(Versions(ids, s, q), R!Part(t, ids))
<1> DEFINE r == Append(q, m)
           last == R!Part(t, ids)
           v == Versions(ids, s, q)
           w == Versions(ids, s, r)
           n == Len(q)
<1>1. r \in Seq(ToClient) /\ Len(r) = n + 1 /\ n \in Nat
  BY AppendProperties, LenProperties
<1>2. /\ \A i \in 1 .. n : SubSeq(r, 1, i) = SubSeq(q, 1, i)
      /\ SubSeq(r, 1, n + 1) = r
  BY PrefixAppend
<1>3. \A id \in ids : Told(id, s[id], r) = t[id]
  OBVIOUS
<1> HIDE DEF r, n
<1>4. /\ v \in Seq([ids -> Stored]) /\ Len(v) = n
      /\ \A i \in 1 .. n : v[i] = [id \in ids |-> Told(id, s[id], SubSeq(q, 1, i))]
  BY VersionsType DEF n
<1>5. /\ w \in Seq([ids -> Stored]) /\ Len(w) = n + 1
      /\ \A i \in 1 .. n + 1 : w[i] = [id \in ids |-> Told(id, s[id], SubSeq(r, 1, i))]
  <2>1. /\ w \in Seq([ids -> Stored]) /\ Len(w) = Len(r)
        /\ \A i \in 1 .. Len(r) : w[i] = [id \in ids |-> Told(id, s[id], SubSeq(r, 1, i))]
    BY <1>1, VersionsType
  <2> HIDE DEF w
  <2>2. QED
    BY <1>1, <2>1
<1> HIDE DEF v, w
<1>6. w[n + 1] = last
  <2>1. n + 1 \in 1 .. n + 1
    BY <1>1
  <2>2. w[n + 1] = [id \in ids |-> Told(id, s[id], r)]
    BY <1>2, <1>5, <2>1
  <2>3. QED
    BY <1>3, <2>2 DEF R!Part
<1>7. \A i \in 1 .. n : w[i] = v[i]
  <2>1. SUFFICES ASSUME NEW i \in 1 .. n
                 PROVE  w[i] = v[i]
    OBVIOUS
  <2>2. i \in 1 .. n + 1 /\ SubSeq(r, 1, i) = SubSeq(q, 1, i)
    BY <1>1, <1>2
  <2>3. w[i] = [id \in ids |-> Told(id, s[id], SubSeq(r, 1, i))]
    BY <1>5, <2>2
  <2>4. v[i] = [id \in ids |-> Told(id, s[id], SubSeq(q, 1, i))]
    BY <1>4
  <2>5. QED
    BY <2>2, <2>3, <2>4
<1>8. last \in [ids -> Stored]
  BY <1>1, <1>5, <1>6, ElementOfSeq
<1> HIDE DEF last
<1>9. /\ Append(v, last) \in Seq([ids -> Stored]) /\ Len(Append(v, last)) = n + 1
      /\ \A i \in 1 .. n : Append(v, last)[i] = v[i]
      /\ Append(v, last)[n + 1] = last
  BY <1>4, <1>8, AppendProperties
<1>10. \A i \in 1 .. n + 1 : w[i] = Append(v, last)[i]
  <2>1. \A i \in 1 .. n + 1 : i \in 1 .. n \/ i = n + 1
    BY <1>1
  <2>2. QED
    BY <1>6, <1>7, <1>9, <2>1
<1>11. w = Append(v, last)
  BY <1>5, <1>9, <1>10, SeqEqual
<1>12. QED
  BY <1>11 DEF w, v, last, r

(* The first message arrives: its version is the first one. *)
LEMMA VersionsTail ==
  ASSUME NEW ids \in SUBSET Id, NEW s \in [Id -> Stored], NEW q \in Seq(ToClient), q # <<>>,
         NEW t \in [Id -> Stored], \A id \in ids : t[id] = DataStep(id, s[id], Head(q))
  PROVE  /\ Versions(ids, s, q) # <<>>
         /\ Head(Versions(ids, s, q)) = R!Part(t, ids)
         /\ Tail(Versions(ids, s, q)) = Versions(ids, t, Tail(q))
<1> DEFINE v == Versions(ids, s, q)
           w == Versions(ids, t, Tail(q))
           n == Len(q)
<1>1. /\ n \in Nat /\ n # 0 /\ Head(q) \in ToClient
      /\ Tail(q) \in Seq(ToClient) /\ Len(Tail(q)) = n - 1
  BY LenProperties, HeadTailProperties
<1>2. \A id \in ids : s[id] \in Stored /\ t[id] \in Stored
  OBVIOUS
<1>3. ASSUME NEW i \in 1 .. n, NEW id \in ids
      PROVE  Told(id, s[id], SubSeq(q, 1, i))
               = IF i = 1 THEN t[id] ELSE Told(id, t[id], SubSeq(Tail(q), 1, i - 1))
  <2>1. /\ SubSeq(q, 1, i) \in Seq(ToClient) /\ SubSeq(q, 1, i) # <<>>
        /\ Head(SubSeq(q, 1, i)) = Head(q)
        /\ i = 1 => Tail(SubSeq(q, 1, i)) = <<>>
        /\ i # 1 => Tail(SubSeq(q, 1, i)) = SubSeq(Tail(q), 1, i - 1)
    BY PrefixTail
  <2> DEFINE p == SubSeq(q, 1, i)
  <2> HIDE DEF p
  <2>2. Told(id, s[id], p) = Told(id, t[id], Tail(p))
    <3>1. p \in Seq(ToClient) /\ p # <<>> /\ Head(p) = Head(q)
      BY <2>1 DEF p
    <3>2. s[id] \in Stored /\ t[id] = DataStep(id, s[id], Head(p))
      BY <1>2, <3>1
    <3>3. Told(id, s[id], p) = Told(id, DataStep(id, s[id], Head(p)), Tail(p))
      BY <3>1, <3>2, ToldSteps
    <3>4. QED
      BY <3>2, <3>3
  <2>3. Told(id, t[id], <<>>) = t[id]
    BY <1>1, <1>2, ToldSteps
  <2>4. QED
    BY <2>1, <2>2, <2>3 DEF p
<1> HIDE DEF n
<1>4. /\ v \in Seq([ids -> Stored]) /\ Len(v) = n
      /\ \A i \in 1 .. n : v[i] = [id \in ids |-> Told(id, s[id], SubSeq(q, 1, i))]
  BY VersionsType DEF n
<1>5. /\ w \in Seq([ids -> Stored]) /\ Len(w) = n - 1
      /\ \A i \in 1 .. n - 1 : w[i] = [id \in ids |-> Told(id, t[id], SubSeq(Tail(q), 1, i))]
  <2> DEFINE r == Tail(q)
  <2>1. r \in Seq(ToClient) /\ Len(r) = n - 1
    BY <1>1
  <2> HIDE DEF r
  <2>2. /\ Versions(ids, t, r) \in Seq([ids -> Stored]) /\ Len(Versions(ids, t, r)) = Len(r)
        /\ \A i \in 1 .. Len(r) :
             Versions(ids, t, r)[i] = [id \in ids |-> Told(id, t[id], SubSeq(r, 1, i))]
    BY <1>2, <2>1, VersionsType
  <2>3. QED
    BY <2>1, <2>2 DEF r
<1> HIDE DEF v, w
<1>6. v # <<>> /\ v[1] = [id \in ids |-> t[id]]
  <2>1. 1 \in 1 .. n
    BY <1>1
  <2>2. QED
    BY <1>1, <1>3, <1>4, <2>1
<1>7. /\ Tail(v) \in Seq([ids -> Stored]) /\ Len(Tail(v)) = n - 1
      /\ \A i \in 1 .. n - 1 : Tail(v)[i] = v[i + 1]
  BY <1>4, <1>6, HeadTailProperties
<1>8. \A i \in 1 .. n - 1 : Tail(v)[i] = w[i]
  <2>1. SUFFICES ASSUME NEW i \in 1 .. n - 1
                 PROVE  v[i + 1] = w[i]
    BY <1>7
  <2>2. i + 1 \in 1 .. n /\ i + 1 # 1 /\ (i + 1) - 1 = i
    BY <1>1
  <2>3. v[i + 1] = [id \in ids |-> Told(id, t[id], SubSeq(Tail(q), 1, i))]
    BY <1>3, <1>4, <2>2
  <2>4. QED
    BY <1>5, <2>3
<1>9. Tail(v) = w
  BY <1>5, <1>7, <1>8, SeqEqual
<1>10. Head(v) = v[1]
  BY <1>6
<1>11. QED
  BY <1>6, <1>9, <1>10 DEF v, w, R!Part

(* Fewer documents. *)
LEMMA VersionsPart ==
  ASSUME NEW ids, NEW few \in SUBSET ids, NEW s, NEW q
  PROVE  Versions(few, s, q) = [i \in 1 .. Len(q) |-> R!Part(Versions(ids, s, q)[i], few)]
BY DEF Versions, R!Part

-----------------------------------------------------------------------------
(* The documents the client follows, and the two collections.              *)
LEMMA ReplicaTypes ==
  /\ R!Stored = Stored /\ R!Collection = [Id -> Stored]
  /\ published => R!Followed = Followed /\ (Phase = "ready" <=> ready)
  /\ Phase = "unpublished" <=> ~published /\ ~ready
  /\ Followed \in SUBSET Id
  /\ TypeInv => store \in [Id -> Stored] /\ db \in [Id -> Stored] /\ toClient \in Seq(ToClient)
<1>1. R!Stored = Stored
  BY DEF R!Stored, Stored, R!Doc, Doc
<1>2. R!Collection = [Id -> Stored]
  BY <1>1 DEF R!Collection
<1>3. published => R!Followed = Followed /\ (Phase = "ready" <=> ready)
  BY DEF R!Followed, Followed, Phase
<1>4. Phase = "unpublished" <=> ~published /\ ~ready
  BY DEF Phase
<1>5. QED
  BY <1>1, <1>2, <1>3, <1>4 DEF Followed, TypeInv, TypeOK

(* What is under way in a step. *)
LEMMA UnderwaySame ==
  ASSUME UNCHANGED <<toClient, ready>>, \A id \in Followed : store'[id] = store[id]
  PROVE  Underway' = Underway
<1>1. Followed' = Followed
  BY DEF Followed
<1>2. Versions(Followed, store', toClient) = Versions(Followed, store, toClient)
  BY VersionsSame
<1>3. QED
  BY <1>1, <1>2, UnderwayIs, UnderwayNext

(* The message that is sent leads to the present state of the server.      *)
LEMMA UnderwayTells ==
  ASSUME MirrorInv, MirrorInv', published', UNCHANGED <<store, ready>>,
         NEW x \in ToClient, toClient' = Append(toClient, x)
  PROVE  Underway' = Append(Underway, R!Part(db', Followed))
<1>1. TypeInv /\ TypeInv'
  BY DEF MirrorInv, PushInv
<1>2. /\ store \in [Id -> Stored] /\ toClient \in Seq(ToClient)
      /\ Followed \in SUBSET Id /\ Followed' = Followed
  BY <1>1, ReplicaTypes DEF Followed
<1>3. \A id \in Followed : Told(id, store[id], Append(toClient, x)) = db'[id]
  <2>1. (\A id : AfterData(id) = Told(id, store[id], toClient))'
    BY AfterDataFold, PTL
  <2>2. \A id : AfterData(id)' = Told(id, store'[id], toClient')
    BY <2>1
  <2>3. \A id \in Followed : id \in Id /\ (ready' => id \notin Own)
    BY DEF Followed
  <2>4. \A id \in Followed : db'[id] = AfterData(id)'
    BY <2>3 DEF MirrorInv, DataMirrors
  <2>5. QED
    BY <2>2, <2>4
<1>4. Versions(Followed, store, Append(toClient, x))
        = Append(Versions(Followed, store, toClient), R!Part(db', Followed))
  BY <1>2, <1>3, VersionsAppend
<1>5. QED
  BY <1>2, <1>4, UnderwayIs, UnderwayNext

(* The message that arrives leads to the first version under way.          *)
LEMMA UnderwayFollows ==
  ASSUME TypeInv, TypeInv', toClient # <<>>, toClient' = Tail(toClient),
         \A id \in Followed : store'[id] = DataStep(id, store[id], Head(toClient))
  PROVE  /\ Underway # <<>>
         /\ Head(Underway) = R!Part(store', Followed)
         /\ Tail(Underway) = Versions(Followed, store', toClient')
<1>1. /\ store \in [Id -> Stored] /\ toClient \in Seq(ToClient) /\ Followed \in SUBSET Id
  BY ReplicaTypes
<1>2. store' \in [Id -> Stored]
  BY DEF TypeInv, TypeOK
<1>3. /\ Versions(Followed, store, toClient) # <<>>
      /\ Head(Versions(Followed, store, toClient)) = R!Part(store', Followed)
      /\ Tail(Versions(Followed, store, toClient)) = Versions(Followed, store', Tail(toClient))
  BY <1>1, <1>2, VersionsTail
<1>4. QED
  BY <1>3, UnderwayIs

-----------------------------------------------------------------------------
LEMMA InitReplica == Init => R!Init
<1> SUFFICES ASSUME Init
             PROVE  R!Init
  OBVIOUS
<1>1. store = [id \in Id |-> NoDoc] /\ db \in [Id -> Stored]
  BY InputsAssumption DEF Init
<1>2. Underway = <<>>
  BY DEF Init, Underway
<1>3. Phase = "unpublished"
  BY DEF Init, Phase
<1>4. QED
  BY <1>1, <1>2, <1>3, ReplicaTypes DEF R!Init

(* A document without a method under way, and without a change that is     *)
(* announced, is the same in both collections.                             *)
LEMMA SameWhenNothingPends ==
  ASSUME MirrorInv, ready, NEW id \in Own, ~Pending(id), ~Announcing(id)
  PROVE  store[id] = db[id]
<1>1. TypeInv /\ id \in Id
  BY InputsAssumption DEF MirrorInv, PushInv
<1>2. ~Unpushed(id)
  <2>1. ASSUME NEW d \in Depth, NEW e \in Event, Due(d, e)
        PROVE  e.id # id
    <3>1. e \in Events(d)
      BY <2>1, DueAnnounced
    <3>2. QED
      BY <3>1 DEF Events, Announcing
  <2>2. QED
    BY <2>1 DEF Unpushed
<1>3. AfterMethods(id) = store[id]
  BY <1>2 DEF MirrorInv, MethodsMirror
<1>4. ASSUME NEW i \in 1 .. Len(toServer), toServer[i].msg = "method", toServer[i].id = id
      PROVE  FALSE
  <2>1. PICK m : m = toServer[i].method
    OBVIOUS
  <2>2. Asked(m, id, i)
    BY <1>4, <2>1 DEF Asked
  <2>3. m \in 1 .. methods
    BY <1>1, <2>2, AskedTypes
  <2>4. m \in Nat /\ i \in Nat
    BY <1>1, <2>3, Numbers DEF TypeInv
  <2>5. <<m, id>> \in idle
    BY <1>1, <2>2, <2>4 DEF MirrorInv, MethodsOnce
  <2>6. QED
    BY <2>5 DEF Pending
<1>5. AfterMethods(id) = db[id]
  BY <1>1, <1>4, OtherMethods
<1>6. QED
  BY <1>3, <1>5

LEMMA WriteReplica ==
  ASSUME Liberty = {}, MirrorInv, MirrorInv', UserCall
  PROVE  R!Write
<1>1. PICK connects \in SUBSET Kind, events \in SUBSET Event :
        Write(connects, events) /\ OwnChanges(events)
  BY UserCallWrites DEF MirrorInv, PushInv, TypeInv
<1>2. /\ ready /\ UNCHANGED <<ready, toClient, db, published>>
      /\ \A e \in events : ~Pending(e.id) /\ ~Announcing(e.id)
  BY <1>1 DEF Write, server
<1>3. \A id \in Id : store'[id] # store[id] => \E e \in events : e.id = id
  BY <1>1 DEF Write
<1>4. /\ Phase = "ready" /\ Phase' = Phase
  BY <1>2 DEF Phase
<1>5. ASSUME NEW id \in Id, store'[id] # store[id]
      PROVE  id \in Own /\ store[id] = db[id]
  <2>1. PICK e \in events : e.id = id
    BY <1>3, <1>5
  <2>2. id \in Own /\ ~Pending(id) /\ ~Announcing(id)
    BY <1>1, <1>2, <2>1 DEF OwnChanges
  <2>3. QED
    BY <1>2, <2>2, SameWhenNothingPends
<1>6. Underway' = Underway
  <2>1. \A id \in Followed : id \in Id /\ id \notin Own
    BY <1>2 DEF Followed
  <2>2. \A id \in Followed : store'[id] = store[id]
    BY <1>5, <2>1
  <2>3. QED
    BY <1>2, <2>2, UnderwaySame
<1>7. store' \in R!Collection
  <2>1. store' \in [Id -> Stored]
    BY DEF MirrorInv, PushInv, TypeInv, TypeOK
  <2>2. QED
    BY <2>1, ReplicaTypes
<1>8. QED
  BY <1>2, <1>4, <1>5, <1>6, <1>7 DEF R!Write

LEMMA ProgressReplica ==
  ASSUME MirrorInv, Progress
  PROVE  UNCHANGED R!replicaVars
<1>1. UNCHANGED <<store, db, toClient, ready, published>>
  BY DEF Progress, Announce, Announced, Return, server
<1>2. Underway' = Underway
  BY <1>1, UnderwaySame
<1>3. Phase' = Phase
  BY <1>1 DEF Phase
<1>4. QED
  BY <1>1, <1>2, <1>3 DEF R!replicaVars

(* A message arrives, and the client follows what it follows.              *)
LEMMA FollowReplica ==
  ASSUME MirrorInv, MirrorInv', published,
         toClient # <<>>, toClient' = Tail(toClient), UNCHANGED <<db, published, ready>>,
         \A id \in Followed : store'[id] = DataStep(id, store[id], Head(toClient)),
         \A id \in Id \ Followed : store'[id] = store[id]
  PROVE  R!Follow
<1>1. TypeInv /\ TypeInv' /\ R!Followed = Followed /\ Followed' = Followed
  BY ReplicaTypes DEF MirrorInv, PushInv, Followed
<1>2. /\ Underway # <<>>
      /\ \A id \in Followed : Head(Underway)[id] = store'[id]
      /\ Tail(Underway) = Underway'
  BY <1>1, UnderwayFollows, UnderwayNext DEF R!Part
<1>3. store' = [id \in Id |-> IF id \in Followed THEN Head(Underway)[id] ELSE store[id]]
  <2>1. store' \in [Id -> Stored]
    BY <1>1 DEF TypeInv, TypeOK
  <2>2. \A id \in Id : store'[id] = IF id \in Followed THEN Head(Underway)[id] ELSE store[id]
    BY <1>2
  <2>3. QED
    BY <2>1, <2>2
<1>4. Phase' = Phase
  BY DEF Phase
<1>5. QED
  BY <1>1, <1>2, <1>3, <1>4 DEF R!Follow

-----------------------------------------------------------------------------
(* The client takes a message. *)
LEMMA DocumentReplica ==
  ASSUME MirrorInv, MirrorInv', on_document_added \/ on_document_changed \/ on_document_removed
  PROVE  R!Follow
<1>1. PICK kind \in Kind, events \in SUBSET Event : DocumentTaken(kind, events)
  BY DocumentStep DEF MirrorInv, PushInv
<1>2. Received("data") /\ UNCHANGED ready
  BY <1>1 DEF DocumentTaken
<1>3. toClient # <<>> /\ toClient' = Tail(toClient) /\ published /\ UNCHANGED <<db, published>>
  BY <1>2, Handling DEF server
<1>4. /\ \A id \in Id : (ready => id \notin Own) =>
           store'[id] = DataStep(id, store[id], Head(toClient))
      /\ ready => \A id \in Own : store'[id] = store[id]
  BY <1>1, DocumentFollows
<1>5. /\ \A id \in Followed : id \in Id /\ (ready => id \notin Own)
      /\ \A id \in Id \ Followed : ready /\ id \in Own
  BY DEF Followed
<1>6. QED
  BY <1>2, <1>3, <1>4, <1>5, FollowReplica

(* The report of a method takes the client nowhere. *)
LEMMA SynchronizedReplica ==
  ASSUME MirrorInv, MirrorInv', on_synchronized
  PROVE  R!Follow
<1>1. Received("updated") /\ UNCHANGED <<store, ready>>
  BY DEF on_synchronized
<1>2. /\ toClient # <<>> /\ toClient' = Tail(toClient) /\ Head(toClient).msg = "updated"
      /\ published /\ UNCHANGED <<db, published>>
  BY <1>1, Handling DEF server
<1>3. \A id : store'[id] = store[id] /\ DataStep(id, store[id], Head(toClient)) = store[id]
  BY <1>1, <1>2 DEF DataStep
<1>4. QED
  BY <1>1, <1>2, <1>3, FollowReplica

(* The end of the publication: the client has the server's version of its  *)
(* own documents, which no message under way is about.                     *)
LEMMA BatchReplica ==
  ASSUME MirrorInv, MirrorInv', on_initial_batch
  PROVE  R!Follow \/ R!Open
<1>1. Received("ready") /\ ready' = TRUE /\ UNCHANGED store
  BY DEF on_initial_batch
<1>2. /\ toClient # <<>> /\ toClient' = Tail(toClient) /\ Head(toClient).msg = "ready"
      /\ published /\ UNCHANGED <<db, published>>
  BY <1>1, Handling DEF server
<1>3. \A id : store'[id] = store[id] /\ DataStep(id, store[id], Head(toClient)) = store[id]
  BY <1>1, <1>2 DEF DataStep
<1>4. CASE ready
  <2>1. UNCHANGED ready
    BY <1>1, <1>4
  <2>2. R!Follow
    BY <1>2, <1>3, <2>1, FollowReplica
  <2>3. QED
    BY <2>2
<1>5. CASE ~ready
  <2>1. TypeInv /\ TypeInv' /\ Followed = Id /\ Followed' = Id \ Own /\ Own \subseteq Id
    BY <1>1, <1>5, InputsAssumption DEF MirrorInv, PushInv, Followed
  <2>2. Phase = "filling" /\ Phase' = "ready"
    BY <1>1, <1>2, <1>5 DEF Phase
  <2>3. /\ Underway # <<>> /\ Head(Underway) = R!Part(store', Id)
        /\ Tail(Underway) = Versions(Id, store', toClient')
    BY <1>2, <1>3, <2>1, UnderwayFollows
  <2>4. store' = Head(Underway)
    <3>1. store' \in [Id -> Stored]
      BY <2>1 DEF TypeInv, TypeOK
    <3>2. store' = [id \in Id |-> store'[id]]
      BY <3>1
    <3>3. QED
      BY <2>3, <3>2 DEF R!Part
  <2>5. ASSUME NEW id \in Own
        PROVE  store'[id] = db[id]
    <3>1. /\ Completing(1)
          /\ \A i \in Nat : Telling(id, i) => i # 0 /\ i # 1
      BY <1>2, <2>1, ClientTakes
    <3>2. \A i \in Nat : Telling(id, i) => i < 1
      BY <1>5, <3>1 DEF MirrorInv, Subscribing
    <3>3. \A i \in Nat : ~Telling(id, i)
      BY <3>1, <3>2
    <3>4. \A i \in 1 .. Len(toClient) : toClient[i].msg = "data" => toClient[i].id # id
      BY <3>3 DEF Telling
    <3>5. AfterData(id) = store[id]
      BY <2>1, <3>4, NoData
    <3>6. db[id] = AfterData(id)
      BY <1>2, <1>5, <2>1 DEF MirrorInv, DataMirrors
    <3>7. QED
      BY <1>3, <3>5, <3>6
  <2>6. Underway' = [i \in 1 .. Len(Underway) - 1 |-> R!Part(Underway[i + 1], Id \ Own)]
    <3>1. toClient \in Seq(ToClient) /\ store \in [Id -> Stored] /\ Id \in SUBSET Id
      BY <2>1, ReplicaTypes
    <3>2. Underway \in Seq([Id -> Stored]) /\ Len(Underway) = Len(toClient)
      BY <2>1, <3>1, VersionsType, UnderwayIs
    <3>3. /\ Len(Underway) - 1 = Len(toClient')
          /\ \A i \in 1 .. Len(toClient') : Tail(Underway)[i] = Underway[i + 1]
      <4>1. /\ Len(Tail(Underway)) = Len(Underway) - 1
            /\ \A i \in 1 .. Len(Tail(Underway)) : Tail(Underway)[i] = Underway[i + 1]
        BY <2>3, <3>2, HeadTailProperties
      <4>2. Len(toClient') = Len(toClient) - 1
        BY <1>2, <3>1, HeadTailProperties
      <4>3. QED
        BY <3>2, <4>1, <4>2
    <3>4. Underway' = [i \in 1 .. Len(toClient') |->
                         R!Part(Versions(Id, store', toClient')[i], Id \ Own)]
      <4>1. Underway' = Versions(Id \ Own, store', toClient')
        BY <2>1, UnderwayNext
      <4>2. Id \ Own \in SUBSET Id
        OBVIOUS
      <4>3. \A few \in SUBSET Id : \A s, q :
              Versions(few, s, q) = [i \in 1 .. Len(q) |-> R!Part(Versions(Id, s, q)[i], few)]
        BY VersionsPart
      <4>4. \A s, q : Versions(Id \ Own, s, q) =
              [i \in 1 .. Len(q) |-> R!Part(Versions(Id, s, q)[i], Id \ Own)]
        BY <4>2, <4>3
      <4>5. Versions(Id \ Own, store', toClient') =
              [i \in 1 .. Len(toClient') |-> R!Part(Versions(Id, store', toClient')[i], Id \ Own)]
        BY <4>4
      <4>6. QED
        BY <4>1, <4>5
    <3>5. \A i \in 1 .. Len(toClient') : Versions(Id, store', toClient')[i] = Underway[i + 1]
      BY <2>3, <3>3
    <3>6. QED
      BY <3>3, <3>4, <3>5
  <2>7. R!Open
    BY <1>2, <2>2, <2>3, <2>4, <2>5, <2>6 DEF R!Open
  <2>8. QED
    BY <2>7
<1>6. QED
  BY <1>4, <1>5

-----------------------------------------------------------------------------
(* The server publishes: every version under way has a document as it is,  *)
(* or does not have it.                                                    *)
LEMMA PublishReplica ==
  ASSUME MirrorInv, MirrorInv', ServerPublishes
  PROVE  R!Publish
<1>1. /\ toServer # <<>> /\ Head(toServer).msg = "sub"
      /\ toClient' = toClient \o Append(AllDocuments, [msg |-> "ready"])
      /\ published' = TRUE /\ UNCHANGED <<store, ready, db>>
  BY DEF ServerPublishes, local
<1>2. TypeInv /\ TypeInv'
  BY DEF MirrorInv, PushInv
<1>3. ~published
  <2>1. 1 \in 1 .. Len(toServer) /\ toServer[1].msg # "method"
    <3>1. toServer \in Seq(ToServer)
      BY <1>2 DEF TypeInv, TypeOK
    <3>2. Len(toServer) \in Nat \ {0} /\ Head(toServer) = toServer[1]
      BY <1>1, <3>1, EmptySeq
    <3>3. QED
      BY <1>1, <3>2
  <2>2. QED
    BY <2>1 DEF MirrorInv, Subscribing
<1>4. toClient = <<>> /\ ~ready /\ \A id \in Id : store[id] = NoDoc
  BY <1>3 DEF MirrorInv, Subscribing
<1>5. Phase = "unpublished" /\ Phase' = "filling" /\ Followed' = Id
  BY <1>1, <1>3, <1>4 DEF Phase, Followed
<1>6. /\ store \in [Id -> Stored] /\ db \in [Id -> Stored] /\ Id \in SUBSET Id
  BY <1>2, ReplicaTypes
<1> DEFINE q == toClient'
<1>7. ASSUME NEW id \in Id
      PROVE  /\ q \in Seq(ToClient) /\ q # <<>>
             /\ \E v : /\ Path(DataEffect(id), Stored, store[id], q, v)
                       /\ v[Len(q)] = db[id]
                       /\ \A i \in 1 .. Len(q) : v[i] \in {store[id], db[id]}
  BY <1>1, <1>2, <1>4, PublishedPath
<1>8. q \in Seq(ToClient) /\ q # <<>>
  <2>1. toClient' \in Seq(ToClient)
    BY <1>2 DEF TypeInv, TypeOK
  <2>2. toClient' # <<>>
    BY <1>1, <1>2, <1>4, PublishedTypes
  <2>3. QED
    BY <2>1, <2>2
<1>9. Underway' = Versions(Id, store, q)
  BY <1>1, <1>5, UnderwayNext
<1> HIDE DEF q
<1>10. Len(q) \in Nat /\ Len(q) # 0 /\ Len(q) \in 1 .. Len(q)
  BY <1>8, LenProperties
<1>11. /\ Underway' \in Seq([Id -> Stored]) /\ Len(Underway') = Len(q)
       /\ \A i \in 1 .. Len(q), id \in Id : Underway'[i][id] = Told(id, store[id], SubSeq(q, 1, i))
  <2> DEFINE v == Versions(Id, store, q)
  <2>1. /\ v \in Seq([Id -> Stored]) /\ Len(v) = Len(q)
        /\ \A i \in 1 .. Len(q) : v[i] = [id \in Id |-> Told(id, store[id], SubSeq(q, 1, i))]
    BY <1>6, <1>8, VersionsType
  <2> HIDE DEF v
  <2>2. \A i \in 1 .. Len(q), id \in Id : v[i][id] = Told(id, store[id], SubSeq(q, 1, i))
    BY <2>1
  <2>3. QED
    BY <1>9, <2>1, <2>2 DEF v
<1>12. ASSUME NEW id \in Id
       PROVE  /\ Underway'[Len(q)][id] = db[id]
              /\ \A i \in 1 .. Len(q) : Underway'[i][id] \in {NoDoc, db[id]}
  <2> DEFINE F == DataEffect(id)
  <2>1. PICK v : /\ Path(F, Stored, store[id], q, v)
                 /\ v[Len(q)] = db[id]
                 /\ \A i \in 1 .. Len(q) : v[i] \in {store[id], db[id]}
    BY <1>7
  <2>2. F \in [ToClient -> [Stored -> Stored]] /\ store[id] \in Stored
    BY <1>6, EffectTypes
  <2>3. ASSUME NEW i \in 1 .. Len(q)
        PROVE  Underway'[i][id] = v[i]
    <3> HIDE DEF F
    <3>1. /\ SubSeq(q, 1, i) \in Seq(ToClient)
          /\ Through(F, Stored, store[id], SubSeq(q, 1, i)) = v[i]
      BY <1>8, <2>1, <2>2, ThroughPrefix
    <3>2. Told(id, store[id], SubSeq(q, 1, i)) = Through(F, Stored, store[id], SubSeq(q, 1, i))
      BY <2>2, <3>1, ToldIs DEF F
    <3>3. QED
      BY <1>11, <3>1, <3>2
  <2>4. QED
    BY <1>4, <1>10, <2>1, <2>3
<1>13. Underway'[Len(q)] = db
  <2>1. Underway'[Len(q)] \in [Id -> Stored]
    BY <1>10, <1>11, ElementOfSeq
  <2>2. QED
    BY <1>6, <1>12, <2>1
<1>14. Underway' # <<>>
  BY <1>10, <1>11
<1>15. QED
  BY <1>1, <1>5, <1>11, <1>12, <1>13, <1>14, ReplicaTypes DEF R!Publish

-----------------------------------------------------------------------------
(* The server executes a method: as it is the only one for its document,   *)
(* of which no push is due, it leads to the client's version.              *)
LEMMA RunReplica ==
  ASSUME Liberty = {}, MirrorInv, MirrorInv', ServerRuns
  PROVE  \E id \in Own : R!Accept(id)
<1> DEFINE m == Head(toServer)
           after == ServerEdited(m.edit, db[m.id])
<1>1. /\ toServer # <<>> /\ m.msg = "method"
      /\ UNCHANGED <<store, ready, published>>
  BY DEF ServerRuns, local
<1>2. TypeInv /\ TypeInv' /\ Own \subseteq Id
  BY InputsAssumption DEF MirrorInv, PushInv
<1>3. PICK k \in Nat, own \in Id :
        /\ own = m.id /\ Asked(k, own, 1)
        /\ <<k, own>> \in idle /\ own \in Own
        /\ \A x \in Id, j \in Nat : Asked(k, x, j) => j = 1
        /\ ready /\ published
        /\ db' = [db EXCEPT ![own] = after]
        /\ \/ toClient' = toClient
           \/ \E x \in ToClient : toClient' = Append(toClient, x)
  BY Running
<1>4. ASSUME NEW i \in 2 .. Len(toServer), toServer[i].msg = "method", toServer[i].id = own
      PROVE  FALSE
  <2>1. i \in 1 .. Len(toServer) /\ i \in Nat /\ i # 1
    <3>1. toServer \in Seq(ToServer)
      BY <1>2 DEF TypeInv, TypeOK
    <3>2. Len(toServer) \in Nat
      BY <3>1, LenProperties
    <3>3. QED
      BY <3>2
  <2>2. PICK l : l = toServer[i].method
    OBVIOUS
  <2>3. Asked(l, own, i)
    BY <1>4, <2>1, <2>2 DEF Asked
  <2>4. l \in Nat
    <3>1. l \in 1 .. methods
      BY <1>2, <2>3, AskedTypes
    <3>2. QED
      BY <1>2, <3>1, Numbers DEF TypeInv
  <2>5. <<l, own>> \in idle
    BY <2>1, <2>3, <2>4 DEF MirrorInv, MethodsOnce
  <2>6. l = k
    <3>1. \A p1, p2 \in idle : p1[1] = p2[1] \/ p1[2] = p2[2] => p1 = p2
      BY <1>2 DEF TypeInv, TypeOK
    <3>2. <<l, own>> = <<k, own>>
      BY <1>3, <2>5, <3>1
    <3>3. QED
      BY <3>2
  <2>7. QED
    BY <1>3, <2>1, <2>3, <2>6
<1>5. after = store[own]
  <2>1. AfterMethods(own) = MethodStep(own, db[own], m)
    BY <1>1, <1>2, <1>4, OneMethod
  <2>2. MethodStep(own, db[own], m) = after
    BY <1>1, <1>3 DEF MethodStep
  <2>3. ~Unpushed(own)
    <3>1. Pending(own)
      BY <1>3 DEF Pending
    <3>2. \A d \in Depth, e \in Event : Due(d, e) => ~Pending(e.id)
      BY DEF MirrorInv, MethodsMirror
    <3>3. QED
      BY <3>1, <3>2 DEF Unpushed
  <2>4. AfterMethods(own) = store[own]
    BY <1>3, <2>3 DEF MirrorInv, MethodsMirror
  <2>5. QED
    BY <2>1, <2>2, <2>4
<1> HIDE DEF after, m
<1>6. db' = [db EXCEPT ![own] = store[own]]
  BY <1>3, <1>5
<1>7. Phase = "ready" /\ Phase' = "ready" /\ R!Followed = Followed
  BY <1>1, <1>3, ReplicaTypes DEF Phase
<1>8. Underway' \in {Underway, Append(Underway, R!Part(db', Followed))}
  <2>1. CASE toClient' = toClient
    <3>1. Underway' = Underway
      BY <1>1, <2>1, UnderwaySame
    <3>2. QED
      BY <3>1
  <2>2. CASE \E x \in ToClient : toClient' = Append(toClient, x)
    <3>1. published'
      BY <1>1, <1>3
    <3>2. Underway' = Append(Underway, R!Part(db', Followed))
      BY <1>1, <2>2, <3>1, UnderwayTells
    <3>3. QED
      BY <3>2
  <2>3. QED
    BY <1>3, <2>1, <2>2
<1>9. R!Accept(own)
  BY <1>1, <1>6, <1>7, <1>8 DEF R!Accept
<1>10. QED
  BY <1>3, <1>9

(* The server reports a method. *)
LEMMA SyncReplica ==
  ASSUME MirrorInv, MirrorInv', NEW k \in unsynced, ServerSyncs(k)
  PROVE  R!OtherWrites
<1>1. /\ toClient' = Append(toClient, [msg |-> "updated", method |-> k])
      /\ UNCHANGED <<store, ready, db, published>>
  BY DEF ServerSyncs, local
<1>2. TypeInv /\ TypeInv' /\ methods \in Nat
  BY Numbers DEF MirrorInv, PushInv, TypeInv
<1>3. k \in 1 .. methods /\ k \in Nat /\ ready /\ published
  <2>1. k \in 1 .. methods
    BY <1>2 DEF TypeInv, TypeOK
  <2>2. QED
    BY <1>2, <2>1 DEF MirrorInv, Subscribing
<1>4. [msg |-> "updated", method |-> k] \in ToClient
  BY <1>3 DEF ToClient
<1>5. Underway' = Append(Underway, R!Part(db', Followed))
  BY <1>1, <1>3, <1>4, UnderwayTells
<1>6. Phase = "ready" /\ Phase' = "ready" /\ R!Followed = Followed
  BY <1>1, <1>3, ReplicaTypes DEF Phase
<1>7. db' \in R!Collection
  BY <1>1, <1>2, ReplicaTypes
<1>8. QED
  BY <1>1, <1>5, <1>6, <1>7 DEF R!OtherWrites

(* Another client writes. *)
LEMMA OthersReplica ==
  ASSUME Liberty = {}, MirrorInv, MirrorInv',
         NEW other \in Id, NEW after \in Documents \cup {NoDoc}, OtherClientWrites(other, after)
  PROVE  R!OtherWrites
<1>1. /\ other \notin Own /\ after # db[other] /\ ServerWrites(other, after)
      /\ UNCHANGED <<store, ready, published>>
  BY DEF OtherClientWrites, local
<1>2. TypeInv /\ TypeInv' /\ Own \subseteq Id /\ db \in [Id -> Stored]
  BY InputsAssumption DEF MirrorInv, PushInv, TypeInv, TypeOK
<1>3. db' = [db EXCEPT ![other] = after] /\ \A id \in Own : db'[id] = db[id]
  BY <1>1, <1>2 DEF ServerWrites
<1>4. db' \in R!Collection
  <2>1. db' \in [Id -> Stored]
    BY <1>2 DEF TypeInv, TypeOK
  <2>2. QED
    BY <2>1, ReplicaTypes
<1>5. Phase' = Phase
  BY <1>1 DEF Phase
<1>6. CASE published
  <2> DEFINE x == [msg |-> "data", id |-> other, edit |-> Difference(db[other], after)]
  <2>1. x \in ToClient
    <3>1. after \in Stored /\ db[other] \in Stored
      BY <1>2, InputsAssumption DEF Stored
    <3>2. Difference(db[other], after) \in Edit
      BY <1>1, <3>1, DifferenceIsEdit
    <3>3. QED
      BY <3>2 DEF ToClient
  <2>2. toClient' = Append(toClient, x)
    BY <1>1, <1>6 DEF ServerWrites
  <2> HIDE DEF x
  <2>3. published'
    BY <1>1, <1>6
  <2>4. Underway' = Append(Underway, R!Part(db', Followed))
    BY <1>1, <2>1, <2>2, <2>3, UnderwayTells
  <2>5. Phase # "unpublished" /\ R!Followed = Followed
    BY <1>6, ReplicaTypes
  <2>6. QED
    BY <1>1, <1>3, <1>4, <1>5, <2>4, <2>5 DEF R!OtherWrites
<1>7. CASE ~published
  <2>1. toClient = <<>> /\ ~ready /\ toClient' = <<>>
    BY <1>1, <1>7 DEF MirrorInv, Subscribing, ServerWrites
  <2>2. Underway' = <<>>
    BY <2>1 DEF Underway
  <2>3. Phase = "unpublished"
    BY <1>7, <2>1, ReplicaTypes
  <2>4. QED
    BY <1>1, <1>3, <1>4, <1>5, <2>2, <2>3 DEF R!OtherWrites
<1>8. QED
  BY <1>6, <1>7

LEMMA NextReplica ==
  ASSUME Liberty = {}, MirrorInv, MirrorInv', [Next]_vars
  PROVE  [R!Next]_(R!replicaVars)
<1>1. CASE UserCall
  BY <1>1, WriteReplica DEF R!Next
<1>2. CASE Progress
  BY <1>2, ProgressReplica
<1>3. CASE on_message
  BY <1>3, DocumentReplica, SynchronizedReplica, BatchReplica DEF on_message, R!Next
<1>4. CASE Server
  BY <1>4, PublishReplica, RunReplica, SyncReplica DEF Server, R!Next
<1>5. CASE \E id \in Id, after \in Documents \cup {NoDoc} : OtherClientWrites(id, after)
  BY <1>5, OthersReplica DEF R!Next
<1>6. CASE UNCHANGED vars
  <2>1. UNCHANGED <<store, db, toClient, ready, published>>
    BY <1>6 DEF vars
  <2>2. Underway' = Underway
    BY <2>1, UnderwaySame
  <2>3. Phase' = Phase
    BY <2>1 DEF Phase
  <2>4. QED
    BY <2>1, <2>2, <2>3 DEF R!replicaVars
<1>7. QED
  BY <1>1, <1>2, <1>3, <1>4, <1>5, <1>6 DEF Next

(***************************************************************************)
(* Writing, pushing, dropping echoes and applying messages, as many of     *)
(* each as there are, looks to the user of a collection like Replica: the  *)
(* server takes over every version of an own document, one after the       *)
(* other, and the client goes through every version of the documents of    *)
(* others, in order and none left out, if nobody takes a liberty           *)
(* (ddp_collection.cpp:30-77, 98-145, 155-196).                            *)
(***************************************************************************)
THEOREM CollectionIsReplica ==
  ASSUME Liberty = {}
  PROVE  Spec => ImplementsReplica
<1>1. MirrorInv /\ [Next]_vars => MirrorInv'
  BY MirrorKept
<1>2. MirrorInv /\ MirrorInv' /\ [Next]_vars => [R!Next]_(R!replicaVars)
  BY NextReplica
<1>3. QED
  BY <1>1, <1>2, InitMirror, InitReplica, PTL DEF Spec, ImplementsReplica, R!Spec

-----------------------------------------------------------------------------
(***************************************************************************)
(* Lost connections.                                                       *)
(***************************************************************************)
(* The steps: those of DdpCollection on a connection that stays, and four  *)
(* of the connection's own.                                                *)
Refreshed ==
  /\ link # "first" /\ link' = "fresh" /\ Received("ready")
  /\ UNCHANGED <<store, ready, idle, methods, frames, depth, losses, called>>

Stays ==
  /\ \/ Timely /\ UserCall
     \/ Progress
     \/ on_document_added \/ on_document_changed \/ on_document_removed
     \/ on_synchronized
     \/ link = "first" /\ on_initial_batch
     \/ link # "down" /\ Server
     \/ \E id \in Id, after \in Documents \cup {NoDoc} : OtherClientWrites(id, after)
     \/ UNCHANGED vars
  /\ UNCHANGED connection

LEMMA StaysIsNext == Stays => [Next]_vars /\ UNCHANGED connection
BY DEF Stays, Next, on_message

LEMMA LinkSteps == [NextLink]_allVars => Stays \/ Refreshed \/ Lose \/ connect \/ subscribe
<1>1. UserWrites \/ Proceeds \/ ServerOnline \/ OthersWrite => Stays
  BY DEF UserWrites, Proceeds, ServerOnline, OthersWrite, Stays
<1>2. Hears => Stays \/ Refreshed
  BY DEF Hears, on_ready, Stays, Refreshed
<1>3. UNCHANGED allVars => Stays
  BY DEF allVars, Stays
<1>4. QED
  BY <1>1, <1>2, <1>3 DEF NextLink

-----------------------------------------------------------------------------
(* Types. *)
LinkInv == TypeInv /\ LinkTypeOK

(* No method is taken back. *)
LEMMA MethodsGrow ==
  ASSUME TypeInv, [Next]_vars
  PROVE  methods' >= methods
<1>1. methods \in Nat
  BY Numbers DEF TypeInv
<1>2. CASE Announce
  <2>1. PICK e \in frames[depth].todo, n \in Nat : Push(e, n)
    BY <1>2, AnnounceStep
  <2>2. QED
    BY <1>1, <2>1 DEF Push
<1>3. CASE Announced
  <2>1. PICK e \in Event, n \in Nat : Push(e, n)
    BY <1>3, AnnouncedStep
  <2>2. QED
    BY <1>1, <2>1 DEF Push
<1>4. CASE UserCall
  <2>1. PICK connects \in SUBSET Kind, events \in SUBSET Event : Write(connects, events)
    BY <1>4, UserCallWrites DEF TypeInv
  <2>2. QED
    BY <1>1, <2>1 DEF Write
<1>5. CASE Return \/ on_message
  <2>1. methods' = methods
    BY <1>5 DEF Return, on_message, on_document_added, on_document_changed,
                on_document_removed, OnDocument, on_synchronized, on_initial_batch
  <2>2. QED
    BY <1>1, <2>1
<1>6. CASE \/ Server
           \/ \E id \in Id, after \in Documents \cup {NoDoc} : OtherClientWrites(id, after)
  <2>1. UNCHANGED local
    BY <1>6 DEF Server, ServerPublishes, ServerRuns, ServerSyncs, OtherClientWrites
  <2>2. QED
    BY <1>1, <2>1 DEF local
<1>7. CASE UNCHANGED vars
  BY <1>1, <1>7 DEF vars
<1>8. QED
  BY <1>2, <1>3, <1>4, <1>5, <1>6, <1>7 DEF Next, Progress

LEMMA LinkTypesKept == LinkInv /\ [NextLink]_allVars => LinkInv'
<1> SUFFICES ASSUME LinkInv, [NextLink]_allVars
             PROVE  LinkInv'
  OBVIOUS
<1>1. /\ TypeInv /\ methods \in Nat /\ losses \in 0 .. MaxLosses /\ called \in 0 .. methods
      /\ link \in {"first", "down", "bare", "asked", "fresh"}
  BY Numbers DEF LinkInv, LinkTypeOK, TypeInv
<1>2. CASE Stays
  <2>1. TypeInv' /\ methods' >= methods /\ methods' \in Nat
    BY <1>1, <1>2, StaysIsNext, TypesKept, MethodsGrow DEF TypeInv, TypeOK
  <2>2. QED
    BY <1>1, <1>2, <2>1, StaysIsNext DEF connection, LinkInv, LinkTypeOK, TypeInv
<1>3. CASE Refreshed
  <2>1. toClient' \in Seq(ToClient) /\ UNCHANGED <<writes, toServer, server>>
    BY <1>1, <1>3, ReceivedTypes DEF Refreshed
  <2>2. TypeInv'
    BY <1>1, <1>3, <2>1 DEF Refreshed, server, TypeInv, TypeOK, Real, Events
  <2>3. QED
    BY <1>1, <1>3, <2>2 DEF Refreshed, LinkInv, LinkTypeOK, TypeInv
<1>4. CASE Lose
  <2>1. /\ toServer' = <<>> /\ toClient' = <<>> /\ published' = FALSE /\ unsynced' = {}
        /\ UNCHANGED <<local, db, foreign>>
    BY <1>4 DEF Lose
  <2>2. /\ toServer' \in Seq(ToServer) /\ toServer' \in Seq(Sent(methods'))
        /\ toClient' \in Seq(ToClient)
    BY <2>1
  <2>3. TypeInv'
    <3>1. published' \in BOOLEAN
      BY <2>1, Zenon
    <3>2. QED
      BY <1>1, <2>1, <2>2, <3>1 DEF local, TypeInv, TypeOK, Real, Events
  <2>4. losses' \in 0 .. MaxLosses /\ methods' = methods /\ called' = called /\ link' = "down"
    BY <1>1, <1>4, ReconnectionAssumption DEF Lose, local
  <2>5. QED
    BY <1>1, <2>3, <2>4 DEF LinkInv, LinkTypeOK, TypeInv
<1>5. CASE connect
  <2>1. toServer' = <<>> /\ UNCHANGED <<local, toClient, server>>
    BY <1>5 DEF connect
  <2>2. toServer' \in Seq(ToServer) /\ toServer' \in Seq(Sent(methods'))
    BY <2>1
  <2>3. TypeInv'
    BY <1>1, <2>1, <2>2 DEF local, server, TypeInv, TypeOK, Real, Events
  <2>4. losses' = losses /\ methods' = methods /\ called' = methods /\ link' = "bare"
    BY <1>5 DEF connect, local
  <2>5. QED
    BY <1>1, <2>3, <2>4 DEF LinkInv, LinkTypeOK, TypeInv
<1>6. CASE subscribe
  <2>1. toServer' = Append(toServer, [msg |-> "sub"]) /\ UNCHANGED <<local, toClient, server>>
    BY <1>6 DEF subscribe
  <2>2. toServer' \in Seq(ToServer) /\ toServer' \in Seq(Sent(methods'))
    <3>1. [msg |-> "sub"] \in ToServer /\ [msg |-> "sub"] \in Sent(methods)
      BY DEF ToServer, Sent
    <3>2. QED
      BY <1>1, <2>1, <3>1, AppendProperties DEF TypeInv, TypeOK, local
  <2>3. TypeInv'
    BY <1>1, <2>1, <2>2 DEF local, server, TypeInv, TypeOK, Real, Events
  <2>4. losses' = losses /\ methods' = methods /\ called' = called /\ link' = "asked"
    BY <1>6 DEF subscribe, local
  <2>5. QED
    BY <1>1, <2>3, <2>4 DEF LinkInv, LinkTypeOK, TypeInv
<1>7. QED
  BY <1>2, <1>3, <1>4, <1>5, <1>6, LinkSteps

LEMMA InitLinkTypes == InitLink => LinkInv
<1> SUFFICES ASSUME InitLink
             PROVE  LinkInv
  OBVIOUS
<1>1. TypeInv /\ methods = 0
  BY InitTypes DEF InitLink, Init
<1>2. QED
  BY <1>1, ReconnectionAssumption DEF InitLink, LinkInv, LinkTypeOK, TypeInv

(***************************************************************************)
(* What the types say of the queues, of _idle and of the methods holds     *)
(* whenever connections are lost, whatever users and servers do: no edit   *)
(* under way is malformed and no method is reported that was not called,   *)
(* on whichever connection (ddp_collection.cpp:34-77, 87-196).             *)
(***************************************************************************)
THEOREM LinkTypes == SpecLink => []LinkTypeOK
<1>1. LinkInv => LinkTypeOK
  BY DEF LinkInv
<1>2. QED
  BY <1>1, InitLinkTypes, LinkTypesKept, PTL DEF SpecLink

-----------------------------------------------------------------------------
(***************************************************************************)
(* Every change of a document that the user makes calls one method also    *)
(* when connections are lost, and users connect and subscribe again at any *)
(* moment: the pushes neither end with a connection nor are they doubled   *)
(* by another one (ddp_collection.cpp:34-77, 89-91, 98-153).               *)
(***************************************************************************)
THEOREM ChangesArePushedDespiteLosses ==
  ASSUME {"deep", "upsert", "remove"} \cap Liberty = {}
  PROVE  SpecLink => []ChangesPushedOnce
<1>1. PushInv /\ LinkInv /\ [NextLink]_allVars => PushInv'
  <2> SUFFICES ASSUME PushInv, LinkInv, [NextLink]_allVars
               PROVE  PushInv'
    OBVIOUS
  <2>1. TypeInv'
    BY LinkTypesKept DEF LinkInv
  <2>2. CASE Stays
    BY <2>2, StaysIsNext, PushKept
  <2>3. CASE Refreshed \/ Lose \/ connect \/ subscribe
    <3>1. UNCHANGED <<frames, depth, methods, writes, ready>>
      BY <2>3 DEF Refreshed, Received, Lose, connect, subscribe, local
    <3>2. QED
      BY <2>1, <3>1, FramesStay
  <2>4. QED
    BY <2>2, <2>3, LinkSteps
<1>2. InitLink => PushInv
  BY InitPush DEF InitLink
<1>3. PushInv => ChangesPushedOnce
  BY PushedAtRest
<1>4. QED
  BY <1>1, <1>2, <1>3, InitLinkTypes, LinkTypesKept, PTL DEF SpecLink

-----------------------------------------------------------------------------
(***************************************************************************)
(* What a new subscription repairs.                                        *)
(***************************************************************************)
(* A frame that is not in use is idle, whatever users may do.              *)
Unwound == \A d \in Depth : d > depth => frames[d] = IdleFrame

(* The server has forgotten the session: nothing is under way to the       *)
(* client, and nothing will be.                                            *)
Severed == toClient = <<>> /\ unsynced = {} /\ ~published

(* No method has been called on this connection, and what is announced is  *)
(* not pushed.                                                             *)
Passive ==
  /\ methods = called
  /\ \A d \in Depth : /\ frames[d].connects = {}
                      /\ \A e \in Events(d) : KindOf(e) \in frames[d].blocks

Copied(id) == db[id] = NoDoc \/ Pending(id) \/ AfterData(id) = db[id]

Resubscribing ==
  /\ Passive /\ unsynced = {}
  /\ ~published => Severed /\ depth = 0 /\ toServer = <<[msg |-> "sub"]>>
  /\ published => /\ toServer = <<>>
                  /\ \A i \in 1 .. Len(toClient) : toClient[i].msg # "updated"
                  /\ \A id \in Id : Copied(id)

RepairInv ==
  /\ LinkInv /\ Unwound
  /\ link = "down" => Severed
  /\ link = "bare" => Severed /\ Passive /\ depth = 0 /\ toServer = <<>>
  /\ link = "asked" => Resubscribing

LEMMA UnwoundKept ==
  ASSUME TypeInv, Unwound, [Next]_vars
  PROVE  Unwound'
<1>1. depth \in Nat /\ frames \in [Depth -> Frame] /\ \A d \in Depth : d \in Nat
  BY Numbers DEF TypeInv, TypeOK, Depth
<1>2. ASSUME NEW f, depth > 0, depth' = depth, frames' = [frames EXCEPT ![depth] = f]
      PROVE  Unwound'
  BY <1>1, <1>2 DEF Unwound
<1>3. CASE Announce
  <2>1. depth > 0 /\ depth' = depth /\ \E f : frames' = [frames EXCEPT ![depth] = f]
    BY <1>3 DEF Announce, SetTop
  <2>2. QED
    BY <1>2, <2>1
<1>4. CASE Announced
  <2>1. depth > 0 /\ depth' = depth /\ \E f : frames' = [frames EXCEPT ![depth] = f]
    BY <1>4 DEF Announced, SetTop
  <2>2. QED
    BY <1>2, <2>1
<1>5. CASE Return
  <2>1. depth > 0 /\ depth' = depth - 1 /\ frames' = [frames EXCEPT ![depth] = IdleFrame]
    BY <1>5 DEF Return
  <2>2. QED
    BY <1>1, <2>1 DEF Unwound
<1>6. CASE UserCall
  <2>1. PICK connects \in SUBSET Kind, events \in SUBSET Event : Write(connects, events)
    BY <1>6, UserCallWrites DEF TypeInv
  <2>2. /\ depth' = depth + 1
        /\ frames' = [frames EXCEPT ![depth + 1] = Started({}, connects, events)]
    BY <2>1 DEF Write
  <2>3. QED
    BY <1>1, <2>2 DEF Unwound
<1>7. CASE on_document_added \/ on_document_changed \/ on_document_removed
  <2>0. PICK kind \in Kind, events \in SUBSET Event : DocumentTaken(kind, events)
    BY <1>7, DocumentStep
  <2>1. \/ UNCHANGED <<frames, depth>>
        \/ /\ frames' = [frames EXCEPT ![1] = Started({kind}, {}, events)]
           /\ depth' = 1
    BY <2>0 DEF DocumentTaken
  <2>2. depth = 0
    BY <1>7 DEF on_document_added, on_document_changed, on_document_removed, OnDocument, Received
  <2>3. QED
    BY <1>1, <2>1, <2>2 DEF Unwound
<1>8. CASE on_synchronized \/ on_initial_batch
  BY <1>8 DEF on_synchronized, on_initial_batch, Unwound
<1>9. CASE \/ Server
           \/ \E id \in Id, after \in Documents \cup {NoDoc} : OtherClientWrites(id, after)
  <2>1. UNCHANGED local
    BY <1>9 DEF Server, ServerPublishes, ServerRuns, ServerSyncs, OtherClientWrites
  <2>2. QED
    BY <2>1 DEF local, Unwound
<1>10. CASE UNCHANGED vars
  BY <1>10 DEF vars, Unwound
<1>11. QED
  BY <1>3, <1>4, <1>5, <1>6, <1>7, <1>8, <1>9, <1>10 DEF Next, Progress, on_message

(* The announcement of a change the server told of calls no method.        *)
LEMMA PassiveProgress ==
  ASSUME TypeInv, Passive, Progress
  PROVE  /\ \A d \in Depth : /\ frames'[d].connects = {}
                             /\ \A e \in Events(d)' : KindOf(e) \in frames'[d].blocks
         /\ toServer' = toServer
         /\ UNCHANGED <<store, idle, methods, toClient, server>>
<1>1. \A d \in Depth : /\ frames[d].connects = {}
                       /\ \A e \in Events(d) : KindOf(e) \in frames[d].blocks
  BY DEF Passive
<1>2. \A kind : Connected(kind) = {}
  BY <1>1 DEF Connected
<1>3. \A d \in Depth : \A e \in Events(d) : StandingPush(KindOf(e)) = 0
  BY <1>1 DEF StandingPush, Blocked
<1>4. /\ methods \in Nat /\ toServer \in Seq(ToServer) /\ frames \in [Depth -> Frame]
      /\ (depth > 0 => depth \in Depth)
  BY Numbers DEF TypeInv, TypeOK
<1>5. ASSUME NEW e \in Event, Push(e, 0)
      PROVE  toServer' = toServer /\ methods' = methods /\ idle' = idle
  <2>1. /\ toServer' = toServer \o <<>> /\ methods' = methods + 0 /\ idle' = idle
    <3> DEFINE method(i) == [msg |-> "method", method |-> methods + i, id |-> e.id,
                             edit |-> Difference(e.before, e.after)]
    <3>1. [i \in 1 .. 0 |-> method(i)] = <<>>
      OBVIOUS
    <3>2. QED
      BY <1>5, <3>1 DEF Push
  <2>2. QED
    BY <1>4, <2>1
<1>6. ASSUME NEW d \in Depth, NEW f \in Frame, frames' = [frames EXCEPT ![d] = f],
             f.connects = {} ,
             \A e \in f.todo \cup ({f.event} \ {NoEvent}) : KindOf(e) \in f.blocks
      PROVE  \A c \in Depth : /\ frames'[c].connects = {}
                              /\ \A e \in Events(c)' : KindOf(e) \in frames'[c].blocks
  BY <1>1, <1>4, <1>6 DEF Events
<1>7. CASE Announce
  <2>1. PICK e \in frames[depth].todo, n \in Nat :
          /\ depth \in Depth
          /\ frames' = [frames EXCEPT
               ![depth] = [frames[depth] EXCEPT !.todo = frames[depth].todo \ {e}, !.event = e]]
          /\ n = IF KindOf(e) = "insert" THEN StandingPush("insert") ELSE 0
          /\ Push(e, n)
          /\ UNCHANGED <<store, ready, depth, writes, toClient, server>>
    BY <1>7, AnnounceStep
  <2>2. e \in Events(depth) /\ e \in Event /\ frames[depth] \in Frame
    BY <2>1, FrameTypes DEF Events, TypeInv
  <2>3. n = 0
    BY <1>3, <2>1, <2>2
  <2> DEFINE f == [frames[depth] EXCEPT !.todo = frames[depth].todo \ {e}, !.event = e]
  <2>4. /\ f \in Frame /\ f.connects = {}
        /\ \A x \in f.todo \cup ({f.event} \ {NoEvent}) : KindOf(x) \in f.blocks
    BY <1>1, <2>1, <2>2 DEF Frame, Events
  <2>5. frames' = [frames EXCEPT ![depth] = f]
    BY <2>1
  <2> HIDE DEF f
  <2>6. QED
    BY <1>5, <1>6, <2>1, <2>2, <2>3, <2>4, <2>5
<1>8. CASE Announced
  <2>1. PICK e \in Event, n \in Nat :
          /\ depth \in Depth /\ frames[depth].event = e /\ e # NoEvent
          /\ frames' = [frames EXCEPT ![depth] = [frames[depth] EXCEPT !.event = NoEvent]]
          /\ n = Cardinality(Connected(KindOf(e)))
                   + IF KindOf(e) = "insert" THEN 0 ELSE StandingPush(KindOf(e))
          /\ Push(e, n)
          /\ UNCHANGED <<store, ready, depth, writes, toClient, server>>
    BY <1>8, AnnouncedStep
  <2>2. e \in Events(depth) /\ frames[depth] \in Frame
    BY <2>1, FrameTypes DEF Events, TypeInv
  <2>3. n = 0
    <3>1. Cardinality(Connected(KindOf(e))) = 0
      BY <1>2, FS_EmptySet
    <3>2. StandingPush(KindOf(e)) = 0
      BY <1>3, <2>1, <2>2
    <3>3. QED
      BY <2>1, <3>1, <3>2
  <2> DEFINE f == [frames[depth] EXCEPT !.event = NoEvent]
  <2>4. /\ f \in Frame /\ f.connects = {}
        /\ \A x \in f.todo \cup ({f.event} \ {NoEvent}) : KindOf(x) \in f.blocks
    BY <1>1, <2>1, <2>2 DEF Frame, Events
  <2>5. frames' = [frames EXCEPT ![depth] = f]
    BY <2>1
  <2> HIDE DEF f
  <2>6. QED
    BY <1>5, <1>6, <2>1, <2>3, <2>4, <2>5
<1>9. CASE Return
  <2>1. /\ depth \in Depth /\ frames' = [frames EXCEPT ![depth] = IdleFrame]
        /\ UNCHANGED <<store, idle, methods, toServer, toClient, server>>
    BY <1>4, <1>9 DEF Return
  <2>2. QED
    BY <1>6, <2>1, IdleFrameType, IdleFrameFields
<1>10. QED
  BY <1>7, <1>8, <1>9 DEF Progress

(* The server's copy of a document is told after the subscription, and     *)
(* from then on every change of it.                                        *)
LEMMA ResubscribingStays ==
  ASSUME Haste = {}, LinkInv, LinkInv', Unwound, link = "asked", Resubscribing, Stays
  PROVE  Resubscribing'
<1>1. /\ TypeInv /\ TypeInv' /\ called' = called /\ methods \in Nat /\ depth \in Nat
      /\ toServer \in Seq(ToServer) /\ toClient \in Seq(ToClient)
  BY Numbers, StaysIsNext DEF LinkInv, connection, TypeInv, TypeOK
<1>2. Passive /\ unsynced = {}
  BY DEF Resubscribing
<1>3. CASE Timely /\ UserCall
  BY <1>3 DEF Timely
<1>4. CASE Progress
  <2>1. depth # 0
    <3>1. depth > 0
      BY <1>4 DEF Progress, Announce, Announced, Return
    <3>2. QED
      BY <1>1, <3>1
  <2>2. published
    BY <2>1 DEF Resubscribing
  <2>3. /\ \A d \in Depth : /\ frames'[d].connects = {}
                            /\ \A e \in Events(d)' : KindOf(e) \in frames'[d].blocks
        /\ UNCHANGED <<store, idle, methods, toServer, toClient, server>>
    BY <1>1, <1>2, <1>4, PassiveProgress
  <2>4. Passive'
    BY <1>1, <1>2, <2>3 DEF Passive
  <2>5. \A id \in Id : AfterData(id)' = AfterData(id)
    BY <1>1, <2>3, DataSame
  <2>6. \A id \in Id : Copied(id)'
    BY <2>2, <2>3, <2>5 DEF Resubscribing, Copied, Pending, server
  <2>7. QED
    BY <1>2, <2>2, <2>3, <2>4, <2>6 DEF Resubscribing, server
<1>5. CASE on_document_added \/ on_document_changed \/ on_document_removed
  <2> DEFINE m == Head(toClient)
  <2>0. PICK kind \in Kind, events \in SUBSET Event : DocumentTaken(kind, events)
    BY <1>1, <1>5, DocumentStep
  <2>1. /\ \A e \in events : KindOf(e) = kind
        /\ \/ UNCHANGED <<frames, depth>>
           \/ frames' = [frames EXCEPT ![1] = Started({kind}, {}, events)]
        /\ store' = IF Pending(m.id) THEN store
                    ELSE [store EXCEPT ![m.id] = Edited(m.edit, store[m.id])]
        /\ Received("data")
        /\ UNCHANGED <<ready, idle, methods>>
    BY <2>0 DEF DocumentTaken
  <2>2. /\ toClient # <<>> /\ toClient' = Tail(toClient) /\ m.msg = "data"
        /\ UNCHANGED <<toServer, server>>
    BY <2>1 DEF Received
  <2>3. published
    BY <2>2 DEF Resubscribing, Severed
  <2>4. Passive'
    <3>1. CASE UNCHANGED <<frames, depth>>
      BY <1>1, <1>2, <2>1, <3>1 DEF Passive, Events
    <3>2. CASE frames' = [frames EXCEPT ![1] = Started({kind}, {}, events)]
      <4>1. /\ frames'[1].connects = {} /\ frames'[1].blocks = {kind}
            /\ Events(1)' \subseteq events
            /\ \A d \in Depth : d # 1 => frames'[d] = frames[d]
        BY <1>1, <3>2, Numbers DEF Started, Events, TypeInv, TypeOK
      <4>2. \A d \in Depth : d # 1 => Events(d)' = Events(d)
        BY <4>1 DEF Events
      <4>3. QED
        BY <1>1, <1>2, <2>1, <4>1, <4>2 DEF Passive
    <3>3. QED
      BY <2>1, <3>1, <3>2
  <2>5. \A i \in 1 .. Len(toClient') : toClient'[i].msg # "updated"
    BY <1>1, <2>2, <2>3 DEF Resubscribing
  <2>6. ASSUME NEW id \in Id
        PROVE  Copied(id)'
    <3>1. Copied(id) /\ (Pending(id)' <=> Pending(id)) /\ db'[id] = db[id]
      BY <2>1, <2>2, <2>3 DEF Resubscribing, Pending, server
    <3>2. CASE ~Pending(id)
      <4>1. store'[id] = DataStep(id, store[id], m)
        BY <1>1, <2>1, <2>2, <3>2 DEF DataStep, TypeInv, TypeOK
      <4>2. AfterData(id)' = AfterData(id)
        BY <1>1, <2>2, <4>1, DataArrive
      <4>3. QED
        BY <3>1, <4>2 DEF Copied
    <3>3. QED
      BY <3>1, <3>2 DEF Copied
  <2>7. QED
    BY <1>2, <2>2, <2>3, <2>4, <2>5, <2>6 DEF Resubscribing, server
<1>6. CASE on_synchronized
  <2>1. toClient # <<>> /\ Head(toClient).msg = "updated"
    BY <1>6 DEF on_synchronized, Received
  <2>2. published /\ 1 \in 1 .. Len(toClient) /\ toClient[1].msg = "updated"
    BY <1>1, <2>1 DEF Resubscribing, Severed
  <2>3. QED
    BY <2>2 DEF Resubscribing
<1>7. CASE ServerPublishes
  <2>1. /\ toServer # <<>> /\ toServer' = Tail(toServer) /\ published' = TRUE
        /\ toClient' = toClient \o Append(AllDocuments, [msg |-> "ready"])
        /\ UNCHANGED <<local, db, unsynced, foreign>>
    BY <1>7 DEF ServerPublishes
  <2>2. toServer = <<[msg |-> "sub"]>> /\ toClient = <<>> /\ toServer' = <<>>
    <3>1. ~published
      BY <2>1 DEF Resubscribing
    <3>2. toServer = <<[msg |-> "sub"]>> /\ toClient = <<>>
      BY <3>1 DEF Resubscribing, Severed
    <3>3. QED
      BY <2>1, <3>2
  <2>3. Passive'
    BY <1>1, <1>2, <2>1 DEF Passive, Events, local
  <2>4. \A i \in 1 .. Len(toClient') : toClient'[i].msg # "updated"
    <3>1. /\ AllDocuments \in Seq(ToClient)
          /\ \A i \in 1 .. Len(AllDocuments) : AllDocuments[i].msg = "data"
      BY <1>1, PublishedTypes
    <3>2. toClient' = Append(AllDocuments, [msg |-> "ready"])
      BY <1>1, <2>1, <2>2, PublishedTypes
    <3>3. QED
      BY <3>1, <3>2
  <2>5. ASSUME NEW id \in Id, db[id] # NoDoc
        PROVE  AfterData(id)' = db[id]
    BY <1>1, <2>1, <2>2, <2>5, Published DEF local
  <2>6. \A id \in Id : Copied(id)'
    BY <2>1, <2>5 DEF Copied
  <2>7. QED
    BY <1>2, <2>1, <2>2, <2>3, <2>4, <2>6 DEF Resubscribing
<1>8. CASE ServerRuns \/ \E method \in unsynced : ServerSyncs(method)
  <2>1. ServerRuns
    BY <1>2, <1>8
  <2>2. toServer # <<>> /\ Head(toServer).msg = "method"
    BY <2>1 DEF ServerRuns
  <2>3. QED
    BY <2>2 DEF Resubscribing
<1>9. CASE \E id \in Id, after \in Documents \cup {NoDoc} : OtherClientWrites(id, after)
  <2>1. PICK other \in Id, after \in Documents \cup {NoDoc} : OtherClientWrites(other, after)
    BY <1>9
  <2>2. /\ after # db[other] /\ ServerWrites(other, after)
        /\ UNCHANGED <<local, toServer, published, unsynced>>
    BY <2>1 DEF OtherClientWrites
  <2>3. /\ after \in Stored /\ db[other] \in Stored
        /\ db'[other] = after /\ \A id \in Id : id # other => db'[id] = db[id]
    BY <1>1, <2>2, InputsAssumption DEF Stored, ServerWrites, TypeInv, TypeOK
  <2>4. Passive'
    BY <1>1, <1>2, <2>2 DEF Passive, Events, local
  <2>5. CASE ~published
    <3>1. toClient' = toClient
      BY <2>2, <2>5 DEF ServerWrites
    <3>2. QED
      BY <1>2, <2>2, <2>4, <2>5, <3>1 DEF Resubscribing, Severed, local
  <2>6. CASE published
    <3>1. PICK x \in ToClient : /\ x.msg = "data" /\ x.id = other
                                /\ x.edit = Difference(db[other], after)
                                /\ toClient' = Append(toClient, x)
      <4> DEFINE x == [msg |-> "data", id |-> other, edit |-> Difference(db[other], after)]
      <4>1. Difference(db[other], after) \in Edit
        BY <2>2, <2>3, DifferenceIsEdit
      <4>2. x \in ToClient
        BY <4>1 DEF ToClient
      <4>3. toClient' = Append(toClient, x)
        BY <2>2, <2>6 DEF ServerWrites
      <4>4. x.msg = "data" /\ x.id = other /\ x.edit = Difference(db[other], after)
        OBVIOUS
      <4> HIDE DEF x
      <4>5. QED
        BY <4>2, <4>3, <4>4
    <3>2. \A i \in 1 .. Len(toClient') : toClient'[i].msg # "updated"
      BY <1>1, <2>6, <3>1 DEF Resubscribing
    <3>3. ASSUME NEW id \in Id
          PROVE  Copied(id)'
      <4>1. Copied(id) /\ (Pending(id)' <=> Pending(id))
        BY <2>2, <2>6 DEF Resubscribing, Pending, local
      <4>2. AfterData(id)' = DataStep(id, AfterData(id), x)
        BY <1>1, <2>2, <3>1, DataSent DEF local
      <4>3. CASE id # other
        BY <2>3, <3>1, <4>1, <4>2, <4>3 DEF Copied, DataStep
      <4>4. CASE id = other /\ AfterData(id) = db[id]
        <5>1. Edited(x.edit, db[id]) = after
          BY <2>2, <2>3, <3>1, <4>4, EditRebuilds
        <5>2. QED
          BY <2>3, <3>1, <4>2, <4>4, <5>1 DEF Copied, DataStep
      <4>5. CASE id = other /\ db[id] = NoDoc
        <5>1. Edited(x.edit, AfterData(id)) = after
          BY <3>1, <4>5 DEF Edited, Difference
        <5>2. QED
          BY <2>3, <3>1, <4>2, <4>5, <5>1 DEF Copied, DataStep
      <4>6. QED
        BY <4>1, <4>3, <4>4, <4>5 DEF Copied
    <3>4. QED
      BY <1>2, <2>2, <2>4, <2>6, <3>2, <3>3 DEF Resubscribing, local
  <2>7. QED
    BY <2>5, <2>6
<1>10. CASE UNCHANGED vars
  <2>1. \A id \in Id : AfterData(id)' = AfterData(id)
    BY <1>1, <1>10, DataSame DEF vars
  <2>2. Passive'
    BY <1>1, <1>2, <1>10 DEF vars, Passive, Events
  <2>3. published => \A id \in Id : Copied(id)'
    BY <1>10, <2>1 DEF vars, Resubscribing, Copied, Pending
  <2>4. QED
    BY <1>2, <1>10, <2>2, <2>3 DEF vars, Resubscribing, Severed
<1>11. QED
  BY <1>3, <1>4, <1>5, <1>6, <1>7, <1>8, <1>9, <1>10 DEF Stays, Server

LEMMA RepairKept ==
  ASSUME Haste = {}, RepairInv, [NextLink]_allVars
  PROVE  RepairInv'
<1>1. /\ LinkInv /\ LinkInv' /\ Unwound /\ TypeInv /\ methods \in Nat /\ depth \in Nat
  BY LinkTypesKept, Numbers DEF RepairInv, LinkInv, TypeInv
<1>2. CASE Stays
  <2>1. Unwound' /\ link' = link /\ called' = called
    BY <1>1, <1>2, StaysIsNext, UnwoundKept DEF connection
  <2>2. CASE link = "asked"
    BY <1>1, <1>2, <2>1, <2>2, ResubscribingStays DEF RepairInv
  <2>3. ASSUME link \in {"down", "bare"}
        PROVE  Severed' /\ (link = "bare" => Passive' /\ depth' = 0 /\ toServer' = <<>>)
    <3>1. Severed /\ (link = "bare" => Passive /\ depth = 0 /\ toServer = <<>>)
      BY <2>3 DEF RepairInv
    <3>2. CASE Timely /\ UserCall
      <4>1. link = "down"
        BY <2>3, <3>2 DEF Timely
      <4>2. PICK connects \in SUBSET Kind, events \in SUBSET Event : Write(connects, events)
        BY <1>1, <3>2, UserCallWrites DEF TypeInv
      <4>3. QED
        BY <3>1, <4>1, <4>2 DEF Write, server, Severed
    <3>3. CASE Progress
      <4>1. link = "down"
        <5>1. depth > 0
          BY <3>3 DEF Progress, Announce, Announced, Return
        <5>2. QED
          BY <1>1, <2>3, <3>1, <5>1
      <4>2. UNCHANGED <<toClient, server>>
        BY <3>3 DEF Progress, Announce, Announced, Return
      <4>3. QED
        BY <3>1, <4>1, <4>2 DEF server, Severed
    <3>4. CASE \/ on_document_added \/ on_document_changed \/ on_document_removed
               \/ on_synchronized \/ on_initial_batch
      <4>1. toClient # <<>>
        BY <3>4 DEF on_document_added, on_document_changed, on_document_removed, OnDocument,
                    on_synchronized, on_initial_batch, Received
      <4>2. QED
        BY <3>1, <4>1 DEF Severed
    <3>5. CASE link # "down" /\ Server
      <4>1. toServer = <<>> /\ unsynced = {}
        BY <2>3, <3>1, <3>5 DEF Severed
      <4>2. QED
        BY <3>5, <4>1 DEF Server, ServerPublishes, ServerRuns
    <3>6. CASE \E id \in Id, after \in Documents \cup {NoDoc} : OtherClientWrites(id, after)
      <4>1. /\ UNCHANGED <<local, toServer, published, unsynced>>
            /\ toClient' = toClient
        BY <3>1, <3>6 DEF OtherClientWrites, ServerWrites, Severed
      <4>2. QED
        BY <2>1, <3>1, <4>1 DEF local, Severed, Passive, Events
    <3>7. CASE UNCHANGED vars
      BY <2>1, <3>1, <3>7 DEF vars, Severed, Passive, Events
    <3>8. QED
      BY <1>2, <3>2, <3>3, <3>4, <3>5, <3>6, <3>7 DEF Stays
  <2>4. QED
    BY <1>1, <2>1, <2>2, <2>3 DEF RepairInv
<1>3. CASE Refreshed
  BY <1>1, <1>3 DEF Refreshed, RepairInv, Unwound
<1>4. CASE Lose
  <2>1. Unwound' /\ Severed' /\ link' = "down"
    BY <1>1, <1>4 DEF Lose, local, Unwound, Severed
  <2>2. QED
    BY <1>1, <2>1 DEF RepairInv
<1>5. CASE connect
  <2>1. /\ link' = "bare" /\ called' = methods /\ depth = 0 /\ toServer' = <<>>
        /\ UNCHANGED <<local, toClient, server>>
    BY <1>5 DEF connect
  <2>2. Unwound' /\ Severed' /\ depth' = 0 /\ methods' = methods
    BY <1>5, <2>1 DEF connect, RepairInv, local, server, Unwound, Severed
  <2>3. \A d \in Depth : frames'[d] = IdleFrame
    BY <1>1, <2>1 DEF local, Unwound, Depth
  <2>4. Passive'
    BY <2>1, <2>2, <2>3, IdleFrameFields DEF Passive, Events
  <2>5. QED
    BY <1>1, <2>1, <2>2, <2>4 DEF RepairInv
<1>6. CASE subscribe
  <2>1. /\ link = "bare" /\ link' = "asked" /\ called' = called
        /\ toServer' = Append(toServer, [msg |-> "sub"])
        /\ UNCHANGED <<local, toClient, server>>
    BY <1>6 DEF subscribe
  <2>2. Severed /\ Passive /\ depth = 0 /\ toServer = <<>>
    BY <2>1 DEF RepairInv
  <2>3. toServer' = <<[msg |-> "sub"]>>
    BY <2>1, <2>2
  <2>4. Unwound' /\ Severed' /\ Passive' /\ depth' = 0
    BY <1>1, <2>1, <2>2 DEF local, server, Unwound, Severed, Passive, Events
  <2>5. Resubscribing'
    BY <2>3, <2>4 DEF Resubscribing, Severed
  <2>6. QED
    BY <1>1, <2>1, <2>4, <2>5 DEF RepairInv
<1>7. QED
  BY <1>2, <1>3, <1>4, <1>5, <1>6, LinkSteps

(* The end of the new subscription changes no copy: what held before it    *)
(* holds after.                                                            *)
LEMMA ReadyRepairs ==
  ASSUME RepairInv, RepairInv', [NextLink]_allVars, link = "asked", link' = "fresh"
  PROVE  Repaired'
<1>1. Refreshed
  BY LinkSteps, StaysIsNext DEF connection, Lose, connect, subscribe
<1>2. TypeInv /\ TypeInv' /\ methods \in Nat
  BY Numbers DEF RepairInv, LinkInv, TypeInv
<1>3. /\ toClient # <<>> /\ toClient' = Tail(toClient) /\ Head(toClient).msg = "ready"
      /\ UNCHANGED <<store, idle, called, server>>
  BY <1>1 DEF Refreshed, Received
<1>4. published /\ methods = called
  BY <1>3 DEF RepairInv, Resubscribing, Severed, Passive
<1>5. ASSUME NEW id \in Id
      PROVE  db'[id] = NoDoc \/ Deaf(id)' \/ AfterData(id)' = db'[id]
  <2>1. Copied(id) /\ db' = db
    BY <1>3, <1>4 DEF RepairInv, Resubscribing, server
  <2>2. AfterData(id)' = AfterData(id)
    BY <1>2, <1>3, DataArrive DEF DataStep
  <2>3. Pending(id) => Deaf(id)'
    <3>1. \A p \in idle : p[1] \in 1 .. methods
      BY <1>2 DEF TypeInv, TypeOK
    <3>2. QED
      BY <1>2, <1>3, <1>4, <3>1 DEF Pending, Deaf
  <2>4. QED
    BY <2>1, <2>2, <2>3 DEF Copied
<1>6. QED
  BY <1>5 DEF Repaired

(***************************************************************************)
(* Users who subscribe again after a loss, and wait with their writes      *)
(* until that is "ready", have the server's version of every document that *)
(* the server still holds, but for the messages under way and unless the   *)
(* document waits for a method of the lost connection; whatever else users *)
(* and servers do (ddp_collection.cpp:155-196).                            *)
(***************************************************************************)
THEOREM NewSubscriptionRepairs ==
  ASSUME Haste = {}
  PROVE  SpecLink => SubscribingRepairs
<1>1. InitLink => RepairInv
  BY InitLinkTypes DEF InitLink, Init, RepairInv, Unwound
<1>2. RepairInv /\ [NextLink]_allVars => RepairInv'
  BY RepairKept
<1>3. RepairInv /\ RepairInv' /\ [NextLink]_allVars
        => [link = "asked" /\ link' = "fresh" => Repaired']_allVars
  BY ReadyRepairs
<1>4. QED
  BY <1>1, <1>2, <1>3, PTL DEF SpecLink, SubscribingRepairs
===============================================================================
