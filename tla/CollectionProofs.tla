--------------------------- MODULE CollectionProofs ---------------------------
(***************************************************************************)
(* Theorems about collections and live queries, for every set of           *)
(* documents, number of live queries and depth of nesting.                 *)
(***************************************************************************)
EXTENDS Collection, DocumentsProofs, SequenceTheorems

-----------------------------------------------------------------------------
(* What the handlers of live_query do to data that shows the document as   *)
(* it was before the announced write.                                      *)

(* The version of a document that a sequence of copies shows. *)
Version(s, id, doc) == IF match(s, id, doc) THEN doc ELSE NoDoc

LEMMA ShownCopies ==
  ASSUME NEW s, NEW id, NEW doc \in Stored
  PROVE  /\ Shown(s, id, doc) \in Seq(Doc)
         /\ Len(Shown(s, id, doc)) <= 1
         /\ match(s, id, doc) => Shown(s, id, doc) = <<doc>> /\ doc \in Doc
         /\ ~match(s, id, doc) => Shown(s, id, doc) = << >>
         /\ ~match(s, id, NoDoc)
<1>1. match(s, id, doc) => doc \in Doc
  BY DEF match, Stored
<1>2. ~match(s, id, NoDoc)
  BY DEF match
<1>3. CASE match(s, id, doc)
  <2>1. Shown(s, id, doc) = <<doc>> /\ doc \in Doc
    BY <1>1, <1>3 DEF Shown
  <2>2. <<doc>> \in Seq(Doc) /\ Len(<<doc>>) <= 1
    BY <2>1
  <2>3. QED
    BY <1>2, <1>3, <2>1, <2>2, Zenon
<1>4. CASE ~match(s, id, doc)
  <2>1. Shown(s, id, doc) = << >>
    BY <1>4 DEF Shown
  <2>2. << >> \in Seq(Doc) /\ Len(<< >>) <= 1
    OBVIOUS
  <2>3. QED
    BY <1>2, <1>4, <2>1, <2>2, Zenon
<1>5. QED
  BY <1>3, <1>4

(* live_query::document_added brings a query that did not show a document  *)
(* up to date (live_query.cpp:68-77).                                      *)
LEMMA AddedShows ==
  ASSUME NEW s, NEW id, NEW after \in Stored
  PROVE  document_added(Shown(s, id, NoDoc), s, id, after) = Shown(s, id, after)
<1>1. Shown(s, id, NoDoc) = << >>
  BY ShownCopies DEF Stored
<1>2. Append(<< >>, after) = <<after>>
  OBVIOUS
<1>3. QED
  BY <1>1, <1>2 DEF document_added, Shown

(* live_query::document_removed leaves no copy (live_query.cpp:103-112).   *)
LEMMA RemovedShows ==
  ASSUME NEW s, NEW id, NEW before \in Stored
  PROVE  document_removed(Shown(s, id, before), s, id, before) = Shown(s, id, NoDoc)
BY ShownCopies DEF document_removed, Shown, match

(* live_query::document_changed replaces, erases or adds the copy          *)
(* (live_query.cpp:79-101), and find_if finds it where it is replaced.     *)
LEMMA ChangedShows ==
  ASSUME NEW s, NEW id, NEW before \in Stored, NEW after \in Stored
  PROVE  /\ document_changed(Shown(s, id, before), s, id, before, after) = Shown(s, id, after)
         /\ ~ReplacesPastEnd(Shown(s, id, before), s, id, before, after)
<1>1. Append(<< >>, after) = <<after>> /\ [<<before>> EXCEPT ![1] = after] = <<after>>
  OBVIOUS
<1>2. CASE match(s, id, before) /\ match(s, id, after)
  <2>1. Shown(s, id, before) = <<before>> /\ Shown(s, id, after) = <<after>>
    BY <1>2 DEF Shown
  <2>2. <<before>> # << >>
    OBVIOUS
  <2>3. document_changed(<<before>>, s, id, before, after) = <<after>>
    BY <1>1, <1>2 DEF document_changed
  <2>4. QED
    BY <2>1, <2>2, <2>3 DEF ReplacesPastEnd
<1>3. CASE match(s, id, before) /\ ~match(s, id, after)
  BY <1>3 DEF Shown, document_changed, ReplacesPastEnd
<1>4. CASE ~match(s, id, before) /\ match(s, id, after)
  BY <1>1, <1>4 DEF Shown, document_changed, ReplacesPastEnd
<1>5. CASE ~match(s, id, before) /\ ~match(s, id, after)
  BY <1>5 DEF Shown, document_changed, ReplacesPastEnd
<1>6. QED
  BY <1>2, <1>3, <1>4, <1>5

(* A listener that holds what the query shows applies the notification of  *)
(* a change and holds what the query shows then.                           *)
LEMMA NotifiedShows ==
  ASSUME NEW s, NEW id, NEW before \in Stored, NEW after \in Stored
  PROVE  NotifiedOfChange(Version(s, id, before), s, id, before, after)
           = Version(s, id, after)
<1>1. CASE match(s, id, before) /\ match(s, id, after)
  <2>1. before \in Doc /\ after \in Doc /\ before # NoDoc
    BY <1>1 DEF match, Stored
  <2>2. Apply(AsModifier(modified_fields(before, after)), before) = after
    BY <2>1, DifferenceRebuilds
  <2>3. QED
    BY <1>1, <2>1, <2>2 DEF NotifiedOfChange, Version
<1>2. CASE ~(match(s, id, before) /\ match(s, id, after))
  BY <1>2 DEF NotifiedOfChange, Version
<1>3. QED
  BY <1>1, <1>2

-----------------------------------------------------------------------------
(* Writes.  All four kinds push a call; they differ in what they store.    *)

(* The announcements of a call say what the write did, all of it.          *)
Announces(events) ==
  /\ \A e \in events : e.before = store[e.id] /\ e.after = store'[e.id]
  /\ \A id \in Id : store'[id] # store[id] => \E e \in events : e.id = id

WriteOf(events) ==
  /\ events \in SUBSET Event
  /\ Call(events)
  /\ store' \in [Id -> Stored]
  /\ Disciplined => Announces(events) /\ \A e \in events : ~Announcing(e.id)

LEMMA CallLicensed ==
  ASSUME NEW events, Call(events), Disciplined
  PROVE  \A e \in events : ~Announcing(e.id)
BY DEF Call, MayWrite, Disciplined

LEMMA ChangesAnnounce ==
  ASSUME store \in [Id -> Stored], NEW ids \in SUBSET Id, NEW new \in [Id -> Stored],
         \A id \in Id \ ids : new[id] = store[id], store' = new
  PROVE  Changes(ids, new) \in SUBSET Event /\ Announces(Changes(ids, new))
<1>1. Changes(ids, new) \in SUBSET Event
  BY DEF Changes, Event
<1>2. \A e \in Changes(ids, new) : e.before = store[e.id] /\ e.after = store'[e.id]
  BY DEF Changes
<1>3. ASSUME NEW id \in Id, store'[id] # store[id]
      PROVE  \E e \in Changes(ids, new) : e.id = id
  <2> DEFINE e == [id |-> id, before |-> store[id], after |-> new[id]]
  <2>1. e \in Changes(ids, new)
    BY <1>3 DEF Changes
  <2>2. e.id = id
    OBVIOUS
  <2>3. QED
    BY <2>1, <2>2
<1>4. QED
  BY <1>1, <1>2, <1>3 DEF Announces

LEMMA InsertWrites ==
  ASSUME TypeOK, NEW id \in Id, NEW doc \in Doc, insert(id, doc)
  PROVE  \E events : WriteOf(events)
<1> DEFINE e == [id |-> id, before |-> NoDoc, after |-> doc]
<1>1. Call({e}) /\ store' = [store EXCEPT ![id] = doc]
  BY DEF insert
<1>2. e \in Event
  BY DEF Event, Stored
<1>3. store' \in [Id -> Stored]
  BY <1>1 DEF TypeOK, Stored
<1>4. Disciplined => store[id] = NoDoc
  BY DEF insert, Disciplined
<1>5. Disciplined => Announces({e})
  BY <1>1, <1>4 DEF Announces, TypeOK
<1>6. QED
  BY <1>1, <1>2, <1>3, <1>5, CallLicensed DEF WriteOf

LEMMA UpdateWrites ==
  ASSUME TypeOK, NEW s, NEW m \in Modifier, update(s, m)
  PROVE  \E events : WriteOf(events)
<1> DEFINE ids == Matching(s)
           new == [id \in Id |-> IF id \in ids THEN Apply(m, store[id]) ELSE store[id]]
<1>1. Call(Changes(ids, new)) /\ store' = new
  BY DEF update
<1>2. ids \in SUBSET Id
  BY DEF Matching
<1>3. ASSUME NEW id \in Id
      PROVE  new[id] \in Stored
  <2>1. CASE id \in ids
    <3>1. store[id] \in Doc
      BY <2>1 DEF Matching, match, TypeOK, Stored
    <3>2. QED
      BY <2>1, <3>1, ApplyType DEF Stored
  <2>2. CASE id \notin ids
    BY <2>2 DEF TypeOK
  <2>3. QED
    BY <2>1, <2>2
<1>4. new \in [Id -> Stored]
  BY <1>3
<1>5. \A id \in Id \ ids : new[id] = store[id]
  OBVIOUS
<1>6. store \in [Id -> Stored]
  BY DEF TypeOK
<1>7. Changes(ids, new) \in SUBSET Event /\ Announces(Changes(ids, new))
  <2> HIDE DEF new, ids
  <2>1. QED
    BY <1>1, <1>2, <1>4, <1>5, <1>6, ChangesAnnounce
<1>8. QED
  <2> HIDE DEF new, ids
  <2>1. QED
    BY <1>1, <1>4, <1>7, CallLicensed DEF WriteOf

LEMMA RemoveWrites ==
  ASSUME TypeOK, NEW s, remove(s)
  PROVE  \E events : WriteOf(events)
<1> DEFINE ids == Matching(s)
           new == [id \in Id |-> IF id \in ids THEN NoDoc ELSE store[id]]
<1>1. Call(Changes(ids, new)) /\ store' = new
  BY DEF remove
<1>2. ids \in SUBSET Id
  BY DEF Matching
<1>3. new \in [Id -> Stored]
  BY DEF TypeOK, Stored
<1>4. \A id \in Id \ ids : new[id] = store[id]
  OBVIOUS
<1>5. store \in [Id -> Stored]
  BY DEF TypeOK
<1> HIDE DEF new, ids
<1>6. Changes(ids, new) \in SUBSET Event /\ Announces(Changes(ids, new))
  BY <1>1, <1>2, <1>3, <1>4, <1>5, ChangesAnnounce
<1>7. QED
  BY <1>1, <1>3, <1>6, CallLicensed DEF WriteOf

LEMMA UpsertWrites ==
  ASSUME TypeOK, NEW s, NEW id \in Id, NEW doc \in Doc, upsert(s, id, doc)
  PROVE  \E events : WriteOf(events)
<1> DEFINE e == [id |-> id, before |-> NoDoc, after |-> doc]
           m == [set |-> doc, unset |-> {}]
<1>1. CASE update(s, m)
  <2>1. m \in Modifier
    BY DEF Modifier
  <2>2. QED
    BY <1>1, <2>1, UpdateWrites
<1>2. CASE /\ store[id] = NoDoc
           /\ Call({e})
           /\ store' = [store EXCEPT ![id] = doc]
  <2>1. e \in Event
    BY DEF Event, Stored
  <2>2. store' \in [Id -> Stored]
    BY <1>2 DEF TypeOK, Stored
  <2>3. Announces({e})
    BY <1>2 DEF Announces, TypeOK
  <2>4. QED
    BY <1>2, <2>1, <2>2, <2>3, CallLicensed DEF WriteOf
<1>3. QED
  BY <1>1, <1>2 DEF upsert

-----------------------------------------------------------------------------
(* Type correctness, which needs the shape of the stack, for all users.    *)

TypeInv == TypeOK /\ StackShape

LEMMA InitTypeInv == Init => TypeInv
<1> SUFFICES ASSUME Init PROVE TypeInv
  OBVIOUS
<1>1. IdleFrame \in Frame
  BY DEF IdleFrame, Started, Frame
<1>2. << >> \in Seq(Doc)
  OBVIOUS
<1>3. 0 \in 0 .. MaxDepth
  BY BoundsAssumption
<1>4. TypeOK
  BY <1>1, <1>2, <1>3 DEF Init, TypeOK, Stored
<1>5. ASSUME NEW d \in Depth
      PROVE  frames[d] = IdleFrame
  BY DEF Init
<1>6. IdleFrame.slots = {}
  BY DEF IdleFrame, Started
<1>7. StackShape
  BY <1>5, <1>6 DEF StackShape
<1>8. QED
  BY <1>4, <1>7 DEF TypeInv

(* Every step but the writes and the pops replaces the top frame by one    *)
(* with fewer announcements to make, or leaves the stack alone.            *)
LEMMA TopFrame ==
  ASSUME TypeInv, depth > 0
  PROVE  depth \in Depth /\ frames[depth] \in Frame
<1>1. depth \in Depth
  BY BoundsAssumption DEF TypeInv, TypeOK, Depth
<1>2. QED
  BY <1>1 DEF TypeInv, TypeOK

LEMMA CallTypes ==
  ASSUME TypeInv, NEW events, WriteOf(events)
  PROVE  TypeInv'
<1>1. /\ frames' = [frames EXCEPT ![depth + 1] = Started(events)]
      /\ depth' = depth + 1 /\ depth < MaxDepth
      /\ UNCHANGED <<selector, results, rebuilt, missed, undefined>>
  BY DEF WriteOf, Call
<1>2. Started(events) \in Frame
  BY DEF WriteOf, Started, Frame
<1>3. depth + 1 \in 0 .. MaxDepth
  BY <1>1, BoundsAssumption DEF TypeInv, TypeOK
<1>4. frames' \in [Depth -> Frame]
  BY <1>1, <1>2 DEF TypeInv, TypeOK
<1>5. TypeOK'
  BY <1>1, <1>3, <1>4 DEF WriteOf, TypeInv, TypeOK
<1>6. ASSUME NEW d \in Depth
      PROVE  /\ d > depth' => frames'[d] = IdleFrame
             /\ frames'[d].slots # {} => frames'[d].event \in Event
             /\ frames'[d].slots \subseteq tracked'
  <2>1. tracked' = tracked
    BY <1>1 DEF tracked
  <2>2. CASE d = depth + 1
    <3>1. frames'[d] = Started(events)
      BY <1>1, <2>2 DEF TypeInv, TypeOK
    <3>2. Started(events).slots = {}
      BY DEF Started
    <3>3. ~(d > depth')
      BY <1>1, <1>3, <2>2
    <3>4. QED
      BY <3>1, <3>2, <3>3
  <2>3. CASE d # depth + 1
    <3>1. frames'[d] = frames[d]
      BY <1>1, <2>3 DEF TypeInv, TypeOK
    <3>2. d > depth' => d > depth
      BY <1>1, BoundsAssumption DEF TypeInv, TypeOK, Depth
    <3>3. QED
      BY <2>1, <3>1, <3>2 DEF TypeInv, StackShape
  <2>4. QED
    BY <2>2, <2>3
<1>7. QED
  BY <1>5, <1>6 DEF TypeInv, StackShape

LEMMA PopTypes ==
  ASSUME TypeInv, depth > 0, PopFrame, missed' \in [Query -> SUBSET Id]
  PROVE  TypeInv'
<1>1. depth \in Depth /\ depth - 1 \in 0 .. MaxDepth
  BY TopFrame, BoundsAssumption DEF TypeInv, TypeOK
<1>2. IdleFrame \in Frame /\ IdleFrame.slots = {}
  BY DEF IdleFrame, Started, Frame
<1>3. TypeOK'
  BY <1>1, <1>2 DEF TypeInv, TypeOK, PopFrame
<1>4. ASSUME NEW d \in Depth
      PROVE  /\ d > depth' => frames'[d] = IdleFrame
             /\ frames'[d].slots # {} => frames'[d].event \in Event
             /\ frames'[d].slots \subseteq tracked'
  <2>1. tracked' = tracked
    BY DEF tracked, PopFrame
  <2>2. CASE d = depth
    BY <1>1, <1>2, <2>2 DEF PopFrame, TypeInv, TypeOK
  <2>3. CASE d # depth
    <3>1. frames'[d] = frames[d]
      BY <2>3 DEF PopFrame, TypeInv, TypeOK
    <3>2. d > depth' => d > depth
      BY <1>1, <2>3 DEF PopFrame, TypeInv, TypeOK, Depth
    <3>3. QED
      BY <2>1, <3>1, <3>2 DEF TypeInv, StackShape
  <2>4. QED
    BY <2>2, <2>3
<1>5. QED
  BY <1>3, <1>4 DEF TypeInv, StackShape

LEMMA TrackTypes ==
  ASSUME TypeInv, NEW q \in Query, NEW s \in Selector, track(q, s)
  PROVE  TypeInv'
<1>1. /\ selector' = [selector EXCEPT ![q] = s]
      /\ results' = [results EXCEPT ![q] = [id \in Id |-> Shown(s, id, store[id])]]
      /\ rebuilt' = [rebuilt EXCEPT ![q] =
                       [id \in Id |-> IF match(s, id, store[id]) THEN store[id] ELSE NoDoc]]
      /\ UNCHANGED <<store, frames, depth, missed, undefined>>
  BY DEF track
<1>2. [id \in Id |-> Shown(s, id, store[id])] \in [Id -> Seq(Doc)]
  BY ShownCopies DEF TypeInv, TypeOK
<1>3. [id \in Id |-> IF match(s, id, store[id]) THEN store[id] ELSE NoDoc] \in [Id -> Stored]
  BY DEF TypeInv, TypeOK, Stored
<1>4. selector' \in [Query -> Selector \cup {NoSelector}]
  BY <1>1 DEF TypeInv, TypeOK
<1>5. results' \in [Query -> [Id -> Seq(Doc)]] /\ rebuilt' \in [Query -> [Id -> Stored]]
  BY <1>1, <1>2, <1>3 DEF TypeInv, TypeOK
<1>6. tracked \subseteq tracked'
  BY <1>1, NoneAssumption DEF tracked, TypeInv, TypeOK
<1>7. StackShape'
  BY <1>1, <1>6 DEF TypeInv, StackShape, Depth
<1>8. QED
  BY <1>1, <1>4, <1>5, <1>7 DEF TypeInv, TypeOK

(* A step that replaces the top frame only. *)
LEMMA TopTypes ==
  ASSUME TypeInv, depth > 0, NEW f \in Frame,
         frames' = [frames EXCEPT ![depth] = f],
         f.slots # {} => f.event \in Event, f.slots \subseteq tracked,
         UNCHANGED <<selector, depth>>
  PROVE  frames' \in [Depth -> Frame] /\ StackShape'
<1>1. depth \in Depth
  BY TopFrame
<1>2. frames' \in [Depth -> Frame]
  BY <1>1 DEF TypeInv, TypeOK
<1>3. tracked' = tracked
  BY DEF tracked
<1>4. ASSUME NEW d \in Depth
      PROVE  /\ d > depth' => frames'[d] = IdleFrame
             /\ frames'[d].slots # {} => frames'[d].event \in Event
             /\ frames'[d].slots \subseteq tracked'
  <2>1. CASE d = depth
    <3>1. frames'[d] = f /\ ~(d > depth')
      BY <1>1, <2>1 DEF TypeInv, TypeOK, Depth
    <3>2. QED
      BY <1>3, <3>1
  <2>2. CASE d # depth
    <3>1. frames'[d] = frames[d]
      BY <2>2 DEF TypeInv, TypeOK
    <3>2. QED
      BY <1>3, <3>1 DEF TypeInv, StackShape
  <2>3. QED
    BY <2>1, <2>2
<1>5. QED
  BY <1>2, <1>4 DEF StackShape

LEMMA EmitTypes ==
  ASSUME TypeInv, Emit
  PROVE  TypeInv'
<1>1. depth > 0 /\ UNCHANGED <<store, selector, results, rebuilt, depth, missed, undefined>>
  BY DEF Emit, Running
<1>2. depth \in Depth /\ frames[depth] \in Frame
  BY <1>1, TopFrame
<1>3. PICK e \in Top.todo :
        SetTop([Top EXCEPT !.todo = Top.todo \ {e}, !.event = e, !.slots = tracked,
                           !.inCallback = FALSE])
  BY DEF Emit
<1> DEFINE f == [Top EXCEPT !.todo = Top.todo \ {e}, !.event = e, !.slots = tracked,
                            !.inCallback = FALSE]
<1>4. frames' = [frames EXCEPT ![depth] = f]
  BY <1>3 DEF SetTop
<1>5. e \in Event
  BY <1>2 DEF Frame, Top
<1>6. tracked \in SUBSET Query
  BY DEF tracked
<1>7. f \in Frame /\ f.event = e /\ f.slots = tracked
  BY <1>2, <1>5, <1>6 DEF Frame, Top
<1> HIDE DEF f
<1>8. frames' \in [Depth -> Frame] /\ StackShape'
  BY <1>1, <1>4, <1>5, <1>7, TopTypes
<1>9. QED
  BY <1>1, <1>8 DEF TypeInv, TypeOK

(* The slot of a live query has run, whatever it did to its data. *)
LEMMA SlotTypes ==
  ASSUME TypeInv, NEW q \in Query, NEW n \in BOOLEAN, NextSlot(q), SlotDone(q, n)
  PROVE  /\ frames' \in [Depth -> Frame]
         /\ StackShape'
         /\ UNCHANGED <<store, selector, depth, missed>>
         /\ Top.event \in Event
<1>1. depth > 0 /\ q \in frames[depth].slots /\ UNCHANGED <<store, selector, depth, missed>>
  BY DEF NextSlot, Running, SlotDone, Top
<1>2. depth \in Depth /\ frames[depth] \in Frame
  BY <1>1, TopFrame
<1>3. frames[depth].event \in Event /\ frames[depth].slots \subseteq tracked
  BY <1>1, <1>2 DEF TypeInv, StackShape
<1> DEFINE f == [Top EXCEPT !.slots = Top.slots \ {q}, !.inCallback = n]
<1>4. frames' = [frames EXCEPT ![depth] = f]
  BY DEF SlotDone, SetTop
<1>5. f \in Frame /\ f.event = frames[depth].event /\ f.slots = frames[depth].slots \ {q}
  BY <1>2 DEF Frame, Top
<1> HIDE DEF f
<1>6. QED
  BY <1>1, <1>3, <1>4, <1>5, TopTypes DEF Top

(* The handlers keep sequences of documents, listeners keep documents.     *)
LEMMA HandlerTypes ==
  ASSUME NEW copies \in Seq(Doc), NEW held \in Stored, NEW s, NEW id,
         NEW before \in Stored, NEW after \in Stored
  PROVE  /\ document_added(copies, s, id, after) \in Seq(Doc)
         /\ document_changed(copies, s, id, before, after) \in Seq(Doc)
         /\ document_removed(copies, s, id, before) \in Seq(Doc)
         /\ before # NoDoc /\ after # NoDoc =>
              NotifiedOfChange(held, s, id, before, after) \in Stored
<1>1. match(s, id, after) => after \in Doc
  BY DEF match, Stored
<1>2. << >> \in Seq(Doc)
  OBVIOUS
<1>3. after \in Doc => Append(copies, after) \in Seq(Doc)
  OBVIOUS
<1>4. after \in Doc => [copies EXCEPT ![1] = after] \in Seq(Doc)
  <2>1. Len(copies) \in Nat /\ DOMAIN copies = 1 .. Len(copies)
    OBVIOUS
  <2>2. CASE 1 \in 1 .. Len(copies)
    BY <2>2, ExceptSeq
  <2>3. CASE 1 \notin 1 .. Len(copies)
    <3>1. [copies EXCEPT ![1] = after] = copies
      BY <2>1, <2>3
    <3>2. QED
      BY <3>1
  <2>4. QED
    BY <2>2, <2>3
<1>5. document_added(copies, s, id, after) \in Seq(Doc)
  BY <1>1, <1>3 DEF document_added
<1>6. document_changed(copies, s, id, before, after) \in Seq(Doc)
  BY <1>1, <1>2, <1>3, <1>4 DEF document_changed
<1>7. document_removed(copies, s, id, before) \in Seq(Doc)
  BY <1>2 DEF document_removed
<1>8. ASSUME before # NoDoc, after # NoDoc
      PROVE  NotifiedOfChange(held, s, id, before, after) \in Stored
  <2>1. AsModifier(modified_fields(before, after)) \in Modifier
    BY <1>8, DifferenceType DEF Stored
  <2>2. held # NoDoc =>
          Apply(AsModifier(modified_fields(before, after)), held) \in Stored
    BY <2>1, ApplyType DEF Stored
  <2>3. QED
    BY <2>2 DEF NotifiedOfChange, Stored
<1>9. QED
  BY <1>5, <1>6, <1>7, <1>8

(* A slot changes what its live query shows of one document. *)
LEMMA PutTypes ==
  ASSUME TypeOK, NEW q \in Query, NEW id \in Id, NEW c \in Seq(Doc), NEW v \in Stored
  PROVE  /\ [results EXCEPT ![q][id] = c] \in [Query -> [Id -> Seq(Doc)]]
         /\ [rebuilt EXCEPT ![q][id] = v] \in [Query -> [Id -> Stored]]
BY DEF TypeOK

LEMMA DeliverTypes ==
  ASSUME TypeInv, NEW q \in Query, DeliverAdded(q) \/ DeliverChanged(q) \/ DeliverRemoved(q)
  PROVE  TypeInv'
<1> DEFINE e == Top.event
           s == selector[q]
           c == results[q][e.id]
           h == rebuilt[q][e.id]
<1>1. /\ NextSlot(q)
      /\ \E n \in BOOLEAN : SlotDone(q, n)
  <2>1. match(s, e.id, e.after) \in BOOLEAN /\ match(s, e.id, e.before) \in BOOLEAN
    BY DEF match
  <2>2. QED
    BY <2>1 DEF DeliverAdded, DeliverChanged, DeliverRemoved
<1>2. /\ frames' \in [Depth -> Frame]
      /\ StackShape'
      /\ UNCHANGED <<store, selector, depth, missed>>
      /\ e \in Event
  BY <1>1, SlotTypes
<1>3. /\ e.id \in Id /\ e.before \in Stored /\ e.after \in Stored
      /\ c \in Seq(Doc) /\ h \in Stored
  BY <1>2 DEF Event, TypeInv, TypeOK
<1>4. /\ results' \in [Query -> [Id -> Seq(Doc)]]
      /\ rebuilt' \in [Query -> [Id -> Stored]]
      /\ undefined' \in BOOLEAN
  <2>1. CASE DeliverAdded(q)
    <3> DEFINE v == IF match(s, e.id, e.after) THEN e.after ELSE h
    <3>1. document_added(c, s, e.id, e.after) \in Seq(Doc) /\ v \in Stored
      BY <1>3, HandlerTypes
    <3>2. /\ results' = [results EXCEPT ![q][e.id] = document_added(c, s, e.id, e.after)]
          /\ rebuilt' = [rebuilt EXCEPT ![q][e.id] = v]
          /\ undefined' = undefined
      BY <2>1 DEF DeliverAdded
    <3> HIDE DEF v, c
    <3>3. QED
      BY <1>3, <3>1, <3>2, PutTypes DEF TypeInv, TypeOK
  <2>2. CASE DeliverRemoved(q)
    <3> DEFINE v == IF match(s, e.id, e.before) THEN NoDoc ELSE h
    <3>1. document_removed(c, s, e.id, e.before) \in Seq(Doc) /\ v \in Stored
      BY <1>3, HandlerTypes DEF Stored
    <3>2. /\ results' = [results EXCEPT ![q][e.id] = document_removed(c, s, e.id, e.before)]
          /\ rebuilt' = [rebuilt EXCEPT ![q][e.id] = v]
          /\ undefined' = undefined
      BY <2>2 DEF DeliverRemoved
    <3> HIDE DEF v, c
    <3>3. QED
      BY <1>3, <3>1, <3>2, PutTypes DEF TypeInv, TypeOK
  <2>3. CASE DeliverChanged(q)
    <3>1. CASE undefined' = TRUE /\ UNCHANGED <<results, rebuilt>>
      BY <3>1 DEF TypeInv, TypeOK
    <3>2. CASE ~(undefined' = TRUE /\ UNCHANGED <<results, rebuilt>>)
      <4> DEFINE v == NotifiedOfChange(h, s, e.id, e.before, e.after)
      <4>1. /\ results' = [results EXCEPT
                  ![q][e.id] = document_changed(c, s, e.id, e.before, e.after)]
            /\ rebuilt' = [rebuilt EXCEPT ![q][e.id] = v]
            /\ undefined' = undefined
            /\ e.before # NoDoc /\ e.after # NoDoc
        BY <2>3, <3>2 DEF DeliverChanged
      <4>2. document_changed(c, s, e.id, e.before, e.after) \in Seq(Doc) /\ v \in Stored
        BY <1>3, <4>1, HandlerTypes
      <4> HIDE DEF v, c
      <4>3. QED
        BY <1>3, <4>1, <4>2, PutTypes DEF TypeInv, TypeOK
    <3>3. QED
      BY <3>1, <3>2
  <2>4. QED
    BY <2>1, <2>2, <2>3
<1>5. QED
  BY <1>2, <1>4 DEF TypeInv, TypeOK

LEMMA UnheardEvents ==
  ASSUME TypeInv, NEW q, NEW d \in Depth, NEW e \in Unheard(q, d)
  PROVE  e \in Event /\ e.id \in Id /\ e.before \in Stored
<1>1. frames[d] \in Frame /\ (frames[d].slots # {} => frames[d].event \in Event)
  BY DEF TypeInv, TypeOK, StackShape
<1>2. e \in frames[d].todo \/ (frames[d].slots # {} /\ e = frames[d].event)
  BY DEF Unheard
<1>3. QED
  BY <1>1, <1>2 DEF Frame, Event

LEMMA ThrowTypes ==
  ASSUME TypeInv, Throw
  PROVE  TypeInv'
<1>1. depth > 0 /\ PopFrame /\ missed' = [q \in Query |-> missed[q] \cup Abandoned(q)]
  BY DEF Throw, Running
<1>2. \A q \in Query : Abandoned(q) \in SUBSET Id
  BY <1>1, TopFrame, UnheardEvents DEF Abandoned
<1>3. missed' \in [Query -> SUBSET Id]
  BY <1>1, <1>2 DEF TypeInv, TypeOK
<1>4. QED
  BY <1>1, <1>3, PopTypes

(* A write, the creation of a live query, or a step of the top call. *)
LEMMA StepCases ==
  ASSUME TypeInv, Next
  PROVE  \/ \E events : WriteOf(events)
         \/ \E q \in Query, s \in Selector : track(q, s)
         \/ Emit
         \/ \E q \in Query : DeliverAdded(q) \/ DeliverChanged(q) \/ DeliverRemoved(q)
         \/ Return
         \/ Throw
<1>1. TypeOK
  BY DEF TypeInv
<1>2. CASE \E id \in Id, doc \in Documents : insert(id, doc)
  BY <1>1, <1>2, InsertWrites, InputsAssumption
<1>3. CASE \E s \in Selectors, m \in Modifiers : update(s, m)
  BY <1>1, <1>3, UpdateWrites, InputsAssumption
<1>4. CASE \E s \in Selectors, id \in Id, doc \in Documents : upsert(s, id, doc)
  BY <1>1, <1>4, UpsertWrites, InputsAssumption
<1>5. CASE \E s \in Selectors : remove(s)
  BY <1>1, <1>5, RemoveWrites
<1>6. CASE \E q \in Query, s \in Selectors : track(q, s)
  BY <1>6, InputsAssumption
<1>7. QED
  BY <1>2, <1>3, <1>4, <1>5, <1>6 DEF Next, UserCall, Progress

LEMMA NextTypeInv == TypeInv /\ [Next]_vars => TypeInv'
<1> SUFFICES ASSUME TypeInv, [Next]_vars PROVE TypeInv'
  OBVIOUS
<1>1. CASE UNCHANGED vars
  BY <1>1 DEF vars, TypeInv, TypeOK, StackShape, tracked
<1>2. CASE Next
  <2>1. CASE \E events : WriteOf(events)
    BY <2>1, CallTypes
  <2>2. CASE \E q \in Query, s \in Selector : track(q, s)
    BY <2>2, TrackTypes
  <2>3. CASE Emit
    BY <2>3, EmitTypes
  <2>4. CASE \E q \in Query : DeliverAdded(q) \/ DeliverChanged(q) \/ DeliverRemoved(q)
    BY <2>4, DeliverTypes
  <2>5. CASE Return
    BY <2>5, PopTypes DEF Return, Running, TypeInv, TypeOK
  <2>6. CASE Throw
    BY <2>6, ThrowTypes
  <2>7. QED
    BY <1>2, <2>1, <2>2, <2>3, <2>4, <2>5, <2>6, StepCases
<1>3. QED
  BY <1>1, <1>2

(***************************************************************************)
(* Whatever users and their callbacks do, the data of every live query     *)
(* stays a list of documents, and the call stack one of calls in progress  *)
(* (live_query.cpp:68-112, collection.cpp:110-243).                        *)
(***************************************************************************)
THEOREM TypeCorrect == Spec => []TypeOK
<1>1. TypeInv => TypeOK
  BY DEF TypeInv
<1>2. QED
  BY <1>1, InitTypeInv, NextTypeInv, PTL DEF Spec

-----------------------------------------------------------------------------
(* The inductive invariant, for users who take no liberty but to throw out *)
(* of callbacks.  First what the steps do to the announcements that are    *)
(* still to be made.                                                       *)

LEMMA UnheardIsUnfinished ==
  ASSUME NEW q, NEW d
  PROVE  Unheard(q, d) \subseteq Unfinished(d)
BY DEF Unheard, Unfinished

LEMMA WriteFrames ==
  ASSUME TypeInv, NEW events, WriteOf(events)
  PROVE  /\ depth + 1 \in Depth
         /\ Unfinished(depth + 1) = {}
         /\ \A d \in Depth : Unfinished(d)' = IF d = depth + 1 THEN events ELSE Unfinished(d)
         /\ \A d \in Depth, q \in Query :
              Unheard(q, d)' = IF d = depth + 1 THEN events ELSE Unheard(q, d)
         /\ \A d \in Depth : frames'[d].slots # {} => frames'[d] = frames[d]
<1>1. depth + 1 \in Depth /\ depth + 1 > depth
  BY BoundsAssumption DEF WriteOf, Call, TypeInv, TypeOK, Depth
<1>2. frames[depth + 1] = IdleFrame
  BY <1>1 DEF TypeInv, StackShape
<1>3. Unfinished(depth + 1) = {}
  BY <1>2 DEF Unfinished, IdleFrame, Started
<1>4. ASSUME NEW d \in Depth
      PROVE  frames'[d] = IF d = depth + 1 THEN Started(events) ELSE frames[d]
  BY <1>1 DEF WriteOf, Call, TypeInv, TypeOK
<1>5. Started(events).slots = {} /\ Started(events).todo = events
  BY DEF Started
<1>6. QED
  BY <1>1, <1>3, <1>4, <1>5 DEF Unfinished, Unheard

LEMMA EmitFrames ==
  ASSUME TypeInv, Emit
  PROVE  /\ \A d \in Depth : Unfinished(d)' \subseteq Unfinished(d)
         /\ \A d \in Depth : frames'[d].slots # {} =>
              frames'[d] = frames[d] \/ frames'[d].event \notin frames'[d].todo
         /\ \A d \in Depth, q \in tracked : Unheard(q, d)' = Unheard(q, d)
<1>1. depth > 0
  BY DEF Emit, Running
<1>2. depth \in Depth /\ Top \in Frame
  BY <1>1, TopFrame DEF Top
<1>3. PICK e \in Top.todo :
        SetTop([Top EXCEPT !.todo = Top.todo \ {e}, !.event = e, !.slots = tracked,
                           !.inCallback = FALSE])
  BY DEF Emit
<1> DEFINE f == [Top EXCEPT !.todo = Top.todo \ {e}, !.event = e, !.slots = tracked,
                            !.inCallback = FALSE]
<1>4. f.todo = Top.todo \ {e} /\ f.event = e /\ f.slots = tracked
  BY <1>2 DEF Frame
<1>5. ASSUME NEW d \in Depth
      PROVE  frames'[d] = IF d = depth THEN f ELSE frames[d]
  BY <1>2, <1>3 DEF SetTop, TypeInv, TypeOK
<1>6. Top = frames[depth] /\ Top.slots = {}
  BY DEF Top, Emit
<1> HIDE DEF f
<1>7. QED
  BY <1>3, <1>4, <1>5, <1>6 DEF Unfinished, Unheard

LEMMA SlotFrames ==
  ASSUME TypeInv, NEW q \in Query, NEW n \in BOOLEAN, NextSlot(q), SlotDone(q, n)
  PROVE  /\ depth \in Depth /\ Top.event \in Unheard(q, depth) /\ Top.slots # {}
         /\ \A d \in Depth : Unfinished(d)' \subseteq Unfinished(d)
         /\ \A d \in Depth : frames'[d].slots # {} =>
              frames[d].slots # {} /\ frames'[d].event = frames[d].event
         /\ \A d \in Depth : frames'[d].todo = frames[d].todo
         /\ \A d \in Depth, p \in Query :
              p # q \/ d # depth => Unheard(p, d)' = Unheard(p, d)
         /\ \A d \in Depth : d = depth => Unheard(q, d)' = Top.todo
<1>1. depth > 0 /\ q \in Top.slots /\ Top = frames[depth]
  BY DEF NextSlot, Running, Top
<1>2. depth \in Depth /\ Top \in Frame
  BY <1>1, TopFrame
<1> DEFINE f == [Top EXCEPT !.slots = Top.slots \ {q}, !.inCallback = n]
<1>3. f.todo = Top.todo /\ f.event = Top.event /\ f.slots = Top.slots \ {q}
  BY <1>2 DEF Frame
<1>4. ASSUME NEW d \in Depth
      PROVE  frames'[d] = IF d = depth THEN f ELSE frames[d]
  BY <1>2 DEF SlotDone, SetTop, TypeInv, TypeOK
<1> HIDE DEF f
<1>6. Top.event \in Unheard(q, depth) /\ Top.slots # {}
  BY <1>1 DEF Unheard
<1>7. \A d \in Depth : Unfinished(d)' \subseteq Unfinished(d)
  BY <1>1, <1>3, <1>4 DEF Unfinished
<1>8. \A d \in Depth, p \in Query : p # q \/ d # depth => Unheard(p, d)' = Unheard(p, d)
  BY <1>1, <1>3, <1>4 DEF Unheard
<1>9. \A d \in Depth : d = depth => Unheard(q, d)' = Top.todo
  BY <1>1, <1>3, <1>4 DEF Unheard
<1>10. QED
  BY <1>1, <1>2, <1>3, <1>4, <1>6, <1>7, <1>8, <1>9

(* A call that ends, in whatever way, has nothing more to announce. *)
LEMMA PopFrames ==
  ASSUME TypeInv, PopFrame
  PROVE  /\ \A d \in Depth : frames'[d].slots # {} => frames'[d] = frames[d]
         /\ \A d \in Depth : Unfinished(d)' \subseteq Unfinished(d)
         /\ \A d \in Depth, q \in Query :
              Unheard(q, d)' = IF d = depth THEN {} ELSE Unheard(q, d)
<1>1. IdleFrame.todo = {} /\ IdleFrame.slots = {}
  BY DEF IdleFrame, Started
<1>2. ASSUME NEW d \in Depth
      PROVE  frames'[d] = IF d = depth THEN IdleFrame ELSE frames[d]
  BY DEF PopFrame, TypeInv, TypeOK
<1>3. QED
  BY <1>1, <1>2 DEF Unfinished, Unheard

LEMMA ReturnFrames ==
  ASSUME TypeInv, Return
  PROVE  /\ \A d \in Depth : frames'[d].slots # {} => frames'[d] = frames[d]
         /\ \A d \in Depth : Unfinished(d)' = Unfinished(d)
         /\ \A d \in Depth, q \in Query : Unheard(q, d)' = Unheard(q, d)
<1>1. Top = frames[depth] /\ Top.todo = {} /\ Top.slots = {}
  BY DEF Return, Top
<1>2. IdleFrame.todo = {} /\ IdleFrame.slots = {}
  BY DEF IdleFrame, Started
<1>3. ASSUME NEW d \in Depth
      PROVE  frames'[d] = IF d = depth THEN IdleFrame ELSE frames[d]
  BY DEF Return, PopFrame, TypeInv, TypeOK
<1>4. QED
  BY <1>1, <1>2, <1>3 DEF Unfinished, Unheard

(* Fewer announcements of an unchanged store keep what IInv says of them.  *)
LEMMA FewerAnnouncements ==
  ASSUME AnnouncementsDistinct, AnnouncementsCurrent, store' = store,
         \A d \in Depth : Unfinished(d)' \subseteq Unfinished(d),
         \A d \in Depth : frames'[d].slots # {} => frames'[d].event \notin frames'[d].todo
  PROVE  AnnouncementsDistinct' /\ AnnouncementsCurrent'
<1>1. \A d1, d2 \in Depth : \A e1 \in Unfinished(d1)', e2 \in Unfinished(d2)' :
        e1.id = e2.id => d1 = d2 /\ e1 = e2
  BY DEF AnnouncementsDistinct
<1>2. \A d \in Depth : \A e \in Unfinished(d)' : e.after = store'[e.id]
  BY DEF AnnouncementsCurrent
<1>3. QED
  BY <1>1, <1>2 DEF AnnouncementsDistinct, AnnouncementsCurrent

(* So do the views if nobody hears of anything. *)
LEMMA NothingHeard ==
  ASSUME ViewsShowKnown, EventsRebuildResults,
         UNCHANGED <<store, selector, results, rebuilt, missed, undefined>>,
         \A d \in Depth, q \in tracked : Unheard(q, d)' = Unheard(q, d)
  PROVE  ViewsShowKnown' /\ EventsRebuildResults'
<1>1. tracked' = tracked
  BY DEF tracked
<1>2. ASSUME NEW q \in tracked, NEW id \in Id
      PROVE  Current(q, id)' = Current(q, id)
  BY DEF Current
<1>3. ViewsShowKnown'
  BY <1>1, <1>2 DEF ViewsShowKnown
<1>4. EventsRebuildResults'
  BY <1>1 DEF EventsRebuildResults, FirstCopy
<1>5. QED
  BY <1>3, <1>4

-----------------------------------------------------------------------------
(* Each step preserves the announcements and the views.                    *)

LEMMA IInvType == IInv => TypeInv
BY DEF IInv, TypeInv

LEMMA WriteKeepsIInv ==
  ASSUME IInv, Disciplined, NEW events, WriteOf(events)
  PROVE  IInv'
<1>1. TypeInv /\ TypeInv'
  BY IInvType, CallTypes
<1>2. /\ UNCHANGED <<selector, results, rebuilt, missed, undefined>>
      /\ events \in SUBSET Event
      /\ Announces(events)
      /\ \A e \in events : ~Announcing(e.id)
  BY DEF WriteOf, Call
<1>3. /\ Unfinished(depth + 1) = {}
      /\ \A d \in Depth : Unfinished(d)' = IF d = depth + 1 THEN events ELSE Unfinished(d)
      /\ \A d \in Depth, q \in Query :
           Unheard(q, d)' = IF d = depth + 1 THEN events ELSE Unheard(q, d)
      /\ \A d \in Depth : frames'[d].slots # {} => frames'[d] = frames[d]
      /\ depth + 1 \in Depth
  BY <1>1, WriteFrames
<1>4. \A d \in Depth : \A e1 \in Unfinished(d), e2 \in events : e1.id # e2.id
  BY <1>2 DEF Announcing
<1>5. \A e1, e2 \in events : e1.id = e2.id => e1 = e2
  BY <1>2 DEF Announces, Event
<1>6. AnnouncementsDistinct'
  <2>1. \A d1, d2 \in Depth : \A e1 \in Unfinished(d1)', e2 \in Unfinished(d2)' :
          e1.id = e2.id => d1 = d2 /\ e1 = e2
    BY <1>3, <1>4, <1>5 DEF IInv, AnnouncementsDistinct
  <2>2. \A d \in Depth : frames'[d].slots # {} => frames'[d].event \notin frames'[d].todo
    BY <1>3 DEF IInv, AnnouncementsDistinct
  <2>3. QED
    BY <2>1, <2>2 DEF AnnouncementsDistinct
<1>7. AnnouncementsCurrent'
  <2>1. ASSUME NEW d \in Depth, NEW e \in Unfinished(d), e.id \in Id
        PROVE  e.after = store'[e.id]
    <3>1. e.after = store[e.id]
      BY DEF IInv, AnnouncementsCurrent
    <3>2. store'[e.id] = store[e.id]
      BY <1>2, <1>4, <2>1 DEF Announces
    <3>3. QED
      BY <3>1, <3>2
  <2>2. \A d \in Depth : \A e \in Unfinished(d) : e.id \in Id
    BY <1>1 DEF Unfinished, TypeInv, TypeOK, StackShape, Frame, Event
  <2>3. \A e \in events : e.after = store'[e.id]
    BY <1>2 DEF Announces
  <2>4. QED
    BY <1>3, <2>1, <2>2, <2>3 DEF AnnouncementsCurrent
<1>8. tracked' = tracked /\ tracked \subseteq Query
  BY <1>2 DEF tracked
<1>9. ViewsShowKnown'
  <2>1. ASSUME NEW q \in tracked, NEW id \in Id \ missed[q], Current(q, id)'
        PROVE  results'[q][id] = Shown(selector'[q], id, store'[id])
    <3>1. \A e \in events : e.id # id
      BY <1>3, <1>8, <2>1 DEF Current
    <3>2. store'[id] = store[id]
      BY <1>2, <3>1 DEF Announces
    <3>3. Unheard(q, depth + 1) = {}
      BY <1>3, UnheardIsUnfinished
    <3>4. Current(q, id)
      BY <1>3, <1>8, <2>1, <3>3 DEF Current
    <3>5. QED
      BY <1>2, <3>2, <3>4 DEF IInv, ViewsShowKnown
  <2>2. ASSUME NEW q \in tracked, NEW e \in events, e.id \notin missed[q]
        PROVE  results'[q][e.id] = Shown(selector'[q], e.id, e.before)
    <3>1. e.id \in Id /\ e.before = store[e.id]
      BY <1>2 DEF Announces, Event
    <3>2. Current(q, e.id)
      BY <1>4, UnheardIsUnfinished DEF Current
    <3>3. QED
      BY <1>2, <2>2, <3>1, <3>2 DEF IInv, ViewsShowKnown
  <2>3. ASSUME NEW q \in tracked, NEW d \in Depth, NEW e \in Unheard(q, d),
               e.id \notin missed[q]
        PROVE  results'[q][e.id] = Shown(selector'[q], e.id, e.before)
    BY <1>2, <2>3 DEF IInv, ViewsShowKnown
  <2>4. QED
    BY <1>2, <1>3, <1>8, <2>1, <2>2, <2>3 DEF ViewsShowKnown
<1>10. EventsRebuildResults'
  BY <1>2, <1>8 DEF IInv, EventsRebuildResults, FirstCopy
<1>11. OnlyThrowsSkip'
  BY <1>2 DEF IInv, OnlyThrowsSkip
<1>12. QED
  BY <1>1, <1>2, <1>6, <1>7, <1>9, <1>10, <1>11 DEF IInv, TypeInv

LEMMA EmitKeepsIInv ==
  ASSUME IInv, Emit
  PROVE  IInv'
<1>1. TypeInv /\ TypeInv'
  BY IInvType, EmitTypes
<1>2. UNCHANGED <<store, selector, results, rebuilt, missed, undefined>>
  BY DEF Emit
<1>3. /\ \A d \in Depth : Unfinished(d)' \subseteq Unfinished(d)
      /\ \A d \in Depth : frames'[d].slots # {} =>
           frames'[d] = frames[d] \/ frames'[d].event \notin frames'[d].todo
      /\ \A d \in Depth, q \in tracked : Unheard(q, d)' = Unheard(q, d)
  BY <1>1, EmitFrames
<1>4. \A d \in Depth : frames'[d].slots # {} => frames'[d].event \notin frames'[d].todo
  BY <1>3 DEF IInv, AnnouncementsDistinct
<1>5. AnnouncementsDistinct' /\ AnnouncementsCurrent'
  BY <1>2, <1>3, <1>4, FewerAnnouncements DEF IInv
<1>6. ViewsShowKnown' /\ EventsRebuildResults'
  BY <1>2, <1>3, NothingHeard DEF IInv
<1>7. OnlyThrowsSkip'
  BY <1>2 DEF IInv, OnlyThrowsSkip
<1>8. QED
  BY <1>1, <1>2, <1>5, <1>6, <1>7 DEF IInv, TypeInv

LEMMA ReturnKeepsIInv ==
  ASSUME IInv, Return
  PROVE  IInv'
<1>1. TypeInv /\ TypeInv'
  BY IInvType, PopTypes DEF Return, Running, TypeInv, TypeOK
<1>2. UNCHANGED <<store, selector, results, rebuilt, missed, undefined>>
  BY DEF Return, PopFrame
<1>3. /\ \A d \in Depth : frames'[d].slots # {} => frames'[d] = frames[d]
      /\ \A d \in Depth : Unfinished(d)' = Unfinished(d)
      /\ \A d \in Depth, q \in Query : Unheard(q, d)' = Unheard(q, d)
  BY <1>1, ReturnFrames
<1>4. \A d \in Depth : frames'[d].slots # {} => frames'[d].event \notin frames'[d].todo
  BY <1>3 DEF IInv, AnnouncementsDistinct
<1>5. AnnouncementsDistinct' /\ AnnouncementsCurrent'
  BY <1>2, <1>3, <1>4, FewerAnnouncements DEF IInv
<1>6. ViewsShowKnown' /\ EventsRebuildResults'
  BY <1>2, <1>3, NothingHeard DEF IInv, tracked
<1>7. OnlyThrowsSkip'
  BY <1>2 DEF IInv, OnlyThrowsSkip
<1>8. QED
  BY <1>1, <1>2, <1>5, <1>6, <1>7 DEF IInv, TypeInv

(* An exception leaves every live query right but for what it skips.       *)
LEMMA ThrowKeepsIInv ==
  ASSUME IInv, Throw
  PROVE  IInv'
<1>1. TypeInv /\ TypeInv'
  BY IInvType, ThrowTypes
<1>2. /\ UNCHANGED <<store, selector, results, rebuilt, undefined>>
      /\ missed' = [q \in Query |-> missed[q] \cup Abandoned(q)]
      /\ depth \in Depth /\ PopFrame /\ "throw" \in Licence
  BY <1>1, TopFrame DEF Throw, PopFrame, Running
<1>3. /\ \A d \in Depth : frames'[d].slots # {} => frames'[d] = frames[d]
      /\ \A d \in Depth : Unfinished(d)' \subseteq Unfinished(d)
      /\ \A d \in Depth, q \in Query :
           Unheard(q, d)' = IF d = depth THEN {} ELSE Unheard(q, d)
  BY <1>1, <1>2, PopFrames
<1>4. AnnouncementsDistinct' /\ AnnouncementsCurrent'
  <2>1. \A d \in Depth : frames'[d].slots # {} => frames'[d].event \notin frames'[d].todo
    BY <1>3 DEF IInv, AnnouncementsDistinct
  <2>2. QED
    BY <1>2, <1>3, <2>1, FewerAnnouncements DEF IInv
<1>5. tracked' = tracked /\ tracked \subseteq Query
  BY <1>2 DEF tracked
<1>6. ASSUME NEW q \in tracked
      PROVE  /\ missed[q] \subseteq missed'[q]
             /\ \A e \in Unheard(q, depth) : e.id \in missed'[q]
  BY <1>2, <1>5 DEF Abandoned
<1>7. ViewsShowKnown'
  <2>1. ASSUME NEW q \in tracked, NEW id \in Id, id \notin missed'[q], Current(q, id)'
        PROVE  results'[q][id] = Shown(selector'[q], id, store'[id])
    <3>1. Current(q, id)
      BY <1>3, <1>5, <1>6, <2>1 DEF Current
    <3>2. QED
      BY <1>2, <1>6, <2>1, <3>1 DEF IInv, ViewsShowKnown
  <2>2. ASSUME NEW q \in tracked, NEW d \in Depth, NEW e \in Unheard(q, d)',
               e.id \notin missed'[q]
        PROVE  results'[q][e.id] = Shown(selector'[q], e.id, e.before)
    <3>1. e \in Unheard(q, d) /\ e.id \notin missed[q]
      BY <1>3, <1>5, <1>6, <2>2
    <3>2. QED
      BY <1>2, <3>1 DEF IInv, ViewsShowKnown
  <2>3. QED
    BY <1>5, <2>1, <2>2 DEF ViewsShowKnown
<1>8. EventsRebuildResults'
  BY <1>2, <1>5, <1>6 DEF IInv, EventsRebuildResults, FirstCopy
<1>9. OnlyThrowsSkip'
  <2>1. \A q \in Query : missed[q] # {} => missed'[q] # {}
    BY <1>2
  <2>2. QED
    BY <1>2, <2>1 DEF IInv, OnlyThrowsSkip
<1>10. QED
  BY <1>1, <1>4, <1>7, <1>8, <1>9 DEF IInv, TypeInv

LEMMA TrackKeepsIInv ==
  ASSUME IInv, Disciplined, NEW q \in Query, NEW s \in Selector, track(q, s)
  PROVE  IInv'
<1>1. TypeInv /\ TypeInv'
  BY IInvType, TrackTypes
<1>2. /\ selector' = [selector EXCEPT ![q] = s]
      /\ results' = [results EXCEPT ![q] = [id \in Id |-> Shown(s, id, store[id])]]
      /\ rebuilt' = [rebuilt EXCEPT ![q] =
                       [id \in Id |-> IF match(s, id, store[id]) THEN store[id] ELSE NoDoc]]
      /\ UNCHANGED <<store, frames, depth, missed, undefined>>
      /\ q \notin tracked
      /\ \A d \in Depth : frames[d].todo = {}
  BY DEF track, Disciplined
<1>3. AnnouncementsDistinct' /\ AnnouncementsCurrent'
  BY <1>2 DEF IInv, AnnouncementsDistinct, AnnouncementsCurrent, Unfinished
<1>4. tracked' = tracked \cup {q}
  BY <1>1, <1>2, NoneAssumption DEF tracked, TypeInv, TypeOK
<1>5. \A d \in Depth : Unheard(q, d)' = {}
  BY <1>1, <1>2 DEF Unheard, TypeInv, StackShape
<1>6. ASSUME NEW p \in tracked
      PROVE  /\ selector'[p] = selector[p] /\ results'[p] = results[p]
             /\ rebuilt'[p] = rebuilt[p] /\ missed'[p] = missed[p]
             /\ \A d \in Depth : Unheard(p, d)' = Unheard(p, d)
             /\ \A id \in Id : Current(p, id)' => Current(p, id)
  <2>1. p # q /\ p \in Query
    BY <1>2 DEF tracked
  <2>2. QED
    BY <1>1, <1>2, <2>1 DEF TypeInv, TypeOK, Unheard, Current
<1>7. ASSUME NEW id \in Id
      PROVE  /\ selector'[q] = s
             /\ results'[q][id] = Shown(s, id, store[id])
             /\ rebuilt'[q][id] = Version(s, id, store[id])
  BY <1>1, <1>2 DEF TypeInv, TypeOK, Version
<1>8. ViewsShowKnown'
  <2>1. ASSUME NEW p \in tracked
        PROVE  /\ \A id \in Id \ missed'[p] : Current(p, id)' =>
                    results'[p][id] = Shown(selector'[p], id, store'[id])
               /\ \A d \in Depth : \A e \in Unheard(p, d)' : e.id \notin missed'[p] =>
                    results'[p][e.id] = Shown(selector'[p], e.id, e.before)
    <3>1. ASSUME NEW id \in Id \ missed'[p], Current(p, id)'
          PROVE  results'[p][id] = Shown(selector'[p], id, store'[id])
      BY <1>2, <1>6, <3>1 DEF IInv, ViewsShowKnown
    <3>2. ASSUME NEW d \in Depth, NEW e \in Unheard(p, d)', e.id \notin missed'[p]
          PROVE  results'[p][e.id] = Shown(selector'[p], e.id, e.before)
      <4>1. e \in Unheard(p, d) /\ e.id \notin missed[p]
        BY <1>6, <3>2
      <4>2. QED
        BY <1>6, <4>1 DEF IInv, ViewsShowKnown
    <3>3. QED
      BY <3>1, <3>2
  <2>2. QED
    BY <1>2, <1>4, <1>5, <1>7, <2>1 DEF ViewsShowKnown
<1>9. EventsRebuildResults'
  <2>1. ASSUME ~undefined, NEW p \in tracked, NEW id \in Id \ missed'[p]
        PROVE  rebuilt'[p][id] = FirstCopy(p, id)' /\ Len(results'[p][id]) <= 1
    BY <1>6, <2>1 DEF IInv, EventsRebuildResults, FirstCopy
  <2>2. ASSUME NEW id \in Id
        PROVE  rebuilt'[q][id] = FirstCopy(q, id)' /\ Len(results'[q][id]) <= 1
    <3>1. store[id] \in Stored
      BY <1>1 DEF TypeInv, TypeOK
    <3>2. Len(Shown(s, id, store[id])) <= 1
      BY <3>1, ShownCopies
    <3>3. <<store[id]>> # << >> /\ <<store[id]>>[1] = store[id]
      OBVIOUS
    <3>4. FirstCopy(q, id)' = Version(s, id, store[id])
      BY <1>7, <3>3 DEF FirstCopy, Version, Shown
    <3>5. QED
      BY <1>7, <3>2, <3>4
  <2>3. QED
    BY <1>2, <1>4, <2>1, <2>2 DEF EventsRebuildResults
<1>10. OnlyThrowsSkip'
  BY <1>2 DEF IInv, OnlyThrowsSkip
<1>11. QED
  BY <1>1, <1>2, <1>3, <1>8, <1>9, <1>10 DEF IInv, TypeInv

Deliver(q) == DeliverAdded(q) \/ DeliverChanged(q) \/ DeliverRemoved(q)

LEMMA DeliverSlot ==
  ASSUME NEW q, Deliver(q)
  PROVE  NextSlot(q) /\ \E n \in BOOLEAN : SlotDone(q, n)
<1> DEFINE e == Top.event
<1>1. match(selector[q], e.id, e.after) \in BOOLEAN /\ match(selector[q], e.id, e.before) \in BOOLEAN
  BY DEF match
<1>2. QED
  BY <1>1 DEF Deliver, DeliverAdded, DeliverChanged, DeliverRemoved

(* A slot brings its live query and its listeners up to date with the      *)
(* announced document.                                                     *)
LEMMA DeliverShows ==
  ASSUME IInv, NEW q \in Query, Deliver(q), Top.event.id \notin missed[q]
  PROVE  LET e == Top.event
             s == selector[q]
         IN  /\ e \in Event /\ e.after = store[e.id]
             /\ results' = [results EXCEPT ![q][e.id] = Shown(s, e.id, e.after)]
             /\ rebuilt' = [rebuilt EXCEPT ![q][e.id] = Version(s, e.id, e.after)]
             /\ undefined' = undefined
<1> DEFINE e == Top.event
           s == selector[q]
           c == results[q][e.id]
           h == rebuilt[q][e.id]
<1>1. TypeInv /\ NextSlot(q) /\ \E n \in BOOLEAN : SlotDone(q, n)
  BY IInvType, DeliverSlot
<1>2. depth \in Depth /\ e \in Unheard(q, depth) /\ e \in Event /\ q \in tracked
  <2>1. depth \in Depth /\ e \in Unheard(q, depth) /\ e \in Event
    BY <1>1, SlotFrames, SlotTypes
  <2>2. q \in Top.slots /\ Top = frames[depth]
    BY <1>1 DEF NextSlot, Top
  <2>3. QED
    BY <1>1, <2>1, <2>2 DEF TypeInv, StackShape
<1>3. e.after = store[e.id]
  BY <1>2, UnheardIsUnfinished DEF IInv, AnnouncementsCurrent
<1>4. e.id \in Id /\ e.before \in Stored /\ e.after \in Stored
  BY <1>2 DEF Event
<1>5. c = Shown(s, e.id, e.before)
  BY <1>2 DEF IInv, ViewsShowKnown
<1>6. h = Version(s, e.id, e.before)
  <2>1. h = FirstCopy(q, e.id)
    BY <1>1, <1>2, <1>4 DEF IInv, EventsRebuildResults, NextSlot, Running
  <2>2. <<e.before>> # << >> /\ <<e.before>>[1] = e.before
    OBVIOUS
  <2>3. QED
    BY <1>5, <2>1, <2>2 DEF FirstCopy, Version, Shown
<1>7. CASE DeliverAdded(q)
  <2>1. /\ e.before = NoDoc
        /\ results' = [results EXCEPT ![q][e.id] = document_added(c, s, e.id, e.after)]
        /\ rebuilt' = [rebuilt EXCEPT ![q][e.id] =
                         IF match(s, e.id, e.after) THEN e.after ELSE h]
        /\ undefined' = undefined
    BY <1>7 DEF DeliverAdded
  <2>2. document_added(c, s, e.id, e.after) = Shown(s, e.id, e.after)
    BY <1>4, <1>5, <2>1, AddedShows
  <2>3. h = NoDoc
    BY <1>6, <2>1 DEF Version
  <2>4. (IF match(s, e.id, e.after) THEN e.after ELSE h) = Version(s, e.id, e.after)
    BY <2>3 DEF Version
  <2> HIDE DEF c, h, s, e
  <2>5. QED
    BY <1>2, <1>3, <2>1, <2>2, <2>4 DEF s, e
<1>8. CASE DeliverRemoved(q)
  <2>1. /\ e.after = NoDoc
        /\ results' = [results EXCEPT ![q][e.id] = document_removed(c, s, e.id, e.before)]
        /\ rebuilt' = [rebuilt EXCEPT ![q][e.id] =
                         IF match(s, e.id, e.before) THEN NoDoc ELSE h]
        /\ undefined' = undefined
    BY <1>8 DEF DeliverRemoved
  <2>2. document_removed(c, s, e.id, e.before) = Shown(s, e.id, e.after)
    BY <1>4, <1>5, <2>1, RemovedShows
  <2>3. (IF match(s, e.id, e.before) THEN NoDoc ELSE h) = Version(s, e.id, e.after)
    BY <1>6, <2>1 DEF Version
  <2> HIDE DEF c, h, s, e
  <2>4. QED
    BY <1>2, <1>3, <2>1, <2>2, <2>3 DEF s, e
<1>9. CASE DeliverChanged(q)
  <2>1. /\ document_changed(c, s, e.id, e.before, e.after) = Shown(s, e.id, e.after)
        /\ ~ReplacesPastEnd(c, s, e.id, e.before, e.after)
    BY <1>4, <1>5, ChangedShows
  <2>2. NotifiedOfChange(h, s, e.id, e.before, e.after) = Version(s, e.id, e.after)
    BY <1>4, <1>6, NotifiedShows
  <2>3. /\ results' = [results EXCEPT
              ![q][e.id] = document_changed(c, s, e.id, e.before, e.after)]
        /\ rebuilt' = [rebuilt EXCEPT
              ![q][e.id] = NotifiedOfChange(h, s, e.id, e.before, e.after)]
        /\ undefined' = undefined
    BY <1>9, <2>1 DEF DeliverChanged
  <2> HIDE DEF c, h, s, e
  <2>4. QED
    BY <1>2, <1>3, <2>1, <2>2, <2>3 DEF s, e
<1>10. QED
  BY <1>7, <1>8, <1>9 DEF Deliver

(* It changes what one query shows of one document, announced or missed.   *)
LEMMA DeliverElsewhere ==
  ASSUME TypeInv, NEW q \in Query, Deliver(q),
         NEW p \in Query, NEW id \in Id, p # q \/ id # Top.event.id
  PROVE  results'[p][id] = results[p][id] /\ rebuilt'[p][id] = rebuilt[p][id]
<1> DEFINE i == Top.event.id
<1>1. CASE results' = results /\ rebuilt' = rebuilt
  BY <1>1
<1>2. CASE \E c, v : /\ results' = [results EXCEPT ![q][i] = c]
                    /\ rebuilt' = [rebuilt EXCEPT ![q][i] = v]
  <2> HIDE DEF i
  <2>1. PICK c, v : /\ results' = [results EXCEPT ![q][i] = c]
                    /\ rebuilt' = [rebuilt EXCEPT ![q][i] = v]
    BY <1>2
  <2>2. p # q \/ id # i
    BY DEF i
  <2>3. QED
    BY <2>1, <2>2 DEF TypeInv, TypeOK
<1>3. QED
  BY <1>1, <1>2 DEF Deliver, DeliverAdded, DeliverChanged, DeliverRemoved

LEMMA DeliverKeepsIInv ==
  ASSUME IInv, NEW q \in Query, Deliver(q)
  PROVE  IInv'
<1> DEFINE e == Top.event
           s == selector[q]
<1>1. TypeInv /\ TypeInv' /\ NextSlot(q) /\ \E n \in BOOLEAN : SlotDone(q, n)
  BY IInvType, DeliverSlot, DeliverTypes DEF Deliver
<1>2. e \in Event /\ UNCHANGED <<store, selector, depth, missed>>
  <2>1. UNCHANGED missed
    BY <1>1 DEF SlotDone
  <2>2. QED
    BY <1>1, <2>1, SlotTypes
<1>3. /\ depth \in Depth /\ e \in Unheard(q, depth) /\ Top.slots # {}
      /\ \A d \in Depth : Unfinished(d)' \subseteq Unfinished(d)
      /\ \A d \in Depth : frames'[d].slots # {} =>
           frames[d].slots # {} /\ frames'[d].event = frames[d].event
      /\ \A d \in Depth : frames'[d].todo = frames[d].todo
      /\ \A d \in Depth, p \in Query :
           p # q \/ d # depth => Unheard(p, d)' = Unheard(p, d)
      /\ \A d \in Depth : d = depth => Unheard(q, d)' = Top.todo
  BY <1>1, SlotFrames
<1>4. AnnouncementsDistinct' /\ AnnouncementsCurrent'
  <2>1. \A d \in Depth : frames'[d].slots # {} => frames'[d].event \notin frames'[d].todo
    BY <1>3 DEF IInv, AnnouncementsDistinct
  <2>2. QED
    BY <1>2, <1>3, <2>1, FewerAnnouncements DEF IInv
<1>5. tracked' = tracked /\ tracked \subseteq Query
  BY <1>2 DEF tracked
<1>6. \A d \in Depth : \A g \in Unheard(q, d)' : g.id # e.id /\ g \in Unheard(q, d)
  <2>1. e \notin Top.todo
    BY <1>3 DEF IInv, AnnouncementsDistinct, Top
  <2>2. \A g \in Top.todo : g \in Unheard(q, depth)
    BY DEF Unheard, Top
  <2>3. \A d \in Depth : \A g \in Unheard(q, d)' :
          g \in Unheard(q, d) /\ (d = depth => g \in Top.todo)
    BY <1>3, <2>2
  <2>4. ASSUME NEW d \in Depth, NEW g \in Unheard(q, d)', g.id = e.id
        PROVE  FALSE
    <3>1. d = depth /\ g = e
      BY <1>3, <2>3, <2>4, UnheardIsUnfinished DEF IInv, AnnouncementsDistinct
    <3>2. QED
      BY <2>1, <2>3, <3>1
  <2>5. QED
    BY <2>3, <2>4
<1>7. e.id \in Id /\ e.after \in Stored
  BY <1>2 DEF Event
<1>8. /\ e.id \notin missed[q] =>
           /\ results'[q][e.id] = Shown(s, e.id, store[e.id])
           /\ rebuilt'[q][e.id] = Version(s, e.id, store[e.id])
           /\ undefined' = undefined
      /\ \A p \in Query, id \in Id : p # q \/ id # e.id =>
           results'[p][id] = results[p][id] /\ rebuilt'[p][id] = rebuilt[p][id]
  <2>1. ASSUME e.id \notin missed[q]
        PROVE  /\ e.after = store[e.id]
               /\ results' = [results EXCEPT ![q][e.id] = Shown(s, e.id, e.after)]
               /\ rebuilt' = [rebuilt EXCEPT ![q][e.id] = Version(s, e.id, e.after)]
               /\ undefined' = undefined
    BY <2>1, DeliverShows
  <2>2. \A p \in Query, id \in Id : p # q \/ id # e.id =>
           results'[p][id] = results[p][id] /\ rebuilt'[p][id] = rebuilt[p][id]
    BY <1>1, DeliverElsewhere
  <2> HIDE DEF e, s
  <2>3. QED
    BY <1>1, <1>7, <2>1, <2>2 DEF TypeInv, TypeOK
<1> HIDE DEF e, s
<1>9. ViewsShowKnown'
  <2>1. ASSUME NEW p \in tracked, NEW id \in Id \ missed[p], Current(p, id)'
        PROVE  results'[p][id] = Shown(selector'[p], id, store'[id])
    <3>1. CASE p = q /\ id = e.id
      BY <1>2, <1>8, <2>1, <3>1 DEF s
    <3>2. CASE p # q \/ id # e.id
      <4>1. Current(p, id)
        <5>1. CASE p # q
          BY <1>3, <1>5, <2>1, <5>1 DEF Current
        <5>2. CASE p = q
          <6>1. \A g \in Unheard(q, depth) : g \in Top.todo \/ g = e
            BY DEF Unheard, Top, e
          <6>2. ASSUME NEW d \in Depth, NEW g \in Unheard(q, d), g.id = id
                PROVE  FALSE
            <7>1. g \in Unheard(q, d)'
              BY <1>3, <3>2, <5>2, <6>1, <6>2
            <7>2. QED
              BY <2>1, <5>2, <6>2, <7>1 DEF Current
          <6>3. QED
            BY <5>2, <6>2 DEF Current
        <5>3. QED
          BY <5>1, <5>2
      <4>2. results[p][id] = Shown(selector[p], id, store[id])
        BY <4>1 DEF IInv, ViewsShowKnown
      <4>3. QED
        BY <1>2, <1>5, <1>8, <3>2, <4>2
    <3>3. QED
      BY <3>1, <3>2
  <2>2. ASSUME NEW p \in tracked, NEW d \in Depth, NEW g \in Unheard(p, d)',
               g.id \notin missed[p]
        PROVE  results'[p][g.id] = Shown(selector'[p], g.id, g.before)
    <3>1. g \in Unheard(p, d) /\ (p # q \/ g.id # e.id)
      BY <1>3, <1>5, <1>6
    <3>2. g \in Event /\ g.id \in Id
      <4>1. frames[d] \in Frame /\ (frames[d].slots # {} => frames[d].event \in Event)
        BY <1>1 DEF TypeInv, TypeOK, StackShape
      <4>2. g \in frames[d].todo \/ (frames[d].slots # {} /\ g = frames[d].event)
        BY <3>1 DEF Unheard
      <4>3. QED
        BY <4>1, <4>2 DEF Frame, Event
    <3>3. results[p][g.id] = Shown(selector[p], g.id, g.before)
      BY <2>2, <3>1 DEF IInv, ViewsShowKnown
    <3>4. QED
      BY <1>2, <1>5, <1>8, <3>1, <3>2, <3>3
  <2>3. QED
    BY <1>2, <1>5, <2>1, <2>2 DEF ViewsShowKnown
<1>10. EventsRebuildResults'
  <2>0. ~undefined
    BY <1>1 DEF NextSlot, Running
  <2>1. ASSUME NEW p \in tracked, NEW id \in Id \ missed[p]
        PROVE  rebuilt'[p][id] = FirstCopy(p, id)' /\ Len(results'[p][id]) <= 1
    <3>1. CASE p = q /\ id = e.id
      <4>0. store[e.id] \in Stored
        BY <1>1, <1>7 DEF TypeInv, TypeOK
      <4>1. Len(Shown(s, e.id, store[e.id])) <= 1
        BY <4>0, ShownCopies
      <4>2. <<store[e.id]>> # << >> /\ <<store[e.id]>>[1] = store[e.id]
        OBVIOUS
      <4>3. results'[p][id] = Shown(s, e.id, store[e.id])
        BY <1>8, <2>1, <3>1
      <4>4. FirstCopy(p, id)' = Version(s, e.id, store[e.id])
        BY <4>2, <4>3 DEF FirstCopy, Version, Shown
      <4>5. QED
        BY <1>8, <2>1, <3>1, <4>1, <4>3, <4>4
    <3>2. CASE p # q \/ id # e.id
      BY <1>5, <1>8, <2>0, <2>1, <3>2 DEF IInv, EventsRebuildResults, FirstCopy
    <3>3. QED
      BY <3>1, <3>2
  <2>2. QED
    BY <1>2, <1>5, <2>1 DEF EventsRebuildResults
<1>11. OnlyThrowsSkip'
  <2>1. undefined' => undefined \/ missed[q] # {}
    BY <1>8
  <2>2. QED
    BY <1>2, <2>1 DEF IInv, OnlyThrowsSkip
<1>12. QED
  BY <1>1, <1>2, <1>4, <1>9, <1>10, <1>11 DEF IInv, TypeInv

-----------------------------------------------------------------------------
(* The invariant holds, and what follows from it.                          *)

LEMMA InitIInv == Init => IInv
<1> SUFFICES ASSUME Init PROVE IInv
  OBVIOUS
<1>1. TypeInv
  BY InitTypeInv
<1>2. tracked = {}
  BY DEF Init, tracked
<1>3. ASSUME NEW d \in Depth
      PROVE  frames[d].slots = {} /\ Unfinished(d) = {}
  <2>1. IdleFrame.todo = {} /\ IdleFrame.slots = {}
    BY DEF IdleFrame, Started
  <2>2. QED
    BY <2>1 DEF Init, Unfinished
<1>4. AnnouncementsDistinct /\ AnnouncementsCurrent
  BY <1>3 DEF AnnouncementsDistinct, AnnouncementsCurrent
<1>5. ViewsShowKnown /\ EventsRebuildResults
  BY <1>2 DEF ViewsShowKnown, EventsRebuildResults
<1>6. OnlyThrowsSkip
  BY DEF Init, OnlyThrowsSkip
<1>7. QED
  BY <1>1, <1>4, <1>5, <1>6 DEF IInv, TypeInv

LEMMA NextIInv ==
  ASSUME Disciplined
  PROVE  IInv /\ [Next]_vars => IInv'
<1> SUFFICES ASSUME IInv, [Next]_vars PROVE IInv'
  OBVIOUS
<1>1. CASE UNCHANGED vars
  <2>1. UNCHANGED <<store, selector, results, rebuilt, frames, depth, missed, undefined>>
    BY <1>1 DEF vars
  <2>2. TypeInv'
    BY <1>1, IInvType, NextTypeInv
  <2>3. \A d \in Depth : Unfinished(d)' = Unfinished(d)
    BY <2>1 DEF Unfinished
  <2>4. AnnouncementsDistinct' /\ AnnouncementsCurrent'
    BY <2>1, <2>3 DEF IInv, AnnouncementsDistinct, AnnouncementsCurrent
  <2>5. ViewsShowKnown' /\ EventsRebuildResults'
    BY <2>1, NothingHeard DEF IInv, Unheard
  <2>6. OnlyThrowsSkip'
    BY <2>1 DEF IInv, OnlyThrowsSkip
  <2>7. QED
    BY <2>1, <2>2, <2>4, <2>5, <2>6 DEF IInv, TypeInv
<1>2. CASE Next
  <2>1. CASE \E events : WriteOf(events)
    BY <2>1, WriteKeepsIInv
  <2>2. CASE \E q \in Query, s \in Selector : track(q, s)
    BY <2>2, TrackKeepsIInv
  <2>3. CASE Emit
    BY <2>3, EmitKeepsIInv
  <2>4. CASE \E q \in Query : DeliverAdded(q) \/ DeliverChanged(q) \/ DeliverRemoved(q)
    BY <2>4, DeliverKeepsIInv DEF Deliver
  <2>5. CASE Return
    BY <2>5, ReturnKeepsIInv
  <2>6. CASE Throw
    BY <2>6, ThrowKeepsIInv
  <2>7. QED
    BY <1>2, <2>1, <2>2, <2>3, <2>4, <2>5, <2>6, IInvType, StepCases
<1>3. QED
  BY <1>1, <1>2

LEMMA IInvViews == IInv => ViewsMirrorStore
<1> SUFFICES ASSUME IInv, depth = 0, NEW q \in tracked, NEW id \in Id \ missed[q]
             PROVE  results[q][id] = Shown(selector[q], id, store[id])
  BY DEF ViewsMirrorStore
<1>1. \A d \in Depth : frames[d] = IdleFrame
  BY DEF IInv, StackShape, Depth
<1>2. \A d \in Depth : Unheard(q, d) = {}
  BY <1>1 DEF Unheard, IdleFrame, Started
<1>3. Current(q, id)
  BY <1>2 DEF Current
<1>4. QED
  BY <1>3 DEF IInv, ViewsShowKnown

(***************************************************************************)
(* The strengthening: at every moment a live query shows the matching part *)
(* of the store as it knows it, whatever writes are nested in the          *)
(* callbacks of whatever queries, but for the documents that an exception  *)
(* of a callback kept it from hearing of.                                  *)
(***************************************************************************)
THEOREM InvariantHolds ==
  ASSUME Disciplined
  PROVE  Spec => []IInv
BY InitIInv, NextIInv, PTL DEF Spec

(***************************************************************************)
(* Whenever no write is in progress, data() of every live query is what    *)
(* find returns for its selector (live_query.cpp:68-112), provided users   *)
(* do not insert a stored _id again and do not write documents still being *)
(* announced.  If callbacks throw, out of whatever kind of call, that is   *)
(* so of every document but those that an exception kept a query from      *)
(* hearing of (collection.cpp:110,158).                                    *)
(***************************************************************************)
THEOREM ViewsCorrect ==
  ASSUME Disciplined
  PROVE  Spec => []ViewsMirrorStore
BY InvariantHolds, IInvViews, PTL

(* Without exceptions the live queries hear of everything.                 *)
LEMMA NothingMissed ==
  ASSUME IInv, Licence = {}
  PROVE  Disciplined /\ ~undefined /\ \A q \in Query : missed[q] = {}
BY DEF IInv, OnlyThrowsSkip, Disciplined

(* find_if in live_query::document_changed never returns the end iterator  *)
(* (live_query.cpp:83), if callbacks do not throw either.                  *)
THEOREM ReplaceCorrect ==
  ASSUME Licence = {}
  PROVE  Spec => []ReplaceFindsDocument
<1>1. Disciplined
  BY DEF Disciplined
<1>2. IInv => ReplaceFindsDocument
  BY NothingMissed DEF ReplaceFindsDocument
<1>3. QED
  BY <1>1, <1>2, InvariantHolds, PTL

(* The notifications of a live query lose nothing: who applies them holds  *)
(* what data() returns (live_query.cpp:53-66, collection.cpp:298-310), but *)
(* of the documents that an exception kept the query from hearing of.      *)
THEOREM EventsCorrect ==
  ASSUME Disciplined
  PROVE  Spec => []EventsRebuildResults
<1>1. IInv => EventsRebuildResults
  BY DEF IInv
<1>2. QED
  BY <1>1, InvariantHolds, PTL

LEMMA StepsShowCurrent ==
  ASSUME Licence = {}
  PROVE  IInv /\ [Next]_vars => [ViewChangeIsCurrent]_vars
<1> SUFFICES ASSUME IInv, Next, NEW q \in tracked, NEW id \in Id,
                    results'[q][id] # results[q][id]
             PROVE  results'[q][id] = Shown(selector[q], id, store[id])
  BY DEF ViewChangeIsCurrent
<1>1. TypeInv /\ q \in Query
  BY IInvType DEF tracked
<1>2. CASE results' = results
  BY <1>2
<1>3. CASE \E p \in Query, s \in Selector : track(p, s)
  <2>1. PICK p \in Query, s \in Selector : track(p, s)
    BY <1>3
  <2>2. p # q /\ results'[q] = results[q]
    BY <1>1, <2>1 DEF track, TypeInv, TypeOK
  <2>3. QED
    BY <2>2
<1>4. CASE \E p \in Query : Deliver(p)
  <2>1. PICK p \in Query : Deliver(p)
    BY <1>4
  <2> DEFINE e == Top.event
             v == Shown(selector[p], e.id, e.after)
  <2>0. e.id \notin missed[p]
    BY <2>1, NothingMissed
  <2>2. e \in Event /\ e.after = store[e.id]
    BY <2>0, <2>1, DeliverShows
  <2>3. results' = [results EXCEPT ![p][e.id] = v]
    BY <2>0, <2>1, DeliverShows
  <2> HIDE DEF e, v
  <2>4. p = q /\ id = e.id /\ results'[q][id] = v
    BY <1>1, <2>3 DEF TypeInv, TypeOK
  <2>5. QED
    BY <2>2, <2>4 DEF v
<1>5. QED
  BY <1>1, <1>2, <1>3, <1>4, StepCases
     DEF WriteOf, Call, Emit, Return, PopFrame, Throw, Deliver

(***************************************************************************)
(* What a live query shows of a document only ever changes to its present  *)
(* state, never to an outdated one (collection.cpp:194-230).               *)
(***************************************************************************)
THEOREM ChangesCorrect ==
  ASSUME Licence = {}
  PROVE  Spec => ViewChangesAreCurrent
<1>1. Disciplined
  BY DEF Disciplined
<1>2. QED
  BY <1>1, InvariantHolds, StepsShowCurrent, PTL DEF Spec, ViewChangesAreCurrent

-----------------------------------------------------------------------------
(***************************************************************************)
(* The collection and its live queries implement the abstract LiveView:    *)
(* the version of the store that a live query knows.  An exception would   *)
(* leave a version behind that the abstract one has no word for, so from   *)
(* here on callbacks do not throw.                                         *)
(***************************************************************************)

KnownFacts ==
  \A q \in Query :
    /\ Known(q) = [id \in Id |-> Known(q)[id]]
    /\ \A id \in Id : Current(q, id) => Known(q)[id] = store[id]
    /\ \A d \in Depth : \A e \in Unheard(q, d) : e.id \in Id => Known(q)[e.id] = e.before

LEMMA KnownValues == AnnouncementsDistinct => KnownFacts
<1> SUFFICES ASSUME AnnouncementsDistinct, NEW q \in Query
             PROVE  /\ Known(q) = [id \in Id |-> Known(q)[id]]
                    /\ \A id \in Id : Current(q, id) => Known(q)[id] = store[id]
                    /\ \A d \in Depth : \A e \in Unheard(q, d) :
                         e.id \in Id => Known(q)[e.id] = e.before
  BY DEF KnownFacts
<1> DEFINE U == AllUnheard(q)
<1>1. /\ Known(q) = [id \in Id |-> Known(q)[id]]
      /\ \A id \in Id : Current(q, id) => Known(q)[id] = store[id]
  BY DEF Known
<1>2. ASSUME NEW d \in Depth, NEW e \in Unheard(q, d), e.id \in Id
      PROVE  Known(q)[e.id] = e.before
  <2>1. ~Current(q, e.id)
    BY DEF Current
  <2>2. Known(q)[e.id] = (CHOOSE g \in U : g.id = e.id).before
    BY <1>2, <2>1 DEF Known
  <2>3. e \in U
    BY DEF AllUnheard
  <2>4. \A g \in U : g.id = e.id => g = e
    <3>1. ASSUME NEW c \in Depth, NEW g \in Unheard(q, c), g.id = e.id
          PROVE  g = e
      BY <3>1, UnheardIsUnfinished DEF AnnouncementsDistinct
    <3>2. QED
      BY <3>1 DEF AllUnheard
  <2> HIDE DEF U
  <2>5. (CHOOSE g \in U : g.id = e.id) = e
    BY <2>3, <2>4
  <2>6. QED
    BY <2>2, <2>5
<1>3. QED
  BY <1>1, <1>2

(* The same of the next state. *)
LEMMA KnownValuesNext == AnnouncementsDistinct' => KnownFacts'
BY KnownValues, PTL

(* A live query shows the matching part of the store as it knows it. *)
LEMMA ViewOfKnown ==
  ASSUME IInv, Licence = {}, NEW q \in tracked, NEW id \in Id
  PROVE  /\ FirstCopy(q, id) = Version(selector[q], id, Known(q)[id])
         /\ Known(q)[id] \in Stored
<1>0. id \notin missed[q]
  BY NothingMissed DEF tracked
<1>1. TypeInv /\ AnnouncementsDistinct /\ q \in Query
  BY IInvType DEF IInv, tracked
<1>2. results[q][id] = Shown(selector[q], id, Known(q)[id]) /\ Known(q)[id] \in Stored
  <2>1. CASE Current(q, id)
    <3>1. Known(q)[id] = store[id]
      BY <1>1, <2>1, KnownValues DEF KnownFacts
    <3>2. store[id] \in Stored
      BY <1>1 DEF TypeInv, TypeOK
    <3>3. QED
      BY <1>0, <2>1, <3>1, <3>2 DEF IInv, ViewsShowKnown
  <2>2. CASE ~Current(q, id)
    <3>0. PICK d \in Depth : \E e \in Unheard(q, d) : e.id = id
      BY <2>2 DEF Current
    <3>1. PICK e \in Unheard(q, d) : e.id = id
      BY <3>0
    <3>2. Known(q)[id] = e.before /\ e.before \in Stored
      BY <1>1, <3>1, KnownValues, UnheardEvents DEF KnownFacts
    <3>3. QED
      BY <1>0, <3>1, <3>2 DEF IInv, ViewsShowKnown
  <2>3. QED
    BY <2>1, <2>2
<1>3. <<Known(q)[id]>> # << >> /\ <<Known(q)[id]>>[1] = Known(q)[id]
  OBVIOUS
<1>4. QED
  BY <1>2, <1>3 DEF FirstCopy, Version, Shown

-----------------------------------------------------------------------------
(* Initial states and steps.                                               *)

LEMMA InitRefines == Init => LV!Init
<1> SUFFICES ASSUME Init PROVE LV!Init
  OBVIOUS
<1>1. tracked = {}
  BY DEF Init, tracked
<1>2. store = [id \in Id |-> NoDoc] /\ depth = 0 /\ selector = [q \in Query |-> NoSelector]
  BY DEF Init
<1>3. KnownVersions = [q \in Query |-> store]
  BY <1>1 DEF KnownVersions
<1>4. \A q \in Query, id \in Id : FirstCopy(q, id) = NoDoc
  BY DEF Init, FirstCopy
<1>5. ShownVersions = [q \in Query |-> [id \in Id |-> NoDoc]]
  BY <1>4 DEF ShownVersions
<1>6. QED
  BY <1>2, <1>3, <1>5 DEF LV!Init

LEMMA WriteRefines ==
  ASSUME IInv, Disciplined, NEW events, WriteOf(events)
  PROVE  LV!Write
<1>1. TypeInv /\ KnownFacts /\ KnownFacts'
  BY IInvType, WriteKeepsIInv, KnownValues, KnownValuesNext DEF IInv
<1>2. /\ UNCHANGED <<selector, results>>
      /\ events \in SUBSET Event
      /\ Announces(events)
      /\ \A e \in events : ~Announcing(e.id)
      /\ depth < MaxDepth /\ depth' = depth + 1
      /\ store' \in [Id -> Stored]
  BY DEF WriteOf, Call
<1>3. /\ depth + 1 \in Depth
      /\ Unfinished(depth + 1) = {}
      /\ \A d \in Depth, q \in Query :
           Unheard(q, d)' = IF d = depth + 1 THEN events ELSE Unheard(q, d)
  BY <1>1, WriteFrames
<1>4. tracked' = tracked /\ tracked \subseteq Query
  BY <1>2 DEF tracked
<1>5. ASSUME NEW q \in tracked, NEW e \in events
      PROVE  Current(q, e.id) /\ e.id \in Id /\ e.before = store[e.id]
  <2>1. \A d \in Depth : \A g \in Unheard(q, d) : g.id # e.id
    BY <1>2, UnheardIsUnfinished DEF Announcing
  <2>2. QED
    BY <1>2, <2>1 DEF Current, Announces, Event
<1>6. ASSUME NEW q \in Query, NEW id \in Id, q \in tracked, store'[id] # store[id]
      PROVE  Known(q)[id] = store[id]
  <2>1. PICK e \in events : e.id = id
    BY <1>2, <1>6 DEF Announces
  <2>2. QED
    BY <1>1, <1>5, <1>6, <2>1 DEF KnownFacts
<1>7. ASSUME NEW q \in tracked
      PROVE  Known(q)' = Known(q)
  <2>1. ASSUME NEW id \in Id
        PROVE  Known(q)'[id] = Known(q)[id]
    <3>1. CASE \E e \in events : e.id = id
      <4>1. PICK e \in events : e.id = id
        BY <3>1
      <4>3. Known(q)[id] = e.before
        BY <1>1, <1>4, <1>5, <4>1 DEF KnownFacts
      <4>4. PICK c \in Depth : e \in Unheard(q, c)'
        BY <1>3, <1>4
      <4>5. Known(q)'[id] = e.before
        BY <1>1, <1>4, <4>1, <4>4 DEF KnownFacts
      <4>6. QED
        BY <4>3, <4>5
    <3>2. CASE ~\E e \in events : e.id = id
      <4>1. store'[id] = store[id]
        BY <1>2, <3>2 DEF Announces
      <4>2. Unheard(q, depth + 1) = {}
        BY <1>3, UnheardIsUnfinished
      <4>3. CASE Current(q, id)
        <5>1. Current(q, id)'
          BY <1>3, <1>4, <3>2, <4>3 DEF Current
        <5>2. Known(q)'[id] = store'[id] /\ Known(q)[id] = store[id]
          BY <1>1, <1>4, <4>3, <5>1 DEF KnownFacts
        <5>3. QED
          BY <4>1, <5>2
      <4>4. CASE ~Current(q, id)
        <5>0. PICK d \in Depth : \E e \in Unheard(q, d) : e.id = id
          BY <4>4 DEF Current
        <5>1. PICK e \in Unheard(q, d) : e.id = id
          BY <5>0
        <5>2. e \in Unheard(q, d)'
          BY <1>3, <1>4, <4>2, <5>1
        <5>3. Known(q)'[id] = e.before /\ Known(q)[id] = e.before
          BY <1>1, <1>4, <5>1, <5>2 DEF KnownFacts
        <5>4. QED
          BY <5>3
      <4>5. QED
        BY <4>3, <4>4
    <3>3. QED
      BY <3>1, <3>2
  <2>2. QED
    BY <1>1, <1>4, <2>1 DEF KnownFacts
<1>8. KnownVersions' = [q \in Query |-> IF q \in tracked THEN KnownVersions[q] ELSE store']
  BY <1>4, <1>7 DEF KnownVersions
<1>9. ShownVersions' = ShownVersions
  BY <1>2 DEF ShownVersions, FirstCopy
<1>10. \A q \in Query : q \in tracked <=> LV!Exists(q)
  BY DEF tracked, LV!Exists
<1>11. \A q \in Query, id \in Id :
         q \in tracked /\ store'[id] # store[id] => KnownVersions[q][id] = store[id]
  BY <1>6 DEF KnownVersions
<1>12. LV!Stored = Stored
  BY DEF LV!Stored, Stored, LV!Doc, Doc
<1>13. QED
  BY <1>2, <1>8, <1>9, <1>10, <1>11, <1>12 DEF LV!Write

(* Who has heard of nothing knows what it knew. *)
LEMMA KnowsAsMuch ==
  ASSUME NEW q, store' = store, \A d \in Depth : Unheard(q, d)' = Unheard(q, d)
  PROVE  Known(q)' = Known(q)
<1>1. AllUnheard(q)' = AllUnheard(q)
  BY DEF AllUnheard
<1>2. ASSUME NEW id \in Id
      PROVE  Known(q)'[id] = Known(q)[id]
  <2>1. CASE Current(q, id)
    <3>1. Current(q, id)'
      BY <2>1 DEF Current
    <3>2. QED
      BY <2>1, <3>1 DEF Known
  <2>2. CASE ~Current(q, id)
    <3>1. ~Current(q, id)'
      BY <2>2 DEF Current
    <3>2. QED
      BY <1>1, <2>2, <3>1 DEF Known
  <2>3. QED
    BY <2>1, <2>2
<1>3. /\ Known(q)' = [id \in Id |-> Known(q)'[id]]
      /\ Known(q) = [id \in Id |-> Known(q)[id]]
  BY DEF Known
<1>4. QED
  BY <1>2, <1>3

(* If nobody hears of anything, the abstract state stays as it is. *)
LEMMA NothingHeardRefines ==
  ASSUME UNCHANGED <<store, selector, results>>,
         \A d \in Depth, q \in tracked : Unheard(q, d)' = Unheard(q, d)
  PROVE  UNCHANGED <<KnownVersions, ShownVersions>>
<1>1. tracked' = tracked
  BY DEF tracked
<1>2. ASSUME NEW q \in tracked
      PROVE  Known(q)' = Known(q)
  BY KnowsAsMuch
<1>3. KnownVersions' = KnownVersions
  BY <1>1, <1>2 DEF KnownVersions
<1>4. ShownVersions' = ShownVersions
  BY DEF ShownVersions, FirstCopy
<1>5. QED
  BY <1>3, <1>4

LEMMA EmitRefines ==
  ASSUME IInv, Emit
  PROVE  UNCHANGED LV!viewVars
<1>1. UNCHANGED <<store, selector, results, depth>>
  BY DEF Emit
<1>2. \A d \in Depth, q \in tracked : Unheard(q, d)' = Unheard(q, d)
  BY IInvType, EmitFrames
<1>3. UNCHANGED <<KnownVersions, ShownVersions>>
  BY <1>1, <1>2, NothingHeardRefines
<1>4. QED
  BY <1>1, <1>3 DEF LV!viewVars

LEMMA ReturnRefines ==
  ASSUME IInv, Return
  PROVE  LV!Finish
<1>1. TypeInv /\ KnownFacts
  BY IInvType, KnownValues DEF IInv
<1>2. depth > 0 /\ UNCHANGED <<store, selector, results>> /\ depth' = depth - 1
  BY DEF Return, PopFrame, Running
<1>3. \A d \in Depth, q \in tracked : Unheard(q, d)' = Unheard(q, d)
  BY <1>1, ReturnFrames DEF tracked
<1>4. UNCHANGED <<KnownVersions, ShownVersions>>
  BY <1>2, <1>3, NothingHeardRefines
<1>5. ASSUME depth = 1, NEW q \in tracked
      PROVE  Known(q) = store
  <2>1. ASSUME NEW d \in Depth
        PROVE  Unheard(q, d) = {}
    <3>1. CASE d = depth
      BY <3>1 DEF Return, Top, Unheard
    <3>2. CASE d # depth
      <4>1. frames[d] = IdleFrame
        BY <1>1, <1>5, <3>2 DEF TypeInv, StackShape, Depth
      <4>2. QED
        BY <4>1 DEF Unheard, IdleFrame, Started
    <3>3. QED
      BY <3>1, <3>2
  <2>2. \A id \in Id : Current(q, id)
    BY <2>1 DEF Current
  <2>3. Known(q) = [id \in Id |-> store[id]]
    BY <2>2 DEF Known
  <2>4. QED
    BY <1>1, <2>3 DEF TypeInv, TypeOK
<1>6. depth = 1 => \A q \in Query : LV!Exists(q) => KnownVersions[q] = store
  BY <1>5 DEF LV!Exists, tracked, KnownVersions
<1>7. QED
  BY <1>2, <1>4, <1>6 DEF LV!Finish

(* What LiveView selects of a version is what the queries show of it. *)
LEMMA SelectVersions ==
  ASSUME NEW s, NEW v
  PROVE  LV!Select(s, v) = [id \in Id |-> Version(s, id, v[id])]
BY DEF LV!Select, LV!match, Version, match

LEMMA TrackRefines ==
  ASSUME IInv, Disciplined, NEW q \in Query, NEW s \in Selector, track(q, s)
  PROVE  LV!Track(q, s)
<1>1. TypeInv /\ TypeInv' /\ KnownFacts'
  BY IInvType, TrackTypes, TrackKeepsIInv, KnownValuesNext DEF IInv
<1>2. /\ selector' = [selector EXCEPT ![q] = s]
      /\ results' = [results EXCEPT ![q] = [id \in Id |-> Shown(s, id, store[id])]]
      /\ UNCHANGED <<store, frames, depth>>
      /\ q \notin tracked
      /\ \A d \in Depth : frames[d].todo = {}
  BY DEF track, Disciplined
<1>3. tracked' = tracked \cup {q}
  BY <1>1, <1>2, NoneAssumption DEF tracked, TypeInv, TypeOK
<1>4. Known(q)' = store
  <2>1. \A d \in Depth : Unheard(q, d)' = {}
    BY <1>1, <1>2 DEF Unheard, TypeInv, StackShape
  <2>2. \A id \in Id : Current(q, id)'
    BY <2>1 DEF Current
  <2>3. Known(q)' = [id \in Id |-> store[id]]
    BY <1>2, <2>2 DEF Known
  <2>4. QED
    BY <1>1, <2>3 DEF TypeInv, TypeOK
<1>5. ASSUME NEW p \in tracked
      PROVE  Known(p)' = Known(p)
  <2>1. \A d \in Depth : Unheard(p, d)' = Unheard(p, d)
    BY <1>2 DEF Unheard
  <2>2. QED
    BY <1>2, <2>1, KnowsAsMuch
<1>6. KnownVersions' = [KnownVersions EXCEPT ![q] = store]
  BY <1>2, <1>3, <1>4, <1>5 DEF KnownVersions
<1>7. ASSUME NEW id \in Id
      PROVE  FirstCopy(q, id)' = Version(s, id, store[id])
  <2>1. results'[q][id] = Shown(s, id, store[id])
    BY <1>1, <1>2 DEF TypeInv, TypeOK
  <2>2. <<store[id]>> # << >> /\ <<store[id]>>[1] = store[id]
    OBVIOUS
  <2>3. QED
    BY <2>1, <2>2 DEF FirstCopy, Version, Shown
<1>8. ASSUME NEW p \in Query, p # q
      PROVE  \A id \in Id : FirstCopy(p, id)' = FirstCopy(p, id)
  BY <1>1, <1>2, <1>8 DEF FirstCopy, TypeInv, TypeOK
<1>9. ShownVersions' = [ShownVersions EXCEPT ![q] = [id \in Id |-> Version(s, id, store[id])]]
  BY <1>7, <1>8 DEF ShownVersions
<1>10. ~LV!Exists(q)
  BY <1>2 DEF LV!Exists, tracked
<1>11. QED
  BY <1>2, <1>6, <1>9, <1>10, SelectVersions DEF LV!Track

LEMMA DeliverRefines ==
  ASSUME IInv, Licence = {}, NEW q \in Query, Deliver(q)
  PROVE  \E id \in Id : LV!CatchUp(q, id)
<1> DEFINE e == Top.event
           s == selector[q]
<1>1. TypeInv /\ IInv' /\ NextSlot(q) /\ \E n \in BOOLEAN : SlotDone(q, n)
  BY IInvType, DeliverSlot, DeliverKeepsIInv
<1>2. KnownFacts /\ KnownFacts'
  BY <1>1, KnownValues, KnownValuesNext DEF IInv
<1>3. /\ e \in Event /\ e.after = store[e.id]
      /\ results' = [results EXCEPT ![q][e.id] = Shown(s, e.id, e.after)]
      /\ UNCHANGED <<store, selector, depth>>
  <2>1. Top.event.id \notin missed[q]
    BY NothingMissed
  <2>2. QED
    BY <1>1, <2>1, DeliverShows, SlotTypes
<1>4. /\ depth \in Depth /\ e \in Unheard(q, depth)
      /\ \A d \in Depth, p \in Query :
           p # q \/ d # depth => Unheard(p, d)' = Unheard(p, d)
      /\ \A d \in Depth : d = depth => Unheard(q, d)' = Top.todo
  BY <1>1, SlotFrames
<1>5. tracked' = tracked /\ tracked \subseteq Query
  BY <1>3 DEF tracked
<1>6. q \in tracked /\ depth > 0
  BY <1>1, <1>4 DEF NextSlot, Running, Top, TypeInv, StackShape, Depth
<1>7. PICK i \in Id : i = e.id
  BY <1>3 DEF Event
<1>8. /\ e.after \in Stored
      /\ results'[q][i] = Shown(s, i, store[i])
      /\ \A p \in Query, id \in Id : p # q \/ id # i => results'[p][id] = results[p][id]
  BY <1>1, <1>3, <1>7 DEF Event, TypeInv, TypeOK
<1>9. e \notin Top.todo
  BY <1>1, <1>4 DEF IInv, AnnouncementsDistinct, NextSlot, Top
<1>10. \A g \in Unheard(q, depth) : g \in Top.todo \/ g = e
  BY DEF Unheard, Top
<1>11. \A g \in Top.todo : g \in Unheard(q, depth)
  BY DEF Unheard, Top
<1> HIDE DEF e, s
<1>12. \A d \in Depth : \A g \in Unheard(q, d)' : g \in Unheard(q, d) /\ g.id # i
  <2>1. ASSUME NEW d \in Depth, NEW g \in Unheard(q, d)'
        PROVE  g \in Unheard(q, d) /\ (d = depth => g # e)
    BY <1>4, <1>9, <1>11, <2>1
  <2>2. \A d \in Depth : \A g \in Unheard(q, d) : g.id = i => d = depth /\ g = e
    BY <1>4, <1>7, UnheardIsUnfinished DEF IInv, AnnouncementsDistinct
  <2>3. QED
    BY <2>1, <2>2
<1>13. \A d \in Depth : \A g \in Unheard(q, d) : g.id # i => g \in Unheard(q, d)'
  BY <1>4, <1>7, <1>10
<1>14. Known(q)' = [Known(q) EXCEPT ![i] = store[i]]
  <2>1. ASSUME NEW id \in Id
        PROVE  Known(q)'[id] = IF id = i THEN store[i] ELSE Known(q)[id]
    <3>1. CASE id = i
      <4>1. Current(q, id)'
        BY <1>12, <3>1 DEF Current
      <4>2. QED
        BY <1>2, <1>3, <3>1, <4>1 DEF KnownFacts
    <3>2. CASE id # i /\ Current(q, id)
      <4>1. Current(q, id)'
        BY <1>12, <3>2 DEF Current
      <4>2. QED
        BY <1>2, <1>3, <3>2, <4>1 DEF KnownFacts
    <3>3. CASE id # i /\ ~Current(q, id)
      <4>1. PICK d \in Depth : \E g \in Unheard(q, d) : g.id = id
        BY <3>3 DEF Current
      <4>2. PICK g \in Unheard(q, d) : g.id = id
        BY <4>1
      <4>3. g \in Unheard(q, d)'
        BY <1>13, <3>3, <4>2
      <4>4. QED
        BY <1>2, <3>3, <4>2, <4>3 DEF KnownFacts
    <3>4. QED
      BY <3>1, <3>2, <3>3
  <2>2. QED
    BY <1>2, <2>1 DEF KnownFacts
<1>15. ASSUME NEW p \in tracked, p # q
       PROVE  Known(p)' = Known(p)
  <2>1. \A d \in Depth : Unheard(p, d)' = Unheard(p, d)
    BY <1>4, <1>5, <1>15
  <2>2. QED
    BY <1>3, <2>1, KnowsAsMuch
<1>16. KnownVersions' = [KnownVersions EXCEPT ![q][i] = store[i]]
  BY <1>3, <1>5, <1>6, <1>14, <1>15 DEF KnownVersions
<1>17. ASSUME NEW id \in Id
       PROVE  FirstCopy(q, id)' = Version(selector[q], id, KnownVersions'[q][id])
  <2>1. KnownVersions'[q] = Known(q)'
    BY <1>5, <1>6 DEF KnownVersions
  <2>2. CASE id = i
    <3>1. <<store[i]>> # << >> /\ <<store[i]>>[1] = store[i]
      OBVIOUS
    <3>2. FirstCopy(q, id)' = Version(s, i, store[i])
      BY <1>8, <2>2, <3>1 DEF FirstCopy, Version, Shown
    <3>3. KnownVersions'[q][id] = store[i]
      BY <1>2, <1>14, <2>1, <2>2 DEF KnownFacts
    <3>4. QED
      BY <2>2, <3>2, <3>3 DEF s
  <2>3. CASE id # i
    <3>1. FirstCopy(q, id)' = FirstCopy(q, id)
      BY <1>8, <2>3 DEF FirstCopy
    <3>2. FirstCopy(q, id) = Version(selector[q], id, Known(q)[id])
      BY <1>6, ViewOfKnown
    <3>3. KnownVersions'[q][id] = Known(q)[id]
      BY <1>14, <2>1, <2>3
    <3>4. QED
      BY <3>1, <3>2, <3>3
  <2>4. QED
    BY <2>2, <2>3
<1>18. ASSUME NEW p \in Query, p # q
       PROVE  \A id \in Id : FirstCopy(p, id)' = FirstCopy(p, id)
  BY <1>8, <1>18 DEF FirstCopy
<1>19. ShownVersions' = [ShownVersions EXCEPT ![q] =
                           LV!Select(selector[q], KnownVersions'[q])]
  BY <1>17, <1>18, SelectVersions DEF ShownVersions
<1>20. LV!Exists(q)
  BY <1>6 DEF LV!Exists, tracked
<1>21. QED
  BY <1>3, <1>6, <1>16, <1>19, <1>20 DEF LV!CatchUp

LEMMA NextRefines ==
  ASSUME Licence = {}
  PROVE  IInv /\ [Next]_vars => [LV!Next]_(LV!viewVars)
<1> SUFFICES ASSUME IInv, [Next]_vars, Disciplined PROVE [LV!Next]_(LV!viewVars)
  BY DEF Disciplined
<1>1. CASE UNCHANGED vars
  <2>1. UNCHANGED <<store, selector, results, depth, frames>>
    BY <1>1 DEF vars
  <2>2. UNCHANGED <<KnownVersions, ShownVersions>>
    BY <2>1, NothingHeardRefines DEF Unheard
  <2>3. QED
    BY <2>1, <2>2 DEF LV!viewVars
<1>2. CASE Next
  <2>1. CASE \E events : WriteOf(events)
    BY <2>1, WriteRefines DEF LV!Next
  <2>2. CASE \E q \in Query, s \in Selector : track(q, s)
    <3>1. LV!Selector = Selector
      BY DEF LV!Selector, Selector, LV!Doc, Doc
    <3>2. QED
      BY <2>2, <3>1, TrackRefines DEF LV!Next
  <2>3. CASE Emit
    BY <2>3, EmitRefines
  <2>4. CASE \E q \in Query : DeliverAdded(q) \/ DeliverChanged(q) \/ DeliverRemoved(q)
    BY <2>4, DeliverRefines DEF Deliver, LV!Next
  <2>5. CASE Return
    BY <2>5, ReturnRefines DEF LV!Next
  <2>6. CASE Throw
    BY <2>6 DEF Throw
  <2>7. QED
    BY <1>2, <2>1, <2>2, <2>3, <2>4, <2>5, <2>6, IInvType, StepCases
<1>3. QED
  BY <1>1, <1>2

(***************************************************************************)
(* Writes nested in callbacks, announced document by document and slot by  *)
(* slot, look to the user of live queries like LiveView: every query shows *)
(* the matching part of a version of the database of its own, moves only   *)
(* forward to present states of documents, and has caught up when the last *)
(* write returns (collection.cpp:110-243, live_query.cpp:30-112).          *)
(***************************************************************************)
THEOREM ImplementsCorrect ==
  ASSUME Licence = {}
  PROVE  Spec => ImplementsLiveView
<1>1. Disciplined
  BY DEF Disciplined
<1>2. QED
  BY <1>1, InvariantHolds, InitRefines, NextRefines, PTL
     DEF Spec, ImplementsLiveView, LV!Spec
=============================================================================
