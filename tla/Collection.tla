------------------------------ MODULE Collection ------------------------------
(***************************************************************************)
(* class collection and the live queries that track it, in one thread.     *)
(*                                                                         *)
(* A write (insert, update, upsert, remove) first changes the EJDB store   *)
(* as a whole, and then tells the live queries of one document after the   *)
(* other, by boost::signals2 signals whose slots run inside the call.  A   *)
(* live query passes the news on to the callbacks of the user, which may   *)
(* write to the same collection again before the first call has told       *)
(* everybody of everything: calls nest.  `frames' is that call stack.      *)
(*                                                                         *)
(* The steps of a call are: Emit (the loop of collection::query turns to   *)
(* the next document and the signal takes its snapshot of the slots),      *)
(* DeliverAdded, DeliverChanged, DeliverRemoved (one slot runs, user       *)
(* callbacks included), and Return, or Throw when an exception of a        *)
(* callback leaves the call.                                               *)
(***************************************************************************)
EXTENDS LiveQuery, FiniteSets

CONSTANTS
  MaxQueries,  \* bound on the live queries created
  MaxDepth,    \* bound on the nesting of writes through callbacks
  MaxCopies,   \* bound on the copies of a document in a view when one throws
  NoSelector,  \* a live query that does not exist yet
  NoEvent,     \* no signal is being emitted
  Documents,   \* the documents users insert
  Selectors,   \* the selectors users query with
  Modifiers,   \* the modifiers users update with
  Licence      \* what users and their callbacks take the liberty to do

ASSUME BoundsAssumption ==
  MaxQueries \in Nat /\ MaxDepth \in Nat \ {0} /\ MaxCopies \in Nat

ASSUME InputsAssumption ==
  /\ Documents \subseteq Doc
  /\ Selectors \subseteq Selector
  /\ Modifiers \subseteq Modifier

ASSUME NoneAssumption == NoSelector \notin Selector

(***************************************************************************)
(* The liberties: "conflict", a callback writes a document that an outer   *)
(* call has not finished announcing, or creates a live query while         *)
(* announcements are waiting; "overwrite", insert is given the _id of a    *)
(* stored document; "throw", a callback throws.                            *)
(***************************************************************************)
ASSUME LicenceAssumption == Licence \subseteq {"conflict", "overwrite", "throw"}

Query == 1 .. MaxQueries   \* live queries, in the order of their creation
Depth == 1 .. MaxDepth

(* What a call tells of one document: NoDoc stands for its absence. *)
Event == [id : Id, before : Stored, after : Stored]

ASSUME NoEventAssumption == NoEvent \notin Event

(***************************************************************************)
(* A call in progress: the documents it still has to announce, the event   *)
(* being announced, the slots (live queries) the signal has not called     *)
(* yet, and whether a user callback is running.                            *)
(***************************************************************************)
Frame == [todo : SUBSET Event, event : Event \cup {NoEvent}, slots : SUBSET Query,
          inCallback : BOOLEAN]

Started(events) ==
  [todo |-> events, event |-> NoEvent, slots |-> {}, inCallback |-> FALSE]

IdleFrame == Started({})

VARIABLES
  store,     \* the EJDB collection
  selector,  \* the selector of each live query
  results,   \* live_query::_results, see module LiveQuery
  rebuilt,   \* what a listener to a live query's notifications has rebuilt
  frames,    \* the calls in progress, outermost first
  depth,     \* how many they are
  missed,    \* the documents each live query was not told of, for an exception
  undefined  \* the program wrote through end()

vars == <<store, selector, results, rebuilt, frames, depth, missed, undefined>>

tracked == {q \in Query : selector[q] # NoSelector}

TypeOK ==
  /\ store \in [Id -> Stored]
  /\ selector \in [Query -> Selector \cup {NoSelector}]
  /\ results \in [Query -> [Id -> Seq(Doc)]]
  /\ rebuilt \in [Query -> [Id -> Stored]]
  /\ frames \in [Depth -> Frame]
  /\ depth \in 0 .. MaxDepth
  /\ missed \in [Query -> SUBSET Id]
  /\ undefined \in BOOLEAN

Init ==
  /\ store = [id \in Id |-> NoDoc]
  /\ selector = [q \in Query |-> NoSelector]
  /\ results = [q \in Query |-> [id \in Id |-> <<>>]]
  /\ rebuilt = [q \in Query |-> [id \in Id |-> NoDoc]]
  /\ frames = [d \in Depth |-> IdleFrame]
  /\ depth = 0
  /\ missed = [q \in Query |-> {}]
  /\ undefined = FALSE

-----------------------------------------------------------------------------
(* The events a call has announced to nobody or not to every slot. *)
Unfinished(d) ==
  frames[d].todo \cup (IF frames[d].slots = {} THEN {} ELSE {frames[d].event})

Announcing(id) == \E d \in Depth : \E e \in Unfinished(d) : e.id = id

(* User code runs between calls and in the callbacks of live queries. *)
UserRuns == ~undefined /\ (depth = 0 \/ (depth > 0 /\ frames[depth].inCallback))

MayWrite(events) ==
  "conflict" \in Licence \/ \A e \in events : ~Announcing(e.id)

Call(events) ==
  /\ UserRuns
  /\ depth < MaxDepth
  /\ MayWrite(events)
  /\ depth' = depth + 1
  /\ frames' = [frames EXCEPT ![depth + 1] = Started(events)]
  /\ UNCHANGED <<selector, results, rebuilt, missed, undefined>>

Matching(s) == {id \in Id : match(s, id, store[id])}

(* Mutant of Changes: the two versions are exchanged. *)
Changes_Exchanged(ids, new) ==
  {[id |-> id, before |-> new[id], after |-> store[id]] : id \in {i \in ids : new[i] # store[i]}}

(* What collection::query announces of a store changed to `new': the       *)
(* documents of `ids' whose version after differs from the one before.     *)
Changes(ids, new) ==
  {[id |-> id, before |-> store[id], after |-> new[id]] : id \in {i \in ids : new[i] # store[i]}}

(* collection::insert, with an _id of the caller or a generated one.  The  *)
(* announcement knows nothing of a document that is overwritten.           *)
insert(id, doc) ==
  /\ store[id] = NoDoc \/ "overwrite" \in Licence
  /\ Call({[id |-> id, before |-> NoDoc, after |-> doc]})
  /\ store' = [store EXCEPT ![id] = doc]

(* collection::update: every matching document is modified in the store,   *)
(* then each one that changed is announced.                                *)
update(s, m) ==
  LET ids == Matching(s)
      new == [id \in Id |-> IF id \in ids THEN Apply(m, store[id]) ELSE store[id]]
  IN  /\ Call(Changes(ids, new))
      /\ store' = new

(* collection::upsert: an update with $set, or, when nothing matches, the  *)
(* insertion of the fields under a generated _id.                          *)
upsert(s, id, doc) ==
  \/ /\ Matching(s) # {}
     /\ update(s, [set |-> doc, unset |-> {}])
  \/ /\ Matching(s) = {}
     /\ store[id] = NoDoc /\ ~Announcing(id)
     /\ Call({[id |-> id, before |-> NoDoc, after |-> doc]})
     /\ store' = [store EXCEPT ![id] = doc]

(* collection::remove, which is a query with the modifier $dropall.        *)
remove(s) ==
  LET ids == Matching(s)
      new == [id \in Id |-> IF id \in ids THEN NoDoc ELSE store[id]]
  IN  /\ Call(Changes(ids, new))
      /\ store' = new

(* collection::track and the constructor of live_query: connect to the     *)
(* signals, then find.                                                     *)
track(q, s) ==
  /\ UserRuns
  /\ "conflict" \in Licence \/ \A d \in Depth : frames[d].todo = {}
  /\ q \notin tracked
  /\ \A p \in Query : p < q => p \in tracked
  /\ selector' = [selector EXCEPT ![q] = s]
  /\ results' = [results EXCEPT ![q] = [id \in Id |-> Shown(s, id, store[id])]]
  /\ rebuilt' = [rebuilt EXCEPT ![q] =
                   [id \in Id |-> IF match(s, id, store[id]) THEN store[id] ELSE NoDoc]]
  /\ UNCHANGED <<store, frames, depth, missed, undefined>>

-----------------------------------------------------------------------------
Top == frames[depth]
SetTop(f) == frames' = [frames EXCEPT ![depth] = f]
Running == ~undefined /\ depth > 0

(* Mutant of Emit: the loop does not move on. *)
Emit_Repeats ==
  /\ Running
  /\ Top.slots = {}
  /\ \E e \in Top.todo :
       SetTop([Top EXCEPT !.event = e, !.slots = tracked, !.inCallback = FALSE])
  /\ UNCHANGED <<store, selector, results, rebuilt, depth, missed, undefined>>

(* The call turns to its next document; the signal will call the slots     *)
(* connected by now.                                                       *)
Emit ==
  /\ Running
  /\ Top.slots = {}
  /\ \E e \in Top.todo :
       SetTop([Top EXCEPT !.todo = Top.todo \ {e}, !.event = e, !.slots = tracked,
                          !.inCallback = FALSE])
  /\ UNCHANGED <<store, selector, results, rebuilt, depth, missed, undefined>>

(* The slot of live query q runs next: slots run in order of connection.   *)
NextSlot(q) == Running /\ q \in Top.slots /\ \A p \in Top.slots : q <= p

(* The slot has run; afterwards user callbacks run if it notified them.    *)
SlotDone(q, notified) ==
  /\ SetTop([Top EXCEPT !.slots = Top.slots \ {q}, !.inCallback = notified])
  /\ UNCHANGED <<store, selector, depth, missed>>

DeliverAdded(q) ==
  LET e == Top.event
      s == selector[q]
  IN  /\ NextSlot(q)
      /\ e.before = NoDoc
      /\ results' = [results EXCEPT ![q][e.id] = document_added(@, s, e.id, e.after)]
      /\ rebuilt' = [rebuilt EXCEPT ![q][e.id] = IF match(s, e.id, e.after) THEN e.after ELSE @]
      /\ SlotDone(q, match(s, e.id, e.after))
      /\ UNCHANGED undefined

DeliverRemoved(q) ==
  LET e == Top.event
      s == selector[q]
  IN  /\ NextSlot(q)
      /\ e.after = NoDoc
      /\ results' = [results EXCEPT ![q][e.id] = document_removed(@, s, e.id, e.before)]
      /\ rebuilt' = [rebuilt EXCEPT ![q][e.id] = IF match(s, e.id, e.before) THEN NoDoc ELSE @]
      /\ SlotDone(q, match(s, e.id, e.before))
      /\ UNCHANGED undefined

(* A change always ends with _updated_sig, also when it does not concern   *)
(* the query.                                                              *)
DeliverChanged(q) ==
  LET e == Top.event
      s == selector[q]
  IN  /\ NextSlot(q)
      /\ e.before # NoDoc /\ e.after # NoDoc
      /\ IF ReplacesPastEnd(results[q][e.id], s, e.id, e.before, e.after)
         THEN /\ undefined' = TRUE
              /\ UNCHANGED <<results, rebuilt>>
         ELSE /\ results' = [results EXCEPT
                   ![q][e.id] = document_changed(@, s, e.id, e.before, e.after)]
              /\ rebuilt' = [rebuilt EXCEPT
                   ![q][e.id] = NotifiedOfChange(@, s, e.id, e.before, e.after)]
              /\ UNCHANGED undefined
      /\ SlotDone(q, TRUE)

PopFrame ==
  /\ frames' = [frames EXCEPT ![depth] = IdleFrame]
  /\ depth' = depth - 1
  /\ UNCHANGED <<store, selector, results, rebuilt, undefined>>

(* Mutant of Return: the loop is left after the first document. *)
Return_Early == Running /\ Top.slots = {} /\ PopFrame /\ UNCHANGED missed

(* Everything is announced: the call returns to user code. *)
Return ==
  /\ Running
  /\ Top.todo = {} /\ Top.slots = {}
  /\ PopFrame
  /\ UNCHANGED missed

(* What live query q still has to hear of the call at nesting d. *)
Unheard(q, d) ==
  frames[d].todo \cup (IF q \in frames[d].slots THEN {frames[d].event} ELSE {})

(* The documents that q will not hear of if the top call ends now. *)
Abandoned(q) == IF q \in tracked THEN {e.id : e \in Unheard(q, depth)} ELSE {}

(***************************************************************************)
(* An exception of a callback leaves the call: the slots that the signal   *)
(* has not called and the documents that the loop has not come to are      *)
(* skipped, while the store keeps the write.  collection::insert lets      *)
(* every runtime_error pass, collection::query every ejdb_exception, such  *)
(* as that of an insert nested in the callback whose _id is not valid; any *)
(* other exception ends the process.  The listener that `rebuilt' stands   *)
(* for is the first slot of its live query, and not the one that throws.   *)
(***************************************************************************)
Throw ==
  /\ "throw" \in Licence
  /\ Running
  /\ Top.inCallback
  /\ \A q \in Query : \A id \in Abandoned(q) : Len(results[q][id]) <= MaxCopies
  /\ missed' = [q \in Query |-> missed[q] \cup Abandoned(q)]
  /\ PopFrame

-----------------------------------------------------------------------------
UserCall ==
  \/ \E id \in Id, doc \in Documents : insert(id, doc)
  \/ \E s \in Selectors, m \in Modifiers : update(s, m)
  \/ \E s \in Selectors, id \in Id, doc \in Documents : upsert(s, id, doc)
  \/ \E s \in Selectors : remove(s)
  \/ \E q \in Query, s \in Selectors : track(q, s)

Progress ==
  \/ Emit
  \/ \E q \in Query : DeliverAdded(q) \/ DeliverChanged(q) \/ DeliverRemoved(q)
  \/ Return

Next == UserCall \/ Progress \/ Throw

Spec == Init /\ [][Next]_vars

(***************************************************************************)
(* A user callback returns: whenever a call at nesting d can go on again   *)
(* and again, it does.  A callback that writes for ever starves the call   *)
(* it was made from; strong fairness excludes it, and nothing else.        *)
(***************************************************************************)
FairSpec == Spec /\ \A d \in Depth : SF_vars(Progress /\ depth = d)

-----------------------------------------------------------------------------
AllUnheard(q) == UNION {Unheard(q, d) : d \in Depth}

Current(q, id) == \A d \in Depth : \A e \in Unheard(q, d) : e.id # id

(***************************************************************************)
(* The store as live query q knows it: documents it has not heard of yet   *)
(* are as they were before the call that wrote them.                       *)
(***************************************************************************)
Known(q) ==
  [id \in Id |->
     IF Current(q, id) THEN store[id]
     ELSE (CHOOSE e \in AllUnheard(q) : e.id = id).before]

(* What q shows of a document; NoDoc if it shows none. *)
FirstCopy(q, id) == IF results[q][id] = <<>> THEN NoDoc ELSE results[q][id][1]

(***************************************************************************)
(* When no write is in progress the data of every live query is what find  *)
(* returns for its selector: every matching document once, and no other    *)
(* (live_query.cpp:68-112 against collection.cpp:100-103).  An exception   *)
(* out of a callback spoils no document but those it kept the query from   *)
(* hearing of (collection.cpp:110,158).                                    *)
(***************************************************************************)
ViewsMirrorStore ==
  depth = 0 /\ ~undefined =>
    \A q \in tracked : \A id \in Id \ missed[q] :
      results[q][id] = Shown(selector[q], id, store[id])

(***************************************************************************)
(* live_query::document_changed finds the document it replaces: find_if    *)
(* (live_query.cpp:83) never returns the end iterator that the assignment  *)
(* then writes through.                                                    *)
(***************************************************************************)
ReplaceFindsDocument == ~undefined

(***************************************************************************)
(* A user who starts from data() and applies the document notifications of *)
(* a live query, changed fields and cleared fields included, holds the     *)
(* same documents as data() after every notification                       *)
(* (live_query.cpp:53-66, collection.cpp:298-310).                         *)
(***************************************************************************)
EventsRebuildResults ==
  ~undefined => \A q \in tracked : \A id \in Id \ missed[q] :
                  rebuilt[q][id] = FirstCopy(q, id) /\ Len(results[q][id]) <= 1

(***************************************************************************)
(* A live query never moves to an outdated version of a document: a step   *)
(* that changes what it shows of a document shows the stored state.        *)
(***************************************************************************)
ViewChangeIsCurrent ==
  \A q \in tracked, id \in Id :
    results'[q][id] # results[q][id] => results'[q][id] = Shown(selector[q], id, store[id])

ViewChangesAreCurrent == [][ViewChangeIsCurrent]_vars

(* Every call returns, or is left by an exception, if user callbacks       *)
(* return (collection.cpp:213-233); only what an exception kept from a     *)
(* live query can lead to a write through end() instead.                   *)
CallsReturn == depth > 0 ~> depth = 0 \/ undefined

(* The collection and its live queries keep the promise of LiveView. *)
KnownVersions == [q \in Query |-> IF q \in tracked THEN Known(q) ELSE store]
ShownVersions == [q \in Query |-> [id \in Id |-> FirstCopy(q, id)]]

LV == INSTANCE LiveView WITH
        Queries <- Query, MaxCalls <- MaxDepth, db <- store, calls <- depth,
        version <- KnownVersions, view <- ShownVersions

ImplementsLiveView == LV!Spec

-----------------------------------------------------------------------------
(* The inductive invariant, for users who take no liberty but exceptions.  *)

Disciplined == Licence \subseteq {"throw"}

(* Unfinished calls are where the stack is, and an idle frame is empty. *)
StackShape ==
  \A d \in Depth :
    /\ d > depth => frames[d] = IdleFrame
    /\ frames[d].slots # {} => frames[d].event \in Event
    /\ frames[d].slots \subseteq tracked

(* No two unfinished announcements are of the same document. *)
AnnouncementsDistinct ==
  /\ \A d1, d2 \in Depth : \A e1 \in Unfinished(d1), e2 \in Unfinished(d2) :
       e1.id = e2.id => d1 = d2 /\ e1 = e2
  /\ \A d \in Depth : frames[d].slots # {} => frames[d].event \notin frames[d].todo

(* An unfinished announcement still tells of the current state. *)
AnnouncementsCurrent ==
  \A d \in Depth : \A e \in Unfinished(d) : e.after = store[e.id]

(* A live query shows the matching part of the store as it knows it, but   *)
(* for the documents an exception kept from it.                            *)
ViewsShowKnown ==
  \A q \in tracked :
    /\ \A id \in Id \ missed[q] :
         Current(q, id) => results[q][id] = Shown(selector[q], id, store[id])
    /\ \A d \in Depth : \A e \in Unheard(q, d) :
         e.id \notin missed[q] => results[q][e.id] = Shown(selector[q], e.id, e.before)

(* Only exceptions keep announcements from live queries, and only after    *)
(* one does find_if miss the document to replace.                          *)
OnlyThrowsSkip ==
  /\ "throw" \notin Licence => \A q \in Query : missed[q] = {}
  /\ undefined => \E q \in Query : missed[q] # {}

IInv ==
  /\ TypeOK
  /\ StackShape
  /\ AnnouncementsDistinct
  /\ AnnouncementsCurrent
  /\ ViewsShowKnown
  /\ EventsRebuildResults
  /\ OnlyThrowsSkip
=============================================================================
