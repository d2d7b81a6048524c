------------------------------- MODULE LiveView -------------------------------
(***************************************************************************)
(* What a collection promises to the live queries that track it.           *)
(*                                                                         *)
(* Each live query has a version of the database of its own, and its data  *)
(* is always exactly the matching part of that version.  A write changes   *)
(* the database under the live queries; they catch up with it one document *)
(* at a time, straight to the current state of the document, and all have  *)
(* caught up when no write is in progress.                                 *)
(***************************************************************************)
EXTENDS Documents

CONSTANTS Queries, NoSelector, MaxCalls

VARIABLES
  db,        \* the database
  selector,  \* the selector of each live query, NoSelector before it exists
  version,   \* the database as each live query has been told of it
  view,      \* the data of each live query
  calls      \* the writes in progress

viewVars == <<db, selector, version, view, calls>>

Exists(q) == selector[q] # NoSelector

Select(s, v) == [id \in Id |-> IF match(s, id, v[id]) THEN v[id] ELSE NoDoc]

Init ==
  /\ db = [id \in Id |-> NoDoc]
  /\ selector = [q \in Queries |-> NoSelector]
  /\ version = [q \in Queries |-> db]
  /\ view = [q \in Queries |-> db]
  /\ calls = 0

(* A live query is created with the current database. *)
Track(q, s) ==
  /\ ~Exists(q)
  /\ selector' = [selector EXCEPT ![q] = s]
  /\ version' = [version EXCEPT ![q] = db]
  /\ view' = [view EXCEPT ![q] = Select(s, db)]
  /\ UNCHANGED <<db, calls>>

(* A write changes documents whose current state everybody knows of. *)
Write ==
  /\ calls < MaxCalls
  /\ calls' = calls + 1
  /\ db' \in [Id -> Stored]
  /\ \A q \in Queries, id \in Id :
       Exists(q) /\ db'[id] # db[id] => version[q][id] = db[id]
  /\ version' = [q \in Queries |-> IF Exists(q) THEN version[q] ELSE db']
  /\ UNCHANGED <<selector, view>>

(* A live query learns of the current state of one document. *)
CatchUp(q, id) ==
  /\ Exists(q)
  /\ calls > 0
  /\ version' = [version EXCEPT ![q][id] = db[id]]
  /\ view' = [view EXCEPT ![q] = Select(selector[q], version'[q])]
  /\ UNCHANGED <<db, selector, calls>>

(* The last write returns when everybody has caught up. *)
Finish ==
  /\ calls > 0
  /\ calls = 1 => \A q \in Queries : Exists(q) => version[q] = db
  /\ calls' = calls - 1
  /\ UNCHANGED <<db, selector, version, view>>

Next ==
  \/ \E q \in Queries, s \in Selector : Track(q, s)
  \/ Write
  \/ \E q \in Queries, id \in Id : CatchUp(q, id)
  \/ Finish

Spec == Init /\ [][Next]_viewVars
=============================================================================
