---------------------------- MODULE MCDdpCollection ----------------------------
(***************************************************************************)
(* Small instances of DdpCollection: documents with one field, or with two *)
(* where that makes the difference, and no more than three documents, of   *)
(* which the client writes the ones in Own.                                *)
(***************************************************************************)
EXTENDS DdpCollection

CONSTANTS f, g, v1, v2, o1, o2, x

With(v) == [h \in {f} |-> v]
Blank == [h \in {} |-> v1]

MCDocuments == {With(v1), With(v2)}
MCModifiers == {[set |-> With(v2), unset |-> {}], [set |-> Blank, unset |-> {f}]}

(* Modifiers of which one is about the other field. *)
MCModifiersTwo == MCModifiers \cup {[set |-> [h \in {g} |-> v1], unset |-> {}]}

(* The server starts with a document of another client, or also with the   *)
(* first one of this client.                                               *)
MCContents ==
  {[id \in Id |-> IF id = x THEN With(v1) ELSE NoDoc],
   [id \in Id |-> IF id \in {o1, x} THEN With(v1) ELSE NoDoc]}
=============================================================================
