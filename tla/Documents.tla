------------------------------ MODULE Documents ------------------------------
(***************************************************************************)
(* The documents a collection stores, and the pure operations the code     *)
(* performs on them: matching a selector, applying a modifier, and the     *)
(* difference of two versions that collection::modified_fields computes.   *)
(*                                                                         *)
(* The `_id' of a document is kept apart from its other fields: a store    *)
(* maps identifiers to documents, and a document is a partial function     *)
(* from fields to values.  Only equality of values matters to the code.    *)
(***************************************************************************)
EXTENDS Naturals

CONSTANTS
  Id,     \* the identifiers (EJDB object ids) of documents
  Field,  \* the field names other than _id
  Value,  \* the JSON values of fields
  NoDoc   \* "no such document"

Doc == UNION {[F -> Value] : F \in SUBSET Field}

ASSUME NoDocAssumption == NoDoc \notin Doc

Stored == Doc \cup {NoDoc}

(* A modifier is the pair of objects {$set: ..., $unset: ...}. *)
Modifier == [set : Doc, unset : SUBSET Field]

(* A selector restricts the _id, asks for some field values, or both. *)
Selector == [ids : SUBSET Id, example : Doc]

(***************************************************************************)
(* EJDB's matching of a document: live_query::match asks the same question *)
(* of one document that collection::find asks of every stored one.  It is  *)
(* modelled by query by example, as the tests use it.                      *)
(***************************************************************************)
match(s, id, doc) ==
  /\ doc # NoDoc
  /\ id \in s.ids
  /\ \A f \in DOMAIN s.example : f \in DOMAIN doc /\ doc[f] = s.example[f]

(* The document EJDB stores after applying a modifier to doc. *)
Apply(m, doc) ==
  [f \in (DOMAIN doc \cup DOMAIN m.set) \ m.unset |->
     IF f \in DOMAIN m.set THEN m.set[f] ELSE doc[f]]

-----------------------------------------------------------------------------
(* Mutant of modified_fields: fields that b no longer has are forgotten.   *)
modified_fields_NoCleared(a, b) ==
  LET changed == {f \in DOMAIN b : f \notin DOMAIN a \/ a[f] # b[f]}
  IN  [fields |-> [f \in changed |-> b[f]], cleared |-> {}]

(***************************************************************************)
(* collection::modified_fields(a, b): the (field, value) pairs of b that   *)
(* are not pairs of a, and the fields of a that b does not have.           *)
(***************************************************************************)
modified_fields(a, b) ==
  LET changed == {f \in DOMAIN b : f \notin DOMAIN a \/ a[f] # b[f]}
  IN  [fields |-> [f \in changed |-> b[f]], cleared |-> DOMAIN a \ DOMAIN b]

(* The modifier that a receiver of a change notification applies.          *)
AsModifier(diff) == [set |-> diff.fields, unset |-> diff.cleared]
=============================================================================
