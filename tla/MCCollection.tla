---------------------------- MODULE MCCollection ----------------------------
(***************************************************************************)
(* Small instances of Collection: one field with two values (or absent),   *)
(* queries for everything and for one value, updates that move documents   *)
(* into and out of the second query, and selectors for one _id.            *)
(***************************************************************************)
EXTENDS Collection

NoFields == [f \in {} |-> 0]
With(f, v) == [g \in {f} |-> v]

MCDocuments == {NoFields} \cup {With(f, 1) : f \in Field}

MCFull == {With(f, 1) : f \in Field}

Everything == [ids |-> Id, example |-> NoFields]
MCSelectors ==
  {Everything} \cup {[ids |-> Id, example |-> With(f, 1)] : f \in Field}

MCSelectorsAndIds ==
  MCSelectors \cup {[ids |-> {id}, example |-> NoFields] : id \in Id}

MCModifiers ==
  {[set |-> With(f, v), unset |-> {}] : f \in Field, v \in Value}
    \cup {[set |-> NoFields, unset |-> {f}] : f \in Field}
=============================================================================
