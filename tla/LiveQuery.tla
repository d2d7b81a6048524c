------------------------------ MODULE LiveQuery ------------------------------
(***************************************************************************)
(* The handlers of class live_query, as pure operators.                    *)
(*                                                                         *)
(* live_query::_results is a JSON array.  Every handler works on the       *)
(* elements of one _id only (push_back, find_if and remove_if by _id), so  *)
(* the array is kept as a function from Id to the sequence of the copies   *)
(* of that document, in array order; the order between different           *)
(* documents is left out.  The operators take and return the copies of one *)
(* document, for a query with selector s.                                  *)
(***************************************************************************)
EXTENDS Documents, Sequences

(* The copies of a document that a query with selector s should hold. *)
Shown(s, id, doc) == IF match(s, id, doc) THEN <<doc>> ELSE <<>>

-----------------------------------------------------------------------------
(* Mutants of the handlers: the new document is matched the wrong way      *)
(* round; a document that leaves the query is replaced, not erased; an     *)
(* erased document leaves a blank or is not erased at all.                 *)
document_added_Inverted(copies, s, id, doc) ==
  IF match(s, id, doc) THEN copies ELSE Append(copies, doc)

document_changed_IgnoresNew(copies, s, id, before, after) ==
  CASE match(s, id, before) -> [copies EXCEPT ![1] = after]
    [] ~match(s, id, before) /\ match(s, id, after) -> Append(copies, after)
    [] OTHER -> copies

document_removed_Blanks(copies, s, id, doc) ==
  IF match(s, id, doc) THEN [copies EXCEPT ![1] = NoDoc] ELSE copies

document_removed_Keeps(copies, s, id, doc) == copies

(* live_query::document_added *)
document_added(copies, s, id, doc) ==
  IF match(s, id, doc) THEN Append(copies, doc) ELSE copies

(* live_query::document_changed.  The first case replaces the element that *)
(* find_if returns; without one the code writes through end(), see         *)
(* ReplacesPastEnd.                                                        *)
document_changed(copies, s, id, before, after) ==
  CASE match(s, id, before) /\ match(s, id, after) -> [copies EXCEPT ![1] = after]
    [] match(s, id, before) /\ ~match(s, id, after) -> <<>>
    [] ~match(s, id, before) /\ match(s, id, after) -> Append(copies, after)
    [] OTHER -> copies

(* live_query::document_removed *)
document_removed(copies, s, id, doc) ==
  IF match(s, id, doc) THEN <<>> ELSE copies

(* *std::find_if(...) = after with no element of that _id: the behaviour   *)
(* of the program is undefined from here on.                               *)
ReplacesPastEnd(copies, s, id, before, after) ==
  match(s, id, before) /\ match(s, id, after) /\ copies = <<>>

(***************************************************************************)
(* What a user who only listens to on_document_added, on_document_changed  *)
(* and on_document_removed makes of the notification of a change: `held'   *)
(* is the version of the document the user holds.                          *)
(***************************************************************************)
NotifiedOfChange(held, s, id, before, after) ==
  CASE match(s, id, before) /\ match(s, id, after) ->
         IF held = NoDoc THEN NoDoc
                         ELSE Apply(AsModifier(modified_fields(before, after)), held)
    [] match(s, id, before) /\ ~match(s, id, after) -> NoDoc
    [] ~match(s, id, before) /\ match(s, id, after) -> after
    [] OTHER -> held
=============================================================================
