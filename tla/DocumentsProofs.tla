--------------------------- MODULE DocumentsProofs ---------------------------
(***************************************************************************)
(* What the operations on documents compute, for every document.           *)
(***************************************************************************)
EXTENDS Documents, TLAPS

(* A document is a function from some of the fields to values. *)
LEMMA DocForm ==
  ASSUME NEW d \in Doc
  PROVE  d \in [DOMAIN d -> Value] /\ DOMAIN d \in SUBSET Field
<1>1. PICK F \in SUBSET Field : d \in [F -> Value]
  BY DEF Doc
<1>2. QED
  BY <1>1

LEMMA DocIntro ==
  ASSUME NEW F \in SUBSET Field, NEW d \in [F -> Value]
  PROVE  d \in Doc
BY DEF Doc

(* EJDB stores a document again when a modifier is applied to one. *)
LEMMA ApplyType ==
  ASSUME NEW m \in Modifier, NEW d \in Doc
  PROVE  Apply(m, d) \in Doc
<1> DEFINE F == (DOMAIN d \cup DOMAIN m.set) \ m.unset
<1>1. m.set \in Doc /\ m.unset \in SUBSET Field
  BY DEF Modifier
<1>2. /\ d \in [DOMAIN d -> Value] /\ DOMAIN d \in SUBSET Field
      /\ m.set \in [DOMAIN m.set -> Value] /\ DOMAIN m.set \in SUBSET Field
  BY <1>1, DocForm
<1>3. F \in SUBSET Field
  BY <1>1, <1>2
<1>4. Apply(m, d) \in [F -> Value]
  BY <1>2 DEF Apply
<1>5. QED
  BY <1>3, <1>4, DocIntro

(* The difference of two documents is a modifier. *)
LEMMA DifferenceType ==
  ASSUME NEW a \in Doc, NEW b \in Doc
  PROVE  AsModifier(modified_fields(a, b)) \in Modifier
<1> DEFINE G == {f \in DOMAIN b : f \notin DOMAIN a \/ a[f] # b[f]}
           g == [f \in G |-> b[f]]
<1>1. /\ a \in [DOMAIN a -> Value] /\ DOMAIN a \in SUBSET Field
      /\ b \in [DOMAIN b -> Value] /\ DOMAIN b \in SUBSET Field
  BY DocForm
<1>2. G \in SUBSET Field /\ g \in [G -> Value]
  BY <1>1
<1>3. g \in Doc
  BY <1>2, DocIntro
<1>4. DOMAIN a \ DOMAIN b \in SUBSET Field
  BY <1>1
<1>5. QED
  BY <1>3, <1>4 DEF AsModifier, modified_fields, Modifier

(***************************************************************************)
(* collection::modified_fields loses nothing: whoever holds the version a  *)
(* and sets the reported fields and unsets the cleared ones holds b        *)
(* (collection.cpp:298-310).                                               *)
(***************************************************************************)
THEOREM DifferenceRebuilds ==
  ASSUME NEW a \in Doc, NEW b \in Doc
  PROVE  Apply(AsModifier(modified_fields(a, b)), a) = b
<1> DEFINE G == {f \in DOMAIN b : f \notin DOMAIN a \/ a[f] # b[f]}
           g == [f \in G |-> b[f]]
           c == DOMAIN a \ DOMAIN b
           r == [f \in (DOMAIN a \cup DOMAIN g) \ c |-> IF f \in DOMAIN g THEN g[f] ELSE a[f]]
<1>1. Apply(AsModifier(modified_fields(a, b)), a) = r
  BY DEF Apply, AsModifier, modified_fields
<1>2. b \in [DOMAIN b -> Value]
  BY DocForm
<1>3. DOMAIN g = G
  OBVIOUS
<1>4. (DOMAIN a \cup G) \ c = DOMAIN b
  OBVIOUS
<1>5. \A f \in DOMAIN b : r[f] = b[f]
  BY <1>3, <1>4
<1>6. r = [f \in DOMAIN b |-> r[f]]
  BY <1>3, <1>4
<1>7. QED
  BY <1>1, <1>2, <1>5, <1>6
=============================================================================
