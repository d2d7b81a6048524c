------------------------------ MODULE FoldProofs ------------------------------
(***************************************************************************)
(* Induction over the natural numbers, and what it says of folds: whatever *)
(* the sequence, a fold of the community modules follows the path that its *)
(* initial value takes through the elements.                               *)
(***************************************************************************)
EXTENDS SequencesExt, SequenceTheorems, WellFoundedInduction, TLAPS

-----------------------------------------------------------------------------
(* Induction, for a set of numbers. *)
LEMMA SetInduction ==
  ASSUME NEW T, 0 \in T, \A n \in Nat : n \in T => n + 1 \in T
  PROVE  Nat \subseteq T
<1> DEFINE U == Nat \ T
           R == {ss \in Nat \X Nat : ss[1] < ss[2]}
<1>1. SUFFICES ASSUME U # {} PROVE FALSE
  OBVIOUS
<1>2. IsWellFoundedOn(R, Nat)
  BY NatLessThanWellFounded DEF OpToRel
<1>3. \E x \in U : \A y \in U : ~ (<<y, x>> \in R)
  <2> HIDE DEF U, R
  <2>1. U \subseteq Nat
    BY DEF U
  <2>2. QED BY <1>1, <1>2, <2>1, WFMin
<1>4. PICK x \in U : \A y \in U : ~(y < x)
  BY <1>3
<1>5. x # 0
  OBVIOUS
<1>6. x - 1 \in Nat /\ x - 1 \notin U
  BY <1>4, <1>5
<1>7. QED
  BY <1>6

LEMMA MaxIs ==
  ASSUME NEW k \in Nat, NEW S, S \subseteq 1 .. k + 1, k + 1 \in S
  PROVE  Max(S) = k + 1
<1>1. \A y \in S : k + 1 >= y
  OBVIOUS
<1>2. \A x \in S : (\A y \in S : x >= y) => x = k + 1
  <2>1. S \subseteq Int
    OBVIOUS
  <2>2. QED
    BY <2>1
<1>3. QED
  BY <1>1, <1>2 DEF Max

LEMMA MaxIn ==
  ASSUME NEW n \in Nat, NEW S, S \subseteq 1 .. n, S # {}
  PROVE  Max(S) \in S
<1> DEFINE T == {k \in Nat : k <= n => \A R \in SUBSET (1 .. k) : R # {} => Max(R) \in R}
<1>1. 0 \in T
  <2>1. 1 .. 0 = {}
    OBVIOUS
  <2>2. QED
    BY <2>1
<1>2. ASSUME NEW k \in Nat, k \in T PROVE k + 1 \in T
  <2>1. SUFFICES ASSUME k + 1 <= n, NEW R \in SUBSET (1 .. k + 1), R # {} PROVE Max(R) \in R
    OBVIOUS
  <2>2. CASE k + 1 \in R
    BY <2>2, MaxIs
  <2>3. CASE k + 1 \notin R
    <3>1. R \in SUBSET (1 .. k)
      BY <2>3
    <3>2. QED
      BY <1>2, <2>1, <3>1
  <2>4. QED
    BY <2>2, <2>3
<1>3. n \in T
  <2> HIDE DEF T
  <2>1. QED
    BY <1>1, <1>2, SetInduction
<1>4. QED
  BY <1>3

(* The folds of the community modules recurse on sets of numbers, taking   *)
(* out the greatest: g[S] applies H[i] for every i in S, in their order.   *)
Iterates(H, X, base, n, g) ==
  /\ g \in [SUBSET (1 .. n) -> X]
  /\ \A S \in SUBSET (1 .. n) :
       g[S] = IF S = {} THEN base ELSE H[Max(S)][g[S \ {Max(S)}]]

LEMMA Iteration ==
  ASSUME NEW n \in Nat, NEW X, NEW base \in X, NEW H \in [1 .. n -> [X -> X]]
  PROVE  \E g : Iterates(H, X, base, n, g)
<1> DEFINE Good(k, g) == \A S \in SUBSET (1 .. k) :
                           g[S] = IF S = {} THEN base ELSE H[Max(S)][g[S \ {Max(S)}]]
           T == {k \in Nat : k <= n => \E g \in [SUBSET (1 .. k) -> X] : Good(k, g)}
<1>1. 0 \in T
  <2>1. [S \in SUBSET (1 .. 0) |-> base] \in [SUBSET (1 .. 0) -> X]
    OBVIOUS
  <2>2. \A S \in SUBSET (1 .. 0) : S = {}
    OBVIOUS
  <2>3. Good(0, [S \in SUBSET (1 .. 0) |-> base])
    BY <2>2
  <2>4. QED
    BY <2>1, <2>3
<1>2. ASSUME NEW k \in Nat, k \in T PROVE k + 1 \in T
  <2>1. SUFFICES ASSUME k + 1 <= n
                 PROVE  \E g \in [SUBSET (1 .. k + 1) -> X] : Good(k + 1, g)
    <3>1. k + 1 \in Nat
      OBVIOUS
    <3> HIDE DEF Good
    <3>2. QED
      BY <3>1, Zenon
  <2>2. PICK g \in [SUBSET (1 .. k) -> X] : Good(k, g)
    <3>1. k <= n
      BY <2>1
    <3> HIDE DEF Good
    <3>2. QED
      BY <1>2, <3>1
  <2> DEFINE h == [S \in SUBSET (1 .. k + 1) |->
                     IF k + 1 \in S THEN H[k + 1][g[S \ {k + 1}]] ELSE g[S]]
  <2>3. \A S \in SUBSET (1 .. k + 1) : S \ {k + 1} \in SUBSET (1 .. k)
    OBVIOUS
  <2>4. \A S \in SUBSET (1 .. k + 1) : k + 1 \notin S => S \in SUBSET (1 .. k)
    OBVIOUS
  <2>5. H[k + 1] \in [X -> X]
    BY <2>1
  <2>6. h \in [SUBSET (1 .. k + 1) -> X]
    BY <2>2, <2>3, <2>4, <2>5
  <2>7. ASSUME NEW S \in SUBSET (1 .. k + 1)
        PROVE  h[S] = IF S = {} THEN base ELSE H[Max(S)][h[S \ {Max(S)}]]
    <3>1. CASE k + 1 \in S
      <4>1. Max(S) = k + 1
        BY <3>1, MaxIs
      <4>2. h[S] = H[k + 1][g[S \ {k + 1}]]
        BY <3>1
      <4>3. h[S \ {k + 1}] = g[S \ {k + 1}]
        BY <2>3
      <4>4. QED
        BY <3>1, <4>1, <4>2, <4>3
    <3>2. CASE k + 1 \notin S
      <4>1. S \in SUBSET (1 .. k) /\ h[S] = g[S]
        BY <2>4, <3>2
      <4>2. S \ {Max(S)} \in SUBSET (1 .. k + 1) /\ k + 1 \notin S \ {Max(S)}
        BY <3>2
      <4>3. h[S \ {Max(S)}] = g[S \ {Max(S)}]
        BY <4>2
      <4>4. g[S] = IF S = {} THEN base ELSE H[Max(S)][g[S \ {Max(S)}]]
        BY <4>1, <2>2
      <4>5. QED
        BY <4>1, <4>3, <4>4
    <3>3. QED
      BY <3>1, <3>2
  <2> HIDE DEF h
  <2>8. QED
    BY <2>6, <2>7
<1>3. n \in T
  <2> HIDE DEF T
  <2>1. QED
    BY <1>1, <1>2, SetInduction
<1>4. \E g \in [SUBSET (1 .. n) -> X] : Good(n, g)
  <2>1. n <= n
    OBVIOUS
  <2> HIDE DEF Good
  <2>2. QED
    BY <1>3, <2>1, Zenon
<1>5. PICK g \in [SUBSET (1 .. n) -> X] : Good(n, g)
  BY <1>4
<1>6. Iterates(H, X, base, n, g)
  BY <1>5 DEF Iterates
<1>7. QED
  BY <1>6
-----------------------------------------------------------------------------
(* What a queue of messages makes of a document, if F[m] is what message m *)
(* makes of it: v[i] is the document after the first i messages.           *)
Path(F, X, doc, q, v) ==
  /\ v \in [0 .. Len(q) -> X] /\ v[0] = doc
  /\ \A i \in 1 .. Len(q) : v[i] = F[q[i]][v[i - 1]]

Through(F, X, doc, q) == (CHOOSE v : Path(F, X, doc, q, v))[Len(q)]

LEMMA PathExists ==
  ASSUME NEW X, NEW M, NEW F \in [M -> [X -> X]], NEW doc \in X, NEW q \in Seq(M)
  PROVE  \E v : Path(F, X, doc, q, v)
<1> DEFINE Prefix(k, v) == /\ v \in [0 .. k -> X] /\ v[0] = doc
                           /\ \A i \in 1 .. k : v[i] = F[q[i]][v[i - 1]]
           T == {k \in Nat : k <= Len(q) => \E v : Prefix(k, v)}
<1>1. 0 \in T
  <2> DEFINE v == [i \in 0 .. 0 |-> doc]
  <2>1. Prefix(0, v)
    OBVIOUS
  <2> HIDE DEF v
  <2>2. QED
    BY <2>1
<1>2. ASSUME NEW k \in Nat, k \in T PROVE k + 1 \in T
  <2>1. SUFFICES ASSUME k + 1 <= Len(q) PROVE \E v : Prefix(k + 1, v)
    <3>1. k + 1 \in Nat
      OBVIOUS
    <3> HIDE DEF Prefix
    <3>2. QED
      BY <3>1, Zenon
  <2>2. PICK v : Prefix(k, v)
    <3>1. k <= Len(q)
      BY <2>1, LenProperties
    <3> HIDE DEF Prefix
    <3>2. QED
      BY <1>2, <3>1, Zenon
  <2> DEFINE w == [i \in 0 .. k + 1 |-> IF i <= k THEN v[i] ELSE F[q[k + 1]][v[k]]]
  <2>3. q[k + 1] \in M
    BY <2>1, ElementOfSeq
  <2>4. F[q[k + 1]][v[k]] \in X
    BY <2>2, <2>3
  <2>5. w \in [0 .. k + 1 -> X] /\ w[0] = doc
    BY <2>2, <2>4
  <2>6. ASSUME NEW i \in 1 .. k + 1 PROVE w[i] = F[q[i]][w[i - 1]]
    BY <2>2
  <2>7. Prefix(k + 1, w)
    BY <2>5, <2>6
  <2> HIDE DEF w
  <2>8. QED
    BY <2>7
<1>3. Len(q) \in Nat /\ Len(q) <= Len(q)
  BY LenProperties
<1>4. Len(q) \in T
  <2> HIDE DEF T
  <2>1. QED
    BY <1>1, <1>2, <1>3, SetInduction
<1>5. \E v : Prefix(Len(q), v)
  <2> HIDE DEF Prefix
  <2>1. QED
    BY <1>3, <1>4, Zenon
<1>6. QED
  BY <1>5 DEF Path

LEMMA PathUnique ==
  ASSUME NEW X, NEW M, NEW F \in [M -> [X -> X]], NEW doc \in X, NEW q \in Seq(M),
         NEW v, NEW w, Path(F, X, doc, q, v), Path(F, X, doc, q, w)
  PROVE  v[Len(q)] = w[Len(q)]
<1> DEFINE T == {k \in Nat : k <= Len(q) => v[k] = w[k]}
<1>1. 0 \in T
  BY DEF Path
<1>2. ASSUME NEW k \in Nat, k \in T PROVE k + 1 \in T
  <2>1. SUFFICES ASSUME k + 1 <= Len(q) PROVE v[k + 1] = w[k + 1]
    OBVIOUS
  <2>2. v[k] = w[k]
    BY <1>2, <2>1, LenProperties
  <2>3. v[k + 1] = F[q[k + 1]][v[k + 1 - 1]] /\ w[k + 1] = F[q[k + 1]][w[k + 1 - 1]]
    BY <2>1, LenProperties DEF Path
  <2>4. QED
    BY <2>2, <2>3
<1>3. Len(q) \in Nat
  BY LenProperties
<1>4. Len(q) \in T
  <2> HIDE DEF T
  <2>1. QED
    BY <1>1, <1>2, <1>3, SetInduction
<1>5. QED
  BY <1>3, <1>4

LEMMA ThroughIs ==
  ASSUME NEW X, NEW M, NEW F \in [M -> [X -> X]], NEW doc \in X, NEW q \in Seq(M),
         NEW v, Path(F, X, doc, q, v)
  PROVE  Through(F, X, doc, q) = v[Len(q)]
<1>1. Path(F, X, doc, q, CHOOSE w : Path(F, X, doc, q, w))
  OBVIOUS
<1>2. QED
  BY <1>1, PathUnique DEF Through

LEMMA ThroughPath ==
  ASSUME NEW X, NEW M, NEW F \in [M -> [X -> X]], NEW doc \in X, NEW q \in Seq(M)
  PROVE  \E v : Path(F, X, doc, q, v) /\ Through(F, X, doc, q) = v[Len(q)]
BY PathExists, ThroughIs

LEMMA ThroughType ==
  ASSUME NEW X, NEW M, NEW F \in [M -> [X -> X]], NEW doc \in X, NEW q \in Seq(M)
  PROVE  Through(F, X, doc, q) \in X
BY ThroughPath, LenProperties DEF Path

LEMMA ThroughNothing ==
  ASSUME NEW X, NEW M, NEW F \in [M -> [X -> X]], NEW doc \in X
  PROVE  Through(F, X, doc, <<>>) = doc
<1> DEFINE q == <<>>
<1>1. q \in Seq(M)
  OBVIOUS
<1>0. Len(q) = 0
  OBVIOUS
<1> HIDE DEF q
<1>2. PICK v : Path(F, X, doc, q, v) /\ Through(F, X, doc, q) = v[Len(q)]
  BY <1>1, ThroughPath
<1>3. Through(F, X, doc, q) = doc
  BY <1>0, <1>1, <1>2 DEF Path
<1>4. QED
  BY <1>3 DEF q

LEMMA ThroughConcat ==
  ASSUME NEW X, NEW M, NEW F \in [M -> [X -> X]], NEW doc \in X, NEW q \in Seq(M),
         NEW r \in Seq(M)
  PROVE  Through(F, X, doc, q \o r) = Through(F, X, Through(F, X, doc, q), r)
<1> DEFINE mid == Through(F, X, doc, q)
<1>1. PICK v : Path(F, X, doc, q, v) /\ mid = v[Len(q)]
  BY ThroughPath
<1>2. mid \in X
  BY ThroughType
<1> HIDE DEF mid
<1>3. PICK w : Path(F, X, mid, r, w) /\ Through(F, X, mid, r) = w[Len(r)]
  BY <1>2, ThroughPath
<1> DEFINE u == [i \in 0 .. Len(q) + Len(r) |-> IF i <= Len(q) THEN v[i] ELSE w[i - Len(q)]]
<1>4. Len(q) \in Nat /\ Len(r) \in Nat
  BY LenProperties
<1>5. q \o r \in Seq(M) /\ Len(q \o r) = Len(q) + Len(r)
  BY ConcatProperties
<1>6. u \in [0 .. Len(q) + Len(r) -> X] /\ u[0] = doc
  BY <1>1, <1>3, <1>4 DEF Path
<1>7. ASSUME NEW i \in 1 .. Len(q) + Len(r) PROVE u[i] = F[(q \o r)[i]][u[i - 1]]
  <2>1. CASE i <= Len(q)
    BY <1>1, <1>4, <2>1, ConcatProperties DEF Path
  <2>2. CASE i > Len(q)
    <3>1. (q \o r)[i] = r[i - Len(q)] /\ i - Len(q) \in 1 .. Len(r)
      BY <1>4, <2>2, ConcatProperties
    <3>2. w[i - Len(q)] = F[r[i - Len(q)]][w[i - Len(q) - 1]]
      BY <1>3, <3>1 DEF Path
    <3>3. u[i - 1] = w[i - Len(q) - 1]
      <4>1. CASE i - 1 = Len(q)
        <5>1. u[i - 1] = v[Len(q)] /\ i - Len(q) - 1 = 0
          BY <1>4, <4>1
        <5>2. QED
          BY <1>1, <1>3, <5>1 DEF Path
      <4>2. CASE i - 1 # Len(q)
        <5>1. i - 1 \in 0 .. Len(q) + Len(r) /\ ~(i - 1 <= Len(q))
          BY <1>4, <2>2, <4>2
        <5>2. i - 1 - Len(q) = i - Len(q) - 1
          BY <1>4
        <5>3. QED
          BY <5>1, <5>2
      <4>3. QED
        BY <4>1, <4>2
    <3>4. QED
      BY <1>4, <2>2, <3>1, <3>2, <3>3
  <2>3. QED
    BY <1>4, <2>1, <2>2
<1> HIDE DEF u
<1>8. Path(F, X, doc, q \o r, u)
  BY <1>5, <1>6, <1>7 DEF Path
<1>9. u[Len(q) + Len(r)] = w[Len(r)]
  BY <1>1, <1>3, <1>4 DEF u, Path
<1>10. Through(F, X, doc, q \o r) = u[Len(q \o r)]
  <2> DEFINE s == q \o r
  <2>1. s \in Seq(M) /\ Path(F, X, doc, s, u)
    BY <1>5, <1>8
  <2> HIDE DEF s
  <2>2. Through(F, X, doc, s) = u[Len(s)]
    BY <2>1, ThroughIs
  <2>3. QED
    BY <2>2 DEF s
<1>11. QED
  BY <1>3, <1>5, <1>9, <1>10 DEF mid

LEMMA ThroughOne ==
  ASSUME NEW X, NEW M, NEW F \in [M -> [X -> X]], NEW doc \in X, NEW m \in M
  PROVE  Through(F, X, doc, <<m>>) = F[m][doc]
<1> DEFINE q == <<m>>
<1>1. q \in Seq(M)
  OBVIOUS
<1>2. Len(q) = 1 /\ q[1] = m
  OBVIOUS
<1> HIDE DEF q
<1>3. PICK v : Path(F, X, doc, q, v) /\ Through(F, X, doc, q) = v[Len(q)]
  BY <1>1, ThroughPath
<1>4. v[1] = F[q[1]][v[1 - 1]] /\ v[0] = doc
  BY <1>2, <1>3 DEF Path
<1>5. Through(F, X, doc, q) = F[m][doc]
  BY <1>2, <1>3, <1>4
<1>6. QED
  BY <1>5 DEF q

LEMMA ThroughAppend ==
  ASSUME NEW X, NEW M, NEW F \in [M -> [X -> X]], NEW doc \in X, NEW q \in Seq(M), NEW m \in M
  PROVE  Through(F, X, doc, Append(q, m)) = F[m][Through(F, X, doc, q)]
<1> DEFINE r == <<m>>
<1>1. Append(q, m) = q \o r
  BY AppendIsConcat
<1>2. r \in Seq(M)
  OBVIOUS
<1>3. Through(F, X, doc, q) \in X
  BY ThroughType
<1>4. Through(F, X, Through(F, X, doc, q), r) = F[m][Through(F, X, doc, q)]
  BY <1>3, ThroughOne
<1> HIDE DEF r
<1>5. QED
  BY <1>1, <1>2, <1>4, ThroughConcat

LEMMA ThroughHead ==
  ASSUME NEW X, NEW M, NEW F \in [M -> [X -> X]], NEW doc \in X, NEW q \in Seq(M), q # <<>>
  PROVE  /\ Head(q) \in M /\ Tail(q) \in Seq(M)
         /\ Through(F, X, doc, q) = Through(F, X, F[Head(q)][doc], Tail(q))
<1> DEFINE r == <<Head(q)>>
<1>1. Head(q) \in M /\ Tail(q) \in Seq(M)
  BY HeadTailProperties
<1>2. q = r \o Tail(q)
  BY <1>1, HeadTailProperties, ConcatProperties
<1>3. r \in Seq(M)
  BY <1>1
<1>4. Through(F, X, doc, r) = F[Head(q)][doc]
  BY <1>1, ThroughOne
<1> HIDE DEF r
<1>5. \A t \in Seq(M) : Through(F, X, doc, r \o t) = Through(F, X, Through(F, X, doc, r), t)
  BY <1>3, ThroughConcat
<1>6. QED
  BY <1>1, <1>2, <1>4, <1>5

(* Messages that are not about a document leave it alone. *)
LEMMA ThroughOthers ==
  ASSUME NEW X, NEW M, NEW F \in [M -> [X -> X]], NEW doc \in X, NEW q \in Seq(M),
         \A i \in 1 .. Len(q) : F[q[i]][doc] = doc
  PROVE  Through(F, X, doc, q) = doc
<1> DEFINE v == [i \in 0 .. Len(q) |-> doc]
<1>1. Len(q) \in Nat
  BY LenProperties
<1>2. Path(F, X, doc, q, v)
  BY <1>1 DEF Path
<1>3. v[Len(q)] = doc
  BY <1>1
<1> HIDE DEF v
<1>4. QED
  BY <1>2, <1>3, ThroughIs

(* The prefixes of a queue: the path goes through what each of them makes  *)
(* of the document.                                                        *)
LEMMA ThroughPrefix ==
  ASSUME NEW X, NEW M, NEW F \in [M -> [X -> X]], NEW doc \in X, NEW q \in Seq(M),
         NEW v, Path(F, X, doc, q, v), NEW i \in 1 .. Len(q)
  PROVE  SubSeq(q, 1, i) \in Seq(M) /\ Through(F, X, doc, SubSeq(q, 1, i)) = v[i]
<1> DEFINE p == SubSeq(q, 1, i)
           w == [j \in 0 .. i |-> v[j]]
<1>1. Len(q) \in Nat /\ i \in Nat /\ 1 <= i /\ i <= Len(q)
  BY LenProperties
<1>2. p \in Seq(M) /\ Len(p) = i /\ \A j \in 1 .. i : p[j] = q[j]
  <2>1. \A j \in 1 .. i : q[j] \in M
    BY <1>1, ElementOfSeq
  <2>2. 1 \in Int /\ i \in Int
    BY <1>1
  <2>3. /\ p \in Seq(M)
        /\ Len(p) = IF 1 <= i THEN i - 1 + 1 ELSE 0
        /\ \A j \in 1 .. i - 1 + 1 : p[j] = q[1 + j - 1]
    BY <2>1, <2>2, SubSeqProperties
  <2> HIDE DEF p
  <2>4. QED
    BY <1>1, <2>3
<1> HIDE DEF p
<1>3. Path(F, X, doc, p, w)
  <2>1. w \in [0 .. i -> X] /\ w[0] = doc
    BY <1>1 DEF Path
  <2>2. ASSUME NEW j \in 1 .. i
        PROVE  w[j] = F[p[j]][w[j - 1]]
    <3>1. j \in 1 .. Len(q) /\ w[j] = v[j] /\ w[j - 1] = v[j - 1] /\ p[j] = q[j]
      BY <1>1, <1>2
    <3>2. QED
      BY <3>1 DEF Path
  <2> HIDE DEF w
  <2>3. QED
    BY <1>2, <2>1, <2>2 DEF Path
<1>4. w[i] = v[i]
  BY <1>1
<1> HIDE DEF w
<1>5. Through(F, X, doc, p) = w[Len(p)]
  BY <1>2, <1>3, ThroughIs
<1>6. p \in Seq(M) /\ Through(F, X, doc, p) = v[i]
  BY <1>2, <1>4, <1>5
<1>7. QED
  BY <1>6 DEF p

LEMMA PrefixAppend ==
  ASSUME NEW M, NEW q \in Seq(M), NEW m \in M
  PROVE  /\ \A i \in 1 .. Len(q) : SubSeq(Append(q, m), 1, i) = SubSeq(q, 1, i)
         /\ SubSeq(Append(q, m), 1, Len(q) + 1) = Append(q, m)
<1> DEFINE r == Append(q, m)
<1>1. r \in Seq(M) /\ Len(r) = Len(q) + 1 /\ \A i \in 1 .. Len(q) : r[i] = q[i]
  BY AppendProperties
<1> HIDE DEF r
<1>2. Len(q) \in Nat
  BY LenProperties
<1>3. ASSUME NEW i \in 1 .. Len(q)
      PROVE  SubSeq(r, 1, i) = SubSeq(q, 1, i)
  BY <1>1, <1>2
<1>4. SubSeq(r, 1, Len(q) + 1) = r
  BY <1>1, SubSeqFull
<1>5. QED
  BY <1>3, <1>4 DEF r

LEMMA PrefixTail ==
  ASSUME NEW M, NEW q \in Seq(M), q # <<>>, NEW i \in 1 .. Len(q)
  PROVE  /\ SubSeq(q, 1, i) \in Seq(M) /\ SubSeq(q, 1, i) # <<>>
         /\ Head(SubSeq(q, 1, i)) = Head(q)
         /\ i = 1 => Tail(SubSeq(q, 1, i)) = <<>>
         /\ i # 1 => Tail(SubSeq(q, 1, i)) = SubSeq(Tail(q), 1, i - 1)
<1>1. Len(q) \in Nat /\ i \in Nat /\ 1 <= i /\ i <= Len(q)
  BY LenProperties
<1>2. \A j \in 1 .. i : q[j] \in M
  BY <1>1, ElementOfSeq
<1>3. SubSeq(q, 1, i) \in Seq(M) /\ Len(SubSeq(q, 1, i)) = i
  <2>1. 1 \in Int /\ i \in Int
    BY <1>1
  <2>2. /\ SubSeq(q, 1, i) \in Seq(M)
        /\ Len(SubSeq(q, 1, i)) = IF 1 <= i THEN i - 1 + 1 ELSE 0
    BY <1>2, <2>1, SubSeqProperties
  <2>3. QED
    BY <1>1, <2>2
<1>4. SubSeq(q, 1, i) # <<>>
  BY <1>1, <1>3
<1>5. Head(SubSeq(q, 1, i)) = q[1] /\ Tail(SubSeq(q, 1, i)) = SubSeq(q, 2, i)
  <2>1. 1 \in 1 .. Len(q) /\ i \in 1 .. Len(q) /\ 1 + 1 = 2
    BY <1>1
  <2>2. QED
    BY <2>1, HeadTailOfSubSeq
<1>6. Head(q) = q[1]
  OBVIOUS
<1>7. i = 1 => SubSeq(q, 2, i) = <<>>
  BY SubSeqEmpty
<1>8. i # 1 => SubSeq(q, 2, i) = SubSeq(Tail(q), 1, i - 1)
  <2>1. SUFFICES ASSUME i # 1
                 PROVE  SubSeq(q, 2, i) = SubSeq(Tail(q), 1, i - 1)
    OBVIOUS
  <2>2. /\ Tail(q) \in Seq(M) /\ Len(Tail(q)) = Len(q) - 1
        /\ \A j \in 1 .. Len(q) - 1 : Tail(q)[j] = q[j + 1]
    BY HeadTailProperties
  <2>3. QED
    BY <1>1, <2>1, <2>2
<1>9. QED
  BY <1>3, <1>4, <1>5, <1>6, <1>7, <1>8

(* The recursion of a fold, and the sets it goes through. *)
Folds(F, X, doc, q, c) ==
  /\ DOMAIN c = SUBSET (DOMAIN q)
  /\ c[{}] = doc
  /\ \A S \in SUBSET (DOMAIN q) :
       S # {} /\ c[S \ {Max(S)}] \in X => c[S] = F[q[Max(S)]][c[S \ {Max(S)}]]

LEMMA FoldIs ==
  ASSUME NEW X, NEW M, NEW F \in [M -> [X -> X]], NEW doc \in X, NEW q \in Seq(M),
         NEW c, Folds(F, X, doc, q, c)
  PROVE  c[DOMAIN q] = Through(F, X, doc, q)
<1>1. PICK v : Path(F, X, doc, q, v) /\ Through(F, X, doc, q) = v[Len(q)]
  BY ThroughPath
<1>2. Len(q) \in Nat /\ DOMAIN q = 1 .. Len(q)
  BY LenProperties
<1> DEFINE T == {k \in Nat : k <= Len(q) => c[1 .. k] = v[k]}
<1>3. 0 \in T
  BY <1>1 DEF Path, Folds
<1>4. ASSUME NEW k \in Nat, k \in T PROVE k + 1 \in T
  <2>1. SUFFICES ASSUME k + 1 <= Len(q) PROVE c[1 .. k + 1] = v[k + 1]
    OBVIOUS
  <2>2. c[1 .. k] = v[k] /\ v[k] \in X
    BY <1>1, <1>2, <1>4, <2>1 DEF Path
  <2>3. Max(1 .. k + 1) = k + 1
    BY MaxIs
  <2>4. (1 .. k + 1) \ {k + 1} = 1 .. k
    OBVIOUS
  <2>8. k + 1 \in 1 .. k + 1 /\ 1 .. k + 1 \in SUBSET (DOMAIN q)
    BY <1>2, <2>1
  <2>5. c[1 .. k + 1] = F[q[k + 1]][c[1 .. k]]
    BY <2>2, <2>3, <2>4, <2>8 DEF Folds
  <2>6. v[k + 1] = F[q[k + 1]][v[k + 1 - 1]]
    BY <1>1, <1>2, <2>1 DEF Path
  <2>7. QED
    BY <2>2, <2>5, <2>6
<1>5. Len(q) \in T
  <2> HIDE DEF T
  <2>1. QED
    BY <1>2, <1>3, <1>4, SetInduction
<1>6. QED
  BY <1>1, <1>2, <1>5
===============================================================================
