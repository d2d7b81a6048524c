----------------------------- MODULE Hybi13Proofs -----------------------------
(***************************************************************************)
(* Theorems about the parsing of what a connection reads, for any scripts  *)
(* of lines and frames and however TCP cuts their bytes.                   *)
(***************************************************************************)
EXTENDS Hybi13, FoldProofs, FiniteSetTheorems

-----------------------------------------------------------------------------
(* Numbers and sequences. *)
LEMMA MinOf ==
  ASSUME NEW T, T \subseteq Nat, T # {}
  PROVE  Min(T) \in T /\ \A y \in T : Min(T) <= y
<1> DEFINE less == {ss \in Nat \X Nat : ss[1] < ss[2]}
<1>1. IsWellFoundedOn(less, Nat)
  BY NatLessThanWellFounded DEF OpToRel
<1>2. \E x \in T : \A y \in T : ~ (<<y, x>> \in less)
  <2> HIDE DEF less
  <2>1. QED BY <1>1, WFMin
<1>3. PICK x \in T : \A y \in T : ~(y < x)
  BY <1>2
<1>4. \A y \in T : x =< y
  BY <1>3
<1>5. QED
  BY <1>4 DEF Min

LEMMA MinOfTwo ==
  ASSUME NEW a \in Nat, NEW b \in Nat
  PROVE  /\ Min({a, b}) \in Nat /\ Min({a, b}) <= a /\ Min({a, b}) <= b
         /\ Min({a, b}) = a \/ Min({a, b}) = b
<1> DEFINE T == {a, b}
<1>1. T \subseteq Nat /\ T # {}
  OBVIOUS
<1>2. Min(T) \in T /\ \A y \in T : Min(T) <= y
  BY <1>1, MinOf
<1>3. QED
  BY <1>2

LEMMA LastOf ==
  ASSUME NEW n \in Nat, NEW T, T \subseteq 1 .. n, T # {}
  PROVE  \E x \in T : \A y \in T : y <= x
<1> DEFINE U == {n - x : x \in T}
<1>1. U \subseteq Nat /\ U # {}
  <2>1. \A x \in T : n - x \in Nat
    OBVIOUS
  <2>2. QED
    BY <2>1
<1>2. Min(U) \in U /\ \A y \in U : Min(U) <= y
  BY <1>1, MinOf
<1>3. PICK x \in T : n - x = Min(U)
  BY <1>2
<1>4. \A y \in T : n - x <= n - y
  BY <1>2, <1>3
<1>5. QED
  BY <1>4

(* A part of a sequence. *)
LEMMA Part ==
  ASSUME NEW T, NEW s \in Seq(T), NEW a \in Nat \ {0}, NEW b \in Nat, b <= Len(s), a <= b + 1
  PROVE  /\ SubSeq(s, a, b) \in Seq(T)
         /\ Len(SubSeq(s, a, b)) = b + 1 - a
         /\ \A i \in 1 .. b + 1 - a : SubSeq(s, a, b)[i] = s[a + i - 1]
<1>1. \A i \in a .. b : i \in 1 .. Len(s) /\ s[i] \in T
  BY LenProperties, ElementOfSeq
<1>2. CASE a <= b
  <2>1. a .. b \subseteq Nat
    OBVIOUS
  <2>2. QED
    BY <1>1, <1>2, <2>1, SubSeqProperties
<1>3. CASE a = b + 1
  BY <1>1, <1>3, SubSeqProperties
<1>4. QED
  BY <1>2, <1>3

-----------------------------------------------------------------------------
(* The recursive functions of Framing follow the path through the bytes.   *)
Validator == Seq(SUBSET Byte)

DecodeStep(v, b) ==
  IF v = Accept THEN Leads(b) ELSE IF b \in Head(v) THEN Tail(v) ELSE Reject
DecodeEffect == [b \in Byte |-> [v \in Validator |-> DecodeStep(v, b)]]

LEMMA DecodeEffectType == DecodeEffect \in [Byte -> [Validator -> Validator]]
<1>1. SUFFICES ASSUME NEW b \in Byte, NEW v \in Validator
               PROVE  DecodeStep(v, b) \in Validator
  BY DEF DecodeEffect
<1>2. Reject \in Validator /\ Accept \in Validator
  BY DEF Reject, Accept, Validator
<1>3. Leads(b) \in Validator
  <2> DEFINE x1 == 160 .. 191
             x2 == 128 .. 159
             x3 == 144 .. 191
             x4 == 128 .. 143
             one == b \in 0 .. 127
             two == b \in 194 .. 223
             three1 == b = 224
             three == b \in 225 .. 236 \cup 238 .. 239
             three2 == b = 237
             four1 == b = 240
             four == b \in 241 .. 243
             four2 == b = 244
             after2 == <<Tail80>>
             after31 == <<x1, Tail80>>
             after3 == <<Tail80, Tail80>>
             after32 == <<x2, Tail80>>
             after41 == <<x3, Tail80, Tail80>>
             after4 == <<Tail80, Tail80, Tail80>>
             after42 == <<x4, Tail80, Tail80>>
  <2>1. Leads(b) = CASE one -> Accept [] two -> after2 [] three1 -> after31 [] three -> after3
                     [] three2 -> after32 [] four1 -> after41 [] four -> after4
                     [] four2 -> after42 [] OTHER -> Reject
    BY Zenon DEF Leads
  <2>2. /\ Tail80 \in SUBSET Byte /\ x1 \in SUBSET Byte /\ x2 \in SUBSET Byte
        /\ x3 \in SUBSET Byte /\ x4 \in SUBSET Byte
    BY DEF Tail80, Byte
  <2> HIDE DEF one, two, three1, three, three2, four1, four, four2, x1, x2, x3, x4,
               after2, after31, after3, after32, after41, after4, after42
  <2>3. Leads(b) \in {Accept, after2, after31, after3, after32, after41, after4, after42, Reject}
    BY <2>1, Zenon
  <2>4. ASSUME NEW x \in SUBSET Byte, NEW y \in SUBSET Byte, NEW z \in SUBSET Byte
        PROVE  <<x>> \in Validator /\ <<x, y>> \in Validator /\ <<x, y, z>> \in Validator
    BY DEF Validator
  <2>5. /\ after2 \in Validator /\ after31 \in Validator /\ after3 \in Validator
        /\ after32 \in Validator /\ after41 \in Validator /\ after4 \in Validator
        /\ after42 \in Validator
    BY <2>2, <2>4, Zenon DEF after2, after31, after3, after32, after41, after4, after42
  <2>6. QED
    BY <1>2, <2>3, <2>5, Zenon
<1>4. CASE v = Accept
  BY <1>3, <1>4 DEF DecodeStep
<1>5. CASE v # Accept
  <2>1. Tail(v) \in Validator
    BY <1>5, HeadTailProperties DEF Accept, Validator
  <2>2. QED
    BY <1>2, <1>5, <2>1 DEF DecodeStep
<1>6. QED
  BY <1>4, <1>5

LEMMA DecodeThrough ==
  ASSUME NEW v \in Validator, NEW bytes \in Seq(Byte)
  PROVE  decode(v, bytes) = Through(DecodeEffect, Validator, v, bytes)
<1> DEFINE n == Len(bytes)
           Body(g) == [i \in 0 .. n |-> IF i = 0 THEN v ELSE DecodeStep(g[i - 1], bytes[i])]
           after == CHOOSE g : g = Body(g)
<1>1. decode(v, bytes) = after[n]
  BY Zenon DEF decode, DecodeStep
<1>2. n \in Nat /\ \A i \in 1 .. n : bytes[i] \in Byte
  BY LenProperties, ElementOfSeq
<1>3. PICK w : Path(DecodeEffect, Validator, v, bytes, w)
  BY DecodeEffectType, PathExists
<1>4. w = Body(w)
  <2>1. w \in [0 .. n -> Validator] /\ w[0] = v
        /\ \A i \in 1 .. n : w[i] = DecodeEffect[bytes[i]][w[i - 1]]
    BY <1>3 DEF Path
  <2>2. \A i \in 1 .. n : w[i - 1] \in Validator
    BY <1>2, <2>1
  <2>3. \A i \in 1 .. n : w[i] = DecodeStep(w[i - 1], bytes[i])
    BY <1>2, <2>1, <2>2 DEF DecodeEffect
  <2> HIDE DEF n
  <2>4. \A i \in 0 .. n : w[i] = IF i = 0 THEN v ELSE DecodeStep(w[i - 1], bytes[i])
    BY <1>2, <2>1, <2>3
  <2>5. QED
    BY <2>1, <2>4
<1>5. after = Body(after)
  <2> HIDE DEF Body
  <2>1. QED
    BY <1>4
<1>6. Path(DecodeEffect, Validator, v, bytes, after)
  <2> HIDE DEF after
  <2> DEFINE T == {i \in Nat : i <= n => after[i] = w[i]}
  <2>1. \A i \in 0 .. n : after[i] = IF i = 0 THEN v ELSE DecodeStep(after[i - 1], bytes[i])
    BY <1>5
  <2>2. \A i \in 0 .. n : w[i] = IF i = 0 THEN v ELSE DecodeStep(w[i - 1], bytes[i])
    BY <1>4
  <2> HIDE DEF n
  <2>3. 0 \in T
    BY <1>2, <2>1, <2>2
  <2>4. ASSUME NEW i \in Nat, i \in T PROVE i + 1 \in T
    BY <1>2, <2>1, <2>2, <2>4
  <2>5. Nat \subseteq T
    <3> HIDE DEF T
    <3>1. QED
      BY <2>3, <2>4, SetInduction
  <2>6. \A i \in 0 .. n : after[i] = w[i]
    BY <1>2, <2>5
  <2>7. DOMAIN after = 0 .. n /\ DOMAIN w = 0 .. n
    BY <1>4, <1>5
  <2>8. after = w
    BY <1>4, <1>5, <2>6, <2>7
  <2>9. QED
    BY <1>3, <2>8
<1>7. QED
  <2> HIDE DEF after
  <2>1. QED
    BY <1>1, <1>6, DecodeEffectType, ThroughIs

LEMMA DecodeType ==
  ASSUME NEW v \in Validator, NEW bytes \in Seq(Byte)
  PROVE  decode(v, bytes) \in Validator
BY DecodeEffectType, DecodeThrough, ThroughType

(* Sequences joined to one. *)
JoinEffect(T) == [s \in Seq(T) |-> [all \in Seq(T) |-> all \o s]]

LEMMA FlattenThrough ==
  ASSUME NEW T, NEW q \in Seq(Seq(T))
  PROVE  FlattenSeq(q) = Through(JoinEffect(T), Seq(T), <<>>, q)
<1> DEFINE n == Len(q)
           F == JoinEffect(T)
           Body(g) == [i \in 1 .. n |-> IF i = 1 THEN q[i] ELSE g[i - 1] \o q[i]]
           flat == CHOOSE g : g = Body(g)
<1>1. n \in Nat /\ (\A i \in 1 .. n : q[i] \in Seq(T)) /\ <<>> \in Seq(T)
      /\ F \in [Seq(T) -> [Seq(T) -> Seq(T)]]
  BY LenProperties, ElementOfSeq DEF JoinEffect
<1>2. CASE n = 0
  <2>1. q = <<>>
    BY <1>2, EmptySeq
  <2>2. FlattenSeq(q) = <<>>
    BY <1>2, <2>1 DEF FlattenSeq
  <2> HIDE DEF F, n
  <2>3. Through(F, Seq(T), <<>>, <<>>) = <<>>
    BY <1>1, ThroughNothing
  <2>4. QED
    BY <2>1, <2>2, <2>3 DEF F
<1>3. CASE n # 0
  <2>1. FlattenSeq(q) = flat[n]
    BY <1>3, Zenon DEF FlattenSeq
  <2>2. PICK w : Path(F, Seq(T), <<>>, q, w)
    <3> HIDE DEF F
    <3>1. QED
      BY <1>1, PathExists
  <2>3. /\ w \in [0 .. n -> Seq(T)] /\ w[0] = <<>>
        /\ \A i \in 1 .. n : w[i] = F[q[i]][w[i - 1]]
    <3> HIDE DEF F
    <3>1. QED
      BY <2>2 DEF Path
  <2>4. \A i \in 1 .. n : w[i - 1] \in Seq(T)
    <3> HIDE DEF n, F
    <3>1. \A i \in 1 .. n : i - 1 \in 0 .. n
      BY <1>1
    <3>2. QED
      BY <2>3, <3>1
  <2>5. \A i \in 1 .. n : w[i] = w[i - 1] \o q[i]
    BY <1>1, <2>3, <2>4 DEF JoinEffect
  <2> DEFINE g == [i \in 1 .. n |-> w[i]]
  <2>6. g = Body(g)
    <3> HIDE DEF n, F
    <3>1. \A i \in 1 .. n : i = 1 \/ i - 1 \in 1 .. n
      BY <1>1
    <3>2. 1 \in 1 .. n => w[1] = q[1]
      <4>1. 1 - 1 = 0
        OBVIOUS
      <4>2. \A x \in Seq(T) : <<>> \o x = x
        OBVIOUS
      <4>3. QED
        BY <1>1, <2>3, <2>5, <4>1, <4>2
    <3>3. QED
      BY <2>5, <3>1, <3>2
  <2>7. flat = Body(flat)
    <3> HIDE DEF Body, g
    <3>1. QED
      BY <2>6
  <2> HIDE DEF flat
  <2> DEFINE U == {i \in Nat : i + 1 <= n => flat[i + 1] = w[i + 1]}
  <2>8. \A i \in 1 .. n : flat[i] = IF i = 1 THEN q[i] ELSE flat[i - 1] \o q[i]
    BY <2>7
  <2> HIDE DEF n, F
  <2>9. 0 \in U
    <3>1. SUFFICES ASSUME 1 <= n PROVE flat[1] = w[1]
      OBVIOUS
    <3>2. 1 \in 1 .. n /\ 1 \in Nat
      BY <1>1, <3>1
    <3>3. g[1] = q[1] /\ flat[1] = q[1]
      BY <2>6, <2>8, <3>2
    <3>4. g[1] = w[1]
      BY <3>2
    <3>5. QED
      BY <3>3, <3>4
  <2>10. ASSUME NEW i \in Nat, i \in U PROVE i + 1 \in U
    <3>1. SUFFICES ASSUME i + 2 <= n PROVE flat[i + 2] = w[i + 2]
      OBVIOUS
    <3>2. i + 2 \in 1 .. n /\ i + 2 # 1 /\ i + 2 - 1 = i + 1 /\ i + 1 <= n
      BY <1>1, <3>1
    <3> DEFINE k == i + 2
    <3>3. k \in 1 .. n /\ k # 1 /\ k - 1 = i + 1
      BY <3>2
    <3> HIDE DEF k, U
    <3>4. flat[k] = flat[k - 1] \o q[k] /\ w[k] = w[k - 1] \o q[k]
      BY <2>5, <2>8, <3>3
    <3>5. flat[i + 1] = w[i + 1]
      BY <2>10, <3>2 DEF U
    <3>6. QED
      BY <3>3, <3>4, <3>5 DEF k
  <2>11. Nat \subseteq U
    <3> HIDE DEF U
    <3>1. QED
      BY <2>9, <2>10, SetInduction
  <2>12. flat[n] = w[n]
    <3>1. n - 1 \in Nat
      BY <1>1, <1>3
    <3>2. n - 1 \in U
      BY <2>11, <3>1
    <3>3. QED
      BY <3>1, <3>2, <1>1
  <2>13. Through(F, Seq(T), <<>>, q) = w[Len(q)]
    <3> DEFINE X == Seq(T)
    <3>1. F \in [X -> [X -> X]] /\ <<>> \in X /\ q \in Seq(X) /\ Path(F, X, <<>>, q, w)
      BY <1>1, <2>2
    <3> HIDE DEF X
    <3>2. Through(F, X, <<>>, q) = w[Len(q)]
      BY <3>1, ThroughIs
    <3>3. QED
      BY <3>2 DEF X
  <2>14. QED
    BY <2>1, <2>12, <2>13 DEF F, n
<1>4. QED
  BY <1>2, <1>3

LEMMA JoinType ==
  ASSUME NEW T
  PROVE  /\ JoinEffect(T) \in [Seq(T) -> [Seq(T) -> Seq(T)]]
         /\ <<>> \in Seq(T)
BY DEF JoinEffect

LEMMA FlattenType ==
  ASSUME NEW T, NEW q \in Seq(Seq(T))
  PROVE  FlattenSeq(q) \in Seq(T)
<1> DEFINE X == Seq(T)
           F == JoinEffect(T)
<1>1. F \in [X -> [X -> X]] /\ <<>> \in X /\ q \in Seq(X)
  BY JoinType
<1>2. FlattenSeq(q) = Through(F, X, <<>>, q)
  BY FlattenThrough
<1> HIDE DEF X, F
<1>3. Through(F, X, <<>>, q) \in X
  BY <1>1, ThroughType
<1>4. QED
  BY <1>2, <1>3 DEF X

(* Bytes read as a number. *)
ValueStep(x, b) == 256 * x + b
ValueEffect == [b \in Byte |-> [x \in Nat |-> ValueStep(x, b)]]

LEMMA ValueEffectType == ValueEffect \in [Byte -> [Nat -> Nat]]
BY DEF ValueEffect, ValueStep, Byte

LEMMA ValueThrough ==
  ASSUME NEW q \in Seq(Byte)
  PROVE  Value(q) = Through(ValueEffect, Nat, 0, q)
<1> DEFINE F == ValueEffect
           X == Nat
           n == Len(q)
           Body(g) == [U \in SUBSET (DOMAIN q) |->
                         IF U = {} THEN 0 ELSE ValueStep(g[U \ {Max(U)}], q[Max(U)])]
           c == CHOOSE g : g = Body(g)
<1>1. Value(q) = c[DOMAIN q]
  BY Zenon DEF Value, FoldLeft, MapThenFoldSet, ValueStep
<1>2. /\ n \in Nat /\ DOMAIN q = 1 .. n /\ F \in [Byte -> [X -> X]]
      /\ 0 \in X
  BY LenProperties, ValueEffectType
<1>3. \A U \in SUBSET (DOMAIN q) : U # {} => Max(U) \in DOMAIN q /\ q[Max(U)] \in Byte
  BY <1>2, MaxIn, ElementOfSeq
<1>4. \A U \in SUBSET (DOMAIN q), x \in X :
        U # {} => ValueStep(x, q[Max(U)]) = F[q[Max(U)]][x]
  BY <1>3 DEF ValueEffect
<1> HIDE DEF X, F
<1>5. c = Body(c)
  <2> DEFINE h == [i \in 1 .. n |-> F[q[i]]]
  <2>1. h \in [1 .. n -> [X -> X]]
    BY <1>2, ElementOfSeq
  <2>2. PICK g : Iterates(h, X, 0, n, g)
    <3>1. n \in Nat
      BY <1>2
    <3> HIDE DEF h, n
    <3>2. QED
      BY <1>2, <2>1, <3>1, Iteration
  <2>3. ASSUME NEW U \in SUBSET (DOMAIN q)
        PROVE  g[U] = IF U = {} THEN 0 ELSE ValueStep(g[U \ {Max(U)}], q[Max(U)])
    <3>1. g[U \ {Max(U)}] \in X
      BY <1>2, <2>2 DEF Iterates
    <3>2. U # {} => h[Max(U)] = F[q[Max(U)]]
      BY <1>2, <1>3
    <3> HIDE DEF h
    <3>3. QED
      BY <1>2, <1>4, <2>2, <3>1, <3>2 DEF Iterates
  <2>4. g = Body(g)
    BY <1>2, <2>2, <2>3 DEF Iterates
  <2> HIDE DEF Body
  <2>5. QED
    BY <2>4
<1>6. /\ DOMAIN c = SUBSET (DOMAIN q)
      /\ c[{}] = 0
      /\ \A U \in SUBSET (DOMAIN q) :
           U # {} => c[U] = ValueStep(c[U \ {Max(U)}], q[Max(U)])
  <2> HIDE DEF c
  <2>1. QED
    BY <1>5
<1> HIDE DEF c
<1>7. c[DOMAIN q] = Through(F, X, 0, q)
  <2>1. \A U \in SUBSET (DOMAIN q) :
          U # {} /\ c[U \ {Max(U)}] \in X => c[U] = F[q[Max(U)]][c[U \ {Max(U)}]]
    BY <1>4, <1>6
  <2>2. Folds(F, X, 0, q, c)
    BY <1>6, <2>1 DEF Folds
  <2>3. QED
    BY <1>2, <2>2, FoldIs
<1>8. QED
  BY <1>1, <1>7 DEF F, X

LEMMA ValueType ==
  ASSUME NEW q \in Seq(Byte)
  PROVE  Value(q) \in Nat
<1>1. ValueEffect \in [Byte -> [Nat -> Nat]] /\ 0 \in Nat
  BY ValueEffectType
<1>2. Through(ValueEffect, Nat, 0, q) \in Nat
  BY <1>1, ThroughType
<1>3. QED
  BY <1>2, ValueThrough

-----------------------------------------------------------------------------
(* Headers and masks. *)
LEMMA XorType ==
  ASSUME NEW a \in Byte, NEW b \in Byte
  PROVE  Xor(a, b) \in Byte
<1> DEFINE bit(w) == w * (((a \div w) + (b \div w)) % 2)
<1>1. /\ bit(128) \in {0, 128} /\ bit(64) \in {0, 64} /\ bit(32) \in {0, 32}
      /\ bit(16) \in {0, 16} /\ bit(8) \in {0, 8} /\ bit(4) \in {0, 4}
      /\ bit(2) \in {0, 2} /\ bit(1) \in {0, 1}
  BY DEF Byte
<1> HIDE DEF bit
<1>2. bit(128) + bit(64) + bit(32) + bit(16) + bit(8) + bit(4) + bit(2) + bit(1) \in Byte
  BY <1>1 DEF Byte
<1>3. QED
  BY <1>2 DEF Xor, bit

LEMMA MaskType ==
  ASSUME NEW bytes \in Seq(Byte), NEW key \in Seq(Byte), Len(key) = 4
  PROVE  byte_mask(bytes, key) \in Seq(Byte) /\ Len(byte_mask(bytes, key)) = Len(bytes)
<1>1. Len(bytes) \in Nat /\ DOMAIN bytes = 1 .. Len(bytes)
  BY LenProperties
<1>2. ASSUME NEW i \in 1 .. Len(bytes)
      PROVE  Xor(bytes[i], key[((i - 1) % 4) + 1]) \in Byte
  <2>1. ((i - 1) % 4) + 1 \in 1 .. 4
    OBVIOUS
  <2>2. bytes[i] \in Byte /\ key[((i - 1) % 4) + 1] \in Byte
    BY <2>1, ElementOfSeq
  <2>3. QED
    BY <2>2, XorType
<1>3. byte_mask(bytes, key) \in [1 .. Len(bytes) -> Byte]
  BY <1>1, <1>2 DEF byte_mask
<1>4. QED
  BY <1>1, <1>3, LenProperties

LEMMA KeyTurned ==
  ASSUME NEW key \in Seq(Byte), Len(key) = 4, NEW offset \in Nat
  PROVE  circshift_prepared_key(key, offset) \in Seq(Byte)
         /\ Len(circshift_prepared_key(key, offset)) = 4
<1>1. \A i \in 1 .. 4 : ((i + offset - 1) % 4) + 1 \in 1 .. 4
  OBVIOUS
<1>2. \A i \in 1 .. 4 : key[((i + offset - 1) % 4) + 1] \in Byte
  BY <1>1, ElementOfSeq
<1>3. circshift_prepared_key(key, offset) \in [1 .. 4 -> Byte]
  BY <1>2 DEF circshift_prepared_key
<1>4. ASSUME NEW n \in Nat, NEW f \in [1 .. n -> Byte]
      PROVE  f \in Seq(Byte) /\ Len(f) = n
  BY LenProperties
<1>5. QED
  BY <1>3, <1>4

(* A basic header: two bytes, and what they say of the rest. *)
LEMMA HeaderSays ==
  ASSUME NEW h \in Seq(Byte), Len(h) = 2
  PROVE  /\ h[1] \in Byte /\ h[2] \in Byte
         /\ get_opcode(h) \in 0 .. 15 /\ get_basic_size(h) \in 0 .. 127
         /\ get_masking_key_offset(h) \in {0, 2, 8}
         /\ get_header_len(h) = 2 + get_masking_key_offset(h) + (IF get_masked(h) THEN 4 ELSE 0)
<1>1. h[1] \in Byte /\ h[2] \in Byte
  BY ElementOfSeq
<1>2. get_opcode(h) \in 0 .. 15 /\ get_basic_size(h) \in 0 .. 127
  <2>1. \A b \in Byte : b % 16 \in 0 .. 15 /\ b % 128 \in 0 .. 127
    BY DEF Byte
  <2>2. QED
    BY <1>1, <2>1 DEF get_opcode, get_basic_size
<1>3. get_masking_key_offset(h) \in {0, 2, 8}
  BY DEF get_masking_key_offset
<1>4. QED
  BY <1>1, <1>2, <1>3 DEF get_header_len

LEMMA ExtendedSays ==
  ASSUME NEW h \in Seq(Byte), Len(h) = 2,
         NEW ext \in Seq(Byte), Len(ext) = get_header_len(h) - 2
  PROVE  /\ get_payload_size(h, ext) \in Nat
         /\ get_masking_key(h, ext) \in Seq(Byte) /\ Len(get_masking_key(h, ext)) = 4
         /\ get_basic_size(h) <= payload_size_basic => get_payload_size(h, ext) <= payload_size_basic
<1> DEFINE k == get_masking_key_offset(h)
<1>1. /\ get_basic_size(h) \in 0 .. 127 /\ k \in {0, 2, 8}
      /\ Len(ext) = k + (IF get_masked(h) THEN 4 ELSE 0)
  BY HeaderSays
<1> HIDE DEF k
<1>2. k \in Nat /\ k <= Len(ext)
  BY <1>1
<1>3. SubSeq(ext, 1, k) \in Seq(Byte)
  BY <1>2, Part
<1>4. get_payload_size(h, ext) \in Nat
  <2>1. Value(SubSeq(ext, 1, k)) \in Nat
    BY <1>3, ValueType
  <2>2. get_basic_size(h) \in Nat
    <3>1. \A x \in 0 .. 127 : x \in Nat
      OBVIOUS
    <3>2. QED
      BY <1>1, <3>1, Zenon
  <2>3. QED
    BY <2>1, <2>2, Zenon DEF get_payload_size, k
<1>5. get_basic_size(h) <= payload_size_basic => get_payload_size(h, ext) <= payload_size_basic
  BY <1>1 DEF get_payload_size
<1>6. get_masking_key(h, ext) \in Seq(Byte) /\ Len(get_masking_key(h, ext)) = 4
  <2>1. CASE get_masked(h)
    <3>1. Len(ext) = k + 4 /\ k + 1 \in Nat \ {0} /\ k + 4 \in Nat /\ k + 4 + 1 - (k + 1) = 4
      BY <1>1, <1>2, <2>1
    <3>2. SubSeq(ext, k + 1, k + 4) \in Seq(Byte) /\ Len(SubSeq(ext, k + 1, k + 4)) = 4
      BY <3>1, Part
    <3>3. QED
      BY <2>1, <3>2 DEF get_masking_key, k
  <2>2. CASE ~get_masked(h)
    BY <2>2 DEF get_masking_key, Byte
  <2>3. QED
    BY <2>1, <2>2
<1>7. QED
  BY <1>4, <1>5, <1>6

(* What a sender writes are bytes. *)
LEMMA SizeFits ==
  ASSUME NEW size \in Nat, NEW width \in {0, 2, 8}
  PROVE  BigEndian(size, width) \in Seq(Byte) /\ Len(BigEndian(size, width)) = width
<1>1. ASSUME NEW n \in Nat, NEW k \in 0 .. 3
      PROVE  (n \div Weights[k + 1]) % 256 \in Byte
  <2>1. Weights[k + 1] \in {1, 256, 65536, 16777216}
    BY DEF Weights
  <2>2. n \div Weights[k + 1] \in Nat
    BY <2>1
  <2>3. QED
    BY <2>2 DEF Byte
<1>2. ASSUME NEW i \in 1 .. width
      PROVE  (IF width - i < 4 THEN size \div Weights[width - i + 1]
                               ELSE High(size) \div Weights[width - i - 3]) % 256 \in Byte
  <2>1. High(size) \in Nat
    BY DEF High
  <2>2. CASE width - i < 4
    <3>1. width - i \in 0 .. 3
      BY <2>2
    <3>2. QED
      BY <1>1, <2>2, <3>1
  <2>3. CASE ~(width - i < 4)
    <3>1. width - i - 4 \in 0 .. 3 /\ width - i - 4 + 1 = width - i - 3
      BY <2>3
    <3>2. (High(size) \div Weights[width - i - 4 + 1]) % 256 \in Byte
      BY <1>1, <2>1, <3>1
    <3>3. QED
      BY <2>3, <3>1, <3>2
  <2>4. QED
    BY <2>2, <2>3
<1>3. BigEndian(size, width) \in [1 .. width -> Byte]
  BY <1>2 DEF BigEndian
<1>4. ASSUME NEW n \in Nat, NEW f \in [1 .. n -> Byte]
      PROVE  f \in Seq(Byte) /\ Len(f) = n
  BY LenProperties
<1>5. QED
  BY <1>3, <1>4

LEMMA CodeOfSize ==
  ASSUME NEW size \in Nat
  PROVE  SizeCode(size) \in 0 .. 127
<1>1. payload_size_basic = 125 /\ payload_size_extended = 65535
      /\ payload_size_code_16bit = 126 /\ payload_size_code_64bit = 127
  BY DEF payload_size_basic, payload_size_extended, payload_size_code_16bit, payload_size_code_64bit
<1>2. CASE size <= 125
  BY <1>1, <1>2 DEF SizeCode
<1>3. CASE size > 125 /\ size <= 65535
  BY <1>1, <1>3 DEF SizeCode
<1>4. CASE size > 65535
  BY <1>1, <1>4 DEF SizeCode
<1>5. QED
  BY <1>2, <1>3, <1>4

LEMMA FrameBytes ==
  ASSUME NEW f \in ScriptFrame
  PROVE  Bytes(f) \in Seq(Byte)
<1> DEFINE size == Len(f.payload)
           key == IF f.proper = server THEN Key ELSE <<>>
           code == IF f.form = 0 THEN SizeCode(size) ELSE f.form
           first == (IF f.fin THEN 128 ELSE 0) + 16 * f.rsv + f.op
           second == (IF key = <<>> THEN 0 ELSE 128) + code
           masked == IF key = <<>> THEN f.payload ELSE byte_mask(f.payload, key)
<1>1. /\ f.op \in 0 .. 15 /\ f.rsv \in 0 .. 7 /\ f.payload \in Seq(Byte) /\ size \in Nat
      /\ f.form \in {0, 126, 127}
  BY LenProperties DEF ScriptFrame, payload_size_code_16bit, payload_size_code_64bit
<1>2. Key \in Seq(Byte) /\ Len(Key) = 4 /\ <<>> \in Seq(Byte)
  BY DEF Key, Byte
<1>3. key = <<>> \/ key = Key
  OBVIOUS
<1>4. code \in 0 .. 127
  <2>1. SizeCode(size) \in 0 .. 127
    BY <1>1, CodeOfSize
  <2>2. QED
    BY <1>1, <2>1
<1>5. SizeBytes(code) \in {0, 2, 8}
  BY DEF SizeBytes
<1>6. masked \in Seq(Byte)
  BY <1>1, <1>2, <1>3, MaskType
<1>7. first \in Byte /\ second \in Byte
  <2> HIDE DEF key, code
  <2>1. \A b \in {0, 128}, x \in 0 .. 7, y \in 0 .. 15 : b + 16 * x + y \in Byte
    BY DEF Byte
  <2>4. first \in Byte
    <3> DEFINE b == IF f.fin THEN 128 ELSE 0
    <3>1. b \in {0, 128}
      OBVIOUS
    <3> HIDE DEF b
    <3>2. b + 16 * f.rsv + f.op \in Byte
      <4>1. f.rsv \in 0 .. 7 /\ f.op \in 0 .. 15
        BY <1>1
      <4>2. ASSUME NEW x \in 0 .. 7, NEW y \in 0 .. 15
            PROVE  b + 16 * x + y \in Byte
        BY <2>1, <3>1
      <4>3. QED
        BY <4>1, <4>2, Zenon
    <3>3. QED
      BY <3>2 DEF b
  <2>2. second \in Byte
    BY <1>4 DEF Byte
  <2>3. QED
    BY <2>2, <2>4
<1>8. Bytes(f) = <<first, second>> \o BigEndian(size, SizeBytes(code)) \o key \o masked
  BY DEF Bytes, prepare_header
<1> HIDE DEF size, key, code, first, second, masked
<1>9. <<first, second>> \in Seq(Byte) /\ BigEndian(size, SizeBytes(code)) \in Seq(Byte)
      /\ key \in Seq(Byte)
  BY <1>1, <1>2, <1>3, <1>5, <1>7, SizeFits
<1>10. QED
  BY <1>6, <1>8, <1>9

LEMMA InputBytes ==
  ASSUME script \in Scripts
  PROVE  Text(script.lines) \in Seq(Byte) /\ BytesOf(Frames) \in Seq(Byte)
<1>1. script.lines \in Seq(Seq(Byte)) /\ script.frames \in Seq(ScriptFrame)
  BY ScriptAssumption
<1>2. CRLF \in Seq(Byte) /\ <<>> \in Seq(Byte)
  BY DEF CRLF, Byte
<1>3. ASSUME NEW q \in Seq(ScriptFrame)
      PROVE  BytesOf(q) \in Seq(Byte)
  <2> DEFINE parts == [i \in DOMAIN q |-> Bytes(q[i])]
  <2>1. DOMAIN q = 1 .. Len(q) /\ Len(q) \in Nat
    BY LenProperties
  <2>2. \A i \in DOMAIN q : Bytes(q[i]) \in Seq(Byte)
    BY <2>1, ElementOfSeq, FrameBytes
  <2>3. parts \in Seq(Seq(Byte))
    BY <2>1, <2>2
  <2> HIDE DEF parts
  <2>4. FlattenSeq(parts) \in Seq(Byte)
    BY <2>3, FlattenType
  <2>5. QED
    BY <2>4 DEF BytesOf, parts
<1>4. Text(script.lines) \in Seq(Byte)
  <2> DEFINE lines == script.lines
             parts == [i \in DOMAIN lines |-> lines[i] \o CRLF]
  <2>1. DOMAIN lines = 1 .. Len(lines) /\ Len(lines) \in Nat
    BY <1>1, LenProperties
  <2>2. \A i \in DOMAIN lines : lines[i] \o CRLF \in Seq(Byte)
    BY <1>1, <1>2, <2>1, ElementOfSeq
  <2>3. parts \in Seq(Seq(Byte))
    BY <2>1, <2>2
  <2> HIDE DEF parts
  <2>4. FlattenSeq(parts) \in Seq(Byte)
    BY <2>3, FlattenType
  <2>5. FlattenSeq(parts) \o CRLF \in Seq(Byte)
    BY <1>2, <2>4
  <2>6. QED
    BY <1>2, <2>5 DEF Text, parts
<1>5. QED
  BY <1>1, <1>3, <1>4 DEF Frames

-----------------------------------------------------------------------------
(* Responses.  What is kept of one for the next piece is a line without    *)
(* its end, so the blank line that ends it ends in the piece being read.   *)
LEMMA EndsAre ==
  ASSUME NEW buf \in Seq(Byte)
  PROVE  /\ Ends(buf) \subseteq Nat
         /\ \A i \in Nat : i \in Ends(buf) <=>
              i >= 1 /\ i + 1 <= Len(buf) /\ buf[i] = 13 /\ buf[i + 1] = 10
<1>1. Len(buf) \in Nat
  BY LenProperties
<1>2. ASSUME NEW i \in Nat, i >= 1, i + 1 <= Len(buf)
      PROVE  SubSeq(buf, i, i + 1) = CRLF <=> buf[i] = 13 /\ buf[i + 1] = 10
  <2> DEFINE two == SubSeq(buf, i, i + 1)
  <2>1. two \in Seq(Byte) /\ Len(two) = 2 /\ two[1] = buf[i] /\ two[2] = buf[i + 1]
    <3>1. i \in Nat \ {0} /\ i + 1 \in Nat /\ i <= i + 1 + 1 /\ i + 1 + 1 - i = 2
          /\ i + 1 - 1 = i /\ i + 2 - 1 = i + 1 /\ 1 \in 1 .. 2 /\ 2 \in 1 .. 2
      BY <1>2
    <3>2. Len(two) = i + 1 + 1 - i /\ two \in Seq(Byte)
          /\ \A k \in 1 .. i + 1 + 1 - i : two[k] = buf[i + k - 1]
      BY <1>2, <3>1, Part
    <3> HIDE DEF two
    <3>3. QED
      BY <3>1, <3>2
  <2> HIDE DEF two
  <2>2. two = CRLF <=> two[1] = 13 /\ two[2] = 10
    BY <2>1 DEF CRLF
  <2>3. QED
    BY <2>1, <2>2 DEF two
<1>3. QED
  BY <1>1, <1>2 DEF Ends

LEMMA NothingUnended == <<>> \in Seq(Byte) /\ Ends(<<>>) = {}
<1> DEFINE none == <<>>
<1>1. none \in Seq(Byte) /\ Len(none) = 0
  OBVIOUS
<1> HIDE DEF none
<1>2. \A i \in Ends(none) : i \in Nat /\ i >= 1 /\ i + 1 <= Len(none)
  BY <1>1, EndsAre
<1>3. Ends(none) = {}
  BY <1>1, <1>2
<1>4. QED
  BY <1>1, <1>3 DEF none

LEMMA LineIs ==
  ASSUME NEW buf \in Seq(Byte), NEW b \in Begins(buf)
  PROVE  /\ b \in 1 .. Len(buf) + 1 /\ Len(buf) \in Nat
         /\ End(buf, b) \in b .. Len(buf) + 1
         /\ End(buf, b) \in Ends(buf) \/ End(buf, b) = Len(buf) + 1
         /\ Line(buf, b) \in Seq(Byte) /\ Len(Line(buf, b)) = End(buf, b) - b
         /\ Ends(Line(buf, b)) = {}
<1> DEFINE n == Len(buf)
           T == {i \in Ends(buf) : i >= b} \cup {n + 1}
           e == End(buf, b)
           line == Line(buf, b)
<1>1. n \in Nat
  BY LenProperties
<1>2. \A i \in Ends(buf) : i \in 1 .. n /\ i + 1 <= n
  BY <1>1, EndsAre
<1>3. b \in 1 .. n + 1
  BY <1>1, <1>2 DEF Begins
<1>4. e \in T /\ \A y \in T : e <= y
  <2>1. T \subseteq Nat /\ T # {}
    BY <1>1, <1>2
  <2> HIDE DEF T
  <2>2. Min(T) \in T /\ \A y \in T : Min(T) <= y
    BY <2>1, MinOf
  <2>3. QED
    BY <2>2 DEF T, End
<1>5. e \in b .. n + 1 /\ (e \in Ends(buf) \/ e = n + 1)
  <2> HIDE DEF e, n
  <2>1. QED
    BY <1>1, <1>2, <1>3, <1>4
<1>6. line \in Seq(Byte) /\ Len(line) = e - b /\ \A i \in 1 .. e - b : line[i] = buf[b + i - 1]
  <2> HIDE DEF e
  <2>1. b \in Nat \ {0} /\ e - 1 \in Nat /\ e - 1 <= n /\ b <= e - 1 + 1 /\ e - 1 + 1 - b = e - b
    BY <1>1, <1>3, <1>5
  <2>2. SubSeq(buf, b, e - 1) \in Seq(Byte) /\ Len(SubSeq(buf, b, e - 1)) = e - 1 + 1 - b
        /\ \A i \in 1 .. e - 1 + 1 - b : SubSeq(buf, b, e - 1)[i] = buf[b + i - 1]
    BY <2>1, Part
  <2>3. line = SubSeq(buf, b, e - 1)
    BY DEF Line, e
  <2> HIDE DEF line
  <2>4. QED
    BY <2>1, <2>2, <2>3
<1> HIDE DEF e, line, n
<1>7. ASSUME NEW i \in Ends(line) PROVE FALSE
  <2>1. i \in Nat /\ i >= 1 /\ i + 1 <= Len(line) /\ line[i] = 13 /\ line[i + 1] = 10
    BY <1>6, EndsAre
  <2> DEFINE k == b + i - 1
  <2>2. i \in 1 .. e - b /\ i + 1 \in 1 .. e - b /\ b + (i + 1) - 1 = k + 1
    BY <1>3, <1>5, <1>6, <2>1
  <2>3. buf[k] = 13 /\ buf[k + 1] = 10
    BY <1>6, <2>1, <2>2
  <2>4. k \in Nat /\ k >= 1 /\ k >= b /\ k + 1 < e /\ k + 1 <= n
    BY <1>1, <1>3, <1>5, <2>1, <2>2
  <2> HIDE DEF k
  <2>5. k \in Ends(buf)
    BY <2>3, <2>4, EndsAre DEF n
  <2>6. e <= k
    BY <1>4, <2>4, <2>5
  <2>7. e \in Nat
    BY <1>1, <1>3, <1>5
  <2>8. QED
    BY <2>4, <2>6, <2>7
<1>8. QED
  BY <1>1, <1>3, <1>5, <1>6, <1>7 DEF e, line, n

(* What consume makes of a piece: of the response that it leaves nothing   *)
(* or a line without its end, and of the piece it takes a part or all.     *)
Unended(r) == r.buf \in Seq(Byte) /\ Ends(r.buf) = {}

LEMMA ResponseTakes ==
  ASSUME NEW r, Unended(r), NEW piece \in Seq(Byte)
  PROVE  LET result == consume_response(r, piece)
         IN  Unended(result.response) /\ result.processed \in 0 .. Len(piece)
<1> DEFINE buf == r.buf \o piece
           isFirst(b) == r.state = "response_line" /\ b = 1
           whole(b) == End(buf, b) \in Ends(buf)
           bytes(b) == r.header_bytes + b + Len(Line(buf, b)) + 2
                         + Cardinality({i \in Ends(buf) : i < b})
           tooBig(b) == bytes(b) > max_header_size
           invalid(b) == IF isFirst(b) THEN ToSet(Line(buf, b)) \cap {S, R} = {}
                                       ELSE H \notin ToSet(Line(buf, b))
           stops(b) == tooBig(b) \/ ~whole(b) \/ Line(buf, b) = <<>> \/ invalid(b)
           stopping == {b \in Begins(buf) : stops(b)}
           last == Min(stopping)
           result == consume_response(r, piece)
<1>1. /\ r.buf \in Seq(Byte) /\ buf \in Seq(Byte) /\ Len(piece) \in Nat /\ Len(r.buf) \in Nat
      /\ Len(buf) = Len(r.buf) + Len(piece)
      /\ \A i \in 1 .. Len(r.buf) : buf[i] = r.buf[i]
  BY LenProperties DEF Unended
<1>2. last \in Begins(buf)
  <2> HIDE DEF buf
  <2>1. \A b \in Begins(buf) : b \in Nat
    BY <1>1, LineIs
  <2>2. stopping # {}
    <3>1. \E b \in Begins(buf) : ~whole(b)
      <4>1. CASE Ends(buf) = {}
        BY <4>1 DEF Begins
      <4>2. CASE Ends(buf) # {}
        <5>1. \E i \in Ends(buf) : \A j \in Ends(buf) : j <= i
          <6>1. Ends(buf) \subseteq 1 .. Len(buf) /\ Len(buf) \in Nat
            BY <1>1, EndsAre DEF Ends
          <6>2. QED
            BY <4>2, <6>1, LastOf
        <5>2. PICK i \in Ends(buf) : \A j \in Ends(buf) : j <= i
          BY <5>1
        <5>3. i + 2 \in Begins(buf) /\ i \in Nat
          BY <1>1, EndsAre DEF Begins
        <5>4. End(buf, i + 2) \notin Ends(buf)
          <6>1. End(buf, i + 2) \in i + 2 .. Len(buf) + 1 /\ Len(buf) \in Nat
            BY <1>1, <5>3, LineIs
          <6>2. QED
            BY <5>2, <5>3, <6>1
        <5>5. QED
          BY <5>3, <5>4
      <4>3. QED
        BY <4>1, <4>2
    <3>2. QED
      BY <3>1
  <2>3. stopping \subseteq Nat
    BY <2>1
  <2>4. stopping \subseteq Begins(buf)
    OBVIOUS
  <2> HIDE DEF stopping
  <2>5. QED
    BY <2>2, <2>3, <2>4, MinOf
<1> DEFINE e == End(buf, last)
           line == Line(buf, last)
<1>3. /\ last \in 1 .. Len(buf) + 1 /\ e \in last .. Len(buf) + 1
      /\ line \in Seq(Byte) /\ Len(line) = e - last /\ Ends(line) = {}
  <2> HIDE DEF last, buf
  <2>1. QED
    BY <1>1, <1>2, LineIs
<1>4. \/ result.response = r /\ result.processed = 0
      \/ result.response.buf = line /\ result.processed = Len(piece)
      \/ /\ result.response.buf = <<>> /\ whole(last) /\ line = <<>>
         /\ result.processed = Processed(buf, e, Len(piece))
  BY Zenon DEF consume_response
<1> HIDE DEF last, line, e, result
<1>5. CASE result.response = r /\ result.processed = 0
  BY <1>1, <1>5 DEF result
<1>6. CASE result.response.buf = line /\ result.processed = Len(piece)
  BY <1>1, <1>3, <1>6 DEF result, Unended
<1>7. CASE /\ result.response.buf = <<>> /\ whole(last) /\ line = <<>>
           /\ result.processed = Processed(buf, e, Len(piece))
  <2>1. e \in Ends(buf)
    BY <1>7 DEF e
  <2> HIDE DEF buf
  <2>2. e \in Nat /\ e >= 1 /\ e + 1 <= Len(buf) /\ buf[e] = 13 /\ buf[e + 1] = 10
    BY <1>1, <2>1, EndsAre
  <2>3. e + 1 > Len(r.buf)
    <3>1. SUFFICES ASSUME e + 1 <= Len(r.buf) PROVE e \in Ends(r.buf)
      BY <1>1, <2>2 DEF Unended
    <3>2. r.buf[e] = 13 /\ r.buf[e + 1] = 10
      <4>1. e \in 1 .. Len(r.buf) /\ e + 1 \in 1 .. Len(r.buf)
        BY <1>1, <2>2, <3>1
      <4>2. buf[e] = r.buf[e] /\ buf[e + 1] = r.buf[e + 1]
        BY <1>1, <4>1, Zenon
      <4>3. QED
        BY <2>2, <4>2
    <3>3. QED
      BY <1>1, <2>2, <3>1, <3>2, EndsAre
  <2>4. result.processed = e + 1 - Len(r.buf)
    BY <1>1, <1>7, <2>2 DEF Processed
  <2>5. result.processed \in 0 .. Len(piece)
    BY <1>1, <2>2, <2>3, <2>4
  <2>6. Unended(result.response)
    <3>1. QED
      BY <1>7, NothingUnended DEF Unended
  <2>7. QED
    BY <2>5, <2>6 DEF result
<1>8. QED
  BY <1>4, <1>5, <1>6, <1>7

-----------------------------------------------------------------------------
(* The invariant: what is read and kept are bytes, as many as the state    *)
(* of the parser says; a payload being read has a message to go to.        *)
Reading ==
  /\ server \in BOOLEAN /\ script \in Scripts /\ input \in Seq(Byte)
  /\ read \in 0 .. Len(input) /\ p \in 0 .. read
  /\ Unended(response)

Received(m) == m \in Message
Receiving(m) == Received(m) /\ Len(m.key) = 4

Kept ==
  /\ data # <<>> => data = <<data[1]>> /\ Receiving(data[1]) /\ ~is_control(data[1].op)
  /\ control # <<>> => control = <<control[1]>> /\ Receiving(control[1]) /\ is_control(control[1].op)
  /\ delivered \in Seq(Message) /\ \A m \in ToSet(delivered) : Received(m)

ControlFrame == is_control(get_opcode(header))
Short == ControlFrame => get_basic_size(header) <= payload_size_basic
Held == IF ControlFrame THEN control # <<>> ELSE data # <<>>

Parsing ==
  /\ needed \in Nat /\ header \in Seq(Byte) /\ extended \in Seq(Byte)
  /\ \/ m_state = "http" /\ needed = 2 /\ header = <<>>
     \/ m_state = "basic" /\ Len(header) + needed = 2
     \/ m_state = "extended" /\ Len(header) = 2 /\ Short
          /\ Len(extended) + needed = get_header_len(header) - 2
     \/ m_state = "application" /\ Len(header) = 2 /\ (error = "none" => Held)
     \/ m_state = "ready" /\ Len(header) = 2

ParseInv == Reading /\ Kept /\ Parsing

LEMMA TakenIs ==
  ASSUME Reading, needed \in Nat
  PROVE  /\ Available \in 0 .. needed /\ p + Available \in 0 .. read
         /\ Taken \in Seq(Byte) /\ Len(Taken) = Available
<1>1. /\ Len(input) \in Nat /\ read \in Nat /\ read <= Len(input) /\ p \in Nat /\ p <= read
      /\ read - p \in Nat /\ input \in Seq(Byte)
  BY LenProperties DEF Reading
<1>2. Available \in Nat /\ Available <= needed /\ Available <= read - p
  BY <1>1, MinOfTwo DEF Available
<1> HIDE DEF Available
<1>3. /\ p + 1 \in Nat \ {0} /\ p + Available \in Nat /\ p + Available <= Len(input)
      /\ p + 1 <= p + Available + 1 /\ p + Available + 1 - (p + 1) = Available
  BY <1>1, <1>2
<1>4. SubSeq(input, p + 1, p + Available) \in Seq(Byte)
      /\ Len(SubSeq(input, p + 1, p + Available)) = p + Available + 1 - (p + 1)
  BY <1>1, <1>3, Part
<1>5. QED
  BY <1>1, <1>2, <1>3, <1>4 DEF Taken

LEMMA FilledIs ==
  ASSUME NEW m, m \in Message, Len(m.key) = 4, NEW bytes \in Seq(Byte)
  PROVE  LET filled == Filled(m, bytes)
         IN  /\ filled \in Message /\ filled.op = m.op /\ Len(filled.key) = 4
             /\ Len(filled.payload) = Len(m.payload) + Len(bytes)
<1> DEFINE masked == get_masked(header)
           plain == IF masked THEN byte_mask(bytes, m.key) ELSE bytes
           key == IF masked THEN circshift_prepared_key(m.key, Len(bytes)) ELSE m.key
           validator == IF m.op = TEXT THEN decode(m.validator, plain) ELSE m.validator
<1>1. /\ m.op \in 0 .. 15 /\ m.payload \in Seq(Byte) /\ m.key \in Seq(Byte)
      /\ m.validator \in Validator /\ Len(bytes) \in Nat
  BY LenProperties DEF Message, Validator
<1>2. plain \in Seq(Byte) /\ Len(plain) = Len(bytes)
  BY <1>1, MaskType
<1>3. key \in Seq(Byte) /\ Len(key) = 4
  BY <1>1, KeyTurned
<1> HIDE DEF plain
<1>4. validator \in Validator
  BY <1>1, <1>2, DecodeType
<1>5. Filled(m, bytes) = [m EXCEPT !.payload = @ \o plain, !.key = key, !.validator = validator]
  BY DEF Filled, plain
<1> HIDE DEF key, validator, masked
<1>6. Filled(m, bytes) = [op |-> m.op, payload |-> m.payload \o plain, key |-> key,
                          validator |-> validator]
  BY <1>5 DEF Message
<1>7. m.payload \o plain \in Seq(Byte) /\ Len(m.payload \o plain) = Len(m.payload) + Len(plain)
  <2>1. ASSUME NEW x \in Seq(Byte), NEW y \in Seq(Byte)
        PROVE  x \o y \in Seq(Byte) /\ Len(x \o y) = Len(x) + Len(y)
    OBVIOUS
  <2>2. QED
    BY <1>1, <1>2, <2>1, Zenon
<1> DEFINE payload == m.payload \o plain
<1> HIDE DEF payload
<1>8. payload \in Seq(Byte) /\ Len(payload) = Len(m.payload) + Len(bytes)
  BY <1>2, <1>7 DEF payload
<1>9. Filled(m, bytes) = [op |-> m.op, payload |-> payload, key |-> key, validator |-> validator]
  BY <1>6 DEF payload
<1>10. QED
  BY <1>1, <1>3, <1>4, <1>8, <1>9 DEF Message, Validator

(* The receiving side of the header: its own faults, and what they leave.  *)
LEMMA HeaderFault ==
  ASSUME NEW h \in Seq(Byte), Len(h) = 2, NEW new, validate_incoming_basic_header(h, new) = "none"
  PROVE  is_control(get_opcode(h)) => get_basic_size(h) <= payload_size_basic /\ get_fin(h)
<1> DEFINE op == get_opcode(h)
           faults == <<
             <<is_control(op) /\ get_basic_size(h) > payload_size_basic, "control_too_big">>,
             <<get_rsv(h) # 0, "invalid_rsv_bit">>,
             <<reserved(op), "invalid_opcode">>,
             <<is_control(op) /\ ~get_fin(h), "fragmented_control">>,
             <<new /\ op = CONTINUATION, "invalid_continuation">>,
             <<~new /\ ~is_control(op) /\ op # CONTINUATION, "invalid_continuation">>,
             <<server /\ ~get_masked(h), "masking_required">>,
             <<~server /\ get_masked(h), "masking_forbidden">> >>
           found == {i \in DOMAIN faults : faults[i][1]}
<1>1. validate_incoming_basic_header(h, new) = IF found = {} THEN "none" ELSE faults[Min(found)][2]
  BY Zenon DEF validate_incoming_basic_header
<1>2. DOMAIN faults = 1 .. 8
  OBVIOUS
<1>3. \A i \in 1 .. 8 : faults[i][2] # "none"
  OBVIOUS
<1>4. /\ faults[1][1] <=> is_control(op) /\ get_basic_size(h) > payload_size_basic
      /\ faults[4][1] <=> is_control(op) /\ ~get_fin(h)
  OBVIOUS
<1> HIDE DEF faults
<1>5. found = {}
  <2>1. ASSUME found # {} PROVE FALSE
    <3>1. found \subseteq Nat
      BY <1>2
    <3>2. found \subseteq 1 .. 8
      BY <1>2
    <3> HIDE DEF found
    <3>3. Min(found) \in found
      BY <2>1, <3>1, MinOf
    <3>4. QED
      BY <1>1, <1>3, <2>1, <3>2, <3>3
  <2>2. QED
    BY <2>1
<1>6. ~faults[1][1] /\ ~faults[4][1]
  BY <1>2, <1>5
<1>7. \A size \in 0 .. 127 : ~(size > payload_size_basic) => size <= payload_size_basic
  BY DEF payload_size_basic
<1>8. get_basic_size(h) \in 0 .. 127
  BY HeaderSays
<1>9. QED
  BY <1>4, <1>6, <1>7, <1>8, Zenon

(* The invariant holds at first, and each action keeps it.                 *)
LEMMA InitParse == Init => ParseInv
<1> SUFFICES ASSUME Init PROVE ParseInv
  OBVIOUS
<1>1. Text(script.lines) \in Seq(Byte) /\ BytesOf(Frames) \in Seq(Byte)
  BY InputBytes DEF Init
<1>2. input \in Seq(Byte) /\ Len(input) \in Nat
  <2>1. ASSUME NEW x \in Seq(Byte), NEW y \in Seq(Byte)
        PROVE  x \o y \in Seq(Byte) /\ Len(x \o y) \in Nat
    OBVIOUS
  <2>2. input = Text(script.lines) \o BytesOf(Frames)
    BY DEF Init
  <2>3. QED
    BY <1>1, <2>1, <2>2, Zenon
<1>3. Unended(response)
  BY NothingUnended DEF Init, Fresh, Unended
<1>4. Reading
  BY <1>2, <1>3 DEF Init, Reading
<1>5. Kept
  <2>1. <<>> \in Seq(Message) /\ ToSet(<<>>) = {}
    BY DEF ToSet
  <2>2. QED
    BY <2>1 DEF Init, Kept
<1>6. Parsing
  BY DEF Init, Parsing
<1>7. QED
  BY <1>4, <1>5, <1>6 DEF ParseInv

LEMMA ResponseKeeps == ParseInv /\ handle_read_http_response => ParseInv'
<1> SUFFICES ASSUME ParseInv, handle_read_http_response PROVE ParseInv'
  OBVIOUS
<1> DEFINE piece == SubSeq(input, p + 1, read)
           result == consume_response(response, piece)
<1>1. Reading /\ Kept /\ Parsing
  BY DEF ParseInv
<1>2. /\ Len(input) \in Nat /\ read \in Nat /\ read <= Len(input) /\ p \in Nat /\ p < read
      /\ input \in Seq(Byte) /\ Unended(response)
  BY <1>1, LenProperties DEF Reading, handle_read_http_response
<1>3. piece \in Seq(Byte) /\ Len(piece) = read - p
  <2>1. p + 1 \in Nat \ {0} /\ p + 1 <= read + 1 /\ read + 1 - (p + 1) = read - p
    BY <1>2
  <2>2. piece \in Seq(Byte) /\ Len(piece) = read + 1 - (p + 1)
    BY <1>2, <2>1, Part
  <2>3. QED
    BY <2>1, <2>2
<1>4. response' = result.response /\ p' = p + result.processed
  BY DEF handle_read_http_response
<1> HIDE DEF piece
<1>5. Unended(result.response) /\ result.processed \in 0 .. Len(piece)
  BY <1>2, <1>3, ResponseTakes
<1> HIDE DEF result
<1>6. UNCHANGED <<sender, read, needed, header, extended, data, control, delivered>>
      /\ m_state = "http" /\ (m_state' = "http" \/ m_state' = "basic")
  BY DEF handle_read_http_response
<1>7. p' \in 0 .. read
  BY <1>2, <1>3, <1>4, <1>5
<1>8. Reading'
  BY <1>1, <1>4, <1>5, <1>6, <1>7 DEF Reading, Unended, Ends, sender
<1>9. Kept'
  BY <1>1, <1>6 DEF Kept, Receiving, Received
<1>10. Parsing'
  <2>0. m_state = "http" /\ needed' = needed /\ header' = header /\ extended' = extended
    BY <1>6
  <2>1. needed = 2 /\ header = <<>> /\ extended \in Seq(Byte)
    BY <1>1, <2>0 DEF Parsing
  <2>2. needed' = 2 /\ header' = <<>> /\ extended' \in Seq(Byte)
    BY <1>6, <2>1
  <2>3. needed' \in Nat /\ header' \in Seq(Byte) /\ Len(header') + needed' = 2
    BY <2>2
  <2>4. QED
    BY <1>6, <2>2, <2>3 DEF Parsing
<1>11. QED
  BY <1>8, <1>9, <1>10 DEF ParseInv

LEMMA AsyncReadKeeps == ParseInv /\ handle_async_read => ParseInv'
<1> SUFFICES ASSUME ParseInv, handle_async_read PROVE ParseInv'
  OBVIOUS
<1>1. Reading /\ Kept /\ Parsing
  BY DEF ParseInv
<1>2. UNCHANGED <<sender, p, response, frame>> /\ p = read
      /\ \E n \in read + 1 .. Len(input) : read' = n
  BY DEF handle_async_read, Waits
<1>3. PICK n \in read + 1 .. Len(input) : read' = n
  BY <1>2
<1>4. Len(input) \in Nat /\ read \in Nat /\ p = read /\ input' = input /\ p' = p
  BY <1>1, <1>2, LenProperties DEF Reading, sender
<1>5. read' \in 0 .. Len(input)' /\ p' \in 0 .. read'
  BY <1>3, <1>4
<1>6. Reading'
  BY <1>1, <1>2, <1>5 DEF Reading, Unended, Ends, sender
<1>7. Kept'
  BY <1>1, <1>2 DEF Kept, Receiving, Received, frame
<1>8. Parsing'
  BY <1>1, <1>2 DEF Parsing, Short, ControlFrame, Held, frame
<1>9. QED
  BY <1>6, <1>7, <1>8 DEF ParseInv

LEMMA HeaderKeeps == ParseInv /\ read_header => ParseInv'
<1> SUFFICES ASSUME ParseInv, read_header PROVE ParseInv'
  OBVIOUS
<1> DEFINE h == header \o Taken
           fault == validate_incoming_basic_header(h, data = <<>>)
<1>1. Reading /\ Kept /\ Parsing
  BY DEF ParseInv
<1>2. m_state = "basic" /\ UNCHANGED <<sender, read, response, data, control, delivered>>
      /\ p' = p + Available /\ header' = h
  BY DEF read_header, Takes
<1>3. needed \in Nat /\ header \in Seq(Byte) /\ extended \in Seq(Byte) /\ Len(header) + needed = 2
  BY <1>1, <1>2 DEF Parsing
<1>4. /\ Available \in 0 .. needed /\ p + Available \in 0 .. read
      /\ Taken \in Seq(Byte) /\ Len(Taken) = Available
  BY <1>1, <1>3, TakenIs
<1>5. h \in Seq(Byte) /\ Len(h) = Len(header) + Available
  <2>1. ASSUME NEW x \in Seq(Byte), NEW y \in Seq(Byte)
        PROVE  x \o y \in Seq(Byte) /\ Len(x \o y) = Len(x) + Len(y)
    OBVIOUS
  <2>2. h \in Seq(Byte) /\ Len(h) = Len(header) + Len(Taken)
    BY <1>3, <1>4, <2>1, Zenon
  <2>3. QED
    BY <1>4, <2>2
<1>6. \/ needed > Available /\ needed' = needed - Available /\ UNCHANGED <<m_state, extended, error>>
      \/ ~(needed > Available) /\ fault # "none" /\ needed' = 0 /\ UNCHANGED <<m_state, extended>>
      \/ /\ ~(needed > Available) /\ fault = "none" /\ m_state' = "extended" /\ extended' = <<>>
         /\ needed' = get_header_len(h) - 2
  BY DEF read_header
<1> HIDE DEF h, fault
<1> DEFINE a == Available
<1> HIDE DEF a
<1>7. a \in Nat /\ a <= needed /\ Len(header) \in Nat /\ Len(h) = Len(header) + a
  BY <1>3, <1>4, <1>5, LenProperties DEF a
<1>8. Reading'
  BY <1>1, <1>2, <1>4 DEF Reading, Unended, Ends, sender
<1>9. Kept'
  BY <1>1, <1>2 DEF Kept, Receiving, Received
<1>10. CASE needed > Available /\ needed' = needed - Available /\ UNCHANGED <<m_state, extended, error>>
  <2>1. needed' \in Nat /\ Len(header') + needed' = 2
    BY <1>2, <1>3, <1>7, <1>10 DEF a
  <2>2. Parsing'
    BY <1>2, <1>3, <1>5, <1>10, <2>1 DEF Parsing
  <2>3. QED
    BY <1>8, <1>9, <2>2 DEF ParseInv
<1>11. ASSUME ~(needed > Available) PROVE Len(h) = 2
  BY <1>3, <1>7, <1>11 DEF a
<1>12. CASE ~(needed > Available) /\ fault # "none" /\ needed' = 0 /\ UNCHANGED <<m_state, extended>>
  <2>1. needed' \in Nat /\ Len(header') + needed' = 2
    BY <1>2, <1>11, <1>12
  <2>2. Parsing'
    BY <1>2, <1>3, <1>5, <1>12, <2>1 DEF Parsing
  <2>3. QED
    BY <1>8, <1>9, <2>2 DEF ParseInv
<1>13. CASE /\ ~(needed > Available) /\ fault = "none" /\ m_state' = "extended" /\ extended' = <<>>
            /\ needed' = get_header_len(h) - 2
  <2>1. Len(h) = 2
    BY <1>11, <1>13
  <2>2. is_control(get_opcode(h)) => get_basic_size(h) <= payload_size_basic
    BY <1>5, <1>13, <2>1, HeaderFault DEF fault
  <2>3. get_header_len(h) - 2 \in Nat
    BY <1>5, <2>1, HeaderSays
  <2>4. /\ needed' \in Nat /\ Len(header') = 2 /\ extended' \in Seq(Byte)
        /\ Len(extended') + needed' = get_header_len(header') - 2
    BY <1>2, <1>13, <2>1, <2>3
  <2>5. Short'
    BY <1>2, <2>2 DEF Short, ControlFrame
  <2>6. Parsing'
    BY <1>2, <1>5, <1>13, <2>4, <2>5 DEF Parsing
  <2>7. QED
    BY <1>8, <1>9, <2>6 DEF ParseInv
<1>14. QED
  BY <1>6, <1>10, <1>12, <1>13

LEMMA ResetParses ==
  ASSUME m_state' = "basic", needed' = 2, header' = <<>>, extended' = <<>>
  PROVE  Parsing'
<1>1. header' \in Seq(Byte) /\ extended' \in Seq(Byte) /\ needed' \in Nat
      /\ Len(header') + needed' = 2
  OBVIOUS
<1>2. QED
  BY <1>1 DEF Parsing

LEMMA MessageKeeps == ParseInv /\ get_message => ParseInv'
<1> SUFFICES ASSUME ParseInv, get_message PROVE ParseInv'
  OBVIOUS
<1>1. Reading /\ Kept /\ Parsing
  BY DEF ParseInv
<1>2. UNCHANGED <<sender, p, read, response, error>>
  BY DEF get_message
<1>3. Reading'
  BY <1>1, <1>2 DEF Reading, Unended, Ends, sender
<1>4. Parsing'
  BY ResetParses DEF get_message, reset_headers
<1>5. \/ delivered' = delivered \o control /\ control' = <<>> /\ data' = data
      \/ delivered' = delivered \o data /\ data' = <<>> /\ control' = control
  BY DEF get_message
<1>6. ASSUME NEW q, q # <<>> => q = <<q[1]>> /\ Received(q[1]), delivered' = delivered \o q
      PROVE  delivered' \in Seq(Message) /\ \A m \in ToSet(delivered') : Received(m)
  <2>1. delivered \in Seq(Message) /\ \A m \in ToSet(delivered) : Received(m)
    BY <1>1 DEF Kept
  <2>2. CASE q = <<>>
    <3>1. ASSUME NEW x \in Seq(Message) PROVE x \o <<>> = x
      OBVIOUS
    <3>2. delivered' = delivered
      BY <1>6, <2>1, <2>2, <3>1
    <3>3. QED
      BY <2>1, <3>2
  <2>3. CASE q = <<q[1]>> /\ Received(q[1])
    <3>1. q[1] \in Message
      BY <2>3 DEF Received
    <3>2. ASSUME NEW x \in Seq(Message), NEW y \in Message
          PROVE  x \o <<y>> \in Seq(Message) /\ \A m \in ToSet(x \o <<y>>) : m = y \/ m \in ToSet(x)
      <4>1. \A i \in 1 .. Len(x) + 1 : (x \o <<y>>)[i] = IF i = Len(x) + 1 THEN y ELSE x[i]
        OBVIOUS
      <4>2. DOMAIN (x \o <<y>>) = 1 .. Len(x) + 1 /\ Len(x) \in Nat /\ DOMAIN x = 1 .. Len(x)
        BY LenProperties
      <4>3. QED
        BY <4>1, <4>2 DEF ToSet
    <3>3. delivered' = delivered \o <<q[1]>>
      BY <1>6, <2>3
    <3>4. QED
      BY <2>1, <2>3, <3>1, <3>2, <3>3, Zenon
  <2>4. QED
    BY <1>6, <2>2, <2>3
<1>7. CASE delivered' = delivered \o control /\ control' = <<>> /\ data' = data
  <2>1. control # <<>> => control = <<control[1]>> /\ Received(control[1])
    BY <1>1 DEF Kept, Receiving
  <2>2. delivered' \in Seq(Message) /\ \A m \in ToSet(delivered') : Received(m)
    BY <1>6, <1>7, <2>1
  <2>3. QED
    BY <1>1, <1>3, <1>4, <1>7, <2>2 DEF Kept, ParseInv, Receiving, Received
<1>8. CASE delivered' = delivered \o data /\ data' = <<>> /\ control' = control
  <2>1. data # <<>> => data = <<data[1]>> /\ Received(data[1])
    BY <1>1 DEF Kept, Receiving
  <2>2. delivered' \in Seq(Message) /\ \A m \in ToSet(delivered') : Received(m)
    BY <1>6, <1>8, <2>1
  <2>3. QED
    BY <1>1, <1>3, <1>4, <1>8, <2>2 DEF Kept, ParseInv, Receiving, Received
<1>9. QED
  BY <1>5, <1>7, <1>8

LEMMA NewMessageIs ==
  ASSUME NEW h \in Seq(Byte), Len(h) = 2, header = h,
         NEW ext \in Seq(Byte), Len(ext) = get_header_len(h) - 2
  PROVE  LET m == NewMessage(ext)
         IN  m \in Message /\ Len(m.key) = 4 /\ Len(m.payload) = 0 /\ m.op = get_opcode(h)
<1>1. get_opcode(h) \in 0 .. 15
  BY HeaderSays
<1>2. get_masking_key(h, ext) \in Seq(Byte) /\ Len(get_masking_key(h, ext)) = 4
  BY ExtendedSays
<1> DEFINE op == get_opcode(h)
           key == get_masking_key(h, ext)
<1>3. NewMessage(ext) = [op |-> op, payload |-> <<>>, key |-> key, validator |-> Accept]
  BY DEF NewMessage
<1> HIDE DEF op, key
<1>4. <<>> \in Seq(Byte) /\ Len(<<>>) = 0 /\ Accept \in Seq(SUBSET Byte)
  BY DEF Accept
<1>5. op \in 0 .. 15 /\ key \in Seq(Byte) /\ Len(key) = 4
  BY <1>1, <1>2 DEF op, key
<1>6. QED
  BY <1>3, <1>4, <1>5 DEF Message, op

(* A continuation has its key only for itself.                             *)
LEMMA KeyedIs ==
  ASSUME NEW m, m \in Message, NEW key \in Seq(Byte), Len(key) = 4
  PROVE  LET keyed == [m EXCEPT !.key = key]
         IN  keyed \in Message /\ Len(keyed.key) = 4 /\ keyed.payload = m.payload /\ keyed.op = m.op
BY DEF Message

(* What a size_t keeps of a number: all of it, if it fits.                 *)
LEMMA Wrapped ==
  ASSUME NEW n \in Nat
  PROVE  n % SizeT \in Nat /\ n % SizeT <= n /\ (n < SizeT => n % SizeT = n)
<1>1. SizeT \in Nat \ {0}
  BY SizeAssumption
<1>2. QED
  BY <1>1

LEMMA ExtendedKeeps == ParseInv /\ read_extended_header => ParseInv'
<1> SUFFICES ASSUME ParseInv, read_extended_header PROVE ParseInv'
  OBVIOUS
<1> DEFINE ext == extended \o Taken
           fault == validate_incoming_extended_header(header, ext)
           size == get_payload_size(header, ext) % SizeT
           isControl == is_control(get_opcode(header))
           keyed == [data[1] EXCEPT !.key = get_masking_key(header, ext)]
<1>1. Reading /\ Kept /\ Parsing
  BY DEF ParseInv
<1>2. m_state = "extended" /\ UNCHANGED <<sender, read, response, header, delivered>>
      /\ p' = p + Available /\ extended' = ext /\ error = "none"
  BY DEF read_extended_header, Takes, Turns
<1>3. /\ needed \in Nat /\ header \in Seq(Byte) /\ extended \in Seq(Byte)
      /\ Len(header) = 2 /\ Short /\ Len(extended) + needed = get_header_len(header) - 2
  BY <1>1, <1>2 DEF Parsing
<1>4. /\ Available \in 0 .. needed /\ p + Available \in 0 .. read
      /\ Taken \in Seq(Byte) /\ Len(Taken) = Available
  BY <1>1, <1>3, TakenIs
<1> DEFINE a == Available
<1>5. ext \in Seq(Byte) /\ Len(ext) = Len(extended) + a
  <2>1. ASSUME NEW x \in Seq(Byte), NEW y \in Seq(Byte)
        PROVE  x \o y \in Seq(Byte) /\ Len(x \o y) = Len(x) + Len(y)
    OBVIOUS
  <2>2. ext \in Seq(Byte) /\ Len(ext) = Len(extended) + Len(Taken)
    BY <1>3, <1>4, <2>1, Zenon
  <2>3. QED
    BY <1>4, <2>2
<1>6. \/ /\ needed > a /\ needed' = needed - a
         /\ UNCHANGED <<m_state, data, control, error>>
      \/ /\ ~(needed > a) /\ needed' = 0 /\ UNCHANGED <<m_state, data, control>>
      \/ /\ ~(needed > a) /\ m_state' = "application" /\ needed' = size
         /\ \/ isControl /\ control' = <<NewMessage(ext)>> /\ data' = data
            \/ ~isControl /\ error' = "message_too_big" /\ UNCHANGED <<data, control>>
            \/ ~isControl /\ control' = control
                 /\ data' = IF data = <<>> THEN <<NewMessage(ext)>> ELSE <<keyed>>
  BY Zenon DEF read_extended_header
<1>7. Reading'
  BY <1>1, <1>2, <1>4 DEF Reading, Unended, Ends, sender
<1> HIDE DEF a, ext, fault, size, isControl, keyed
<1>8. a \in Nat /\ a <= needed /\ Len(extended) \in Nat /\ get_header_len(header) \in Nat
  BY <1>3, <1>4, LenProperties, HeaderSays DEF a
<1>9. /\ data # <<>> => data = <<data[1]>> /\ Receiving(data[1]) /\ ~is_control(data[1].op)
      /\ control # <<>> => control = <<control[1]>> /\ Receiving(control[1]) /\ is_control(control[1].op)
  BY <1>1 DEF Kept
<1>10. ASSUME UNCHANGED <<data, control>> PROVE Kept'
  BY <1>1, <1>2, <1>10 DEF Kept, Receiving, Received
<1>11. CASE /\ needed > a /\ needed' = needed - a
            /\ UNCHANGED <<m_state, data, control, error>>
  <2>1. needed' \in Nat /\ Len(extended') + needed' = get_header_len(header') - 2
    BY <1>2, <1>3, <1>5, <1>8, <1>11
  <2>2. Short'
    BY <1>2, <1>3 DEF Short, ControlFrame
  <2>3. Parsing'
    BY <1>2, <1>3, <1>5, <1>11, <2>1, <2>2 DEF Parsing
  <2>4. QED
    BY <1>7, <1>10, <1>11, <2>3 DEF ParseInv
<1>12. ASSUME ~(needed > a) PROVE Len(ext) = get_header_len(header) - 2
  BY <1>3, <1>5, <1>8, <1>12
<1>13. CASE ~(needed > a) /\ needed' = 0 /\ UNCHANGED <<m_state, data, control>>
  <2>1. needed' \in Nat /\ Len(extended') + needed' = get_header_len(header') - 2
    BY <1>2, <1>8, <1>12, <1>13
  <2>2. Short'
    BY <1>2, <1>3 DEF Short, ControlFrame
  <2>3. Parsing'
    BY <1>2, <1>3, <1>5, <1>13, <2>1, <2>2 DEF Parsing
  <2>4. QED
    BY <1>7, <1>10, <1>13, <2>3 DEF ParseInv
<1>14. CASE /\ ~(needed > a) /\ m_state' = "application" /\ needed' = size
            /\ \/ isControl /\ control' = <<NewMessage(ext)>> /\ data' = data
               \/ ~isControl /\ error' = "message_too_big" /\ UNCHANGED <<data, control>>
               \/ ~isControl /\ control' = control
                    /\ data' = IF data = <<>> THEN <<NewMessage(ext)>> ELSE <<keyed>>
  <2> DEFINE new == NewMessage(ext)
             op == get_opcode(header)
  <2>1. Len(ext) = get_header_len(header) - 2
    BY <1>12, <1>14
  <2>2. new \in Message /\ Len(new.key) = 4 /\ Len(new.payload) = 0 /\ new.op = op
    BY <1>3, <1>5, <2>1, NewMessageIs
  <2>3. size \in Nat
    BY <1>3, <1>5, <2>1, ExtendedSays, Wrapped DEF size
  <2>4. get_masking_key(header, ext) \in Seq(Byte) /\ Len(get_masking_key(header, ext)) = 4
    BY <1>3, <1>5, <2>1, ExtendedSays
  <2>5. ControlFrame <=> isControl
    BY DEF ControlFrame, isControl
  <2>6. isControl <=> is_control(op)
    BY DEF isControl
  <2> HIDE DEF new, op
  <2>8. ASSUME Held' \/ error' # "none" PROVE Parsing'
    BY <1>2, <1>3, <1>5, <1>14, <2>3, <2>8 DEF Parsing
  <2>9. CASE isControl /\ control' = <<NewMessage(ext)>> /\ data' = data
    <3>1. control' = <<new>> /\ control'[1] = new
      BY <2>9 DEF new
    <3>4. Received(new) /\ Receiving(new) /\ is_control(new.op)
      BY <2>2, <2>6, <2>9 DEF Received, Receiving
    <3>5. Kept'
      BY <1>1, <1>2, <2>9, <3>1, <3>4 DEF Kept, Receiving, Received
    <3>7. ControlFrame'
      BY <1>2, <2>5, <2>9 DEF ControlFrame
    <3>8. Held'
      BY <3>1, <3>7 DEF Held
    <3>9. QED
      BY <1>7, <2>8, <3>5, <3>8 DEF ParseInv
  <2>10. CASE ~isControl /\ error' = "message_too_big" /\ UNCHANGED <<data, control>>
    <3>1. Parsing'
      BY <2>8, <2>10
    <3>2. QED
      BY <1>7, <1>10, <2>10, <3>1 DEF ParseInv
  <2>11. CASE ~isControl /\ control' = control
               /\ data' = IF data = <<>> THEN <<NewMessage(ext)>> ELSE <<keyed>>
    <3>1. \E m : data' = <<m>> /\ m \in Message /\ Len(m.key) = 4 /\ ~is_control(m.op)
      <4>1. CASE data = <<>>
        BY <2>2, <2>6, <2>11, <4>1 DEF new
      <4>2. CASE data # <<>>
        <5>1. data[1] \in Message /\ ~is_control(data[1].op)
          BY <1>9, <4>2 DEF Receiving, Received
        <5>2. keyed \in Message /\ Len(keyed.key) = 4 /\ keyed.op = data[1].op
          BY <2>4, <5>1, KeyedIs DEF keyed
        <5>3. QED
          BY <2>11, <4>2, <5>1, <5>2
      <4>3. QED
        BY <4>1, <4>2
    <3>2. PICK m : data' = <<m>> /\ m \in Message /\ Len(m.key) = 4 /\ ~is_control(m.op)
      BY <3>1
    <3>3. data'[1] = m /\ Receiving(m)
      BY <3>2 DEF Received, Receiving
    <3>6. Kept'
      BY <1>1, <1>2, <2>11, <3>2, <3>3 DEF Kept, Receiving, Received
    <3>7. ~ControlFrame'
      BY <1>2, <2>5, <2>11 DEF ControlFrame
    <3>8. Held'
      BY <3>2, <3>7 DEF Held
    <3>9. QED
      BY <1>7, <2>8, <3>6, <3>8 DEF ParseInv
  <2>12. QED
    BY <1>14, <2>9, <2>10, <2>11
<1>15. QED
  BY <1>6, <1>11, <1>13, <1>14

LEMMA PayloadKeeps == ParseInv /\ process_payload => ParseInv'
<1> SUFFICES ASSUME ParseInv, process_payload PROVE ParseInv'
  OBVIOUS
<1> DEFINE isControl == is_control(get_opcode(header))
           old == IF isControl THEN control[1] ELSE data[1]
           m == Filled(old, Taken)
           a == Available
           fault == \/ m.validator = Reject
                    \/ /\ needed = a /\ get_fin(header)
                       /\ get_opcode(header) = TEXT /\ ~complete(m.validator)
<1>1. Reading /\ Kept /\ Parsing
  BY DEF ParseInv
<1>2. m_state = "application" /\ UNCHANGED <<sender, read, response, delivered>>
      /\ p' = p + Available /\ error = "none"
  BY DEF process_payload, Takes, Turns
<1>3. needed \in Nat /\ header \in Seq(Byte) /\ extended \in Seq(Byte) /\ Len(header) = 2 /\ Held
  BY <1>1, <1>2 DEF Parsing
<1>4. /\ Available \in 0 .. needed /\ p + Available \in 0 .. read
      /\ Taken \in Seq(Byte) /\ Len(Taken) = Available
  BY <1>1, <1>3, TakenIs
<1>5. Reading'
  BY <1>1, <1>2, <1>4 DEF Reading, Unended, Ends, sender
<1>6. /\ isControl => control' = <<m>> /\ data' = data
      /\ ~isControl => data' = <<m>> /\ control' = control
      /\ error' = IF fault THEN "invalid_utf8" ELSE error
      /\ \/ (fault \/ needed > a) /\ needed' = needed - a /\ UNCHANGED <<m_state, header, extended>>
         \/ ~(fault \/ needed > a) /\ reset_headers
         \/ m_state' = "ready" /\ needed' = 0 /\ UNCHANGED <<header, extended>>
  BY Zenon DEF process_payload
<1>7. /\ old \in Message /\ Len(old.key) = 4
      /\ isControl <=> is_control(old.op)
  BY <1>1, <1>3 DEF Kept, Receiving, Received, Held, ControlFrame
<1> HIDE DEF old, isControl
<1>8. /\ m \in Message /\ m.op = old.op /\ Len(m.key) = 4
      /\ Len(m.payload) = Len(old.payload) + Len(Taken)
  BY <1>4, <1>7, FilledIs
<1> HIDE DEF m, a, fault
<1>9. a \in 0 .. needed
  BY <1>4 DEF a
<1>11. Receiving(m) /\ (isControl <=> is_control(m.op))
  BY <1>7, <1>8 DEF Receiving, Received
<1>12. Kept'
  <2>1. CASE isControl
    <3>1. control' = <<m>> /\ control'[1] = m /\ data' = data
      BY <1>6, <2>1
    <3>2. QED
      BY <1>1, <1>2, <1>11, <2>1, <3>1 DEF Kept, Receiving, Received
  <2>2. CASE ~isControl
    <3>1. data' = <<m>> /\ data'[1] = m /\ control' = control
      BY <1>6, <2>2
    <3>2. QED
      BY <1>1, <1>2, <1>11, <2>2, <3>1 DEF Kept, Receiving, Received
  <2>3. QED
    BY <2>1, <2>2
<1>13. CASE (fault \/ needed > a) /\ needed' = needed - a /\ UNCHANGED <<m_state, header, extended>>
  <2>1. needed' \in Nat
    BY <1>3, <1>9, <1>13
  <2>3. Held'
    <3>1. CASE isControl
      <4>1. control' # <<>> /\ control'[1] = m /\ ControlFrame'
        BY <1>6, <1>13, <3>1 DEF ControlFrame, isControl
      <4>2. QED
        BY <4>1 DEF Held
    <3>2. CASE ~isControl
      <4>1. data' # <<>> /\ data'[1] = m /\ ~ControlFrame'
        BY <1>6, <1>13, <3>2 DEF ControlFrame, isControl
      <4>2. QED
        BY <4>1 DEF Held
    <3>3. QED
      BY <3>1, <3>2
  <2>4. Parsing'
    BY <1>2, <1>3, <1>13, <2>1, <2>3 DEF Parsing
  <2>5. QED
    BY <1>5, <1>12, <2>4 DEF ParseInv
<1>14. CASE ~(fault \/ needed > a) /\ reset_headers
  <2>1. Parsing'
    BY <1>14, ResetParses DEF reset_headers
  <2>2. QED
    BY <1>5, <1>12, <2>1 DEF ParseInv
<1>15. CASE m_state' = "ready" /\ needed' = 0 /\ UNCHANGED <<header, extended>>
  <2>1. Parsing'
    BY <1>3, <1>15 DEF Parsing
  <2>2. QED
    BY <1>5, <1>12, <2>1 DEF ParseInv
<1>16. QED
  BY <1>6, <1>13, <1>14, <1>15

(* No step leaves the invariant.                                           *)
THEOREM ParserInvariant == Spec => []ParseInv
<1>1. Init => ParseInv
  BY InitParse
<1>2. ParseInv /\ [Next]_vars => ParseInv'
  <2> SUFFICES ASSUME ParseInv, [Next]_vars PROVE ParseInv'
    OBVIOUS
  <2>1. CASE handle_read_http_response
    BY <2>1, ResponseKeeps
  <2>2. CASE consume
    BY <2>2, HeaderKeeps, ExtendedKeeps, PayloadKeeps DEF consume
  <2>3. CASE get_message
    BY <2>3, MessageKeeps
  <2>4. CASE handle_async_read
    BY <2>4, AsyncReadKeeps
  <2>5. CASE UNCHANGED vars
    BY <2>5 DEF vars, sender, frame, ParseInv, Reading, Unended, Ends, Kept, Receiving, Received,
                Parsing, Short, ControlFrame, Held
  <2>6. QED
    BY <2>1, <2>2, <2>3, <2>4, <2>5 DEF Next
<1>3. QED
  BY <1>1, <1>2, PTL DEF Spec

(* Of every state of the parser, what is read and awaited fits the state:  *)
(* no read goes beyond the input, a header is complete before it is used,  *)
(* and there is at most one message of each kind in progress.              *)
THEOREM ParserTypes == Spec => []TypeOK
<1>1. ParseInv => TypeOK
  <2> SUFFICES ASSUME ParseInv PROVE TypeOK
    OBVIOUS
  <2>1. Reading /\ Kept /\ Parsing
    BY DEF ParseInv
  <2>2. m_state \in {"http", "basic", "extended", "application", "ready"} /\ needed \in Nat
    BY <2>1 DEF Parsing
  <2>3. m_state = "basic" => Len(header) + needed = 2
    BY <2>1 DEF Parsing
  <2>4. m_state = "extended" => Len(header) = 2 /\ Len(extended) + needed = get_header_len(header) - 2
    BY <2>1 DEF Parsing
  <2>5. ASSUME NEW q, q # <<>> => q = <<q[1]>> /\ Receiving(q[1])
        PROVE  Len(q) <= 1 /\ \A m \in ToSet(q) : Received(m)
    <3>1. CASE q = <<>>
      BY <3>1 DEF ToSet
    <3>2. CASE q # <<>>
      <4>1. PICK x : q = <<x>> /\ Received(x)
        BY <2>5, <3>2 DEF Receiving
      <4>2. QED
        BY <4>1 DEF ToSet
    <3>3. QED
      BY <3>1, <3>2
  <2>6. Len(data) <= 1 /\ Len(control) <= 1
    BY <2>1, <2>5 DEF Kept
  <2>7. \A m \in ToSet(data) \cup ToSet(control) \cup ToSet(delivered) : m \in Message
    BY <2>1, <2>5 DEF Kept, Received
  <2>8. \A m \in Message : m.op \in 0 .. 15 /\ m.payload \in Seq(Byte)
    BY DEF Message
  <2>9. QED
    BY <2>1, <2>2, <2>3, <2>4, <2>6, <2>7, <2>8 DEF TypeOK, Reading
<1>2. QED
  BY <1>1, ParserInvariant, PTL

-----------------------------------------------------------------------------
(* The size of messages, as long as the sums of TooBig do not wrap: a      *)
(* message that is being received has room for what its frame still        *)
(* brings.                                                                 *)
Limit(op) == IF is_control(op) THEN payload_size_basic ELSE m_max_message_size
Small(m) == Len(m.payload) <= Limit(m.op)
Room(m) == Len(m.payload) + needed <= Limit(m.op)

BoundInv ==
  /\ data # <<>> => Small(data[1])
  /\ control # <<>> => Small(control[1])
  /\ \A m \in ToSet(delivered) : Small(m)
  /\ m_state = "application" /\ error = "none" =>
       IF ControlFrame THEN Room(control[1]) ELSE Room(data[1])

LEMMA ExtendedBounds ==
  ASSUME ParseInv, BoundInv, read_extended_header, AnnouncesFit'
  PROVE  BoundInv'
<1> DEFINE ext == extended \o Taken
           size == get_payload_size(header, ext) % SizeT
           isControl == is_control(get_opcode(header))
           keyed == [data[1] EXCEPT !.key = get_masking_key(header, ext)]
           a == Available
<1>1. Reading /\ Kept /\ Parsing
  BY DEF ParseInv
<1>2. m_state = "extended" /\ header' = header /\ delivered' = delivered /\ error = "none"
  BY DEF read_extended_header, Turns
<1>3. /\ needed \in Nat /\ header \in Seq(Byte) /\ extended \in Seq(Byte)
      /\ Len(header) = 2 /\ Short /\ Len(extended) + needed = get_header_len(header) - 2
  BY <1>1, <1>2 DEF Parsing
<1>4. a \in 0 .. needed /\ Taken \in Seq(Byte) /\ Len(Taken) = a
  BY <1>1, <1>3, TakenIs
<1>5. ext \in Seq(Byte) /\ Len(ext) = Len(extended) + a
  <2>1. ASSUME NEW x \in Seq(Byte), NEW y \in Seq(Byte)
        PROVE  x \o y \in Seq(Byte) /\ Len(x \o y) = Len(x) + Len(y)
    OBVIOUS
  <2>2. ext \in Seq(Byte) /\ Len(ext) = Len(extended) + Len(Taken)
    BY <1>3, <1>4, <2>1, Zenon
  <2>3. QED
    BY <1>4, <2>2
<1>6. \/ m_state' = m_state /\ UNCHANGED <<data, control>>
      \/ /\ ~(needed > a) /\ m_state' = "application" /\ needed' = size
         /\ \/ isControl /\ control' = <<NewMessage(ext)>> /\ data' = data
            \/ ~isControl /\ error' = "message_too_big" /\ UNCHANGED <<data, control>>
            \/ ~isControl /\ ~TooBig(size) /\ control' = control
                 /\ data' = IF data = <<>> THEN <<NewMessage(ext)>> ELSE <<keyed>>
  BY Zenon DEF read_extended_header
<1> HIDE DEF a, ext, size, isControl, keyed
<1>7. CASE m_state' = m_state /\ UNCHANGED <<data, control>>
  BY <1>2, <1>7 DEF BoundInv, Small, Limit
<1>8. CASE /\ ~(needed > a) /\ m_state' = "application" /\ needed' = size
           /\ \/ isControl /\ control' = <<NewMessage(ext)>> /\ data' = data
              \/ ~isControl /\ error' = "message_too_big" /\ UNCHANGED <<data, control>>
              \/ ~isControl /\ ~TooBig(size) /\ control' = control
                   /\ data' = IF data = <<>> THEN <<NewMessage(ext)>> ELSE <<keyed>>
  <2> DEFINE new == NewMessage(ext)
  <2>1. Len(ext) = get_header_len(header) - 2
    <3>1. a = needed /\ a \in Nat
      BY <1>3, <1>4, <1>8
    <3>2. Len(extended) + needed = get_header_len(header) - 2 /\ Len(ext) = Len(extended) + a
      BY <1>3, <1>5
    <3>3. QED
      BY <3>1, <3>2, Zenon
  <2>2. Len(new.payload) = 0 /\ new.op = get_opcode(header)
    BY <1>3, <1>5, <2>1, NewMessageIs
  <2>3. size \in Nat /\ (get_basic_size(header) <= payload_size_basic => size <= payload_size_basic)
    <3> DEFINE said == get_payload_size(header, ext)
    <3>1. said \in Nat /\ (get_basic_size(header) <= payload_size_basic => said <= payload_size_basic)
      BY <1>3, <1>5, <2>1, ExtendedSays
    <3>2. size = said % SizeT
      BY DEF size
    <3> HIDE DEF said
    <3>3. size \in Nat /\ size <= said
      BY <3>1, <3>2, Wrapped
    <3>4. QED
      BY <3>1, <3>3 DEF payload_size_basic
  <2>4. get_masking_key(header, ext) \in Seq(Byte) /\ Len(get_masking_key(header, ext)) = 4
    BY <1>3, <1>5, <2>1, ExtendedSays
  <2>5. (ControlFrame <=> isControl) /\ (ControlFrame' <=> isControl)
    BY <1>2 DEF ControlFrame, isControl
  <2> HIDE DEF new
  <2>6. /\ m_max_message_size \in Nat /\ SizeT \in Nat /\ payload_size_basic \in Nat
        /\ size + m_max_message_size < SizeT
    BY <1>8, SizeAssumption DEF payload_size_basic, AnnouncesFit
  <2>7. CASE isControl /\ control' = <<NewMessage(ext)>> /\ data' = data
    <3>1. control' = <<new>> /\ control'[1] = new
      BY <2>7 DEF new
    <3>2. size <= payload_size_basic /\ Limit(new.op) = payload_size_basic
      BY <1>3, <2>2, <2>3, <2>5, <2>7 DEF Short, Limit, isControl
    <3>3. Small(new) /\ Len(new.payload) + needed' <= Limit(new.op)
      BY <1>8, <2>2, <2>3, <2>6, <3>2 DEF Small
    <3>4. Room(control[1])'
      BY <3>1, <3>3 DEF Room, Limit
    <3>5. QED
      BY <1>2, <2>5, <2>7, <3>1, <3>3, <3>4 DEF BoundInv, Small, Limit
  <2>8. CASE ~isControl /\ error' = "message_too_big" /\ UNCHANGED <<data, control>>
    BY <1>2, <2>8 DEF BoundInv, Small, Limit
  <2>9. CASE ~isControl /\ ~TooBig(size) /\ control' = control
               /\ data' = IF data = <<>> THEN <<NewMessage(ext)>> ELSE <<keyed>>
    <3>1. \E m : data' = <<m>> /\ ~is_control(m.op) /\ Len(m.payload) \in Nat
                 /\ Len(m.payload) + size <= m_max_message_size
      <4>1. CASE data = <<>>
        <5>1. size <= m_max_message_size
          BY <2>3, <2>6, <2>9, <4>1, Wrapped DEF TooBig
        <5>2. data' = <<new>>
          BY <2>9, <4>1 DEF new
        <5>3. QED
          BY <2>2, <2>3, <2>9, <5>1, <5>2 DEF isControl
      <4>2. CASE data # <<>>
        <5>1. data[1] \in Message /\ ~is_control(data[1].op)
          BY <1>1, <4>2 DEF Kept, Receiving, Received
        <5>2. keyed.payload = data[1].payload /\ keyed.op = data[1].op
          BY <2>4, <5>1, KeyedIs DEF keyed
        <5> DEFINE length == Len(data[1].payload)
        <5>3. length \in Nat
          BY <5>1, LenProperties DEF Message
        <5>4. length <= m_max_message_size
          BY <4>2, <5>1 DEF BoundInv, Small, Limit
        <5>5. ~((length + size) % SizeT > m_max_message_size)
          BY <2>9, <4>2 DEF TooBig
        <5> HIDE DEF length
        <5>6. length + size \in Nat /\ length + size < SizeT
          BY <2>3, <2>6, <5>3, <5>4
        <5>7. length + size <= m_max_message_size
          BY <2>6, <5>5, <5>6, Wrapped
        <5>8. data' = <<keyed>>
          BY <2>9, <4>2
        <5>9. QED
          BY <5>1, <5>2, <5>3, <5>7, <5>8 DEF length
      <4>3. QED
        BY <4>1, <4>2
    <3>2. PICK m : data' = <<m>> /\ ~is_control(m.op) /\ Len(m.payload) \in Nat
                   /\ Len(m.payload) + size <= m_max_message_size
      BY <3>1
    <3>3. data'[1] = m /\ Limit(m.op) = m_max_message_size
      BY <3>2 DEF Limit
    <3>4. Small(m) /\ Len(m.payload) + needed' <= Limit(m.op)
      BY <1>8, <2>3, <2>6, <3>2, <3>3 DEF Small
    <3>5. Room(data[1])'
      BY <3>3, <3>4 DEF Room, Limit
    <3>6. QED
      BY <1>2, <2>5, <2>9, <3>3, <3>4, <3>5 DEF BoundInv, Small, Limit
  <2>10. QED
    BY <1>8, <2>7, <2>8, <2>9
<1>9. QED
  BY <1>6, <1>7, <1>8

LEMMA PayloadBounds ==
  ASSUME ParseInv, BoundInv, process_payload
  PROVE  BoundInv'
<1> DEFINE isControl == is_control(get_opcode(header))
           old == IF isControl THEN control[1] ELSE data[1]
           m == Filled(old, Taken)
           a == Available
<1>1. Reading /\ Kept /\ Parsing
  BY DEF ParseInv
<1>2. m_state = "application" /\ delivered' = delivered /\ error = "none"
  BY DEF process_payload, Turns
<1>3. needed \in Nat /\ header \in Seq(Byte) /\ Len(header) = 2 /\ Held
  BY <1>1, <1>2 DEF Parsing
<1>4. a \in 0 .. needed /\ Taken \in Seq(Byte) /\ Len(Taken) = a
  BY <1>1, <1>3, TakenIs
<1>5. /\ isControl => control' = <<m>> /\ data' = data
      /\ ~isControl => data' = <<m>> /\ control' = control
      /\ \/ m_state' # "application"
         \/ needed' = needed - a /\ header' = header
  BY Zenon DEF process_payload, reset_headers
<1>6. old \in Message /\ Len(old.key) = 4 /\ Room(old)
  BY <1>1, <1>2, <1>3 DEF Kept, Receiving, Received, Held, ControlFrame, BoundInv
<1> HIDE DEF old, isControl
<1>7. m.op = old.op /\ Len(m.payload) = Len(old.payload) + Len(Taken)
  BY <1>4, <1>6, FilledIs
<1> HIDE DEF m, a
<1>8. Len(m.payload) + (needed - a) <= Limit(m.op) /\ Small(m)
  <2>1. Len(old.payload) \in Nat /\ Limit(old.op) \in Nat
    BY <1>6, LenProperties, SizeAssumption DEF Message, Limit, payload_size_basic
  <2>2. Len(old.payload) + needed <= Limit(old.op)
    BY <1>6 DEF Room
  <2>3. Len(old.payload) + a + (needed - a) <= Limit(old.op) /\ Len(old.payload) + a <= Limit(old.op)
    BY <1>3, <1>4, <2>1, <2>2
  <2>4. QED
    BY <1>4, <1>7, <2>3 DEF Small
<1>9. ASSUME m_state' = "application"
      PROVE  IF ControlFrame' THEN Room(control[1])' ELSE Room(data[1])'
  <2>1. needed' = needed - a /\ header' = header
    BY <1>5, <1>9
  <2>2. CASE isControl
    <3>1. control'[1] = m /\ ControlFrame'
      BY <1>5, <2>1, <2>2 DEF ControlFrame, isControl
    <3>2. QED
      BY <1>8, <2>1, <3>1 DEF Room, Limit
  <2>3. CASE ~isControl
    <3>1. data'[1] = m /\ ~ControlFrame'
      BY <1>5, <2>1, <2>3 DEF ControlFrame, isControl
    <3>2. QED
      BY <1>8, <2>1, <3>1 DEF Room, Limit
  <2>4. QED
    BY <2>2, <2>3
<1>10. (data' # <<>> => Small(data[1])') /\ (control' # <<>> => Small(control[1])')
  <2>1. CASE isControl
    <3>1. control'[1] = m /\ data' = data
      BY <1>5, <2>1
    <3>2. QED
      BY <1>8, <3>1 DEF BoundInv, Small, Limit
  <2>2. CASE ~isControl
    <3>1. data'[1] = m /\ control' = control
      BY <1>5, <2>2
    <3>2. QED
      BY <1>8, <3>1 DEF BoundInv, Small, Limit
  <2>3. QED
    BY <2>1, <2>2
<1>11. QED
  BY <1>2, <1>9, <1>10 DEF BoundInv, Small, Limit

LEMMA MessageBounds ==
  ASSUME ParseInv, BoundInv, get_message
  PROVE  BoundInv'
<1>1. Kept
  BY DEF ParseInv
<1>2. m_state' = "basic"
  BY DEF get_message, reset_headers
<1>3. ASSUME NEW q, q # <<>> => q = <<q[1]>> /\ Received(q[1]) /\ Small(q[1]),
             delivered' = delivered \o q
      PROVE  \A m \in ToSet(delivered') : Small(m)
  <2>1. delivered \in Seq(Message) /\ \A m \in ToSet(delivered) : Small(m)
    BY <1>1 DEF Kept, BoundInv
  <2>2. CASE q = <<>>
    <3>1. ASSUME NEW x \in Seq(Message) PROVE x \o <<>> = x
      OBVIOUS
    <3>2. delivered' = delivered
      BY <1>3, <2>1, <2>2, <3>1
    <3>3. QED
      BY <2>1, <3>2
  <2>3. CASE q = <<q[1]>> /\ Received(q[1]) /\ Small(q[1])
    <3>1. q[1] \in Message
      BY <2>3 DEF Received
    <3>2. ASSUME NEW x \in Seq(Message), NEW y \in Message
          PROVE  \A m \in ToSet(x \o <<y>>) : m = y \/ m \in ToSet(x)
      <4>1. \A i \in 1 .. Len(x) + 1 : (x \o <<y>>)[i] = IF i = Len(x) + 1 THEN y ELSE x[i]
        OBVIOUS
      <4>2. DOMAIN (x \o <<y>>) = 1 .. Len(x) + 1 /\ Len(x) \in Nat /\ DOMAIN x = 1 .. Len(x)
        BY LenProperties
      <4>3. QED
        BY <4>1, <4>2 DEF ToSet
    <3>3. delivered' = delivered \o <<q[1]>>
      BY <1>3, <2>3
    <3>4. QED
      BY <2>1, <2>3, <3>1, <3>2, <3>3, Zenon
  <2>4. QED
    BY <1>3, <2>2, <2>3
<1>4. /\ data # <<>> => data = <<data[1]>> /\ Received(data[1]) /\ Small(data[1])
      /\ control # <<>> => control = <<control[1]>> /\ Received(control[1]) /\ Small(control[1])
  BY <1>1 DEF Kept, Receiving, BoundInv
<1>5. CASE delivered' = delivered \o control /\ control' = <<>> /\ data' = data
  <2>1. \A m \in ToSet(delivered') : Small(m)
    BY <1>3, <1>4, <1>5
  <2>2. QED
    BY <1>2, <1>4, <1>5, <2>1 DEF BoundInv, Small, Limit
<1>6. CASE delivered' = delivered \o data /\ data' = <<>> /\ control' = control
  <2>1. \A m \in ToSet(delivered') : Small(m)
    BY <1>3, <1>4, <1>6
  <2>2. QED
    BY <1>2, <1>4, <1>6, <2>1 DEF BoundInv, Small, Limit
<1>7. QED
  BY <1>5, <1>6 DEF get_message

LEMMA InitBound == Init => BoundInv
BY DEF Init, BoundInv, ToSet

LEMMA BoundKept ==
  ASSUME ParseInv, BoundInv, [Next]_vars, AnnouncesFit'
  PROVE  BoundInv'
<1>1. CASE handle_read_http_response
  BY <1>1 DEF handle_read_http_response, BoundInv, Small, Limit
<1>2. CASE read_header
  BY <1>2 DEF read_header, BoundInv, Small, Limit
<1>3. CASE read_extended_header
  BY <1>3, ExtendedBounds
<1>4. CASE process_payload
  BY <1>4, PayloadBounds
<1>5. CASE get_message
  BY <1>5, MessageBounds
<1>6. CASE handle_async_read
  BY <1>6 DEF handle_async_read, frame, BoundInv, Small, Room, Limit, ControlFrame
<1>7. CASE UNCHANGED vars
  BY <1>7 DEF vars, frame, BoundInv, Small, Room, Limit, ControlFrame
<1>8. QED
  BY <1>1, <1>2, <1>3, <1>4, <1>5, <1>6, <1>7 DEF Next, consume

(* No message in progress or delivered is larger than the limit, however   *)
(* the bytes are cut into reads and whatever frames they are, as long as   *)
(* no frame announces a size within the limit of the top of size_t; the    *)
(* sum at hybi13.hpp:457 wraps if one does.                                *)
THEOREM MessagesBounded == Spec /\ []AnnouncesFit => []MessagesAreBounded
<1>1. ParseInv /\ BoundInv => MessagesAreBounded
  <2> SUFFICES ASSUME ParseInv, BoundInv PROVE MessagesAreBounded
    OBVIOUS
  <2>1. Kept
    BY DEF ParseInv
  <2>2. ASSUME NEW q, q # <<>> => q = <<q[1]>> /\ Small(q[1])
        PROVE  \A m \in ToSet(q) : Small(m)
    <3>1. CASE q = <<>>
      BY <3>1 DEF ToSet
    <3>2. CASE q # <<>>
      <4>1. PICK x : q = <<x>> /\ Small(x)
        BY <2>2, <3>2
      <4>2. QED
        BY <4>1 DEF ToSet
    <3>3. QED
      BY <3>1, <3>2
  <2>3. \A m \in ToSet(data) \cup ToSet(control) \cup ToSet(delivered) : Small(m)
    BY <2>1, <2>2 DEF Kept, BoundInv
  <2>4. QED
    BY <2>3 DEF MessagesAreBounded, Small, Limit
<1>2. ParseInv /\ BoundInv /\ [Next]_vars /\ AnnouncesFit' => BoundInv'
  BY BoundKept
<1>3. QED
  BY <1>1, <1>2, InitBound, ParserInvariant, PTL DEF Spec
-----------------------------------------------------------------------------
(* The handshake.  A response is plain if there is one, if each line is a  *)
(* byte, as the model means it, and if its size is not one that consume    *)
(* may or may not take for too large, depending on the reads: a turn of    *)
(* its loop may count six bytes for the three of a line.                   *)
Plain(lines) ==
  LET size == 3 * Len(lines) + 2
  IN  /\ lines # <<>> /\ \A i \in 1 .. Len(lines) : Len(lines[i]) = 1
      /\ size > max_header_size \/ 5 * size <= max_header_size

Lined(q, lines) ==
  LET n == Len(lines)
  IN  /\ 3 * n + 2 <= Len(q) /\ q[3 * n + 1] = 13 /\ q[3 * n + 2] = 10
      /\ \A j \in 0 .. n - 1 :
           q[3 * j + 1] = lines[j + 1][1] /\ q[3 * j + 2] = 13 /\ q[3 * j + 3] = 10

LEMMA Joined ==
  ASSUME NEW x \in Seq(Byte), NEW y \in Seq(Byte)
  PROVE  /\ x \o y \in Seq(Byte) /\ Len(x \o y) = Len(x) + Len(y)
         /\ Len(x) \in Nat /\ Len(y) \in Nat
         /\ \A i \in 1 .. Len(x) : (x \o y)[i] = x[i]
         /\ \A i \in 1 .. Len(y) : (x \o y)[Len(x) + i] = y[i]
<1>1. Len(x) \in Nat /\ Len(y) \in Nat /\ x \o y \in Seq(Byte) /\ Len(x \o y) = Len(x) + Len(y)
  BY LenProperties, ConcatProperties
<1>2. \A i \in 1 .. Len(x) : (x \o y)[i] = x[i]
  BY <1>1, ConcatProperties
<1>3. ASSUME NEW i \in 1 .. Len(y) PROVE (x \o y)[Len(x) + i] = y[i]
  OBVIOUS
<1>4. QED
  BY <1>1, <1>2, <1>3

LEMMA OfOne ==
  ASSUME NEW s \in Seq(Byte), Len(s) = 1
  PROVE  s = <<s[1]>> /\ ToSet(s) = {s[1]}
<1>1. DOMAIN s = 1 .. 1
  BY LenProperties
<1>2. s = <<s[1]>>
  BY <1>1
<1>3. ToSet(s) = {s[1]}
  BY <1>1 DEF ToSet
<1>4. QED
  BY <1>2, <1>3

(* A line of one byte and its end. *)
LEMMA OneLine ==
  ASSUME NEW line \in Seq(Byte), Len(line) = 1
  PROVE  /\ line \o CRLF \in Seq(Byte) /\ Len(line \o CRLF) = 3
         /\ (line \o CRLF)[1] = line[1] /\ (line \o CRLF)[2] = 13 /\ (line \o CRLF)[3] = 10
<1>1. CRLF \in Seq(Byte) /\ Len(CRLF) = 2 /\ CRLF[1] = 13 /\ CRLF[2] = 10
  BY DEF CRLF, Byte
<1> HIDE DEF CRLF
<1>2. /\ line \o CRLF \in Seq(Byte) /\ Len(line \o CRLF) = Len(line) + Len(CRLF)
      /\ \A i \in 1 .. Len(line) : (line \o CRLF)[i] = line[i]
      /\ \A i \in 1 .. Len(CRLF) : (line \o CRLF)[Len(line) + i] = CRLF[i]
  BY <1>1, Joined
<1>3. (line \o CRLF)[1 + 1] = CRLF[1] /\ (line \o CRLF)[1 + 2] = CRLF[2]
  BY <1>1, <1>2
<1>4. (line \o CRLF)[1] = line[1]
  BY <1>2
<1>5. QED
  BY <1>1, <1>2, <1>3, <1>4

LEMMA TextIs ==
  ASSUME ~server, NEW lines \in Seq(Seq(Byte)), \A i \in 1 .. Len(lines) : Len(lines[i]) = 1
  PROVE  Text(lines) \in Seq(Byte) /\ Len(Text(lines)) = 3 * Len(lines) + 2 /\ Lined(Text(lines), lines)
<1> DEFINE n == Len(lines)
           parts == [i \in DOMAIN lines |-> lines[i] \o CRLF]
           F == JoinEffect(Byte)
           X == Seq(Byte)
<1>1. n \in Nat /\ DOMAIN lines = 1 .. n /\ \A i \in 1 .. n : lines[i] \in X /\ Len(lines[i]) = 1
  BY LenProperties, ElementOfSeq
<1>2. ASSUME NEW i \in 1 .. n
      PROVE  /\ parts[i] \in X /\ Len(parts[i]) = 3
             /\ parts[i][1] = lines[i][1] /\ parts[i][2] = 13 /\ parts[i][3] = 10
  BY <1>1, OneLine
<1>3. parts \in Seq(X) /\ Len(parts) = n
  <2>1. \A i \in 1 .. n : parts[i] \in X
    BY <1>2
  <2>2. DOMAIN parts = 1 .. n
    BY <1>1
  <2>3. parts \in [1 .. n -> X]
    BY <2>1, <2>2
  <2> HIDE DEF parts, X, n
  <2>4. QED
    BY <1>1, <2>3, LenProperties
<1> HIDE DEF parts
<1>4. FlattenSeq(parts) = Through(F, X, <<>>, parts)
  BY <1>3, FlattenThrough
<1>5. F \in [X -> [X -> X]] /\ <<>> \in X
  BY JoinType
<1> HIDE DEF F
<1>6. PICK w : Path(F, X, <<>>, parts, w) /\ FlattenSeq(parts) = w[n]
  <2> HIDE DEF X, n
  <2>1. QED
    BY <1>3, <1>4, <1>5, ThroughPath
<1>7. /\ w \in [0 .. n -> X] /\ w[0] = <<>>
      /\ \A i \in 1 .. n : w[i] = F[parts[i]][w[i - 1]]
  BY <1>3, <1>6 DEF Path
<1> DEFINE Good(i) == /\ Len(w[i]) = 3 * i
                      /\ \A j \in 0 .. i - 1 : /\ w[i][3 * j + 1] = lines[j + 1][1]
                                               /\ w[i][3 * j + 2] = 13 /\ w[i][3 * j + 3] = 10
           T == {i \in Nat : i <= n => Good(i)}
<1>8. 0 \in T
  <2>1. Len(w[0]) = 0
    BY <1>7
  <2>2. QED
    BY <2>1
<1>9. ASSUME NEW i \in Nat, i \in T PROVE i + 1 \in T
  <2>1. SUFFICES ASSUME i + 1 <= n PROVE Good(i + 1)
    OBVIOUS
  <2> DEFINE old == w[i]
             part == parts[i + 1]
             new == old \o part
  <2>2. Good(i) /\ i \in 0 .. n /\ i + 1 \in 1 .. n
    BY <1>1, <1>9, <2>1
  <2>3. old \in X
    BY <1>7, <2>2
  <2>4. /\ part \in X /\ Len(part) = 3
        /\ part[1] = lines[i + 1][1] /\ part[2] = 13 /\ part[3] = 10
    BY <1>2, <2>2
  <2>5. w[i + 1] = new
    <3>1. w[i + 1] = F[part][w[i + 1 - 1]]
      BY <1>7, <2>2
    <3>2. w[i + 1 - 1] = old
      OBVIOUS
    <3>3. F[part][old] = old \o part
      BY <2>3, <2>4 DEF F, JoinEffect
    <3>4. QED
      BY <3>1, <3>2, <3>3
  <2>6. Len(old) = 3 * i /\ \A j \in 0 .. i - 1 : /\ old[3 * j + 1] = lines[j + 1][1]
                                                  /\ old[3 * j + 2] = 13 /\ old[3 * j + 3] = 10
    BY <2>2
  <2> HIDE DEF old, part, Good, T
  <2>7. /\ Len(new) = Len(old) + Len(part)
        /\ \A k \in 1 .. Len(old) : new[k] = old[k]
        /\ \A k \in 1 .. Len(part) : new[Len(old) + k] = part[k]
    BY <2>3, <2>4, Joined
  <2> HIDE DEF new
  <2>8. Len(new) = 3 * (i + 1)
    BY <2>4, <2>6, <2>7
  <2>9. new[3 * i + 1] = part[1] /\ new[3 * i + 2] = part[2] /\ new[3 * i + 3] = part[3]
    BY <2>4, <2>6, <2>7
  <2>10. ASSUME NEW j \in 0 .. i + 1 - 1
         PROVE  new[3 * j + 1] = lines[j + 1][1] /\ new[3 * j + 2] = 13 /\ new[3 * j + 3] = 10
    <3>1. CASE j = i
      BY <2>4, <2>9, <3>1
    <3>2. CASE j # i
      <4>1. j \in 0 .. i - 1 /\ 3 * j + 1 \in 1 .. 3 * i /\ 3 * j + 2 \in 1 .. 3 * i
            /\ 3 * j + 3 \in 1 .. 3 * i
        BY <3>2
      <4>2. QED
        BY <2>6, <2>7, <4>1
    <3>3. QED
      BY <3>1, <3>2
  <2>11. QED
    BY <2>5, <2>8, <2>10 DEF Good
<1>10. Good(n)
  <2> HIDE DEF T, n, Good
  <2>1. n \in T
    BY <1>1, <1>8, <1>9, SetInduction
  <2>2. QED
    BY <1>1, <2>1 DEF T
<1> DEFINE flat == FlattenSeq(parts)
           all == flat \o CRLF
<1>11. flat \in X /\ Len(flat) = 3 * n
       /\ \A j \in 0 .. n - 1 : /\ flat[3 * j + 1] = lines[j + 1][1]
                                /\ flat[3 * j + 2] = 13 /\ flat[3 * j + 3] = 10
  BY <1>1, <1>6, <1>7, <1>10
<1>12. CRLF \in Seq(Byte) /\ Len(CRLF) = 2 /\ CRLF[1] = 13 /\ CRLF[2] = 10
  BY DEF CRLF, Byte
<1>13. Text(lines) = all
  BY DEF Text, parts
<1> HIDE DEF flat, n, CRLF
<1>14. /\ all \in Seq(Byte) /\ Len(all) = Len(flat) + Len(CRLF)
       /\ \A i \in 1 .. Len(flat) : all[i] = flat[i]
       /\ \A i \in 1 .. Len(CRLF) : all[Len(flat) + i] = CRLF[i]
  BY <1>11, <1>12, Joined
<1> HIDE DEF all
<1>15. Len(all) = 3 * n + 2 /\ all[3 * n + 1] = 13 /\ all[3 * n + 2] = 10
  BY <1>1, <1>11, <1>12, <1>14
<1>16. ASSUME NEW j \in 0 .. n - 1
       PROVE  all[3 * j + 1] = lines[j + 1][1] /\ all[3 * j + 2] = 13 /\ all[3 * j + 3] = 10
  <2>1. 3 * j + 1 \in 1 .. 3 * n /\ 3 * j + 2 \in 1 .. 3 * n /\ 3 * j + 3 \in 1 .. 3 * n
    BY <1>1
  <2>2. QED
    BY <1>11, <1>14, <2>1
<1>17. 3 * n + 2 <= Len(all)
  BY <1>1, <1>15
<1>18. Lined(all, lines)
  BY <1>15, <1>16, <1>17 DEF Lined, n
<1>19. QED
  BY <1>13, <1>14, <1>15, <1>18 DEF n

(* What follows the response does not change its lines. *)
LEMMA LinedAfter ==
  ASSUME NEW q \in Seq(Byte), NEW after \in Seq(Byte), NEW lines \in Seq(Seq(Byte)), Lined(q, lines)
  PROVE  Lined(q \o after, lines)
<1> DEFINE n == Len(lines)
           all == q \o after
<1>1. n \in Nat /\ Len(q) \in Nat
  BY LenProperties
<1>2. Len(all) = Len(q) + Len(after) /\ Len(after) \in Nat
      /\ \A i \in 1 .. Len(q) : all[i] = q[i]
  BY Joined
<1> HIDE DEF all
<1>3. /\ 3 * n + 2 <= Len(q) /\ q[3 * n + 1] = 13 /\ q[3 * n + 2] = 10
      /\ \A j \in 0 .. n - 1 :
           q[3 * j + 1] = lines[j + 1][1] /\ q[3 * j + 2] = 13 /\ q[3 * j + 3] = 10
  BY DEF Lined
<1> HIDE DEF n
<1>4. 3 * n + 2 <= Len(all) /\ all[3 * n + 1] = 13 /\ all[3 * n + 2] = 10
  BY <1>1, <1>2, <1>3
<1>5. ASSUME NEW j \in 0 .. n - 1
      PROVE  all[3 * j + 1] = lines[j + 1][1] /\ all[3 * j + 2] = 13 /\ all[3 * j + 3] = 10
  <2>1. 3 * j + 1 \in 1 .. Len(q) /\ 3 * j + 2 \in 1 .. Len(q) /\ 3 * j + 3 \in 1 .. Len(q)
    BY <1>1, <1>3
  <2>2. QED
    BY <1>2, <1>3, <2>1
<1>6. QED
  BY <1>4, <1>5 DEF Lined, n, all

(* What is kept and read while m lines are still to come, the blank one    *)
(* not counted, and the lines that consume finds in it.                    *)
Shaped(buf, m) ==
  /\ \A j \in 0 .. m - 1 : /\ 3 * j + 2 <= Len(buf) => buf[3 * j + 2] = 13
                           /\ 3 * j + 3 <= Len(buf) => buf[3 * j + 3] = 10
  /\ 3 * m + 1 <= Len(buf) => buf[3 * m + 1] = 13
  /\ 3 * m + 2 <= Len(buf) => buf[3 * m + 2] = 10

LEMMA ShapedEnds ==
  ASSUME NEW buf \in Seq(Byte), NEW m \in Nat, Shaped(buf, m)
  PROVE  /\ \A j \in 0 .. m - 1 : /\ 3 * j + 1 \notin Ends(buf) /\ 3 * j + 3 \notin Ends(buf)
                                  /\ 3 * j + 2 \in Ends(buf) <=> 3 * j + 3 <= Len(buf)
         /\ 3 * m + 1 \in Ends(buf) <=> 3 * m + 2 <= Len(buf)
<1>1. \A i \in Nat : i \in Ends(buf) <=>
        i >= 1 /\ i + 1 <= Len(buf) /\ buf[i] = 13 /\ buf[i + 1] = 10
  BY EndsAre
<1>2. Len(buf) \in Nat
  BY LenProperties
<1>3. ASSUME NEW j \in 0 .. m - 1
      PROVE  /\ 3 * j + 1 \notin Ends(buf) /\ 3 * j + 3 \notin Ends(buf)
             /\ 3 * j + 2 \in Ends(buf) <=> 3 * j + 3 <= Len(buf)
  <2>1. j \in Nat /\ 3 * j + 1 \in Nat /\ 3 * j + 2 \in Nat /\ 3 * j + 3 \in Nat
    OBVIOUS
  <2>2. /\ 3 * j + 2 <= Len(buf) => buf[3 * j + 2] = 13
        /\ 3 * j + 3 <= Len(buf) => buf[3 * j + 3] = 10
    BY DEF Shaped
  <2>3. 3 * j + 1 \notin Ends(buf)
    <3>1. 3 * j + 1 \in Ends(buf) => 3 * j + 1 + 1 <= Len(buf) /\ buf[3 * j + 1 + 1] = 10
      BY <1>1, <2>1
    <3>2. 3 * j + 1 + 1 = 3 * j + 2
      BY <2>1
    <3>3. QED
      BY <2>2, <3>1, <3>2
  <2>4. 3 * j + 3 \notin Ends(buf)
    <3>1. 3 * j + 3 \in Ends(buf) => 3 * j + 3 + 1 <= Len(buf) /\ buf[3 * j + 3] = 13
      BY <1>1, <2>1
    <3>2. QED
      BY <1>2, <2>1, <2>2, <3>1
  <2>5. 3 * j + 2 \in Ends(buf) <=> 3 * j + 3 <= Len(buf)
    <3>1. 3 * j + 2 \in Ends(buf) <=>
            3 * j + 2 >= 1 /\ 3 * j + 2 + 1 <= Len(buf) /\ buf[3 * j + 2] = 13 /\ buf[3 * j + 2 + 1] = 10
      BY <1>1, <2>1
    <3>2. 3 * j + 2 + 1 = 3 * j + 3 /\ 3 * j + 2 >= 1
      BY <2>1
    <3>3. 3 * j + 3 <= Len(buf) => 3 * j + 2 <= Len(buf)
      BY <1>2, <2>1
    <3>4. QED
      BY <2>2, <3>1, <3>2, <3>3
  <2>6. QED
    BY <2>3, <2>4, <2>5
<1>4. 3 * m + 1 \in Ends(buf) <=> 3 * m + 2 <= Len(buf)
  <2>1. 3 * m + 1 \in Ends(buf) <=>
          3 * m + 1 >= 1 /\ 3 * m + 1 + 1 <= Len(buf) /\ buf[3 * m + 1] = 13 /\ buf[3 * m + 1 + 1] = 10
    BY <1>1
  <2>2. 3 * m + 1 + 1 = 3 * m + 2 /\ 3 * m + 1 >= 1
    OBVIOUS
  <2>3. 3 * m + 2 <= Len(buf) => 3 * m + 1 <= Len(buf)
    BY <1>2
  <2>4. QED
    BY <2>1, <2>2, <2>3 DEF Shaped
<1>5. QED
  BY <1>3, <1>4

LEMMA ByThree ==
  ASSUME NEW m \in Nat, NEW i \in 1 .. 3 * m
  PROVE  \E j \in 0 .. m - 1 : i = 3 * j + 1 \/ i = 3 * j + 2 \/ i = 3 * j + 3
<1> DEFINE j == (i - 1) \div 3
<1>1. j \in 0 .. m - 1 /\ (i = 3 * j + 1 \/ i = 3 * j + 2 \/ i = 3 * j + 3)
  OBVIOUS
<1> HIDE DEF j
<1>2. QED
  BY <1>1

LEMMA ShapedBegins ==
  ASSUME NEW buf \in Seq(Byte), NEW m \in Nat, Shaped(buf, m)
  PROVE  /\ \A j \in 0 .. m : 3 * j <= Len(buf) => 3 * j + 1 \in Begins(buf)
         /\ \A b \in Begins(buf) : b <= 3 * m + 1 => \E j \in 0 .. m : b = 3 * j + 1 /\ 3 * j <= Len(buf)
<1>1. /\ \A j \in 0 .. m - 1 : /\ 3 * j + 1 \notin Ends(buf) /\ 3 * j + 3 \notin Ends(buf)
                               /\ 3 * j + 2 \in Ends(buf) <=> 3 * j + 3 <= Len(buf)
  BY ShapedEnds
<1>2. Len(buf) \in Nat
  BY LenProperties
<1>3. ASSUME NEW j \in 0 .. m, 3 * j <= Len(buf)
      PROVE  3 * j + 1 \in Begins(buf)
  <2>1. CASE j = 0
    BY <2>1 DEF Begins
  <2>2. CASE j # 0
    <3>1. j - 1 \in 0 .. m - 1 /\ 3 * (j - 1) + 3 <= Len(buf) /\ 3 * (j - 1) + 2 + 2 = 3 * j + 1
      BY <1>3, <2>2
    <3>2. 3 * (j - 1) + 2 \in Ends(buf)
      BY <1>1, <3>1
    <3>3. QED
      BY <3>1, <3>2 DEF Begins
  <2>3. QED
    BY <2>1, <2>2
<1>4. ASSUME NEW b \in Begins(buf), b <= 3 * m + 1
      PROVE  \E j \in 0 .. m : b = 3 * j + 1 /\ 3 * j <= Len(buf)
  <2>1. CASE b = 1
    <3>1. 0 \in 0 .. m /\ b = 3 * 0 + 1 /\ 3 * 0 <= Len(buf)
      BY <1>2, <2>1
    <3>2. QED
      BY <3>1
  <2>2. CASE b # 1
    <3>1. PICK i \in Ends(buf) : b = i + 2
      BY <2>2 DEF Begins
    <3>2. i \in Nat /\ i >= 1 /\ i + 1 <= Len(buf)
      BY <3>1, EndsAre
    <3>3. i \in 1 .. 3 * m
      BY <1>4, <3>1, <3>2
    <3>4. PICK j \in 0 .. m - 1 : i = 3 * j + 1 \/ i = 3 * j + 2 \/ i = 3 * j + 3
      BY <3>3, ByThree
    <3>5. i = 3 * j + 2 /\ 3 * j + 3 <= Len(buf)
      BY <1>1, <3>1, <3>4
    <3>6. j + 1 \in 0 .. m /\ b = 3 * (j + 1) + 1 /\ 3 * (j + 1) <= Len(buf)
      BY <3>1, <3>4, <3>5
    <3>7. QED
      BY <3>6
  <2>3. QED
    BY <2>1, <2>2
<1>5. QED
  BY <1>3, <1>4

(* The line that begins after j of the m: its byte, or what there is of it. *)
LEMMA ShapedLine ==
  ASSUME NEW buf \in Seq(Byte), NEW m \in Nat, Shaped(buf, m), NEW j \in 0 .. m, 3 * j <= Len(buf)
  PROVE  LET b == 3 * j + 1
         IN  /\ j < m /\ 3 * j + 3 <= Len(buf) =>
                  End(buf, b) = b + 1 /\ End(buf, b) \in Ends(buf) /\ Line(buf, b) = <<buf[b]>>
             /\ j = m /\ 3 * j + 2 <= Len(buf) =>
                  End(buf, b) = b /\ End(buf, b) \in Ends(buf) /\ Line(buf, b) = <<>>
             /\ ~(j < m /\ 3 * j + 3 <= Len(buf)) /\ ~(j = m /\ 3 * j + 2 <= Len(buf)) =>
                  /\ End(buf, b) \notin Ends(buf) /\ Line(buf, b) = SubSeq(buf, b, Len(buf))
                  /\ Len(buf) + 1 - b <= 2
             /\ Len(Line(buf, b)) \in 0 .. 2
<1> DEFINE b == 3 * j + 1
           n == Len(buf)
           e == End(buf, b)
<1>1. /\ \A k \in 0 .. m - 1 : /\ 3 * k + 1 \notin Ends(buf) /\ 3 * k + 3 \notin Ends(buf)
                               /\ 3 * k + 2 \in Ends(buf) <=> 3 * k + 3 <= n
      /\ 3 * m + 1 \in Ends(buf) <=> 3 * m + 2 <= n
  BY ShapedEnds
<1>2. n \in Nat
  BY LenProperties
<1>3. b \in Begins(buf)
  BY ShapedBegins
<1>4. /\ e \in b .. n + 1 /\ (e \in Ends(buf) \/ e = n + 1)
      /\ Line(buf, b) \in Seq(Byte) /\ Len(Line(buf, b)) = e - b
  <2> HIDE DEF b
  <2>1. QED
    BY <1>3, LineIs
<1>5. \A i \in Ends(buf) : i \in Nat /\ i >= 1 /\ i + 1 <= n
  BY EndsAre
<1>6. \A i \in Ends(buf) : i >= b => e <= i
  <2> DEFINE T == {i \in Ends(buf) : i >= b} \cup {n + 1}
  <2>1. T \subseteq Nat /\ T # {}
    BY <1>2, <1>5
  <2> HIDE DEF T
  <2>2. \A y \in T : Min(T) <= y
    BY <2>1, MinOf
  <2>3. QED
    BY <2>2 DEF T, End
<1>7. Line(buf, b) = SubSeq(buf, b, e - 1)
  BY DEF Line
<1> HIDE DEF e, n
<1>8. ASSUME j < m, 3 * j + 3 <= n
      PROVE  e = b + 1 /\ e \in Ends(buf) /\ Line(buf, b) = <<buf[b]>>
  <2>1. j \in 0 .. m - 1 /\ b \notin Ends(buf) /\ b + 1 \in Ends(buf) /\ b + 1 >= b /\ b \in Nat
    BY <1>1, <1>8
  <2>2. e = b + 1
    <3>1. e <= b + 1 /\ e \in b .. n + 1
      BY <1>4, <1>6, <2>1
    <3>2. b + 1 < n + 1
      BY <1>2, <1>8
    <3>3. e # b
      BY <1>2, <1>4, <2>1, <3>2
    <3>4. QED
      BY <1>2, <2>1, <3>1, <3>3
  <2>3. b \in Nat \ {0} /\ b <= n /\ b <= b + 1 /\ b + 1 - b = 1 /\ b + 1 - 1 = b
    BY <1>2, <1>8
  <2>4. SubSeq(buf, b, b) = <<buf[b]>>
    <3> HIDE DEF b
    <3>1. b \in Nat \ {0} /\ b \in Nat /\ b <= Len(buf) /\ b <= b + 1
      BY <2>3 DEF n
    <3> DEFINE part == SubSeq(buf, b, b)
    <3>2. /\ part \in Seq(Byte) /\ Len(part) = b + 1 - b
          /\ \A i \in 1 .. b + 1 - b : part[i] = buf[b + i - 1]
      BY <3>1, Part
    <3> HIDE DEF part
    <3>3. part \in Seq(Byte) /\ Len(part) = 1 /\ part[1] = buf[b]
      BY <2>3, <3>2
    <3>4. part = <<buf[b]>>
      BY <3>3, OfOne
    <3>5. QED
      BY <3>4 DEF part
  <2>5. QED
    BY <1>7, <2>1, <2>2, <2>3, <2>4
<1>9. ASSUME j = m, 3 * j + 2 <= n
      PROVE  e = b /\ e \in Ends(buf) /\ Line(buf, b) = <<>>
  <2>1. b \in Ends(buf) /\ b \in Nat
    BY <1>1, <1>9
  <2>2. e = b
    BY <1>2, <1>4, <1>6, <2>1
  <2>3. Len(Line(buf, b)) = 0
    BY <1>4, <2>1, <2>2
  <2>4. Line(buf, b) = <<>>
    BY <1>4, <2>3, EmptySeq
  <2>5. QED
    BY <2>1, <2>2, <2>4
<1>10. ASSUME ~(j < m /\ 3 * j + 3 <= n), ~(j = m /\ 3 * j + 2 <= n)
       PROVE  /\ e \notin Ends(buf) /\ Line(buf, b) = SubSeq(buf, b, n)
              /\ e = n + 1 /\ n + 1 - b <= 2
  <2>1. n + 1 - b <= 2
    BY <1>2, <1>10
  <2>2. e \notin Ends(buf)
    <3>1. SUFFICES ASSUME e \in Ends(buf) PROVE FALSE
      OBVIOUS
    <3>2. e \in Nat /\ e + 1 <= n /\ e >= b
      BY <1>2, <1>4, <1>5, <3>1
    <3>3. j < m /\ e = b
      BY <1>2, <1>10, <3>2
    <3>4. j \in 0 .. m - 1
      BY <3>3
    <3>5. b \notin Ends(buf)
      BY <1>1, <3>4
    <3>6. QED
      BY <3>1, <3>3, <3>5
  <2>3. e = n + 1 /\ e - 1 = n
    BY <1>2, <1>4, <2>2
  <2>4. QED
    BY <1>7, <2>1, <2>2, <2>3
<1>11. Len(Line(buf, b)) \in 0 .. 2
  <2>1. b \in Nat /\ e \in Nat /\ e >= b
    BY <1>2, <1>4
  <2>2. e <= b + 2
    <3>1. CASE j < m /\ 3 * j + 3 <= n
      BY <1>8, <2>1, <3>1
    <3>2. CASE j = m /\ 3 * j + 2 <= n
      BY <1>9, <2>1, <3>2
    <3>3. CASE ~(j < m /\ 3 * j + 3 <= n) /\ ~(j = m /\ 3 * j + 2 <= n)
      <4>1. e = n + 1 /\ n + 1 - b <= 2
        BY <1>10, <3>3, Zenon
      <4>2. QED
        BY <1>2, <2>1, <4>1
    <3>4. QED
      BY <3>1, <3>2, <3>3
  <2> HIDE DEF b
  <2>3. e - b \in 0 .. 2
    BY <2>1, <2>2
  <2>4. QED
    BY <1>4, <2>3, Zenon
<1>12. QED
  BY <1>8, <1>9, <1>10, <1>11 DEF e, n

(* The turns of the loop over the lines: what a turn counts, and where the *)
(* loop stops.                                                             *)
Counted(r, buf, b) ==
  r.header_bytes + b + Len(Line(buf, b)) + 2 + Cardinality({i \in Ends(buf) : i < b})
IsFirst(r, b) == r.state = "response_line" /\ b = 1
Misfits(r, buf, b) == IF IsFirst(r, b) THEN ToSet(Line(buf, b)) \cap {S, R} = {}
                                       ELSE H \notin ToSet(Line(buf, b))
Stops(r, buf, b) == \/ Counted(r, buf, b) > max_header_size \/ ~ (End(buf, b) \in Ends(buf))
                    \/ Line(buf, b) = <<>> \/ Misfits(r, buf, b)
StopsAt(r, buf) == Min({b \in Begins(buf) : Stops(r, buf, b)})
Accepts(r, buf) == r.accepts \/ (IsFirst(r, 1) /\ StopsAt(r, buf) > 1 /\ S \in ToSet(Line(buf, 1)))

LEMMA Outcomes ==
  ASSUME NEW r, NEW piece
  PROVE  LET result == consume_response(r, piece)
             buf == r.buf \o piece
             last == StopsAt(r, buf)
             tooBig == Counted(r, buf, last) > max_header_size
             whole == End(buf, last) \in Ends(buf)
         IN  \/ tooBig /\ result.response = r /\ result.error = "too_large"
             \/ /\ ~tooBig /\ ~whole
                /\ result = [response |-> [state |-> IF last > 1 THEN "headers" ELSE r.state,
                                           buf |-> Line(buf, last), accepts |-> Accepts(r, buf),
                                           header_bytes |-> Counted(r, buf, last) - Len(Line(buf, last))],
                             processed |-> Len(piece), error |-> "none"]
             \/ /\ ~tooBig /\ whole /\ Line(buf, last) = <<>> /\ ~IsFirst(r, last)
                /\ result = [response |-> [state |-> "body", buf |-> <<>>, accepts |-> Accepts(r, buf),
                                           header_bytes |-> Counted(r, buf, last)],
                             processed |-> Processed(buf, End(buf, last), Len(piece)), error |-> "none"]
             \/ /\ ~tooBig /\ whole /\ (Line(buf, last) # <<>> \/ IsFirst(r, last))
                /\ result.response = r /\ result.error = "bad_request"
<1> DEFINE buf == r.buf \o piece
           last == StopsAt(r, buf)
           tooBig == Counted(r, buf, last) > max_header_size
           whole == End(buf, last) \in Ends(buf)
           Failed(fault) == [response |-> r, processed |-> 0, error |-> fault]
           part == [response |-> [state |-> IF last > 1 THEN "headers" ELSE r.state,
                                  buf |-> Line(buf, last), accepts |-> Accepts(r, buf),
                                  header_bytes |-> Counted(r, buf, last) - Len(Line(buf, last))],
                    processed |-> Len(piece), error |-> "none"]
           all == [response |-> [state |-> "body", buf |-> <<>>, accepts |-> Accepts(r, buf),
                                 header_bytes |-> Counted(r, buf, last)],
                   processed |-> Processed(buf, End(buf, last), Len(piece)), error |-> "none"]
<1>1. consume_response(r, piece) =
        CASE tooBig -> Failed("too_large")
          [] ~tooBig /\ ~whole -> part
          [] ~tooBig /\ whole /\ Line(buf, last) = <<>> /\ ~IsFirst(r, last) -> all
          [] OTHER -> Failed("bad_request")
  BY Zenon DEF consume_response, StopsAt, Stops, Misfits, IsFirst, Counted, Accepts
<1>2. \A f : Failed(f).response = r /\ Failed(f).error = f
  OBVIOUS
<1> DEFINE empty == Line(buf, last) = <<>>
<1> HIDE DEF last, tooBig, whole, Failed, part, all, empty, buf
<1>3. consume_response(r, piece) =
        CASE tooBig -> Failed("too_large")
          [] ~tooBig /\ ~whole -> part
          [] ~tooBig /\ whole /\ empty /\ ~IsFirst(r, last) -> all
          [] OTHER -> Failed("bad_request")
  BY <1>1 DEF empty
<1>4. \/ tooBig /\ consume_response(r, piece) = Failed("too_large")
      \/ ~tooBig /\ ~whole /\ consume_response(r, piece) = part
      \/ ~tooBig /\ whole /\ empty /\ ~IsFirst(r, last) /\ consume_response(r, piece) = all
      \/ /\ ~tooBig /\ whole /\ (~empty \/ IsFirst(r, last))
         /\ consume_response(r, piece) = Failed("bad_request")
  BY <1>3
<1>5. \/ /\ tooBig /\ consume_response(r, piece).response = r
         /\ consume_response(r, piece).error = "too_large"
      \/ ~tooBig /\ ~whole /\ consume_response(r, piece) = part
      \/ ~tooBig /\ whole /\ empty /\ ~IsFirst(r, last) /\ consume_response(r, piece) = all
      \/ /\ ~tooBig /\ whole /\ (~empty \/ IsFirst(r, last))
         /\ consume_response(r, piece).response = r
         /\ consume_response(r, piece).error = "bad_request"
  BY <1>2, <1>4
<1>6. QED
  BY <1>5, Zenon DEF last, tooBig, whole, part, all, empty, buf

LEMMA CountedIs ==
  ASSUME NEW r, r.header_bytes \in Nat, NEW buf \in Seq(Byte), NEW b \in Nat \ {0},
         Len(Line(buf, b)) \in Nat
  PROVE  /\ Counted(r, buf, b) \in Nat
         /\ r.header_bytes + b + Len(Line(buf, b)) + 2 <= Counted(r, buf, b)
         /\ Counted(r, buf, b) <= r.header_bytes + 2 * b + Len(Line(buf, b)) + 1
<1> DEFINE before == {i \in Ends(buf) : i < b}
           c == Cardinality(before)
<1>1. c \in Nat /\ c <= b - 1
  <2>1. before \subseteq 1 .. b - 1
    BY EndsAre
  <2>2. IsFiniteSet(1 .. b - 1) /\ Cardinality(1 .. b - 1) = b - 1
    <3> DEFINE z == b - 1
    <3>1. z \in Nat /\ 1 \in Int /\ z \in Int
      OBVIOUS
    <3> HIDE DEF z
    <3>2. IsFiniteSet(1 .. z) /\ Cardinality(1 .. z) = IF 1 > z THEN 0 ELSE z - 1 + 1
      BY <3>1, FS_Interval
    <3>3. (IF 1 > z THEN 0 ELSE z - 1 + 1) = z
      BY <3>1
    <3>4. QED
      BY <3>2, <3>3 DEF z
  <2> HIDE DEF before
  <2>3. QED
    BY <2>1, <2>2, FS_Subset, FS_CardinalityType
<1>2. Counted(r, buf, b) = r.header_bytes + b + Len(Line(buf, b)) + 2 + c
  BY DEF Counted
<1> HIDE DEF c
<1>3. QED
  BY <1>1, <1>2

LEMMA StopIs ==
  ASSUME NEW r, NEW buf \in Seq(Byte), NEW m \in Nat, Shaped(buf, m)
  PROVE  \E j \in 0 .. m : /\ StopsAt(r, buf) = 3 * j + 1 /\ 3 * j <= Len(buf)
                           /\ Stops(r, buf, 3 * j + 1)
                           /\ \A i \in 0 .. j - 1 : ~Stops(r, buf, 3 * i + 1)
<1> DEFINE T == {b \in Begins(buf) : Stops(r, buf, b)}
<1>1. Len(buf) \in Nat
  BY LenProperties
<1>2. \E j \in 0 .. m : 3 * j <= Len(buf) /\ Stops(r, buf, 3 * j + 1)
  <2>1. CASE 3 * m <= Len(buf)
    <3>1. m \in 0 .. m
      OBVIOUS
    <3>2. Line(buf, 3 * m + 1) = <<>> \/ End(buf, 3 * m + 1) \notin Ends(buf)
      BY <2>1, <3>1, ShapedLine
    <3>3. Stops(r, buf, 3 * m + 1)
      BY <3>2 DEF Stops
    <3>4. QED
      BY <2>1, <3>1, <3>3
  <2>2. CASE ~(3 * m <= Len(buf))
    <3> DEFINE j == Len(buf) \div 3
    <3>1. j \in 0 .. m /\ j < m /\ 3 * j <= Len(buf) /\ ~(3 * j + 3 <= Len(buf))
      BY <1>1, <2>2
    <3> HIDE DEF j
    <3>2. End(buf, 3 * j + 1) \notin Ends(buf)
      BY <3>1, ShapedLine
    <3>3. Stops(r, buf, 3 * j + 1)
      BY <3>2 DEF Stops
    <3>4. QED
      BY <3>1, <3>3
  <2>3. QED
    BY <2>1, <2>2
<1>3. PICK k \in 0 .. m : 3 * k <= Len(buf) /\ Stops(r, buf, 3 * k + 1)
  BY <1>2
<1>4. 3 * k + 1 \in T
  BY <1>3, ShapedBegins
<1>5. T \subseteq Nat
  <2>1. \A b \in Begins(buf) : b \in 1 .. Len(buf) + 1
    BY LineIs
  <2>2. QED
    BY <1>1, <2>1
<1>6. T = {b \in Begins(buf) : Stops(r, buf, b)} /\ StopsAt(r, buf) = Min(T)
  BY DEF StopsAt
<1> HIDE DEF T
<1>7. Min(T) \in T /\ \A y \in T : Min(T) <= y
  BY <1>4, <1>5, MinOf
<1> DEFINE a == Min(T)
<1>8. a \in Begins(buf) /\ Stops(r, buf, a) /\ a <= 3 * k + 1 /\ a \in Nat
  BY <1>4, <1>5, <1>6, <1>7
<1> HIDE DEF a
<1>9. a <= 3 * m + 1
  BY <1>8
<1>10. PICK j \in 0 .. m : a = 3 * j + 1 /\ 3 * j <= Len(buf)
  BY <1>8, <1>9, ShapedBegins
<1>11. ASSUME NEW i \in 0 .. j - 1 PROVE ~Stops(r, buf, 3 * i + 1)
  <2>1. i \in 0 .. m /\ 3 * i <= Len(buf) /\ 3 * i + 1 < 3 * j + 1
    BY <1>1, <1>10
  <2>2. 3 * i + 1 \in Begins(buf)
    BY <2>1, ShapedBegins
  <2>3. 3 * i + 1 \notin T
    BY <1>7, <1>10, <2>1 DEF a
  <2>4. QED
    BY <1>6, <2>2, <2>3
<1>12. QED
  BY <1>6, <1>8, <1>10, <1>11 DEF a

(* Of the lines of a response, what the first k must be, and of all.       *)
Fits(lines, i) == IF i = 1 THEN lines[1][1] \in {S, R} ELSE lines[i][1] = H
Lawful(lines) ==
  /\ lines[1] = <<S>> /\ \A i \in 2 .. Len(lines) : lines[i] = <<H>>
  /\ 3 * Len(lines) + 2 <= max_header_size

(* The response r has taken k of the lines, and keeps of the bytes up to   *)
(* `at' those that follow; every turn so far has counted three bytes at    *)
(* least and six at most, and every piece three more.                      *)
Awaits(r, k, at) ==
  /\ k \in 0 .. Len(script.lines) /\ at \in Nat
  /\ 3 * k <= at /\ at < 3 * Len(script.lines) + 2
  /\ r.buf = SubSeq(input, 3 * k + 1, at)
  /\ r.state = IF k = 0 THEN "response_line" ELSE "headers"
  /\ r.accepts <=> k > 0 /\ script.lines[1][1] = S
  /\ r.header_bytes \in Nat /\ 3 * k <= r.header_bytes /\ r.header_bytes <= 6 * k + 3 * at
  /\ \A i \in 1 .. k : Fits(script.lines, i)

LEMMA PlainIs ==
  ASSUME NEW lines \in Seq(Seq(Byte)), Plain(lines)
  PROVE  /\ Len(lines) \in Nat /\ Len(lines) >= 1 /\ 1 \in 1 .. Len(lines)
         /\ \A i \in 1 .. Len(lines) : lines[i] = <<lines[i][1]>>
         /\ 3 * Len(lines) + 2 > max_header_size \/ 5 * (3 * Len(lines) + 2) <= max_header_size
<1>1. Len(lines) \in Nat /\ \A i \in 1 .. Len(lines) : lines[i] \in Seq(Byte) /\ Len(lines[i]) = 1
  BY LenProperties, ElementOfSeq DEF Plain
<1>2. Len(lines) # 0
  BY EmptySeq DEF Plain
<1>3. \A i \in 1 .. Len(lines) : lines[i] = <<lines[i][1]>>
  BY <1>1, OfOne
<1>4. QED
  BY <1>1, <1>2, <1>3 DEF Plain

(* What consume has before it, when k lines are taken. *)
LEMMA Before ==
  ASSUME Reading, Lined(input, script.lines), NEW r, NEW k, Awaits(r, k, p), p < read
  PROVE  LET piece == SubSeq(input, p + 1, read)
             buf == r.buf \o piece
         IN  /\ piece \in Seq(Byte) /\ Len(piece) = read - p
             /\ buf \in Seq(Byte) /\ Len(buf) = read - 3 * k
             /\ \A i \in 1 .. read - 3 * k : buf[i] = input[3 * k + i]
             /\ Shaped(buf, Len(script.lines) - k)
<1> DEFINE n == Len(script.lines)
           piece == SubSeq(input, p + 1, read)
           old == r.buf
           buf == old \o piece
<1>1. /\ script.lines \in Seq(Seq(Byte)) /\ n \in Nat /\ input \in Seq(Byte) /\ Len(input) \in Nat
      /\ read \in Nat /\ read <= Len(input) /\ p \in Nat /\ p < read
      /\ k \in Nat /\ k <= n /\ 3 * k <= p
  BY ScriptAssumption, LenProperties DEF Reading, Awaits
<1>2. /\ piece \in Seq(Byte) /\ Len(piece) = read - p
      /\ \A i \in 1 .. read - p : piece[i] = input[p + i]
  <2>1. /\ p + 1 \in Nat \ {0} /\ p + 1 <= read + 1 /\ read + 1 - (p + 1) = read - p
        /\ \A i \in 1 .. read - p : p + 1 + i - 1 = p + i
    BY <1>1
  <2>2. /\ piece \in Seq(Byte) /\ Len(piece) = read + 1 - (p + 1)
        /\ \A i \in 1 .. read + 1 - (p + 1) : piece[i] = input[p + 1 + i - 1]
    BY <1>1, <2>1, Part
  <2> HIDE DEF piece
  <2>3. QED
    BY <2>1, <2>2
<1>3. /\ old \in Seq(Byte) /\ Len(old) = p - 3 * k
      /\ \A i \in 1 .. p - 3 * k : old[i] = input[3 * k + i]
  <2> DEFINE part == SubSeq(input, 3 * k + 1, p)
  <2>1. /\ 3 * k + 1 \in Nat \ {0} /\ 3 * k + 1 <= p + 1 /\ p + 1 - (3 * k + 1) = p - 3 * k
        /\ \A i \in 1 .. p - 3 * k : 3 * k + 1 + i - 1 = 3 * k + i
        /\ p <= Len(input)
    BY <1>1
  <2>2. /\ part \in Seq(Byte) /\ Len(part) = p + 1 - (3 * k + 1)
        /\ \A i \in 1 .. p + 1 - (3 * k + 1) : part[i] = input[3 * k + 1 + i - 1]
    BY <1>1, <2>1, Part
  <2>3. old = part
    BY DEF Awaits
  <2> HIDE DEF part, old
  <2>4. QED
    BY <2>1, <2>2, <2>3
<1> HIDE DEF piece, old
<1>4. /\ buf \in Seq(Byte) /\ Len(buf) = Len(old) + Len(piece)
      /\ \A i \in 1 .. Len(old) : buf[i] = old[i]
      /\ \A i \in 1 .. Len(piece) : buf[Len(old) + i] = piece[i]
  BY <1>2, <1>3, Joined
<1> HIDE DEF buf
<1>5. Len(buf) = read - 3 * k
  BY <1>1, <1>2, <1>3, <1>4
<1>6. ASSUME NEW i \in 1 .. read - 3 * k PROVE buf[i] = input[3 * k + i]
  <2>1. CASE i <= p - 3 * k
    <3>1. i \in 1 .. p - 3 * k
      BY <1>1, <2>1
    <3>2. QED
      BY <1>3, <1>4, <3>1
  <2>2. CASE ~(i <= p - 3 * k)
    <3> DEFINE x == i - (p - 3 * k)
    <3>1. x \in 1 .. read - p /\ i = p - 3 * k + x /\ p + x = 3 * k + i
      BY <1>1, <2>2
    <3> HIDE DEF x
    <3>2. buf[Len(old) + x] = piece[x] /\ piece[x] = input[p + x]
      BY <1>2, <1>4, <3>1
    <3>3. QED
      BY <1>3, <3>1, <3>2
  <2>3. QED
    BY <2>1, <2>2
<1>7. /\ 3 * n + 2 <= Len(input) /\ input[3 * n + 1] = 13 /\ input[3 * n + 2] = 10
      /\ \A j \in 0 .. n - 1 : input[3 * j + 2] = 13 /\ input[3 * j + 3] = 10
  BY DEF Lined
<1>8. Shaped(buf, n - k)
  <2> HIDE DEF n
  <2>1. ASSUME NEW j \in 0 .. n - k - 1
        PROVE  /\ 3 * j + 2 <= Len(buf) => buf[3 * j + 2] = 13
               /\ 3 * j + 3 <= Len(buf) => buf[3 * j + 3] = 10
    <3>1. k + j \in 0 .. n - 1
      BY <1>1
    <3>2. input[3 * (k + j) + 2] = 13 /\ input[3 * (k + j) + 3] = 10
      BY <1>7, <3>1
    <3>3. 3 * (k + j) + 2 = 3 * k + (3 * j + 2) /\ 3 * (k + j) + 3 = 3 * k + (3 * j + 3)
      BY <1>1, <3>1
    <3>4. /\ 3 * j + 2 <= Len(buf) => 3 * j + 2 \in 1 .. read - 3 * k
          /\ 3 * j + 3 <= Len(buf) => 3 * j + 3 \in 1 .. read - 3 * k
      BY <1>1, <1>5
    <3>5. QED
      BY <1>6, <3>2, <3>3, <3>4
  <2> DEFINE m == n - k
  <2>2. m \in Nat /\ 3 * n + 1 = 3 * k + (3 * m + 1) /\ 3 * n + 2 = 3 * k + (3 * m + 2)
    BY <1>1
  <2> HIDE DEF m
  <2>3. /\ 3 * m + 1 <= Len(buf) => 3 * m + 1 \in 1 .. read - 3 * k
        /\ 3 * m + 2 <= Len(buf) => 3 * m + 2 \in 1 .. read - 3 * k
    BY <1>1, <1>5, <2>2
  <2>4. /\ 3 * m + 1 <= Len(buf) => buf[3 * m + 1] = 13
        /\ 3 * m + 2 <= Len(buf) => buf[3 * m + 2] = 10
    BY <1>6, <1>7, <2>2, <2>3
  <2>5. QED
    BY <2>1, <2>4 DEF Shaped, m
<1>9. QED
  BY <1>2, <1>4, <1>5, <1>6, <1>8 DEF piece, buf, old, n

(* How consume leaves a response of which k lines were taken.              *)
LEMMA ResponseStep ==
  ASSUME Reading, Plain(script.lines), Lined(input, script.lines),
         NEW k, Awaits(response, k, p), p < read
  PROVE  LET result == consume_response(response, SubSeq(input, p + 1, read))
         IN  \/ /\ result.error # "none" /\ result.response = response
                /\ ~Lawful(script.lines)
             \/ /\ result.error = "none" /\ p + result.processed = read
                /\ result.response.state # "body"
                /\ \E l : Awaits(result.response, l, read)
             \/ /\ result.error = "none" /\ result.response.state = "body"
                /\ p + result.processed = 3 * Len(script.lines) + 2
                /\ result.response.accepts <=> Lawful(script.lines)
<1> DEFINE lines == script.lines
           n == Len(lines)
           m == n - k
           r == response
           piece == SubSeq(input, p + 1, read)
           buf == r.buf \o piece
           result == consume_response(r, piece)
           last == StopsAt(r, buf)
           count == Counted(r, buf, last)
           line == Line(buf, last)
<1>1. /\ lines \in Seq(Seq(Byte)) /\ n \in Nat /\ n >= 1 /\ m \in Nat /\ n = k + m
      /\ k \in Nat /\ k <= n /\ p \in Nat /\ read \in Nat /\ p < read /\ 3 * k <= p /\ p < 3 * n + 2
      /\ max_header_size \in Nat /\ read <= Len(input) /\ Len(input) \in Nat
      /\ r.header_bytes \in Nat /\ 3 * k <= r.header_bytes /\ r.header_bytes <= 6 * k + 3 * p
      /\ \A i \in 1 .. k : Fits(lines, i)
  <2>1. lines \in Seq(Seq(Byte)) /\ n \in Nat /\ n >= 1
    BY ScriptAssumption, PlainIs DEF Reading
  <2>2. k \in Nat /\ k <= n
    BY <2>1 DEF Awaits
  <2>3. m \in Nat /\ n = k + m
    BY <2>1, <2>2
  <2>4. read \in Nat /\ read <= Len(input) /\ Len(input) \in Nat
    BY LenProperties DEF Reading
  <2>5. QED
    BY <2>1, <2>2, <2>3, <2>4, HeaderAssumption DEF Awaits
<1>0. /\ n \in Nat /\ n >= 1 /\ m \in Nat /\ n = k + m
      /\ k \in Nat /\ k <= n /\ p \in Nat /\ read \in Nat /\ p < read /\ 3 * k <= p /\ p < 3 * n + 2
      /\ max_header_size \in Nat /\ r.header_bytes \in Nat
      /\ 3 * k <= r.header_bytes /\ r.header_bytes <= 6 * k + 3 * p
  BY <1>1
<1>2. /\ \A i \in 1 .. n : lines[i] = <<lines[i][1]>>
      /\ 3 * n + 2 > max_header_size \/ 5 * (3 * n + 2) <= max_header_size
  BY <1>1, PlainIs
<1>3. /\ r.state = IF k = 0 THEN "response_line" ELSE "headers"
      /\ r.accepts <=> k > 0 /\ lines[1][1] = S
  BY DEF Awaits
<1>4. /\ piece \in Seq(Byte) /\ Len(piece) = read - p
      /\ buf \in Seq(Byte) /\ Len(buf) = read - 3 * k
      /\ \A i \in 1 .. read - 3 * k : buf[i] = input[3 * k + i]
      /\ Shaped(buf, m)
  BY Before
<1>5. \A i \in 0 .. n - 1 : input[3 * i + 1] = lines[i + 1][1]
  BY DEF Lined
<1> HIDE DEF n, m, r, piece, lines
<1>40. Len(buf) = read - 3 * k /\ Len(buf) \in Nat
  <2> HIDE DEF buf
  <2>1. QED
    BY <1>4, LenProperties
<1>6. \/ count > max_header_size /\ result.response = r /\ result.error = "too_large"
      \/ /\ ~(count > max_header_size) /\ End(buf, last) \notin Ends(buf)
         /\ result = [response |-> [state |-> IF last > 1 THEN "headers" ELSE r.state,
                                    buf |-> line, accepts |-> Accepts(r, buf),
                                    header_bytes |-> count - Len(line)],
                      processed |-> Len(piece), error |-> "none"]
      \/ /\ ~(count > max_header_size) /\ End(buf, last) \in Ends(buf)
         /\ line = <<>> /\ ~IsFirst(r, last)
         /\ result = [response |-> [state |-> "body", buf |-> <<>>, accepts |-> Accepts(r, buf),
                                    header_bytes |-> count],
                      processed |-> Processed(buf, End(buf, last), Len(piece)), error |-> "none"]
      \/ /\ ~(count > max_header_size) /\ End(buf, last) \in Ends(buf)
         /\ (line # <<>> \/ IsFirst(r, last))
         /\ result.response = r /\ result.error = "bad_request"
  BY Outcomes
<1> HIDE DEF buf
<1>7. PICK j \in 0 .. m : /\ last = 3 * j + 1 /\ 3 * j <= Len(buf)
                          /\ Stops(r, buf, 3 * j + 1)
                          /\ \A i \in 0 .. j - 1 : ~Stops(r, buf, 3 * i + 1)
  BY <1>1, <1>4, StopIs
<1>8. ASSUME NEW i \in 0 .. m - 1, 3 * i + 3 <= Len(buf)
      PROVE  /\ Line(buf, 3 * i + 1) = <<lines[k + i + 1][1]>>
             /\ ToSet(Line(buf, 3 * i + 1)) = {lines[k + i + 1][1]}
             /\ Misfits(r, buf, 3 * i + 1) <=> ~Fits(lines, k + i + 1)
  <2>1. i \in 0 .. m /\ i < m /\ 3 * i <= Len(buf) /\ 3 * i + 1 \in 1 .. read - 3 * k
        /\ k + i \in 0 .. n - 1
    BY <1>0, <1>8, <1>40
  <2>2. Line(buf, 3 * i + 1) = <<buf[3 * i + 1]>>
    BY <1>0, <1>4, <1>8, <2>1, ShapedLine
  <2>3. buf[3 * i + 1] = lines[k + i + 1][1]
    <3>1. buf[3 * i + 1] = input[3 * k + (3 * i + 1)]
      BY <1>4, <2>1
    <3>2. 3 * k + (3 * i + 1) = 3 * (k + i) + 1
      BY <1>1, <2>1
    <3>3. input[3 * (k + i) + 1] = lines[k + i + 1][1]
      BY <1>5, <2>1
    <3>4. QED
      BY <3>1, <3>2, <3>3
  <2> DEFINE x == lines[k + i + 1][1]
  <2>4. Line(buf, 3 * i + 1) = <<x>> /\ ToSet(<<x>>) = {x}
    BY <2>2, <2>3 DEF ToSet
  <2>5. IsFirst(r, 3 * i + 1) <=> k + i + 1 = 1
    BY <1>1, <1>3, <2>1 DEF IsFirst
  <2>6. k + i + 1 = 1 => x = lines[1][1]
    OBVIOUS
  <2> HIDE DEF x
  <2>7. Misfits(r, buf, 3 * i + 1) <=>
          IF k + i + 1 = 1 THEN {x} \cap {S, R} = {} ELSE H \notin {x}
    BY <2>4, <2>5 DEF Misfits
  <2>8. Fits(lines, k + i + 1) <=> IF k + i + 1 = 1 THEN x \in {S, R} ELSE x = H
    BY <2>6 DEF Fits, x
  <2>9. QED
    BY <2>4, <2>7, <2>8 DEF x
<1>9. ASSUME NEW i \in 0 .. j - 1
      PROVE  3 * i + 3 <= Len(buf) /\ Fits(lines, k + i + 1)
  <2>1. i \in 0 .. m /\ i < m /\ i \in 0 .. m - 1 /\ 3 * i + 3 <= Len(buf)
    BY <1>1, <1>4, <1>7
  <2>2. ~Misfits(r, buf, 3 * i + 1)
    BY <1>7 DEF Stops
  <2>3. QED
    BY <1>8, <2>1, <2>2
<1>10. \A i \in 1 .. k + j : Fits(lines, i)
  <2>1. SUFFICES ASSUME NEW i \in 1 .. k + j, i > k PROVE Fits(lines, i)
    BY <1>1
  <2>2. i - k - 1 \in 0 .. j - 1 /\ k + (i - k - 1) + 1 = i
    BY <1>1, <2>1
  <2>3. QED
    BY <1>9, <2>2
<1>11. Accepts(r, buf) <=> k + j > 0 /\ lines[1][1] = S
  <2>1. CASE k > 0
    <3>1. ~IsFirst(r, 1) /\ k + j > 0
      BY <1>1, <1>3, <2>1 DEF IsFirst
    <3>2. QED
      BY <1>3, <2>1, <3>1 DEF Accepts
  <2>2. CASE ~(k > 0)
    <3>1. k = 0 /\ IsFirst(r, 1) /\ ~r.accepts
      BY <1>1, <1>3, <2>2 DEF IsFirst
    <3>2. last > 1 <=> j > 0
      BY <1>7
    <3>3. ASSUME j > 0 PROVE ToSet(Line(buf, 1)) = {lines[1][1]}
      <4>1. 0 \in 0 .. j - 1 /\ 0 \in 0 .. m - 1 /\ 3 * 0 + 1 = 1 /\ k + 0 + 1 = 1
        BY <1>1, <1>7, <3>1, <3>3
      <4>2. 3 * 0 + 3 <= Len(buf)
        BY <1>9, <4>1
      <4>3. ToSet(Line(buf, 3 * 0 + 1)) = {lines[k + 0 + 1][1]}
        BY <1>8, <4>1, <4>2
      <4>4. QED
        BY <4>1, <4>3
    <3>4. Accepts(r, buf) <=> j > 0 /\ S \in ToSet(Line(buf, 1))
      BY <3>1, <3>2 DEF Accepts
    <3>5. k + j > 0 <=> j > 0
      BY <1>1, <3>1
    <3>6. QED
      BY <3>3, <3>4, <3>5
  <2>3. QED
    BY <2>1, <2>2
<1>12. /\ Len(line) \in 0 .. 2 /\ count \in Nat
       /\ r.header_bytes + 3 * j + 3 + Len(line) <= count
       /\ count <= r.header_bytes + 6 * j + 3 + Len(line)
  <2> DEFINE b == 3 * j + 1
  <2>1. Len(Line(buf, b)) \in 0 .. 2
    BY <1>1, <1>4, <1>7, ShapedLine
  <2>2. b \in Nat \ {0} /\ Len(Line(buf, b)) \in Nat
    BY <2>1
  <2>3. 2 * b = 6 * j + 2 /\ last = b
    BY <1>7
  <2> HIDE DEF b
  <2>4. /\ Counted(r, buf, b) \in Nat
        /\ r.header_bytes + b + Len(Line(buf, b)) + 2 <= Counted(r, buf, b)
        /\ Counted(r, buf, b) <= r.header_bytes + 2 * b + Len(Line(buf, b)) + 1
    BY <1>1, <1>4, <2>2, CountedIs
  <2>5. line = Line(buf, b) /\ count = Counted(r, buf, b)
    BY <2>3
  <2> DEFINE h == r.header_bytes
             c == Counted(r, buf, b)
             l == Len(Line(buf, b))
  <2>6. h \in Nat /\ c \in Nat /\ l \in 0 .. 2 /\ h + b + l + 2 <= c /\ c <= h + 2 * b + l + 1
    BY <1>1, <2>1, <2>4
  <2> HIDE DEF h, c, l
  <2>7. h + 3 * j + 3 + l <= c /\ c <= h + 6 * j + 3 + l
    BY <1>7, <2>3, <2>6 DEF b
  <2>8. QED
    BY <2>5, <2>6, <2>7 DEF h, c, l
<1>13. /\ j < m /\ 3 * j + 3 <= Len(buf) =>
            End(buf, last) \in Ends(buf) /\ line = <<lines[k + j + 1][1]>>
       /\ j = m /\ 3 * j + 2 <= Len(buf) =>
            End(buf, last) = last /\ End(buf, last) \in Ends(buf) /\ line = <<>>
       /\ ~(j < m /\ 3 * j + 3 <= Len(buf)) /\ ~(j = m /\ 3 * j + 2 <= Len(buf)) =>
            End(buf, last) \notin Ends(buf) /\ line = SubSeq(buf, last, Len(buf))
  <2>1. j < m => j \in 0 .. m - 1
    BY <1>0
  <2>2. /\ j < m /\ 3 * j + 3 <= Len(buf) => End(buf, 3 * j + 1) \in Ends(buf)
        /\ j = m /\ 3 * j + 2 <= Len(buf) =>
             /\ End(buf, 3 * j + 1) = 3 * j + 1 /\ End(buf, 3 * j + 1) \in Ends(buf)
             /\ Line(buf, 3 * j + 1) = <<>>
        /\ ~(j < m /\ 3 * j + 3 <= Len(buf)) /\ ~(j = m /\ 3 * j + 2 <= Len(buf)) =>
             /\ End(buf, 3 * j + 1) \notin Ends(buf)
             /\ Line(buf, 3 * j + 1) = SubSeq(buf, 3 * j + 1, Len(buf))
    <3>1. j \in 0 .. m /\ 3 * j <= Len(buf) /\ Shaped(buf, m) /\ buf \in Seq(Byte) /\ m \in Nat
      BY <1>0, <1>4, <1>7
    <3>2. QED
      BY <3>1, ShapedLine
  <2>3. QED
    BY <1>7, <1>8, <2>1, <2>2
<1>14. CASE count > max_header_size /\ result.response = r /\ result.error = "too_large"
  <2>1. 3 * n + 2 > max_header_size
    <3>1. r.header_bytes + 6 * j + 5 > max_header_size
      <4> DEFINE h == r.header_bytes
                 x == Len(line)
      <4>1. h \in Nat /\ x \in 0 .. 2 /\ count \in Nat /\ count <= h + 6 * j + 3 + x
        BY <1>0, <1>12
      <4>2. count > max_header_size
        BY <1>14
      <4> HIDE DEF h, x, count
      <4>3. h + 6 * j + 5 > max_header_size
        BY <1>0, <4>1, <4>2
      <4>4. QED
        BY <4>3 DEF h
    <3>2. 6 * k + 3 * p + 6 * j + 5 > max_header_size
      BY <1>0, <3>1
    <3>3. 5 * (3 * n + 2) > max_header_size
      BY <1>0, <3>2
    <3>4. QED
      BY <1>0, <1>2, <3>3
  <2>2. ~Lawful(lines)
    BY <1>1, <2>1 DEF Lawful, n
  <2>3. QED
    BY <1>14, <2>2 DEF lines, r, result, piece
<1>15. CASE /\ ~(count > max_header_size) /\ End(buf, last) \notin Ends(buf)
            /\ result = [response |-> [state |-> IF last > 1 THEN "headers" ELSE r.state,
                                       buf |-> line, accepts |-> Accepts(r, buf),
                                       header_bytes |-> count - Len(line)],
                         processed |-> Len(piece), error |-> "none"]
  <2> DEFINE new == result.response
             l == k + j
  <2>1. /\ result.error = "none" /\ result.processed = Len(piece)
        /\ new.state = (IF last > 1 THEN "headers" ELSE r.state)
        /\ new.buf = line /\ new.accepts = Accepts(r, buf) /\ new.header_bytes = count - Len(line)
    BY <1>15
  <2>2. ~(j < m /\ 3 * j + 3 <= Len(buf)) /\ ~(j = m /\ 3 * j + 2 <= Len(buf))
    BY <1>13, <1>15
  <2>3. l \in 0 .. n /\ 3 * l <= read /\ read < 3 * n + 2
    BY <1>0, <1>7, <1>40, <2>2
  <2>4. new.buf = SubSeq(input, 3 * l + 1, read)
    <3> DEFINE a == 3 * j + 1
               part == SubSeq(buf, a, Len(buf))
               rest == SubSeq(input, 3 * l + 1, read)
    <3>1. line = part
      BY <1>7, <1>13, <2>2
    <3>2. /\ a \in Nat \ {0} /\ a <= Len(buf) + 1 /\ Len(buf) \in Nat
          /\ 3 * l + 1 \in Nat \ {0} /\ 3 * l + 1 <= read + 1
          /\ Len(buf) + 1 - a = read - 3 * l /\ read + 1 - (3 * l + 1) = read - 3 * l
      BY <1>1, <1>4, <1>7, <2>3
    <3>3. /\ part \in Seq(Byte) /\ Len(part) = Len(buf) + 1 - a
          /\ \A i \in 1 .. Len(buf) + 1 - a : part[i] = buf[a + i - 1]
      <4> HIDE DEF a
      <4>1. QED
        BY <1>4, <3>2, Part
    <3>4. /\ rest \in Seq(Byte) /\ Len(rest) = read + 1 - (3 * l + 1)
          /\ \A i \in 1 .. read + 1 - (3 * l + 1) : rest[i] = input[3 * l + 1 + i - 1]
      <4> DEFINE c == 3 * l + 1
      <4>1. c \in Nat \ {0} /\ c <= read + 1
        BY <3>2
      <4> HIDE DEF c
      <4>2. /\ SubSeq(input, c, read) \in Seq(Byte) /\ Len(SubSeq(input, c, read)) = read + 1 - c
            /\ \A i \in 1 .. read + 1 - c : SubSeq(input, c, read)[i] = input[c + i - 1]
        BY <1>1, <4>1, Part DEF Reading
      <4>3. QED
        BY <4>2 DEF c
    <3> HIDE DEF part, rest
    <3>5. ASSUME NEW i \in 1 .. read - 3 * l PROVE part[i] = rest[i]
      <4>1. a + i - 1 \in 1 .. read - 3 * k /\ 3 * k + (a + i - 1) = 3 * l + 1 + i - 1
        BY <1>1, <1>7
      <4>2. part[i] = buf[a + i - 1] /\ rest[i] = input[3 * l + 1 + i - 1]
        BY <3>2, <3>3, <3>4
      <4>3. buf[a + i - 1] = input[3 * k + (a + i - 1)]
        BY <1>4, <4>1
      <4>4. QED
        BY <4>1, <4>2, <4>3
    <3>6. Len(part) = read - 3 * l /\ Len(rest) = read - 3 * l
      BY <3>2, <3>3, <3>4
    <3>7. part = rest
      BY <3>3, <3>4, <3>5, <3>6, SeqEqual
    <3>8. QED
      BY <2>1, <3>1, <3>7 DEF rest
  <2>5. new.state = IF l = 0 THEN "response_line" ELSE "headers"
    BY <1>1, <1>3, <1>7, <2>1
  <2>6. new.accepts <=> l > 0 /\ lines[1][1] = S
    BY <1>11, <2>1
  <2>7. new.header_bytes \in Nat /\ 3 * l <= new.header_bytes
        /\ new.header_bytes <= 6 * l + 3 * read
    <3> DEFINE h == r.header_bytes
               x == Len(line)
    <3>1. /\ x \in 0 .. 2 /\ count \in Nat /\ h + 3 * j + 3 + x <= count
          /\ count <= h + 6 * j + 3 + x
          /\ h \in Nat /\ 3 * k <= h /\ h <= 6 * k + 3 * p
      BY <1>1, <1>12
    <3>2. new.header_bytes = count - x
      BY <2>1
    <3> HIDE DEF x, count, h, new
    <3>3. count - x \in Nat /\ 3 * l <= count - x /\ count - x <= 6 * l + 3 * read
      BY <1>1, <1>7, <3>1
    <3>4. QED
      BY <3>2, <3>3
  <2>8. new.state # "body"
    BY <2>5
  <2> HIDE DEF new, l
  <2>9. Awaits(new, l, read)
    BY <1>1, <1>10, <2>3, <2>4, <2>5, <2>6, <2>7 DEF Awaits, lines, n, l
  <2>10. p + result.processed = read
    BY <1>1, <1>4, <2>1
  <2>11. QED
    BY <2>1, <2>8, <2>9, <2>10 DEF new, result, r, piece
<1>16. CASE /\ ~(count > max_header_size) /\ End(buf, last) \in Ends(buf)
            /\ line = <<>> /\ ~IsFirst(r, last)
            /\ result = [response |-> [state |-> "body", buf |-> <<>>, accepts |-> Accepts(r, buf),
                                       header_bytes |-> count],
                         processed |-> Processed(buf, End(buf, last), Len(piece)), error |-> "none"]
  <2>1. /\ result.error = "none" /\ result.response.state = "body"
        /\ result.response.accepts = Accepts(r, buf)
        /\ result.processed = Processed(buf, End(buf, last), Len(piece))
    BY <1>16
  <2>2. j = m /\ End(buf, last) = last
    BY <1>13, <1>16
  <2>3. p + result.processed = 3 * n + 2
    <3>1. result.processed = read - p - (read - 3 * k - (3 * j + 1) + 1) + 2
      BY <1>4, <1>7, <2>1, <2>2 DEF Processed
    <3>2. QED
      BY <1>1, <2>2, <3>1
  <2>4. 3 * n + 2 <= max_header_size
    <3>1. 3 * k + 3 * j + 3 <= max_header_size
      BY <1>1, <1>12, <1>16
    <3>2. QED
      BY <1>1, <2>2, <3>1
  <2>5. Accepts(r, buf) <=> lines[1][1] = S
    <3>1. k + j > 0
      BY <1>0, <2>2
    <3>2. QED
      BY <1>11, <3>1
  <2>6. \A i \in 1 .. n : Fits(lines, i)
    BY <1>1, <1>10, <2>2
  <2>7. lines[1][1] = S <=> Lawful(lines)
    <3>1. ASSUME lines[1][1] = S PROVE lines[1] = <<S>> /\ \A i \in 2 .. n : lines[i] = <<H>>
      <4>1. 1 \in 1 .. n /\ \A i \in 2 .. n : i \in 1 .. n /\ i # 1
        BY <1>1
      <4>2. QED
        BY <1>2, <2>6, <3>1, <4>1 DEF Fits
    <3>2. QED
      BY <2>4, <3>1 DEF Lawful, n
  <2>8. QED
    BY <2>1, <2>3, <2>5, <2>7 DEF result, r, piece, lines, n
<1>17. CASE /\ ~(count > max_header_size) /\ End(buf, last) \in Ends(buf)
            /\ (line # <<>> \/ IsFirst(r, last))
            /\ result.response = r /\ result.error = "bad_request"
  <2>1. ~(j = m /\ 3 * j + 2 <= Len(buf))
    <3>1. SUFFICES ASSUME j = m, 3 * j + 2 <= Len(buf) PROVE FALSE
      OBVIOUS
    <3>2. IsFirst(r, last)
      BY <1>13, <1>17, <3>1
    <3>3. j = 0 /\ k = 0
      <4>1. r.state = "response_line" /\ last = 1
        BY <3>2 DEF IsFirst
      <4>2. k = 0
        BY <1>3, <4>1
      <4>3. last = 3 * j + 1
        BY <1>7
      <4>4. QED
        BY <4>1, <4>2, <4>3
    <3>4. QED
      BY <1>1, <3>1, <3>3
  <2>2. j < m /\ 3 * j + 3 <= Len(buf)
    BY <1>13, <1>17, <2>1
  <2>3. line = <<lines[k + j + 1][1]>> /\ line # <<>>
    <3>1. line = <<lines[k + j + 1][1]>>
      BY <1>13, <2>2
    <3>2. \A x : <<x>> # <<>>
      OBVIOUS
    <3>3. QED
      BY <3>1, <3>2
  <2>4. Misfits(r, buf, 3 * j + 1)
    BY <1>7, <1>17, <2>3 DEF Stops
  <2>5. j \in 0 .. m - 1 /\ k + j + 1 \in 1 .. n
    BY <1>1, <2>2
  <2>6. ~Fits(lines, k + j + 1)
    BY <1>8, <2>2, <2>4, <2>5
  <2>7. ~Lawful(lines)
    <3> DEFINE i == k + j + 1
    <3>1. i \in 1 .. n /\ (i = 1 \/ i \in 2 .. n) /\ ~Fits(lines, i)
      BY <1>1, <2>5, <2>6
    <3> HIDE DEF i
    <3>2. Lawful(lines) => Fits(lines, i)
      BY <3>1 DEF Lawful, Fits, n
    <3>3. QED
      BY <3>1, <3>2
  <2>8. QED
    BY <1>17, <2>7 DEF lines, r, result, piece
<1>18. QED
  BY <1>6, <1>14, <1>15, <1>16, <1>17

-----------------------------------------------------------------------------
(* The invariant of the handshake: while the response comes, the parser    *)
(* has taken some of its lines and keeps what it has of the next; it stops *)
(* only at one that must be refused; it leaves an acceptable one where it  *)
(* ends.  A frame whose header is read is not yet forgotten.               *)
Begun ==
  m_state \in {"extended", "application", "ready"} =>
    /\ ControlFrame => get_fin(header)
    /\ m_state = "ready" => (IF ControlFrame THEN control ELSE data) # <<>>

Handshake ==
  /\ Lined(input, script.lines)
  /\ m_state = "http" /\ error = "none" => \E k : Awaits(response, k, p)
  /\ m_state = "http" /\ error # "none" => ~Lawful(script.lines)
  /\ m_state # "http" => Lawful(script.lines) /\ p >= 3 * Len(script.lines) + 2
  /\ m_state # "http" /\ error = "none" /\ header = <<>> /\ data = <<>> /\ delivered = <<>> =>
       p = 3 * Len(script.lines) + 2 /\ m_state = "basic"

HandshakeInv == Begun /\ (~server /\ Plain(script.lines) => Handshake)

LEMMA InitHandshake == Init => HandshakeInv
<1> SUFFICES ASSUME Init PROVE HandshakeInv
  OBVIOUS
<1>1. Begun
  BY DEF Init, Begun
<1>2. SUFFICES ASSUME ~server, Plain(script.lines) PROVE Handshake
  BY <1>1 DEF HandshakeInv
<1> DEFINE lines == script.lines
<1>3. lines \in Seq(Seq(Byte)) /\ \A i \in 1 .. Len(lines) : Len(lines[i]) = 1
  BY <1>2, ScriptAssumption DEF Init, Plain
<1>4. Lined(input, lines)
  <2>1. Lined(Text(lines), lines) /\ Text(lines) \in Seq(Byte)
    BY <1>2, <1>3, TextIs
  <2>2. BytesOf(Frames) \in Seq(Byte)
    BY InputBytes DEF Init
  <2>3. input = Text(lines) \o BytesOf(Frames)
    BY DEF Init
  <2>4. QED
    BY <1>3, <2>1, <2>2, <2>3, LinedAfter
<1>5. Awaits(response, 0, 0)
  <2>1. Len(lines) \in Nat
    BY <1>3, LenProperties
  <2>2. SubSeq(input, 1, 0) = <<>>
    BY SubSeqEmpty
  <2>3. response = Fresh
    BY DEF Init
  <2>4. QED
    BY <2>1, <2>2, <2>3 DEF Awaits, Fresh
<1>6. m_state = "http" /\ error = "none" /\ p = 0
  BY <1>2 DEF Init
<1>7. QED
  BY <1>4, <1>5, <1>6 DEF Handshake

LEMMA ResponseShakes == ParseInv /\ HandshakeInv /\ handle_read_http_response => HandshakeInv'
<1> SUFFICES ASSUME ParseInv, HandshakeInv, handle_read_http_response PROVE HandshakeInv'
  OBVIOUS
<1> DEFINE piece == SubSeq(input, p + 1, read)
           result == consume_response(response, piece)
<1>1. /\ error = "none" /\ m_state = "http" /\ p < read
      /\ response' = result.response /\ p' = p + result.processed
      /\ IF result.error = "none" /\ headers_ready(result.response)
         THEN /\ error' = IF result.response.accepts THEN "none" ELSE "invalid_http_status"
              /\ m_state' = IF result.response.accepts THEN "basic" ELSE m_state
         ELSE error' = result.error /\ UNCHANGED m_state
      /\ UNCHANGED <<sender, read, needed, header, extended, data, control, delivered>>
  BY DEF handle_read_http_response
<1>2. m_state' \in {"http", "basic"}
  BY <1>1
<1>3. Begun'
  BY <1>2 DEF Begun
<1>4. server' = server /\ script' = script /\ input' = input
  BY <1>1 DEF sender
<1>5. SUFFICES ASSUME ~server, Plain(script.lines) PROVE Handshake'
  BY <1>3, <1>4 DEF HandshakeInv, Plain
<1>6. Lined(input, script.lines) /\ Reading
  BY <1>5 DEF HandshakeInv, Handshake, ParseInv
<1>7. PICK k : Awaits(response, k, p)
  BY <1>1, <1>5 DEF HandshakeInv, Handshake
<1>8. \/ /\ result.error # "none" /\ result.response = response
         /\ ~Lawful(script.lines)
      \/ /\ result.error = "none" /\ p + result.processed = read
         /\ result.response.state # "body"
         /\ \E l : Awaits(result.response, l, read)
      \/ /\ result.error = "none" /\ result.response.state = "body"
         /\ p + result.processed = 3 * Len(script.lines) + 2
         /\ result.response.accepts <=> Lawful(script.lines)
  BY <1>1, <1>5, <1>6, <1>7, ResponseStep
<1> HIDE DEF result
<1>9. Lined(input', script'.lines)
  BY <1>4, <1>6 DEF Lined
<1>10. CASE result.error # "none" /\ ~Lawful(script.lines)
  <2>1. error' # "none" /\ m_state' = "http"
    BY <1>1, <1>10
  <2>2. ~Lawful(script'.lines)
    BY <1>4, <1>10 DEF Lawful
  <2>3. QED
    BY <1>9, <2>1, <2>2 DEF Handshake
<1>11. CASE /\ result.error = "none" /\ p + result.processed = read
            /\ result.response.state # "body"
            /\ \E l : Awaits(result.response, l, read)
  <2>1. error' = "none" /\ m_state' = "http" /\ p' = read /\ response' = result.response
    BY <1>1, <1>11 DEF headers_ready
  <2>2. PICK l : Awaits(result.response, l, read)
    BY <1>11
  <2> DEFINE new == result.response
  <2>3. Awaits(new, l, read)
    BY <2>2
  <2> HIDE DEF new
  <2>4. response' = new
    BY <2>1 DEF new
  <2>5. Awaits(response, l, p)'
    BY <1>4, <2>1, <2>3, <2>4 DEF Awaits, Fits
  <2>6. QED
    BY <1>9, <2>1, <2>5 DEF Handshake
<1>12. CASE /\ result.error = "none" /\ result.response.state = "body"
            /\ p + result.processed = 3 * Len(script.lines) + 2
            /\ result.response.accepts <=> Lawful(script.lines)
  <2>1. Lawful(script'.lines) <=> Lawful(script.lines)
    BY <1>4 DEF Lawful
  <2>2. p' = 3 * Len(script'.lines) + 2
    BY <1>1, <1>4, <1>12
  <2>3. Len(script'.lines) \in Nat
    BY <1>4, <1>6, ScriptAssumption, LenProperties DEF Reading
  <2>4. CASE Lawful(script.lines)
    <3>1. m_state' = "basic" /\ error' = "none"
      BY <1>1, <1>12, <2>4 DEF headers_ready
    <3>2. p' >= 3 * Len(script'.lines) + 2
      BY <2>2, <2>3
    <3>3. QED
      BY <1>9, <2>1, <2>2, <2>4, <3>1, <3>2 DEF Handshake
  <2>5. CASE ~Lawful(script.lines)
    <3>1. m_state' = "http" /\ error' # "none"
      BY <1>1, <1>12, <2>5 DEF headers_ready
    <3>2. QED
      BY <1>9, <2>1, <2>5, <3>1 DEF Handshake
  <2>6. QED
    BY <2>4, <2>5
<1>13. QED
  BY <1>8, <1>10, <1>11, <1>12

(* A step of frames leaves the response behind it.                         *)
LEMMA FramesShake ==
  ASSUME ParseInv, HandshakeInv, m_state # "http", m_state' # "http", Begun',
         UNCHANGED sender, p' \in Nat, p' >= p,
         ~(error' = "none" /\ header' = <<>> /\ data' = <<>> /\ delivered' = <<>>)
  PROVE  HandshakeInv'
<1>1. server' = server /\ script' = script /\ input' = input
  BY DEF sender
<1>2. SUFFICES ASSUME ~server, Plain(script.lines) PROVE Handshake'
  BY <1>1 DEF HandshakeInv, Plain
<1>3. Lined(input, script.lines) /\ Lawful(script.lines) /\ p >= 3 * Len(script.lines) + 2
  BY <1>2 DEF HandshakeInv, Handshake
<1>4. Lined(input', script'.lines) /\ Lawful(script'.lines)
  BY <1>1, <1>3 DEF Lined, Lawful
<1>5. p' >= 3 * Len(script'.lines) + 2
  <2>1. Len(script.lines) \in Nat /\ p \in Nat
    BY ScriptAssumption, LenProperties DEF ParseInv, Reading
  <2>2. QED
    BY <1>1, <1>3, <2>1
<1>6. QED
  BY <1>4, <1>5 DEF Handshake

LEMMA Grows ==
  ASSUME Reading, needed \in Nat
  PROVE  p + Available \in Nat /\ p + Available >= p
<1>1. p \in Nat /\ Available \in 0 .. needed
  BY TakenIs, LenProperties DEF Reading
<1>2. QED
  BY <1>1

LEMMA HeaderShakes == ParseInv /\ HandshakeInv /\ read_header => HandshakeInv'
<1> SUFFICES ASSUME ParseInv, HandshakeInv, read_header PROVE HandshakeInv'
  OBVIOUS
<1> DEFINE h == header \o Taken
           fault == validate_incoming_basic_header(h, data = <<>>)
<1>1. Reading /\ Parsing
  BY DEF ParseInv
<1>2. /\ m_state = "basic" /\ error = "none" /\ (p < read \/ needed = 0)
      /\ UNCHANGED <<sender, data, control, delivered>>
      /\ p' = p + Available /\ header' = h
  BY DEF read_header, Takes, Turns
<1>3. needed \in Nat /\ header \in Seq(Byte) /\ Len(header) + needed = 2 /\ Len(header) \in Nat
  BY <1>1, <1>2, LenProperties DEF Parsing
<1>4. Available \in 0 .. needed /\ Taken \in Seq(Byte) /\ Len(Taken) = Available
  BY <1>1, <1>3, TakenIs
<1>5. h \in Seq(Byte) /\ Len(h) = Len(header) + Available
  BY <1>3, <1>4, Joined
<1>6. \/ m_state' = "basic"
      \/ ~(needed > Available) /\ fault = "none" /\ m_state' = "extended"
  BY <1>2 DEF read_header
<1> HIDE DEF h, fault
<1>7. Begun'
  <2>1. CASE m_state' = "basic"
    BY <2>1 DEF Begun
  <2>2. CASE ~(needed > Available) /\ fault = "none" /\ m_state' = "extended"
    <3>1. Len(h) = 2
      BY <1>3, <1>4, <1>5, <2>2
    <3>2. is_control(get_opcode(h)) => get_fin(h)
      BY <1>5, <2>2, <3>1, HeaderFault DEF fault
    <3>3. QED
      BY <1>2, <2>2, <3>2 DEF Begun, ControlFrame
  <2>3. QED
    BY <1>6, <2>1, <2>2
<1>8. header' # <<>>
  <2>1. Available = needed \/ Available = read - p
    <3>1. p \in Nat /\ read \in Nat /\ read - p \in Nat
      BY <1>1, LenProperties DEF Reading
    <3>2. QED
      BY <1>3, <3>1, MinOfTwo DEF Available
  <2>2. Len(h) # 0
    <3>1. p \in Nat /\ read \in Nat
      BY <1>1, LenProperties DEF Reading
    <3>2. QED
      BY <1>2, <1>3, <1>4, <1>5, <2>1, <3>1
  <2>3. Len(<<>>) = 0
    OBVIOUS
  <2>4. QED
    BY <1>2, <2>2, <2>3
<1>9. p' \in Nat /\ p' >= p
  BY <1>1, <1>2, <1>3, Grows
<1>10. m_state # "http" /\ m_state' # "http" /\ UNCHANGED sender
  BY <1>2, <1>6
<1>11. QED
  BY <1>7, <1>8, <1>9, <1>10, FramesShake

(* A header that is complete is not empty.                                 *)
LEMMA NotEmpty ==
  ASSUME NEW h, Len(h) = 2
  PROVE  h # <<>>
OBVIOUS

LEMMA ExtendedShakes == ParseInv /\ HandshakeInv /\ read_extended_header => HandshakeInv'
<1> SUFFICES ASSUME ParseInv, HandshakeInv, read_extended_header PROVE HandshakeInv'
  OBVIOUS
<1>1. Reading /\ Parsing
  BY DEF ParseInv
<1>2. /\ m_state = "extended" /\ UNCHANGED <<sender, header, delivered>>
      /\ p' = p + Available /\ m_state' \in {"extended", "application"}
  BY DEF read_extended_header, Takes
<1>3. needed \in Nat /\ Len(header) = 2
  BY <1>1, <1>2 DEF Parsing
<1>4. Begun'
  BY <1>2 DEF HandshakeInv, Begun, ControlFrame
<1>5. header' # <<>>
  BY <1>2, <1>3, NotEmpty
<1>6. p' \in Nat /\ p' >= p
  BY <1>1, <1>2, <1>3, Grows
<1>7. QED
  BY <1>2, <1>4, <1>5, <1>6, FramesShake

LEMMA PayloadShakes == ParseInv /\ HandshakeInv /\ process_payload => HandshakeInv'
<1> SUFFICES ASSUME ParseInv, HandshakeInv, process_payload PROVE HandshakeInv'
  OBVIOUS
<1> DEFINE isControl == is_control(get_opcode(header))
           m == Filled(IF isControl THEN control[1] ELSE data[1], Taken)
           fault == \/ m.validator = Reject
                    \/ /\ needed = Available /\ get_fin(header)
                       /\ get_opcode(header) = TEXT /\ ~complete(m.validator)
<1>1. Reading /\ Parsing
  BY DEF ParseInv
<1>2. /\ m_state = "application" /\ UNCHANGED <<sender, delivered>> /\ p' = p + Available
      /\ IF isControl THEN control' = <<m>> /\ UNCHANGED data
                      ELSE data' = <<m>> /\ UNCHANGED control
      /\ IF fault \/ needed > Available
         THEN needed' = needed - Available /\ UNCHANGED <<m_state, header, extended>>
         ELSE IF ~get_fin(header) THEN reset_headers
         ELSE m_state' = "ready" /\ needed' = 0 /\ UNCHANGED <<header, extended>>
  BY DEF process_payload, Takes
<1>3. needed \in Nat /\ Len(header) = 2
  BY <1>1, <1>2 DEF Parsing
<1>4. ControlFrame => get_fin(header)
  BY <1>2 DEF HandshakeInv, Begun
<1>5. ControlFrame <=> isControl
  BY DEF ControlFrame
<1> HIDE DEF m, isControl, fault
<1>6. \A x : <<x>> # <<>>
  OBVIOUS
<1>7. p' \in Nat /\ p' >= p
  BY <1>1, <1>2, <1>3, Grows
<1>8. CASE UNCHANGED <<m_state, header, extended>>
  <2>1. Begun'
    BY <1>2, <1>4, <1>8 DEF Begun, ControlFrame
  <2>2. header' # <<>>
    BY <1>3, <1>8, NotEmpty
  <2>3. QED
    BY <1>2, <1>7, <1>8, <2>1, <2>2, FramesShake
<1>9. CASE ~get_fin(header) /\ reset_headers
  <2>1. m_state' = "basic"
    BY <1>9 DEF reset_headers
  <2>2. data' # <<>>
    BY <1>2, <1>4, <1>5, <1>6, <1>9
  <2>3. Begun'
    BY <2>1 DEF Begun
  <2>4. QED
    BY <1>2, <1>7, <2>1, <2>2, <2>3, FramesShake
<1>10. CASE m_state' = "ready" /\ UNCHANGED <<header, extended>>
  <2>1. ControlFrame' <=> isControl
    BY <1>5, <1>10 DEF ControlFrame
  <2>2. (IF isControl THEN control' ELSE data') # <<>>
    BY <1>2, <1>6
  <2>3. get_fin(header)' <=> get_fin(header)
    BY <1>10
  <2>4. Begun'
    BY <1>4, <1>5, <1>10, <2>1, <2>2, <2>3 DEF Begun
  <2>5. header' # <<>>
    BY <1>3, <1>10, NotEmpty
  <2>6. QED
    BY <1>2, <1>7, <1>10, <2>4, <2>5, FramesShake
<1>11. QED
  BY <1>2, <1>8, <1>9, <1>10

LEMMA MessageShakes == ParseInv /\ HandshakeInv /\ get_message => HandshakeInv'
<1> SUFFICES ASSUME ParseInv, HandshakeInv, get_message PROVE HandshakeInv'
  OBVIOUS
<1>1. /\ m_state = "ready" /\ m_state' = "basic" /\ UNCHANGED <<sender, p>>
      /\ IF ControlFrame THEN delivered' = delivered \o control ELSE delivered' = delivered \o data
  BY DEF get_message, reset_headers, ControlFrame
<1>2. (IF ControlFrame THEN control ELSE data) # <<>>
  BY <1>1 DEF HandshakeInv, Begun
<1>3. \E x \in Message : delivered' = delivered \o <<x>>
  <2>1. /\ data # <<>> => data = <<data[1]>> /\ data[1] \in Message
        /\ control # <<>> => control = <<control[1]>> /\ control[1] \in Message
    BY DEF ParseInv, Kept, Receiving, Received
  <2>2. QED
    BY <1>1, <1>2, <2>1
<1>4. delivered' # <<>>
  <2>1. delivered \in Seq(Message)
    BY DEF ParseInv, Kept
  <2>2. ASSUME NEW q \in Seq(Message), NEW x \in Message PROVE q \o <<x>> # <<>>
    <3>1. Len(q \o <<x>>) = Len(q) + 1 /\ Len(q) \in Nat /\ Len(<<>>) = 0
      OBVIOUS
    <3>2. QED
      BY <3>1
  <2>3. QED
    BY <1>3, <2>1, <2>2
<1>5. Begun'
  BY <1>1 DEF Begun
<1>6. p' \in Nat /\ p' >= p
  BY <1>1, LenProperties DEF ParseInv, Reading
<1>7. QED
  BY <1>1, <1>4, <1>5, <1>6, FramesShake

LEMMA SameShakes ==
  ASSUME HandshakeInv, UNCHANGED <<sender, p, response, frame>>
  PROVE  HandshakeInv'
<1>1. Begun'
  BY DEF HandshakeInv, Begun, ControlFrame, frame
<1>2. server' = server /\ script' = script /\ input' = input /\ response' = response /\ p' = p
  BY DEF sender
<1>3. SUFFICES ASSUME ~server, Plain(script.lines), Handshake PROVE Handshake'
  BY <1>1, <1>2 DEF HandshakeInv, Plain
<1>4. \A k : Awaits(response, k, p)' <=> Awaits(response, k, p)
  BY <1>2 DEF Awaits, Fits
<1>5. (Lined(input, script.lines)' <=> Lined(input, script.lines))
      /\ (Lawful(script.lines)' <=> Lawful(script.lines))
  BY <1>2 DEF Lined, Lawful
<1>6. QED
  BY <1>2, <1>3, <1>4, <1>5 DEF Handshake, frame

LEMMA NextShakes == ParseInv /\ HandshakeInv /\ [Next]_vars => HandshakeInv'
<1> SUFFICES ASSUME ParseInv, HandshakeInv, [Next]_vars PROVE HandshakeInv'
  OBVIOUS
<1>1. CASE handle_read_http_response
  BY <1>1, ResponseShakes
<1>2. CASE consume
  BY <1>2, HeaderShakes, ExtendedShakes, PayloadShakes DEF consume
<1>3. CASE get_message
  BY <1>3, MessageShakes
<1>4. CASE handle_async_read
  BY <1>4, SameShakes DEF handle_async_read
<1>5. CASE UNCHANGED vars
  BY <1>5, SameShakes DEF vars
<1>6. QED
  BY <1>1, <1>2, <1>3, <1>4, <1>5 DEF Next

(* For every script whose response is plain, whatever its frames and       *)
(* however its bytes are cut into reads: the response is refused if and    *)
(* only if it must be, and no byte of it is lost or read twice.            *)
THEOREM HandshakeCorrect == Spec => [](Plain(script.lines) => HandshakeAsSent)
<1>1. Init => ParseInv /\ HandshakeInv
  BY InitParse, InitHandshake
<1>2. ParseInv /\ HandshakeInv /\ [Next]_vars => HandshakeInv'
  BY NextShakes
<1>3. ParseInv /\ HandshakeInv => (Plain(script.lines) => HandshakeAsSent)
  <2> SUFFICES ASSUME ParseInv, HandshakeInv, Plain(script.lines), ~server
               PROVE  LET lines == script.lines
                          legal == /\ lines[1] = <<S>> /\ \A i \in 2 .. Len(lines) : lines[i] = <<H>>
                                   /\ Len(Text(lines)) <= max_header_size
                      IN  /\ m_state = "http" /\ error # "none" => ~legal
                          /\ m_state = "http" /\ Waits => p < Len(Text(lines))
                          /\ m_state # "http" => legal /\ p >= Len(Text(lines))
                          /\ m_state = "basic" /\ error = "none"
                               /\ header \o data \o delivered = <<>> => p = Len(Text(lines))
    BY DEF HandshakeAsSent
  <2> DEFINE lines == script.lines
             size == Len(Text(lines))
  <2>1. lines \in Seq(Seq(Byte)) /\ \A i \in 1 .. Len(lines) : Len(lines[i]) = 1
    BY ScriptAssumption DEF ParseInv, Reading, Plain
  <2>2. size = 3 * Len(lines) + 2
    BY <2>1, TextIs
  <2> HIDE DEF size
  <2>3. Handshake
    BY DEF HandshakeInv
  <2>4. Lawful(lines) <=> /\ lines[1] = <<S>> /\ \A i \in 2 .. Len(lines) : lines[i] = <<H>>
                          /\ size <= max_header_size
    BY <2>2 DEF Lawful
  <2>5. m_state = "http" /\ Waits => p < size
    BY <2>2, <2>3 DEF Handshake, Waits, Awaits
  <2>6. header \o data \o delivered = <<>> => header = <<>> /\ data = <<>> /\ delivered = <<>>
    <3>1. header \in Seq(Byte) /\ delivered \in Seq(Message)
      BY DEF ParseInv, Parsing, Kept
    <3>2. data \in Seq(Message)
      <4>1. data = <<>> \/ (data = <<data[1]>> /\ data[1] \in Message)
        BY DEF ParseInv, Kept, Receiving, Received
      <4>2. <<>> \in Seq(Message) /\ \A x \in Message : <<x>> \in Seq(Message)
        OBVIOUS
      <4>3. QED
        BY <4>1, <4>2
    <3>3. ASSUME NEW A, NEW B, NEW C, NEW x \in Seq(A), NEW y \in Seq(B), NEW z \in Seq(C),
                 x \o y \o z = <<>>
          PROVE  x = <<>> /\ y = <<>> /\ z = <<>>
      <4>1. Len(x \o y \o z) = Len(x) + Len(y) + Len(z)
            /\ Len(x) \in Nat /\ Len(y) \in Nat /\ Len(z) \in Nat /\ Len(<<>>) = 0
        OBVIOUS
      <4>2. Len(x) = 0 /\ Len(y) = 0 /\ Len(z) = 0
        BY <3>3, <4>1
      <4>3. QED
        BY <4>2, EmptySeq
    <3>4. QED
      BY <3>1, <3>2, <3>3
  <2>7. QED
    BY <2>2, <2>3, <2>4, <2>5, <2>6 DEF Handshake, size
<1>4. QED
  BY <1>1, <1>2, <1>3, ParserInvariant, PTL DEF Spec

-----------------------------------------------------------------------------
(* What frames say: messages, and how one more frame adds to them. The     *)
(* reference is recursive; as a fold over the frames it is known of each   *)
(* prefix, a frame longer than the one before.                             *)
Content == [op : 0 .. 15, payload : Seq(Byte)]
NoneOrOne == {<<>>} \cup {<<m>> : m \in Content}
Speech == [legal : BOOLEAN, open : NoneOrOne, messages : Seq(Content)]

SaidStep(a, f) ==
  LET m == WithFrame(a.open, f)
  IN  [legal |-> a.legal /\ Legal(a.open, f),
       open |-> IF ~IsData(f) THEN a.open ELSE IF f.fin THEN <<>> ELSE <<m>>,
       messages |-> IF f.fin THEN Append(a.messages, m) ELSE a.messages]
SaidEffect == [f \in ScriptFrame |-> [a \in Speech |-> SaidStep(a, f)]]
Silence == [legal |-> TRUE, open |-> <<>>, messages |-> <<>>]

(* The reference is a fold, and one more frame is one more step.           *)
LEMMA WithFrameIs ==
  ASSUME NEW open \in NoneOrOne, NEW f, f.op \in 0 .. 15, f.payload \in Seq(Byte)
  PROVE  WithFrame(open, f) \in Content
<1>1. CASE IsData(f) /\ open # <<>>
  <2>1. PICK m \in Content : open = <<m>>
    BY <1>1 DEF NoneOrOne
  <2>2. open[1] = m /\ m.op \in 0 .. 15 /\ m.payload \in Seq(Byte)
    BY <2>1 DEF Content
  <2>3. m.payload \o f.payload \in Seq(Byte)
    BY <2>2, Joined
  <2> DEFINE payload == m.payload \o f.payload
  <2>4. WithFrame(open, f) = [op |-> m.op, payload |-> payload]
    BY <1>1, <2>2 DEF WithFrame
  <2> HIDE DEF payload
  <2>5. payload \in Seq(Byte)
    BY <2>3 DEF payload
  <2>6. QED
    BY <2>2, <2>4, <2>5 DEF Content
<1>2. CASE ~(IsData(f) /\ open # <<>>)
  BY <1>2 DEF WithFrame, Content
<1>3. QED
  BY <1>1, <1>2

LEMMA SaidEffectType == SaidEffect \in [ScriptFrame -> [Speech -> Speech]] /\ Silence \in Speech
<1>1. ASSUME NEW f \in ScriptFrame, NEW a \in Speech
      PROVE  SaidStep(a, f) \in Speech
  <2> DEFINE m == WithFrame(a.open, f)
             legal == a.legal /\ Legal(a.open, f)
             open == IF ~IsData(f) THEN a.open ELSE IF f.fin THEN <<>> ELSE <<m>>
             messages == IF f.fin THEN Append(a.messages, m) ELSE a.messages
  <2>1. a.open \in NoneOrOne /\ a.messages \in Seq(Content)
    BY DEF Speech
  <2>2. m \in Content
    BY <2>1, WithFrameIs DEF ScriptFrame
  <2>3. SaidStep(a, f) = [legal |-> legal, open |-> open, messages |-> messages]
    BY Zenon DEF SaidStep
  <2>4. legal \in BOOLEAN
    OBVIOUS
  <2> HIDE DEF m, legal
  <2>5. open \in NoneOrOne
    BY <2>1, <2>2 DEF NoneOrOne
  <2>6. messages \in Seq(Content)
    BY <2>1, <2>2
  <2> HIDE DEF open, messages
  <2>7. QED
    BY <2>3, <2>4, <2>5, <2>6 DEF Speech
<1>2. Silence \in Speech
  BY DEF Silence, Speech, NoneOrOne
<1>3. QED
  BY <1>1, <1>2 DEF SaidEffect

LEMMA SaidThrough ==
  ASSUME NEW q \in Seq(ScriptFrame)
  PROVE  Said(q) = Through(SaidEffect, Speech, Silence, q)
<1> DEFINE n == Len(q)
           Body(g) == [i \in 0 .. n |-> IF i = 0 THEN Silence ELSE SaidStep(g[i - 1], q[i])]
           after == CHOOSE g : g = Body(g)
<1>1. Said(q) = after[n]
  BY Zenon DEF Said, SaidStep, Silence
<1>2. n \in Nat /\ \A i \in 1 .. n : q[i] \in ScriptFrame
  BY LenProperties, ElementOfSeq
<1>3. PICK w : Path(SaidEffect, Speech, Silence, q, w)
  BY SaidEffectType, PathExists
<1>4. w \in [0 .. n -> Speech] /\ w[0] = Silence
      /\ \A i \in 1 .. n : w[i] = SaidEffect[q[i]][w[i - 1]]
  BY <1>3 DEF Path
<1>5. \A i \in 1 .. n : w[i - 1] \in Speech
  BY <1>2, <1>4
<1>6. \A i \in 1 .. n : w[i] = SaidStep(w[i - 1], q[i])
  BY <1>2, <1>4, <1>5 DEF SaidEffect
<1>7. w = Body(w)
  <2> HIDE DEF n
  <2>1. \A i \in 0 .. n : w[i] = IF i = 0 THEN Silence ELSE SaidStep(w[i - 1], q[i])
    BY <1>2, <1>4, <1>6
  <2>2. QED
    BY <1>4, <2>1
<1>8. after = Body(after)
  <2> HIDE DEF Body
  <2>1. QED
    BY <1>7
<1>9. \A i \in 0 .. n : after[i] = w[i]
  <2> HIDE DEF after
  <2> DEFINE T == {i \in Nat : i <= n => after[i] = w[i]}
  <2>1. \A i \in 0 .. n : after[i] = IF i = 0 THEN Silence ELSE SaidStep(after[i - 1], q[i])
    BY <1>8
  <2>2. \A i \in 0 .. n : w[i] = IF i = 0 THEN Silence ELSE SaidStep(w[i - 1], q[i])
    BY <1>7
  <2> HIDE DEF n
  <2>3. 0 \in T
    BY <1>2, <2>1, <2>2
  <2>4. ASSUME NEW i \in Nat, i \in T PROVE i + 1 \in T
    BY <1>2, <2>1, <2>2, <2>4
  <2>5. Nat \subseteq T
    <3> HIDE DEF T
    <3>1. QED
      BY <2>3, <2>4, SetInduction
  <2>6. QED
    BY <1>2, <2>5
<1> HIDE DEF after
<1>10. Through(SaidEffect, Speech, Silence, q) = w[n]
  BY <1>3, SaidEffectType, ThroughIs
<1>11. n \in 0 .. n
  BY <1>2
<1>12. QED
  BY <1>1, <1>9, <1>10, <1>11

LEMMA SaidIs ==
  /\ Said(<<>>) = Silence
  /\ \A q \in Seq(ScriptFrame) :
       /\ Said(q) \in Speech
       /\ \A f \in ScriptFrame : Said(Append(q, f)) = SaidStep(Said(q), f)
<1>1. SaidEffect \in [ScriptFrame -> [Speech -> Speech]] /\ Silence \in Speech
      /\ <<>> \in Seq(ScriptFrame)
  BY SaidEffectType
<1>2. Said(<<>>) = Silence
  BY <1>1, SaidThrough, ThroughNothing
<1>3. ASSUME NEW q \in Seq(ScriptFrame) PROVE Said(q) \in Speech
  BY <1>1, SaidThrough, ThroughType
<1>4. ASSUME NEW q \in Seq(ScriptFrame), NEW f \in ScriptFrame
      PROVE  Said(Append(q, f)) = SaidStep(Said(q), f)
  <2>1. Append(q, f) \in Seq(ScriptFrame)
    BY AppendProperties
  <2>2. Said(Append(q, f)) = Through(SaidEffect, Speech, Silence, Append(q, f))
    BY <2>1, SaidThrough
  <2>3. Through(SaidEffect, Speech, Silence, Append(q, f))
          = SaidEffect[f][Through(SaidEffect, Speech, Silence, q)]
    BY <1>1, ThroughAppend
  <2>4. Said(q) = Through(SaidEffect, Speech, Silence, q) /\ Said(q) \in Speech
    BY <1>3, SaidThrough
  <2>5. SaidEffect[f][Said(q)] = SaidStep(Said(q), f)
    BY <2>4 DEF SaidEffect
  <2>6. QED
    BY <2>2, <2>3, <2>4, <2>5
<1>5. QED
  BY <1>2, <1>3, <1>4

(* Where the bytes of each frame are.                                      *)
Pieces(q) == [i \in DOMAIN q |-> Bytes(q[i])]
Starts(x, y) == Len(x) <= Len(y) /\ \A i \in 1 .. Len(x) : y[i] = x[i]

(* The bytes of frames are those of each frame in turn.                    *)
LEMMA PiecesAre ==
  ASSUME NEW q \in Seq(ScriptFrame)
  PROVE  Pieces(q) \in Seq(Seq(Byte)) /\ Len(Pieces(q)) = Len(q) /\ BytesOf(q) \in Seq(Byte)
<1>1. DOMAIN q = 1 .. Len(q) /\ Len(q) \in Nat
  BY LenProperties
<1>2. \A i \in DOMAIN q : Bytes(q[i]) \in Seq(Byte)
  BY <1>1, ElementOfSeq, FrameBytes
<1>3. Pieces(q) \in [1 .. Len(q) -> Seq(Byte)]
  BY <1>1, <1>2 DEF Pieces
<1>4. ASSUME NEW T, NEW n \in Nat, NEW g \in [1 .. n -> T] PROVE g \in Seq(T) /\ Len(g) = n
  BY LenProperties
<1>5. Pieces(q) \in Seq(Seq(Byte)) /\ Len(Pieces(q)) = Len(q)
  BY <1>1, <1>3, <1>4
<1>6. FlattenSeq(Pieces(q)) \in Seq(Byte)
  BY <1>5, FlattenType
<1>7. QED
  BY <1>5, <1>6 DEF BytesOf, Pieces

LEMMA BytesOfNone == BytesOf(<<>>) = <<>>
<1>1. Pieces(<<>>) = <<>>
  BY DEF Pieces
<1>2. FlattenSeq(<<>>) = <<>>
  BY DEF FlattenSeq
<1>3. QED
  BY <1>1, <1>2 DEF BytesOf, Pieces

LEMMA BytesOfMore ==
  ASSUME NEW q \in Seq(ScriptFrame), NEW f \in ScriptFrame
  PROVE  BytesOf(Append(q, f)) = BytesOf(q) \o Bytes(f)
<1> DEFINE X == Seq(Byte)
           F == JoinEffect(Byte)
           parts == Pieces(q)
           more == Append(q, f)
<1>1. /\ more \in Seq(ScriptFrame) /\ Len(more) = Len(q) + 1 /\ Len(q) \in Nat
      /\ (\A i \in 1 .. Len(q) : more[i] = q[i]) /\ more[Len(q) + 1] = f
  BY AppendProperties, LenProperties
<1>2. parts \in Seq(X) /\ Len(parts) = Len(q) /\ BytesOf(q) \in X
  BY PiecesAre
<1>3. Bytes(f) \in X
  BY FrameBytes
<1>4. Pieces(more) = Append(parts, Bytes(f))
  <2> DEFINE longer == Append(parts, Bytes(f))
  <2>1. /\ longer \in Seq(X) /\ Len(longer) = Len(q) + 1
        /\ (\A i \in 1 .. Len(q) : longer[i] = parts[i]) /\ longer[Len(q) + 1] = Bytes(f)
    BY <1>2, <1>3, AppendProperties
  <2>2. \A i \in 1 .. Len(q) : parts[i] = Bytes(q[i])
    <3>1. DOMAIN q = 1 .. Len(q)
      BY LenProperties
    <3>2. QED
      BY <3>1 DEF Pieces
  <2>3. Pieces(more) \in Seq(X) /\ Len(Pieces(more)) = Len(q) + 1
    BY <1>1, PiecesAre
  <2>4. \A i \in 1 .. Len(q) + 1 : Pieces(more)[i] = Bytes(more[i])
    <3>1. DOMAIN more = 1 .. Len(q) + 1
      BY <1>1, LenProperties
    <3> HIDE DEF more
    <3>2. QED
      BY <3>1 DEF Pieces
  <2> HIDE DEF longer, more, parts, X
  <2>5. \A i \in 1 .. Len(q) + 1 : Pieces(more)[i] = longer[i]
    <3>1. \A i \in 1 .. Len(q) + 1 : i \in 1 .. Len(q) \/ i = Len(q) + 1
      BY <1>1
    <3>2. QED
      BY <1>1, <2>1, <2>2, <2>4, <3>1
  <2>6. Pieces(more) = longer
    BY <2>1, <2>3, <2>5, SeqEqual
  <2>7. QED
    BY <2>6 DEF longer
<1>5. F \in [X -> [X -> X]] /\ <<>> \in X
  BY JoinType
<1>6. FlattenSeq(parts) = Through(F, X, <<>>, parts)
      /\ FlattenSeq(Append(parts, Bytes(f))) = Through(F, X, <<>>, Append(parts, Bytes(f)))
  <2>1. Append(parts, Bytes(f)) \in Seq(Seq(Byte)) /\ parts \in Seq(Seq(Byte))
    BY <1>2, <1>3, AppendProperties
  <2> HIDE DEF parts
  <2>2. QED
    BY <2>1, FlattenThrough
<1>7. BytesOf(q) = FlattenSeq(parts) /\ BytesOf(more) = FlattenSeq(Pieces(more))
  BY DEF BytesOf, Pieces
<1> HIDE DEF parts, F, X, more
<1>8. Through(F, X, <<>>, Append(parts, Bytes(f))) = F[Bytes(f)][Through(F, X, <<>>, parts)]
  BY <1>2, <1>3, <1>5, ThroughAppend
<1>9. BytesOf(more) = F[Bytes(f)][BytesOf(q)]
  BY <1>4, <1>6, <1>7, <1>8
<1>10. F[Bytes(f)][BytesOf(q)] = BytesOf(q) \o Bytes(f)
  BY <1>2, <1>3 DEF F, JoinEffect, X
<1>11. QED
  BY <1>9, <1>10 DEF more

(* One more frame among the first ones.                                    *)
LEMMA FirstFrames ==
  ASSUME NEW q \in Seq(ScriptFrame), NEW k \in 0 .. Len(q)
  PROVE  /\ SubSeq(q, 1, k) \in Seq(ScriptFrame)
         /\ k < Len(q) => q[k + 1] \in ScriptFrame /\ SubSeq(q, 1, k + 1) = Append(SubSeq(q, 1, k), q[k + 1])
         /\ k = Len(q) => SubSeq(q, 1, k) = q
         /\ k = 0 => SubSeq(q, 1, k) = <<>>
<1>1. Len(q) \in Nat /\ k \in Nat /\ k <= Len(q) /\ 1 \in Nat \ {0} /\ 1 <= k + 1 /\ k + 1 - 1 = k
  BY LenProperties
<1> DEFINE s == SubSeq(q, 1, k)
<1>2. s \in Seq(ScriptFrame) /\ Len(s) = k /\ \A i \in 1 .. k : s[i] = q[i]
  <2>1. /\ s \in Seq(ScriptFrame) /\ Len(s) = k + 1 - 1
        /\ \A i \in 1 .. k + 1 - 1 : s[i] = q[1 + i - 1]
    BY <1>1, Part
  <2>2. QED
    BY <1>1, <2>1
<1>3. ASSUME k < Len(q)
      PROVE  q[k + 1] \in ScriptFrame /\ SubSeq(q, 1, k + 1) = Append(s, q[k + 1])
  <2> DEFINE r == SubSeq(q, 1, k + 1)
             g == q[k + 1]
             t == Append(s, g)
  <2>1. k + 1 \in 1 .. Len(q) /\ k + 1 \in Nat /\ k + 1 <= Len(q) /\ 1 <= k + 1 + 1 /\ k + 1 + 1 - 1 = k + 1
    BY <1>1, <1>3
  <2>2. g \in ScriptFrame
    BY <2>1, ElementOfSeq
  <2>3. /\ r \in Seq(ScriptFrame) /\ Len(r) = k + 1 + 1 - 1
        /\ \A i \in 1 .. k + 1 + 1 - 1 : r[i] = q[1 + i - 1]
    BY <1>1, <2>1, Part
  <2>4. Len(r) = k + 1 /\ \A i \in 1 .. k + 1 : r[i] = q[i]
    BY <2>1, <2>3
  <2> HIDE DEF s, r, g
  <2>5. t \in Seq(ScriptFrame) /\ Len(t) = k + 1 /\ (\A i \in 1 .. k : t[i] = s[i]) /\ t[k + 1] = g
    BY <1>2, <2>2, AppendProperties
  <2>6. \A i \in 1 .. k + 1 : i \in 1 .. k \/ i = k + 1
    BY <1>1
  <2> HIDE DEF t
  <2>7. \A i \in 1 .. k + 1 : r[i] = t[i]
    BY <1>2, <2>4, <2>5, <2>6 DEF g
  <2>8. r = t
    BY <2>3, <2>4, <2>5, <2>7, SeqEqual
  <2>9. QED
    BY <2>2, <2>8 DEF r, s, g, t
<1>4. ASSUME k = Len(q) PROVE s = q
  <2> HIDE DEF s
  <2>1. QED
    BY <1>2, <1>4, SeqEqual
<1>5. k = 0 => s = <<>>
  <2> HIDE DEF s
  <2>1. QED
    BY <1>2, EmptySeq
<1>6. QED
  BY <1>2, <1>3, <1>4, <1>5

(* The bytes of the first frames begin those of all.                       *)
LEMMA BytesBegin ==
  ASSUME NEW q \in Seq(ScriptFrame), NEW k \in 0 .. Len(q)
  PROVE  /\ BytesOf(SubSeq(q, 1, k)) \in Seq(Byte)
         /\ Starts(BytesOf(SubSeq(q, 1, k)), BytesOf(q))
<1> DEFINE n == Len(q)
           B(i) == BytesOf(SubSeq(q, 1, i))
           T == {d \in Nat : k + d <= n => Starts(B(k), B(k + d))}
<1>1. n \in Nat /\ k \in Nat /\ k <= n
  BY LenProperties
<1>2. \A i \in 0 .. n : B(i) \in Seq(Byte)
  BY FirstFrames, PiecesAre
<1>3. \A i \in 0 .. n : i < n => q[i + 1] \in ScriptFrame /\ B(i + 1) = B(i) \o Bytes(q[i + 1])
  <2>1. ASSUME NEW i \in 0 .. n, i < n
        PROVE  q[i + 1] \in ScriptFrame /\ B(i + 1) = B(i) \o Bytes(q[i + 1])
    <3>1. /\ SubSeq(q, 1, i) \in Seq(ScriptFrame) /\ q[i + 1] \in ScriptFrame
          /\ SubSeq(q, 1, i + 1) = Append(SubSeq(q, 1, i), q[i + 1])
      BY <2>1, FirstFrames
    <3>2. QED
      BY <3>1, BytesOfMore
  <2>2. QED
    BY <2>1
<1>4. B(n) = BytesOf(q)
  <2>1. n \in 0 .. n
    BY <1>1
  <2>2. SubSeq(q, 1, n) = q
    BY <2>1, FirstFrames
  <2>3. QED
    BY <2>2
<1> HIDE DEF n, B
<1>5. 0 \in T
  <2>1. k + 0 = k /\ k \in 0 .. n
    BY <1>1
  <2>2. Len(B(k)) \in Nat
    BY <1>2, <2>1, LenProperties
  <2>3. Starts(B(k), B(k))
    BY <2>2 DEF Starts
  <2>4. QED
    BY <2>1, <2>3
<1>6. ASSUME NEW d \in Nat, d \in T PROVE d + 1 \in T
  <2>1. SUFFICES ASSUME k + (d + 1) <= n PROVE Starts(B(k), B(k + (d + 1)))
    OBVIOUS
  <2> DEFINE i == k + d
  <2>2. i \in 0 .. n /\ i < n /\ k + (d + 1) = i + 1 /\ k \in 0 .. n
    BY <1>1, <2>1
  <2>3. Starts(B(k), B(i))
    BY <1>6, <2>2
  <2> HIDE DEF i
  <2> DEFINE x == B(k)
             y == B(i)
             z == Bytes(q[i + 1])
  <2>4. x \in Seq(Byte) /\ y \in Seq(Byte) /\ z \in Seq(Byte) /\ B(i + 1) = y \o z
    BY <1>2, <1>3, <2>2, FrameBytes
  <2> HIDE DEF x, y, z
  <2>5. /\ Len(y \o z) = Len(y) + Len(z) /\ Len(y) \in Nat /\ Len(z) \in Nat
        /\ \A j \in 1 .. Len(y) : (y \o z)[j] = y[j]
    BY <2>4, Joined
  <2>6. Len(x) \in Nat
    BY <2>4, LenProperties
  <2>7. Len(x) <= Len(y) /\ \A j \in 1 .. Len(x) : y[j] = x[j]
    BY <2>3 DEF Starts, x, y
  <2>8. Len(x) <= Len(y \o z)
    BY <2>5, <2>6, <2>7
  <2>9. \A j \in 1 .. Len(x) : (y \o z)[j] = x[j]
    <3>1. \A j \in 1 .. Len(x) : j \in 1 .. Len(y)
      BY <2>5, <2>6, <2>7
    <3>2. QED
      BY <2>5, <2>7, <3>1
  <2>10. Starts(x, y \o z)
    BY <2>8, <2>9 DEF Starts
  <2>11. QED
    BY <2>2, <2>4, <2>10 DEF x
<1>7. Nat \subseteq T
  <2> HIDE DEF T
  <2>1. QED
    BY <1>5, <1>6, SetInduction
<1>8. n - k \in Nat /\ k + (n - k) = n /\ n <= n /\ k \in 0 .. n
  BY <1>1
<1>9. n - k \in T
  BY <1>7, <1>8
<1>10. Starts(B(k), B(n))
  BY <1>8, <1>9
<1>11. QED
  BY <1>2, <1>4, <1>8, <1>10 DEF B

(* Where a frame begins and ends in the input.                             *)
LEMMA OffsetsAre ==
  ASSUME script \in Scripts, input = Text(script.lines) \o BytesOf(Frames)
  PROVE  /\ Frames \in Seq(ScriptFrame) /\ Len(Frames) \in Nat /\ Len(input) \in Nat
         /\ Offset(0) = Len(Text(script.lines))
         /\ Offset(Len(Frames)) = Len(input)
         /\ \A k \in 0 .. Len(Frames) : Offset(k) \in Nat /\ Offset(k) <= Len(input)
         /\ \A k \in 0 .. Len(Frames) : k < Len(Frames) =>
              /\ Frames[k + 1] \in ScriptFrame
              /\ Offset(k + 1) = Offset(k) + Len(Bytes(Frames[k + 1]))
              /\ \A i \in 1 .. Len(Bytes(Frames[k + 1])) :
                   input[Offset(k) + i] = Bytes(Frames[k + 1])[i]
<1> DEFINE n == Len(Frames)
           text == Text(script.lines)
           all == BytesOf(Frames)
           B(i) == BytesOf(SubSeq(Frames, 1, i))
<1>1. Frames \in Seq(ScriptFrame) /\ n \in Nat
  BY ScriptAssumption, LenProperties DEF Frames
<1>2. text \in Seq(Byte) /\ all \in Seq(Byte) /\ input = text \o all
  BY InputBytes
<1>3. \A k : Offset(k) = Len(text) + Len(B(k))
  BY DEF Offset, First
<1>4. \A k \in 0 .. n : B(k) \in Seq(Byte) /\ Starts(B(k), all)
  BY <1>1, BytesBegin
<1>5. \A k \in 0 .. n : k < n =>
        Frames[k + 1] \in ScriptFrame /\ B(k + 1) = B(k) \o Bytes(Frames[k + 1])
  <2>1. ASSUME NEW k \in 0 .. n, k < n
        PROVE  Frames[k + 1] \in ScriptFrame /\ B(k + 1) = B(k) \o Bytes(Frames[k + 1])
    <3>1. /\ SubSeq(Frames, 1, k) \in Seq(ScriptFrame) /\ Frames[k + 1] \in ScriptFrame
          /\ SubSeq(Frames, 1, k + 1) = Append(SubSeq(Frames, 1, k), Frames[k + 1])
      BY <1>1, <2>1, FirstFrames
    <3>2. QED
      BY <3>1, BytesOfMore
  <2>2. QED
    BY <2>1
<1>6. B(0) = <<>> /\ B(n) = all
  <2>1. 0 \in 0 .. n /\ n \in 0 .. n
    BY <1>1
  <2>2. SubSeq(Frames, 1, 0) = <<>> /\ SubSeq(Frames, 1, n) = Frames
    BY <1>1, <2>1, FirstFrames
  <2>3. QED
    BY <2>2, BytesOfNone
<1> HIDE DEF n, text, all, B
<1>7. /\ Len(input) = Len(text) + Len(all) /\ Len(text) \in Nat /\ Len(all) \in Nat
      /\ \A i \in 1 .. Len(all) : input[Len(text) + i] = all[i]
  BY <1>2, Joined
<1>8. Offset(0) = Len(text) /\ Offset(n) = Len(input)
  <2>1. Len(<<>>) = 0
    OBVIOUS
  <2>2. Len(B(0)) = 0 /\ Len(B(n)) = Len(all)
    BY <1>6, <2>1
  <2>3. QED
    BY <1>3, <1>7, <2>2
<1>9. \A k \in 0 .. n : Len(B(k)) \in Nat /\ Len(B(k)) <= Len(all)
  BY <1>4, LenProperties DEF Starts
<1>10. \A k \in 0 .. n : Offset(k) \in Nat /\ Offset(k) <= Len(input)
  BY <1>3, <1>7, <1>9
<1>11. ASSUME NEW k \in 0 .. n, k < n
       PROVE  /\ Frames[k + 1] \in ScriptFrame
              /\ Offset(k + 1) = Offset(k) + Len(Bytes(Frames[k + 1]))
              /\ \A i \in 1 .. Len(Bytes(Frames[k + 1])) :
                   input[Offset(k) + i] = Bytes(Frames[k + 1])[i]
  <2> DEFINE f == Frames[k + 1]
             x == B(k)
             y == Bytes(f)
             z == B(k + 1)
  <2>1. f \in ScriptFrame /\ z = x \o y /\ k + 1 \in 0 .. n
    BY <1>1, <1>5, <1>11
  <2>2. x \in Seq(Byte) /\ y \in Seq(Byte)
    BY <1>4, <2>1, FrameBytes
  <2>3. Starts(z, all)
    BY <1>4, <2>1
  <2>4. Offset(k) = Len(text) + Len(x) /\ Offset(k + 1) = Len(text) + Len(z)
    BY <1>3
  <2> HIDE DEF f, x, y, z
  <2>5. /\ Len(z) = Len(x) + Len(y) /\ Len(x) \in Nat /\ Len(y) \in Nat
        /\ \A i \in 1 .. Len(y) : z[Len(x) + i] = y[i]
    BY <2>1, <2>2, Joined
  <2>6. Offset(k + 1) = Offset(k) + Len(y)
    BY <1>7, <2>4, <2>5
  <2>7. ASSUME NEW i \in 1 .. Len(y) PROVE input[Offset(k) + i] = y[i]
    <3>1. Len(x) + i \in 1 .. Len(z) /\ Offset(k) + i = Len(text) + (Len(x) + i)
      BY <1>7, <2>4, <2>5
    <3>2. Len(z) <= Len(all) /\ \A j \in 1 .. Len(z) : all[j] = z[j]
      BY <2>3 DEF Starts
    <3>3. Len(x) + i \in 1 .. Len(all)
      BY <1>7, <2>5, <3>1, <3>2
    <3>4. input[Len(text) + (Len(x) + i)] = all[Len(x) + i]
      BY <1>7, <3>3
    <3>5. QED
      BY <2>5, <3>1, <3>2, <3>4
  <2>8. QED
    BY <2>1, <2>6, <2>7 DEF f, y
<1>12. Len(input) \in Nat
  BY <1>7
<1>13. QED
  BY <1>1, <1>8, <1>10, <1>11, <1>12, Zenon DEF n, text

-----------------------------------------------------------------------------
(* A frame on the wire: two bytes, what they announce, and the payload.    *)
Code(f) == IF f.form = 0 THEN SizeCode(Len(f.payload)) ELSE f.form
Masked(f) == f.proper = server
Basic(f) == <<(IF f.fin THEN 128 ELSE 0) + 16 * f.rsv + f.op, (IF Masked(f) THEN 128 ELSE 0) + Code(f)>>
SizeOf(f) == BigEndian(Len(f.payload), SizeBytes(Code(f)))
KeyOf(f) == IF Masked(f) THEN Key ELSE <<>>
Body(f) == IF Masked(f) THEN byte_mask(f.payload, Key) ELSE f.payload

(* The size of a frame has room in the bytes that give it, and the sums    *)
(* it is part of fit a size_t.                                             *)
EightBytes == 65536 * 65536 * 65536 * 65536
Sized(f) ==
  /\ Len(f.payload) < EightBytes
  /\ f.form = payload_size_code_16bit => Len(f.payload) <= payload_size_extended
  /\ Len(f.payload) + m_max_message_size < SizeT

(* The parts of a frame, and of its bytes.                                 *)
LEMMA FrameIs ==
  ASSUME NEW f \in ScriptFrame
  PROVE  /\ f.op \in 0 .. 15 /\ f.rsv \in 0 .. 7 /\ f.payload \in Seq(Byte) /\ Len(f.payload) \in Nat
         /\ f.form \in {0, 126, 127} /\ Code(f) \in 0 .. 127
         /\ f.fin \in BOOLEAN /\ f.proper \in BOOLEAN
         /\ SizeBytes(Code(f)) \in {0, 2, 8}
<1>1. /\ f.op \in 0 .. 15 /\ f.rsv \in 0 .. 7 /\ f.payload \in Seq(Byte)
      /\ f.form \in {0, 126, 127} /\ f.fin \in BOOLEAN /\ f.proper \in BOOLEAN
  BY DEF ScriptFrame, payload_size_code_16bit, payload_size_code_64bit
<1>2. Len(f.payload) \in Nat
  BY <1>1, LenProperties
<1>3. SizeCode(Len(f.payload)) \in 0 .. 127
  BY <1>2, CodeOfSize
<1>4. Code(f) \in 0 .. 127
  BY <1>1, <1>3 DEF Code
<1>5. SizeBytes(Code(f)) \in {0, 2, 8}
  BY DEF SizeBytes
<1>6. QED
  BY <1>1, <1>2, <1>4, <1>5, Zenon

LEMMA BytesParts ==
  ASSUME NEW f \in ScriptFrame
  PROVE  /\ Basic(f) \in Seq(Byte) /\ Len(Basic(f)) = 2
         /\ SizeOf(f) \in Seq(Byte) /\ Len(SizeOf(f)) = SizeBytes(Code(f))
         /\ KeyOf(f) \in Seq(Byte) /\ Len(KeyOf(f)) = (IF Masked(f) THEN 4 ELSE 0)
         /\ Body(f) \in Seq(Byte) /\ Len(Body(f)) = Len(f.payload)
         /\ Bytes(f) = Basic(f) \o SizeOf(f) \o KeyOf(f) \o Body(f)
<1>1. /\ f.op \in 0 .. 15 /\ f.rsv \in 0 .. 7 /\ f.payload \in Seq(Byte) /\ Len(f.payload) \in Nat
      /\ Code(f) \in 0 .. 127 /\ SizeBytes(Code(f)) \in {0, 2, 8}
  BY FrameIs
<1>2. Basic(f) \in Seq(Byte) /\ Len(Basic(f)) = 2
  <2> DEFINE b == IF f.fin THEN 128 ELSE 0
             c == IF Masked(f) THEN 128 ELSE 0
             first == b + 16 * f.rsv + f.op
             second == c + Code(f)
  <2>1. b \in {0, 128} /\ c \in {0, 128}
    OBVIOUS
  <2>2. \A d \in {0, 128}, x \in 0 .. 7, y \in 0 .. 15 : d + 16 * x + y \in Byte
    BY DEF Byte
  <2>3. \A d \in {0, 128}, x \in 0 .. 127 : d + x \in Byte
    BY DEF Byte
  <2> HIDE DEF b, c
  <2>4. first \in Byte /\ second \in Byte
    <3> DEFINE x == f.rsv
               y == f.op
               z == Code(f)
    <3>1. x \in 0 .. 7 /\ y \in 0 .. 15 /\ z \in 0 .. 127
      BY <1>1
    <3> HIDE DEF x, y, z
    <3>2. b + 16 * x + y \in Byte /\ c + z \in Byte
      BY <2>1, <2>2, <2>3, <3>1
    <3>3. QED
      BY <3>2 DEF x, y, z
  <2>5. Basic(f) = <<first, second>>
    BY DEF Basic, b, c
  <2> HIDE DEF first, second
  <2>6. QED
    BY <2>4, <2>5
<1>3. SizeOf(f) \in Seq(Byte) /\ Len(SizeOf(f)) = SizeBytes(Code(f))
  BY <1>1, SizeFits DEF SizeOf
<1>4. Key \in Seq(Byte) /\ Len(Key) = 4 /\ <<>> \in Seq(Byte) /\ Len(<<>>) = 0 /\ Key # <<>>
  BY DEF Key, Byte
<1>5. KeyOf(f) \in Seq(Byte) /\ Len(KeyOf(f)) = (IF Masked(f) THEN 4 ELSE 0)
  <2>1. CASE Masked(f)
    BY <1>4, <2>1 DEF KeyOf
  <2>2. CASE ~Masked(f)
    BY <1>4, <2>2 DEF KeyOf
  <2>3. QED
    BY <2>1, <2>2
<1>6. Body(f) \in Seq(Byte) /\ Len(Body(f)) = Len(f.payload)
  BY <1>1, <1>4, MaskType DEF Body
<1>7. Bytes(f) = Basic(f) \o SizeOf(f) \o KeyOf(f) \o Body(f)
  <2> DEFINE size == Len(f.payload)
             key == IF f.proper = server THEN Key ELSE <<>>
             code == IF f.form = 0 THEN SizeCode(size) ELSE f.form
             first == (IF f.fin THEN 128 ELSE 0) + 16 * f.rsv + f.op
             second == (IF key = <<>> THEN 0 ELSE 128) + code
             masked == IF key = <<>> THEN f.payload ELSE byte_mask(f.payload, key)
  <2>1. Bytes(f) = <<first, second>> \o BigEndian(size, SizeBytes(code)) \o key \o masked
    BY DEF Bytes, prepare_header
  <2>2. key = KeyOf(f) /\ code = Code(f) /\ BigEndian(size, SizeBytes(code)) = SizeOf(f)
    BY DEF KeyOf, Code, Masked, SizeOf
  <2> HIDE DEF code, size
  <2>3. masked = Body(f)
    BY <1>4 DEF Body, Masked
  <2>4. <<first, second>> = Basic(f)
    BY <1>4, <2>2 DEF Basic, Masked
  <2> HIDE DEF first, second, masked, key
  <2>5. QED
    BY <2>1, <2>2, <2>3, <2>4
<1>8. QED
  BY <1>2, <1>3, <1>5, <1>6, <1>7

(* Numbers read back.                                                      *)
LEMMA ValueOf ==
  ASSUME NEW size \in Nat, NEW width \in {2, 8}, size < EightBytes,
         width = 2 => size <= payload_size_extended
  PROVE  Value(BigEndian(size, width)) = size
<1> DEFINE q == BigEndian(size, width)
           a == size % 256
           b == (size \div 256) % 256
           c == (size \div 65536) % 256
           d == (size \div 16777216) % 256
           high == High(size)
           a1 == high % 256
           b1 == (high \div 256) % 256
           c1 == (high \div 65536) % 256
           d1 == (high \div 16777216) % 256
<1>7. size \div 1 = size /\ a \in 0 .. 255 /\ b \in 0 .. 255 /\ c \in 0 .. 255 /\ d \in 0 .. 255
  OBVIOUS
<1>8. size = 256 * (size \div 256) + a
  OBVIOUS
<1>9. size \div 256 = 256 * (size \div 65536) + b
  OBVIOUS
<1>10. size \div 65536 = 256 * (size \div 16777216) + c
  OBVIOUS
<1>11. size \div 16777216 = 256 * high + d
  BY DEF High
<1>15. high \in Nat /\ high < 256 * 16777216
  BY DEF High, EightBytes
<1> HIDE DEF high
<1>16. /\ high \div 1 = high /\ a1 \in 0 .. 255 /\ b1 \in 0 .. 255 /\ c1 \in 0 .. 255 /\ d1 \in 0 .. 255
  BY <1>15
<1>17. high = 256 * (high \div 256) + a1
  BY <1>15
<1>18. high \div 256 = 256 * (high \div 65536) + b1
  BY <1>15
<1>19. high \div 65536 = 256 * (high \div 16777216) + c1
  BY <1>15
<1>20. high \div 16777216 = d1
  BY <1>15
<1>21. high = 256 * (256 * (256 * d1 + c1) + b1) + a1
  BY <1>16, <1>17, <1>18, <1>19, <1>20
<1> HIDE DEF a, b, c, d, a1, b1, c1, d1
<1>1. q \in Seq(Byte) /\ Len(q) = width
  BY SizeFits
<1>2. \A i \in 1 .. width : q[i] = (IF width - i < 4 THEN size \div Weights[width - i + 1]
                                               ELSE high \div Weights[width - i - 3]) % 256
  BY DEF BigEndian, high
<1>3. Weights[1] = 1 /\ Weights[2] = 256 /\ Weights[3] = 65536 /\ Weights[4] = 16777216
  BY DEF Weights
<1>4. PICK v : Path(ValueEffect, Nat, 0, q, v) /\ Through(ValueEffect, Nat, 0, q) = v[Len(q)]
  <2> DEFINE F == ValueEffect
             X == Nat
             zero == 0
  <2>1. F \in [Byte -> [X -> X]] /\ zero \in X /\ q \in Seq(Byte)
    BY <1>1, ValueEffectType
  <2> HIDE DEF q, F, X, zero
  <2>2. \E v : Path(F, X, zero, q, v) /\ Through(F, X, zero, q) = v[Len(q)]
    BY <2>1, ThroughPath
  <2>3. QED
    BY <2>2 DEF F, X, zero
<1>5. Value(q) = v[width]
  <2> HIDE DEF q
  <2>1. QED
    BY <1>1, <1>4, ValueThrough
<1> HIDE DEF q
<1>6. v[0] = 0 /\ \A i \in 1 .. width : v[i - 1] \in Nat /\ v[i] = 256 * v[i - 1] + q[i]
  <2>1. v \in [0 .. width -> Nat] /\ v[0] = 0
        /\ \A i \in 1 .. width : v[i] = ValueEffect[q[i]][v[i - 1]]
    BY <1>1, <1>4 DEF Path
  <2>2. ASSUME NEW i \in 1 .. width
        PROVE  v[i - 1] \in Nat /\ v[i] = 256 * v[i - 1] + q[i]
    <3>1. i - 1 \in 0 .. width /\ q[i] \in Byte
      BY <1>1, ElementOfSeq
    <3>2. v[i - 1] \in Nat
      BY <2>1, <3>1
    <3>3. QED
      BY <2>1, <3>1, <3>2 DEF ValueEffect, ValueStep
  <2>3. QED
    BY <2>1, <2>2
<1>12. CASE width = 2
  <2>1. q[1] = b /\ q[2] = a
    BY <1>2, <1>3, <1>7, <1>12 DEF a, b
  <2>2. v[1] = 256 * v[0] + q[1] /\ v[2] = 256 * v[1] + q[2]
    <3>1. 1 \in 1 .. width /\ 2 \in 1 .. width /\ 1 - 1 = 0 /\ 2 - 1 = 1
      BY <1>12
    <3>2. QED
      BY <1>6, <3>1
  <2>3. size \div 65536 = 0
    BY <1>12 DEF payload_size_extended
  <2>4. v[2] = 256 * b + a
    BY <1>6, <1>7, <2>1, <2>2
  <2>5. size = 256 * b + a
    BY <1>7, <1>8, <1>9, <2>3
  <2>6. QED
    BY <1>5, <1>12, <2>4, <2>5 DEF q
<1>13. CASE width = 8
  <2>1. q[5] = d /\ q[6] = c /\ q[7] = b /\ q[8] = a
    BY <1>2, <1>3, <1>7, <1>13 DEF a, b, c, d
  <2>2. q[1] = d1 /\ q[2] = c1 /\ q[3] = b1 /\ q[4] = a1
    BY <1>2, <1>3, <1>13, <1>16 DEF a1, b1, c1, d1
  <2>3. /\ v[1] = 256 * v[0] + q[1] /\ v[2] = 256 * v[1] + q[2]
        /\ v[3] = 256 * v[2] + q[3] /\ v[4] = 256 * v[3] + q[4]
        /\ v[5] = 256 * v[4] + q[5] /\ v[6] = 256 * v[5] + q[6]
        /\ v[7] = 256 * v[6] + q[7] /\ v[8] = 256 * v[7] + q[8]
    <3>1. /\ 1 - 1 = 0 /\ 2 - 1 = 1 /\ 3 - 1 = 2 /\ 4 - 1 = 3 /\ 5 - 1 = 4 /\ 6 - 1 = 5 /\ 7 - 1 = 6
          /\ 8 - 1 = 7 /\ \A i \in {1, 2, 3, 4, 5, 6, 7, 8} : i \in 1 .. width
      BY <1>13
    <3>2. QED
      BY <1>6, <3>1
  <2>4. v[1] = d1
    BY <1>6, <1>16, <2>2, <2>3
  <2>5. v[2] = 256 * d1 + c1
    BY <1>16, <2>2, <2>3, <2>4
  <2>6. v[3] = 256 * (256 * d1 + c1) + b1
    BY <1>16, <2>2, <2>3, <2>5
  <2>7. v[4] = high
    BY <1>16, <1>21, <2>2, <2>3, <2>6
  <2>8. v[5] = 256 * high + d
    BY <2>1, <2>3, <2>7
  <2>9. v[6] = 256 * (256 * high + d) + c
    BY <2>1, <2>3, <2>8
  <2>10. v[7] = 256 * (256 * (256 * high + d) + c) + b
    BY <2>1, <2>3, <2>9
  <2>11. v[8] = 256 * (256 * (256 * (256 * high + d) + c) + b) + a
    BY <2>1, <2>3, <2>10
  <2>12. size = 256 * (256 * (256 * (256 * high + d) + c) + b) + a
    BY <1>7, <1>8, <1>9, <1>10, <1>11, <1>15
  <2>13. QED
    BY <1>5, <1>13, <2>11, <2>12 DEF q
<1>14. QED
  BY <1>12, <1>13

(* What the code of a size says of the size, and whether it is minimal.    *)
LEMMA CodeSays ==
  ASSUME NEW f \in ScriptFrame, Sized(f)
  PROVE  /\ Code(f) <= payload_size_basic <=> f.form = 0 /\ Len(f.payload) <= payload_size_basic
         /\ Code(f) <= payload_size_basic => Code(f) = Len(f.payload) /\ SizeBytes(Code(f)) = 0
         /\ ~(Code(f) <= payload_size_basic) => SizeBytes(Code(f)) \in {2, 8}
         /\ SizeBytes(Code(f)) = 2 => Len(f.payload) <= payload_size_extended
         /\ f.form = 0 \/ f.form = SizeCode(Len(f.payload)) <=>
              ~ \/ Code(f) = payload_size_code_16bit /\ Len(f.payload) <= payload_size_basic
                \/ Code(f) = payload_size_code_64bit /\ Len(f.payload) <= payload_size_extended
         /\ ~is_control(f.op) \/ (Code(f) <= payload_size_basic /\ Len(f.payload) <= payload_size_basic)
              \/ ~(f.form = 0 \/ f.form = SizeCode(Len(f.payload))) \/ ~(Len(f.payload) <= payload_size_basic)
<1> DEFINE size == Len(f.payload)
           form == f.form
           minimal == SizeCode(size)
           code == Code(f)
           width == SizeBytes(code)
<1>1. payload_size_basic = 125 /\ payload_size_extended = 65535
      /\ payload_size_code_16bit = 126 /\ payload_size_code_64bit = 127
  BY DEF payload_size_basic, payload_size_extended, payload_size_code_16bit, payload_size_code_64bit
<1>2. size \in Nat /\ form \in {0, 126, 127} /\ (form = 126 => size <= 65535)
  BY <1>1, FrameIs DEF Sized
<1>3. code = IF form = 0 THEN minimal ELSE form
  BY DEF Code
<1>4. width = IF code = 126 THEN 2 ELSE IF code = 127 THEN 8 ELSE 0
  <2>1. CASE code = 126
    BY <1>1, <2>1 DEF SizeBytes
  <2>2. CASE code = 127
    BY <1>1, <2>2 DEF SizeBytes
  <2>3. CASE code # 126 /\ code # 127
    BY <1>1, <2>3 DEF SizeBytes
  <2>4. QED
    BY <2>1, <2>2, <2>3
<1>5. minimal = IF size <= 125 THEN size ELSE IF size <= 65535 THEN 126 ELSE 127
  <2>1. CASE size <= 125
    BY <1>1, <1>2, <2>1 DEF SizeCode
  <2>2. CASE size > 125 /\ size <= 65535
    BY <1>1, <1>2, <2>2 DEF SizeCode
  <2>3. CASE size > 65535
    BY <1>1, <1>2, <2>3 DEF SizeCode
  <2>4. QED
    BY <1>2, <2>1, <2>2, <2>3
<1> HIDE DEF size, form, minimal, code, width
<1>6. CASE size <= 125
  <2>1. minimal = size
    BY <1>5, <1>6
  <2>2. CASE form = 0
    <3>1. code = size /\ code # 126 /\ code # 127
      BY <1>2, <1>3, <1>6, <2>1, <2>2
    <3>2. width = 0
      BY <1>4, <3>1
    <3>3. QED
      BY <1>1, <1>6, <2>2, <3>1, <3>2 DEF size, form, code, width, minimal
  <2>3. CASE form = 126
    <3>1. code = 126 /\ minimal # form
      BY <1>2, <1>3, <1>6, <2>1, <2>3
    <3>2. width = 2 /\ ~(code <= 125)
      BY <1>4, <3>1
    <3>3. size <= 65535
      BY <1>2, <1>6
    <3>4. QED
      BY <1>1, <1>6, <2>3, <3>1, <3>2, <3>3 DEF size, form, code, width, minimal
  <2>4. CASE form = 127
    <3>1. code = 127 /\ minimal # form
      BY <1>2, <1>3, <1>6, <2>1, <2>4
    <3>2. width = 8 /\ ~(code <= 125)
      BY <1>4, <3>1
    <3>3. size <= 65535
      BY <1>2, <1>6
    <3>4. QED
      BY <1>1, <1>6, <2>4, <3>1, <3>2, <3>3 DEF size, form, code, width, minimal
  <2>5. QED
    BY <1>2, <2>2, <2>3, <2>4
<1>7. CASE ~(size <= 125) /\ size <= 65535
  <2>1. minimal = 126
    BY <1>5, <1>7
  <2>2. CASE form # 127
    <3>1. code = 126 /\ (form = 0 \/ form = minimal)
      BY <1>2, <1>3, <2>1, <2>2
    <3>2. width = 2 /\ ~(code <= 125)
      BY <1>4, <3>1
    <3>3. QED
      BY <1>1, <1>7, <3>1, <3>2 DEF size, form, code, width, minimal
  <2>3. CASE form = 127
    <3>1. code = 127 /\ form # 0 /\ form # minimal
      BY <1>3, <2>1, <2>3
    <3>2. width = 8 /\ ~(code <= 125)
      BY <1>4, <3>1
    <3>3. QED
      BY <1>1, <1>7, <3>1, <3>2 DEF size, form, code, width, minimal
  <2>4. QED
    BY <2>2, <2>3
<1>8. CASE ~(size <= 65535)
  <2>1. minimal = 127 /\ ~(size <= 125)
    BY <1>2, <1>5, <1>8
  <2>2. code = 127 /\ (form = 0 \/ form = minimal)
    BY <1>2, <1>3, <1>8, <2>1
  <2>3. width = 8 /\ ~(code <= 125)
    BY <1>4, <2>2
  <2>4. QED
    BY <1>1, <1>8, <2>1, <2>2, <2>3 DEF size, form, code, width, minimal
<1>9. QED
  BY <1>6, <1>7, <1>8

(* The first two bytes say what the frame is.                              *)
LEMMA BasicSays ==
  ASSUME NEW f \in ScriptFrame
  PROVE  LET h == Basic(f)
         IN  /\ get_fin(h) <=> f.fin
             /\ get_rsv(h) = f.rsv /\ get_opcode(h) = f.op /\ get_basic_size(h) = Code(f)
             /\ get_masked(h) <=> Masked(f)
             /\ get_masking_key_offset(h) = SizeBytes(Code(f))
             /\ get_header_len(h) = 2 + SizeBytes(Code(f)) + (IF Masked(f) THEN 4 ELSE 0)
<1> DEFINE h == Basic(f)
           b == IF f.fin THEN 128 ELSE 0
           c == IF Masked(f) THEN 128 ELSE 0
           rsv == f.rsv
           op == f.op
           code == Code(f)
<1>1. rsv \in 0 .. 7 /\ op \in 0 .. 15 /\ code \in 0 .. 127
  BY FrameIs
<1>2. h[1] = b + 16 * rsv + op /\ h[2] = c + code
  BY DEF Basic
<1>3. b \in {0, 128} /\ c \in {0, 128} /\ (b = 128 <=> f.fin) /\ (c = 128 <=> Masked(f))
  OBVIOUS
<1> HIDE DEF h, b, c, rsv, op, code
<1>4. h[1] >= 128 <=> b = 128
  BY <1>1, <1>2, <1>3
<1>5. (h[1] % 128) \div 16 = rsv
  <2>1. h[1] % 128 = 16 * rsv + op
    BY <1>1, <1>2, <1>3
  <2>2. (16 * rsv + op) \div 16 = rsv
    BY <1>1
  <2>3. QED
    BY <2>1, <2>2
<1>6. h[1] % 16 = op
  BY <1>1, <1>2, <1>3
<1>7. h[2] >= 128 <=> c = 128
  BY <1>1, <1>2, <1>3
<1>8. h[2] % 128 = code
  BY <1>1, <1>2, <1>3
<1>9. get_basic_size(h) = code /\ (get_masked(h) <=> Masked(f))
  BY <1>3, <1>7, <1>8 DEF get_basic_size, get_masked
<1>10. get_masking_key_offset(h) = SizeBytes(code)
  <2>1. CASE code = payload_size_code_16bit
    BY <1>9, <2>1 DEF get_masking_key_offset, SizeBytes
  <2>2. CASE code = payload_size_code_64bit
    BY <1>9, <2>2 DEF get_masking_key_offset, SizeBytes
  <2>3. CASE code # payload_size_code_16bit /\ code # payload_size_code_64bit
    BY <1>9, <2>3 DEF get_masking_key_offset, SizeBytes
  <2>4. QED
    BY <2>1, <2>2, <2>3
<1>11. get_header_len(h) = 2 + SizeBytes(code) + (IF Masked(f) THEN 4 ELSE 0)
  BY <1>9, <1>10 DEF get_header_len
<1>12. /\ get_fin(h) <=> f.fin
       /\ get_rsv(h) = rsv /\ get_opcode(h) = op
  BY <1>3, <1>4, <1>5, <1>6 DEF get_fin, get_rsv, get_opcode
<1>13. QED
  BY <1>9, <1>10, <1>11, <1>12 DEF h, rsv, op, code

(* What follows them, up to the payload, gives its size and the key.       *)
LEMMA ExtendedIs ==
  ASSUME NEW f \in ScriptFrame, Sized(f)
  PROVE  LET h == Basic(f)
             e == SizeOf(f) \o KeyOf(f)
         IN  /\ e \in Seq(Byte) /\ Len(e) = get_header_len(h) - 2
             /\ get_payload_size(h, e) = Len(f.payload)
             /\ Masked(f) => get_masking_key(h, e) = Key
<1> DEFINE h == Basic(f)
           x == SizeOf(f)
           y == KeyOf(f)
           e == x \o y
           w == SizeBytes(Code(f))
<1>1. x \in Seq(Byte) /\ Len(x) = w /\ y \in Seq(Byte) /\ Len(y) = (IF Masked(f) THEN 4 ELSE 0)
  BY BytesParts
<1>2. /\ get_basic_size(h) = Code(f) /\ (get_masked(h) <=> Masked(f))
      /\ get_masking_key_offset(h) = w
      /\ get_header_len(h) = 2 + w + (IF Masked(f) THEN 4 ELSE 0)
  BY BasicSays
<1>3. w \in {0, 2, 8} /\ w \in Nat
  BY FrameIs
<1> HIDE DEF x, y, w, h
<1>4. /\ e \in Seq(Byte) /\ Len(e) = Len(x) + Len(y)
      /\ (\A i \in 1 .. Len(x) : e[i] = x[i]) /\ \A i \in 1 .. Len(y) : e[Len(x) + i] = y[i]
  BY <1>1, Joined
<1> HIDE DEF e
<1>5. Len(e) = get_header_len(h) - 2
  BY <1>1, <1>2, <1>3, <1>4
<1>6. get_payload_size(h, e) = Len(f.payload)
  <2>1. CASE Code(f) <= payload_size_basic
    <3>1. Code(f) = Len(f.payload)
      BY <2>1, CodeSays
    <3>2. QED
      BY <1>2, <2>1, <3>1 DEF get_payload_size
  <2>2. CASE ~(Code(f) <= payload_size_basic)
    <3>1. w \in {2, 8} /\ (w = 2 => Len(f.payload) <= payload_size_extended)
      BY <2>2, CodeSays DEF w
    <3>2. Len(f.payload) \in Nat /\ Len(f.payload) < EightBytes
      BY FrameIs DEF Sized
    <3>3. Value(x) = Len(f.payload)
      BY <3>1, <3>2, ValueOf DEF x, SizeOf, w
    <3>4. SubSeq(e, 1, w) = x
      <4>1. 1 \in Nat \ {0} /\ w <= Len(e) /\ 1 <= w + 1 /\ w + 1 - 1 = w
        BY <1>1, <1>3, <1>4
      <4>2. /\ SubSeq(e, 1, w) \in Seq(Byte) /\ Len(SubSeq(e, 1, w)) = w + 1 - 1
            /\ \A i \in 1 .. w + 1 - 1 : SubSeq(e, 1, w)[i] = e[1 + i - 1]
        BY <1>3, <1>4, <4>1, Part
      <4>3. \A i \in 1 .. w : SubSeq(e, 1, w)[i] = x[i]
        BY <1>1, <1>3, <1>4, <4>1, <4>2
      <4> DEFINE s == SubSeq(e, 1, w)
      <4> HIDE DEF s
      <4>4. s \in Seq(Byte) /\ Len(s) = Len(x) /\ \A i \in 1 .. Len(s) : s[i] = x[i]
        BY <1>1, <4>1, <4>2, <4>3 DEF s
      <4>5. s = x
        BY <1>1, <4>4, SeqEqual
      <4>6. QED
        BY <4>5 DEF s
    <3>5. QED
      BY <1>2, <2>2, <3>3, <3>4 DEF get_payload_size
  <2>3. QED
    BY <2>1, <2>2
<1>7. ASSUME Masked(f) PROVE get_masking_key(h, e) = Key
  <2>1. y = Key /\ Len(y) = 4
    BY <1>1, <1>7 DEF y, KeyOf
  <2>2. w + 1 \in Nat \ {0} /\ w + 4 \in Nat /\ w + 4 <= Len(e) /\ w + 1 <= w + 4 + 1 /\ w + 4 + 1 - (w + 1) = 4
    <3>1. Len(e) = w + 4
      BY <1>1, <1>4, <2>1
    <3> HIDE DEF e
    <3>2. QED
      BY <1>3, <3>1
  <2> DEFINE s == SubSeq(e, w + 1, w + 4)
  <2>3. /\ s \in Seq(Byte) /\ Len(s) = w + 4 + 1 - (w + 1)
        /\ \A i \in 1 .. w + 4 + 1 - (w + 1) : s[i] = e[w + 1 + i - 1]
    BY <1>4, <2>2, Part
  <2>4. \A i \in 1 .. 4 : w + 1 + i - 1 = Len(x) + i /\ i \in 1 .. Len(y)
    BY <1>1, <1>3, <2>1
  <2> HIDE DEF s
  <2>5. Len(s) = 4 /\ \A i \in 1 .. 4 : s[i] = y[i]
    BY <1>4, <2>2, <2>3, <2>4
  <2>6. s = y
    BY <1>1, <2>1, <2>3, <2>5, SeqEqual
  <2>7. QED
    BY <1>2, <1>7, <2>1, <2>6 DEF get_masking_key, s
<1>8. QED
  BY <1>4, <1>5, <1>6, <1>7 DEF h, e, x, y

-----------------------------------------------------------------------------
(* A frame is legal if its first two bytes, its size and its payload are:  *)
(* the three points where the parser refuses one.                          *)
HeadLegal(open, f) ==
  /\ f.rsv = 0 /\ f.proper /\ ~reserved(f.op)
  /\ is_control(f.op) => f.fin /\ Code(f) <= payload_size_basic
  /\ IsData(f) => (f.op = CONTINUATION <=> open # <<>>)
SizeLegal(f) == f.form = 0 \/ f.form = SizeCode(Len(f.payload))
Checked(m) == IF m.op = TEXT THEN decode(Accept, m.payload) ELSE Accept
BodyLegal(open, f) ==
  IsData(f) =>
    LET m == WithFrame(open, f)
    IN  /\ Len(m.payload) <= m_max_message_size
        /\ Checked(m) # Reject /\ (f.fin => complete(Checked(m)))

(* The three together are what the reference calls legal.                  *)
LEMMA LegalIs ==
  ASSUME NEW f \in ScriptFrame, Sized(f), NEW open
  PROVE  Legal(open, f) <=> HeadLegal(open, f) /\ SizeLegal(f) /\ BodyLegal(open, f)
<1> DEFINE m == WithFrame(open, f)
           valid == m.op = TEXT => decode(Accept, m.payload) # Reject
                                     /\ (f.fin => complete(decode(Accept, m.payload)))
<1>1. Legal(open, f) <=>
        /\ f.rsv = 0 /\ f.proper /\ ~reserved(f.op) /\ SizeLegal(f)
        /\ IF IsData(f)
           THEN (f.op = CONTINUATION <=> open # <<>>) /\ Len(m.payload) <= m_max_message_size /\ valid
           ELSE f.fin /\ Len(f.payload) <= payload_size_basic
  BY DEF Legal, SizeLegal
<1>2. valid <=> Checked(m) # Reject /\ (f.fin => complete(Checked(m)))
  <2>1. Accept # Reject
    BY DEF Accept, Reject
  <2>2. CASE m.op = TEXT
    BY <2>2 DEF Checked
  <2>3. CASE m.op # TEXT
    BY <2>1, <2>3 DEF Checked, complete
  <2>4. QED
    BY <2>2, <2>3
<1> HIDE DEF valid
<1>3. CASE IsData(f)
  <2>1. ~is_control(f.op)
    BY <1>3 DEF IsData
  <2>2. BodyLegal(open, f) <=> Len(m.payload) <= m_max_message_size /\ valid
    BY <1>2, <1>3 DEF BodyLegal
  <2>3. QED
    BY <1>1, <1>3, <2>1, <2>2 DEF HeadLegal
<1>4. CASE ~IsData(f)
  <2>1. is_control(f.op)
    BY <1>4 DEF IsData
  <2>2. BodyLegal(open, f)
    BY <1>4 DEF BodyLegal
  <2>3. SizeLegal(f) => (Len(f.payload) <= payload_size_basic => Code(f) <= payload_size_basic)
    BY <2>1, CodeSays DEF SizeLegal
  <2>4. Code(f) <= payload_size_basic => Len(f.payload) <= payload_size_basic
    BY CodeSays
  <2>5. QED
    BY <1>1, <1>4, <2>1, <2>2, <2>3, <2>4 DEF HeadLegal
<1>5. QED
  BY <1>3, <1>4

(* What the receiver refuses in a header is what makes it illegal.         *)
LEMMA NoFault ==
  ASSUME NEW h, NEW new
  PROVE  validate_incoming_basic_header(h, new) = "none" <=>
           LET op == get_opcode(h)
           IN  /\ ~(is_control(op) /\ get_basic_size(h) > payload_size_basic)
               /\ ~(get_rsv(h) # 0)
               /\ ~reserved(op)
               /\ ~(is_control(op) /\ ~get_fin(h))
               /\ ~(new /\ op = CONTINUATION)
               /\ ~(~new /\ ~is_control(op) /\ op # CONTINUATION)
               /\ ~(server /\ ~get_masked(h))
               /\ ~(~server /\ get_masked(h))
<1> DEFINE op == get_opcode(h)
           f1 == is_control(op) /\ get_basic_size(h) > payload_size_basic
           f2 == get_rsv(h) # 0
           f3 == reserved(op)
           f4 == is_control(op) /\ ~get_fin(h)
           f5 == new /\ op = CONTINUATION
           f6 == ~new /\ ~is_control(op) /\ op # CONTINUATION
           f7 == server /\ ~get_masked(h)
           f8 == ~server /\ get_masked(h)
           faults == <<
             <<f1, "control_too_big">>, <<f2, "invalid_rsv_bit">>, <<f3, "invalid_opcode">>,
             <<f4, "fragmented_control">>, <<f5, "invalid_continuation">>,
             <<f6, "invalid_continuation">>, <<f7, "masking_required">>, <<f8, "masking_forbidden">> >>
           found == {i \in DOMAIN faults : faults[i][1]}
<1>1. validate_incoming_basic_header(h, new) = IF found = {} THEN "none" ELSE faults[Min(found)][2]
  BY Zenon DEF validate_incoming_basic_header
<1> HIDE DEF op, f1, f2, f3, f4, f5, f6, f7, f8
<1>2. DOMAIN faults = 1 .. 8
  OBVIOUS
<1>3. \A i \in 1 .. 8 : faults[i][2] # "none"
  OBVIOUS
<1>4. /\ faults[1][1] <=> f1
      /\ faults[2][1] <=> f2
      /\ faults[3][1] <=> f3
      /\ faults[4][1] <=> f4
      /\ faults[5][1] <=> f5
      /\ faults[6][1] <=> f6
      /\ faults[7][1] <=> f7
      /\ faults[8][1] <=> f8
  OBVIOUS
<1> HIDE DEF faults
<1>5. found = {} <=> validate_incoming_basic_header(h, new) = "none"
  <2>1. ASSUME found # {} PROVE faults[Min(found)][2] # "none"
    <3>1. found \subseteq Nat /\ found \subseteq 1 .. 8
      BY <1>2
    <3> HIDE DEF found
    <3>2. Min(found) \in found
      BY <2>1, <3>1, MinOf
    <3>3. QED
      BY <1>3, <3>1, <3>2
  <2>2. QED
    BY <1>1, <2>1
<1>6. found = {} <=> \A i \in 1 .. 8 : ~faults[i][1]
  BY <1>2
<1>7. (\A i \in 1 .. 8 : ~faults[i][1]) <=>
        /\ ~faults[1][1] /\ ~faults[2][1] /\ ~faults[3][1] /\ ~faults[4][1]
        /\ ~faults[5][1] /\ ~faults[6][1] /\ ~faults[7][1] /\ ~faults[8][1]
  <2> DEFINE P(i) == faults[i][1]
  <2>1. \A i \in 1 .. 8 : i \in {1, 2, 3, 4, 5, 6, 7, 8}
    OBVIOUS
  <2>2. \A i \in {1, 2, 3, 4, 5, 6, 7, 8} : i \in 1 .. 8
    OBVIOUS
  <2> HIDE DEF P
  <2>3. (\A i \in 1 .. 8 : ~P(i)) <=>
          ~P(1) /\ ~P(2) /\ ~P(3) /\ ~P(4) /\ ~P(5) /\ ~P(6) /\ ~P(7) /\ ~P(8)
    BY <2>1, <2>2
  <2>4. QED
    BY <2>3 DEF P
<1>8. validate_incoming_basic_header(h, new) = "none" <=>
        ~f1 /\ ~f2 /\ ~f3 /\ ~f4 /\ ~f5 /\ ~f6 /\ ~f7 /\ ~f8
  BY <1>4, <1>5, <1>6, <1>7, Zenon
<1>9. QED
  BY <1>8, Zenon DEF op, f1, f2, f3, f4, f5, f6, f7, f8

LEMMA HeadFault ==
  ASSUME NEW f \in ScriptFrame, NEW open, server \in BOOLEAN
  PROVE  validate_incoming_basic_header(Basic(f), open = <<>>) = "none" <=> HeadLegal(open, f)
<1> DEFINE h == Basic(f)
           op == get_opcode(h)
           new == open = <<>>
           big == Code(f) > payload_size_basic
<1>1. /\ get_fin(h) <=> f.fin
      /\ get_rsv(h) = f.rsv /\ get_opcode(h) = f.op /\ get_basic_size(h) = Code(f)
      /\ get_masked(h) <=> f.proper = server
  BY BasicSays DEF Masked
<1>2. big <=> ~(Code(f) <= payload_size_basic)
  <2>1. Code(f) \in 0 .. 127 /\ payload_size_basic = 125
    BY FrameIs DEF payload_size_basic
  <2>2. QED
    BY <2>1
<1>3. validate_incoming_basic_header(h, new) = "none" <=>
        /\ ~(is_control(op) /\ get_basic_size(h) > payload_size_basic)
        /\ ~(get_rsv(h) # 0)
        /\ ~reserved(op)
        /\ ~(is_control(op) /\ ~get_fin(h))
        /\ ~(new /\ op = CONTINUATION)
        /\ ~(~new /\ ~is_control(op) /\ op # CONTINUATION)
        /\ ~(server /\ ~get_masked(h))
        /\ ~(~server /\ get_masked(h))
  BY NoFault, Zenon
<1> HIDE DEF h
<1>4. (~(server /\ ~get_masked(h)) /\ ~(~server /\ get_masked(h))) <=> f.proper
  <2>1. f.proper \in BOOLEAN
    BY FrameIs
  <2>2. QED
    BY <1>1, <2>1, Zenon
<1>5. ~is_control(CONTINUATION)
  BY DEF is_control, CONTINUATION, CLOSE
<1> DEFINE ic == is_control(f.op)
           cont == f.op = CONTINUATION
           rv == reserved(f.op)
<1>6. cont => ~ic
  BY <1>5
<1>7. validate_incoming_basic_header(h, new) = "none" <=>
        /\ ~(ic /\ big) /\ f.rsv = 0 /\ ~rv /\ ~(ic /\ ~f.fin)
        /\ ~(new /\ cont) /\ ~(~new /\ ~ic /\ ~cont) /\ f.proper
  BY <1>1, <1>3, <1>4, Zenon
<1>8. HeadLegal(open, f) <=>
        /\ f.rsv = 0 /\ f.proper /\ ~rv /\ (ic => f.fin /\ ~big) /\ (~ic => (cont <=> ~new))
  BY <1>2 DEF HeadLegal, IsData
<1> HIDE DEF ic, cont, rv, big, new
<1>9. QED
  BY <1>6, <1>7, <1>8, Zenon DEF h, new

LEMMA SizeFault ==
  ASSUME NEW f \in ScriptFrame, Sized(f)
  PROVE  validate_incoming_extended_header(Basic(f), SizeOf(f) \o KeyOf(f)) = "none" <=> SizeLegal(f)
<1> DEFINE h == Basic(f)
           e == SizeOf(f) \o KeyOf(f)
           fault == \/ Code(f) = payload_size_code_16bit /\ Len(f.payload) <= payload_size_basic
                    \/ Code(f) = payload_size_code_64bit /\ Len(f.payload) <= payload_size_extended
<1>1. get_payload_size(h, e) = Len(f.payload) /\ get_basic_size(h) = Code(f)
  BY BasicSays, ExtendedIs
<1> HIDE DEF h, e
<1>2. validate_incoming_extended_header(h, e) = "none" <=> ~fault
  BY <1>1 DEF validate_incoming_extended_header
<1>3. SizeLegal(f) <=> ~fault
  BY CodeSays DEF SizeLegal
<1>4. QED
  BY <1>2, <1>3 DEF h, e

-----------------------------------------------------------------------------
(* What is masked twice is as before, as the bits of a byte show.          *)
LEMMA BitOf ==
  ASSUME NEW x7 \in {0, 1}, NEW x6 \in {0, 1}, NEW x5 \in {0, 1}, NEW x4 \in {0, 1},
         NEW x3 \in {0, 1}, NEW x2 \in {0, 1}, NEW x1 \in {0, 1}, NEW x0 \in {0, 1}
  PROVE  LET c == 128 * x7 + 64 * x6 + 32 * x5 + 16 * x4 + 8 * x3 + 4 * x2 + 2 * x1 + x0
         IN  /\ c \in 0 .. 255
             /\ (c \div 128) % 2 = x7 /\ (c \div 64) % 2 = x6 /\ (c \div 32) % 2 = x5
             /\ (c \div 16) % 2 = x4 /\ (c \div 8) % 2 = x3 /\ (c \div 4) % 2 = x2
             /\ (c \div 2) % 2 = x1 /\ (c \div 1) % 2 = x0
<1> DEFINE c == 128 * x7 + 64 * x6 + 32 * x5 + 16 * x4 + 8 * x3 + 4 * x2 + 2 * x1 + x0
<1>1. c \in 0 .. 255
  OBVIOUS
<1>2. c \div 128 = x7
  OBVIOUS
<1>3. c \div 64 = 2 * x7 + x6
  OBVIOUS
<1>4. c \div 32 = 2 * (2 * x7 + x6) + x5
  OBVIOUS
<1>5. c \div 16 = 2 * (4 * x7 + 2 * x6 + x5) + x4
  OBVIOUS
<1>6. c \div 8 = 2 * (8 * x7 + 4 * x6 + 2 * x5 + x4) + x3
  OBVIOUS
<1>7. c \div 4 = 2 * (16 * x7 + 8 * x6 + 4 * x5 + 2 * x4 + x3) + x2
  OBVIOUS
<1>8. c \div 2 = 2 * (32 * x7 + 16 * x6 + 8 * x5 + 4 * x4 + 2 * x3 + x2) + x1
  OBVIOUS
<1>9. c \div 1 = 2 * (64 * x7 + 32 * x6 + 16 * x5 + 8 * x4 + 4 * x3 + 2 * x2 + x1) + x0
  OBVIOUS
<1>10. ASSUME NEW u \in Nat, NEW x \in {0, 1} PROVE (2 * u + x) % 2 = x
  OBVIOUS
<1>11. /\ x7 % 2 = x7 /\ (2 * x7 + x6) % 2 = x6 /\ (2 * (2 * x7 + x6) + x5) % 2 = x5
       /\ (2 * (4 * x7 + 2 * x6 + x5) + x4) % 2 = x4
       /\ (2 * (8 * x7 + 4 * x6 + 2 * x5 + x4) + x3) % 2 = x3
       /\ (2 * (16 * x7 + 8 * x6 + 4 * x5 + 2 * x4 + x3) + x2) % 2 = x2
       /\ (2 * (32 * x7 + 16 * x6 + 8 * x5 + 4 * x4 + 2 * x3 + x2) + x1) % 2 = x1
       /\ (2 * (64 * x7 + 32 * x6 + 16 * x5 + 8 * x4 + 4 * x3 + 2 * x2 + x1) + x0) % 2 = x0
  OBVIOUS
<1> HIDE DEF c
<1>12. QED
  BY <1>1, <1>2, <1>3, <1>4, <1>5, <1>6, <1>7, <1>8, <1>9, <1>11 DEF c

LEMMA ByBits ==
  ASSUME NEW a \in Byte
  PROVE  a = 128 * ((a \div 128) % 2) + 64 * ((a \div 64) % 2) + 32 * ((a \div 32) % 2)
               + 16 * ((a \div 16) % 2) + 8 * ((a \div 8) % 2) + 4 * ((a \div 4) % 2)
               + 2 * ((a \div 2) % 2) + ((a \div 1) % 2)
<1>0. a \in 0 .. 255
  BY DEF Byte
<1>1. a \div 1 = a /\ a = 2 * (a \div 2) + (a % 2)
  BY <1>0
<1>2. a \div 2 = 2 * (a \div 4) + ((a \div 2) % 2)
  BY <1>0
<1>3. a \div 4 = 2 * (a \div 8) + ((a \div 4) % 2)
  BY <1>0
<1>4. a \div 8 = 2 * (a \div 16) + ((a \div 8) % 2)
  BY <1>0
<1>5. a \div 16 = 2 * (a \div 32) + ((a \div 16) % 2)
  BY <1>0
<1>6. a \div 32 = 2 * (a \div 64) + ((a \div 32) % 2)
  BY <1>0
<1>7. a \div 64 = 2 * (a \div 128) + ((a \div 64) % 2)
  BY <1>0
<1>8. a \div 128 = (a \div 128) % 2
  BY <1>0
<1>9. QED
  BY <1>0, <1>1, <1>2, <1>3, <1>4, <1>5, <1>6, <1>7, <1>8

LEMMA XorTwice ==
  ASSUME NEW a \in Byte, NEW b \in Byte
  PROVE  Xor(Xor(a, b), b) = a
<1> DEFINE x(w) == ((a \div w) + (b \div w)) % 2
           c == Xor(a, b)
           y(w) == ((c \div w) + (b \div w)) % 2
           W == {128, 64, 32, 16, 8, 4, 2, 1}
<1>1. \A w \in W : a \div w \in Nat /\ b \div w \in Nat
  BY DEF Byte
<1>2. \A w \in W : x(w) \in {0, 1}
  BY <1>1
<1>3. c = 128 * x(128) + 64 * x(64) + 32 * x(32) + 16 * x(16) + 8 * x(8) + 4 * x(4) + 2 * x(2) + x(1)
  <2>1. c = 128 * x(128) + 64 * x(64) + 32 * x(32) + 16 * x(16) + 8 * x(8) + 4 * x(4) + 2 * x(2)
              + 1 * x(1)
    BY Zenon DEF Xor
  <2> HIDE DEF x, c
  <2>2. QED
    BY <1>2, <2>1
<1> HIDE DEF x, c
<1>4. \A w \in W : (c \div w) % 2 = x(w)
  <2>1. /\ (c \div 128) % 2 = x(128) /\ (c \div 64) % 2 = x(64) /\ (c \div 32) % 2 = x(32)
        /\ (c \div 16) % 2 = x(16) /\ (c \div 8) % 2 = x(8) /\ (c \div 4) % 2 = x(4)
        /\ (c \div 2) % 2 = x(2) /\ (c \div 1) % 2 = x(1)
    <3> DEFINE x7 == x(128)
               x6 == x(64)
               x5 == x(32)
               x4 == x(16)
               x3 == x(8)
               x2 == x(4)
               x1 == x(2)
               x0 == x(1)
    <3>1. /\ x7 \in {0, 1} /\ x6 \in {0, 1} /\ x5 \in {0, 1} /\ x4 \in {0, 1}
          /\ x3 \in {0, 1} /\ x2 \in {0, 1} /\ x1 \in {0, 1} /\ x0 \in {0, 1}
      BY <1>2
    <3>2. c = 128 * x7 + 64 * x6 + 32 * x5 + 16 * x4 + 8 * x3 + 4 * x2 + 2 * x1 + x0
      BY <1>3
    <3> HIDE DEF x7, x6, x5, x4, x3, x2, x1, x0
    <3>3. /\ c \in 0 .. 255
          /\ (c \div 128) % 2 = x7 /\ (c \div 64) % 2 = x6 /\ (c \div 32) % 2 = x5
          /\ (c \div 16) % 2 = x4 /\ (c \div 8) % 2 = x3 /\ (c \div 4) % 2 = x2
          /\ (c \div 2) % 2 = x1 /\ (c \div 1) % 2 = x0
      BY <3>1, <3>2, BitOf
    <3>4. QED
      BY <3>3 DEF x7, x6, x5, x4, x3, x2, x1, x0
  <2>2. QED
    BY <2>1
<1>5. c \in 0 .. 255
  BY <1>2, <1>3, BitOf
<1>6. ASSUME NEW w \in W PROVE y(w) = (a \div w) % 2
  <2> DEFINE u == c \div w
             m == a \div w
             k == b \div w
  <2>1. u \in Nat
    BY <1>5
  <2>2. m \in Nat /\ k \in Nat /\ u % 2 = (m + k) % 2
    BY <1>1, <1>4 DEF x
  <2> HIDE DEF u, m, k
  <2>3. (u + k) % 2 = m % 2
    BY <2>1, <2>2
  <2>4. QED
    BY <2>3 DEF u, m, k
<1>7. Xor(c, b) = 128 * y(128) + 64 * y(64) + 32 * y(32) + 16 * y(16) + 8 * y(8) + 4 * y(4)
                    + 2 * y(2) + 1 * y(1)
  BY Zenon DEF Xor
<1>8. Xor(c, b) = 128 * ((a \div 128) % 2) + 64 * ((a \div 64) % 2) + 32 * ((a \div 32) % 2)
                    + 16 * ((a \div 16) % 2) + 8 * ((a \div 8) % 2) + 4 * ((a \div 4) % 2)
                    + 2 * ((a \div 2) % 2) + 1 * ((a \div 1) % 2)
  <2> HIDE DEF y
  <2>1. QED
    BY <1>6, <1>7
<1>9. (a \div 1) % 2 \in Nat
  BY <1>1
<1>10. 1 * ((a \div 1) % 2) = (a \div 1) % 2
  BY <1>9
<1>11. QED
  BY <1>8, <1>10, ByBits DEF c

(* The key after t bytes.                                                  *)
LEMMA KeyAfter ==
  ASSUME NEW t \in Nat, NEW a \in Nat
  PROVE  /\ circshift_prepared_key(Key, 0) = Key
         /\ circshift_prepared_key(circshift_prepared_key(Key, t), a) = circshift_prepared_key(Key, t + a)
         /\ \A i \in 1 .. 4 : circshift_prepared_key(Key, t)[i] = Key[((i + t - 1) % 4) + 1]
<1>1. Key \in Seq(Byte) /\ Len(Key) = 4 /\ 0 \in Nat /\ t + a \in Nat
  BY DEF Key, Byte
<1>2. ASSUME NEW k \in Seq(Byte), Len(k) = 4, NEW s \in Nat
      PROVE  /\ circshift_prepared_key(k, s) \in Seq(Byte) /\ Len(circshift_prepared_key(k, s)) = 4
             /\ \A i \in 1 .. 4 : circshift_prepared_key(k, s)[i] = k[((i + s - 1) % 4) + 1]
  <2>1. circshift_prepared_key(k, s) \in Seq(Byte) /\ Len(circshift_prepared_key(k, s)) = 4
    BY <1>2, KeyTurned
  <2>2. \A i \in 1 .. 4 : circshift_prepared_key(k, s)[i] = k[((i + s - 1) % 4) + 1]
    BY DEF circshift_prepared_key
  <2>3. QED
    BY <2>1, <2>2
<1> HIDE DEF Key
<1>3. circshift_prepared_key(Key, 0) = Key
  <2> DEFINE s == circshift_prepared_key(Key, 0)
  <2>1. s \in Seq(Byte) /\ Len(s) = 4 /\ \A i \in 1 .. 4 : s[i] = Key[((i + 0 - 1) % 4) + 1]
    BY <1>1, <1>2
  <2>2. \A i \in 1 .. 4 : ((i + 0 - 1) % 4) + 1 = i
    OBVIOUS
  <2> HIDE DEF s
  <2>3. \A i \in 1 .. Len(s) : s[i] = Key[i]
    BY <2>1, <2>2
  <2>4. s = Key
    BY <1>1, <2>1, <2>3, SeqEqual
  <2>5. QED
    BY <2>4 DEF s
<1> DEFINE k == circshift_prepared_key(Key, t)
           l == circshift_prepared_key(k, a)
           m == circshift_prepared_key(Key, t + a)
<1>4. k \in Seq(Byte) /\ Len(k) = 4 /\ \A i \in 1 .. 4 : k[i] = Key[((i + t - 1) % 4) + 1]
  BY <1>1, <1>2
<1>5. l = m
  <2> HIDE DEF k
  <2>1. l \in Seq(Byte) /\ Len(l) = 4 /\ \A i \in 1 .. 4 : l[i] = k[((i + a - 1) % 4) + 1]
    BY <1>2, <1>4
  <2>2. m \in Seq(Byte) /\ Len(m) = 4 /\ \A i \in 1 .. 4 : m[i] = Key[((i + (t + a) - 1) % 4) + 1]
    BY <1>1, <1>2
  <2> HIDE DEF l, m
  <2>3. ASSUME NEW i \in 1 .. 4
        PROVE  /\ ((i + a - 1) % 4) + 1 \in 1 .. 4
               /\ (((((i + a - 1) % 4) + 1) + t - 1) % 4) + 1 = ((i + (t + a) - 1) % 4) + 1
    OBVIOUS
  <2>4. ASSUME NEW i \in 1 .. 4 PROVE l[i] = m[i]
    <3> DEFINE j == ((i + a - 1) % 4) + 1
    <3>1. j \in 1 .. 4 /\ ((j + t - 1) % 4) + 1 = ((i + (t + a) - 1) % 4) + 1
      BY <2>3
    <3>2. l[i] = k[j] /\ m[i] = Key[((i + (t + a) - 1) % 4) + 1]
      BY <2>1, <2>2
    <3> HIDE DEF j
    <3>3. k[j] = Key[((j + t - 1) % 4) + 1]
      BY <1>4, <3>1
    <3>4. QED
      BY <3>1, <3>2, <3>3
  <2>5. \A i \in 1 .. Len(l) : l[i] = m[i]
    BY <2>1, <2>4
  <2>6. QED
    BY <2>1, <2>2, <2>5, SeqEqual
<1>6. QED
  BY <1>3, <1>4, <1>5

(* A piece of a payload is read as it was written.                         *)
LEMMA Unmasked ==
  ASSUME NEW f \in ScriptFrame, Masked(f), NEW t \in Nat, NEW a \in Nat, t + a <= Len(f.payload),
         NEW bytes \in Seq(Byte), Len(bytes) = a, \A i \in 1 .. a : bytes[i] = Body(f)[t + i]
  PROVE  byte_mask(bytes, circshift_prepared_key(Key, t)) = SubSeq(f.payload, t + 1, t + a)
<1> DEFINE payload == f.payload
           k == circshift_prepared_key(Key, t)
           s == SubSeq(payload, t + 1, t + a)
           plain == byte_mask(bytes, k)
<1>1. payload \in Seq(Byte) /\ Len(payload) \in Nat
  BY FrameIs
<1>2. Key \in Seq(Byte) /\ Len(Key) = 4
  BY DEF Key, Byte
<1>3. k \in Seq(Byte) /\ Len(k) = 4 /\ \A i \in 1 .. 4 : k[i] = Key[((i + t - 1) % 4) + 1]
  BY <1>2, KeyTurned, KeyAfter
<1>4. s \in Seq(Byte) /\ Len(s) = a /\ \A i \in 1 .. a : s[i] = payload[t + i]
  <2>1. t + 1 \in Nat \ {0} /\ t + a \in Nat /\ t + a <= Len(payload) /\ t + 1 <= t + a + 1
        /\ t + a + 1 - (t + 1) = a
    OBVIOUS
  <2>2. /\ s \in Seq(Byte) /\ Len(s) = t + a + 1 - (t + 1)
        /\ \A i \in 1 .. t + a + 1 - (t + 1) : s[i] = payload[t + 1 + i - 1]
    BY <1>1, <2>1, Part
  <2>3. \A i \in 1 .. a : t + 1 + i - 1 = t + i
    OBVIOUS
  <2> HIDE DEF s
  <2>4. QED
    BY <2>1, <2>2, <2>3
<1>5. \A i \in 1 .. Len(payload) : Body(f)[i] = Xor(payload[i], Key[((i - 1) % 4) + 1])
  <2>1. DOMAIN payload = 1 .. Len(payload)
    BY <1>1, LenProperties
  <2>2. QED
    BY <2>1 DEF Body, byte_mask
<1> HIDE DEF payload, k, s
<1>6. plain \in Seq(Byte) /\ Len(plain) = a
  BY <1>3, MaskType
<1>7. \A i \in 1 .. a : plain[i] = Xor(bytes[i], k[((i - 1) % 4) + 1])
  <2>1. DOMAIN bytes = 1 .. a
    BY LenProperties
  <2>2. QED
    BY <2>1 DEF byte_mask
<1> HIDE DEF plain
<1>8. ASSUME NEW i \in 1 .. a PROVE plain[i] = s[i]
  <2> DEFINE j == ((i - 1) % 4) + 1
             l == ((t + i - 1) % 4) + 1
  <2>1. j \in 1 .. 4 /\ l \in 1 .. 4 /\ ((j + t - 1) % 4) + 1 = l
    OBVIOUS
  <2>2. t + i \in 1 .. Len(payload)
    BY <1>1 DEF payload
  <2>3. plain[i] = Xor(bytes[i], k[j])
    BY <1>7
  <2>4. bytes[i] = Xor(payload[t + i], Key[l])
    <3>1. bytes[i] = Body(f)[t + i]
      OBVIOUS
    <3> DEFINE m == t + i
    <3>2. m \in 1 .. Len(payload) /\ l = ((m - 1) % 4) + 1
      BY <2>2
    <3> HIDE DEF m, l
    <3>3. Body(f)[m] = Xor(payload[m], Key[l])
      BY <1>5, <3>2
    <3>4. QED
      BY <3>1, <3>3 DEF m
  <2> HIDE DEF j, l
  <2>5. k[j] = Key[l]
    BY <1>3, <2>1
  <2>6. payload[t + i] \in Byte /\ Key[l] \in Byte
    BY <1>1, <1>2, <2>1, <2>2, ElementOfSeq
  <2>7. QED
    BY <1>4, <2>3, <2>4, <2>5, <2>6, XorTwice
<1>9. plain = s
  BY <1>4, <1>6, <1>8, SeqEqual
<1>10. QED
  BY <1>9 DEF plain, k, s, payload

-----------------------------------------------------------------------------
(* What follows the first two bytes of a header, and how long the whole    *)
(* is.                                                                     *)
Ext(f) == SizeOf(f) \o KeyOf(f)
HeaderLen(f) == get_header_len(Basic(f))

LEMMA HeaderLenIs ==
  ASSUME NEW f \in ScriptFrame, Sized(f)
  PROVE  /\ HeaderLen(f) \in Nat /\ HeaderLen(f) >= 2
         /\ Ext(f) \in Seq(Byte) /\ Len(Ext(f)) = HeaderLen(f) - 2
         /\ Basic(f) \in Seq(Byte) /\ Len(Basic(f)) = 2
         /\ Body(f) \in Seq(Byte) /\ Len(Body(f)) = Len(f.payload) /\ Len(f.payload) \in Nat
         /\ Bytes(f) = Basic(f) \o Ext(f) \o Body(f)
<1>1. /\ Basic(f) \in Seq(Byte) /\ Len(Basic(f)) = 2
      /\ SizeOf(f) \in Seq(Byte) /\ KeyOf(f) \in Seq(Byte)
      /\ Body(f) \in Seq(Byte) /\ Len(Body(f)) = Len(f.payload)
      /\ Bytes(f) = Basic(f) \o SizeOf(f) \o KeyOf(f) \o Body(f)
  BY BytesParts
<1>2. Ext(f) \in Seq(Byte) /\ Len(Ext(f)) = HeaderLen(f) - 2
  BY ExtendedIs DEF Ext, HeaderLen
<1>3. HeaderLen(f) = 2 + SizeBytes(Code(f)) + (IF Masked(f) THEN 4 ELSE 0)
  BY BasicSays DEF HeaderLen
<1>4. SizeBytes(Code(f)) \in {0, 2, 8} /\ Len(f.payload) \in Nat
  BY FrameIs
<1>5. HeaderLen(f) \in Nat /\ HeaderLen(f) >= 2
  BY <1>3, <1>4
<1>6. Basic(f) \o SizeOf(f) \o KeyOf(f) = Basic(f) \o Ext(f)
  BY <1>1, ConcatAssociative DEF Ext
<1>7. QED
  BY <1>1, <1>2, <1>4, <1>5, <1>6

(* A frame in the input.                                                   *)
LEMMA FrameInInput ==
  ASSUME script \in Scripts, input = Text(script.lines) \o BytesOf(Frames), input \in Seq(Byte),
         NEW k \in 0 .. Len(Frames), k < Len(Frames), Sized(Frames[k + 1])
  PROVE  LET f == Frames[k + 1]
             o == Offset(k)
             l == HeaderLen(f)
         IN  /\ f \in ScriptFrame /\ k + 1 \in 0 .. Len(Frames) /\ o \in Nat
             /\ Offset(k + 1) = o + l + Len(f.payload)
             /\ o + l + Len(f.payload) <= Len(input) /\ Len(input) \in Nat
             /\ SubSeq(input, o + 1, o + 2) = Basic(f)
             /\ SubSeq(input, o + 3, o + l) = Ext(f)
             /\ \A i \in 1 .. Len(f.payload) : input[o + l + i] = Body(f)[i]
<1> DEFINE f == Frames[k + 1]
           o == Offset(k)
           l == HeaderLen(f)
           n == Len(f.payload)
           x == Basic(f)
           y == Ext(f)
           z == Body(f)
           xy == x \o y
           all == xy \o z
           m == Len(input)
<1>1. /\ f \in ScriptFrame /\ o \in Nat /\ m \in Nat /\ Len(Frames) \in Nat
      /\ Offset(k + 1) = o + Len(Bytes(f))
      /\ \A i \in 1 .. Len(Bytes(f)) : input[o + i] = Bytes(f)[i]
  BY OffsetsAre
<1>2. k + 1 \in 0 .. Len(Frames)
  BY <1>1
<1>3. Offset(k + 1) <= m
  BY <1>2, OffsetsAre
<1>4. /\ l \in Nat /\ l >= 2 /\ n \in Nat
      /\ x \in Seq(Byte) /\ Len(x) = 2 /\ y \in Seq(Byte) /\ Len(y) = l - 2
      /\ z \in Seq(Byte) /\ Len(z) = n /\ Bytes(f) = all
  BY <1>1, HeaderLenIs
<1> HIDE DEF f, o, l, n, x, y, z, m
<1>5. /\ xy \in Seq(Byte) /\ Len(xy) = Len(x) + Len(y)
      /\ (\A i \in 1 .. Len(x) : xy[i] = x[i]) /\ \A i \in 1 .. Len(y) : xy[Len(x) + i] = y[i]
  BY <1>4, Joined
<1> HIDE DEF xy
<1>6. /\ all \in Seq(Byte) /\ Len(all) = Len(xy) + Len(z)
      /\ (\A i \in 1 .. Len(xy) : all[i] = xy[i]) /\ \A i \in 1 .. Len(z) : all[Len(xy) + i] = z[i]
  BY <1>4, <1>5, Joined
<1> HIDE DEF all
<1>7. Len(xy) = l
  BY <1>4, <1>5
<1>8. Len(all) = l + n
  BY <1>4, <1>6, <1>7
<1>9. Offset(k + 1) = o + l + n /\ o + l + n <= m
  BY <1>1, <1>3, <1>4, <1>8
<1>10. \A i \in 1 .. l + n : input[o + i] = all[i]
  BY <1>1, <1>4, <1>8
<1>11. \A i \in 1 .. 2 : input[o + i] = x[i]
  <2>1. ASSUME NEW i \in 1 .. 2 PROVE input[o + i] = x[i]
    <3>1. i \in 1 .. l + n /\ i \in 1 .. l
      BY <1>4
    <3>2. QED
      BY <1>4, <1>5, <1>6, <1>7, <1>10, <3>1
  <2>2. QED
    BY <2>1
<1>12. \A i \in 1 .. l - 2 : input[o + 2 + i] = y[i]
  <2>1. ASSUME NEW i \in 1 .. l - 2 PROVE input[o + 2 + i] = y[i]
    <3>1. 2 + i \in 1 .. l + n /\ 2 + i \in 1 .. l /\ o + (2 + i) = o + 2 + i
      BY <1>1, <1>4
    <3>2. input[o + (2 + i)] = all[2 + i]
      BY <1>10, <3>1
    <3>3. all[2 + i] = xy[2 + i]
      BY <1>6, <1>7, <3>1
    <3>4. xy[2 + i] = y[i]
      BY <1>4, <1>5
    <3>5. QED
      BY <3>1, <3>2, <3>3, <3>4
  <2>2. QED
    BY <2>1
<1>13. \A i \in 1 .. n : input[o + l + i] = z[i]
  <2>1. ASSUME NEW i \in 1 .. n PROVE input[o + l + i] = z[i]
    <3>1. l + i \in 1 .. l + n /\ o + (l + i) = o + l + i
      BY <1>1, <1>4
    <3>2. input[o + (l + i)] = all[l + i]
      BY <1>10, <3>1
    <3>3. all[l + i] = z[i]
      BY <1>4, <1>6, <1>7
    <3>4. QED
      BY <3>1, <3>2, <3>3
  <2>2. QED
    BY <2>1
<1>14. ASSUME NEW w \in Seq(Byte), NEW a \in Nat, NEW b \in Nat, b = a + Len(w), b <= m,
              \A i \in 1 .. Len(w) : input[a + i] = w[i]
       PROVE  SubSeq(input, a + 1, b) = w
  <2> DEFINE s == SubSeq(input, a + 1, b)
             v == Len(w)
  <2>1. v \in Nat
    BY LenProperties
  <2> HIDE DEF v
  <2>2. a + 1 \in Nat \ {0} /\ b \in Nat /\ b <= Len(input) /\ a + 1 <= b + 1 /\ b + 1 - (a + 1) = v
    BY <1>1, <1>14, <2>1 DEF v, m
  <2>3. /\ s \in Seq(Byte) /\ Len(s) = b + 1 - (a + 1)
        /\ \A i \in 1 .. b + 1 - (a + 1) : s[i] = input[a + 1 + i - 1]
    BY <2>2, Part
  <2>4. \A i \in 1 .. v : a + 1 + i - 1 = a + i
    BY <2>1
  <2> HIDE DEF s
  <2>5. Len(s) = Len(w) /\ \A i \in 1 .. Len(s) : s[i] = w[i]
    <3>1. Len(s) = v /\ \A i \in 1 .. v : s[i] = input[a + i]
      BY <2>2, <2>3, <2>4
    <3>2. \A i \in 1 .. v : input[a + i] = w[i]
      BY <1>14 DEF v
    <3>3. QED
      BY <3>1, <3>2 DEF v
  <2>6. s = w
    BY <2>3, <2>5, SeqEqual
  <2>7. QED
    BY <2>6 DEF s
<1>15. SubSeq(input, o + 1, o + 2) = x
  <2> DEFINE b == o + 2
  <2>1. b \in Nat /\ b = o + Len(x) /\ b <= m
    BY <1>1, <1>4, <1>9
  <2>2. \A i \in 1 .. Len(x) : input[o + i] = x[i]
    BY <1>4, <1>11
  <2> HIDE DEF b
  <2>3. SubSeq(input, o + 1, b) = x
    BY <1>1, <1>4, <1>14, <2>1, <2>2
  <2>4. QED
    BY <2>3 DEF b
<1>16. SubSeq(input, o + 3, o + l) = y
  <2> DEFINE a == o + 2
             b == o + l
  <2>1. a \in Nat /\ b \in Nat /\ b = a + Len(y) /\ b <= m /\ a + 1 = o + 3
    BY <1>1, <1>4, <1>9
  <2>2. \A i \in 1 .. Len(y) : input[a + i] = y[i]
    BY <1>4, <1>12
  <2> HIDE DEF a, b
  <2>3. SubSeq(input, a + 1, b) = y
    BY <1>4, <1>14, <2>1, <2>2
  <2>4. QED
    BY <2>1, <2>3 DEF b
<1>17. QED
  BY <1>1, <1>2, <1>9, <1>13, <1>15, <1>16 DEF f, o, l, n, x, y, z, m

(* A validator that is given more, and one that rejects.                   *)
LEMMA DecodeMore ==
  ASSUME NEW v \in Validator, NEW x \in Seq(Byte), NEW y \in Seq(Byte)
  PROVE  /\ decode(v, x \o y) = decode(decode(v, x), y)
         /\ decode(v, <<>>) = v
         /\ decode(v, x) = Reject => decode(v, x \o y) = Reject
<1> DEFINE F == DecodeEffect
           X == Validator
           xy == x \o y
           u == decode(v, x)
<1>1. F \in [Byte -> [X -> X]] /\ <<>> \in Seq(Byte) /\ Reject \in Validator
  <2>1. F \in [Byte -> [X -> X]]
    BY DecodeEffectType
  <2>2. <<>> \in Seq(Byte) /\ Reject \in Validator
    BY DEF Reject, Validator
  <2>3. QED
    BY <2>1, <2>2
<1>2. u \in X /\ xy \in Seq(Byte)
  BY DecodeType, Joined
<1>3. decode(v, xy) = Through(F, X, v, xy) /\ u = Through(F, X, v, x)
  BY <1>2, DecodeThrough
<1>4. decode(u, y) = Through(F, X, u, y)
  BY <1>2, DecodeThrough
<1>5. Through(F, X, v, xy) = Through(F, X, Through(F, X, v, x), y)
  BY <1>1, ThroughConcat
<1>6. decode(v, <<>>) = v
  BY <1>1, DecodeThrough, ThroughNothing
<1>7. decode(Reject, y) = Reject
  <2>1. \A b \in Byte : F[b][Reject] = Reject
    <3>1. Reject # Accept /\ Head(Reject) = {}
      BY DEF Reject, Accept
    <3>2. \A b \in Byte : DecodeStep(Reject, b) = Reject
      BY <3>1 DEF DecodeStep
    <3>3. QED
      BY <1>1, <3>2 DEF DecodeEffect
  <2>2. \A i \in 1 .. Len(y) : F[y[i]][Reject] = Reject
    BY <2>1, ElementOfSeq
  <2> HIDE DEF F
  <2>3. Through(F, X, Reject, y) = Reject
    BY <1>1, <2>2, ThroughOthers
  <2>4. decode(Reject, y) = Through(F, X, Reject, y)
    BY <1>1, DecodeThrough DEF F
  <2>5. QED
    BY <2>3, <2>4
<1> HIDE DEF F, X, u, xy
<1>8. QED
  BY <1>3, <1>4, <1>5, <1>6, <1>7 DEF u, xy

(* A frame of which t bytes of payload have come; a message that is        *)
(* received matches what the reference has of it, its validator included,  *)
(* and its key is turned as far as the payload is read.                    *)
Cut(f, t) == [f EXCEPT !.payload = SubSeq(f.payload, 1, t)]
Matches(m, content) ==
  m.op = content.op /\ m.payload = content.payload /\ m.validator = Checked(content)
Turned(m, f, t) == Masked(f) => m.key = circshift_prepared_key(Key, t)

(* A message grows as its frame does.                                      *)
LEMMA CutIs ==
  ASSUME NEW f \in ScriptFrame, NEW t \in Nat, t <= Len(f.payload)
  PROVE  /\ Cut(f, t) \in ScriptFrame /\ Cut(f, t).op = f.op
         /\ Cut(f, t).payload = SubSeq(f.payload, 1, t) /\ SubSeq(f.payload, 1, t) \in Seq(Byte)
         /\ t = Len(f.payload) => Cut(f, t) = f
<1>1. f.payload \in Seq(Byte) /\ Len(f.payload) \in Nat
  BY FrameIs
<1> DEFINE s == SubSeq(f.payload, 1, t)
<1>2. s \in Seq(Byte)
  <2>1. 1 \in Nat \ {0} /\ 1 <= t + 1
    OBVIOUS
  <2>2. QED
    BY <1>1, <2>1, Part
<1>3. t = Len(f.payload) => s = f.payload
  BY <1>1, SubSeqFull
<1> HIDE DEF s
<1>4. Cut(f, t) = [f EXCEPT !.payload = s]
  BY DEF Cut, s
<1>5. Cut(f, t) \in ScriptFrame /\ Cut(f, t).op = f.op /\ Cut(f, t).payload = s
  BY <1>2, <1>4 DEF ScriptFrame
<1>6. t = Len(f.payload) => Cut(f, t) = f
  BY <1>3, <1>4 DEF ScriptFrame
<1>7. QED
  BY <1>2, <1>5, <1>6 DEF s

LEMMA ContentGrows ==
  ASSUME NEW f \in ScriptFrame, NEW open \in NoneOrOne, NEW t \in Nat, NEW a \in Nat,
         t + a <= Len(f.payload)
  PROVE  LET old == WithFrame(open, Cut(f, t))
             new == WithFrame(open, Cut(f, t + a))
             plain == SubSeq(f.payload, t + 1, t + a)
         IN  /\ old \in Content /\ new \in Content /\ plain \in Seq(Byte)
             /\ new.op = old.op /\ new.payload = old.payload \o plain
             /\ Checked(new) = IF old.op = TEXT THEN decode(Checked(old), plain) ELSE Checked(old)
             /\ Checked(old) = Reject => Checked(new) = Reject
<1> DEFINE old == WithFrame(open, Cut(f, t))
           new == WithFrame(open, Cut(f, t + a))
           payload == f.payload
           plain == SubSeq(payload, t + 1, t + a)
           x == SubSeq(payload, 1, t)
           y == SubSeq(payload, 1, t + a)
<1>1. payload \in Seq(Byte) /\ Len(payload) \in Nat /\ t + a \in Nat /\ t <= Len(payload)
  BY FrameIs
<1>2. /\ Cut(f, t) \in ScriptFrame /\ Cut(f, t).op = f.op /\ Cut(f, t).payload = x /\ x \in Seq(Byte)
      /\ Cut(f, t + a) \in ScriptFrame /\ Cut(f, t + a).op = f.op /\ Cut(f, t + a).payload = y
      /\ y \in Seq(Byte)
  BY <1>1, CutIs
<1>3. plain \in Seq(Byte) /\ y = x \o plain
  <2>1. 1 \in 1 .. Len(payload) + 1 /\ t \in 1 - 1 .. Len(payload) /\ t + a \in t .. Len(payload)
    BY <1>1
  <2>2. x \o plain = y
    BY <1>1, <2>1, ConcatAdjacentSubSeq
  <2>3. t + 1 \in Nat \ {0} /\ t + 1 <= t + a + 1
    OBVIOUS
  <2>4. plain \in Seq(Byte)
    BY <1>1, <2>3, Part
  <2>5. QED
    BY <2>2, <2>4
<1>4. old \in Content /\ new \in Content
  BY <1>2, WithFrameIs DEF ScriptFrame
<1> DEFINE g == Cut(f, t)
           h == Cut(f, t + a)
<1> HIDE DEF payload, plain, x, y, g, h
<1>5. new.op = old.op /\ new.payload = old.payload \o plain
  <2>1. IsData(g) <=> IsData(h)
    BY <1>2 DEF IsData, g, h
  <2>2. CASE IsData(g) /\ open # <<>>
    <3>1. PICK c \in Content : open = <<c>>
      BY <2>2 DEF NoneOrOne
    <3>2. open[1].payload \in Seq(Byte)
      BY <3>1 DEF Content
    <3> DEFINE z == open[1].payload
               zx == z \o x
               zy == z \o y
    <3>3. z \in Seq(Byte)
      BY <3>2
    <3>4. /\ WithFrame(open, g) = [op |-> open[1].op, payload |-> zx]
          /\ WithFrame(open, h) = [op |-> open[1].op, payload |-> zy]
      BY <1>2, <2>1, <2>2 DEF WithFrame, g, h
    <3> HIDE DEF z
    <3>5. zx \o plain = zy
      BY <1>2, <1>3, <3>3, ConcatAssociative
    <3> HIDE DEF zx, zy
    <3>6. old.payload = zx /\ new.payload = zy /\ new.op = old.op
      BY <3>4 DEF g, h
    <3>7. QED
      BY <3>5, <3>6
  <2>3. CASE ~(IsData(g) /\ open # <<>>)
    <3>1. /\ WithFrame(open, g) = [op |-> f.op, payload |-> x]
          /\ WithFrame(open, h) = [op |-> f.op, payload |-> y]
      BY <1>2, <2>1, <2>3 DEF WithFrame, g, h
    <3>2. QED
      BY <1>3, <3>1 DEF g, h
  <2>4. QED
    BY <2>2, <2>3
<1> HIDE DEF old, new
<1>6. old.payload \in Seq(Byte) /\ Accept \in Validator
  BY <1>4 DEF Content, Accept, Validator
<1>7. CASE old.op = TEXT
  <2>1. Checked(old) = decode(Accept, old.payload) /\ Checked(new) = decode(Accept, old.payload \o plain)
    BY <1>5, <1>7 DEF Checked
  <2> DEFINE u == decode(Accept, old.payload)
  <2>2. decode(Accept, old.payload \o plain) = decode(u, plain)
        /\ (u = Reject => decode(Accept, old.payload \o plain) = Reject)
    BY <1>3, <1>6, DecodeMore
  <2>3. QED
    BY <1>3, <1>4, <1>5, <1>7, <2>1, <2>2 DEF old, new, plain, payload
<1>8. CASE old.op # TEXT
  <2>1. Checked(old) = Accept /\ Checked(new) = Accept
    BY <1>5, <1>8 DEF Checked
  <2>2. QED
    BY <1>3, <1>4, <1>5, <1>8, <2>1 DEF old, new, plain, payload
<1>9. QED
  BY <1>7, <1>8

(* Nothing of the frame, and all of it.                                    *)
LEMMA ContentEnds ==
  ASSUME NEW f \in ScriptFrame, NEW open \in NoneOrOne
  PROVE  /\ WithFrame(open, Cut(f, Len(f.payload))) = WithFrame(open, f)
         /\ IsData(f) /\ open # <<>> => WithFrame(open, Cut(f, 0)) = open[1]
         /\ ~(IsData(f) /\ open # <<>>) =>
              WithFrame(open, Cut(f, 0)) = [op |-> f.op, payload |-> <<>>]
<1>1. f.payload \in Seq(Byte) /\ Len(f.payload) \in Nat
  BY FrameIs
<1>2. Cut(f, Len(f.payload)) = f
  <2> DEFINE n == Len(f.payload)
  <2>1. n \in Nat /\ n <= Len(f.payload)
    BY <1>1
  <2> HIDE DEF n
  <2>2. n = Len(f.payload) => Cut(f, n) = f
    BY <2>1, CutIs
  <2>3. QED
    BY <2>2 DEF n
<1> DEFINE g == Cut(f, 0)
<1>3. g.op = f.op /\ g.payload = <<>>
  <2>1. 0 \in Nat /\ 0 <= Len(f.payload)
    BY <1>1
  <2>2. g.op = f.op /\ g.payload = SubSeq(f.payload, 1, 0)
    BY <2>1, CutIs
  <2>3. SubSeq(f.payload, 1, 0) = <<>>
    BY SubSeqEmpty
  <2>4. QED
    BY <2>2, <2>3
<1> HIDE DEF g
<1>4. IsData(g) <=> IsData(f)
  BY <1>3 DEF IsData
<1>5. ASSUME IsData(f), open # <<>> PROVE WithFrame(open, g) = open[1]
  <2>1. PICK c \in Content : open = <<c>>
    BY <1>5 DEF NoneOrOne
  <2>2. open[1] = c /\ c = [op |-> c.op, payload |-> c.payload] /\ c.payload \in Seq(Byte)
    BY <2>1 DEF Content
  <2>3. c.payload \o <<>> = c.payload
    BY <2>2, ConcatEmptySeq
  <2>4. WithFrame(open, g) = [op |-> c.op, payload |-> c.payload \o <<>>]
    BY <1>3, <1>4, <1>5, <2>2 DEF WithFrame
  <2>5. QED
    BY <2>2, <2>3, <2>4
<1>6. ~(IsData(f) /\ open # <<>>) => WithFrame(open, g) = [op |-> f.op, payload |-> <<>>]
  BY <1>3, <1>4 DEF WithFrame
<1>7. QED
  BY <1>2, <1>5, <1>6 DEF g

(* A message is filled as the frame says.                                  *)
LEMMA FilledMatches ==
  ASSUME NEW f \in ScriptFrame, NEW open \in NoneOrOne, NEW t \in Nat, NEW a \in Nat,
         t + a <= Len(f.payload), header = Basic(f),
         NEW bytes \in Seq(Byte), Len(bytes) = a, \A i \in 1 .. a : bytes[i] = Body(f)[t + i],
         NEW m \in Message, Matches(m, WithFrame(open, Cut(f, t))), Turned(m, f, t)
  PROVE  /\ Matches(Filled(m, bytes), WithFrame(open, Cut(f, t + a)))
         /\ Turned(Filled(m, bytes), f, t + a)
<1> DEFINE old == WithFrame(open, Cut(f, t))
           new == WithFrame(open, Cut(f, t + a))
           plain == SubSeq(f.payload, t + 1, t + a)
           masked == get_masked(header)
           read0 == IF masked THEN byte_mask(bytes, m.key) ELSE bytes
           key == IF masked THEN circshift_prepared_key(m.key, Len(bytes)) ELSE m.key
           validator == IF m.op = TEXT THEN decode(m.validator, read0) ELSE m.validator
           all == m.payload \o read0
<1>1. /\ plain \in Seq(Byte) /\ new.op = old.op /\ new.payload = old.payload \o plain
      /\ Checked(new) = IF old.op = TEXT THEN decode(Checked(old), plain) ELSE Checked(old)
  BY ContentGrows
<1>2. m.op = old.op /\ m.payload = old.payload /\ m.validator = Checked(old)
  BY DEF Matches
<1>3. masked <=> Masked(f)
  BY BasicSays
<1>4. Filled(m, bytes) = [m EXCEPT !.payload = @ \o read0, !.key = key, !.validator = validator]
  BY DEF Filled
<1> HIDE DEF old, new
<1>5. read0 = plain
  <2>1. CASE Masked(f)
    <3>1. m.key = circshift_prepared_key(Key, t)
      BY <2>1 DEF Turned
    <3>2. QED
      BY <1>3, <2>1, <3>1, Unmasked
  <2>2. CASE ~Masked(f)
    <3>1. Body(f) = f.payload
      BY <2>2 DEF Body
    <3>2. f.payload \in Seq(Byte) /\ Len(f.payload) \in Nat
      BY FrameIs
    <3> DEFINE payload == f.payload
    <3> HIDE DEF payload
    <3>3. t + 1 \in Nat \ {0} /\ t + a \in Nat /\ t + a <= Len(payload) /\ t + 1 <= t + a + 1
          /\ t + a + 1 - (t + 1) = a
      BY DEF payload
    <3>4. /\ SubSeq(payload, t + 1, t + a) \in Seq(Byte)
          /\ Len(SubSeq(payload, t + 1, t + a)) = t + a + 1 - (t + 1)
          /\ \A i \in 1 .. t + a + 1 - (t + 1) :
               SubSeq(payload, t + 1, t + a)[i] = payload[t + 1 + i - 1]
      BY <3>2, <3>3, Part DEF payload
    <3>5. \A i \in 1 .. a : t + 1 + i - 1 = t + i
      OBVIOUS
    <3>6. plain = SubSeq(payload, t + 1, t + a)
      BY DEF payload
    <3> HIDE DEF plain
    <3>7. Len(plain) = a /\ \A i \in 1 .. a : plain[i] = payload[t + i]
      BY <3>3, <3>4, <3>5, <3>6
    <3>8. \A i \in 1 .. Len(bytes) : bytes[i] = plain[i]
      BY <3>1, <3>7 DEF payload
    <3>9. bytes = plain
      BY <1>1, <3>7, <3>8, SeqEqual
    <3>10. QED
      BY <1>3, <2>2, <3>9
  <2>3. QED
    BY <2>1, <2>2
<1>6. key = circshift_prepared_key(Key, t + a) \/ ~Masked(f)
  <2>1. CASE Masked(f)
    <3>1. m.key = circshift_prepared_key(Key, t)
      BY <2>1 DEF Turned
    <3>2. key = circshift_prepared_key(circshift_prepared_key(Key, t), a)
      BY <1>3, <2>1, <3>1
    <3>3. QED
      BY <3>2, KeyAfter
  <2>2. QED
    BY <2>1
<1>7. validator = Checked(new)
  BY <1>1, <1>2, <1>5
<1>8. all = new.payload
  BY <1>1, <1>2, <1>5
<1> HIDE DEF read0, key, validator, masked, plain
<1>9. Filled(m, bytes) = [op |-> m.op, payload |-> all, key |-> key, validator |-> validator]
  BY <1>4 DEF Message
<1> HIDE DEF all
<1>10. Matches(Filled(m, bytes), new)
  BY <1>1, <1>2, <1>7, <1>8, <1>9 DEF Matches
<1>11. Turned(Filled(m, bytes), f, t + a)
  BY <1>6, <1>9 DEF Turned
<1>12. QED
  BY <1>10, <1>11 DEF new

-----------------------------------------------------------------------------
(* The invariant: k frames are over and their messages delivered, and the  *)
(* state of the parser is a place in the next one, or that frame is        *)
(* illegal.                                                                *)
Spoken == [i \in DOMAIN delivered |-> [op |-> delivered[i].op, payload |-> delivered[i].payload]]
Open(k) == Said(First(k)).open
Coming(k) == Frames[k + 1]

(* As many messages as the first k frames have are delivered.              *)
Here(k) ==
  /\ k \in 0 .. Len(Frames)
  /\ Said(First(k)).legal
  /\ Spoken = Said(First(k)).messages

(* What is kept of the messages that come is what the frames say.          *)
Holds(q, s) == (q = <<>> <=> s = <<>>) /\ (q # <<>> => Matches(q[1], s[1]))

(* The places: what is buffered is what the input has from the beginning   *)
(* of the frame on.                                                        *)
InHeader(k) ==
  /\ m_state = "basic"
  /\ Offset(k) <= p /\ header = SubSeq(input, Offset(k) + 1, p)
  /\ control = <<>> /\ Holds(data, Open(k))

HeaderRead(k) ==
  k < Len(Frames) /\ header = Basic(Coming(k)) /\ HeadLegal(Open(k), Coming(k))

InExtended(k) ==
  /\ m_state = "extended" /\ HeaderRead(k)
  /\ Offset(k) + 2 <= p /\ extended = SubSeq(input, Offset(k) + 3, p)
  /\ control = <<>> /\ Holds(data, Open(k))

Filling(q, k, t) ==
  /\ q # <<>> /\ Matches(q[1], WithFrame(Open(k), Cut(Coming(k), t)))
  /\ Turned(q[1], Coming(k), t)

InPayload(k, t) ==
  /\ HeaderRead(k) /\ SizeLegal(Coming(k))
  /\ t \in 0 .. Len(Coming(k).payload)
  /\ p = Offset(k) + HeaderLen(Coming(k)) + t
  /\ IF IsData(Coming(k)) THEN control = <<>> /\ Filling(data, k, t)
                          ELSE Holds(data, Open(k)) /\ Filling(control, k, t)

InApplication(k) ==
  /\ m_state = "application"
  /\ \E t \in 0 .. Len(Coming(k).payload) : InPayload(k, t) /\ needed = Len(Coming(k).payload) - t

InReady(k) ==
  /\ m_state = "ready"
  /\ InPayload(k, Len(Coming(k).payload))
  /\ Coming(k).fin /\ Legal(Open(k), Coming(k))

Failed(k) ==
  /\ m_state # "ready" /\ k < Len(Frames) /\ Offset(k) <= p
  /\ ~Legal(Open(k), Coming(k))

(* Before the first frame nothing is kept; then there is a place, or a     *)
(* frame that is refused because it is illegal.                            *)
Delivering ==
  IF m_state = "http" THEN ~server /\ header = <<>> /\ data = <<>> /\ control = <<>> /\ delivered = <<>>
  ELSE \E k \in 0 .. Len(Frames) : Here(k) /\ IF error # "none" THEN Failed(k)
                         ELSE InHeader(k) \/ InExtended(k) \/ InApplication(k) \/ InReady(k)

Sent == input = Text(script.lines) \o BytesOf(Frames)

(* Each size has room where it is written, and no text message whose last  *)
(* frame is a continuation ends within a code point: such a message is     *)
(* delivered, which the run frames_cut shows and TextIsComplete forbids.   *)
Sizes == \A i \in 1 .. Len(Frames) : Sized(Frames[i])
Uncut ==
  \A k \in 0 .. Len(Frames) - 1 :
    LET m == WithFrame(Open(k), Coming(k))
    IN  Coming(k).op = CONTINUATION /\ Coming(k).fin => Checked(m) = Reject \/ complete(Checked(m))
(* The scripts spoken of: also, the response is plain, as HandshakeCorrect *)
(* asks.                                                                   *)
Sound == (server \/ Plain(script.lines)) /\ Sizes /\ Uncut

DeliveryInv == Sent /\ (Sound => Delivering /\ BoundInv /\ AnnouncesFit)

-----------------------------------------------------------------------------
(* No step changes what is sent, nor what follows from it.                 *)
LEMMA SameSender ==
  ASSUME UNCHANGED sender
  PROVE  /\ server' = server /\ script' = script /\ input' = input
         /\ (Sent' <=> Sent) /\ (Sound' <=> Sound)
         /\ Frames' = Frames
         /\ \A k : Offset(k)' = Offset(k) /\ First(k)' = First(k)
                     /\ Open(k)' = Open(k) /\ Coming(k)' = Coming(k)
         /\ \A f : /\ Basic(f)' = Basic(f) /\ HeaderLen(f)' = HeaderLen(f) /\ (Masked(f)' <=> Masked(f))
<1>1. server' = server /\ script' = script /\ input' = input
  BY DEF sender
<1>2. Frames' = Frames
  BY <1>1 DEF Frames
<1>3. \A k : First(k)' = First(k)
  BY <1>2 DEF First
<1>4. \A k : Open(k)' = Open(k) /\ Coming(k)' = Coming(k)
  BY <1>2, <1>3 DEF Open, Coming
<1>5. \A f : Masked(f)' <=> Masked(f)
  BY <1>1 DEF Masked
<1>6. \A f : Basic(f)' = Basic(f)
  BY <1>5 DEF Basic
<1>7. \A f : HeaderLen(f)' = HeaderLen(f)
  BY <1>6 DEF HeaderLen
<1>8. \A f : Bytes(f)' = Bytes(f)
  BY <1>1 DEF Bytes
<1>9. \A q : BytesOf(q)' = BytesOf(q)
  <2>1. ASSUME NEW q PROVE BytesOf(q)' = BytesOf(q)
    <3>1. [i \in DOMAIN q |-> Bytes(q[i])]' = [i \in DOMAIN q |-> Bytes(q[i])]
      BY <1>8
    <3>2. QED
      BY <3>1 DEF BytesOf
  <2>2. QED
    BY <2>1
<1>10. \A lines : Text(lines)' = Text(lines)
  BY <1>1 DEF Text
<1>11. \A k : Offset(k)' = Offset(k)
  <2>1. ASSUME NEW k PROVE Offset(k)' = Offset(k)
    <3>1. [i \in DOMAIN First(k) |-> Bytes(First(k)[i])]' = [i \in DOMAIN First(k) |-> Bytes(First(k)[i])]
      BY <1>3, <1>8
    <3>2. BytesOf(First(k))' = BytesOf(First(k))
      BY <3>1 DEF BytesOf
    <3>3. Text(script.lines)' = Text(script.lines)
      BY <1>1, <1>10 DEF Text
    <3>4. QED
      BY <3>2, <3>3 DEF Offset
  <2>2. QED
    BY <2>1
<1>12. Sent' <=> Sent
  <2>1. [i \in DOMAIN Frames |-> Bytes(Frames[i])]' = [i \in DOMAIN Frames |-> Bytes(Frames[i])]
    BY <1>2, <1>8
  <2>2. BytesOf(Frames)' = BytesOf(Frames)
    BY <2>1 DEF BytesOf
  <2>3. Text(script.lines)' = Text(script.lines)
    BY <1>1, <1>10 DEF Text
  <2>4. QED
    BY <1>1, <2>2, <2>3 DEF Sent
<1>13. Sound' <=> Sound
  <2>1. Sizes' <=> Sizes
    BY <1>2 DEF Sizes
  <2>2. Uncut' <=> Uncut
    BY <1>2, <1>4 DEF Uncut
  <2>3. QED
    BY <1>1, <2>1, <2>2 DEF Sound
<1>14. QED
  BY <1>1, <1>2, <1>3, <1>4, <1>5, <1>6, <1>7, <1>11, <1>12, <1>13

LEMMA SameHere ==
  ASSUME UNCHANGED sender, delivered' = delivered
  PROVE  \A k : Here(k)' <=> Here(k)
<1>1. Frames' = Frames /\ \A k : First(k)' = First(k)
  BY SameSender
<1>2. Spoken' = Spoken
  BY DEF Spoken
<1>3. QED
  BY <1>1, <1>2 DEF Here

(* What is known of the place that is reached.                             *)
LEMMA Place ==
  ASSUME Reading, Sent, Sizes, NEW k, Here(k)
  PROVE  /\ k \in 0 .. Len(Frames) /\ k \in Nat /\ Len(Frames) \in Nat
         /\ Offset(k) \in Nat /\ Offset(k) <= Len(input) /\ Len(input) \in Nat
         /\ Offset(k) < Len(input) => k < Len(Frames)
         /\ Open(k) \in NoneOrOne
         /\ k < Len(Frames) =>
              /\ Coming(k) \in ScriptFrame /\ Sized(Coming(k))
              /\ Said(First(k + 1)) = SaidStep(Said(First(k)), Coming(k))
<1>1. script \in Scripts /\ k \in 0 .. Len(Frames)
  BY DEF Reading, Here
<1>2. Frames \in Seq(ScriptFrame) /\ Len(Frames) \in Nat /\ Len(input) \in Nat
      /\ Offset(k) \in Nat /\ Offset(k) <= Len(input) /\ Offset(Len(Frames)) = Len(input)
  BY <1>1, OffsetsAre DEF Sent
<1>3. k \in Nat /\ k <= Len(Frames)
  BY <1>1, <1>2
<1>4. Offset(k) < Len(input) => k < Len(Frames)
  <2>1. k = Len(Frames) => Offset(k) = Len(input)
    BY <1>2
  <2>2. k = Len(Frames) \/ k < Len(Frames)
    BY <1>2, <1>3
  <2>3. QED
    BY <1>2, <2>1, <2>2
<1>5. First(k) \in Seq(ScriptFrame)
      /\ (k < Len(Frames) => Coming(k) \in ScriptFrame /\ First(k + 1) = Append(First(k), Coming(k)))
  BY <1>1, <1>2, FirstFrames DEF First, Coming
<1>6. Said(First(k)) \in Speech
  BY <1>5, SaidIs
<1>7. Open(k) \in NoneOrOne
  BY <1>6 DEF Open, Speech
<1>8. ASSUME k < Len(Frames)
      PROVE  /\ Coming(k) \in ScriptFrame /\ Sized(Coming(k))
             /\ Said(First(k + 1)) = SaidStep(Said(First(k)), Coming(k))
  <2>1. k + 1 \in 1 .. Len(Frames)
    BY <1>2, <1>3, <1>8
  <2>2. Sized(Coming(k))
    BY <2>1 DEF Sizes, Coming
  <2>3. QED
    BY <1>5, <1>8, <2>2, SaidIs
<1>9. QED
  BY <1>1, <1>2, <1>3, <1>4, <1>7, <1>8

-----------------------------------------------------------------------------
(* A buffer that grows with what is taken.                                 *)
LEMMA BufferGrows ==
  ASSUME Reading, needed \in Nat, NEW o \in Nat, o <= p
  PROVE  LET grown == SubSeq(input, o + 1, p) \o Taken
         IN  /\ grown = SubSeq(input, o + 1, p + Available)
             /\ grown \in Seq(Byte) /\ Len(grown) = p + Available - o
             /\ o <= p + Available /\ p + Available <= Len(input) /\ p + Available \in Nat
             /\ p \in Nat /\ Available \in Nat /\ Available <= needed
             /\ Len(SubSeq(input, o + 1, p)) = p - o
<1>1. /\ input \in Seq(Byte) /\ Len(input) \in Nat /\ read \in Nat /\ read <= Len(input)
      /\ p \in Nat /\ p <= read
  BY LenProperties DEF Reading
<1> DEFINE a == Available
           m == Len(input)
<1>2. a \in 0 .. needed /\ p + a \in 0 .. read
  BY TakenIs
<1> HIDE DEF a, m
<1>3. /\ a \in Nat /\ a <= needed /\ p + a \in Nat /\ p + a <= m /\ m \in Nat
      /\ p <= p + a /\ o <= p + a
  BY <1>1, <1>2 DEF m
<1>5. SubSeq(input, o + 1, p) \o SubSeq(input, p + 1, p + a) = SubSeq(input, o + 1, p + a)
  <2> DEFINE b == o + 1
             c == p + a
  <2>1. b \in 1 .. Len(input) + 1 /\ p \in b - 1 .. Len(input) /\ c \in p .. Len(input)
    BY <1>1, <1>3 DEF m
  <2> HIDE DEF b, c
  <2>2. SubSeq(input, b, p) \o SubSeq(input, p + 1, c) = SubSeq(input, b, c)
    BY <1>1, <2>1, ConcatAdjacentSubSeq
  <2>3. QED
    BY <2>2 DEF b, c
<1>6. o + 1 \in Nat \ {0} /\ o + 1 <= p + 1 /\ o + 1 <= p + a + 1
      /\ p + 1 - (o + 1) = p - o /\ p + a + 1 - (o + 1) = p + a - o /\ p <= m
  BY <1>1, <1>3 DEF m
<1>7. SubSeq(input, o + 1, p + a) \in Seq(Byte) /\ Len(SubSeq(input, o + 1, p + a)) = p + a + 1 - (o + 1)
  BY <1>1, <1>3, <1>6, Part DEF m
<1>8. Len(SubSeq(input, o + 1, p)) = p + 1 - (o + 1)
  BY <1>1, <1>6, Part DEF m
<1>9. QED
  BY <1>1, <1>3, <1>5, <1>6, <1>7, <1>8 DEF a, m, Taken

(* The bytes of a header are those of the frame that comes, and what is    *)
(* refused is illegal.                                                     *)
LEMMA HeaderDelivers ==
  ASSUME ParseInv, Sent, Sizes, Delivering, read_header
  PROVE  Delivering'
<1> DEFINE h == header \o Taken
           a == Available
           fault == validate_incoming_basic_header(h, data = <<>>)
<1>1. /\ error = "none" /\ m_state = "basic" /\ p' = p + a /\ header' = h
      /\ UNCHANGED <<sender, read, response, data, control, delivered>>
      /\ \/ needed > a /\ m_state' = m_state /\ error' = error
         \/ ~(needed > a) /\ fault # "none" /\ error' = fault /\ m_state' = m_state
         \/ ~(needed > a) /\ fault = "none" /\ m_state' = "extended" /\ extended' = <<>> /\ error' = error
  BY DEF read_header, Turns, Takes
<1>2. PICK k : Here(k) /\ InHeader(k)
  BY <1>1 DEF Delivering, InExtended, InApplication, InReady
<1>3. Reading /\ needed \in Nat /\ Len(header) + needed = 2 /\ server \in BOOLEAN
  BY <1>1 DEF ParseInv, Parsing, Reading
<1> DEFINE o == Offset(k)
           f == Coming(k)
<1>4. /\ k \in 0 .. Len(Frames) /\ o \in Nat /\ Len(input) \in Nat /\ (o < Len(input) => k < Len(Frames))
      /\ (k < Len(Frames) => f \in ScriptFrame /\ Sized(f))
  BY <1>2, <1>3, Place
<1>5. header = SubSeq(input, o + 1, p) /\ o <= p /\ control = <<>> /\ Holds(data, Open(k))
  BY <1>2 DEF InHeader
<1>6. /\ h = SubSeq(input, o + 1, p + a) /\ Len(h) = p + a - o /\ o <= p + a /\ p + a <= Len(input)
      /\ p + a \in Nat /\ p \in Nat /\ a \in Nat /\ a <= needed /\ Len(header) = p - o
  BY <1>3, <1>4, <1>5, BufferGrows
<1>7. Here(k)' /\ k \in 0 .. Len(Frames') /\ Offset(k)' = o /\ Coming(k)' = f /\ Open(k)' = Open(k)
      /\ Frames' = Frames /\ input' = input /\ Basic(f)' = Basic(f)
  BY <1>1, <1>2, <1>4, SameHere, SameSender
<1>8. m_state' # "http" /\ m_state' # "ready"
  BY <1>1
<1>9. control' = <<>> /\ Holds(data', Open(k))
  BY <1>1, <1>5 DEF Holds
<1> HIDE DEF h, a, fault, o, f
<1>10. CASE needed > a /\ m_state' = m_state /\ error' = error
  <2>1. InHeader(k)'
    BY <1>1, <1>6, <1>7, <1>9, <1>10 DEF InHeader
  <2>2. QED
    BY <1>1, <1>7, <1>8, <1>10, <2>1 DEF Delivering
<1>11. CASE ~(needed > a)
  <2>1. p + a = o + 2 /\ o < Len(input)
    BY <1>3, <1>4, <1>6, <1>11
  <2>2. k < Len(Frames) /\ f \in ScriptFrame /\ Sized(f)
    BY <1>4, <2>1
  <2>3. SubSeq(input, o + 1, o + 2) = Basic(f)
    <3>1. script \in Scripts /\ input \in Seq(Byte)
      BY <1>3 DEF Reading
    <3>2. QED
      BY <1>4, <2>2, <3>1, FrameInInput DEF Sent, o, f, Coming
  <2>4. h = Basic(f)
    BY <1>6, <2>1, <2>3
  <2>5. data = <<>> <=> Open(k) = <<>>
    BY <1>5 DEF Holds
  <2>6. fault = "none" <=> HeadLegal(Open(k), f)
    <3> DEFINE new == data = <<>>
               open == Open(k)
    <3>1. new <=> open = <<>>
      BY <2>5
    <3>2. new = (open = <<>>)
      BY <3>1
    <3>3. fault = validate_incoming_basic_header(Basic(f), open = <<>>)
      BY <2>4, <3>2 DEF fault
    <3> HIDE DEF open
    <3>4. QED
      BY <1>3, <2>2, <3>3, HeadFault DEF open
  <2>7. CASE fault # "none" /\ error' = fault /\ m_state' = m_state
    <3>1. ~Legal(Open(k), f)
      BY <2>2, <2>6, <2>7, LegalIs
    <3>2. Failed(k)'
      BY <1>1, <1>6, <1>7, <1>8, <2>2, <3>1 DEF Failed, a
    <3>3. QED
      BY <1>7, <1>8, <2>7, <3>2 DEF Delivering
  <2>8. CASE fault = "none" /\ m_state' = "extended" /\ extended' = <<>> /\ error' = error
    <3>1. HeaderRead(k)'
      <4>1. header' = Basic(Coming(k))' /\ k < Len(Frames')
        BY <1>1, <1>7, <2>2, <2>4 DEF f
      <4>2. HeadLegal(Open(k)', Coming(k)')
        BY <1>7, <2>6, <2>8
      <4>3. QED
        BY <1>7, <4>1, <4>2 DEF HeaderRead
    <3>2. extended' = SubSeq(input', Offset(k)' + 3, p') /\ Offset(k)' + 2 <= p'
      <4>1. p' = o + 2 /\ o + 3 \in Int /\ o + 2 \in Int /\ o + 2 < o + 3 /\ o + 2 <= o + 2
        BY <1>1, <1>4, <2>1 DEF a
      <4>2. SubSeq(input, o + 3, o + 2) = <<>>
        BY <4>1, SubSeqEmpty
      <4>3. QED
        BY <1>7, <2>8, <4>1, <4>2
    <3>3. InExtended(k)'
      BY <1>7, <1>9, <2>8, <3>1, <3>2 DEF InExtended
    <3>4. QED
      BY <1>1, <1>7, <1>8, <2>8, <3>3 DEF Delivering
  <2>9. QED
    BY <1>1, <1>11, <2>7, <2>8 DEF a
<1>12. QED
  BY <1>1, <1>10, <1>11 DEF a

(* What does not change of the frame that comes.                           *)
LEMMA SameFrame ==
  ASSUME UNCHANGED sender, NEW k
  PROVE  /\ HeaderLen(Coming(k))' = HeaderLen(Coming(k))
         /\ header' = header /\ HeaderRead(k) => HeaderRead(k)'
         /\ \A t : data' # <<>> /\ Matches(data'[1], WithFrame(Open(k), Cut(Coming(k), t)))
                     /\ Turned(data'[1], Coming(k), t) => Filling(data, k, t)'
         /\ \A t : control' # <<>> /\ Matches(control'[1], WithFrame(Open(k), Cut(Coming(k), t)))
                     /\ Turned(control'[1], Coming(k), t) => Filling(control, k, t)'
<1>1. Open(k)' = Open(k) /\ Coming(k)' = Coming(k) /\ Frames' = Frames /\ server' = server
  BY SameSender
<1>2. Basic(Coming(k))' = Basic(Coming(k))
  BY <1>1 DEF Basic, Masked
<1>3. HeaderLen(Coming(k))' = HeaderLen(Coming(k))
  BY <1>2 DEF HeaderLen
<1>4. ASSUME header' = header, HeaderRead(k) PROVE HeaderRead(k)'
  <2>1. header' = Basic(Coming(k))' /\ k < Len(Frames') /\ HeadLegal(Open(k)', Coming(k)')
    BY <1>1, <1>2, <1>4 DEF HeaderRead
  <2>2. QED
    BY <2>1 DEF HeaderRead
<1>5. Masked(Coming(k))' <=> Masked(Coming(k))
  BY <1>1 DEF Masked
<1>6. ASSUME NEW t, data' # <<>>, Matches(data'[1], WithFrame(Open(k), Cut(Coming(k), t))),
             Turned(data'[1], Coming(k), t)
      PROVE  Filling(data, k, t)'
  <2>1. Matches(data'[1], WithFrame(Open(k)', Cut(Coming(k)', t)))
    BY <1>1, <1>6
  <2>2. Masked(Coming(k))' => data'[1].key = circshift_prepared_key(Key, t)
    BY <1>5, <1>6 DEF Turned
  <2>3. QED
    BY <1>6, <2>1, <2>2 DEF Filling, Turned
<1>7. ASSUME NEW t, control' # <<>>, Matches(control'[1], WithFrame(Open(k), Cut(Coming(k), t))),
             Turned(control'[1], Coming(k), t)
      PROVE  Filling(control, k, t)'
  <2>1. Matches(control'[1], WithFrame(Open(k)', Cut(Coming(k)', t)))
    BY <1>1, <1>7
  <2>2. Masked(Coming(k))' => control'[1].key = circshift_prepared_key(Key, t)
    BY <1>5, <1>7 DEF Turned
  <2>3. QED
    BY <1>7, <2>1, <2>2 DEF Filling, Turned
<1>8. QED
  BY <1>3, <1>4, <1>6, <1>7

(* A message begins with a frame, or goes on with it and has its key.      *)
LEMMA NewMatches ==
  ASSUME NEW f \in ScriptFrame, header = Basic(f), NEW ext, Masked(f) => get_masking_key(header, ext) = Key
  PROVE  /\ Matches(NewMessage(ext), [op |-> f.op, payload |-> <<>>])
         /\ Turned(NewMessage(ext), f, 0)
<1> DEFINE new == NewMessage(ext)
           none == [op |-> f.op, payload |-> <<>>]
<1>1. get_opcode(header) = f.op
  BY BasicSays
<1>2. new.op = f.op /\ new.payload = <<>> /\ new.validator = Accept /\ new.key = get_masking_key(header, ext)
  BY <1>1 DEF NewMessage
<1>3. none.op = f.op /\ none.payload = <<>>
  OBVIOUS
<1>4. Accept \in Validator /\ <<>> \in Seq(Byte)
  BY DEF Accept, Validator
<1>5. decode(Accept, <<>>) = Accept
  BY <1>4, DecodeMore
<1>6. Checked(none) = Accept
  BY <1>3, <1>5 DEF Checked
<1>7. circshift_prepared_key(Key, 0) = Key
  BY KeyAfter
<1> HIDE DEF new, none
<1>8. Matches(new, none)
  BY <1>2, <1>3, <1>6 DEF Matches
<1>9. Turned(new, f, 0)
  BY <1>2, <1>7 DEF Turned
<1>10. QED
  BY <1>8, <1>9 DEF new, none

LEMMA KeyedMatches ==
  ASSUME NEW m \in Message, NEW content, Matches(m, content), NEW f, NEW key, Masked(f) => key = Key
  PROVE  /\ Matches([m EXCEPT !.key = key], content)
         /\ Turned([m EXCEPT !.key = key], f, 0)
<1> DEFINE keyed == [m EXCEPT !.key = key]
<1>1. keyed.op = m.op /\ keyed.payload = m.payload /\ keyed.validator = m.validator /\ keyed.key = key
  BY DEF Message
<1>2. circshift_prepared_key(Key, 0) = Key
  BY KeyAfter
<1> HIDE DEF keyed
<1>3. Matches(keyed, content)
  BY <1>1 DEF Matches
<1>4. Turned(keyed, f, 0)
  BY <1>1, <1>2 DEF Turned
<1>5. QED
  BY <1>3, <1>4 DEF keyed

-----------------------------------------------------------------------------
(* The rest of a header, when all of it is read.                           *)
LEMMA HeaderEnds ==
  ASSUME Reading, needed \in Nat, Len(extended) + needed = get_header_len(header) - 2,
         Sent, Sizes, NEW k, Here(k), InExtended(k), ~(needed > Available)
  PROVE  LET f == Coming(k)
             ext == extended \o Taken
         IN  /\ p + Available = Offset(k) + HeaderLen(f)
             /\ get_opcode(header) = f.op /\ get_payload_size(header, ext) % SizeT = Len(f.payload)
             /\ Masked(f) => get_masking_key(header, ext) = Key
             /\ validate_incoming_extended_header(header, ext) = "none" <=> SizeLegal(f)
<1> DEFINE f == Coming(k)
           o == Offset(k)
           a == Available
           ext == extended \o Taken
           l == HeaderLen(f)
           c == o + 2
<1>1. /\ header = Basic(f) /\ k < Len(Frames) /\ o + 2 <= p /\ extended = SubSeq(input, o + 3, p)
  BY DEF InExtended, HeaderRead
<1>2. /\ k \in 0 .. Len(Frames) /\ o \in Nat /\ Len(input) \in Nat /\ f \in ScriptFrame /\ Sized(f)
  BY <1>1, Place
<1>3. c \in Nat /\ c <= p /\ extended = SubSeq(input, c + 1, p)
  <2>1. o + 3 = c + 1 /\ c \in Nat /\ c <= p
    BY <1>1, <1>2
  <2>2. QED
    BY <1>1, <2>1
<1> HIDE DEF c
<1>4. /\ ext = SubSeq(input, c + 1, p + a) /\ Len(ext) = p + a - c /\ p + a \in Nat
      /\ a \in Nat /\ a <= needed /\ Len(extended) = p - c /\ p \in Nat
  BY <1>3, BufferGrows
<1>5. l \in Nat /\ l = get_header_len(header)
  BY <1>1, <1>2, HeaderLenIs DEF HeaderLen
<1> HIDE DEF a, ext, l, f, o
<1>6. p + a = o + l /\ c + 1 = o + 3
  <2>1. ~(needed > a) /\ c = o + 2 /\ o \in Nat
    BY <1>2 DEF a, c, o
  <2>2. p - c + needed = l - 2
    BY <1>4, <1>5
  <2>3. a = needed
    BY <1>4, <2>1
  <2>4. QED
    BY <1>3, <1>4, <1>5, <2>1, <2>2, <2>3
<1>7. SubSeq(input, o + 3, o + l) = Ext(f)
  <2>1. script \in Scripts /\ input \in Seq(Byte)
    BY DEF Reading
  <2>2. QED
    BY <1>1, <1>2, <2>1, FrameInInput DEF Sent, o, f, l, Coming
<1>8. ext = SizeOf(f) \o KeyOf(f)
  BY <1>4, <1>6, <1>7 DEF Ext
<1>9. get_payload_size(header, ext) = Len(f.payload) /\ (Masked(f) => get_masking_key(header, ext) = Key)
  BY <1>1, <1>2, <1>8, ExtendedIs DEF f
<1>10. validate_incoming_extended_header(header, ext) = "none" <=> SizeLegal(f)
  BY <1>1, <1>2, <1>8, SizeFault DEF f
<1>11. get_opcode(header) = f.op
  BY <1>1, <1>2, BasicSays DEF f
<1>12. get_payload_size(header, ext) % SizeT = Len(f.payload)
  <2> DEFINE n == Len(f.payload)
  <2>1. n \in Nat /\ n < SizeT
    BY <1>2, FrameIs, SizeAssumption DEF Sized, f
  <2> HIDE DEF n
  <2>2. n % SizeT = n
    BY <2>1, Wrapped
  <2>3. QED
    BY <1>9, <2>2 DEF n
<1>13. QED
  BY <1>6, <1>9, <1>10, <1>11, <1>12 DEF a, ext, l, f, o

(* The bytes are held against the limit as the frame is.                   *)
LEMMA TooBigIs ==
  ASSUME NEW f \in ScriptFrame, IsData(f), NEW open \in NoneOrOne, Holds(data, open),
         data # <<>> => data[1].payload \in Seq(Byte)
  PROVE  TooBig(Len(f.payload)) => ~BodyLegal(open, f)
<1> DEFINE m == WithFrame(open, f)
           size == Len(f.payload)
           room == m_max_message_size
<1>1. f.payload \in Seq(Byte) /\ size \in Nat /\ room \in Nat
  BY FrameIs, SizeAssumption
<1>2. TooBig(size) => (IF data = <<>> THEN 0 ELSE Len(data[1].payload)) + size > room
  <2> DEFINE length == IF data = <<>> THEN 0 ELSE Len(data[1].payload)
  <2>1. length \in Nat
    BY LenProperties
  <2>2. TooBig(size) <=> (length + size) % SizeT > room
    BY DEF TooBig
  <2> HIDE DEF length, size, room
  <2>3. length + size \in Nat
    BY <1>1, <2>1
  <2>4. (length + size) % SizeT \in Nat /\ (length + size) % SizeT <= length + size
    BY <2>3, Wrapped
  <2>5. (length + size) % SizeT > room => length + size > room
    BY <1>1, <2>3, <2>4
  <2>6. QED
    BY <2>2, <2>5 DEF length
<1>3. BodyLegal(open, f) => Len(m.payload) <= room
  BY DEF BodyLegal
<1>4. CASE data = <<>>
  <2>1. open = <<>>
    BY <1>4 DEF Holds
  <2>2. m.payload = f.payload
    BY <2>1 DEF WithFrame
  <2> HIDE DEF m
  <2>3. QED
    BY <1>1, <1>2, <1>3, <1>4, <2>2 DEF size
<1>5. CASE data # <<>>
  <2>1. open # <<>> /\ data[1].payload = open[1].payload
    BY <1>5 DEF Holds, Matches
  <2>2. m.payload = data[1].payload \o f.payload
    BY <2>1 DEF WithFrame
  <2>3. data[1].payload \in Seq(Byte)
    BY <1>5
  <2> HIDE DEF m
  <2>4. Len(m.payload) = Len(data[1].payload) + size /\ Len(data[1].payload) \in Nat
    BY <1>1, <2>2, <2>3, Joined DEF size
  <2> HIDE DEF size, room
  <2>5. TooBig(size) => Len(data[1].payload) + size > room
    BY <1>2, <1>5
  <2>6. Len(data[1].payload) + size > room => ~(Len(m.payload) <= room)
    BY <1>1, <2>4
  <2>7. QED
    BY <1>3, <2>5, <2>6 DEF size
<1>6. QED
  BY <1>4, <1>5

(* No sum wraps: what a frame announces is what its sender has.            *)
LEMMA ExtendedFits ==
  ASSUME ParseInv, Sent, Sizes, Delivering, read_extended_header
  PROVE  AnnouncesFit'
<1> DEFINE ext == extended \o Taken
           size == get_payload_size(header, ext) % SizeT
<1>1. error = "none" /\ m_state = "extended"
  BY DEF read_extended_header, Turns
<1>2. \/ m_state' = m_state
      \/ ~(needed > Available) /\ needed' = size
  BY Zenon DEF read_extended_header
<1>3. PICK k : Here(k) /\ InExtended(k)
  BY <1>1 DEF Delivering, InHeader, InApplication, InReady
<1>4. Reading /\ needed \in Nat /\ Len(extended) + needed = get_header_len(header) - 2
  BY <1>1 DEF ParseInv, Parsing
<1>5. Sized(Coming(k))
  BY <1>3, <1>4, Place DEF InExtended, HeaderRead
<1>6. ~(needed > Available) => size = Len(Coming(k).payload)
  BY <1>3, <1>4, HeaderEnds
<1> HIDE DEF size
<1>7. CASE m_state' = m_state
  BY <1>1, <1>7 DEF AnnouncesFit
<1>8. CASE ~(needed > Available) /\ needed' = size
  BY <1>5, <1>6, <1>8 DEF AnnouncesFit, Sized
<1>9. QED
  BY <1>2, <1>7, <1>8

(* A message that begins, or goes on, with the frame that comes.           *)
LEMMA ExtendedDelivers ==
  ASSUME ParseInv, Sent, Sizes, Delivering, read_extended_header
  PROVE  Delivering'
<1> DEFINE ext == extended \o Taken
           a == Available
           fault == validate_incoming_extended_header(header, ext)
           size == get_payload_size(header, ext) % SizeT
           isControl == is_control(get_opcode(header))
           key == get_masking_key(header, ext)
           keyed == [data[1] EXCEPT !.key = key]
           new == NewMessage(ext)
<1>1. /\ error = "none" /\ m_state = "extended" /\ p' = p + a /\ extended' = ext
      /\ UNCHANGED <<sender, read, response, header, delivered>>
  BY DEF read_extended_header, Turns, Takes
<1>2. \/ needed > a /\ UNCHANGED <<m_state, data, control, error>>
      \/ ~(needed > a) /\ fault # "none" /\ error' = fault /\ UNCHANGED <<m_state, data, control>>
      \/ /\ ~(needed > a) /\ fault = "none" /\ m_state' = "application" /\ needed' = size
         /\ \/ isControl /\ control' = <<new>> /\ data' = data /\ error' = error
            \/ ~isControl /\ TooBig(size) /\ error' = "message_too_big" /\ UNCHANGED <<data, control>>
            \/ ~isControl /\ data' = (IF data = <<>> THEN <<new>> ELSE <<keyed>>)
                 /\ control' = control /\ error' = error
  BY Zenon DEF read_extended_header
<1>3. PICK k : Here(k) /\ InExtended(k)
  BY <1>1 DEF Delivering, InHeader, InApplication, InReady
<1>4. /\ Reading /\ Kept /\ needed \in Nat /\ Len(extended) + needed = get_header_len(header) - 2
  BY <1>1 DEF ParseInv, Parsing
<1> DEFINE o == Offset(k)
           f == Coming(k)
           c == o + 2
<1>5. /\ HeaderRead(k) /\ header = Basic(f) /\ k < Len(Frames) /\ o + 2 <= p
      /\ extended = SubSeq(input, o + 3, p) /\ control = <<>> /\ Holds(data, Open(k))
  BY <1>3 DEF InExtended, HeaderRead
<1>6. /\ k \in 0 .. Len(Frames) /\ o \in Nat /\ f \in ScriptFrame /\ Sized(f) /\ Open(k) \in NoneOrOne
  BY <1>3, <1>4, <1>5, Place
<1>7. /\ Here(k)' /\ k \in 0 .. Len(Frames') /\ Offset(k)' = o /\ Coming(k)' = f /\ Open(k)' = Open(k)
      /\ Frames' = Frames /\ input' = input /\ HeaderRead(k)'
  BY <1>1, <1>3, <1>5, <1>6, SameHere, SameSender, SameFrame
<1>8. c \in Nat /\ c <= p /\ c + 1 = o + 3
  BY <1>5, <1>6
<1> HIDE DEF c
<1>9. /\ ext = SubSeq(input, c + 1, p + a) /\ c <= p + a
  <2>1. extended = SubSeq(input, c + 1, p)
    BY <1>5, <1>8
  <2>2. QED
    BY <1>4, <1>8, <2>1, BufferGrows
<1> HIDE DEF ext, a, fault, size, isControl, key, o, f, new, keyed
<1>10. CASE needed > a /\ UNCHANGED <<m_state, data, control, error>>
  <2>1. extended' = SubSeq(input', Offset(k)' + 3, p') /\ Offset(k)' + 2 <= p'
    BY <1>1, <1>7, <1>8, <1>9 DEF c
  <2>2. control' = <<>> /\ Holds(data', Open(k)')
    BY <1>5, <1>7, <1>10
  <2>3. InExtended(k)'
    BY <1>1, <1>7, <1>10, <2>1, <2>2 DEF InExtended, Holds
  <2>4. QED
    BY <1>1, <1>7, <1>10, <2>3 DEF Delivering
<1>11. CASE ~(needed > a)
  <2>1. /\ p + a = o + HeaderLen(f) /\ get_opcode(header) = f.op /\ size = Len(f.payload)
        /\ (Masked(f) => key = Key) /\ (fault = "none" <=> SizeLegal(f))
    BY <1>3, <1>4, <1>11, HeaderEnds DEF o, f, a, size, key, fault, ext
  <2>2. isControl <=> ~IsData(f)
    BY <2>1 DEF isControl, IsData
  <2>3. o <= p'
    <3>1. HeaderLen(f) \in Nat
      BY <1>6, HeaderLenIs
    <3>2. QED
      BY <1>1, <1>6, <2>1, <3>1
  <2>4. ASSUME ~Legal(Open(k), f), m_state' \in {"extended", "application"}, error' # "none"
        PROVE  Delivering'
    <3>1. Failed(k)'
      BY <1>5, <1>7, <2>3, <2>4 DEF Failed
    <3>2. QED
      BY <1>7, <2>4, <3>1 DEF Delivering
  <2>5. CASE fault # "none" /\ error' = fault /\ UNCHANGED <<m_state, data, control>>
    <3>1. ~Legal(Open(k), f)
      BY <1>6, <2>1, <2>5, LegalIs
    <3>2. QED
      BY <1>1, <2>4, <2>5, <3>1
  <2>6. CASE /\ fault = "none" /\ m_state' = "application" /\ needed' = size
             /\ \/ isControl /\ control' = <<new>> /\ data' = data /\ error' = error
                \/ ~isControl /\ data' = (IF data = <<>> THEN <<new>> ELSE <<keyed>>)
                     /\ control' = control /\ error' = error
    <3> DEFINE none == [op |-> f.op, payload |-> <<>>]
               begun == WithFrame(Open(k), Cut(f, 0))
    <3>1. Matches(new, none) /\ Turned(new, f, 0)
      BY <1>5, <1>6, <2>1, NewMatches DEF new, f, key
    <3>2. /\ IsData(f) /\ Open(k) # <<>> => begun = Open(k)[1]
          /\ ~(IsData(f) /\ Open(k) # <<>>) => begun = none
      BY <1>6, ContentEnds
    <3> HIDE DEF none, begun
    <3>3. IF IsData(f) THEN control' = <<>> /\ Filling(data, k, 0)'
                       ELSE Holds(data', Open(k)) /\ Filling(control, k, 0)'
      <4>1. CASE isControl /\ control' = <<new>> /\ data' = data
        <5>1. control' # <<>> /\ control'[1] = new
          BY <4>1
        <5>2. Matches(control'[1], begun)
          BY <2>2, <3>1, <3>2, <4>1, <5>1
        <5>3. Turned(control'[1], f, 0)
          BY <3>1, <5>1
        <5>4. Filling(control, k, 0)'
          BY <1>1, <5>1, <5>2, <5>3, SameFrame DEF f, begun
        <5>5. Holds(data', Open(k))
          BY <1>5, <4>1
        <5>6. QED
          BY <2>2, <4>1, <5>4, <5>5
      <4>2. CASE ~isControl /\ data' = (IF data = <<>> THEN <<new>> ELSE <<keyed>>) /\ control' = control
        <5>1. data' # <<>> /\ Matches(data'[1], begun) /\ Turned(data'[1], f, 0)
          <6>1. CASE data = <<>>
            <7>1. data' # <<>> /\ data'[1] = new
              BY <4>2, <6>1
            <7>2. Open(k) = <<>>
              BY <1>5, <6>1 DEF Holds
            <7>3. begun = none
              BY <3>2, <7>2
            <7>4. QED
              BY <3>1, <7>1, <7>3
          <6>2. CASE data # <<>>
            <7>1. data' # <<>> /\ data'[1] = keyed
              BY <4>2, <6>2
            <7>2. Open(k) # <<>> /\ Matches(data[1], Open(k)[1])
              BY <1>5, <6>2 DEF Holds
            <7>3. begun = Open(k)[1]
              BY <2>2, <3>2, <4>2, <7>2
            <7>4. data[1] \in Message
              BY <1>4, <6>2 DEF Kept, Receiving, Received
            <7>5. Matches(keyed, Open(k)[1]) /\ Turned(keyed, f, 0)
              BY <2>1, <7>2, <7>4, KeyedMatches DEF keyed
            <7>6. QED
              BY <7>1, <7>3, <7>5
          <6>3. QED
            BY <6>1, <6>2
        <5>2. Filling(data, k, 0)'
          BY <1>1, <5>1, SameFrame DEF f, begun
        <5>3. QED
          BY <1>5, <2>2, <4>2, <5>2
      <4>3. QED
        BY <2>6, <4>1, <4>2
    <3>4. InPayload(k, 0)'
      <4>1. SizeLegal(Coming(k)') /\ 0 \in 0 .. Len(Coming(k)'.payload)
        <5>1. Len(f.payload) \in Nat
          BY <1>6, FrameIs
        <5>2. QED
          BY <1>7, <2>1, <2>6, <5>1
      <4>2. HeaderLen(Coming(k))' = HeaderLen(f)
        BY <1>1, SameFrame DEF f
      <4>3. p' = Offset(k)' + HeaderLen(Coming(k))' + 0
        <5>1. HeaderLen(f) \in Nat
          BY <1>6, HeaderLenIs
        <5>2. QED
          BY <1>1, <1>6, <1>7, <2>1, <4>2, <5>1
      <4>4. IF IsData(Coming(k)') THEN control' = <<>> /\ Filling(data, k, 0)'
                                 ELSE Holds(data', Open(k)') /\ Filling(control, k, 0)'
        BY <1>7, <3>3
      <4>5. QED
        BY <1>7, <4>1, <4>3, <4>4 DEF InPayload, Holds
    <3>5. InApplication(k)'
      <4>1. Len(f.payload) \in Nat
        BY <1>6, FrameIs
      <4>2. needed' = Len(Coming(k)'.payload) - 0 /\ 0 \in 0 .. Len(Coming(k)'.payload)
        BY <1>7, <2>1, <2>6, <4>1
      <4>3. QED
        BY <2>6, <3>4, <4>2 DEF InApplication
    <3>6. error' = "none" /\ m_state' # "http"
      BY <1>1, <2>6
    <3>7. QED
      BY <1>7, <3>5, <3>6 DEF Delivering
  <2>7. CASE /\ fault = "none" /\ m_state' = "application" /\ needed' = size
             /\ ~isControl /\ TooBig(size) /\ error' = "message_too_big" /\ UNCHANGED <<data, control>>
    <3>1. IsData(f)
      BY <2>2, <2>7
    <3>2. data # <<>> => data[1].payload \in Seq(Byte)
      BY <1>4 DEF Kept, Receiving, Received, Message
    <3>3. ~BodyLegal(Open(k), f)
      BY <1>5, <1>6, <2>1, <2>7, <3>1, <3>2, TooBigIs
    <3>4. ~Legal(Open(k), f)
      BY <1>6, <3>3, LegalIs
    <3>5. QED
      BY <2>4, <2>7, <3>4
  <2>8. QED
    BY <1>2, <1>11, <2>5, <2>6, <2>7
<1>12. QED
  BY <1>2, <1>10, <1>11

-----------------------------------------------------------------------------
(* The next frame, when one is over.                                       *)
LEMMA FrameIsOver ==
  ASSUME Reading, Sent, Sizes, NEW k, Here(k), k < Len(Frames), Legal(Open(k), Coming(k))
  PROVE  LET f == Coming(k)
             m == WithFrame(Open(k), f)
         IN  /\ k + 1 \in 0 .. Len(Frames)
             /\ Offset(k + 1) = Offset(k) + HeaderLen(f) + Len(f.payload)
             /\ Said(First(k + 1)).legal
             /\ Open(k + 1) = IF ~IsData(f) THEN Open(k) ELSE IF f.fin THEN <<>> ELSE <<m>>
             /\ Said(First(k + 1)).messages = IF f.fin THEN Append(Spoken, m) ELSE Spoken
<1> DEFINE f == Coming(k)
           a == Said(First(k))
           b == Said(First(k + 1))
           m == WithFrame(Open(k), f)
<1>1. /\ k \in 0 .. Len(Frames) /\ k \in Nat /\ Len(Frames) \in Nat /\ f \in ScriptFrame /\ Sized(f)
      /\ b = SaidStep(a, f)
  BY Place
<1>2. k + 1 \in 0 .. Len(Frames)
  BY <1>1
<1>3. Offset(k + 1) = Offset(k) + HeaderLen(f) + Len(f.payload)
  <2>1. script \in Scripts /\ input \in Seq(Byte) /\ Sized(Frames[k + 1])
    BY <1>1 DEF Reading, Coming
  <2>2. QED
    BY <1>1, <2>1, FrameInInput DEF Sent, Coming
<1>4. a.legal /\ a.messages = Spoken /\ a.open = Open(k)
  BY DEF Here, Open
<1> HIDE DEF f, a
<1>5. /\ SaidStep(a, f).legal <=> a.legal /\ Legal(a.open, f)
      /\ SaidStep(a, f).open = IF ~IsData(f) THEN a.open ELSE IF f.fin THEN <<>> ELSE <<WithFrame(a.open, f)>>
      /\ SaidStep(a, f).messages = IF f.fin THEN Append(a.messages, WithFrame(a.open, f)) ELSE a.messages
  BY DEF SaidStep
<1>6. b.legal
  <2>1. Legal(a.open, f)
    BY <1>4 DEF f
  <2>2. QED
    BY <1>1, <1>4, <1>5, <2>1
<1>7. b.open = IF ~IsData(f) THEN Open(k) ELSE IF f.fin THEN <<>> ELSE <<m>>
  BY <1>1, <1>4, <1>5
<1>8. b.messages = IF f.fin THEN Append(Spoken, m) ELSE Spoken
  <2>1. WithFrame(a.open, f) = m
    BY <1>4
  <2> HIDE DEF m
  <2>2. QED
    BY <1>1, <1>4, <1>5, <2>1, Zenon
<1>9. Open(k + 1) = b.open
  BY DEF Open
<1>10. QED
  BY <1>2, <1>3, <1>6, <1>7, <1>8, <1>9 DEF f

(* Between two frames.                                                     *)
LEMMA NextFrame ==
  ASSUME UNCHANGED sender, NEW k, k \in 0 .. Len(Frames), Said(First(k)).legal,
         Spoken' = Said(First(k)).messages,
         m_state' = "basic", error' = "none", header' = <<>>, control' = <<>>, Holds(data', Open(k)),
         Offset(k) \in Nat, p' = Offset(k)
  PROVE  Delivering'
<1>1. /\ Offset(k)' = Offset(k) /\ First(k)' = First(k) /\ Open(k)' = Open(k)
      /\ Frames' = Frames /\ input' = input
  BY SameSender
<1>2. Here(k)'
  BY <1>1 DEF Here
<1>3. SubSeq(input', Offset(k)' + 1, p') = <<>>
  <2> DEFINE b == Offset(k) + 1
  <2>1. b \in Int /\ p' \in Int /\ p' < b
    OBVIOUS
  <2> HIDE DEF b
  <2>2. SubSeq(input', b, p') = <<>>
    BY <2>1, SubSeqEmpty
  <2>3. QED
    BY <1>1, <2>2 DEF b
<1>4. InHeader(k)'
  <2>1. Offset(k)' <= p' /\ Holds(data', Open(k)')
    BY <1>1
  <2>2. QED
    BY <1>3, <2>1 DEF InHeader, Holds
<1>5. k \in 0 .. Len(Frames')
  BY <1>1
<1>6. QED
  BY <1>2, <1>4, <1>5 DEF Delivering

(* What is refused in a payload is what makes the frame illegal.           *)
LEMMA PayloadFault ==
  ASSUME NEW f \in ScriptFrame, Sized(f), NEW open \in NoneOrOne, NEW t \in Nat, t <= Len(f.payload),
         HeadLegal(open, f), SizeLegal(f),
         LET m == WithFrame(open, f)
         IN  f.op = CONTINUATION /\ f.fin => Checked(m) = Reject \/ complete(Checked(m)),
         IsData(f) => Len(WithFrame(open, Cut(f, t)).payload) <= m_max_message_size
  PROVE  LET v == Checked(WithFrame(open, Cut(f, t)))
             fault == v = Reject \/ (t = Len(f.payload) /\ f.fin /\ f.op = TEXT /\ ~complete(v))
         IN  /\ fault => ~Legal(open, f)
             /\ ~fault /\ t = Len(f.payload) => Legal(open, f)
<1> DEFINE n == Len(f.payload)
           grown == WithFrame(open, Cut(f, t))
           whole == WithFrame(open, f)
           v == Checked(grown)
<1>1. n \in Nat /\ t \in 0 .. n
  BY FrameIs
<1>2. v = Reject => Checked(whole) = Reject
  <2> DEFINE a == n - t
  <2>1. a \in Nat /\ t + a = n /\ t + a <= n
    BY <1>1
  <2> HIDE DEF a
  <2>2. v = Reject => Checked(WithFrame(open, Cut(f, t + a))) = Reject
    BY <2>1, ContentGrows
  <2>3. WithFrame(open, Cut(f, n)) = whole
    BY ContentEnds
  <2>4. QED
    BY <2>1, <2>2, <2>3
<1>3. t = n => grown = whole
  BY ContentEnds
<1>4. Accept # Reject /\ complete(Accept) /\ TEXT = 1 /\ CONTINUATION = 0 /\ TEXT # CONTINUATION
  BY DEF Accept, Reject, complete, TEXT, CONTINUATION
<1>5. ~is_control(TEXT) /\ (~IsData(f) => whole = [op |-> f.op, payload |-> f.payload])
  BY <1>4 DEF is_control, WithFrame, CLOSE
<1>6. Legal(open, f) <=> BodyLegal(open, f)
  BY LegalIs
<1>7. BodyLegal(open, f) <=>
        (IsData(f) => /\ Len(whole.payload) <= m_max_message_size
                      /\ Checked(whole) # Reject /\ (f.fin => complete(Checked(whole))))
  BY DEF BodyLegal
<1> HIDE DEF n, grown, whole
<1>8. ~IsData(f) => Checked(whole) = Accept
  <2>1. ~IsData(f) => whole.op = f.op /\ f.op # TEXT
    BY <1>5 DEF IsData
  <2>2. QED
    BY <2>1 DEF Checked
<1> HIDE DEF v
<1>9. v = Reject => ~Legal(open, f)
  BY <1>2, <1>4, <1>6, <1>7, <1>8
<1>10. t = n /\ f.fin /\ f.op = TEXT /\ ~complete(v) => ~Legal(open, f)
  <2>1. f.op = TEXT => IsData(f)
    BY <1>5 DEF IsData
  <2>2. t = n => v = Checked(whole)
    BY <1>3 DEF v
  <2>3. QED
    BY <1>6, <1>7, <2>1, <2>2
<1>11. ASSUME v # Reject, ~(f.fin /\ f.op = TEXT /\ ~complete(v)), t = n, IsData(f)
       PROVE  BodyLegal(open, f)
  <2>1. v = Checked(whole) /\ Len(whole.payload) <= m_max_message_size
    BY <1>3, <1>11 DEF v, grown
  <2>2. ASSUME f.fin PROVE complete(v)
    <3>1. CASE f.op = TEXT
      BY <1>11, <2>2, <3>1
    <3>2. CASE f.op = CONTINUATION
      <4>1. Checked(whole) = Reject \/ complete(Checked(whole))
        BY <2>2, <3>2 DEF whole
      <4>2. QED
        BY <1>11, <2>1, <4>1
    <3>3. CASE f.op # TEXT /\ f.op # CONTINUATION
      <4>1. open = <<>>
        BY <1>11, <3>3 DEF HeadLegal
      <4>2. whole.op = f.op
        BY <4>1 DEF whole, WithFrame
      <4>3. Checked(whole) = Accept
        BY <3>3, <4>2 DEF Checked
      <4>4. QED
        BY <1>4, <2>1, <4>3
    <3>4. QED
      BY <3>1, <3>2, <3>3
  <2>3. QED
    BY <1>7, <1>11, <2>1, <2>2
<1>12. ~(v = Reject \/ (t = n /\ f.fin /\ f.op = TEXT /\ ~complete(v))) /\ t = n => Legal(open, f)
  <2>1. ~IsData(f) => BodyLegal(open, f)
    BY <1>7
  <2>2. QED
    BY <1>6, <1>11, <2>1
<1>13. QED
  BY <1>9, <1>10, <1>12 DEF v, n, grown

(* The message that comes grows with what is taken of the payload.         *)
LEMMA PayloadGrows ==
  ASSUME Reading, Kept, Sent, Sizes, needed \in Nat, NEW k, Here(k), NEW t, InPayload(k, t),
         needed = Len(Coming(k).payload) - t
  PROVE  LET f == Coming(k)
             a == Available
             isControl == is_control(get_opcode(header))
             m == Filled(IF isControl THEN control[1] ELSE data[1], Taken)
         IN  /\ t + a \in Nat /\ t + a <= Len(f.payload) /\ a <= needed
             /\ p + a = Offset(k) + HeaderLen(f) + (t + a)
             /\ needed = a <=> t + a = Len(f.payload)
             /\ isControl <=> ~IsData(f)
             /\ get_opcode(header) = f.op /\ (get_fin(header) <=> f.fin)
             /\ Matches(m, WithFrame(Open(k), Cut(f, t + a))) /\ Turned(m, f, t + a)
<1> DEFINE f == Coming(k)
           o == Offset(k)
           l == HeaderLen(f)
           n == Len(f.payload)
           a == Available
           isControl == is_control(get_opcode(header))
           old == IF isControl THEN control[1] ELSE data[1]
<1>1. header = Basic(f) /\ k < Len(Frames) /\ t \in 0 .. n /\ p = o + l + t
      /\ IF IsData(f) THEN control = <<>> /\ Filling(data, k, t)
                      ELSE Holds(data, Open(k)) /\ Filling(control, k, t)
  BY DEF InPayload, HeaderRead
<1>2. /\ k \in 0 .. Len(Frames) /\ o \in Nat /\ f \in ScriptFrame /\ Sized(f) /\ Open(k) \in NoneOrOne
      /\ Sized(Frames[k + 1])
  BY <1>1, Place DEF Coming
<1>3. /\ a \in 0 .. needed /\ p + a \in 0 .. read /\ Taken \in Seq(Byte) /\ Len(Taken) = a
  BY TakenIs
<1>4. n \in Nat /\ l \in Nat /\ Len(input) \in Nat /\ o + l + n <= Len(input)
      /\ (\A i \in 1 .. n : input[o + l + i] = Body(f)[i])
  <2>1. script \in Scripts /\ input \in Seq(Byte)
    BY DEF Reading
  <2>2. n \in Nat /\ l \in Nat
    BY <1>2, HeaderLenIs
  <2>3. QED
    BY <1>1, <1>2, <2>1, <2>2, FrameInInput DEF Sent, Coming
<1> HIDE DEF f, o, l, n, a, isControl, old
<1>5. /\ a \in Nat /\ a <= needed /\ t \in Nat /\ needed = n - t
  BY <1>1, <1>3, <1>4 DEF n, f
<1>6. t + a \in Nat /\ t + a <= n /\ (needed = a <=> t + a = n)
  BY <1>4, <1>5
<1>7. p + a = o + l + (t + a)
  BY <1>1, <1>2, <1>4, <1>5
<1>8. get_opcode(header) = f.op /\ (get_fin(header) <=> f.fin)
  BY <1>1, <1>2, BasicSays
<1>9. isControl <=> ~IsData(f)
  BY <1>8 DEF isControl, IsData
<1>10. old \in Message /\ Matches(old, WithFrame(Open(k), Cut(f, t))) /\ Turned(old, f, t)
  <2>1. CASE isControl
    <3>1. control # <<>> /\ Matches(control[1], WithFrame(Open(k), Cut(f, t))) /\ Turned(control[1], f, t)
      BY <1>1, <1>9, <2>1 DEF Filling, f
    <3>2. old = control[1]
      BY <2>1 DEF old
    <3>3. control[1] \in Message
      BY <3>1 DEF Kept, Receiving, Received
    <3>4. QED
      BY <3>1, <3>2, <3>3
  <2>2. CASE ~isControl
    <3>1. data # <<>> /\ Matches(data[1], WithFrame(Open(k), Cut(f, t))) /\ Turned(data[1], f, t)
      BY <1>1, <1>9, <2>2 DEF Filling, f
    <3>2. old = data[1]
      BY <2>2 DEF old
    <3>3. data[1] \in Message
      BY <3>1 DEF Kept, Receiving, Received
    <3>4. QED
      BY <3>1, <3>2, <3>3
  <2>3. QED
    BY <2>1, <2>2
<1>11. \A i \in 1 .. a : Taken[i] = Body(f)[t + i]
  <2>1. ASSUME NEW i \in 1 .. a PROVE Taken[i] = Body(f)[t + i]
    <3>1. p \in Nat /\ p + a \in Nat /\ p + a <= Len(input) /\ input \in Seq(Byte)
      <4>1. /\ p \in 0 .. read /\ read \in 0 .. Len(input) /\ input \in Seq(Byte)
        BY DEF Reading
      <4>2. p + a \in 0 .. read
        BY <1>3
      <4>3. QED
        BY <1>4, <4>1, <4>2
    <3>2. Taken[i] = input[p + i]
      <4> DEFINE b == p + 1
                 c == p + a
      <4>1. b \in Nat \ {0} /\ c \in Nat /\ c <= Len(input) /\ b <= c + 1 /\ i \in 1 .. c + 1 - b
            /\ b + i - 1 = p + i
        BY <1>5, <3>1
      <4> HIDE DEF b, c
      <4>2. SubSeq(input, b, c)[i] = input[b + i - 1]
        BY <3>1, <4>1, Part
      <4>3. QED
        BY <4>1, <4>2 DEF b, c, Taken, a
    <3>3. t + i \in 1 .. n /\ p + i = o + l + (t + i)
      BY <1>1, <1>2, <1>4, <1>5, <1>6
    <3>4. QED
      BY <1>4, <3>2, <3>3
  <2>2. QED
    BY <2>1
<1>12. Matches(Filled(old, Taken), WithFrame(Open(k), Cut(f, t + a))) /\ Turned(Filled(old, Taken), f, t + a)
  BY <1>1, <1>2, <1>3, <1>5, <1>6, <1>10, <1>11, FilledMatches DEF n
<1>13. QED
  BY <1>5, <1>6, <1>7, <1>8, <1>9, <1>12 DEF f, o, l, n, a, isControl, old

(* A payload is filled, refused, or over; only a message whose last frame  *)
(* has come is ready.                                                      *)
LEMMA PayloadDelivers ==
  ASSUME ParseInv, ParseInv', BoundInv', Sent, Sizes, Uncut, Delivering, process_payload
  PROVE  Delivering'
<1> DEFINE isControl == is_control(get_opcode(header))
           a == Available
           m == Filled(IF isControl THEN control[1] ELSE data[1], Taken)
           fault == \/ m.validator = Reject
                    \/ /\ needed = a /\ get_fin(header)
                       /\ get_opcode(header) = TEXT /\ ~complete(m.validator)
<1>1. /\ error = "none" /\ m_state = "application" /\ p' = p + a
      /\ UNCHANGED <<sender, read, response, delivered>>
  BY DEF process_payload, Turns, Takes
<1>2. /\ isControl => control' = <<m>> /\ data' = data
      /\ ~isControl => data' = <<m>> /\ control' = control
      /\ error' = IF fault THEN "invalid_utf8" ELSE error
      /\ \/ (fault \/ needed > a) /\ needed' = needed - a /\ UNCHANGED <<m_state, header>>
         \/ ~(fault \/ needed > a) /\ ~get_fin(header) /\ m_state' = "basic" /\ header' = <<>>
         \/ ~(fault \/ needed > a) /\ get_fin(header) /\ m_state' = "ready" /\ header' = header
  BY Zenon DEF process_payload, reset_headers
<1>3. PICK k : Here(k) /\ InApplication(k)
  BY <1>1 DEF Delivering, InHeader, InExtended, InReady
<1>4. PICK t : InPayload(k, t) /\ needed = Len(Coming(k).payload) - t
  BY <1>3 DEF InApplication
<1>5. Reading /\ Kept /\ needed \in Nat /\ Kept'
  BY DEF ParseInv, Parsing
<1> DEFINE o == Offset(k)
           f == Coming(k)
           l == HeaderLen(f)
           n == Len(f.payload)
           u == t + a
           grown == WithFrame(Open(k), Cut(f, u))
<1>6. /\ HeaderRead(k) /\ header = Basic(f) /\ k < Len(Frames) /\ HeadLegal(Open(k), f) /\ SizeLegal(f)
      /\ IF IsData(f) THEN control = <<>> ELSE Holds(data, Open(k))
  BY <1>4 DEF InPayload, HeaderRead
<1>7. /\ k \in 0 .. Len(Frames) /\ o \in Nat /\ f \in ScriptFrame /\ Sized(f) /\ Open(k) \in NoneOrOne
      /\ k \in Nat /\ Len(Frames) \in Nat /\ l \in Nat /\ n \in Nat
  BY <1>3, <1>5, <1>6, Place, HeaderLenIs
<1>8. /\ u \in Nat /\ u <= n /\ a <= needed /\ p + a = o + l + u /\ (needed = a <=> u = n)
      /\ (isControl <=> ~IsData(f)) /\ get_opcode(header) = f.op /\ (get_fin(header) <=> f.fin)
      /\ Matches(m, grown) /\ Turned(m, f, u)
  BY <1>3, <1>4, <1>5, PayloadGrows
<1> HIDE DEF isControl, a, m, fault, o, f, l, n, u, grown
<1>9. /\ Here(k)' /\ k \in 0 .. Len(Frames') /\ Offset(k)' = o /\ Coming(k)' = f /\ Open(k)' = Open(k)
      /\ Frames' = Frames /\ HeaderLen(Coming(k))' = l
      /\ (header' = header => HeaderRead(k)')
  BY <1>1, <1>3, <1>6, <1>7, SameHere, SameSender, SameFrame DEF o, f, l
<1>10. /\ fault => ~Legal(Open(k), f)
       /\ ~fault /\ u = n => Legal(Open(k), f)
  <2> DEFINE v == Checked(grown)
  <2>1. m.validator = v
    BY <1>8 DEF Matches
  <2>2. fault <=> v = Reject \/ (u = n /\ f.fin /\ f.op = TEXT /\ ~complete(v))
    BY <1>8, <2>1 DEF fault
  <2>3. LET w == WithFrame(Open(k), f)
        IN  f.op = CONTINUATION /\ f.fin => Checked(w) = Reject \/ complete(Checked(w))
    <3>1. k \in 0 .. Len(Frames) - 1
      BY <1>6, <1>7
    <3>2. QED
      BY <3>1 DEF Uncut, f
  <2>4. IsData(f) => Len(grown.payload) <= m_max_message_size
    <3>1. ASSUME IsData(f) PROVE Len(grown.payload) <= m_max_message_size
      <4>1. data' = <<m>>
        BY <1>2, <1>8, <3>1
      <4>2. data' # <<>> /\ data'[1] = m
        BY <4>1
      <4>3. Len(m.payload) <= m_max_message_size
        <5>1. ~is_control(m.op)
          BY <1>5, <4>2 DEF Kept
        <5>2. QED
          BY <4>2, <5>1 DEF BoundInv, Small, Limit
      <4>4. QED
        BY <1>8, <4>3 DEF Matches
    <3>2. QED
      BY <3>1
  <2>5. QED
    BY <1>6, <1>7, <1>8, <2>2, <2>3, <2>4, PayloadFault DEF grown, n
<1>10a. PICK x : x = u
  OBVIOUS
<1>11. ASSUME header' = header PROVE InPayload(k, x)'
  <2>1. SizeLegal(Coming(k)') /\ x \in 0 .. Len(Coming(k)'.payload)
    BY <1>6, <1>7, <1>8, <1>9, <1>10a DEF n
  <2>2. p' = Offset(k)' + HeaderLen(Coming(k))' + x
    BY <1>1, <1>8, <1>9, <1>10a
  <2>3. IF IsData(f) THEN control' = <<>> /\ Filling(data, k, x)'
                     ELSE Holds(data', Open(k)) /\ Filling(control, k, x)'
    <3>1. CASE isControl
      <4>1. control' # <<>> /\ control'[1] = m
        BY <1>2, <3>1
      <4>2. Filling(control, k, x)'
        BY <1>1, <1>8, <1>10a, <4>1, SameFrame DEF f, grown
      <4>3. Holds(data', Open(k))
        BY <1>2, <1>6, <1>8, <3>1
      <4>4. QED
        BY <1>8, <3>1, <4>2, <4>3
    <3>2. CASE ~isControl
      <4>1. data' # <<>> /\ data'[1] = m
        BY <1>2, <3>2
      <4>2. Filling(data, k, x)'
        BY <1>1, <1>8, <1>10a, <4>1, SameFrame DEF f, grown
      <4>3. control' = <<>>
        BY <1>2, <1>6, <1>8, <3>2
      <4>4. QED
        BY <1>8, <3>2, <4>2, <4>3
    <3>3. QED
      BY <3>1, <3>2
  <2>4. IF IsData(Coming(k)') THEN control' = <<>> /\ Filling(data, k, x)'
                              ELSE Holds(data', Open(k)') /\ Filling(control, k, x)'
    BY <1>9, <2>3
  <2>5. QED
    BY <1>9, <1>11, <2>1, <2>2, <2>4 DEF InPayload, Holds
<1>12. CASE (fault \/ needed > a) /\ needed' = needed - a /\ UNCHANGED <<m_state, header>>
  <2>1. CASE fault
    <3>1. o <= p'
      BY <1>1, <1>7, <1>8
    <3>2. Failed(k)'
      BY <1>1, <1>6, <1>9, <1>10, <1>12, <2>1, <3>1 DEF Failed
    <3>3. error' # "none" /\ m_state' # "http"
      BY <1>1, <1>2, <1>12, <2>1
    <3>4. QED
      BY <1>9, <3>2, <3>3 DEF Delivering
  <2>2. CASE ~fault
    <3>1. needed' = Len(Coming(k)'.payload) - x /\ x \in 0 .. Len(Coming(k)'.payload)
      <4>1. needed = n - t /\ t \in Nat /\ a \in Nat /\ u = t + a
        <5>1. t \in 0 .. n /\ needed = n - t
          BY <1>4 DEF InPayload, n, f
        <5>2. a \in Nat
          BY <1>5, TakenIs DEF a
        <5>3. QED
          BY <1>7, <5>1, <5>2 DEF u
      <4>2. needed' = n - u /\ u \in 0 .. n
        BY <1>7, <1>8, <1>12, <4>1
      <4>3. QED
        BY <1>9, <1>10a, <4>2 DEF n
    <3>2. InApplication(k)'
      BY <1>1, <1>11, <1>12, <3>1 DEF InApplication
    <3>3. error' = "none" /\ m_state' # "http"
      BY <1>1, <1>2, <1>12, <2>2
    <3>4. QED
      BY <1>9, <3>2, <3>3 DEF Delivering
  <2>3. QED
    BY <2>1, <2>2
<1>13. ASSUME ~(fault \/ needed > a)
       PROVE  u = n /\ Legal(Open(k), f) /\ error' = "none" /\ grown = WithFrame(Open(k), f)
  <2>1. a \in Nat
    BY <1>5, TakenIs DEF a
  <2>2. u = n
    BY <1>5, <1>8, <1>13, <2>1
  <2>3. grown = WithFrame(Open(k), f)
    BY <1>7, <2>2, ContentEnds DEF grown, n
  <2>4. QED
    BY <1>1, <1>2, <1>10, <1>13, <2>2, <2>3
<1>14. CASE ~(fault \/ needed > a) /\ ~get_fin(header) /\ m_state' = "basic" /\ header' = <<>>
  <2>1. IsData(f) /\ ~f.fin
    BY <1>6, <1>8, <1>14 DEF HeadLegal, IsData
  <2>2. /\ k + 1 \in 0 .. Len(Frames) /\ Offset(k + 1) = o + l + n /\ Said(First(k + 1)).legal
        /\ Open(k + 1) = <<WithFrame(Open(k), f)>> /\ Said(First(k + 1)).messages = Spoken
    <3>1. LET w == WithFrame(Open(k), f)
          IN  /\ k + 1 \in 0 .. Len(Frames)
              /\ Offset(k + 1) = o + l + n
              /\ Said(First(k + 1)).legal
              /\ Open(k + 1) = IF ~IsData(f) THEN Open(k) ELSE IF f.fin THEN <<>> ELSE <<w>>
              /\ Said(First(k + 1)).messages = IF f.fin THEN Append(Spoken, w) ELSE Spoken
      BY <1>3, <1>5, <1>6, <1>13, <1>14, FrameIsOver DEF o, l, n, f
    <3>2. QED
      BY <2>1, <3>1
  <2>3. control' = <<>> /\ data' = <<m>>
    BY <1>2, <1>6, <1>8, <2>1
  <2>4. Holds(data', Open(k + 1))
    <3>1. Matches(m, WithFrame(Open(k), f))
      BY <1>8, <1>13, <1>14
    <3>2. QED
      BY <2>2, <2>3, <3>1 DEF Holds
  <2>5. Spoken' = Said(First(k + 1)).messages
    BY <1>1, <2>2 DEF Spoken
  <2>6. p' = Offset(k + 1) /\ Offset(k + 1) \in Nat
    BY <1>1, <1>7, <1>8, <1>13, <1>14, <2>2
  <2>7. UNCHANGED sender /\ error' = "none"
    BY <1>1, <1>13, <1>14
  <2> DEFINE j == k + 1
  <2>8. /\ j \in 0 .. Len(Frames) /\ Said(First(j)).legal /\ Spoken' = Said(First(j)).messages
        /\ Holds(data', Open(j)) /\ Offset(j) \in Nat /\ p' = Offset(j)
    BY <2>2, <2>4, <2>5, <2>6
  <2> HIDE DEF j
  <2>9. QED
    BY <1>14, <2>3, <2>7, <2>8, NextFrame
<1>15. CASE ~(fault \/ needed > a) /\ get_fin(header) /\ m_state' = "ready" /\ header' = header
  <2>1. f.fin /\ Legal(Open(k), f) /\ error' = "none" /\ InPayload(k, x)' /\ x = n
    BY <1>8, <1>10a, <1>11, <1>13, <1>15
  <2>2. Coming(k)'.fin /\ Legal(Open(k)', Coming(k)') /\ Len(Coming(k)'.payload) = x
    BY <1>9, <2>1 DEF n
  <2>3. InReady(k)'
    BY <1>15, <2>1, <2>2 DEF InReady
  <2>4. QED
    BY <1>9, <1>15, <2>1, <2>3 DEF Delivering
<1>16. QED
  BY <1>2, <1>12, <1>14, <1>15

(* One more message is delivered.                                          *)
LEMMA SpokenGrows ==
  ASSUME delivered \in Seq(Message), NEW x \in Message, delivered' = delivered \o <<x>>
  PROVE  Spoken' = Append(Spoken, [op |-> x.op, payload |-> x.payload])
<1> DEFINE c == [op |-> x.op, payload |-> x.payload]
           n == Len(delivered)
<1>1. n \in Nat /\ DOMAIN delivered = 1 .. n
  BY LenProperties
<1>2. /\ DOMAIN delivered' = 1 .. n + 1
      /\ \A i \in 1 .. n + 1 : delivered'[i] = IF i = n + 1 THEN x ELSE delivered[i]
  <2>1. ASSUME NEW s \in Seq(Message)
        PROVE  /\ DOMAIN (s \o <<x>>) = 1 .. Len(s) + 1
               /\ \A i \in 1 .. Len(s) + 1 : (s \o <<x>>)[i] = IF i = Len(s) + 1 THEN x ELSE s[i]
    OBVIOUS
  <2>2. QED
    BY <2>1
<1> HIDE DEF n, c
<1>3. Spoken \in Seq(Range(Spoken)) /\ Len(Spoken) = n
      /\ \A i \in 1 .. n : Spoken[i] = [op |-> delivered[i].op, payload |-> delivered[i].payload]
  <2>1. DOMAIN Spoken = 1 .. n /\ \A i \in 1 .. n :
          Spoken[i] = [op |-> delivered[i].op, payload |-> delivered[i].payload]
    BY <1>1 DEF Spoken
  <2>2. \A i \in 1 .. n : Spoken[i] \in Range(Spoken)
    BY <2>1 DEF Range
  <2>3. Spoken = [i \in 1 .. n |-> Spoken[i]]
    BY <1>1 DEF Spoken
  <2>4. Spoken \in Seq(Range(Spoken))
    BY <1>1, <2>2, <2>3
  <2>5. Len(Spoken) = n
    BY <1>1, <2>1, <2>4, LenProperties
  <2>6. QED
    BY <2>1, <2>4, <2>5
<1> DEFINE T0 == Range(Spoken) \cup {c}
           more == Append(Spoken, c)
<1>4. DOMAIN more = 1 .. n + 1 /\ \A i \in 1 .. n + 1 : more[i] = IF i = n + 1 THEN c ELSE Spoken[i]
  <2>1. ASSUME NEW T, NEW s \in Seq(T)
        PROVE  DOMAIN Append(s, c) = 1 .. Len(s) + 1
               /\ \A i \in 1 .. Len(s) + 1 : Append(s, c)[i] = IF i = Len(s) + 1 THEN c ELSE s[i]
    OBVIOUS
  <2>2. QED
    BY <1>3, <2>1
<1>5. more = [i \in 1 .. n + 1 |-> more[i]]
  <2>1. ASSUME NEW T, NEW s \in Seq(T) PROVE Append(s, c) \in Seq(T \cup {c})
    <3>1. s \in Seq(T \cup {c}) /\ c \in T \cup {c}
      OBVIOUS
    <3>2. QED
      BY <3>1, AppendProperties
  <2>2. more \in Seq(T0)
    BY <1>3, <2>1
  <2>3. ASSUME NEW T, NEW s \in Seq(T) PROVE s = [i \in DOMAIN s |-> s[i]]
    OBVIOUS
  <2> HIDE DEF more, T0
  <2>4. QED
    BY <1>4, <2>2, <2>3
<1>6. Spoken' = [i \in 1 .. n + 1 |-> [op |-> delivered'[i].op, payload |-> delivered'[i].payload]]
  BY <1>2 DEF Spoken
<1>7. ASSUME NEW i \in 1 .. n + 1
      PROVE  more[i] = [op |-> delivered'[i].op, payload |-> delivered'[i].payload]
  <2>1. CASE i = n + 1
    BY <1>2, <1>4, <2>1 DEF c
  <2>2. CASE i # n + 1
    <3>1. i \in 1 .. n
      BY <1>1, <2>2
    <3>2. more[i] = Spoken[i] /\ delivered'[i] = delivered[i]
      BY <1>2, <1>4, <2>2
    <3>3. QED
      BY <1>3, <3>1, <3>2
  <2>3. QED
    BY <2>1, <2>2
<1> HIDE DEF more
<1>8. Spoken' = more
  BY <1>5, <1>6, <1>7
<1>9. QED
  BY <1>8 DEF more, c

(* A frame that ends a message adds it to what is delivered.               *)
LEMMA MessageDelivers ==
  ASSUME ParseInv, Sent, Sizes, Delivering, get_message
  PROVE  Delivering'
<1> DEFINE isControl == is_control(get_opcode(header))
           q == IF isControl THEN control ELSE data
<1>1. /\ m_state = "ready" /\ UNCHANGED <<sender, p, read, response, error>>
      /\ m_state' = "basic" /\ header' = <<>> /\ delivered' = delivered \o q
      /\ isControl => control' = <<>> /\ data' = data
      /\ ~isControl => data' = <<>> /\ control' = control
  BY DEF get_message, reset_headers
<1>2. PICK k : Here(k) /\ InReady(k) /\ error = "none"
  BY <1>1 DEF Delivering, InHeader, InExtended, InApplication, Failed
<1>3. Reading /\ Kept
  BY DEF ParseInv
<1> DEFINE o == Offset(k)
           f == Coming(k)
           l == HeaderLen(f)
           n == Len(f.payload)
           whole == WithFrame(Open(k), f)
           j == k + 1
<1>4. /\ header = Basic(f) /\ k < Len(Frames) /\ f.fin /\ Legal(Open(k), f) /\ p = o + l + n
      /\ IF IsData(f) THEN control = <<>> /\ Filling(data, k, n)
                      ELSE Holds(data, Open(k)) /\ Filling(control, k, n)
  BY <1>2 DEF InReady, InPayload, HeaderRead
<1>5. /\ f \in ScriptFrame /\ Sized(f) /\ Open(k) \in NoneOrOne /\ o \in Nat /\ l \in Nat /\ n \in Nat
  BY <1>2, <1>3, <1>4, Place, HeaderLenIs
<1>6. isControl <=> ~IsData(f)
  BY <1>4, <1>5, BasicSays DEF IsData
<1>7. /\ j \in 0 .. Len(Frames) /\ Offset(j) = o + l + n /\ Said(First(j)).legal
      /\ Open(j) = IF ~IsData(f) THEN Open(k) ELSE <<>>
      /\ Said(First(j)).messages = Append(Spoken, whole)
  BY <1>2, <1>3, <1>4, FrameIsOver
<1> HIDE DEF isControl, q, o, f, l, n, whole, j
<1>8. q # <<>> /\ Matches(q[1], whole)
  <2>1. q # <<>> /\ Matches(q[1], WithFrame(Open(k), Cut(f, n)))
    BY <1>4, <1>6 DEF q, Filling, f
  <2>2. WithFrame(Open(k), Cut(f, n)) = whole
    BY <1>5, ContentEnds DEF n, whole
  <2>3. QED
    BY <2>1, <2>2
<1>9. q = <<q[1]>> /\ q[1] \in Message
  BY <1>3, <1>8 DEF q, Kept, Receiving, Received
<1>10. Spoken' = Append(Spoken, whole)
  <2>1. delivered \in Seq(Message) /\ delivered' = delivered \o <<q[1]>>
    BY <1>1, <1>3, <1>9 DEF Kept
  <2>2. Spoken' = Append(Spoken, [op |-> q[1].op, payload |-> q[1].payload])
    BY <1>9, <2>1, SpokenGrows
  <2>3. whole = [op |-> whole.op, payload |-> whole.payload]
    <3>1. whole \in Content
      <4>1. f.op \in 0 .. 15 /\ f.payload \in Seq(Byte)
        BY <1>5, FrameIs
      <4>2. QED
        BY <1>5, <4>1, WithFrameIs DEF whole
    <3>2. QED
      BY <3>1 DEF Content
  <2>4. q[1].op = whole.op /\ q[1].payload = whole.payload
    BY <1>8 DEF Matches
  <2>5. QED
    BY <2>2, <2>3, <2>4
<1>11. control' = <<>> /\ Holds(data', Open(j))
  <2>1. CASE isControl
    BY <1>1, <1>4, <1>6, <1>7, <2>1 DEF Holds
  <2>2. CASE ~isControl
    <3>1. data' = <<>> /\ Open(j) = <<>> /\ control' = <<>>
      BY <1>1, <1>4, <1>6, <1>7, <2>2
    <3>2. QED
      BY <3>1 DEF Holds
  <2>3. QED
    BY <2>1, <2>2
<1>12. Offset(j) \in Nat /\ p' = Offset(j)
  BY <1>1, <1>4, <1>5, <1>7
<1>13. UNCHANGED sender /\ error' = "none" /\ Spoken' = Said(First(j)).messages
  BY <1>1, <1>2, <1>7, <1>10
<1>14. QED
  BY <1>1, <1>7, <1>11, <1>12, <1>13, NextFrame

-----------------------------------------------------------------------------
(* Nothing is said before the first frame, which follows the response.     *)
LEMMA NothingSaid ==
  ASSUME script \in Scripts, Sent
  PROVE  /\ 0 \in 0 .. Len(Frames) /\ Said(First(0)) = Silence /\ Open(0) = <<>>
         /\ Offset(0) = Len(Text(script.lines)) /\ Offset(0) \in Nat
<1>1. Frames \in Seq(ScriptFrame) /\ Len(Frames) \in Nat /\ Offset(0) = Len(Text(script.lines))
  BY OffsetsAre DEF Sent
<1>2. 0 \in 0 .. Len(Frames)
  BY <1>1
<1>3. First(0) = <<>>
  BY <1>1, <1>2, FirstFrames DEF First
<1>4. Said(First(0)) = Silence
  BY <1>3, SaidIs
<1>5. Offset(0) \in Nat
  BY <1>2, OffsetsAre DEF Sent
<1>6. QED
  BY <1>1, <1>2, <1>4, <1>5 DEF Open, Silence

(* The invariant holds at first.                                           *)
LEMMA InitDelivers ==
  ASSUME Init
  PROVE  DeliveryInv
<1>1. /\ script \in Scripts /\ p = 0 /\ header = <<>> /\ data = <<>> /\ control = <<>>
      /\ delivered = <<>> /\ error = "none" /\ m_state = (IF server THEN "basic" ELSE "http")
      /\ input = Text(script.lines) \o BytesOf(Frames)
  BY DEF Init
<1>2. Sent
  BY <1>1 DEF Sent
<1>6. BoundInv /\ AnnouncesFit
  BY <1>1, InitBound DEF AnnouncesFit
<1>3. CASE ~server
  <2>1. Delivering
    BY <1>1, <1>3 DEF Delivering
  <2>2. QED
    BY <1>2, <1>6, <2>1 DEF DeliveryInv
<1>4. CASE server
  <2>1. /\ 0 \in 0 .. Len(Frames) /\ Said(First(0)) = Silence /\ Open(0) = <<>>
        /\ Offset(0) = Len(Text(script.lines)) /\ Offset(0) \in Nat
    BY <1>1, <1>2, NothingSaid
  <2>2. Text(script.lines) = <<>>
    BY <1>4 DEF Text
  <2>3. Offset(0) = 0
    BY <2>1, <2>2
  <2>4. Spoken = <<>>
    BY <1>1 DEF Spoken
  <2>5. Here(0)
    BY <2>1, <2>4 DEF Here, Silence
  <2>6. SubSeq(input, Offset(0) + 1, p) = <<>>
    <3>1. SubSeq(input, 1, 0) = <<>>
      BY SubSeqEmpty
    <3>2. QED
      BY <1>1, <2>3, <3>1
  <2>7. InHeader(0)
    BY <1>1, <1>4, <2>1, <2>3, <2>6 DEF InHeader, Holds
  <2>8. m_state # "http"
    BY <1>1, <1>4
  <2>9. Delivering
    BY <1>1, <2>1, <2>5, <2>7, <2>8 DEF Delivering
  <2>10. QED
    BY <1>2, <1>6, <2>9 DEF DeliveryInv
<1>5. QED
  BY <1>3, <1>4

(* The frames begin where the response ends.                               *)
LEMMA ResponseDelivers ==
  ASSUME ParseInv, HandshakeInv, Sent, Sound, Delivering, handle_read_http_response
  PROVE  Delivering'
<1>1. /\ m_state = "http" /\ UNCHANGED <<sender, read, needed, header, extended, data, control, delivered>>
      /\ \/ m_state' = m_state
         \/ m_state' = "basic" /\ error' = "none"
  BY DEF handle_read_http_response
<1>2. ~server /\ header = <<>> /\ data = <<>> /\ control = <<>> /\ delivered = <<>>
  BY <1>1 DEF Delivering
<1>3. server' = server /\ script' = script
  BY <1>1 DEF sender
<1>4. CASE m_state' = m_state
  BY <1>1, <1>2, <1>3, <1>4 DEF Delivering
<1>5. CASE m_state' = "basic" /\ error' = "none"
  <2>1. Plain(script.lines)
    BY <1>2 DEF Sound
  <2>2. HandshakeInv'
    BY ResponseShakes
  <2>3. Handshake'
    <3>1. Plain(script.lines)'
      BY <1>3, <2>1 DEF Plain
    <3>2. QED
      BY <1>2, <1>3, <2>2, <3>1 DEF HandshakeInv
  <2>4. p' = 3 * Len(script'.lines) + 2
    BY <1>1, <1>2, <1>5, <2>3 DEF Handshake
  <2>5. script \in Scripts
    BY DEF ParseInv, Reading
  <2>6. script.lines \in Seq(Seq(Byte)) /\ \A i \in 1 .. Len(script.lines) : Len(script.lines[i]) = 1
    BY <2>1, <2>5, ScriptAssumption DEF Plain
  <2>7. Len(Text(script.lines)) = 3 * Len(script.lines) + 2
    BY <1>2, <2>6, TextIs
  <2>8. /\ 0 \in 0 .. Len(Frames) /\ Said(First(0)) = Silence /\ Open(0) = <<>>
        /\ Offset(0) = Len(Text(script.lines)) /\ Offset(0) \in Nat
    BY <2>5, NothingSaid
  <2>9. p' = Offset(0)
    BY <1>3, <2>4, <2>7, <2>8
  <2>10. Spoken' = <<>>
    BY <1>1, <1>2 DEF Spoken
  <2>11. Said(First(0)).legal /\ Spoken' = Said(First(0)).messages
    BY <2>8, <2>10 DEF Silence
  <2>12. header' = <<>> /\ control' = <<>> /\ Holds(data', Open(0))
    BY <1>1, <1>2, <2>8 DEF Holds
  <2>13. QED
    BY <1>1, <1>5, <2>8, <2>9, <2>11, <2>12, NextFrame
<1>6. QED
  BY <1>1, <1>4, <1>5

(* What reads from the socket only is no step of the parser.               *)
LEMMA SameDelivers ==
  ASSUME Delivering, UNCHANGED <<sender, p, frame>>
  PROVE  Delivering'
<1>1. /\ UNCHANGED sender /\ p' = p /\ m_state' = m_state /\ needed' = needed /\ header' = header
      /\ extended' = extended /\ data' = data /\ control' = control /\ delivered' = delivered
      /\ error' = error /\ server' = server
  BY DEF frame, sender
<1>2. CASE m_state = "http"
  BY <1>1, <1>2 DEF Delivering
<1>3. CASE m_state # "http"
  <2>1. PICK k \in 0 .. Len(Frames) :
          Here(k) /\ IF error # "none" THEN Failed(k)
                     ELSE InHeader(k) \/ InExtended(k) \/ InApplication(k) \/ InReady(k)
    BY <1>3 DEF Delivering
  <2>2. /\ Offset(k)' = Offset(k) /\ Open(k)' = Open(k) /\ Coming(k)' = Coming(k)
        /\ Frames' = Frames /\ input' = input
    BY <1>1, SameSender
  <2>3. Here(k)'
    BY <1>1, <2>1, SameHere
  <2>4. HeaderRead(k) => HeaderRead(k)'
    BY <1>1, SameFrame
  <2>5. InHeader(k) => InHeader(k)'
    BY <1>1, <2>2 DEF InHeader, Holds
  <2>6. InExtended(k) => InExtended(k)'
    BY <1>1, <2>2, <2>4 DEF InExtended, Holds
  <2>7. ASSUME NEW t, InPayload(k, t) PROVE InPayload(k, t)'
    <3>1. HeaderRead(k)' /\ SizeLegal(Coming(k)') /\ t \in 0 .. Len(Coming(k)'.payload)
      BY <2>2, <2>4, <2>7 DEF InPayload
    <3>2. p' = Offset(k)' + HeaderLen(Coming(k))' + t
      <4>1. HeaderLen(Coming(k))' = HeaderLen(Coming(k))
        BY <1>1, SameFrame
      <4>2. QED
        BY <1>1, <2>2, <2>7, <4>1 DEF InPayload
    <3>3. Filling(data, k, t) => Filling(data, k, t)'
      BY <1>1, SameFrame DEF Filling
    <3>4. Filling(control, k, t) => Filling(control, k, t)'
      BY <1>1, SameFrame DEF Filling
    <3>5. IF IsData(Coming(k)') THEN control' = <<>> /\ Filling(data, k, t)'
                                ELSE Holds(data', Open(k)') /\ Filling(control, k, t)'
      BY <1>1, <2>2, <2>7, <3>3, <3>4 DEF InPayload
    <3>6. QED
      BY <3>1, <3>2, <3>5 DEF InPayload, Holds
  <2>8. InApplication(k) => InApplication(k)'
    <3>1. ASSUME InApplication(k) PROVE InApplication(k)'
      <4>1. PICK t \in 0 .. Len(Coming(k).payload) : InPayload(k, t) /\ needed = Len(Coming(k).payload) - t
        BY <3>1 DEF InApplication
      <4>2. InPayload(k, t)' /\ needed' = Len(Coming(k)'.payload) - t /\ t \in 0 .. Len(Coming(k)'.payload)
        BY <1>1, <2>2, <2>7, <4>1
      <4>3. QED
        BY <1>1, <3>1, <4>2 DEF InApplication
    <3>2. QED
      BY <3>1
  <2>9. InReady(k) => InReady(k)'
    <3>1. ASSUME InReady(k) PROVE InReady(k)'
      <4>1. PICK n : n = Len(Coming(k).payload)
        OBVIOUS
      <4>2. InPayload(k, n)'
        BY <2>7, <3>1, <4>1 DEF InReady
      <4>3. Coming(k)'.fin /\ Legal(Open(k)', Coming(k)') /\ n = Len(Coming(k)'.payload) /\ m_state' = "ready"
        BY <1>1, <2>2, <3>1, <4>1 DEF InReady
      <4>4. QED
        BY <4>2, <4>3 DEF InReady
    <3>2. QED
      BY <3>1
  <2>10. Failed(k) => Failed(k)'
    BY <1>1, <2>2 DEF Failed
  <2>11. k \in 0 .. Len(Frames')
    BY <2>2
  <2>12. QED
    BY <1>1, <1>3, <2>1, <2>3, <2>5, <2>6, <2>8, <2>9, <2>10, <2>11 DEF Delivering
<1>4. QED
  BY <1>2, <1>3

(* No step makes a sum wrap.                                               *)
LEMMA NextFits ==
  ASSUME ParseInv, Sent, Sizes, Delivering, AnnouncesFit, [Next]_vars
  PROVE  AnnouncesFit'
<1>1. CASE handle_read_http_response
  BY <1>1 DEF handle_read_http_response, AnnouncesFit
<1>2. CASE read_header
  BY <1>2 DEF read_header, AnnouncesFit
<1>3. CASE read_extended_header
  BY <1>3, ExtendedFits
<1>4. CASE process_payload
  <2> DEFINE a == Available
  <2>1. \/ m_state' # "application"
        \/ needed' = needed - a /\ m_state' = m_state
    BY <1>4, Zenon DEF process_payload, reset_headers
  <2>2. m_state = "application" /\ needed \in Nat /\ Reading
    BY <1>4 DEF process_payload, ParseInv, Parsing
  <2>3. a \in 0 .. needed
    BY <2>2, TakenIs
  <2> HIDE DEF a
  <2>4. needed + m_max_message_size < SizeT
    BY <2>2 DEF AnnouncesFit
  <2>5. needed - a + m_max_message_size < SizeT
    BY <2>2, <2>3, <2>4, SizeAssumption
  <2>6. QED
    BY <2>1, <2>5 DEF AnnouncesFit
<1>5. CASE get_message
  BY <1>5 DEF get_message, reset_headers, AnnouncesFit
<1>6. CASE handle_async_read \/ UNCHANGED vars
  BY <1>6 DEF handle_async_read, vars, frame, AnnouncesFit
<1>7. QED
  BY <1>1, <1>2, <1>3, <1>4, <1>5, <1>6 DEF Next, consume

(* Every step keeps the invariant.                                         *)
LEMMA NextDelivers ==
  ASSUME ParseInv, ParseInv', HandshakeInv, DeliveryInv, [Next]_vars
  PROVE  DeliveryInv'
<1>1. UNCHANGED sender
  BY DEF Next, handle_read_http_response, consume, read_header, read_extended_header, process_payload,
         get_message, handle_async_read, vars
<1>2. Sent /\ (Sent' <=> Sent) /\ (Sound' <=> Sound)
  BY <1>1, SameSender DEF DeliveryInv
<1>3. SUFFICES ASSUME Sound PROVE Delivering' /\ BoundInv' /\ AnnouncesFit'
  BY <1>2 DEF DeliveryInv
<1>4. Delivering /\ Sizes /\ Uncut /\ BoundInv /\ AnnouncesFit
  BY <1>3 DEF DeliveryInv, Sound
<1>13. AnnouncesFit'
  BY <1>2, <1>4, NextFits
<1>14. BoundInv'
  BY <1>4, <1>13, BoundKept
<1>15. SUFFICES Delivering'
  BY <1>13, <1>14
<1>5. CASE handle_read_http_response
  BY <1>2, <1>3, <1>4, <1>5, ResponseDelivers
<1>6. CASE read_header
  BY <1>2, <1>4, <1>6, HeaderDelivers
<1>7. CASE read_extended_header
  BY <1>2, <1>4, <1>7, ExtendedDelivers
<1>8. CASE process_payload
  BY <1>2, <1>4, <1>8, <1>14, PayloadDelivers
<1>9. CASE get_message
  BY <1>2, <1>4, <1>9, MessageDelivers
<1>10. CASE handle_async_read
  <2>1. UNCHANGED <<sender, p, frame>>
    BY <1>10 DEF handle_async_read
  <2>2. QED
    BY <1>4, <2>1, SameDelivers
<1>11. CASE UNCHANGED vars
  <2>1. UNCHANGED <<sender, p, frame>>
    BY <1>11 DEF vars
  <2>2. QED
    BY <1>4, <2>1, SameDelivers
<1>12. QED
  BY <1>5, <1>6, <1>7, <1>8, <1>9, <1>10, <1>11 DEF Next, consume

(* What waits for more bytes is within the next frame.                     *)
LEMMA WaitsWithin ==
  ASSUME ParseInv, Sent, Sizes, NEW k, Here(k), error = "none", Waits,
         InHeader(k) \/ InExtended(k) \/ InApplication(k) \/ InReady(k)
  PROVE  Offset(k) <= p /\ (k < Len(Frames) => p < Offset(k + 1))
<1> DEFINE f == Coming(k)
           o == Offset(k)
           l == HeaderLen(f)
           n == Len(f.payload)
<1>1. /\ Reading /\ needed \in Nat /\ m_state # "ready" /\ m_state # "http" /\ needed # 0
      /\ m_state = "basic" => Len(header) + needed = 2
      /\ m_state = "extended" => Len(extended) + needed = get_header_len(header) - 2
  BY DEF ParseInv, Parsing, Waits, Turns, InHeader, InExtended, InApplication, InReady
<1>2. /\ p \in Nat /\ p <= Len(input) /\ Len(input) \in Nat /\ input \in Seq(Byte)
  <2>1. p \in 0 .. read /\ read \in 0 .. Len(input) /\ input \in Seq(Byte)
    BY <1>1 DEF Reading
  <2>2. Len(input) \in Nat
    BY <2>1, LenProperties
  <2>3. QED
    BY <2>1, <2>2
<1>3. k \in 0 .. Len(Frames) /\ o \in Nat
  BY <1>1, Place
<1>4. ASSUME k < Len(Frames)
      PROVE  /\ f \in ScriptFrame /\ Sized(f) /\ l \in Nat /\ l >= 2 /\ n \in Nat
             /\ Offset(k + 1) = o + l + n
  <2>1. f \in ScriptFrame /\ Sized(f) /\ Sized(Frames[k + 1])
    BY <1>1, <1>4, Place DEF Coming
  <2>2. l \in Nat /\ l >= 2 /\ n \in Nat
    BY <2>1, HeaderLenIs
  <2>3. script \in Scripts /\ input \in Seq(Byte)
    BY <1>1 DEF Reading
  <2>4. QED
    BY <1>3, <1>4, <2>1, <2>2, <2>3, FrameInInput DEF Sent, Coming
<1>5. ASSUME NEW c \in Nat, c <= p PROVE Len(SubSeq(input, c + 1, p)) = p - c
  <2> DEFINE b == c + 1
  <2>1. b \in Nat \ {0} /\ b <= p + 1 /\ p + 1 - b = p - c
    BY <1>2, <1>5
  <2> HIDE DEF b
  <2>2. Len(SubSeq(input, b, p)) = p + 1 - b
    BY <1>2, <2>1, Part
  <2>3. QED
    BY <2>1, <2>2 DEF b
<1> HIDE DEF f, o, l, n
<1>6. CASE InHeader(k)
  <2>1. o <= p /\ header = SubSeq(input, o + 1, p) /\ Len(header) + needed = 2
    BY <1>1, <1>6 DEF InHeader, o
  <2>2. Len(header) = p - o
    BY <1>3, <1>5, <2>1
  <2>3. p < o + 2
    BY <1>1, <1>2, <1>3, <2>1, <2>2
  <2>4. k < Len(Frames) => p < Offset(k + 1)
    BY <1>2, <1>3, <1>4, <2>3
  <2>5. QED
    BY <2>1, <2>4 DEF o
<1>7. CASE InExtended(k)
  <2> DEFINE c == o + 2
  <2>1. /\ k < Len(Frames) /\ header = Basic(f) /\ o + 2 <= p /\ extended = SubSeq(input, o + 3, p)
        /\ Len(extended) + needed = get_header_len(header) - 2
    BY <1>1, <1>7 DEF InExtended, HeaderRead, o, f
  <2>2. c \in Nat /\ c <= p /\ o + 3 = c + 1
    BY <1>3, <2>1
  <2> HIDE DEF c
  <2>3. Len(extended) = p - c
    BY <1>5, <2>1, <2>2
  <2>4. get_header_len(header) = l
    BY <2>1 DEF l, HeaderLen
  <2>5. p - c + needed = l - 2
    BY <2>1, <2>3, <2>4
  <2>6. p < o + l /\ o <= p
    BY <1>1, <1>2, <1>3, <1>4, <2>1, <2>2, <2>5 DEF c
  <2>7. p < Offset(k + 1)
    BY <1>2, <1>3, <1>4, <2>1, <2>6
  <2>8. QED
    BY <2>6, <2>7 DEF o
<1>8. CASE InApplication(k)
  <2>1. PICK t \in 0 .. n : InPayload(k, t) /\ needed = n - t
    BY <1>8 DEF InApplication, n, f
  <2>2. k < Len(Frames) /\ p = o + l + t
    BY <2>1 DEF InPayload, HeaderRead, o, l, f
  <2>3. o <= p /\ p < o + l + n
    BY <1>1, <1>3, <1>4, <2>1, <2>2
  <2>4. QED
    BY <1>4, <2>2, <2>3 DEF o
<1>9. QED
  BY <1>1, <1>6, <1>7, <1>8 DEF InReady

(* For every script whose sizes have room, where they are written and in   *)
(* size_t, whose response is plain, and in which no text message ends, in  *)
(* a continuation, within a code point, and however its bytes are cut into *)
(* reads: the messages delivered are those that the legal frames say, in   *)
(* their order, and what is refused is not.                                *)
THEOREM DeliveryCorrect == Spec => [](Sound => AsSent)
<1>1. Init => DeliveryInv
  BY InitDelivers
<1>2. ParseInv /\ ParseInv' /\ HandshakeInv /\ DeliveryInv /\ [Next]_vars => DeliveryInv'
  BY NextDelivers
<1>3. ParseInv /\ DeliveryInv => (Sound => AsSent)
  <2> SUFFICES ASSUME ParseInv, Sent, Sizes, Delivering, m_state # "http", Waits \/ error # "none"
               PROVE  \E k \in 0 .. Len(Frames) :
                        /\ Said(First(k)).legal /\ Offset(k) <= p
                        /\ Spoken = Said(First(k)).messages
                        /\ IF error = "none" THEN k < Len(Frames) => p < Offset(k + 1)
                                             ELSE k < Len(Frames) /\ ~Said(First(k + 1)).legal
    BY DEF DeliveryInv, Sound, AsSent, Spoken
  <2>1. PICK k \in 0 .. Len(Frames) :
          Here(k) /\ IF error # "none" THEN Failed(k)
                     ELSE InHeader(k) \/ InExtended(k) \/ InApplication(k) \/ InReady(k)
    BY DEF Delivering
  <2>2. Said(First(k)).legal /\ Spoken = Said(First(k)).messages
    BY <2>1 DEF Here
  <2>3. CASE error = "none"
    <3>1. Offset(k) <= p /\ (k < Len(Frames) => p < Offset(k + 1))
      BY <2>1, <2>3, WaitsWithin
    <3>2. QED
      BY <2>2, <2>3, <3>1
  <2>4. CASE error # "none"
    <3>1. k < Len(Frames) /\ Offset(k) <= p /\ ~Legal(Open(k), Coming(k))
      BY <2>1, <2>4 DEF Failed
    <3>2. Said(First(k + 1)) = SaidStep(Said(First(k)), Coming(k))
      BY <2>1, <3>1, Place DEF ParseInv
    <3>3. ~Said(First(k + 1)).legal
      <4>1. \A b : SaidStep(b, Coming(k)).legal <=> b.legal /\ Legal(b.open, Coming(k))
        BY DEF SaidStep
      <4>2. ~Legal(Said(First(k)).open, Coming(k))
        BY <3>1 DEF Open
      <4>3. QED
        BY <3>2, <4>1, <4>2
    <3>4. QED
      BY <2>2, <2>4, <3>1, <3>3
  <2>5. QED
    BY <2>3, <2>4
<1>4. Spec => []HandshakeInv
  <2>1. Init => HandshakeInv
    BY InitHandshake
  <2>2. ParseInv /\ HandshakeInv /\ [Next]_vars => HandshakeInv'
    BY NextShakes
  <2>3. QED
    BY <2>1, <2>2, ParserInvariant, PTL DEF Spec
<1>5. QED
  BY <1>1, <1>2, <1>3, <1>4, ParserInvariant, PTL DEF Spec
=============================================================================
