---------------------------- MODULE Texts_proofs ----------------------------
(***************************************************************************)
(* Proofs about what the audit does with sequences: how a selection is cut *)
(* into batches (ReviewBatches) and what a command line of yay is taken    *)
(* for (Invocations).  Induction is by the least number at which something *)
(* fails; the first part proves what a fold from the left, a recursion     *)
(* over a sequence and the concatenation of sequences return.              *)
(***************************************************************************)
EXTENDS ReviewBatches, RecipeChecksums, ContentStream, Invocations,
        WellFoundedInduction, FiniteSetTheorems, SequenceTheorems, TLAPS

----------------------------------------------------------------------------
(* Folds and recursions.                                                   *)

\* What an induction over data rests on here: a set of numbers has a least one.
LEMMA LeastNat ==
  ASSUME NEW T \in SUBSET Nat, T # {}
  PROVE  \E m \in T : \A k \in T : m <= k
<1>1. \E m \in T : \A k \in T : <<k, m>> \notin OpToRel(<, Nat)
  BY WFMin, NatLessThanWellFounded
<1>2. PICK m \in T : \A k \in T : <<k, m>> \notin OpToRel(<, Nat)
  BY <1>1
<1>3. ASSUME NEW k \in T PROVE m <= k
  <2>1. k \in Nat /\ m \in Nat /\ <<k, m>> \notin OpToRel(<, Nat)
    BY <1>2
  <2>2. k < m => <<k, m>> \in OpToRel(<, Nat)
    BY <2>1 DEF OpToRel
  <2>3. ~ (k < m)
    BY <2>1, <2>2, Zenon
  <2>4. k \in Nat /\ m \in Nat
    OBVIOUS
  <2>. QED
    BY <2>3, <2>4
<1>. QED
  BY <1>3

\* The element above all others is what Max finds.
LEMMA MaxIs ==
  ASSUME NEW S \in SUBSET Int, NEW m \in S, \A x \in S : x <= m
  PROVE  Max(S) = m
<1>1. \E x \in S : \A y \in S : x >= y
  OBVIOUS
<1>2. Max(S) \in S /\ \A y \in S : Max(S) >= y
  BY <1>1, Zenon DEF Max
<1>3. m \in Int /\ Max(S) \in Int /\ Max(S) <= m /\ m <= Max(S)
  BY <1>2
<1>. QED
  BY <1>3

\* h is the function MapThenFoldSet recurs on when it folds a sequence of length n
\* from the left: the value of a set of positions is that of the set without its last.
FoldsTo(n, V, base, step, h) ==
  /\ h \in [SUBSET (1 .. n) -> V]
  /\ \A s \in SUBSET (1 .. n) :
       h[s] = IF s = {} THEN base ELSE step[<<h[s \ {Max(s)}], Max(s)>>]

\* There is such a function, so that a left fold is what its recursion says: the
\* least length for which there is none leads to a contradiction.
LEMMA FoldExists ==
  ASSUME NEW n \in Nat, NEW V, NEW base \in V, NEW step \in [V \X (1 .. n) -> V]
  PROVE  \E h : FoldsTo(n, V, base, step, h)
<1>. DEFINE Folds(h, k) ==
       \A s \in SUBSET (1 .. k) :
          h[s] = IF s = {} THEN base ELSE step[<<h[s \ {Max(s)}], Max(s)>>]
     Bad == {k \in 0 .. n : ~ \E h \in [SUBSET (1 .. k) -> V] : Folds(h, k)}
<1>1. ASSUME NEW m \in Bad, \A k \in Bad : m <= k PROVE FALSE
  <2>1. CASE m = 0
    <3>. DEFINE h == [s \in SUBSET (1 .. 0) |-> base]
    <3>1. h \in [SUBSET (1 .. 0) -> V]
      OBVIOUS
    <3>2. \A s \in SUBSET (1 .. 0) : s = {}
      OBVIOUS
    <3>3. Folds(h, 0)
      BY <3>2
    <3>. QED
      BY <2>1, <3>1, <3>3
  <2>2. CASE m # 0
    <3>0. m \in 0 .. n
      OBVIOUS
    <3>a. m \in 1 .. n /\ m - 1 \in 0 .. n /\ m - 1 < m
      BY <2>2, <3>0
    <3>b. m - 1 \notin Bad
      <4>. HIDE DEF Bad
      <4>1. m - 1 \in Bad => m <= m - 1
        BY <1>1
      <4>2. m \in Int
        BY <3>0
      <4>. QED
        BY <4>1, <4>2
    <3>1. m \in 1 .. n /\ m - 1 \in 0 .. n /\ m - 1 \notin Bad
      BY <3>a, <3>b
    <3>2. PICK g \in [SUBSET (1 .. m - 1) -> V] : Folds(g, m - 1)
      BY <3>1
    <3>. DEFINE h == [s \in SUBSET (1 .. m) |->
                        IF m \in s THEN step[<<g[s \ {m}], m>>] ELSE g[s]]
    <3>. HIDE DEF Folds, Bad
    <3>3. \A s \in SUBSET (1 .. m) : s \ {m} \in SUBSET (1 .. m - 1)
      BY <3>1
    <3>4. \A s \in SUBSET (1 .. m) : m \notin s => s \in SUBSET (1 .. m - 1)
      BY <3>1
    <3>5. h \in [SUBSET (1 .. m) -> V]
      BY <3>1, <3>2, <3>3, <3>4
    <3>6. ASSUME NEW s \in SUBSET (1 .. m)
          PROVE  h[s] = IF s = {} THEN base ELSE step[<<h[s \ {Max(s)}], Max(s)>>]
      <4>1. CASE m \in s
        <5>1. Max(s) = m
          <6>1. s \in SUBSET Int /\ \A x \in s : x <= m
            BY <3>1
          <6>. QED
            BY <4>1, <6>1, MaxIs
        <5>2. h[s \ {m}] = g[s \ {m}]
          BY <3>3
        <5>. QED
          BY <4>1, <5>1, <5>2
      <4>2. CASE m \notin s
        <5>1. h[s] = g[s] /\ h[s \ {Max(s)}] = g[s \ {Max(s)}]
          BY <4>2, <3>4
        <5>2. g[s] = IF s = {} THEN base ELSE step[<<g[s \ {Max(s)}], Max(s)>>]
          BY <3>2, <3>4, <4>2 DEF Folds
        <5>. QED
          BY <5>1, <5>2
      <4>. QED
        BY <4>1, <4>2
    <3>7. Folds(h, m)
      BY <3>6 DEF Folds
    <3>8. m \notin Bad
      BY <3>5, <3>7 DEF Bad
    <3>. QED
      BY <1>1, <3>8
  <2>. QED
    BY <2>1, <2>2
<1>2. Bad = {}
  <2>1. Bad \in SUBSET Nat
    OBVIOUS
  <2>. QED
    BY <1>1, <2>1, LeastNat
<1>3. n \in 0 .. n
  OBVIOUS
<1>. HIDE DEF Folds
<1>4. PICK h \in [SUBSET (1 .. n) -> V] : Folds(h, n)
  BY <1>2, <1>3
<1>5. \A s \in SUBSET (1 .. n) :
         h[s] = IF s = {} THEN base ELSE step[<<h[s \ {Max(s)}], Max(s)>>]
  BY <1>4, Zenon DEF Folds
<1>6. FoldsTo(n, V, base, step, h)
  BY <1>4, <1>5, Zenon DEF FoldsTo
<1>. QED
  BY <1>6

\* Max of positions of a sequence is one of them, and the last.
LEMMA MaxExists ==
  ASSUME NEW n \in Nat, NEW S \in SUBSET (1 .. n), S # {}
  PROVE  Max(S) \in S /\ \A x \in S : x <= Max(S)
<1>. DEFINE T == {k \in Nat : \A x \in S : x <= k}
<1>1. n \in T
  OBVIOUS
<1>2. PICK m \in T : \A k \in T : m <= k
  <2>1. T \in SUBSET Nat /\ T # {}
    BY <1>1
  <2>. HIDE DEF T
  <2>. QED
    BY <2>1, LeastNat
<1>3. m \in S
  <2>1. SUFFICES ASSUME m \notin S PROVE FALSE
    OBVIOUS
  <2>2. \A x \in S : x \in Int /\ x <= m /\ x # m /\ x >= 1
    BY <2>1
  <2>3. m \in Nat /\ m # 0
    <3>1. PICK x \in S : TRUE
      OBVIOUS
    <3>. QED
      BY <2>2, <3>1
  <2>4. m - 1 \in T
    BY <2>2, <2>3
  <2>. QED
    BY <1>2, <2>3, <2>4
<1>. QED
  BY <1>3, MaxIs

\* Two functions that begin alike and go on alike end alike: what a recursive
\* function returns is what any function with its recursion returns.
LEMMA SameFold ==
  ASSUME NEW n \in Nat, NEW g, NEW h, g[{}] = h[{}],
         \A s \in SUBSET (1 .. n) : s # {} /\ g[s \ {Max(s)}] = h[s \ {Max(s)}] => g[s] = h[s]
  PROVE  g[1 .. n] = h[1 .. n]
<1>. DEFINE Bad == {k \in 0 .. n : g[1 .. k] # h[1 .. k]}
<1>1. ASSUME NEW m \in Bad, \A k \in Bad : m <= k PROVE FALSE
  <2>0. m \in 0 .. n /\ g[1 .. m] # h[1 .. m]
    OBVIOUS
  <2>1. CASE m = 0
    <3>1. 1 .. 0 = {}
      OBVIOUS
    <3>. QED
      BY <2>0, <2>1, <3>1
  <2>2. CASE m # 0
    <3>1. /\ m \in 1 .. n /\ m - 1 \in 0 .. n /\ 1 .. m \in SUBSET (1 .. n) /\ 1 .. m # {}
          /\ (1 .. m) \ {m} = 1 .. m - 1 /\ m \in 1 .. m /\ \A x \in 1 .. m : x <= m
          /\ 1 .. m \in SUBSET Int
      BY <2>0, <2>2
    <3>2. m - 1 \notin Bad
      <4>. HIDE DEF Bad
      <4>1. m - 1 \in Bad => m <= m - 1
        BY <1>1
      <4>. QED
        BY <4>1, <3>1
    <3>3. g[1 .. m - 1] = h[1 .. m - 1]
      BY <3>1, <3>2
    <3>4. Max(1 .. m) = m
      BY <3>1, MaxIs
    <3>. QED
      BY <2>0, <3>1, <3>3, <3>4
  <2>. QED
    BY <2>1, <2>2
<1>2. Bad = {}
  <2>1. Bad \in SUBSET Nat
    OBVIOUS
  <2>. HIDE DEF Bad
  <2>. QED
    BY <1>1, <2>1, LeastNat
<1>3. n \in 0 .. n
  OBVIOUS
<1>. QED
  BY <1>2, <1>3

\* What every step of a fold keeps, the fold keeps.
LEMMA FoldKeeps ==
  ASSUME NEW n \in Nat, NEW V, NEW base, NEW step, NEW h, FoldsTo(n, V, base, step, h),
         NEW W, base \in W[0],
         \A k \in 1 .. n : \A x \in V : x \in W[k - 1] => step[<<x, k>>] \in W[k]
  PROVE  h[1 .. n] \in V /\ h[1 .. n] \in W[n]
<1>. DEFINE Bad == {k \in 0 .. n : h[1 .. k] \notin W[k]}
<1>0. /\ h \in [SUBSET (1 .. n) -> V]
      /\ \A s \in SUBSET (1 .. n) :
           h[s] = IF s = {} THEN base ELSE step[<<h[s \ {Max(s)}], Max(s)>>]
  BY Zenon DEF FoldsTo
<1>1. ASSUME NEW m \in Bad, \A k \in Bad : m <= k PROVE FALSE
  <2>0. m \in 0 .. n /\ h[1 .. m] \notin W[m]
    OBVIOUS
  <2>1. CASE m = 0
    <3>1. 1 .. 0 = {} /\ {} \in SUBSET (1 .. n)
      OBVIOUS
    <3>2. h[{}] = base
      BY <1>0, <3>1
    <3>3. h[1 .. 0] \notin W[0]
      BY <2>0, <2>1
    <3>. QED
      BY <3>1, <3>2, <3>3, Zenon
  <2>2. CASE m # 0
    <3>0. m \in Nat /\ m >= 1 /\ m <= n
      BY <2>0, <2>2
    <3>6. m - 1 \in 0 .. n /\ 1 .. m - 1 \in SUBSET (1 .. n) /\ ~(m <= m - 1)
      BY <3>0
    <3>7. /\ m \in 1 .. n /\ 1 .. m \in SUBSET (1 .. n) /\ 1 .. m # {}
          /\ m \in 1 .. m /\ (\A x \in 1 .. m : x <= m) /\ 1 .. m \in SUBSET Int
      BY <3>0
    <3>8. (1 .. m) \ {m} = 1 .. m - 1
      BY <3>0
    <3>2. m - 1 \notin Bad
      <4>. HIDE DEF Bad
      <4>. QED
        BY <1>1, <3>6
    <3>3. h[1 .. m - 1] \in W[m - 1] /\ h[1 .. m - 1] \in V
      BY <1>0, <3>2, <3>6
    <3>4. Max(1 .. m) = m
      BY <3>7, MaxIs
    <3>5. h[1 .. m] = step[<<h[1 .. m - 1], m>>]
      BY <1>0, <3>4, <3>7, <3>8
    <3>. QED
      BY <2>0, <3>3, <3>5, <3>7
  <2>. QED
    BY <2>1, <2>2
<1>2. Bad = {}
  <2>1. Bad \in SUBSET Nat
    OBVIOUS
  <2>. HIDE DEF Bad
  <2>. QED
    BY <1>1, <2>1, LeastNat
<1>3. n \in 0 .. n /\ 1 .. n \in SUBSET (1 .. n)
  OBVIOUS
<1>. QED
  BY <1>0, <1>2, <1>3

\* h is the function of a recursion over 0 .. n.
Recurs(n, V, base, step, h) ==
  h \in [0 .. n -> V] /\ h[0] = base /\ \A i \in 1 .. n : h[i] = step[<<h[i - 1], i>>]

\* There is one: the fold of its positions.
LEMMA NatRecursion ==
  ASSUME NEW n \in Nat, NEW V, NEW base \in V, NEW step \in [V \X (1 .. n) -> V]
  PROVE  \E h : Recurs(n, V, base, step, h)
<1>1. PICK f : FoldsTo(n, V, base, step, f)
  BY FoldExists
<1>. DEFINE h == [i \in 0 .. n |-> f[1 .. i]]
<1>2. /\ f \in [SUBSET (1 .. n) -> V]
      /\ \A s \in SUBSET (1 .. n) :
           f[s] = IF s = {} THEN base ELSE step[<<f[s \ {Max(s)}], Max(s)>>]
  BY <1>1, Zenon DEF FoldsTo
<1>3. h \in [0 .. n -> V]
  BY <1>2
<1>4. h[0] = base
  <2>1. h[0] = f[1 .. 0] /\ 1 .. 0 = {}
    OBVIOUS
  <2>2. f[{}] = base
    BY <1>2
  <2>. QED
    BY <2>1, <2>2
<1>5. ASSUME NEW i \in 1 .. n PROVE h[i] = step[<<h[i - 1], i>>]
  <2>1. /\ 1 .. i \in SUBSET (1 .. n) /\ 1 .. i # {} /\ (1 .. i) \ {i} = 1 .. i - 1
        /\ 1 .. i \in SUBSET Int /\ i \in 1 .. i /\ \A x \in 1 .. i : x <= i
    OBVIOUS
  <2>2. Max(1 .. i) = i
    BY <2>1, MaxIs
  <2>3. f[1 .. i] = step[<<f[1 .. i - 1], i>>]
    BY <1>2, <2>1, <2>2
  <2>4. h[i] = f[1 .. i] /\ h[i - 1] = f[1 .. i - 1]
    OBVIOUS
  <2>. HIDE DEF h
  <2>. QED
    BY <2>3, <2>4
<1>6. Recurs(n, V, base, step, h)
  BY <1>3, <1>4, <1>5 DEF Recurs
<1>. QED
  BY <1>6

\* Two functions that begin alike and go on alike agree.
GoOnAlike(n, g, h) ==
  g[0] = h[0] /\ \A i \in 1 .. n : g[i - 1] = h[i - 1] => g[i] = h[i]

LEMMA SameRecursion ==
  ASSUME NEW n \in Nat, NEW g, NEW h, GoOnAlike(n, g, h)
  PROVE  \A i \in 0 .. n : g[i] = h[i]
<1>. USE DEF GoOnAlike
<1>. DEFINE Bad == {i \in 0 .. n : g[i] # h[i]}
<1>1. ASSUME NEW m \in Bad, \A k \in Bad : m <= k PROVE FALSE
  <2>1. m \in 0 .. n /\ g[m] # h[m]
    OBVIOUS
  <2>2. m # 0
    BY <2>1
  <2>3. m \in 1 .. n /\ m - 1 \in 0 .. n /\ ~(m <= m - 1)
    BY <2>1, <2>2
  <2>4. m - 1 \notin Bad
    <3>. HIDE DEF Bad
    <3>. QED
      BY <1>1, <2>3
  <2>5. g[m - 1] = h[m - 1]
    BY <2>3, <2>4
  <2>. QED
    BY <2>1, <2>3, <2>5
<1>2. Bad = {}
  <2>1. Bad \in SUBSET Nat
    OBVIOUS
  <2>. HIDE DEF Bad
  <2>. QED
    BY <1>1, <2>1, LeastNat
<1>. QED
  BY <1>2

----------------------------------------------------------------------------
(* Sequences of sequences.                                                 *)

LEMMA OneIsASeq ==
  ASSUME NEW S, NEW x \in S
  PROVE  <<x>> \in Seq(S) /\ <<x>> # <<>>
OBVIOUS

LEMMA OneLonger ==
  ASSUME NEW S, NEW t \in Seq(S), NEW x \in S
  PROVE  Append(t, x) \in Seq(S) /\ Append(t, x) # <<>> /\ Len(Append(t, x)) = Len(t) + 1
BY AppendProperties

\* A sequence is one of its own elements.
LEMMA OwnElements ==
  ASSUME NEW S, NEW t \in Seq(S)
  PROVE  t \in Seq(ToSet(t))
<1>. DEFINE n == Len(t)
<1>1. n \in Nat /\ DOMAIN t = 1 .. n /\ t = [k \in 1 .. n |-> t[k]]
  BY LenProperties
<1>2. \A k \in 1 .. n : t[k] \in ToSet(t)
  BY <1>1 DEF ToSet
<1>. HIDE DEF n
<1>. QED
  BY <1>1, <1>2

\* One sequence after another, place by place.
LEMMA ConcatIs ==
  ASSUME NEW S, NEW s \in Seq(S), NEW t \in Seq(S)
  PROVE  /\ s \o t \in Seq(S) /\ Len(s) \in Nat /\ Len(t) \in Nat /\ Len(s \o t) = Len(s) + Len(t)
         /\ \A k \in 1 .. Len(s) : (s \o t)[k] = s[k]
         /\ \A k \in 1 .. Len(t) : (s \o t)[Len(s) + k] = t[k]
OBVIOUS

\* h[i] is the first i of the sequences, one after the other.
Flattens(Q, seqs, h) ==
  /\ h \in [0 .. Len(seqs) -> Seq(Q)] /\ h[0] = <<>>
  /\ \A i \in 1 .. Len(seqs) : h[i] = h[i - 1] \o seqs[i]

LEMMA FlattenIs ==
  ASSUME NEW Q, NEW seqs \in Seq(Seq(Q))
  PROVE  \E h : Flattens(Q, seqs, h) /\ FlattenSeq(seqs) = h[Len(seqs)]
<1>. DEFINE n == Len(seqs)
            V == Seq(Q)
            base == <<>>
            step == [x \in V \X (1 .. n) |-> x[1] \o seqs[x[2]]]
            Flat(f) == f = [i \in 1 .. Len(seqs) |-> IF i = 1 THEN seqs[i] ELSE f[i - 1] \o seqs[i]]
            g == CHOOSE f : Flat(f)
<1>1. n \in Nat /\ \A i \in 1 .. n : seqs[i] \in Seq(Q)
  BY LenProperties, ElementOfSeq
<1>2. step \in [V \X (1 .. n) -> V]
  <2>1. \A x \in V, i \in 1 .. n : x \o seqs[i] \in V
    BY <1>1, ConcatProperties
  <2>. HIDE DEF V
  <2>. QED
    BY <2>1
<1>3. base \in V
  BY EmptySeq
<1>4. PICK h : Recurs(n, V, base, step, h)
  <2>. HIDE DEF V, base, step, n
  <2>. QED
    BY <1>1, <1>2, <1>3, NatRecursion
<1>5. Flattens(Q, seqs, h)
  <2>1. h \in [0 .. n -> V] /\ h[0] = base /\ \A i \in 1 .. n : h[i] = step[<<h[i - 1], i>>]
    <3>. HIDE DEF V, base, step, n
    <3>. QED
      BY <1>4, Zenon DEF Recurs
  <2>2. ASSUME NEW i \in 1 .. n PROVE h[i] = h[i - 1] \o seqs[i]
    <3>1. i - 1 \in 0 .. n
      BY <1>1
    <3>2. h[i - 1] \in V
      BY <2>1, <3>1
    <3>3. step[<<h[i - 1], i>>] = h[i - 1] \o seqs[i]
      <4>. HIDE DEF V
      <4>. QED
        BY <3>2
    <3>. QED
      BY <2>1, <3>3
  <2>. QED
    BY <2>1, <2>2 DEF Flattens
<1>6. CASE n = 0
  <2>1. FlattenSeq(seqs) = seqs
    BY <1>6 DEF FlattenSeq
  <2>2. seqs = <<>>
    BY <1>6, EmptySeq
  <2>. QED
    BY <1>5, <1>6, <2>1, <2>2 DEF Flattens
<1>7. CASE n # 0
  <2>1. FlattenSeq(seqs) = g[n]
    BY <1>7, Zenon DEF FlattenSeq
  <2>2. \E f : Flat(f)
    <3>. DEFINE f == [i \in 1 .. n |-> h[i]]
    <3>1. ASSUME NEW i \in 1 .. n PROVE f[i] = IF i = 1 THEN seqs[i] ELSE f[i - 1] \o seqs[i]
      <4>1. f[i] = h[i - 1] \o seqs[i]
        BY <1>5 DEF Flattens
      <4>2. CASE i = 1
        <5>1. h[i - 1] = <<>>
          BY <1>5, <4>2 DEF Flattens
        <5>2. seqs[i] \in Seq(Q)
          BY <1>1
        <5>3. <<>> \o seqs[i] = seqs[i]
          BY <5>2, ConcatEmptySeq
        <5>. HIDE DEF f
        <5>. QED
          BY <4>1, <4>2, <5>1, <5>3
      <4>3. CASE i # 1
        <5>1. i - 1 \in 1 .. n
          BY <1>1, <4>3
        <5>. QED
          BY <4>1, <4>3, <5>1
      <4>. QED
        BY <4>2, <4>3
    <3>2. f = [i \in 1 .. n |-> f[i]]
      OBVIOUS
    <3>3. Flat(f)
      <4>. HIDE DEF f
      <4>. QED
        BY <3>1, <3>2
    <3>. QED
      BY <3>3
  <2>3. Flat(g)
    <3>. HIDE DEF Flat
    <3>. QED
      BY <2>2, Zenon
  <2>4. \A i \in 1 .. n : g[i] = IF i = 1 THEN seqs[i] ELSE g[i - 1] \o seqs[i]
    <3>. HIDE DEF g
    <3>. QED
      BY <2>3
  <2>. HIDE DEF g
  <2>. DEFINE c == [i \in 0 .. n |-> IF i = 0 THEN <<>> ELSE g[i]]
  <2>5. c[0] = h[0]
    BY <1>1, <1>5 DEF Flattens
  <2>6. ASSUME NEW i \in 1 .. n, c[i - 1] = h[i - 1] PROVE c[i] = h[i]
    <3>0. h[i] = h[i - 1] \o seqs[i]
      BY <1>5 DEF Flattens
    <3>4. i \in 0 .. n /\ i # 0
      BY <1>1
    <3>1. c[i] = g[i] /\ h[i] = h[i - 1] \o seqs[i]
      BY <3>0, <3>4
    <3>2. CASE i = 1
      <4>1. h[i - 1] = <<>> /\ seqs[i] \in Seq(Q)
        BY <1>1, <1>5, <3>2 DEF Flattens
      <4>2. <<>> \o seqs[i] = seqs[i]
        BY <4>1, ConcatEmptySeq
      <4>3. g[i] = seqs[i]
        BY <2>4, <3>2
      <4>. HIDE DEF c
      <4>. QED
        BY <3>1, <4>1, <4>2, <4>3
    <3>3. CASE i # 1
      <4>1. i - 1 \in 0 .. n /\ i - 1 # 0
        BY <1>1, <3>3
      <4>2. c[i - 1] = g[i - 1]
        BY <4>1
      <4>3. g[i] = g[i - 1] \o seqs[i]
        BY <2>4, <3>3
      <4>. HIDE DEF c
      <4>. QED
        BY <2>6, <3>1, <4>2, <4>3
    <3>. QED
      BY <3>2, <3>3
  <2>7. \A i \in 0 .. n : c[i] = h[i]
    <3>. HIDE DEF c, n
    <3>1. \A i \in 1 .. n : c[i - 1] = h[i - 1] => c[i] = h[i]
      BY <2>6
    <3>2. GoOnAlike(n, c, h)
      BY <2>5, <3>1 DEF GoOnAlike
    <3>. QED
      BY <1>1, <3>2, SameRecursion
  <2>8. c[n] = g[n] /\ n \in 0 .. n
    BY <1>1, <1>7
  <2>. HIDE DEF c
  <2>. QED
    BY <1>5, <2>1, <2>7, <2>8
<1>. QED
  BY <1>6, <1>7

LEMMA FlattenOneMore ==
  ASSUME NEW Q, NEW seqs \in Seq(Seq(Q)), NEW s \in Seq(Q)
  PROVE  /\ FlattenSeq(seqs) \in Seq(Q)
         /\ FlattenSeq(Append(seqs, s)) = FlattenSeq(seqs) \o s
<1>. DEFINE n == Len(seqs)
            more == Append(seqs, s)
<1>1. n \in Nat /\ more \in Seq(Seq(Q)) /\ Len(more) = n + 1 /\ more[n + 1] = s
      /\ \A i \in 1 .. n : more[i] = seqs[i]
  BY AppendProperties, LenProperties
<1>2. PICK h : Flattens(Q, seqs, h) /\ FlattenSeq(seqs) = h[n]
  BY FlattenIs
<1>. HIDE DEF more
<1>3. PICK g : Flattens(Q, more, g) /\ FlattenSeq(more) = g[n + 1]
  BY <1>1, FlattenIs
<1>. HIDE DEF n
<1>4. h \in [0 .. n -> Seq(Q)] /\ h[0] = <<>> /\ \A i \in 1 .. n : h[i] = h[i - 1] \o seqs[i]
  BY <1>2 DEF Flattens, n
<1>5. g[0] = <<>> /\ \A i \in 1 .. n + 1 : g[i] = g[i - 1] \o more[i]
  BY <1>1, <1>3 DEF Flattens
<1>6. \A i \in 0 .. n : g[i] = h[i]
  <2>1. \A i \in 1 .. n : g[i - 1] = h[i - 1] => g[i] = h[i]
    <3>. SUFFICES ASSUME NEW i \in 1 .. n, g[i - 1] = h[i - 1] PROVE g[i] = h[i]
      OBVIOUS
    <3>1. i \in 1 .. n + 1
      BY <1>1
    <3>. QED
      BY <1>1, <1>4, <1>5, <3>1
  <2>2. g[0] = h[0] /\ n \in Nat
    BY <1>1, <1>4, <1>5
  <2>3. GoOnAlike(n, g, h)
    BY <2>1, <2>2 DEF GoOnAlike
  <2>. QED
    BY <2>2, <2>3, SameRecursion
<1>7. n \in 0 .. n /\ n + 1 \in 1 .. n + 1 /\ n + 1 - 1 = n
  BY <1>1
<1>8. g[n + 1] = h[n] \o s
  <2>. DEFINE l == n + 1
  <2>1. l \in 1 .. n + 1 /\ l - 1 = n /\ more[l] = s
    BY <1>1, <1>7
  <2>. HIDE DEF l
  <2>2. g[l] = g[l - 1] \o more[l]
    BY <1>5, <2>1
  <2>3. g[l] = h[n] \o s
    BY <1>6, <1>7, <2>1, <2>2
  <2>. QED
    BY <2>3 DEF l
<1>. QED
  BY <1>2, <1>3, <1>4, <1>7, <1>8 DEF more

----------------------------------------------------------------------------
(* The pieces of a file (ReviewBatches).                                   *)

\* A step of a whole number of bytes is possible (chunkSize).
LEMMA ChunkIsPositive ==
  ASSUME NEW ceiling \in Nat
  PROVE  chunkSize(ceiling) \in Nat \ {0}
<1>. DEFINE cli == Most(MinChunk, BatchBytes \div 2)
            room == (ceiling - Fixed - Slack) \div Escape
<1>1. cli \in Nat \ {0}
  <2>1. BatchBytes \div 2 \in Nat
    BY BatchConstants
  <2>. HIDE DEF cli
  <2>. QED
    BY <2>1, BatchConstants DEF Most, cli
<1>2. room \in Int
  <2>1. ceiling - Fixed - Slack \in Int
    BY BatchConstants
  <2>. QED
    BY <2>1 DEF Escape
<1>3. Most(1, room) \in Nat \ {0}
  <2>. HIDE DEF room
  <2>. QED
    BY <1>2 DEF Most
<1>4. Least(cli, Most(1, room)) \in Nat \ {0}
  <2>. HIDE DEF cli, room
  <2>. QED
    BY <1>1, <1>3 DEF Least
<1>. QED
  BY <1>1, <1>4 DEF chunkSize

\* How a text is cut at multiples of a size.
CutInto(L, size, m) ==
  /\ m \in Nat /\ m * size \in Nat /\ L <= m * size /\ Least(L, m * size) = L
  /\ \A k \in 1 .. m : /\ (k - 1) * size \in Nat /\ k * size \in Nat
                       /\ k * size = (k - 1) * size + size /\ (k - 1) * size < L
                       /\ Least(L, (k - 1) * size) = (k - 1) * size

LEMMA CutsAt ==
  ASSUME NEW L \in Nat, NEW size \in Nat \ {0}, NEW m, m = (L + size - 1) \div size
  PROVE  CutInto(L, size, m)
<1>. DEFINE x == L + size - 1
<1>1. x \in Nat /\ m = x \div size
  OBVIOUS
<1>. HIDE DEF x
<1>2. m \in Nat /\ m * size <= x /\ x < m * size + size
  BY <1>1
<1>3. L <= m * size /\ m * size \in Nat
  BY <1>2 DEF x
<1>4. ASSUME NEW k \in 1 .. m
      PROVE  /\ (k - 1) * size \in Nat /\ k * size \in Nat
             /\ k * size = (k - 1) * size + size /\ (k - 1) * size < L
  <2>1. k * size <= m * size
    BY <1>2
  <2>2. (k - 1) * size \in Nat /\ k * size \in Nat /\ k * size = (k - 1) * size + size
    BY <1>2
  <2>. QED
    BY <1>2, <2>1, <2>2 DEF x
<1>. QED
  BY <1>2, <1>3, <1>4 DEF Least, CutInto

\* A byte as it is sent.
SentAs(sent, byte) == sent = byte \/ (sent = "r" /\ byte \in {"l", "t"})

LEMMA ReplacedIs ==
  ASSUME NEW S, NEW bytes \in Seq(S)
  PROVE  /\ ValidUTF8OrReplacement(bytes) \in Seq(S \cup {"r"})
         /\ Len(ValidUTF8OrReplacement(bytes)) = Len(bytes)
         /\ \A k \in 1 .. Len(bytes) : SentAs(ValidUTF8OrReplacement(bytes)[k], bytes[k])
<1>. DEFINE v == ValidUTF8OrReplacement(bytes)
            T == S \cup {"r"}
<1>1. Len(bytes) \in Nat /\ DOMAIN bytes = 1 .. Len(bytes)
  BY LenProperties
<1>2. v = [k \in 1 .. Len(bytes) |-> IF (k = 1 /\ bytes[k] = "t") \/ (k = Len(bytes) /\ bytes[k] = "l")
                                     THEN "r" ELSE bytes[k]]
  BY <1>1 DEF ValidUTF8OrReplacement
<1>. HIDE DEF v
<1>3. \A k \in 1 .. Len(bytes) : v[k] \in T
  <2>. SUFFICES ASSUME NEW k \in 1 .. Len(bytes) PROVE v[k] \in T
    OBVIOUS
  <2>1. bytes[k] \in S
    BY ElementOfSeq
  <2>2. v[k] = "r" \/ v[k] = bytes[k]
    BY <1>2
  <2>. QED
    BY <2>1, <2>2
<1>6. v = [k \in 1 .. Len(bytes) |-> v[k]]
  BY <1>2
<1>4. v \in Seq(T) /\ Len(v) = Len(bytes)
  <2>. HIDE DEF T
  <2>. QED
    BY <1>1, <1>3, <1>6
<1>5. \A k \in 1 .. Len(bytes) : SentAs(v[k], bytes[k])
  BY <1>2 DEF SentAs
<1>. QED
  BY <1>4, <1>5 DEF v

\* The lines of a text without its last byte.
LEMMA LinesWithoutTheLast ==
  ASSUME NEW S, NEW t \in Seq(S), NEW T, NEW u \in Seq(T), Len(t) >= 1, Len(u) = Len(t) - 1,
         NEW v, v \in Seq(S), Len(v) = Len(t),
         \A k \in 1 .. Len(t) : (t[k] = "n") <=> (v[k] = "n"),
         \A k \in 1 .. Len(u) : u[k] = v[k]
  PROVE  Newlines(u) = Newlines(t) - (IF t[Len(t)] = "n" THEN 1 ELSE 0)
<1>. DEFINE n == Len(t)
            A == {k \in DOMAIN t : t[k] = "n"}
            B == {k \in DOMAIN u : u[k] = "n"}
<1>1. n \in Nat /\ n >= 1 /\ DOMAIN t = 1 .. n /\ DOMAIN u = 1 .. n - 1
  BY LenProperties
<1>2. A \subseteq 1 .. n /\ IsFiniteSet(A)
  <2>1. A \in SUBSET (1 .. n)
    BY <1>1
  <2>2. IsFiniteSet(1 .. n)
    BY <1>1, FS_Interval
  <2>. HIDE DEF A, n
  <2>. QED
    BY <2>1, <2>2, FS_Subset
<1>3. B = A \ {n}
  <2>1. \A k \in 1 .. n - 1 : u[k] = "n" <=> t[k] = "n"
    BY <1>1
  <2>. QED
    BY <1>1, <2>1
<1>4. n \in A <=> t[n] = "n"
  BY <1>1
<1>5. Cardinality(A) \in Nat /\ Cardinality(B) = IF n \in A THEN Cardinality(A) - 1 ELSE Cardinality(A)
  <2>1. Cardinality(A) \in Nat
    BY <1>2, FS_CardinalityType
  <2>2. Cardinality(A \ {n}) = IF n \in A THEN Cardinality(A) - 1 ELSE Cardinality(A)
    <3>. HIDE DEF A, n
    <3>. QED
      BY <1>2, FS_RemoveElement
  <2>. QED
    BY <1>3, <2>1, <2>2
<1>. HIDE DEF A, B, n
<1>6. Newlines(u) = Cardinality(B) /\ Newlines(t) = Cardinality(A)
  BY DEF Newlines, A, B
<1>7. t[Len(t)] = t[n]
  BY DEF n
<1>. QED
  BY <1>4, <1>5, <1>6, <1>7

\* What a piece of a file is (selectedFilePiece).
PieceIs(p, f, size, k) ==
  /\ p.path = f.path /\ p.changed = f.changed /\ LinesMatch(p)
  /\ p.content \in Seq(ToSet(p.content)) /\ Len(p.content) = Least(Len(f.text), k * size) - (k - 1) * size
  /\ \A j \in 1 .. Len(p.content) : SentAs(p.content[j], f.text[(k - 1) * size + j])

LEMMA PiecesOfAFile ==
  ASSUME NEW ceiling \in Nat, NEW f, f.text \in Seq(ToSet(f.text)), NEW size, size = chunkSize(ceiling),
         NEW m, m = (Len(f.text) + size - 1) \div size
  PROVE  /\ PiecesOf(f, ceiling) = [k \in 1 .. m |-> PiecesOf(f, ceiling)[k]]
         /\ \A k \in 1 .. m : PieceIs(PiecesOf(f, ceiling)[k], f, size, k)
<1>1. size \in Nat \ {0} /\ Len(f.text) \in Nat
  BY ChunkIsPositive, LenProperties
<1>. DEFINE S == ToSet(f.text)
            L == Len(f.text)
            all == PiecesOf(f, ceiling)
<1>2. CutInto(L, size, m)
  <2>. HIDE DEF L
  <2>. QED
    BY <1>1, CutsAt DEF L
<1>3. all = [k \in 1 .. m |-> selectedFilePiece(f, (k - 1) * size, Least(L, k * size))]
  BY DEF PiecesOf
<1>4. ASSUME NEW k \in 1 .. m PROVE PieceIs(all[k], f, size, k)
  <2>. DEFINE a == (k - 1) * size
              e == Least(L, k * size)
              cut == SubSeq(f.text, a + 1, e)
              before == SubSeq(f.text, a + 1, e - 1)
              content == ValidUTF8OrReplacement(cut)
              p == selectedFilePiece(f, a, e)
  <2>1. a \in Nat /\ e \in Nat /\ a < e /\ e <= L
    <3>. DEFINE b == k * size
    <3>1. a \in Nat /\ b = a + size /\ a < L
      BY <1>2 DEF CutInto
    <3>3. L \in Nat /\ size \in Nat /\ size > 0
      BY <1>1
    <3>. HIDE DEF a, b, L
    <3>4. b \in Nat /\ a < b
      BY <3>1, <3>3
    <3>2. Least(L, b) \in Nat /\ a < Least(L, b) /\ Least(L, b) <= L
      BY <3>1, <3>3, <3>4 DEF Least
    <3>. QED
      BY <3>1, <3>2 DEF b
  <2>. HIDE DEF a, e
  <2>2. /\ cut \in Seq(S) /\ Len(cut) = e - a /\ before \in Seq(S) /\ Len(before) = e - 1 - a
        /\ (\A j \in 1 .. e - a : cut[j] = f.text[a + j])
        /\ \A j \in 1 .. e - 1 - a : before[j] = f.text[a + j]
    <3>1. \A j \in a + 1 .. e : f.text[j] \in S
      BY <2>1
    <3>. HIDE DEF S
    <3>. QED
      BY <1>1, <2>1, <3>1, SubSeqProperties
  <2>. HIDE DEF cut, before
  <2>3. /\ content \in Seq(S \cup {"r"}) /\ Len(content) = e - a
        /\ \A j \in 1 .. e - a : SentAs(content[j], cut[j])
    BY <2>2, ReplacedIs
  <2>. HIDE DEF content
  <2>4. content \in Seq(ToSet(content))
    BY <2>3, OwnElements
  <2>5. Newlines(before) = Newlines(content) - (IF content[Len(content)] = "n" THEN 1 ELSE 0)
    <3>1. \A j \in 1 .. Len(content) : (content[j] = "n") <=> (cut[j] = "n")
      BY <2>3 DEF SentAs
    <3>2. \A j \in 1 .. Len(before) : before[j] = cut[j]
      BY <2>1, <2>2
    <3>3. cut \in Seq(S \cup {"r"})
      <4>1. \A j \in 1 .. e - a : cut[j] \in S \cup {"r"}
        BY <2>2
      <4>. HIDE DEF S
      <4>. QED
        BY <2>1, <2>2, <4>1
    <3>4. Len(content) >= 1 /\ Len(before) = Len(content) - 1 /\ Len(cut) = Len(content)
      BY <2>1, <2>2, <2>3
    <3>. DEFINE T == S \cup {"r"}
    <3>5. content \in Seq(T) /\ cut \in Seq(T) /\ before \in Seq(S)
      BY <2>2, <2>3, <3>3
    <3>. HIDE DEF T, S
    <3>. QED
      BY <3>1, <3>2, <3>4, <3>5, LinesWithoutTheLast
  <2>6. /\ p.path = f.path /\ p.changed = f.changed /\ p.content = content
        /\ p.lineStart = 1 + Newlines(SubSeq(f.text, 1, a))
        /\ p.lineEnd = p.lineStart + Newlines(before)
    BY DEF selectedFilePiece, content, cut, before
  <2>. HIDE DEF p
  <2>7. LinesMatch(p)
    <3>1. Newlines(content) \in Int /\ Newlines(SubSeq(f.text, 1, a)) \in Int
      <4>1. SubSeq(f.text, 1, a) \in Seq(S)
        <5>1. \A i \in 1 .. a : f.text[i] \in S
          BY <1>1, <2>1
        <5>. HIDE DEF S
        <5>. QED
          BY <2>1, <5>1, SubSeqProperties
      <4>2. \A t : t \in Seq(S \cup {"r"}) => Newlines(t) \in Int
        <5>. SUFFICES ASSUME NEW t \in Seq(S \cup {"r"}) PROVE Newlines(t) \in Int
          OBVIOUS
        <5>1. {i \in DOMAIN t : t[i] = "n"} \subseteq 1 .. Len(t) /\ Len(t) \in Nat
          BY LenProperties
        <5>2. IsFiniteSet({i \in DOMAIN t : t[i] = "n"})
          BY <5>1, FS_Interval, FS_Subset
        <5>. QED
          BY <5>2, FS_CardinalityType DEF Newlines
      <4>3. SubSeq(f.text, 1, a) \in Seq(S \cup {"r"})
        BY <4>1
      <4>. QED
        BY <2>3, <4>2, <4>3
    <3>. QED
      BY <2>5, <2>6, <3>1 DEF LinesMatch
  <2>8. all[k] = p
    BY <1>3 DEF p, a, e
  <2>9. \A j \in 1 .. Len(p.content) : SentAs(p.content[j], f.text[a + j])
    BY <2>2, <2>3, <2>6
  <2>. HIDE DEF all
  <2>10. Len(p.content) = Least(Len(f.text), k * size) - (k - 1) * size
    BY <2>3, <2>6 DEF a, e
  <2>. QED
    BY <2>4, <2>6, <2>7, <2>8, <2>9, <2>10 DEF PieceIs, a
<1>. QED
  BY <1>3, <1>4

----------------------------------------------------------------------------
(* The pieces of a selection.                                              *)

\* Where the pieces of a file are among others.
PieceCount(f, ceiling) == (Len(f.text) + chunkSize(ceiling) - 1) \div chunkSize(ceiling)

From(s, f, ceiling, a) ==
  /\ a \in Nat /\ a + PieceCount(f, ceiling) <= Len(s)
  /\ \A k \in 1 .. Len(s) :
       IF k \in a + 1 .. a + PieceCount(f, ceiling)
       THEN s[k] = PiecesOf(f, ceiling)[k - a] ELSE s[k].path # f.path

Located(s, f, ceiling) == \E a : From(s, f, ceiling, a)

Absent(s, path) == \A k \in 1 .. Len(s) : s[k].path # path

LEMMA CountIs ==
  ASSUME NEW ceiling \in Nat, NEW f, f.text \in Seq(ToSet(f.text))
  PROVE  PieceCount(f, ceiling) \in Nat
<1>1. chunkSize(ceiling) \in Nat \ {0} /\ Len(f.text) \in Nat
  BY ChunkIsPositive, LenProperties
<1>. DEFINE L == Len(f.text)
            size == chunkSize(ceiling)
            m == (L + size - 1) \div size
<1>2. CutInto(L, size, m)
  <2>. HIDE DEF L, size
  <2>. QED
    BY <1>1, CutsAt DEF L, size
<1>. QED
  BY <1>2 DEF CutInto, PieceCount

LEMMA LocatedThenOthers ==
  ASSUME NEW Q, NEW s \in Seq(Q), NEW t \in Seq(Q), NEW f, NEW ceiling \in Nat,
         PieceCount(f, ceiling) \in Nat, Located(s, f, ceiling), Absent(t, f.path)
  PROVE  Located(s \o t, f, ceiling)
<1>. DEFINE u == s \o t
            m == PieceCount(f, ceiling)
<1>1. PICK a : From(s, f, ceiling, a)
  BY DEF Located
<1>2. Len(s) \in Nat /\ Len(t) \in Nat /\ Len(u) = Len(s) + Len(t)
      /\ (\A i \in 1 .. Len(s) : u[i] = s[i]) /\ \A i \in 1 .. Len(t) : u[Len(s) + i] = t[i]
  OBVIOUS
<1>. HIDE DEF u
<1>3. a \in Nat /\ a + m <= Len(s) /\ m \in Nat
  BY <1>1 DEF From
<1>4. \A k \in 1 .. Len(s) : IF k \in a + 1 .. a + m THEN s[k] = PiecesOf(f, ceiling)[k - a]
                             ELSE s[k].path # f.path
  BY <1>1 DEF From
<1>. HIDE DEF m
<1>5. ASSUME NEW k \in 1 .. Len(u)
      PROVE  IF k \in a + 1 .. a + m THEN u[k] = PiecesOf(f, ceiling)[k - a] ELSE u[k].path # f.path
  <2>1. CASE k <= Len(s)
    <3>1. k \in 1 .. Len(s)
      BY <1>2, <2>1
    <3>2. u[k] = s[k]
      BY <1>2, <3>1
    <3>. QED
      BY <1>4, <3>1, <3>2, Zenon
  <2>2. CASE k > Len(s)
    <3>. DEFINE j == k - Len(s)
    <3>1. j \in 1 .. Len(t) /\ k = Len(s) + j /\ k \notin a + 1 .. a + m
      BY <1>2, <1>3, <2>2
    <3>. HIDE DEF j
    <3>2. u[k] = t[j]
      BY <1>2, <3>1
    <3>3. u[k].path # f.path
      BY <3>1, <3>2 DEF Absent
    <3>. QED
      BY <3>1, <3>3
  <2>. QED
    BY <1>2, <2>1, <2>2
<1>6. a + m <= Len(u)
  BY <1>2, <1>3
<1>7. From(u, f, ceiling, a)
  BY <1>3, <1>5, <1>6, Zenon DEF From, m
<1>. QED
  BY <1>7 DEF Located, u

LEMMA OthersThenLocated ==
  ASSUME NEW Q, NEW s \in Seq(Q), NEW t \in Seq(Q), NEW f, NEW ceiling \in Nat,
         PieceCount(f, ceiling) \in Nat, Absent(s, f.path), Located(t, f, ceiling)
  PROVE  Located(s \o t, f, ceiling)
<1>. DEFINE u == s \o t
            m == PieceCount(f, ceiling)
<1>1. PICK a : From(t, f, ceiling, a)
  BY DEF Located
<1>2. Len(s) \in Nat /\ Len(t) \in Nat /\ Len(u) = Len(s) + Len(t)
      /\ (\A i \in 1 .. Len(s) : u[i] = s[i]) /\ \A i \in 1 .. Len(t) : u[Len(s) + i] = t[i]
  OBVIOUS
<1>. DEFINE b == Len(s) + a
<1>. HIDE DEF u
<1>3. a \in Nat /\ a + m <= Len(t) /\ m \in Nat
  BY <1>1 DEF From
<1>4. \A k \in 1 .. Len(t) : IF k \in a + 1 .. a + m THEN t[k] = PiecesOf(f, ceiling)[k - a]
                             ELSE t[k].path # f.path
  BY <1>1 DEF From
<1>. HIDE DEF m
<1>5. ASSUME NEW k \in 1 .. Len(u)
      PROVE  IF k \in b + 1 .. b + m THEN u[k] = PiecesOf(f, ceiling)[k - b] ELSE u[k].path # f.path
  <2>1. CASE k <= Len(s)
    <3>1. k \in 1 .. Len(s) /\ k \notin b + 1 .. b + m
      BY <1>2, <1>3, <2>1
    <3>2. u[k].path # f.path
      BY <1>2, <3>1 DEF Absent
    <3>. QED
      BY <3>1, <3>2
  <2>2. CASE k > Len(s)
    <3>. DEFINE j == k - Len(s)
    <3>1. j \in 1 .. Len(t) /\ k = Len(s) + j /\ (k \in b + 1 .. b + m <=> j \in a + 1 .. a + m)
          /\ k - b = j - a
      BY <1>2, <1>3, <2>2
    <3>. HIDE DEF j, b
    <3>2. u[k] = t[j]
      BY <1>2, <3>1
    <3>. QED
      BY <1>4, <3>1, <3>2, Zenon
  <2>. QED
    BY <1>2, <2>1, <2>2
<1>6. b + m <= Len(u) /\ b \in Nat
  BY <1>2, <1>3
<1>. HIDE DEF b
<1>7. From(u, f, ceiling, b)
  BY <1>5, <1>6, Zenon DEF From, m
<1>. QED
  BY <1>7 DEF Located, u

LEMMA AbsentInBoth ==
  ASSUME NEW Q, NEW s \in Seq(Q), NEW t \in Seq(Q), NEW path, Absent(s, path), Absent(t, path)
  PROVE  Absent(s \o t, path)
<1>. DEFINE u == s \o t
<1>2. Len(s) \in Nat /\ Len(t) \in Nat /\ Len(u) = Len(s) + Len(t)
      /\ (\A i \in 1 .. Len(s) : u[i] = s[i]) /\ \A i \in 1 .. Len(t) : u[Len(s) + i] = t[i]
  OBVIOUS
<1>. HIDE DEF u
<1>5. ASSUME NEW k \in 1 .. Len(u) PROVE u[k].path # path
  <2>1. CASE k <= Len(s)
    <3>1. k \in 1 .. Len(s)
      BY <1>2, <2>1
    <3>. QED
      BY <1>2, <3>1 DEF Absent
  <2>2. CASE k > Len(s)
    <3>. DEFINE j == k - Len(s)
    <3>1. j \in 1 .. Len(t) /\ k = Len(s) + j
      BY <1>2, <2>2
    <3>. HIDE DEF j
    <3>. QED
      BY <1>2, <3>1 DEF Absent
  <2>. QED
    BY <1>2, <2>1, <2>2
<1>. QED
  BY <1>5 DEF Absent, u

\* What every piece of a review is, and those of one of its files.
IsPiece(p) == p.content \in Seq(ToSet(p.content)) /\ LinesMatch(p) /\ p.changed \in BOOLEAN

LEMMA OwnPieces ==
  ASSUME NEW ceiling \in Nat, NEW f, f.text \in Seq(ToSet(f.text)), f.changed \in BOOLEAN
  PROVE  /\ PiecesOf(f, ceiling) \in Seq({p \in ToSet(PiecesOf(f, ceiling)) : p.changed = f.changed /\ IsPiece(p)})
         /\ Len(PiecesOf(f, ceiling)) = PieceCount(f, ceiling)
         /\ \A k \in 1 .. PieceCount(f, ceiling) :
              PieceIs(PiecesOf(f, ceiling)[k], f, chunkSize(ceiling), k)
         /\ Located(PiecesOf(f, ceiling), f, ceiling)
         /\ \A path : path # f.path => Absent(PiecesOf(f, ceiling), path)
<1>. DEFINE m == PieceCount(f, ceiling)
            all == PiecesOf(f, ceiling)
            P == {p \in ToSet(all) : p.changed = f.changed /\ IsPiece(p)}
<1>1. m \in Nat
  BY CountIs
<1>2. all = [k \in 1 .. m |-> all[k]] /\ \A k \in 1 .. m : PieceIs(all[k], f, chunkSize(ceiling), k)
  <2>. DEFINE size == chunkSize(ceiling)
  <2>1. size = chunkSize(ceiling) /\ m = (Len(f.text) + size - 1) \div size
    BY DEF PieceCount
  <2>. HIDE DEF size, m
  <2>. QED
    BY <2>1, PiecesOfAFile
<1>. HIDE DEF m, all
<1>3. \A k \in 1 .. m : all[k] \in P
  <2>1. \A k \in 1 .. m : all[k] \in ToSet(all)
    BY <1>2 DEF ToSet
  <2>. QED
    BY <1>2, <2>1 DEF PieceIs, IsPiece
<1>4. all \in Seq(P) /\ Len(all) = m
  <2>. HIDE DEF P
  <2>. QED
    BY <1>1, <1>2, <1>3
<1>5. From(all, f, ceiling, 0)
  <2>1. \A k \in 1 .. m : k \in 0 + 1 .. 0 + m /\ k - 0 = k
    BY <1>1
  <2>2. \A k \in 1 .. Len(all) : k \in 0 + 1 .. 0 + m /\ all[k] = all[k - 0]
    BY <1>4, <2>1
  <2>3. 0 \in Nat /\ 0 + m <= Len(all)
    BY <1>1, <1>4
  <2>. QED
    BY <2>2, <2>3, Zenon DEF From, m, all
<1>6. \A path : path # f.path => Absent(all, path)
  BY <1>2, <1>4 DEF Absent, PieceIs
<1>. QED
  BY <1>2, <1>4, <1>5, <1>6 DEF Located, m, all

NoPieces == [delta |-> <<>>, rest |-> <<>>]

\* CutUp is a fold whose values stay in V, for any V its step stays in.
CutUpAs(files, ceiling, V, h) ==
  /\ FoldsTo(Len(files), V, NoPieces,
             [x \in V \X (1 .. Len(files)) |-> AddFile(ceiling, x[1], files[x[2]])], h)
  /\ CutUp(files, ceiling) = h[1 .. Len(files)]

LEMMA CutUpFolds ==
  ASSUME NEW files, NEW ceiling \in Nat, IsSelection(files), NEW V, NoPieces \in V,
         \A acc \in V : \A i \in 1 .. Len(files) : AddFile(ceiling, acc, files[i]) \in V
  PROVE  \E h : CutUpAs(files, ceiling, V, h)
<1>. DEFINE n == Len(files)
            base == NoPieces
            step == [x \in V \X (1 .. n) |-> AddFile(ceiling, x[1], files[x[2]])]
            Iter(g) == g = [s \in SUBSET (DOMAIN files) |->
                              IF s = {} THEN base
                              ELSE AddFile(ceiling, g[s \ {Max(s)}], files[Max(s)])]
            g == CHOOSE f : Iter(f)
<1>1. n \in Nat /\ DOMAIN files = 1 .. n
  BY LenProperties DEF IsSelection
<1>2. step \in [V \X (1 .. n) -> V]
  OBVIOUS
<1>3. base \in V
  OBVIOUS
<1>4. PICK h : FoldsTo(n, V, base, step, h)
  <2>. HIDE DEF step, n, base
  <2>. QED
    BY <1>1, <1>2, <1>3, FoldExists
<1>5. Iter(h)
  <2>1. ASSUME NEW s \in SUBSET (1 .. n)
        PROVE  h[s] = IF s = {} THEN base ELSE AddFile(ceiling, h[s \ {Max(s)}], files[Max(s)])
    <3>1. CASE s = {}
      BY <1>4, <3>1 DEF FoldsTo
    <3>2. CASE s # {}
      <4>1. Max(s) \in 1 .. n
        BY <1>1, <3>2, MaxExists
      <4>2. h[s \ {Max(s)}] \in V
        BY <1>4 DEF FoldsTo
      <4>. HIDE DEF n, base
      <4>. QED
        BY <1>4, <3>2, <4>1, <4>2 DEF FoldsTo
    <3>. QED
      BY <3>1, <3>2
  <2>. HIDE DEF base, n
  <2>. QED
    BY <1>1, <1>4, <2>1 DEF FoldsTo
<1>6. Iter(g)
  <2>. HIDE DEF Iter
  <2>. QED
    BY <1>5, Zenon
<1>7. CutUp(files, ceiling) = g[DOMAIN files]
  BY Zenon DEF CutUp, FoldLeft, MapThenFoldSet, NoPieces
<1>8. g[1 .. n] = h[1 .. n]
  <2>. HIDE DEF g, n, base
  <2>1. g[{}] = h[{}]
    BY <1>5, <1>6
  <2>2. ASSUME NEW s \in SUBSET (1 .. n), s # {}, g[s \ {Max(s)}] = h[s \ {Max(s)}]
        PROVE  g[s] = h[s]
    BY <1>1, <1>5, <1>6, <2>2
  <2>. QED
    BY <1>1, <2>1, <2>2, SameFold
<1>. HIDE DEF g
<1>. QED
  BY <1>1, <1>4, <1>7, <1>8 DEF CutUpAs

\* Where the pieces of a file are when the first k have been cut up.
Placed(acc, f, ceiling) ==
  IF f.changed THEN Located(acc.delta, f, ceiling) /\ Absent(acc.rest, f.path)
  ELSE Located(acc.rest, f, ceiling) /\ Absent(acc.delta, f.path)

\* The pieces of the files, what changed and the rest apart.
PiecesWhere(files, ceiling, changed) ==
  {p \in UNION {ToSet(PiecesOf(files[i], ceiling)) : i \in 1 .. Len(files)} :
     p.changed = changed /\ IsPiece(p)}

TwoLists(files, ceiling) ==
  [delta : Seq(PiecesWhere(files, ceiling, TRUE)), rest : Seq(PiecesWhere(files, ceiling, FALSE))]

CutSoFar(files, ceiling, k, acc) ==
  \A i \in 1 .. Len(files) :
     /\ i <= k => Placed(acc, files[i], ceiling)
     /\ i > k => Absent(acc.delta, files[i].path) /\ Absent(acc.rest, files[i].path)

\* A file is added to one list, the other stays.
LEMMA FileAdded ==
  ASSUME NEW files, NEW ceiling \in Nat, IsSelection(files), NEW acc \in TwoLists(files, ceiling),
         NEW k \in 1 .. Len(files)
  PROVE  /\ AddFile(ceiling, acc, files[k]) \in TwoLists(files, ceiling)
         /\ CutSoFar(files, ceiling, k - 1, acc) => CutSoFar(files, ceiling, k, AddFile(ceiling, acc, files[k]))
<1>. DEFINE n == Len(files)
            f == files[k]
            own == PiecesOf(f, ceiling)
            new == AddFile(ceiling, acc, f)
            D == PiecesWhere(files, ceiling, TRUE)
            R == PiecesWhere(files, ceiling, FALSE)
            Q == D \cup R
<1>1. n \in Nat /\ DOMAIN files = 1 .. n /\ (\A i \in 1 .. n : files[i] \in ToSet(files)) /\ k \in 1 .. n
  BY LenProperties DEF ToSet, IsSelection
<1>2. \A i \in 1 .. n : files[i].text \in Seq(ToSet(files[i].text)) /\ files[i].changed \in BOOLEAN
  BY <1>1 DEF IsSelection
<1>3. \A i \in 1 .. n : i # k => files[i].path # f.path
  BY <1>1 DEF IsSelection
<1>4. /\ own \in Seq({p \in ToSet(own) : p.changed = f.changed /\ IsPiece(p)})
      /\ Located(own, f, ceiling) /\ \A path : path # f.path => Absent(own, path)
  BY <1>1, <1>2, OwnPieces
<1>5. acc.delta \in Seq(D) /\ acc.rest \in Seq(R) /\ acc = [delta |-> acc.delta, rest |-> acc.rest]
  <2>. HIDE DEF D, R
  <2>. QED
    BY DEF TwoLists, D, R
<1>6. {p \in ToSet(own) : p.changed = f.changed /\ IsPiece(p)} \subseteq PiecesWhere(files, ceiling, f.changed)
  BY <1>1 DEF PiecesWhere
<1>7. own \in Seq(PiecesWhere(files, ceiling, f.changed))
  <2>. DEFINE A == {p \in ToSet(own) : p.changed = f.changed /\ IsPiece(p)}
              B == PiecesWhere(files, ceiling, f.changed)
  <2>1. own \in Seq(A) /\ A \subseteq B
    BY <1>4, <1>6
  <2>. HIDE DEF A, B, own
  <2>2. own \in Seq(B)
    BY <2>1
  <2>. QED
    BY <2>2 DEF B
<1>8. \A i \in 1 .. n : PieceCount(files[i], ceiling) \in Nat
  BY <1>2, CountIs
<1>9. f.changed \in BOOLEAN
  BY <1>1, <1>2
<1>10. D \subseteq Q /\ R \subseteq Q
  OBVIOUS
<1>. HIDE DEF own, new, D, R, Q, n
<1>11. acc.delta \in Seq(Q) /\ acc.rest \in Seq(Q)
  BY <1>5, <1>10
<1>12. CASE f.changed = TRUE
  <2>1. own \in Seq(D)
    BY <1>7, <1>12 DEF D
  <2>2. new = [delta |-> acc.delta \o own, rest |-> acc.rest]
    <3>1. new = [acc EXCEPT !.delta = acc.delta \o own]
      BY <1>12, Zenon DEF new, own, AddFile
    <3>. QED
      BY <1>5, <3>1
  <2>3. new \in [delta : Seq(D), rest : Seq(R)]
    BY <1>5, <2>1, <2>2, ConcatProperties
  <2>4. new.delta = acc.delta \o own /\ new.rest = acc.rest
    BY <2>2
  <2>5. own \in Seq(Q)
    BY <1>10, <2>1
  <2>6. ASSUME CutSoFar(files, ceiling, k - 1, acc), NEW i \in 1 .. n
        PROVE  /\ i <= k => Placed(new, files[i], ceiling)
               /\ i > k => Absent(new.delta, files[i].path) /\ Absent(new.rest, files[i].path)
    <3>0. i \in Int /\ k \in Int
      BY <1>1
    <3>1. /\ i <= k - 1 => Placed(acc, files[i], ceiling)
          /\ i > k - 1 => Absent(acc.delta, files[i].path) /\ Absent(acc.rest, files[i].path)
      BY <2>6, Zenon DEF CutSoFar, n
    <3>2. CASE i = k
      <4>1. Absent(acc.delta, f.path) /\ Absent(acc.rest, f.path)
        BY <3>0, <3>1, <3>2
      <4>2. Located(acc.delta \o own, f, ceiling)
        BY <1>1, <1>4, <1>8, <1>11, <2>5, <4>1, OthersThenLocated
      <4>. QED
        BY <1>12, <2>4, <3>2, <4>1, <4>2, <3>0 DEF Placed
    <3>3. CASE i # k
      <4>1. Absent(own, files[i].path)
        BY <1>3, <1>4, <3>3
      <4>2. CASE i <= k - 1
        <5>1. Placed(acc, files[i], ceiling)
          BY <3>1, <4>2
        <5>2. CASE files[i].changed
          <6>1. Located(acc.delta, files[i], ceiling) /\ Absent(acc.rest, files[i].path)
            BY <5>1, <5>2 DEF Placed
          <6>2. Located(acc.delta \o own, files[i], ceiling)
            BY <1>8, <1>11, <2>5, <4>1, <6>1, LocatedThenOthers
          <6>. QED
            BY <2>4, <3>0, <4>2, <5>2, <6>1, <6>2 DEF Placed
        <5>3. CASE ~files[i].changed
          <6>1. Located(acc.rest, files[i], ceiling) /\ Absent(acc.delta, files[i].path)
            BY <5>1, <5>3 DEF Placed
          <6>2. Absent(acc.delta \o own, files[i].path)
            BY <1>11, <2>5, <4>1, <6>1, AbsentInBoth
          <6>. QED
            BY <2>4, <3>0, <4>2, <5>3, <6>1, <6>2 DEF Placed
        <5>. QED
          BY <5>2, <5>3
      <4>3. CASE i > k
        <5>1. Absent(acc.delta, files[i].path) /\ Absent(acc.rest, files[i].path)
          BY <3>0, <3>1, <4>3
        <5>2. Absent(acc.delta \o own, files[i].path)
          BY <1>11, <2>5, <4>1, <5>1, AbsentInBoth
        <5>. QED
          BY <2>4, <3>0, <4>3, <5>1, <5>2
      <4>. QED
        BY <3>0, <3>3, <4>2, <4>3
    <3>. QED
      BY <3>2, <3>3
  <2>. QED
    BY <2>3, <2>6, Zenon DEF CutSoFar, TwoLists, D, R, n, new
<1>13. CASE f.changed = FALSE
  <2>1. own \in Seq(R)
    BY <1>7, <1>13 DEF R
  <2>2. new = [delta |-> acc.delta, rest |-> acc.rest \o own]
    <3>1. new = [acc EXCEPT !.rest = acc.rest \o own]
      BY <1>13, Zenon DEF new, own, AddFile
    <3>. QED
      BY <1>5, <3>1
  <2>3. new \in [delta : Seq(D), rest : Seq(R)]
    BY <1>5, <2>1, <2>2, ConcatProperties
  <2>4. new.rest = acc.rest \o own /\ new.delta = acc.delta
    BY <2>2
  <2>5. own \in Seq(Q)
    BY <1>10, <2>1
  <2>6. ASSUME CutSoFar(files, ceiling, k - 1, acc), NEW i \in 1 .. n
        PROVE  /\ i <= k => Placed(new, files[i], ceiling)
               /\ i > k => Absent(new.delta, files[i].path) /\ Absent(new.rest, files[i].path)
    <3>0. i \in Int /\ k \in Int
      BY <1>1
    <3>1. /\ i <= k - 1 => Placed(acc, files[i], ceiling)
          /\ i > k - 1 => Absent(acc.delta, files[i].path) /\ Absent(acc.rest, files[i].path)
      BY <2>6, Zenon DEF CutSoFar, n
    <3>2. CASE i = k
      <4>1. Absent(acc.delta, f.path) /\ Absent(acc.rest, f.path)
        BY <3>0, <3>1, <3>2
      <4>2. Located(acc.rest \o own, f, ceiling)
        BY <1>1, <1>4, <1>8, <1>11, <2>5, <4>1, OthersThenLocated
      <4>. QED
        BY <1>13, <2>4, <3>2, <4>1, <4>2, <3>0 DEF Placed
    <3>3. CASE i # k
      <4>1. Absent(own, files[i].path)
        BY <1>3, <1>4, <3>3
      <4>2. CASE i <= k - 1
        <5>1. Placed(acc, files[i], ceiling)
          BY <3>1, <4>2
        <5>2. CASE ~files[i].changed
          <6>1. Located(acc.rest, files[i], ceiling) /\ Absent(acc.delta, files[i].path)
            BY <5>1, <5>2 DEF Placed
          <6>2. Located(acc.rest \o own, files[i], ceiling)
            BY <1>8, <1>11, <2>5, <4>1, <6>1, LocatedThenOthers
          <6>. QED
            BY <2>4, <3>0, <4>2, <5>2, <6>1, <6>2 DEF Placed
        <5>3. CASE files[i].changed
          <6>1. Located(acc.delta, files[i], ceiling) /\ Absent(acc.rest, files[i].path)
            BY <5>1, <5>3 DEF Placed
          <6>2. Absent(acc.rest \o own, files[i].path)
            BY <1>11, <2>5, <4>1, <6>1, AbsentInBoth
          <6>. QED
            BY <2>4, <3>0, <4>2, <5>3, <6>1, <6>2 DEF Placed
        <5>. QED
          BY <5>2, <5>3
      <4>3. CASE i > k
        <5>1. Absent(acc.delta, files[i].path) /\ Absent(acc.rest, files[i].path)
          BY <3>0, <3>1, <4>3
        <5>2. Absent(acc.rest \o own, files[i].path)
          BY <1>11, <2>5, <4>1, <5>1, AbsentInBoth
        <5>. QED
          BY <2>4, <3>0, <4>3, <5>1, <5>2
      <4>. QED
        BY <3>0, <3>3, <4>2, <4>3
    <3>. QED
      BY <3>2, <3>3
  <2>. QED
    BY <2>3, <2>6, Zenon DEF CutSoFar, TwoLists, D, R, n, new
<1>. QED
  BY <1>9, <1>12, <1>13

LEMMA CutUpIs ==
  ASSUME NEW files, NEW ceiling \in Nat, IsSelection(files)
  PROVE  /\ CutUp(files, ceiling) \in TwoLists(files, ceiling)
         /\ CutSoFar(files, ceiling, Len(files), CutUp(files, ceiling))
<1>. DEFINE n == Len(files)
            V == TwoLists(files, ceiling)
            step == [x \in V \X (1 .. n) |-> AddFile(ceiling, x[1], files[x[2]])]
            W == [k \in 0 .. n |-> {acc \in V : CutSoFar(files, ceiling, k, acc)}]
<1>1. n \in Nat
  BY LenProperties DEF IsSelection
<1>2. NoPieces \in V /\ CutSoFar(files, ceiling, 0, NoPieces)
  <2>1. NoPieces.delta = <<>> /\ NoPieces.rest = <<>> /\ NoPieces \in V
    <3>. DEFINE D == Seq(PiecesWhere(files, ceiling, TRUE))
                R == Seq(PiecesWhere(files, ceiling, FALSE))
    <3>1. <<>> \in D /\ <<>> \in R
      BY EmptySeq
    <3>2. V = [delta : D, rest : R]
      BY DEF TwoLists
    <3>. HIDE DEF D, R, V
    <3>. QED
      BY <3>1, <3>2 DEF NoPieces
  <2>2. \A path : Absent(<<>>, path)
    BY EmptySeq DEF Absent
  <2>3. \A i \in 1 .. n : ~(i <= 0)
    OBVIOUS
  <2>. QED
    BY <2>1, <2>2, <2>3, Zenon DEF CutSoFar
<1>3. \A acc \in V : \A i \in 1 .. n : AddFile(ceiling, acc, files[i]) \in V
  BY FileAdded
<1>. HIDE DEF V
<1>4. PICK h : CutUpAs(files, ceiling, V, h)
  BY <1>2, <1>3, CutUpFolds
<1>5. FoldsTo(n, V, NoPieces, step, h) /\ CutUp(files, ceiling) = h[1 .. n]
  BY <1>4, Zenon DEF CutUpAs
<1>6. NoPieces \in W[0]
  BY <1>1, <1>2
<1>7. \A k \in 1 .. n : \A acc \in V : acc \in W[k - 1] => step[<<acc, k>>] \in W[k]
  <2>. SUFFICES ASSUME NEW k \in 1 .. n, NEW acc \in V, acc \in W[k - 1]
                PROVE  step[<<acc, k>>] \in W[k]
    OBVIOUS
  <2>1. k - 1 \in 0 .. n /\ k \in 0 .. n
    BY <1>1
  <2>2. CutSoFar(files, ceiling, k - 1, acc)
    BY <2>1
  <2>3. step[<<acc, k>>] = AddFile(ceiling, acc, files[k])
    OBVIOUS
  <2>4. AddFile(ceiling, acc, files[k]) \in V /\ CutSoFar(files, ceiling, k, AddFile(ceiling, acc, files[k]))
    BY <2>2, FileAdded DEF V
  <2>. HIDE DEF step
  <2>. QED
    BY <2>1, <2>3, <2>4
<1>. HIDE DEF W, step, n
<1>8. h[1 .. n] \in V /\ h[1 .. n] \in W[n]
  BY <1>1, <1>5, <1>6, <1>7, FoldKeeps
<1>9. CutSoFar(files, ceiling, n, h[1 .. n])
  <2>1. n \in 0 .. n
    BY <1>1
  <2>. QED
    BY <1>8, <2>1 DEF W
<1>. QED
  BY <1>5, <1>8, <1>9 DEF V, n

\* What the pieces of a review are (Pieces).
AllPieces(files, ceiling) ==
  PiecesWhere(files, ceiling, TRUE) \cup PiecesWhere(files, ceiling, FALSE) \cup {NoText[1]}

LEMMA NoTextIsAPiece == NoText \in Seq({NoText[1]}) /\ NoText # <<>> /\ Len(NoText) = 1 /\ IsPiece(NoText[1])
                        /\ NoText[1].path = "<none>" /\ NoText[1].changed = FALSE
<1>1. NoText = <<NoText[1]>> /\ Len(NoText) = 1
  BY DEF NoText
<1>2. NoText \in Seq({NoText[1]}) /\ NoText # <<>>
  <2>. DEFINE x == NoText[1]
  <2>1. <<x>> \in Seq({x}) /\ <<x>> # <<>>
    BY OneIsASeq
  <2>. HIDE DEF x
  <2>. QED
    BY <1>1, <2>1 DEF x
<1>3. NoText[1].content = <<"c">> /\ NoText[1].changed = FALSE /\ NoText[1].path = "<none>"
      /\ NoText[1].lineStart = 1 /\ NoText[1].lineEnd = 1
  BY DEF NoText
<1>4. <<"c">> \in Seq(ToSet(<<"c">>))
  <2>1. <<"c">> \in Seq({"c"})
    OBVIOUS
  <2>. QED
    BY <2>1, OwnElements
<1>5. Newlines(<<"c">>) = 0
  <2>1. {k \in DOMAIN <<"c">> : <<"c">>[k] = "n"} = {}
    OBVIOUS
  <2>. QED
    BY <2>1, FS_EmptySet DEF Newlines
<1>6. LinesMatch(NoText[1])
  <2>1. <<"c">>[Len(<<"c">>)] = "c"
    OBVIOUS
  <2>. QED
    BY <1>3, <1>5, <2>1 DEF LinesMatch
<1>. QED
  BY <1>1, <1>2, <1>3, <1>4, <1>6 DEF IsPiece

LEMMA PiecesAre ==
  ASSUME NEW files, NEW ceiling \in Nat, IsSelection(files)
  PROVE  /\ Pieces(files, ceiling) \in Seq(AllPieces(files, ceiling)) /\ Pieces(files, ceiling) # <<>>
         /\ \A i \in 1 .. Len(files) : Located(Pieces(files, ceiling), files[i], ceiling)
         /\ \A i, j \in 1 .. Len(Pieces(files, ceiling)) :
              i < j /\ Pieces(files, ceiling)[j].changed => Pieces(files, ceiling)[i].changed
<1>. DEFINE n == Len(files)
            cut == CutUp(files, ceiling)
            D == PiecesWhere(files, ceiling, TRUE)
            R == PiecesWhere(files, ceiling, FALSE)
            Q == AllPieces(files, ceiling)
            all == cut.delta \o cut.rest
<1>1. n \in Nat /\ DOMAIN files = 1 .. n /\ \A i \in 1 .. n : files[i] \in ToSet(files)
  BY LenProperties DEF ToSet, IsSelection
<1>2. \A i \in 1 .. n : /\ files[i].text \in Seq(ToSet(files[i].text)) /\ files[i].changed \in BOOLEAN
                        /\ files[i].path = "<none>" => files[i].text # <<>>
  BY <1>1 DEF IsSelection
<1>3. \A i \in 1 .. n : PieceCount(files[i], ceiling) \in Nat
  BY <1>2, CountIs
<1>4. cut.delta \in Seq(D) /\ cut.rest \in Seq(R)
  <2>1. cut \in TwoLists(files, ceiling)
    BY CutUpIs
  <2>. HIDE DEF cut, D, R
  <2>. QED
    BY <2>1 DEF TwoLists, D, R
<1>5. \A i \in 1 .. n : Placed(cut, files[i], ceiling)
  <2>1. CutSoFar(files, ceiling, n, cut)
    BY CutUpIs
  <2>2. \A i \in 1 .. n : i <= n
    BY <1>1
  <2>. HIDE DEF cut
  <2>. QED
    BY <2>1, <2>2 DEF CutSoFar
<1>6. D \subseteq Q /\ R \subseteq Q
  BY DEF AllPieces
<1>7. (\A p \in D : p.changed = TRUE) /\ \A p \in R : p.changed = FALSE
  BY DEF PiecesWhere
<1>8. NoText[1] \in Q
  BY DEF AllPieces
<1>. HIDE DEF cut, D, R, Q
<1>9. cut.delta \in Seq(Q) /\ cut.rest \in Seq(Q)
  BY <1>4, <1>6
<1>10. all \in Seq(Q) /\ Len(all) = Len(cut.delta) + Len(cut.rest)
       /\ (\A k \in 1 .. Len(cut.delta) : all[k] = cut.delta[k])
       /\ \A k \in 1 .. Len(cut.rest) : all[Len(cut.delta) + k] = cut.rest[k]
  <2>. DEFINE d == cut.delta
              r == cut.rest
  <2>1. d \in Seq(Q) /\ r \in Seq(Q)
    BY <1>9
  <2>. HIDE DEF d, r
  <2>2. d \o r \in Seq(Q) /\ Len(d \o r) = Len(d) + Len(r)
        /\ (\A k \in 1 .. Len(d) : (d \o r)[k] = d[k])
        /\ \A k \in 1 .. Len(r) : (d \o r)[Len(d) + k] = r[k]
    BY <2>1, ConcatIs
  <2>. QED
    BY <2>2, Zenon DEF d, r
<1>11. ASSUME NEW i \in 1 .. n PROVE Located(all, files[i], ceiling)
  <2>1. Placed(cut, files[i], ceiling) /\ PieceCount(files[i], ceiling) \in Nat
    BY <1>3, <1>5
  <2>2. CASE files[i].changed
    <3>1. Located(cut.delta, files[i], ceiling) /\ Absent(cut.rest, files[i].path)
      BY <2>1, <2>2 DEF Placed
    <3>. QED
      BY <1>9, <2>1, <3>1, LocatedThenOthers
  <2>3. CASE ~files[i].changed
    <3>1. Located(cut.rest, files[i], ceiling) /\ Absent(cut.delta, files[i].path)
      BY <2>1, <2>3 DEF Placed
    <3>. QED
      BY <1>9, <2>1, <3>1, OthersThenLocated
  <2>. QED
    BY <2>2, <2>3
<1>12. ASSUME NEW i \in 1 .. Len(all), NEW j \in 1 .. Len(all), i < j, all[j].changed
       PROVE  all[i].changed
  <2>1. Len(cut.delta) \in Nat /\ Len(cut.rest) \in Nat
    BY <1>4, LenProperties
  <2>2. j <= Len(cut.delta)
    <3>. SUFFICES ASSUME j > Len(cut.delta) PROVE FALSE
      BY <2>1
    <3>. DEFINE k == j - Len(cut.delta)
    <3>. DEFINE d == Len(cut.delta)
                r == Len(cut.rest)
    <3>3. d \in Nat /\ r \in Nat /\ j > d /\ j \in 1 .. d + r
      BY <1>10, <2>1
    <3>4. j - d \in 1 .. r /\ j = d + (j - d)
      <4>. HIDE DEF d, r
      <4>. QED
        BY <3>3
    <3>1. k \in 1 .. Len(cut.rest) /\ j = Len(cut.delta) + k
      BY <3>4
    <3>. HIDE DEF k, all
    <3>2. all[j] = cut.rest[k] /\ cut.rest[k] \in R
      BY <1>4, <1>10, <3>1, ElementOfSeq
    <3>. QED
      BY <1>7, <1>12, <3>2
  <2>3. i \in 1 .. Len(cut.delta)
    BY <1>10, <1>12, <2>1, <2>2
  <2>. HIDE DEF all
  <2>4. all[i] = cut.delta[i] /\ cut.delta[i] \in D
    BY <1>4, <1>10, <2>3, ElementOfSeq
  <2>. QED
    BY <1>7, <2>4
<1>13. CASE all # <<>>
  <2>1. Pieces(files, ceiling) = all
    BY <1>13 DEF Pieces, cut
  <2>. HIDE DEF all
  <2>. QED
    BY <1>10, <1>11, <1>12, <1>13, <2>1 DEF n, Q
<1>14. CASE all = <<>>
  <2>1. Pieces(files, ceiling) = NoText
    BY <1>14 DEF Pieces, cut
  <2>2. NoText \in Seq(Q) /\ NoText # <<>>
    <3>1. {NoText[1]} \subseteq Q
      BY <1>8
    <3>2. NoText \in Seq({NoText[1]}) /\ NoText # <<>>
      BY NoTextIsAPiece
    <3>. DEFINE x == {NoText[1]}
                y == NoText
    <3>3. x \subseteq Q /\ y \in Seq(x)
      BY <3>1, <3>2
    <3>. HIDE DEF x, y
    <3>4. y \in Seq(Q)
      BY <3>3
    <3>. QED
      BY <3>2, <3>4 DEF y
  <2>3. ASSUME NEW i \in 1 .. n PROVE Located(NoText, files[i], ceiling)
    <3>1. PICK a : From(all, files[i], ceiling, a)
      BY <1>11 DEF Located
    <3>2. Len(all) = 0
      BY <1>14, EmptySeq
    <3>3. PieceCount(files[i], ceiling) = 0
      <4>. HIDE DEF all
      <4>. QED
        BY <1>3, <3>1, <3>2 DEF From
    <3>4. Len(files[i].text) = 0
      <4>. DEFINE L == Len(files[i].text)
                  size == chunkSize(ceiling)
                  m == PieceCount(files[i], ceiling)
      <4>1. L \in Nat /\ size \in Nat \ {0}
        BY <1>2, ChunkIsPositive, LenProperties
      <4>2. m = (L + size - 1) \div size
        BY DEF PieceCount
      <4>. HIDE DEF L, size, m
      <4>3. CutInto(L, size, m)
        BY <4>1, <4>2, CutsAt
      <4>4. L <= m * size /\ m = 0
        BY <3>3, <4>3 DEF CutInto, m
      <4>5. L <= 0 * size
        BY <4>4
      <4>. QED
        BY <4>1, <4>5 DEF L
    <3>5. files[i].text = <<>>
      BY <1>2, <3>4, EmptySeq
    <3>6. files[i].path # "<none>"
      BY <1>2, <3>5
    <3>7. \A k \in 1 .. Len(NoText) : NoText[k].path # files[i].path
      BY <3>6, NoTextIsAPiece
    <3>8. From(NoText, files[i], ceiling, 0)
      <4>1. Len(NoText) = 1
        BY NoTextIsAPiece
      <4>2. 0 + 1 .. 0 + 0 = {}
        OBVIOUS
      <4>3. 0 + PieceCount(files[i], ceiling) <= Len(NoText)
        BY <3>3, <4>1
      <4>. QED
        BY <3>3, <3>7, <4>2, <4>3 DEF From
    <3>. QED
      BY <3>8 DEF Located
  <2>4. \A i, j \in 1 .. Len(NoText) : ~(i < j)
    BY NoTextIsAPiece
  <2>. QED
    BY <2>1, <2>2, <2>3, <2>4, Zenon DEF n, Q
<1>. QED
  BY <1>13, <1>14

----------------------------------------------------------------------------
(* The batches they are packed into.                                       *)

\* Every batch that is closed fits, and so does the one that is being filled, unless
\* an error was found (AddPiece).
BatchFits(batch, o) ==
  /\ batch # <<>> /\ Fits(batch, o)
  /\ Len(batch) > 1 => ~(RawSize(batch, o.expansion) > BatchBytes)

FilledSoFar(acc, o) ==
  acc.error = "" => /\ BatchesFit(acc.done, o)
                    /\ acc.current # <<>> => BatchFits(acc.current, o)

Filling(Q, o) ==
  {acc \in [done : Seq(Seq(Q)), current : Seq(Q), error : {"", "chunk"}] : FilledSoFar(acc, o)}

\* A batch that fits may be closed.
LEMMA OneMoreBatch ==
  ASSUME NEW Q, NEW o, NEW done \in Seq(Seq(Q)), NEW batch \in Seq(Q),
         BatchesFit(done, o), BatchFits(batch, o)
  PROVE  BatchesFit(Append(done, batch), o)
<1>1. /\ Len(Append(done, batch)) = Len(done) + 1 /\ Len(done) \in Nat
      /\ \A i \in 1 .. Len(done) : Append(done, batch)[i] = done[i]
      /\ Append(done, batch)[Len(done) + 1] = batch
      /\ Append(done, batch) \in Seq(Seq(Q))
  BY AppendProperties, LenProperties
<1>2. DOMAIN Append(done, batch) = 1 .. Len(done) + 1 /\ DOMAIN done = 1 .. Len(done)
  BY <1>1, LenProperties
<1>3. ASSUME NEW i \in 1 .. Len(done) + 1 PROVE BatchFits(Append(done, batch)[i], o)
  <2>1. CASE i \in 1 .. Len(done)
    BY <1>1, <1>2, <2>1, Zenon DEF BatchesFit, BatchFits
  <2>2. CASE i = Len(done) + 1
    BY <1>1, <2>2, Zenon
  <2>. QED
    BY <1>1, <2>1, <2>2
<1>. QED
  BY <1>2, <1>3, Zenon DEF BatchesFit, BatchFits

\* One more piece keeps it so, and the batch that is being filled then has a piece.
LEMMA OneMorePiece ==
  ASSUME NEW Q, NEW o, NEW acc \in Filling(Q, o), NEW p \in Q
  PROVE  AddPiece(o, acc, p) \in Filling(Q, o) /\ AddPiece(o, acc, p).current # <<>>
<1>. DEFINE longer == Append(acc.current, p)
            full == /\ acc.current # <<>>
                    /\ RawSize(longer, o.expansion) > BatchBytes \/ ~Fits(longer, o)
            done == IF full THEN Append(acc.done, acc.current) ELSE acc.done
            current == IF full THEN <<p>> ELSE longer
            error == IF acc.error = "" /\ ~Fits(current, o) THEN "chunk" ELSE acc.error
            next == [done |-> done, current |-> current, error |-> error]
<1>1. AddPiece(o, acc, p) = next
  BY Zenon DEF AddPiece
<1>2. acc.done \in Seq(Seq(Q)) /\ acc.current \in Seq(Q) /\ acc.error \in {"", "chunk"}
  BY DEF Filling
<1>3. longer \in Seq(Q) /\ longer # <<>> /\ Len(longer) = Len(acc.current) + 1
      /\ <<p>> \in Seq(Q) /\ <<p>> # <<>> /\ Len(<<p>>) = 1
  <2>. HIDE DEF longer
  <2>1. longer \in Seq(Q) /\ longer # <<>> /\ Len(longer) = Len(acc.current) + 1
    <3>. DEFINE c == acc.current
    <3>1. c \in Seq(Q)
      BY <1>2
    <3>. HIDE DEF c
    <3>2. Append(c, p) \in Seq(Q) /\ Append(c, p) # <<>> /\ Len(Append(c, p)) = Len(c) + 1
      BY <3>1, OneLonger
    <3>. QED
      BY <3>2, Zenon DEF longer, c
  <2>2. <<p>> \in Seq(Q) /\ <<p>> # <<>>
    BY OneIsASeq, Zenon
  <2>3. Len(<<p>>) = 1
    OBVIOUS
  <2>. QED
    BY <2>1, <2>2, <2>3, Zenon
<1>4. done \in Seq(Seq(Q)) /\ current \in Seq(Q) /\ current # <<>> /\ error \in {"", "chunk"}
  <2>1. Append(acc.done, acc.current) \in Seq(Seq(Q))
    BY <1>2, AppendProperties
  <2>. HIDE DEF longer, full
  <2>. QED
    BY <1>2, <1>3, <2>1
<1>5. ASSUME error = "" PROVE BatchesFit(done, o) /\ BatchFits(current, o)
  <2>1. acc.error = "" /\ Fits(current, o)
    <3>. HIDE DEF current
    <3>. QED
      BY <1>5
  <2>2. BatchesFit(acc.done, o) /\ (acc.current # <<>> => BatchFits(acc.current, o))
    <3>1. FilledSoFar(acc, o)
      BY DEF Filling
    <3>. QED
      BY <2>1, <3>1, Zenon DEF FilledSoFar
  <2>3. CASE full
    <3>1. acc.current # <<>>
      BY <2>3
    <3>2. BatchesFit(Append(acc.done, acc.current), o)
      BY <1>2, <2>2, <3>1, OneMoreBatch
    <3>3. done = Append(acc.done, acc.current) /\ current = <<p>>
      <4>. HIDE DEF full
      <4>. QED
        BY <2>3
    <3>4. ~ (Len(<<p>>) > 1)
      BY <1>3
    <3>. HIDE DEF done, current, full, longer
    <3>. QED
      BY <1>3, <2>1, <3>2, <3>3, <3>4, Zenon DEF BatchFits
  <2>4. CASE ~ full
    <3>1. done = acc.done /\ current = longer
      <4>. HIDE DEF full, longer
      <4>. QED
        BY <2>4
    <3>2. CASE acc.current = <<>>
      <4>. HIDE DEF done, current, full, longer
      <4>1. ~ (Len(longer) > 1)
        BY <1>3, <3>2
      <4>. QED
        BY <1>3, <2>1, <2>2, <3>1, <4>1, Zenon DEF BatchFits
    <3>3. CASE acc.current # <<>>
      <4>1. ~ (RawSize(longer, o.expansion) > BatchBytes)
        <5>. HIDE DEF longer
        <5>. QED
          BY <2>4, <3>3
      <4>. HIDE DEF done, current, full, longer
      <4>. QED
        BY <1>3, <2>1, <2>2, <3>1, <4>1, Zenon DEF BatchFits
    <3>. QED
      BY <3>2, <3>3
  <2>. QED
    BY <2>3, <2>4
<1>6. next \in Filling(Q, o) /\ next.current # <<>>
  <2>. HIDE DEF done, current, error
  <2>1. next \in [done : Seq(Seq(Q)), current : Seq(Q), error : {"", "chunk"}]
    BY <1>4
  <2>2. next.done = done /\ next.current = current /\ next.error = error
    OBVIOUS
  <2>. HIDE DEF next
  <2>3. FilledSoFar(next, o)
    BY <1>5, <2>2, Zenon DEF FilledSoFar
  <2>. QED
    BY <1>4, <2>1, <2>2, <2>3 DEF Filling
<1>. QED
  BY <1>1, <1>6, Zenon

NoBatches == [done |-> <<>>, current |-> <<>>, error |-> ""]

PackedAs(pieces, o, V, h) ==
  /\ FoldsTo(Len(pieces), V, NoBatches,
             [x \in V \X (1 .. Len(pieces)) |-> AddPiece(o, x[1], pieces[x[2]])], h)
  /\ Packed(pieces, o) = h[1 .. Len(pieces)]

\* Packed is a fold whose values stay in V, for any V its step stays in.
LEMMA PackedFolds ==
  ASSUME NEW Q, NEW pieces \in Seq(Q), NEW o, NEW V, NoBatches \in V,
         \A acc \in V : \A i \in 1 .. Len(pieces) : AddPiece(o, acc, pieces[i]) \in V
  PROVE  \E h : PackedAs(pieces, o, V, h)
<1>. DEFINE n == Len(pieces)
            base == NoBatches
            step == [x \in V \X (1 .. n) |-> AddPiece(o, x[1], pieces[x[2]])]
            Iter(g) == g = [s \in SUBSET (DOMAIN pieces) |->
                              IF s = {} THEN base
                              ELSE AddPiece(o, g[s \ {Max(s)}], pieces[Max(s)])]
            g == CHOOSE f : Iter(f)
<1>1. n \in Nat /\ DOMAIN pieces = 1 .. n
  BY LenProperties
<1>2. step \in [V \X (1 .. n) -> V]
  OBVIOUS
<1>3. base \in V
  OBVIOUS
<1>4. PICK h : FoldsTo(n, V, base, step, h)
  <2>. HIDE DEF step, n, base
  <2>. QED
    BY <1>1, <1>2, <1>3, FoldExists
<1>5. Iter(h)
  <2>1. ASSUME NEW s \in SUBSET (1 .. n)
        PROVE  h[s] = IF s = {} THEN base ELSE AddPiece(o, h[s \ {Max(s)}], pieces[Max(s)])
    <3>1. CASE s = {}
      BY <1>4, <3>1 DEF FoldsTo
    <3>2. CASE s # {}
      <4>1. Max(s) \in 1 .. n
        BY <1>1, <3>2, MaxExists
      <4>2. h[s \ {Max(s)}] \in V
        BY <1>4 DEF FoldsTo
      <4>. HIDE DEF n, base
      <4>. QED
        BY <1>4, <3>2, <4>1, <4>2 DEF FoldsTo
    <3>. QED
      BY <3>1, <3>2
  <2>. HIDE DEF base, n
  <2>. QED
    BY <1>1, <1>4, <2>1 DEF FoldsTo
<1>6. Iter(g)
  <2>. HIDE DEF Iter
  <2>. QED
    BY <1>5, Zenon
<1>7. Packed(pieces, o) = g[DOMAIN pieces]
  BY Zenon DEF Packed, FoldLeft, MapThenFoldSet, NoBatches
<1>8. g[1 .. n] = h[1 .. n]
  <2>. HIDE DEF g, n, base
  <2>1. g[{}] = h[{}]
    BY <1>5, <1>6
  <2>2. ASSUME NEW s \in SUBSET (1 .. n), s # {}, g[s \ {Max(s)}] = h[s \ {Max(s)}]
        PROVE  g[s] = h[s]
    BY <1>1, <1>5, <1>6, <2>2
  <2>. QED
    BY <1>1, <2>1, <2>2, SameFold
<1>. HIDE DEF g
<1>. QED
  BY <1>1, <1>4, <1>7, <1>8 DEF PackedAs

\* The batches hold the pieces so far, in their order.
Holds(acc, pieces, k) == FlattenSeq(acc.done) \o acc.current = SubSeq(pieces, 1, k)

LEMMA OneMoreHeld ==
  ASSUME NEW Q, NEW pieces \in Seq(Q), NEW o, NEW k \in 1 .. Len(pieces), NEW acc \in Filling(Q, o),
         Holds(acc, pieces, k - 1)
  PROVE  Holds(AddPiece(o, acc, pieces[k]), pieces, k)
<1>. DEFINE new == AddPiece(o, acc, pieces[k])
            p == pieces[k]
            d == acc.done
            c == acc.current
            flat == FlattenSeq(d)
<1>1. d \in Seq(Seq(Q)) /\ c \in Seq(Q) /\ p \in Q
  BY ElementOfSeq DEF Filling
<1>2. \/ new.done = d /\ new.current = Append(c, p)
      \/ new.done = Append(d, c) /\ new.current = <<p>>
  BY Zenon DEF AddPiece
<1>. HIDE DEF new, p, d, c, flat
<1>3. flat \in Seq(Q) /\ FlattenSeq(Append(d, c)) = flat \o c
  BY <1>1, FlattenOneMore DEF flat
<1>4. <<p>> \in Seq(Q) /\ Append(c, p) = c \o <<p>>
  BY <1>1
<1>5. FlattenSeq(new.done) \o new.current = (flat \o c) \o <<p>>
  <2>1. CASE new.done = d /\ new.current = Append(c, p)
    <3>1. flat \o (c \o <<p>>) = (flat \o c) \o <<p>>
      BY <1>1, <1>3, <1>4, ConcatAssociative
    <3>. QED
      BY <1>4, <2>1, <3>1 DEF flat
  <2>2. CASE new.done = Append(d, c) /\ new.current = <<p>>
    BY <1>3, <2>2
  <2>. QED
    BY <1>2, <2>1, <2>2
<1>6. flat \o c = SubSeq(pieces, 1, k - 1)
  BY DEF Holds, flat, d, c
<1>7. SubSeq(pieces, 1, k - 1) \o <<p>> = SubSeq(pieces, 1, k)
  <2>. DEFINE a == SubSeq(pieces, 1, k - 1)
              b == SubSeq(pieces, 1, k)
  <2>1. a \in Seq(Q) /\ Len(a) = k - 1 /\ \A i \in 1 .. k - 1 : a[i] = pieces[i]
    OBVIOUS
  <2>2. b \in Seq(Q) /\ Len(b) = k /\ \A i \in 1 .. k : b[i] = pieces[i]
    OBVIOUS
  <2>. HIDE DEF a, b
  <2>3. a \o <<p>> \in Seq(Q) /\ Len(a \o <<p>>) = k /\ (a \o <<p>>)[k] = p
        /\ \A i \in 1 .. k - 1 : (a \o <<p>>)[i] = a[i]
    BY <1>4, <2>1
  <2>4. \A i \in 1 .. k : (a \o <<p>>)[i] = b[i]
    <3>. SUFFICES ASSUME NEW i \in 1 .. k PROVE (a \o <<p>>)[i] = b[i]
      OBVIOUS
    <3>1. CASE i = k
      BY <2>2, <2>3, <3>1 DEF p
    <3>2. CASE i # k
      <4>1. i \in 1 .. k - 1
        BY <3>2
      <4>. QED
        BY <2>1, <2>2, <2>3, <4>1
    <3>. QED
      BY <3>1, <3>2
  <2>5. a \o <<p>> = b
    BY <2>2, <2>3, <2>4, SeqEqual
  <2>. QED
    BY <2>5 DEF a, b
<1>. QED
  BY <1>5, <1>6, <1>7 DEF Holds, new

LEMMA PackedHolds ==
  ASSUME NEW Q, NEW pieces \in Seq(Q), NEW o
  PROVE  /\ Packed(pieces, o) \in Filling(Q, o)
         /\ FlattenSeq(Packed(pieces, o).done) \o Packed(pieces, o).current = pieces
         /\ pieces # <<>> => Packed(pieces, o).current # <<>>
<1>. DEFINE n == Len(pieces)
            V == Filling(Q, o)
            step == [x \in V \X (1 .. n) |-> AddPiece(o, x[1], pieces[x[2]])]
            W == [k \in 0 .. n |-> {acc \in V : Holds(acc, pieces, k) /\ (k # 0 => acc.current # <<>>)}]
<1>1. n \in Nat /\ \A i \in 1 .. n : pieces[i] \in Q
  BY LenProperties, ElementOfSeq
<1>2. NoBatches \in V /\ Holds(NoBatches, pieces, 0)
  <2>1. NoBatches \in [done : Seq(Seq(Q)), current : Seq(Q), error : {"", "chunk"}]
        /\ NoBatches.done = <<>> /\ NoBatches.current = <<>>
    <3>1. <<>> \in Seq(Seq(Q)) /\ <<>> \in Seq(Q)
      BY EmptySeq
    <3>. QED
      BY <3>1 DEF NoBatches
  <2>2. FilledSoFar(NoBatches, o)
    <3>1. DOMAIN NoBatches.done = {} /\ NoBatches.error = "" /\ NoBatches.current = <<>>
      BY <2>1 DEF NoBatches
    <3>. QED
      BY <2>1, <3>1, Zenon DEF FilledSoFar, BatchesFit
  <2>3. FlattenSeq(<<>>) = <<>>
    BY EmptySeq DEF FlattenSeq
  <2>4. SubSeq(pieces, 1, 0) = <<>>
    <3>. DEFINE a == SubSeq(pieces, 1, 0)
    <3>1. a \in Seq(Q) /\ Len(a) = 0
      OBVIOUS
    <3>. HIDE DEF a
    <3>2. a = <<>>
      BY <3>1, EmptySeq
    <3>. QED
      BY <3>2 DEF a
  <2>5. <<>> \o <<>> = <<>>
    BY EmptySeq, ConcatEmptySeq
  <2>. QED
    BY <2>1, <2>2, <2>3, <2>4, <2>5, Zenon DEF Filling, Holds
<1>3. \A acc \in V : \A i \in 1 .. n : AddPiece(o, acc, pieces[i]) \in V
  BY <1>1, OneMorePiece
<1>. HIDE DEF V
<1>4. PICK h : PackedAs(pieces, o, V, h)
  BY <1>2, <1>3, PackedFolds
<1>5. FoldsTo(n, V, NoBatches, step, h) /\ Packed(pieces, o) = h[1 .. n]
  BY <1>4, Zenon DEF PackedAs
<1>6. NoBatches \in W[0]
  BY <1>1, <1>2
<1>7. \A k \in 1 .. n : \A acc \in V : acc \in W[k - 1] => step[<<acc, k>>] \in W[k]
  <2>. SUFFICES ASSUME NEW k \in 1 .. n, NEW acc \in V, acc \in W[k - 1]
                PROVE  step[<<acc, k>>] \in W[k]
    OBVIOUS
  <2>1. k - 1 \in 0 .. n /\ k \in 0 .. n
    BY <1>1
  <2>2. Holds(acc, pieces, k - 1)
    BY <2>1
  <2>3. step[<<acc, k>>] = AddPiece(o, acc, pieces[k])
    OBVIOUS
  <2>4. AddPiece(o, acc, pieces[k]) \in V /\ Holds(AddPiece(o, acc, pieces[k]), pieces, k)
    BY <1>3, <2>2, OneMoreHeld DEF V
  <2>5. AddPiece(o, acc, pieces[k]).current # <<>>
    BY <1>1, OneMorePiece DEF V
  <2>. HIDE DEF step
  <2>. QED
    BY <2>1, <2>3, <2>4, <2>5
<1>. HIDE DEF W, step, n
<1>8. h[1 .. n] \in V /\ h[1 .. n] \in W[n]
  BY <1>1, <1>5, <1>6, <1>7, FoldKeeps
<1>9. Holds(h[1 .. n], pieces, n) /\ (n # 0 => h[1 .. n].current # <<>>)
  <2>1. n \in 0 .. n
    BY <1>1
  <2>. QED
    BY <1>8, <2>1 DEF W
<1>10. SubSeq(pieces, 1, n) = pieces
  BY SubSeqProperties, SeqEqual DEF n
<1>11. pieces # <<>> => n # 0
  BY EmptySeq DEF n
<1>. QED
  BY <1>5, <1>8, <1>9, <1>10, <1>11, Zenon DEF V, Holds

----------------------------------------------------------------------------
(* What is sent.                                                           *)

\* The text of a path among pieces, as a fold whose values stay in V.
OfPath(path, text, p) == IF p.path = path THEN text \o p.content ELSE text

TextAs(pieces, path, V, h) ==
  FoldsTo(Len(pieces), V, <<>>, [x \in V \X (1 .. Len(pieces)) |-> OfPath(path, x[1], pieces[x[2]])], h)

LEMMA TextFolds ==
  ASSUME NEW Q, NEW batches, NEW pieces \in Seq(Q), FlattenSeq(batches) = pieces,
         NEW path, NEW V, <<>> \in V,
         \A text \in V : \A i \in 1 .. Len(pieces) : OfPath(path, text, pieces[i]) \in V
  PROVE  \E h : TextAs(pieces, path, V, h) /\ TextOf(batches, path) = h[1 .. Len(pieces)]
<1>. DEFINE n == Len(pieces)
            base == <<>>
            step == [x \in V \X (1 .. n) |-> OfPath(path, x[1], pieces[x[2]])]
            Iter(g) == g = [s \in SUBSET (DOMAIN pieces) |->
                              IF s = {} THEN base
                              ELSE OfPath(path, g[s \ {Max(s)}], pieces[Max(s)])]
            g == CHOOSE f : Iter(f)
<1>1. n \in Nat /\ DOMAIN pieces = 1 .. n
  BY LenProperties
<1>2. step \in [V \X (1 .. n) -> V]
  OBVIOUS
<1>3. base \in V
  OBVIOUS
<1>4. PICK h : FoldsTo(n, V, base, step, h)
  <2>. HIDE DEF step, n, base
  <2>. QED
    BY <1>1, <1>2, <1>3, FoldExists
<1>5. Iter(h)
  <2>1. ASSUME NEW s \in SUBSET (1 .. n)
        PROVE  h[s] = IF s = {} THEN base ELSE OfPath(path, h[s \ {Max(s)}], pieces[Max(s)])
    <3>1. CASE s = {}
      BY <1>4, <3>1 DEF FoldsTo
    <3>2. CASE s # {}
      <4>1. Max(s) \in 1 .. n
        BY <1>1, <3>2, MaxExists
      <4>2. h[s \ {Max(s)}] \in V
        BY <1>4 DEF FoldsTo
      <4>. HIDE DEF n, base
      <4>. QED
        BY <1>4, <3>2, <4>1, <4>2 DEF FoldsTo
    <3>. QED
      BY <3>1, <3>2
  <2>. HIDE DEF base, n
  <2>. QED
    BY <1>1, <1>4, <2>1 DEF FoldsTo
<1>6. Iter(g)
  <2>. HIDE DEF Iter
  <2>. QED
    BY <1>5, Zenon
<1>7. TextOf(batches, path) = g[DOMAIN pieces]
  BY Zenon DEF TextOf, FoldLeft, MapThenFoldSet, OfPath
<1>8. g[1 .. n] = h[1 .. n]
  <2>. HIDE DEF g, n, base
  <2>1. g[{}] = h[{}]
    BY <1>5, <1>6
  <2>2. ASSUME NEW s \in SUBSET (1 .. n), s # {}, g[s \ {Max(s)}] = h[s \ {Max(s)}]
        PROVE  g[s] = h[s]
    <3>1. g[s] = OfPath(path, g[s \ {Max(s)}], pieces[Max(s)])
      BY <1>1, <1>6, <2>2
    <3>2. h[s] = OfPath(path, h[s \ {Max(s)}], pieces[Max(s)])
      BY <1>1, <1>5, <2>2
    <3>. QED
      BY <2>2, <3>1, <3>2, Zenon
  <2>. QED
    BY <1>1, <2>1, <2>2, SameFold
<1>. HIDE DEF g
<1>. QED
  BY <1>1, <1>4, <1>7, <1>8 DEF TextAs

\* The first e bytes of a file, as they are sent.
SentUpTo(f, text, e) ==
  Len(text) = Least(Len(f.text), e) /\ \A j \in 1 .. Len(text) : SentAs(text[j], f.text[j])

LEMMA PieceSent ==
  ASSUME NEW B, NEW f, Len(f.text) \in Nat, NEW size \in Nat \ {0}, NEW m, CutInto(Len(f.text), size, m),
         NEW c \in 1 .. m, NEW p, PieceIs(p, f, size, c), p.content \in Seq(B),
         NEW text \in Seq(B), SentUpTo(f, text, (c - 1) * size)
  PROVE  text \o p.content \in Seq(B) /\ SentUpTo(f, text \o p.content, c * size)
<1>. DEFINE L == Len(f.text)
            a == (c - 1) * size
            b == c * size
            q == p.content
            u == text \o q
            e == Least(L, b)
<1>1. a \in Nat /\ b \in Nat /\ b = a + size /\ a < L /\ Least(L, a) = a /\ L \in Nat
  <2>. HIDE DEF L
  <2>. QED
    BY DEF CutInto, L
<1>2. Len(text) = a /\ \A j \in 1 .. a : SentAs(text[j], f.text[j])
  BY <1>1 DEF SentUpTo
<1>3. Len(q) = e - a /\ \A j \in 1 .. Len(q) : SentAs(q[j], f.text[a + j])
  BY DEF PieceIs
<1>4. q \in Seq(B)
  OBVIOUS
<1>. HIDE DEF L, a, b, q, u
<1>5. e \in Nat /\ a <= e /\ e <= L
  BY <1>1 DEF Least
<1>. HIDE DEF e
<1>6. u \in Seq(B) /\ Len(u) = Len(text) + Len(q) /\ (\A j \in 1 .. Len(text) : u[j] = text[j])
      /\ \A j \in 1 .. Len(q) : u[Len(text) + j] = q[j]
  BY <1>4, ConcatIs DEF u
<1>7. Len(u) = e
  BY <1>1, <1>2, <1>3, <1>5, <1>6
<1>8. ASSUME NEW j \in 1 .. e PROVE SentAs(u[j], f.text[j])
  <2>1. CASE j <= a
    <3>1. j \in 1 .. a
      BY <1>1, <1>5, <2>1
    <3>. QED
      BY <1>2, <1>6, <3>1
  <2>2. CASE j > a
    <3>. DEFINE i == j - a
    <3>1. i \in 1 .. Len(q) /\ j = a + i
      BY <1>1, <1>3, <1>5, <2>2
    <3>. HIDE DEF i
    <3>2. u[j] = q[i]
      BY <1>2, <1>6, <3>1
    <3>. QED
      BY <1>3, <3>1, <3>2
  <2>. QED
    BY <1>1, <1>5, <2>1, <2>2
<1>. QED
  BY <1>6, <1>7, <1>8 DEF SentUpTo, e, b, q, u, L

\* What is sent of a file among the pieces of a review is the file.
LEMMA FileSent ==
  ASSUME NEW Q, \A p \in Q : IsPiece(p), NEW batches, NEW pieces \in Seq(Q), FlattenSeq(batches) = pieces,
         NEW f, f.text \in Seq(ToSet(f.text)), f.changed \in BOOLEAN, NEW ceiling \in Nat,
         Located(pieces, f, ceiling)
  PROVE  /\ SentUpTo(f, TextOf(batches, f.path), Len(f.text))
         /\ \E B : TextOf(batches, f.path) \in Seq(B)
<1>. DEFINE n == Len(pieces)
            m == PieceCount(f, ceiling)
            size == chunkSize(ceiling)
            own == PiecesOf(f, ceiling)
            B == UNION {ToSet(p.content) : p \in Q}
            V == Seq(B)
            step == [x \in V \X (1 .. n) |-> OfPath(f.path, x[1], pieces[x[2]])]
<1>1. PICK a : From(pieces, f, ceiling, a)
  BY DEF Located
<1>. DEFINE c(k) == IF k <= a THEN 0 ELSE IF k - a >= m THEN m ELSE k - a
            W == [k \in 0 .. n |-> {t \in V : SentUpTo(f, t, c(k) * size)}]
<1>2. n \in Nat /\ (\A i \in 1 .. n : pieces[i] \in Q) /\ size \in Nat \ {0} /\ Len(f.text) \in Nat
  BY LenProperties, ElementOfSeq, ChunkIsPositive
<1>3. CutInto(Len(f.text), size, m)
  <2>. DEFINE L == Len(f.text)
  <2>1. m = (L + size - 1) \div size
    BY DEF PieceCount
  <2>. HIDE DEF L, size, m
  <2>. QED
    BY <1>2, <2>1, CutsAt DEF L
<1>4. m \in Nat /\ Least(Len(f.text), m * size) = Len(f.text)
  BY <1>3 DEF CutInto
<1>5. \A k \in 1 .. m : PieceIs(own[k], f, size, k)
  BY OwnPieces
<1>6. a \in Nat /\ a + m <= n /\ \A k \in 1 .. n : IF k \in a + 1 .. a + m THEN pieces[k] = own[k - a]
                                                   ELSE pieces[k].path # f.path
  BY <1>1 DEF From
<1>7. \A p \in Q : p.content \in V
  <2>. SUFFICES ASSUME NEW p \in Q PROVE p.content \in V
    OBVIOUS
  <2>. DEFINE t == p.content
              S == ToSet(t)
  <2>1. t \in Seq(S) /\ S \subseteq B
    BY DEF IsPiece
  <2>. HIDE DEF t, S, B
  <2>2. t \in Seq(B)
    BY <2>1
  <2>. QED
    BY <2>2 DEF t
<1>. HIDE DEF B, size, own, m, n
<1>8. \A t \in V : \A i \in 1 .. n : OfPath(f.path, t, pieces[i]) \in V
  <2>. SUFFICES ASSUME NEW t \in V, NEW i \in 1 .. n PROVE OfPath(f.path, t, pieces[i]) \in V
    OBVIOUS
  <2>. DEFINE q == pieces[i].content
  <2>1. q \in V
    BY <1>2, <1>7
  <2>. HIDE DEF q
  <2>2. t \o q \in V
    BY <2>1, ConcatProperties
  <2>. HIDE DEF V
  <2>. QED
    BY <2>2 DEF OfPath, q
<1>9. <<>> \in V
  BY EmptySeq
<1>10. PICK h : TextAs(pieces, f.path, V, h) /\ TextOf(batches, f.path) = h[1 .. n]
  <2>. HIDE DEF V
  <2>. DEFINE path == f.path
  <2>1. \A t \in V : \A i \in 1 .. Len(pieces) : OfPath(path, t, pieces[i]) \in V
    BY <1>8 DEF n
  <2>. HIDE DEF path
  <2>2. \E h : TextAs(pieces, path, V, h) /\ TextOf(batches, path) = h[1 .. Len(pieces)]
    BY <1>9, <2>1, TextFolds
  <2>. QED
    BY <2>2 DEF n, path
<1>11. FoldsTo(n, V, <<>>, step, h)
  BY <1>10, Zenon DEF TextAs, n
<1>12. <<>> \in W[0]
  <2>1. c(0) = 0 /\ 0 \in 0 .. n
    BY <1>2, <1>6
  <2>2. 0 * size = 0
    BY <1>2
  <2>3. SentUpTo(f, <<>>, 0)
    <3>1. Len(<<>>) = 0 /\ Least(Len(f.text), 0) = 0
      BY <1>2 DEF Least
    <3>2. 1 .. 0 = {}
      OBVIOUS
    <3>. QED
      BY <3>1, <3>2 DEF SentUpTo
  <2>4. SentUpTo(f, <<>>, c(0) * size)
    <3>. HIDE DEF c
    <3>. QED
      BY <2>1, <2>2, <2>3
  <2>. HIDE DEF c, V
  <2>. QED
    BY <1>9, <2>1, <2>4
<1>13. \A k \in 1 .. n : \A t \in V : t \in W[k - 1] => step[<<t, k>>] \in W[k]
  <2>. SUFFICES ASSUME NEW k \in 1 .. n, NEW t \in V, t \in W[k - 1]
                PROVE  step[<<t, k>>] \in W[k]
    OBVIOUS
  <2>1. k - 1 \in 0 .. n /\ k \in 0 .. n
    BY <1>2
  <2>2. SentUpTo(f, t, c(k - 1) * size)
    <3>. HIDE DEF c, V
    <3>. QED
      BY <2>1
  <2>3. step[<<t, k>>] = OfPath(f.path, t, pieces[k])
    <3>. HIDE DEF V
    <3>. QED
      OBVIOUS
  <2>4. step[<<t, k>>] \in V
    <3>. HIDE DEF V, step
    <3>. QED
      BY <1>8, <2>3
  <2>5. SentUpTo(f, OfPath(f.path, t, pieces[k]), c(k) * size)
    <3>1. CASE k \in a + 1 .. a + m
      <4>. DEFINE i == k - a
      <4>1. i \in 1 .. m /\ c(k) = i /\ c(k - 1) = i - 1
        BY <1>2, <1>4, <1>6, <3>1
      <4>. HIDE DEF c
      <4>2. pieces[k] = own[i] /\ PieceIs(own[i], f, size, i) /\ own[i].content \in V
        BY <1>2, <1>5, <1>6, <1>7, <3>1, <4>1
      <4>. HIDE DEF i
      <4>3. SentUpTo(f, t, (i - 1) * size)
        BY <2>2, <4>1
      <4>4. SentUpTo(f, t \o own[i].content, i * size)
        BY <1>2, <1>3, <4>1, <4>2, <4>3, PieceSent
      <4>5. own[i].path = f.path
        BY <4>2 DEF PieceIs
      <4>. QED
        BY <4>1, <4>2, <4>4, <4>5 DEF OfPath
    <3>2. CASE k \notin a + 1 .. a + m
      <4>1. c(k) = c(k - 1)
        BY <1>2, <1>4, <1>6, <3>2
      <4>. HIDE DEF c
      <4>2. pieces[k].path # f.path
        BY <1>6, <3>2
      <4>. QED
        BY <2>2, <4>1, <4>2 DEF OfPath
    <3>. QED
      BY <3>1, <3>2
  <2>. HIDE DEF c, V, step
  <2>. QED
    BY <2>1, <2>3, <2>4, <2>5
<1>14. h[1 .. n] \in V /\ h[1 .. n] \in W[n]
  <2>. HIDE DEF V, W, step
  <2>. QED
    BY <1>2, <1>11, <1>12, <1>13, FoldKeeps
<1>15. c(n) = m /\ n \in 0 .. n
  BY <1>2, <1>4, <1>6
<1>16. SentUpTo(f, h[1 .. n], m * size)
  <2>. HIDE DEF c, V
  <2>. QED
    BY <1>14, <1>15
<1>17. SentUpTo(f, TextOf(batches, f.path), Len(f.text))
  BY <1>2, <1>4, <1>10, <1>16 DEF SentUpTo, Least
<1>. QED
  BY <1>10, <1>14, <1>17

\* A review is sent whole or not at all: for any selection of files, any provider and
\* any limits, batchesWithProviderOptions returns an error or at least one batch, and
\* then each batch has a piece, fits the context of the model, and exceeds the batch
\* size only where a piece is alone.
THEOREM BatchesOfAnySelection ==
  ASSUME NEW files, NEW o, IsSelection(files), o.ceiling \in Nat
  PROVE  LET r == batchesWithProviderOptions(files, o) IN
         r.error = "" => /\ r.batches \in Seq(ToSet(r.batches)) /\ r.batches # <<>>
                         /\ BatchesFit(r.batches, o)
<1>. DEFINE r == batchesWithProviderOptions(files, o)
            pieces == Pieces(files, o.ceiling)
            filled == Packed(pieces, o)
            batches == Append(filled.done, filled.current)
            Q == AllPieces(files, o.ceiling)
<1>. SUFFICES ASSUME r.error = ""
              PROVE  /\ r.batches \in Seq(ToSet(r.batches)) /\ r.batches # <<>>
                     /\ BatchesFit(r.batches, o)
  BY Zenon
<1>1. pieces \in Seq(Q) /\ pieces # <<>>
  BY PiecesAre
<1>2. r.batches = batches /\ filled.error = ""
  <2>. HIDE DEF filled
  <2>. QED
    BY DEF batchesWithProviderOptions, filled
<1>. HIDE DEF pieces, r, Q
<1>3. filled \in Filling(Q, o) /\ filled.current # <<>>
  BY <1>1, PackedHolds
<1>. HIDE DEF filled
<1>4. filled.done \in Seq(Seq(Q)) /\ filled.current \in Seq(Q) /\ FilledSoFar(filled, o)
  BY <1>3 DEF Filling
<1>5. batches \in Seq(Seq(Q)) /\ Len(batches) = Len(filled.done) + 1 /\ batches # <<>>
  <2>. DEFINE d == filled.done
              c == filled.current
  <2>1. d \in Seq(Seq(Q)) /\ c \in Seq(Q)
    BY <1>4
  <2>. HIDE DEF d, c
  <2>2. Append(d, c) \in Seq(Seq(Q)) /\ Append(d, c) # <<>> /\ Len(Append(d, c)) = Len(d) + 1
    BY <2>1, OneLonger
  <2>. QED
    BY <2>2, Zenon DEF d, c
<1>6. BatchesFit(batches, o)
  <2>1. BatchesFit(filled.done, o) /\ BatchFits(filled.current, o)
    BY <1>2, <1>3, <1>4, Zenon DEF FilledSoFar
  <2>. QED
    BY <1>4, <2>1, OneMoreBatch
<1>7. batches \in Seq(ToSet(batches))
  <2>. HIDE DEF batches
  <2>. QED
    BY <1>5, OwnElements
<1>. QED
  BY <1>2, <1>5, <1>6, <1>7, Zenon

\* A review is sent whole or not at all: for any selection of files, any provider and
\* any limits, batchesWithProviderOptions returns an error, or batches that together
\* hold every selected byte once and in order, what changed before the rest, each
\* within what the provider takes, and whose line ranges are those the receiver
\* recomputes.
THEOREM AnySelectionIsSent ==
  ASSUME NEW files, NEW o, IsSelection(files), o.ceiling \in Nat
  PROVE  BatchesAreSound(files, o)
<1>. DEFINE r == batchesWithProviderOptions(files, o)
            ceiling == o.ceiling
            pieces == Pieces(files, ceiling)
            filled == Packed(pieces, o)
            d == filled.done
            c == filled.current
            batches == Append(d, c)
            Q == AllPieces(files, ceiling)
<1>. SUFFICES ASSUME r.error = ""
              PROVE  /\ Covers(files, r.batches) /\ ChangedFirst(r.batches) /\ BatchesFit(r.batches, o)
                     /\ \A i \in DOMAIN r.batches : \A j \in DOMAIN r.batches[i] :
                          LinesMatch(r.batches[i][j])
  BY Zenon DEF BatchesAreSound
<1>1. /\ pieces \in Seq(Q) /\ \A i \in 1 .. Len(files) : Located(pieces, files[i], ceiling)
      /\ \A i, j \in 1 .. Len(pieces) : i < j /\ pieces[j].changed => pieces[i].changed
  BY PiecesAre
<1>2. r.batches = batches
  <2>. HIDE DEF filled
  <2>. QED
    BY DEF batchesWithProviderOptions, filled
<1>3. BatchesFit(r.batches, o)
  BY BatchesOfAnySelection
<1>4. \A p \in Q : IsPiece(p)
  BY NoTextIsAPiece DEF AllPieces, PiecesWhere
<1>. HIDE DEF r, pieces, Q
<1>5. d \in Seq(Seq(Q)) /\ c \in Seq(Q) /\ FlattenSeq(d) \o c = pieces
  <2>1. filled \in Filling(Q, o) /\ FlattenSeq(filled.done) \o filled.current = pieces
    BY <1>1, PackedHolds
  <2>. HIDE DEF filled
  <2>. QED
    BY <2>1 DEF Filling
<1>. HIDE DEF d, c
<1>6. FlattenSeq(batches) = pieces /\ batches \in Seq(Seq(Q))
  BY <1>5, FlattenOneMore, AppendProperties
<1>. HIDE DEF batches, ceiling
<1>7. ChangedFirst(batches)
  <2>1. DOMAIN pieces = 1 .. Len(pieces)
    BY <1>1, LenProperties
  <2>. QED
    BY <1>1, <1>6, <2>1 DEF ChangedFirst
<1>8. \A i \in DOMAIN batches : \A j \in DOMAIN batches[i] : LinesMatch(batches[i][j])
  <2>. SUFFICES ASSUME NEW i \in DOMAIN batches, NEW j \in DOMAIN batches[i]
                PROVE  LinesMatch(batches[i][j])
    OBVIOUS
  <2>0. i \in 1 .. Len(batches)
    BY <1>6, LenProperties
  <2>1. batches[i] \in Seq(Q)
    BY <1>6, <2>0, ElementOfSeq
  <2>. DEFINE batch == batches[i]
  <2>. HIDE DEF batch
  <2>2. batch \in Seq(Q) /\ j \in DOMAIN batch
    BY <2>1 DEF batch
  <2>3. batch[j] \in Q
    <3>1. j \in 1 .. Len(batch)
      BY <2>2, LenProperties
    <3>. QED
      BY <2>2, <3>1, ElementOfSeq
  <2>. QED
    BY <1>4, <2>3 DEF batch, IsPiece
<1>9. Covers(files, batches)
  <2>. SUFFICES ASSUME NEW i \in DOMAIN files
                PROVE  LET sent == TextOf(batches, files[i].path)
                           text == files[i].text
                       IN  /\ Len(sent) = Len(text)
                           /\ \A k \in DOMAIN sent :
                                sent[k] = text[k] \/ (sent[k] = "r" /\ text[k] \in {"l", "t"})
    BY Zenon DEF Covers
  <2>. DEFINE f == files[i]
              sent == TextOf(batches, f.path)
  <2>1. /\ f.text \in Seq(ToSet(f.text)) /\ f.changed \in BOOLEAN /\ i \in 1 .. Len(files)
    <3>1. files \in Seq(ToSet(files))
      BY DEF IsSelection
    <3>2. DOMAIN files = 1 .. Len(files)
      BY <3>1, LenProperties
    <3>3. f \in ToSet(files)
      BY DEF ToSet
    <3>. HIDE DEF f
    <3>. QED
      BY <3>2, <3>3 DEF IsSelection
  <2>2. Located(pieces, f, ceiling)
    BY <1>1, <2>1
  <2>3. ceiling \in Nat
    BY DEF ceiling
  <2>. HIDE DEF f
  <2>4. SentUpTo(f, sent, Len(f.text)) /\ \E B : sent \in Seq(B)
    BY <1>1, <1>4, <1>6, <2>1, <2>2, <2>3, FileSent
  <2>5. Len(f.text) \in Nat
    BY <2>1, LenProperties
  <2>. HIDE DEF sent
  <2>6. DOMAIN sent = 1 .. Len(sent)
    BY <2>4, LenProperties
  <2>7. Len(sent) = Len(f.text) /\ \A k \in DOMAIN sent : SentAs(sent[k], f.text[k])
    BY <2>4, <2>5, <2>6 DEF SentUpTo, Least
  <2>. QED
    BY <2>7 DEF SentAs, sent, f
<1>. QED
  BY <1>2, <1>3, <1>7, <1>8, <1>9

----------------------------------------------------------------------------
(* What a command line of yay is taken for (Invocations).                  *)

\* --config is an option except as the operand of another.
LEMMA ConfigOptionsAre ==
  ASSUME NEW args \in Seq(STRING)
  PROVE  ConfigOptions(args) = {i \in DOMAIN args : args[i] = "--config" /\ i - 1 \notin ConfigOptions(args)}
<1>. DEFINE n == Len(args)
            Option(f) == f = [i \in 0 .. Len(args) |-> i > 0 /\ args[i] = "--config" /\ ~ f[i - 1]]
            f == CHOOSE h : Option(h)
            step == [x \in BOOLEAN \X (1 .. n) |-> args[x[2]] = "--config" /\ ~ x[1]]
<1>1. n \in Nat /\ DOMAIN args = 1 .. n
  BY LenProperties
<1>2. step \in [BOOLEAN \X (1 .. n) -> BOOLEAN]
  BY Zenon
<1>3. PICK h : Recurs(n, BOOLEAN, FALSE, step, h)
  <2>. DEFINE B == BOOLEAN
              no == FALSE
  <2>1. n \in Nat /\ no \in B /\ step \in [B \X (1 .. n) -> B]
    BY <1>1, <1>2
  <2>. HIDE DEF B, no, step, n
  <2>2. \E h : Recurs(n, B, no, step, h)
    BY <2>1, NatRecursion
  <2>. QED
    BY <2>2 DEF B, no
<1>a. h \in [0 .. n -> BOOLEAN] /\ h[0] = FALSE /\ \A i \in 1 .. n : h[i] = step[<<h[i - 1], i>>]
  <2>. HIDE DEF n, step
  <2>. QED
    BY <1>3, Zenon DEF Recurs
<1>4. Option(h)
  <2>1. ASSUME NEW i \in 0 .. n PROVE h[i] = (i > 0 /\ args[i] = "--config" /\ ~ h[i - 1])
    <3>1. CASE i = 0
      BY <1>a, <3>1
    <3>2. CASE i # 0
      <4>1. i \in 1 .. n /\ i - 1 \in 0 .. n /\ i > 0
        BY <1>1, <3>2
      <4>2. h[i] = step[<<h[i - 1], i>>] /\ h[i - 1] \in BOOLEAN
        BY <1>a, <4>1
      <4>3. step[<<h[i - 1], i>>] = (args[i] = "--config" /\ ~ h[i - 1])
        BY <4>1, <4>2
      <4>. QED
        BY <4>1, <4>2, <4>3
    <3>. QED
      BY <3>1, <3>2
  <2>. QED
    BY <1>a, <2>1
<1>5. Option(f)
  <2>. HIDE DEF Option
  <2>. QED
    BY <1>4, Zenon
<1>6. ConfigOptions(args) = {i \in DOMAIN args : f[i]}
  BY Zenon DEF ConfigOptions
<1>. HIDE DEF f
<1>7. ASSUME NEW i \in DOMAIN args
      PROVE  f[i] <=> args[i] = "--config" /\ i - 1 \notin ConfigOptions(args)
  <2>1. i \in 1 .. n /\ i > 0 /\ i - 1 \in 0 .. n
    BY <1>1
  <2>2. f[i] = (i > 0 /\ args[i] = "--config" /\ ~ f[i - 1])
    BY <1>5, <2>1
  <2>3. i - 1 \in ConfigOptions(args) <=> f[i - 1]
    <3>1. CASE i - 1 \in DOMAIN args
      BY <1>6, <3>1
    <3>2. CASE i - 1 \notin DOMAIN args
      <4>1. i - 1 = 0
        BY <1>1, <2>1, <3>2
      <4>2. ~ f[0]
        <5>1. 0 \in 0 .. n /\ ~ (0 > 0)
          BY <1>1
        <5>. HIDE DEF n
        <5>2. \A k \in 0 .. n : f[k] => k > 0
          BY <1>5 DEF n
        <5>. QED
          BY <5>1, <5>2
      <4>. QED
        BY <1>6, <3>2, <4>1, <4>2
    <3>. QED
      BY <3>1, <3>2
  <2>. QED
    BY <2>1, <2>2, <2>3
<1>. QED
  BY <1>6, <1>7

\* How a command line that is let through reads: every --config is an option, and
\* apart from it and its operands the tokens are the flags makepkg finds.
LEMMA AcceptedTokens ==
  ASSUME NEW args \in Seq(STRING),
         \A i \in ConfigOptions(args) : i < Len(args) /\ args[i + 1] \in SystemConfigs
  PROVE  /\ ConfigOptions(args) = {i \in DOMAIN args : args[i] = "--config"}
         /\ RemainingArgs(args) \subseteq MakepkgReads(args).flags
         /\ MakepkgReads(args).flags \subseteq RemainingArgs(args) \cup {"--config"}
         /\ \A i \in DOMAIN args : args[i] \in RemainingArgs(args) \cup {"--config"} \cup SystemConfigs
<1>. DEFINE C == ConfigOptions(args)
<1>1. Len(args) \in Nat /\ DOMAIN args = 1 .. Len(args)
  BY LenProperties
<1>2. C = {i \in DOMAIN args : args[i] = "--config" /\ i - 1 \notin C}
  BY ConfigOptionsAre
<1>3. /\ "--config" \notin SystemConfigs
      /\ \A i \in C : i < Len(args) /\ args[i + 1] \in SystemConfigs
  <2>1. "--config" \in OptionTokens
    BY DEF OptionTokens
  <2>. QED
    BY <2>1, InvocationConstants
<1>. HIDE DEF C
<1>4. C = {i \in DOMAIN args : args[i] = "--config"}
  <2>1. ASSUME NEW i \in DOMAIN args, args[i] = "--config" PROVE i - 1 \notin C
    <3>1. i - 1 \in C => args[(i - 1) + 1] \in SystemConfigs
      BY <1>3
    <3>2. (i - 1) + 1 = i
      BY <1>1
    <3>. QED
      BY <1>3, <2>1, <3>1, <3>2
  <2>. QED
    BY <1>2, <2>1
<1>5. RemainingArgs(args) = {args[i] : i \in {j \in DOMAIN args : j \notin C /\ j - 1 \notin C}}
  BY DEF RemainingArgs, C
<1>6. MakepkgReads(args).flags = {args[i] : i \in {j \in DOMAIN args : j - 1 \notin C}}
  <2>1. MakepkgReads(args).flags
          = {args[i] : i \in {j \in DOMAIN args : j = 1 \/ args[j - 1] \notin MakepkgOperands}}
    BY Zenon DEF MakepkgReads
  <2>2. ASSUME NEW j \in DOMAIN args
        PROVE  (j = 1 \/ args[j - 1] \notin MakepkgOperands) <=> j - 1 \notin C
    BY <1>1, <1>4 DEF MakepkgOperands
  <2>. QED
    BY <2>1, <2>2
<1>7. ASSUME NEW i \in DOMAIN args
      PROVE  args[i] \in RemainingArgs(args) \cup {"--config"} \cup SystemConfigs
  <2>1. CASE i \in C
    BY <1>4, <2>1
  <2>2. CASE i - 1 \in C
    <3>1. args[(i - 1) + 1] \in SystemConfigs /\ (i - 1) + 1 = i
      BY <1>1, <1>3, <2>2
    <3>. QED
      BY <3>1
  <2>3. CASE i \notin C /\ i - 1 \notin C
    BY <1>5, <2>3
  <2>. QED
    BY <2>1, <2>2, <2>3
<1>8. MakepkgReads(args).flags \subseteq RemainingArgs(args) \cup {"--config"}
  BY <1>4, <1>5, <1>6
<1>9. RemainingArgs(args) \subseteq MakepkgReads(args).flags
  BY <1>5, <1>6
<1>. QED
  BY <1>4, <1>7, <1>8, <1>9 DEF C

\* ConfigPath is the operand of the last --config.
LEMMA ConfigPathIsRoots ==
  ASSUME NEW args \in Seq(STRING),
         \A i \in ConfigOptions(args) : i < Len(args) /\ args[i + 1] \in SystemConfigs
  PROVE  ConfigPath(args) \in SystemConfigs \cup {""}
<1>. DEFINE C == ConfigOptions(args)
            Last_(i) == \A j \in C : j <= i
            last == CHOOSE i \in C : Last_(i)
<1>0. ConfigPath(args) = IF C = {} THEN "" ELSE args[last + 1]
  BY DEF ConfigPath
<1>1. CASE C = {}
  BY <1>0, <1>1
<1>2. CASE C # {}
  <2>1. Len(args) \in Nat /\ C \in SUBSET (1 .. Len(args))
    <3>1. C \subseteq DOMAIN args
      BY ConfigOptionsAre
    <3>. HIDE DEF C
    <3>. QED
      BY <3>1, LenProperties
  <2>. HIDE DEF C
  <2>2. \E i \in C : Last_(i)
    BY <1>2, <2>1, MaxExists
  <2>3. last \in C
    <3>. HIDE DEF Last_
    <3>. QED
      BY <2>2, Zenon
  <2>. HIDE DEF last
  <2>. QED
    BY <1>0, <1>2, <2>3, Zenon DEF C
<1>. QED
  BY <1>1, <1>2

LEMMA ContainsIs ==
  ASSUME NEW args \in Seq(STRING), NEW e
  PROVE  Contains(args, e) <=> \E i \in DOMAIN args : args[i] = e
BY LenProperties DEF Contains

\* A token other than --config and the paths is on the command line where it is among
\* the flags.
LEMMA OptionIsAFlag ==
  ASSUME NEW args \in Seq(STRING),
         \A i \in ConfigOptions(args) : i < Len(args) /\ args[i + 1] \in SystemConfigs,
         NEW e \in OptionTokens, e # "--config"
  PROVE  /\ Contains(args, e) <=> e \in RemainingArgs(args)
         /\ e \in MakepkgReads(args).flags <=> e \in RemainingArgs(args)
<1>1. /\ RemainingArgs(args) \subseteq MakepkgReads(args).flags
      /\ MakepkgReads(args).flags \subseteq RemainingArgs(args) \cup {"--config"}
      /\ \A i \in DOMAIN args : args[i] \in RemainingArgs(args) \cup {"--config"} \cup SystemConfigs
  BY AcceptedTokens
<1>2. \A x \in RemainingArgs(args) : \E i \in DOMAIN args : args[i] = x
  BY DEF RemainingArgs
<1>3. e \notin SystemConfigs
  BY InvocationConstants
<1>. QED
  BY <1>1, <1>2, <1>3, ContainsIs

\* What RunMakepkg takes a command line for is what makepkg does with it.
LEMMA InvocationIsTaken ==
  ASSUME NEW args \in Seq(STRING), NEW report
  PROVE  InvocationIsWhatItIsTakenFor(args, report)
<1>. DEFINE profile == ClassifyInvocation(args)
            makepkg == MakepkgReads(args)
            receipt == sourceVerificationAfterInvocation(args, profile, report)
            tokens == RemainingArgs(args)
            own == ProfileOf(tokens)
            info == Len(args) = 1 /\ args[1] \in InfoOptions
            accepted == /\ args # <<>> /\ ToSet(args) \cap prohibitedMakepkg = {}
                        /\ \A i \in ConfigOptions(args) : i < Len(args) /\ args[i + 1] \in SystemConfigs
                        /\ "--skippgpcheck" \in tokens => "--verifysource" \in tokens
                        /\ own # "none" /\ Supported(own, tokens)
<1>1. profile = IF info THEN "info" ELSE IF accepted THEN own ELSE "refused"
  BY Zenon DEF ClassifyInvocation
<1>2. own \in {"printsrcinfo", "verify", "packagelist", "skip", "prepare", "build", "none"}
  BY DEF ProfileOf
<1>3. Len(args) \in Nat /\ DOMAIN args = 1 .. Len(args) /\ ToSet(args) = {args[i] : i \in DOMAIN args}
  BY LenProperties DEF ToSet
<1>4. /\ makepkg.sourcesChecked = (~ Contains(args, "--noextract") \/ Contains(args, "--verifysource"))
      /\ makepkg.signaturesChecked = ~ Contains(args, "--skippgpcheck")
      /\ makepkg.checksumsChecked = (~ Contains(args, "--skipchecksums") /\ ~ Contains(args, "--skipinteg"))
      /\ makepkg.flags = {args[i] : i \in {j \in DOMAIN args : j = 1 \/ args[j - 1] \notin MakepkgOperands}}
  BY DEF MakepkgReads
<1>. SUFFICES ASSUME profile # "refused"
     PROVE  /\ profile = "info" => makepkg.flags \cap Stages = {} /\ makepkg.flags # {}
            /\ profile # "info" => \E s \in Stages : makepkg.flags \cap Stages = {s}
            /\ makepkg.checksumsChecked
            /\ receipt # "none" => makepkg.sourcesChecked
            /\ receipt = "verified" => makepkg.signaturesChecked
            /\ ConfigPath(args) \in SystemConfigs \cup {""}
            /\ (report.phase = MarkerPhase(profile) /\ NetworkOf(profile, report)) =>
                 /\ report.decision = "allow"
                 /\ makepkg.flags \cap {"--printsrcinfo", "--packagelist"} = {}
                 /\ Contains(args, "--verifysource") => report.vcs
                 /\ ~Contains(args, "--verifysource") => report.networkEligible
  BY Zenon DEF InvocationIsWhatItIsTakenFor
<1>5. CASE info
  <2>1. profile = "info" /\ args[1] \in {"--help", "-h", "--version", "-V"} /\ DOMAIN args = {1}
    BY <1>1, <1>3, <1>5 DEF InfoOptions
  <2>2. makepkg.flags = {args[1]}
    BY <1>4, <2>1
  <2>3. ~ Contains(args, "--skipchecksums") /\ ~ Contains(args, "--skipinteg")
    BY <2>1, ContainsIs
  <2>4. ConfigOptions(args) = {}
    BY <2>1, ConfigOptionsAre
  <2>5. receipt = "none" /\ ~ NetworkOf(profile, report)
    BY <2>1 DEF sourceVerificationAfterInvocation, NetworkOf, invocationNetworkEnabled
  <2>6. ConfigPath(args) = ""
    BY <2>4 DEF ConfigPath
  <2>. HIDE DEF profile, makepkg, receipt
  <2>. QED
    BY <1>4, <2>1, <2>2, <2>3, <2>5, <2>6 DEF Stages
<1>6. CASE ~ info
  <2>1. profile = own /\ accepted
    <3>. HIDE DEF info, accepted, own
    <3>. QED
      BY <1>1, <1>6
  <2>. HIDE DEF info
  <2>2. /\ \A i \in ConfigOptions(args) : i < Len(args) /\ args[i + 1] \in SystemConfigs
        /\ "--skippgpcheck" \in tokens => "--verifysource" \in tokens
        /\ tokens \subseteq safeGlobal \cup profileAllowed[own] /\ own # "none"
        /\ \A e \in prohibitedMakepkg : ~ Contains(args, e)
    BY <2>1, <1>3, ContainsIs DEF Supported
  <2>. DEFINE Named == {"--printsrcinfo", "--packagelist", "--verifysource", "--nobuild",
                        "--noextract", "--holdver", "--skippgpcheck"}
  <2>3. Named \subseteq OptionTokens /\ \A e \in Named : e # "--config"
    <3>1. "--noextract" \in profileAllowed["skip"] /\ "--skippgpcheck" \in profileAllowed["verify"]
          /\ "skip" \in DOMAIN profileAllowed /\ "verify" \in DOMAIN profileAllowed
      BY DEF profileAllowed
    <3>2. "--noextract" \in OptionTokens /\ "--skippgpcheck" \in OptionTokens
      BY <3>1 DEF OptionTokens
    <3>3. Stages \subseteq OptionTokens
      BY DEF OptionTokens
    <3>. QED
      BY <3>2, <3>3 DEF Stages
  <2>0. \A i \in ConfigOptions(args) : i < Len(args) /\ args[i + 1] \in SystemConfigs
    BY <2>2
  <2>4. ASSUME NEW e \in Named
        PROVE  /\ Contains(args, e) <=> e \in tokens
               /\ e \in makepkg.flags <=> e \in tokens
    <3>1. e \in OptionTokens /\ e # "--config"
      BY <2>3
    <3>. HIDE DEF Named
    <3>. QED
      BY <2>0, <3>1, OptionIsAFlag
  <2>5. ConfigPath(args) \in SystemConfigs \cup {""}
    BY <2>0, ConfigPathIsRoots
  <2>6. makepkg.flags \cap Stages = tokens \cap Stages
    BY <2>4 DEF Stages
  <2>7. tokens \cap {"--skipchecksums", "--skipinteg"} = {}
    BY <1>2, <2>2 DEF safeGlobal, profileAllowed
  <2>8. /\ \E s \in Stages : tokens \cap Stages = {s}
        /\ own = "verify" => "--verifysource" \in tokens
        /\ own # "verify" => "--verifysource" \notin tokens
        /\ own = "prepare" => "--noextract" \notin tokens
        /\ own \in {"verify", "prepare", "build"} =>
             "--printsrcinfo" \notin tokens /\ "--packagelist" \notin tokens
    <3>. HIDE DEF tokens
    <3>1. CASE own = "printsrcinfo"
      <4>1. "--printsrcinfo" \in tokens /\ tokens \cap Stages = {"--printsrcinfo"} /\ "--verifysource" \notin tokens
        BY <2>2, <3>1 DEF safeGlobal, profileAllowed, ProfileOf, Stages
      <4>. QED
        BY <3>1, <4>1 DEF Stages
    <3>2. CASE own = "verify"
      <4>1. tokens \cap Stages = {"--verifysource"}
        BY <2>2, <3>2 DEF safeGlobal, profileAllowed, ProfileOf, Stages
      <4>. QED
        BY <3>2, <4>1 DEF Stages
    <3>3. CASE own = "packagelist"
      <4>1. tokens \cap Stages = {"--packagelist"}
        BY <2>2, <3>3 DEF safeGlobal, profileAllowed, ProfileOf, Stages
      <4>. QED
        BY <3>3, <4>1 DEF Stages
    <3>4. CASE own \in {"skip", "prepare"}
      <4>1. tokens \cap Stages = {"--nobuild"}
        BY <2>2, <3>4 DEF safeGlobal, profileAllowed, ProfileOf, Stages
      <4>2. own = "prepare" => "--noextract" \notin tokens
        BY <2>2 DEF safeGlobal, profileAllowed
      <4>. QED
        BY <3>4, <4>1, <4>2 DEF Stages
    <3>5. CASE own = "build"
      <4>1. tokens \cap Stages = {"--holdver"}
        BY <2>2, <3>5 DEF safeGlobal, profileAllowed, ProfileOf, Stages
      <4>. QED
        BY <3>5, <4>1 DEF Stages
    <3>. QED
      BY <1>2, <2>2, <3>1, <3>2, <3>3, <3>4, <3>5
  <2>9. /\ receipt # "none" => own \in {"verify", "prepare"}
        /\ receipt = "verified" => ~ (own = "verify" /\ Contains(args, "--skippgpcheck"))
        /\ NetworkOf(profile, report) =>
             /\ report.decision = "allow" /\ own \in {"verify", "prepare", "build"}
             /\ own = "verify" => report.vcs
             /\ own # "verify" => report.networkEligible
    BY <2>1 DEF sourceVerificationAfterInvocation, NetworkOf, invocationNetworkEnabled
  <2>a. own # "info"
    BY <1>2
  <2>. HIDE DEF tokens, makepkg, receipt, accepted, own, profile
  <2>b. /\ profile # "info" /\ \E s \in Stages : makepkg.flags \cap Stages = {s}
        /\ ConfigPath(args) \in SystemConfigs \cup {""}
    BY <2>1, <2>5, <2>6, <2>8, <2>a
  <2>c. makepkg.checksumsChecked
    BY <1>4, <2>2 DEF prohibitedMakepkg
  <2>d. receipt # "none" => makepkg.sourcesChecked
    BY <1>4, <2>4, <2>8, <2>9
  <2>e. receipt = "verified" => makepkg.signaturesChecked
    <3>1. own = "prepare" => ~ Contains(args, "--skippgpcheck")
      BY <2>2, <2>4, <2>8
    <3>. QED
      BY <1>4, <2>9, <3>1
  <2>f. NetworkOf(profile, report) =>
          /\ report.decision = "allow"
          /\ makepkg.flags \cap {"--printsrcinfo", "--packagelist"} = {}
          /\ Contains(args, "--verifysource") => report.vcs
          /\ ~Contains(args, "--verifysource") => report.networkEligible
    BY <2>4, <2>8, <2>9
  <2>. QED
    BY <2>b, <2>c, <2>d, <2>e, <2>f
<1>. QED
  BY <1>5, <1>6
=============================================================================
