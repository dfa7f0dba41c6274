----------------------------- MODULE FoldProofs -----------------------------
(***************************************************************************)
(* What the proofs about loops need: induction on numbers, the least and   *)
(* the greatest number of a set, and the operators of the library that go  *)
(* through a sequence, as a row of intermediate results.  A proof about a  *)
(* loop takes this module with the body of the loop for Op.                *)
(***************************************************************************)
EXTENDS Integers, SequencesExt, SequenceTheorems, WellFoundedInduction, TLAPS

CONSTANT
    Op(_, _)   \* the body: what one element makes of the result so far

\* What holds of 0, and of n + 1 if it holds of n, holds of every number.
LEMMA EveryNumber ==
    ASSUME NEW S, 0 \in S, \A n \in Nat : n \in S => n + 1 \in S
    PROVE  \A n \in Nat : n \in S
  <1> DEFINE T == {n \in Nat : n \notin S}
  <1>1. SUFFICES ASSUME T # {} PROVE FALSE
    OBVIOUS
  <1>2. T \subseteq Nat
    OBVIOUS
  <1> HIDE DEF T
  <1>3. PICK n \in T : \A k \in T : <<k, n>> \notin OpToRel(<, Nat)
    BY <1>1, <1>2, WFMin, NatLessThanWellFounded, Zenon
  <1>4. n \in Nat /\ n \notin S /\ \A k \in Nat : k \notin S => ~(k < n)
    BY <1>3 DEF T, OpToRel
  <1>5. n - 1 \in Nat /\ n - 1 < n /\ n - 1 + 1 = n
    BY <1>4
  <1>6. n - 1 \in S
    BY <1>4, <1>5
  <1> QED
    BY <1>4, <1>5, <1>6

\* The least and the greatest number of a set.
LEMMA HasMin ==
    ASSUME NEW T \in SUBSET Nat, T # {}
    PROVE  Min(T) \in T /\ \A y \in T : Min(T) =< y
  <1>1. PICK n \in T : \A k \in T : <<k, n>> \notin OpToRel(<, Nat)
    BY WFMin, NatLessThanWellFounded, Zenon
  <1>2. ASSUME NEW y \in T PROVE n =< y
    <2>1. y \in Nat /\ n \in Nat /\ <<y, n>> \notin OpToRel(<, Nat)
      BY <1>1
    <2>2. ~(y < n)
      BY <2>1 DEF OpToRel
    <2>3. y \in Nat /\ n \in Nat
      OBVIOUS
    <2> QED
      BY <2>2, <2>3
  <1> QED
    BY <1>2 DEF Min

LEMMA HasMax ==
    \A n \in Nat : \A T \in SUBSET (1..n) : T # {} => Max(T) \in T /\ \A y \in T : Max(T) >= y
  <1> DEFINE S == {n \in Nat : \A T \in SUBSET (1..n) : T # {} => \E x \in T : \A y \in T : x >= y}
  <1>1. 0 \in S
    <2>1. \A T \in SUBSET (1..0) : T = {}
      OBVIOUS
    <2> QED
      BY <2>1
  <1>2. ASSUME NEW n \in Nat, n \in S PROVE n + 1 \in S
    <2> SUFFICES ASSUME NEW T \in SUBSET (1..(n + 1)), T # {}
                 PROVE  \E x \in T : \A y \in T : x >= y
      OBVIOUS
    <2>1. CASE n + 1 \in T
      BY <2>1
    <2>2. CASE n + 1 \notin T
      <3>1. T \in SUBSET (1..n)
        BY <2>2
      <3> QED
        BY <3>1, <1>2
    <2> QED
      BY <2>1, <2>2
  <1> HIDE DEF S
  <1>3. \A n \in Nat : n \in S
    BY <1>1, <1>2, EveryNumber
  <1> QED
    BY <1>3 DEF S, Max

-----------------------------------------------------------------------------
(* Folds.                                                                  *)

\* f is the fold of q, from b on, with every set of numbers up to n.
Folding(b, q, n, f) ==
    f = [s \in SUBSET (1..n) |->
           IF s = {} THEN b ELSE Op(f[s \ {Max(s)}], q[Max(s)])]
Fold(b, q) == FoldLeft(Op, b, q)

\* The operator of the library picks such a function.
LEMMA FoldIs ==
    ASSUME NEW b, NEW q, NEW n \in Nat, DOMAIN q = 1..n, \E f : Folding(b, q, n, f)
    PROVE  \E f : Folding(b, q, n, f) /\ Fold(b, q) = f[1..n]
  <1> DEFINE f == CHOOSE f : Folding(b, q, n, f)
  <1>1. Folding(b, q, n, f)
    OBVIOUS
  <1>2. Fold(b, q) = f[1..n]
    BY Zenon DEF Fold, FoldLeft, MapThenFoldSet, Folding
  <1> QED
    BY <1>1, <1>2

\* There is such a function, for any number of elements.
LEMMA FoldExists ==
    ASSUME NEW b, NEW q
    PROVE  \A n \in Nat : \E f : Folding(b, q, n, f)
  <1> DEFINE S == {n \in Nat : \E f : Folding(b, q, n, f)}
  <1>1. 0 \in S
    <2>1. Folding(b, q, 0, [s \in SUBSET (1..0) |-> b])
      <3>1. \A s \in SUBSET (1..0) : s = {}
        OBVIOUS
      <3> QED
        BY <3>1 DEF Folding
    <2> QED
      BY <2>1
  <1>2. ASSUME NEW n \in Nat, n \in S PROVE n + 1 \in S
    <2>1. PICK f : Folding(b, q, n, f)
      BY <1>2
    <2> DEFINE g == [s \in SUBSET (1..(n + 1)) |->
                       IF s = {} THEN b ELSE Op(f[s \ {Max(s)}], q[Max(s)])]
    <2>2. ASSUME NEW s \in SUBSET (1..(n + 1)), s # {}
          PROVE  s \ {Max(s)} \in SUBSET (1..n)
      <3>1. Max(s) \in s /\ \A y \in s : Max(s) >= y
        <4>1. n + 1 \in Nat
          OBVIOUS
        <4> QED
          BY ONLY <4>1, <2>2, HasMax
      <3> DEFINE x == Max(s)
      <3>2. ASSUME NEW y \in s, y # x PROVE y \in 1..n
        <4>1. x \in 1..(n + 1) /\ y \in 1..(n + 1) /\ x >= y
          BY <3>1
        <4> HIDE DEF x
        <4> QED
          BY <3>2, <4>1
      <3> HIDE DEF x
      <3> QED
        BY <3>2 DEF x
    <2>3. ASSUME NEW s \in SUBSET (1..n) PROVE g[s] = f[s]
      <3>1. f[s] = IF s = {} THEN b ELSE Op(f[s \ {Max(s)}], q[Max(s)])
        BY <2>1, Zenon DEF Folding
      <3>2. s \in SUBSET (1..(n + 1))
        OBVIOUS
      <3> QED
        BY <3>1, <3>2, Zenon
    <2>4. g = [s \in SUBSET (1..(n + 1)) |->
                 IF s = {} THEN b ELSE Op(g[s \ {Max(s)}], q[Max(s)])]
      <3>1. \A s \in SUBSET (1..(n + 1)) : s # {} => g[s \ {Max(s)}] = f[s \ {Max(s)}]
        BY <2>2, <2>3
      <3> QED
        BY <3>1, Zenon
    <2>5. Folding(b, q, n + 1, g)
      BY <2>4, Zenon DEF Folding
    <2> QED
      BY <2>5
  <1> HIDE DEF S
  <1>3. \A n \in Nat : n \in S
    BY <1>1, <1>2, EveryNumber
  <1> QED
    BY <1>3 DEF S

\* It goes from the first element to the last, one at a time.
LEMMA FoldSteps ==
    ASSUME NEW b, NEW q, NEW n \in Nat, NEW f, Folding(b, q, n, f)
    PROVE  /\ f[1..0] = b
           /\ \A k \in Nat : k < n => f[1..(k + 1)] = Op(f[1..k], q[k + 1])
  <1>1. \A s \in SUBSET (1..n) :
            f[s] = IF s = {} THEN b ELSE Op(f[s \ {Max(s)}], q[Max(s)])
    BY Zenon DEF Folding
  <1>2. f[1..0] = b
    <2>1. 1..0 \in SUBSET (1..n) /\ 1..0 = {}
      OBVIOUS
    <2> QED
      BY <1>1, <2>1, Zenon
  <1>3. ASSUME NEW k \in Nat, k < n PROVE f[1..(k + 1)] = Op(f[1..k], q[k + 1])
    <2> DEFINE s == 1..(k + 1)
    <2>1. s \in SUBSET (1..n) /\ s # {} /\ s \in SUBSET (1..(k + 1))
      BY <1>3
    <2>2. Max(s) \in s /\ \A y \in s : Max(s) >= y
      BY <2>1, HasMax
    <2>3. Max(s) = k + 1
      BY <2>2
    <2>4. s \ {k + 1} = 1..k
      OBVIOUS
    <2> HIDE DEF s
    <2> QED
      BY <1>1, <2>1, <2>3, <2>4 DEF s
  <1> QED
    BY <1>2, <1>3

\* So the fold of a sequence is the last of a row of results.
LEMMA FoldRow ==
    ASSUME NEW b, NEW q, NEW n \in Nat, DOMAIN q = 1..n
    PROVE  \E r : /\ r[0] = b
                  /\ \A k \in Nat : k < n => r[k + 1] = Op(r[k], q[k + 1])
                  /\ Fold(b, q) = r[n]
  <1>1. PICK f : Folding(b, q, n, f) /\ Fold(b, q) = f[1..n]
    BY FoldExists, FoldIs
  <1>2. /\ f[1..0] = b
        /\ \A k \in Nat : k < n => f[1..(k + 1)] = Op(f[1..k], q[k + 1])
    BY <1>1, FoldSteps
  <1> DEFINE r == [k \in Nat |-> f[1..k]]
  <1>3. r[0] = b /\ Fold(b, q) = r[n]
    BY <1>1, <1>2
  <1>4. ASSUME NEW k \in Nat, k < n PROVE r[k + 1] = Op(r[k], q[k + 1])
    <2>1. k + 1 \in Nat
      OBVIOUS
    <2>2. r[k + 1] = f[1..(k + 1)] /\ r[k] = f[1..k]
      BY <2>1
    <2> QED
      BY <1>2, <1>4, <2>2, Zenon
  <1> HIDE DEF r
  <1> QED
    BY <1>3, <1>4

\* The same by a name.
HasRow(b, q, n) ==
    \E r : /\ r[0] = b
           /\ \A k \in Nat : k < n => r[k + 1] = Op(r[k], q[k + 1])
           /\ Fold(b, q) = r[n]
LEMMA FoldHasRow ==
    \A b, q : \A n \in Nat : DOMAIN q = 1..n => HasRow(b, q, n)
  <1> TAKE b, q
  <1> TAKE n \in Nat
  <1>1. ASSUME DOMAIN q = 1..n
        PROVE  \E r : /\ r[0] = b
                      /\ \A k \in Nat : k < n => r[k + 1] = Op(r[k], q[k + 1])
                      /\ Fold(b, q) = r[n]
    BY <1>1, FoldRow
  <1> QED
    BY <1>1, Zenon DEF HasRow

\* One element more is one turn more.
LEMMA FoldAppend ==
    ASSUME NEW b, NEW S, NEW q \in Seq(S), NEW x \in S
    PROVE  Fold(b, Append(q, x)) = Op(Fold(b, q), x)
  <1> DEFINE n == Len(q)
             more == Append(q, x)
  <1>1. /\ n \in Nat /\ n + 1 \in Nat /\ DOMAIN q = 1..n /\ DOMAIN more = 1..(n + 1)
        /\ more[n + 1] = x
    OBVIOUS
  <1>2. ASSUME NEW k \in Nat, k < n PROVE more[k + 1] = q[k + 1] /\ k < n + 1
    <2>1. \A i \in 1..n : more[i] = q[i]
      OBVIOUS
    <2> HIDE DEF n, more
    <2>2. k + 1 \in 1..n /\ k < n + 1
      BY <1>1, <1>2
    <2> QED
      BY <2>1, <2>2
  <1> HIDE DEF n, more
  <1>3. PICK r : /\ r[0] = b
                 /\ \A k \in Nat : k < n => r[k + 1] = Op(r[k], q[k + 1])
                 /\ Fold(b, q) = r[n]
    BY <1>1, FoldRow
  <1>4. PICK z : /\ z[0] = b
                 /\ \A k \in Nat : k < n + 1 => z[k + 1] = Op(z[k], more[k + 1])
                 /\ Fold(b, more) = z[n + 1]
    BY <1>1, FoldRow
  <1> DEFINE T == {k \in Nat : k <= n => z[k] = r[k]}
  <1>5. 0 \in T
    BY <1>3, <1>4
  <1>6. ASSUME NEW k \in Nat, k \in T PROVE k + 1 \in T
    <2>1. SUFFICES ASSUME k + 1 <= n PROVE z[k + 1] = r[k + 1]
      OBVIOUS
    <2>2. k < n /\ k <= n
      BY <1>1, <2>1
    <2>3. z[k] = r[k]
      BY <1>6, <2>2
    <2>4. z[k + 1] = Op(z[k], more[k + 1]) /\ r[k + 1] = Op(r[k], q[k + 1])
      BY <1>2, <1>3, <1>4, <2>2, Zenon
    <2> QED
      BY <1>2, <2>2, <2>3, <2>4, Zenon
  <1> HIDE DEF T
  <1>7. \A k \in Nat : k \in T
    BY <1>5, <1>6, EveryNumber, Zenon
  <1>8. z[n] = r[n] /\ n < n + 1
    BY <1>1, <1>7 DEF T
  <1>9. z[n + 1] = Op(z[n], more[n + 1])
    BY <1>1, <1>4, <1>8, Zenon
  <1> QED
    BY <1>1, <1>3, <1>4, <1>8, <1>9, Zenon DEF more

-----------------------------------------------------------------------------
(* Sequences in a row.                                                     *)

\* f is the first of them in a row, for each number of them up to n.
FlatIs(seqs, n, f) ==
    f = [i \in 1..n |-> IF i = 1 THEN seqs[i] ELSE f[i - 1] \o seqs[i]]

LEMMA FlatExists ==
    ASSUME NEW seqs
    PROVE  \A n \in Nat : \E f : FlatIs(seqs, n, f)
  <1> DEFINE S == {n \in Nat : \E f : FlatIs(seqs, n, f)}
  <1>1. 0 \in S
    <2>1. FlatIs(seqs, 0, [i \in 1..0 |-> <<>>])
      BY DEF FlatIs
    <2> QED
      BY <2>1
  <1>2. ASSUME NEW n \in Nat, n \in S PROVE n + 1 \in S
    <2>1. PICK f : FlatIs(seqs, n, f)
      BY <1>2
    <2> DEFINE g == [i \in 1..(n + 1) |-> IF i = 1 THEN seqs[i] ELSE f[i - 1] \o seqs[i]]
    <2>2. \A i \in 1..n : g[i] = f[i]
      <3> TAKE i \in 1..n
      <3>1. f[i] = IF i = 1 THEN seqs[i] ELSE f[i - 1] \o seqs[i]
        BY <2>1, Zenon DEF FlatIs
      <3>2. i \in 1..(n + 1)
        OBVIOUS
      <3> QED
        BY <3>1, <3>2, Zenon
    <2>3. \A i \in 1..(n + 1) : i # 1 => g[i - 1] = f[i - 1]
      <3> TAKE i \in 1..(n + 1)
      <3>1. i # 1 => i - 1 \in 1..n
        OBVIOUS
      <3> HIDE DEF g
      <3> QED
        BY <3>1, <2>2
    <2>4. g = [i \in 1..(n + 1) |-> IF i = 1 THEN seqs[i] ELSE g[i - 1] \o seqs[i]]
      BY <2>3, Zenon
    <2>5. FlatIs(seqs, n + 1, g)
      BY <2>4, Zenon DEF FlatIs
    <2> QED
      BY <2>5
  <1> HIDE DEF S
  <1>3. \A n \in Nat : n \in S
    BY <1>1, <1>2, EveryNumber
  <1> QED
    BY <1>3 DEF S

\* They too are the last of a row of results.
LEMMA FlatRow ==
    ASSUME NEW S, NEW seqs \in Seq(Seq(S))
    PROVE  \E r : /\ r[0] = <<>>
                  /\ \A k \in Nat : k < Len(seqs) => r[k + 1] = r[k] \o seqs[k + 1]
                  /\ FlattenSeq(seqs) = r[Len(seqs)]
  <1> DEFINE n == Len(seqs)
             f == CHOOSE f : FlatIs(seqs, n, f)
             r == [k \in Nat |-> IF k = 0 THEN <<>> ELSE f[k]]
  <1>1. n \in Nat
    OBVIOUS
  <1>2. FlatIs(seqs, n, f)
    BY <1>1, FlatExists
  <1>3. FlattenSeq(seqs) = r[n]
    <2>1. CASE n = 0
      BY <2>1 DEF FlattenSeq
    <2>2. CASE n # 0
      <3>1. FlattenSeq(seqs) = f[n]
        BY <2>2, Zenon DEF FlattenSeq, FlatIs
      <3> HIDE DEF f, n
      <3> QED
        BY <1>1, <2>2, <3>1
    <2> QED
      BY <2>1, <2>2
  <1>4. \A i \in 1..n : f[i] = IF i = 1 THEN seqs[i] ELSE f[i - 1] \o seqs[i]
    <2> HIDE DEF f, n
    <2> QED
      BY <1>2, Zenon DEF FlatIs
  <1>5. ASSUME NEW k \in Nat, k < n PROVE r[k + 1] = r[k] \o seqs[k + 1]
    <2>0. seqs[k + 1] \in Seq(S)
      BY <1>5
    <2> HIDE DEF f, n
    <2>1. k + 1 \in 1..n /\ k + 1 \in Nat /\ k + 1 # 0
      BY <1>1, <1>5
    <2>2. r[k + 1] = f[k + 1]
      BY <2>1
    <2>3. CASE k = 0
      <3>1. <<>> \o seqs[k + 1] = seqs[k + 1]
        BY <2>0
      <3>2. k + 1 = 1 /\ r[k] = <<>>
        BY <2>3
      <3>3. f[k + 1] = seqs[k + 1]
        BY <3>2, <2>1, <1>4
      <3> QED
        BY <3>1, <3>2, <3>3, <2>2, Zenon
    <2>4. CASE k # 0
      <3>1. k + 1 # 1 /\ k + 1 - 1 = k /\ r[k] = f[k]
        BY <2>4
      <3> DEFINE x == k + 1
      <3>2. x \in 1..n /\ x # 1 /\ x - 1 = k
        BY <2>1, <3>1
      <3> HIDE DEF x
      <3>3. f[x] = f[x - 1] \o seqs[x]
        BY <3>2, <1>4, Zenon
      <3> QED
        BY <2>2, <3>1, <3>2, <3>3, Zenon DEF x
    <2> QED
      BY <2>3, <2>4
  <1>6. r[0] = <<>>
    OBVIOUS
  <1> HIDE DEF r
  <1> QED
    BY <1>3, <1>5, <1>6

\* What is in them is in the row, and nothing else.
LEMMA FlatRange ==
    ASSUME NEW S, NEW seqs \in Seq(Seq(S))
    PROVE  /\ FlattenSeq(seqs) \in Seq(S)
           /\ \A i \in 1..Len(seqs) : \A j \in 1..Len(seqs[i]) :
                 \E m \in 1..Len(FlattenSeq(seqs)) : FlattenSeq(seqs)[m] = seqs[i][j]
           /\ \A m \in 1..Len(FlattenSeq(seqs)) :
                 \E i \in 1..Len(seqs) : \E j \in 1..Len(seqs[i]) : FlattenSeq(seqs)[m] = seqs[i][j]
  <1> DEFINE Is(k, p) ==
               /\ p \in Seq(S)
               /\ \A i \in 1..k : \A j \in 1..Len(seqs[i]) : \E m \in 1..Len(p) : p[m] = seqs[i][j]
               /\ \A m \in 1..Len(p) : \E i \in 1..k : \E j \in 1..Len(seqs[i]) : p[m] = seqs[i][j]
  <1>1. PICK r : /\ r[0] = <<>>
                 /\ \A k \in Nat : k < Len(seqs) => r[k + 1] = r[k] \o seqs[k + 1]
                 /\ FlattenSeq(seqs) = r[Len(seqs)]
    BY FlatRow
  <1> DEFINE T == {k \in Nat : k <= Len(seqs) => Is(k, r[k])}
  <1>2. 0 \in T
    <2>1. Is(0, <<>>)
      OBVIOUS
    <2>2. 0 \in Nat /\ Is(0, r[0])
      <3> HIDE DEF Is
      <3> QED
        BY <1>1, <2>1
    <2> HIDE DEF Is
    <2> QED
      BY <2>2
  <1>3. ASSUME NEW k \in Nat, k \in T PROVE k + 1 \in T
    <2> SUFFICES ASSUME k + 1 <= Len(seqs) PROVE Is(k + 1, r[k + 1])
      OBVIOUS
    <2>1. k < Len(seqs) /\ k + 1 \in 1..Len(seqs)
      OBVIOUS
    <2>2. /\ r[k] \in Seq(S)
          /\ \A i \in 1..k : \A j \in 1..Len(seqs[i]) : \E m \in 1..Len(r[k]) : r[k][m] = seqs[i][j]
          /\ \A m \in 1..Len(r[k]) : \E i \in 1..k : \E j \in 1..Len(seqs[i]) : r[k][m] = seqs[i][j]
      BY <1>3, <2>1
    <2>3. PICK p \in Seq(S) : p = r[k]
      BY <2>2
    <2>4. PICK more \in Seq(S) : more = seqs[k + 1]
      BY <2>1
    <2>5. PICK w \in Seq(S) : w = p \o more
      <3>1. p \o more \in Seq(S)
        BY ConcatProperties
      <3> QED
        BY <3>1
    <2>6. /\ Len(w) = Len(p) + Len(more) /\ Len(p) \in Nat /\ Len(more) \in Nat
          /\ \A m \in 1..Len(p) : w[m] = p[m]
          /\ \A j \in 1..Len(more) : w[Len(p) + j] = more[j]
      BY <2>5
    <2>7. \A i \in 1..(k + 1) : \A j \in 1..Len(seqs[i]) : \E m \in 1..Len(w) : w[m] = seqs[i][j]
      <3> TAKE i \in 1..(k + 1)
      <3> TAKE j \in 1..Len(seqs[i])
      <3>1. CASE i = k + 1
        <4>1. seqs[i] = more /\ j \in 1..Len(more)
          BY <2>4, <3>1
        <4>2. Len(p) + j \in 1..Len(w)
          BY <2>6, <4>1
        <4>3. w[Len(p) + j] = more[j]
          BY <2>6, <4>1
        <4> QED
          BY <4>1, <4>2, <4>3
      <3>2. CASE i \in 1..k
        <4>1. PICK m \in 1..Len(p) : p[m] = seqs[i][j]
          BY <2>2, <2>3, <3>2
        <4>2. m \in 1..Len(w)
          BY <2>6
        <4> QED
          BY <2>6, <4>1, <4>2
      <3> QED
        BY <3>1, <3>2
    <2>8. \A m \in 1..Len(w) : \E i \in 1..(k + 1) : \E j \in 1..Len(seqs[i]) : w[m] = seqs[i][j]
      <3> TAKE m \in 1..Len(w)
      <3>1. CASE m \in 1..Len(p)
        <4>1. \E i \in 1..k : \E j \in 1..Len(seqs[i]) : p[m] = seqs[i][j]
          BY <2>2, <2>3, <3>1
        <4>2. \A i \in 1..k : i \in 1..(k + 1)
          OBVIOUS
        <4> QED
          BY <2>6, <3>1, <4>1, <4>2
      <3>2. CASE m \notin 1..Len(p)
        <4>1. m - Len(p) \in 1..Len(more) /\ m = Len(p) + (m - Len(p)) /\ k + 1 \in 1..(k + 1)
          BY <2>6, <3>2
        <4>2. w[m] = more[m - Len(p)]
          BY <2>6, <4>1
        <4> QED
          BY <2>4, <4>1, <4>2
      <3> QED
        BY <3>1, <3>2
    <2>9. r[k + 1] = w
      BY <1>1, <2>1, <2>3, <2>4, <2>5
    <2> QED
      BY <2>7, <2>8, <2>9
  <1> HIDE DEF T
  <1>4. \A k \in Nat : k \in T
    BY <1>2, <1>3, EveryNumber
  <1>5. Len(seqs) \in Nat /\ Len(seqs) <= Len(seqs)
    OBVIOUS
  <1>6. Is(Len(seqs), r[Len(seqs)])
    BY <1>4, <1>5 DEF T
  <1>7. Is(Len(seqs), FlattenSeq(seqs))
    <2> HIDE DEF Is
    <2> QED
      BY <1>1, <1>6, Zenon
  <1> QED
    BY <1>7, Zenon
=============================================================================
