-------------------------- MODULE AlgorithmsProofs --------------------------
(***************************************************************************)
(* What is proved of the commands that nothing runs beside: the documents   *)
(* of the inventory specification, the check for a newer version, the       *)
(* playbooks that names stand for, and the configuration.                   *)
(*                                                                         *)
(* The documents of one command, whatever they say and however many there  *)
(* are: commands run only where that is permitted, and what is accepted is *)
(* what the documents say together.  The argument has two halves.  The     *)
(* merge is a fold over all the files in a row; what it computes is proved  *)
(* by induction on their number, so that "MergedFilesAre" can say it in     *)
(* terms of the documents.  The command is followed by an invariant:        *)
(* "ReadSoFar" says that each document that was read says what its source   *)
(* said, "Cached" that the output in the cache is that of this document's   *)
(* own calls, "MergedSoFar" what passed.                                    *)
(*                                                                         *)
(* The check for a newer version: what is in the cache, and what is about   *)
(* to be saved, has its evidence, and the evidence is never older than the  *)
(* cache.                                                                  *)
(*                                                                         *)
(* The playbooks: whatever is tried in a row and found first can change     *)
(* only at the number where something appears, or because an earlier one    *)
(* hides it; this is proved for the directories of a collection, the        *)
(* collections of the view, the directories of the project, and all three.  *)
(*                                                                         *)
(* The arguments of a run: the loop that remembers which of them it has     *)
(* seen does what can be said of each by itself ("Becomes").  "ParseStep"   *)
(* says how far the command has come after k of them, one further when the  *)
(* last of them takes the next.                                            *)
(*                                                                         *)
(* The configuration: a merge is looked at one path at a time ("MergeIs",   *)
(* "SilentMerge", "LeafComes", "LeafStays"), a directory is a fold of       *)
(* merges, and a file of variables one of assignments.  "CfgInv" says that  *)
(* the configuration is a tree that has what the last directory said;       *)
(* whatever the environment becomes, the leaves, lists and maps of a file   *)
(* stay where they are ("FilesAlike").                                      *)
(***************************************************************************)
EXTENDS SpecRead, VersionCheck, Playbooks, Config, FiniteSetTheorems, SequenceTheorems,
        WellFoundedInduction, TLAPS

Outputs == [path : Spellings, text : TextKinds, from : Nat]

-----------------------------------------------------------------------------
(* Folds and sequences.                                                    *)

\* f is the fold of the files of q with every set of numbers up to n.
Folding(q, n, f) ==
    f = [s \in SUBSET (1..n) |->
           IF s = {} THEN <<>> ELSE PutFile(f[s \ {Max(s)}], q[Max(s)])]

\* The operator of the library picks such a function.
LEMMA FoldIs ==
    ASSUME NEW q \in Seq(Outputs), \E f : Folding(q, Len(q), f)
    PROVE  \E f : Folding(q, Len(q), f) /\ FoldLeft(PutFile, <<>>, q) = f[1..Len(q)]
  <1> DEFINE f == CHOOSE f : Folding(q, Len(q), f)
  <1>1. Folding(q, Len(q), f)
    OBVIOUS
  <1>2. DOMAIN q = 1..Len(q)
    OBVIOUS
  <1>3. FoldLeft(PutFile, <<>>, q) = f[1..Len(q)]
    BY <1>2, Zenon DEF FoldLeft, MapThenFoldSet, Folding
  <1> QED
    BY <1>1, <1>3

\* f is the first documents in a row, for each number of them up to n.
FlatIs(docs, n, f) ==
    f = [i \in 1..n |-> IF i = 1 THEN docs[i] ELSE f[i - 1] \o docs[i]]

\* Here too.
LEMMA FlattenIs ==
    ASSUME NEW docs \in Seq(Seq(Outputs)), docs # <<>>, \E f : FlatIs(docs, Len(docs), f)
    PROVE  \E f : FlatIs(docs, Len(docs), f) /\ FlattenSeq(docs) = f[Len(docs)]
  <1> DEFINE f == CHOOSE f : FlatIs(docs, Len(docs), f)
  <1>1. FlatIs(docs, Len(docs), f)
    OBVIOUS
  <1>2. Len(docs) # 0
    OBVIOUS
  <1>3. FlattenSeq(docs) = f[Len(docs)]
    BY <1>2, Zenon DEF FlattenSeq, FlatIs
  <1> QED
    BY <1>1, <1>3

\* What holds of 0, and of n + 1 if it holds of n, holds of every number.
LEMMA EveryNumber ==
    ASSUME NEW S, 0 \in S, \A n \in Nat : n \in S => n + 1 \in S
    PROVE  \A n \in Nat : n \in S
  <1> DEFINE T == {n \in Nat : n \notin S}
  <1>1. SUFFICES ASSUME T # {} PROVE FALSE
    OBVIOUS
  <1>2. T \subseteq Nat
    OBVIOUS
  <1> HIDE DEF T
  <1>3. PICK n \in T : \A k \in T : <<k, n>> \notin OpToRel(<, Nat)
    BY <1>1, <1>2, WFMin, NatLessThanWellFounded, Zenon
  <1>4. n \in Nat /\ n \notin S /\ \A k \in Nat : k \notin S => ~(k < n)
    BY <1>3 DEF T, OpToRel
  <1>5. n - 1 \in Nat /\ n - 1 < n /\ n - 1 + 1 = n
    BY <1>4
  <1>6. n - 1 \in S
    BY <1>4, <1>5
  <1> QED
    BY <1>4, <1>5, <1>6

\* The least and the greatest number of a set.
LEMMA HasMin ==
    ASSUME NEW T \in SUBSET Nat, T # {}
    PROVE  Min(T) \in T /\ \A y \in T : Min(T) =< y
  <1>1. PICK n \in T : \A k \in T : <<k, n>> \notin OpToRel(<, Nat)
    BY WFMin, NatLessThanWellFounded, Zenon
  <1>2. ASSUME NEW y \in T PROVE n =< y
    <2>1. y \in Nat /\ n \in Nat /\ <<y, n>> \notin OpToRel(<, Nat)
      BY <1>1
    <2>2. ~(y < n)
      BY <2>1 DEF OpToRel
    <2>3. y \in Nat /\ n \in Nat
      OBVIOUS
    <2> QED
      BY <2>2, <2>3
  <1> QED
    BY <1>2 DEF Min

LEMMA HasMax ==
    \A n \in Nat : \A T \in SUBSET (1..n) : T # {} => Max(T) \in T /\ \A y \in T : Max(T) >= y
  <1> DEFINE S == {n \in Nat : \A T \in SUBSET (1..n) : T # {} => \E x \in T : \A y \in T : x >= y}
  <1>1. 0 \in S
    <2>1. \A T \in SUBSET (1..0) : T = {}
      OBVIOUS
    <2> QED
      BY <2>1
  <1>2. ASSUME NEW n \in Nat, n \in S PROVE n + 1 \in S
    <2> SUFFICES ASSUME NEW T \in SUBSET (1..(n + 1)), T # {}
                 PROVE  \E x \in T : \A y \in T : x >= y
      OBVIOUS
    <2>1. CASE n + 1 \in T
      BY <2>1
    <2>2. CASE n + 1 \notin T
      <3>1. T \in SUBSET (1..n)
        BY <2>2
      <3> QED
        BY <3>1, <1>2
    <2> QED
      BY <2>1, <2>2
  <1> HIDE DEF S
  <1>3. \A n \in Nat : n \in S
    BY <1>1, <1>2, EveryNumber
  <1> QED
    BY <1>3 DEF S, Max

\* There is such a function, for any number of files.
LEMMA FoldExists ==
    ASSUME NEW q
    PROVE  \A n \in Nat : \E f : Folding(q, n, f)
  <1> DEFINE S == {n \in Nat : \E f : Folding(q, n, f)}
  <1>1. 0 \in S
    <2>1. Folding(q, 0, [s \in SUBSET (1..0) |-> <<>>])
      <3>1. \A s \in SUBSET (1..0) : s = {}
        OBVIOUS
      <3> QED
        BY <3>1 DEF Folding
    <2> QED
      BY <2>1
  <1>2. ASSUME NEW n \in Nat, n \in S PROVE n + 1 \in S
    <2>1. PICK f : Folding(q, n, f)
      BY <1>2
    <2> DEFINE g == [s \in SUBSET (1..(n + 1)) |->
                       IF s = {} THEN <<>> ELSE PutFile(f[s \ {Max(s)}], q[Max(s)])]
    <2>2. ASSUME NEW s \in SUBSET (1..(n + 1)), s # {}
          PROVE  s \ {Max(s)} \in SUBSET (1..n)
      <3>1. Max(s) \in s /\ \A y \in s : Max(s) >= y
        <4>1. n + 1 \in Nat
          OBVIOUS
        <4> QED
          BY ONLY <4>1, <2>2, HasMax
      <3> DEFINE x == Max(s)
      <3>2. ASSUME NEW y \in s, y # x PROVE y \in 1..n
        <4>1. x \in 1..(n + 1) /\ y \in 1..(n + 1) /\ x >= y
          BY <3>1
        <4> HIDE DEF x
        <4> QED
          BY <3>2, <4>1
      <3> HIDE DEF x
      <3> QED
        BY <3>2 DEF x
    <2>3. ASSUME NEW s \in SUBSET (1..n) PROVE g[s] = f[s]
      <3>1. f[s] = IF s = {} THEN <<>> ELSE PutFile(f[s \ {Max(s)}], q[Max(s)])
        BY <2>1, Zenon DEF Folding
      <3>2. s \in SUBSET (1..(n + 1))
        OBVIOUS
      <3> QED
        BY <3>1, <3>2, Zenon
    <2>4. g = [s \in SUBSET (1..(n + 1)) |->
                 IF s = {} THEN <<>> ELSE PutFile(g[s \ {Max(s)}], q[Max(s)])]
      <3>1. \A s \in SUBSET (1..(n + 1)) : s # {} => g[s \ {Max(s)}] = f[s \ {Max(s)}]
        BY <2>2, <2>3
      <3> QED
        BY <3>1, Zenon
    <2>5. Folding(q, n + 1, g)
      BY <2>4, Zenon DEF Folding
    <2> QED
      BY <2>5
  <1> HIDE DEF S
  <1>3. \A n \in Nat : n \in S
    BY <1>1, <1>2, EveryNumber
  <1> QED
    BY <1>3 DEF S

\* It goes from the first file to the last, one at a time.
LEMMA FoldSteps ==
    ASSUME NEW q, NEW n \in Nat, NEW f, Folding(q, n, f)
    PROVE  /\ f[1..0] = <<>>
           /\ \A k \in Nat : k < n => f[1..(k + 1)] = PutFile(f[1..k], q[k + 1])
  <1>1. \A s \in SUBSET (1..n) :
            f[s] = IF s = {} THEN <<>> ELSE PutFile(f[s \ {Max(s)}], q[Max(s)])
    BY Zenon DEF Folding
  <1>2. f[1..0] = <<>>
    <2>1. 1..0 \in SUBSET (1..n) /\ 1..0 = {}
      OBVIOUS
    <2> QED
      BY <1>1, <2>1, Zenon
  <1>3. ASSUME NEW k \in Nat, k < n PROVE f[1..(k + 1)] = PutFile(f[1..k], q[k + 1])
    <2> DEFINE s == 1..(k + 1)
    <2>1. s \in SUBSET (1..n) /\ s # {} /\ s \in SUBSET (1..(k + 1))
      BY <1>3
    <2>2. Max(s) \in s /\ \A y \in s : Max(s) >= y
      BY <2>1, HasMax
    <2>3. Max(s) = k + 1
      BY <2>2
    <2>4. s \ {k + 1} = 1..k
      OBVIOUS
    <2> HIDE DEF s
    <2> QED
      BY <1>1, <2>1, <2>3, <2>4 DEF s
  <1> QED
    BY <1>2, <1>3

\* A file takes the place of one with its path, or comes last.
LEMMA PutIs ==
    ASSUME NEW met \in Seq(Outputs), NEW f
    PROVE  \/ /\ \A k \in 1..Len(met) : met[k].path # f.path
              /\ PutFile(met, f) = Append(met, f)
           \/ \E k \in 1..Len(met) : met[k].path = f.path
              /\ PutFile(met, f) = [met EXCEPT ![k] = f]
  <1> DEFINE I == {i \in 1..Len(met) : met[i].path = f.path}
  <1>1. I \in SUBSET Nat
    OBVIOUS
  <1>2. CASE I = {}
    <2>1. PutFile(met, f) = Append(met, f)
      BY <1>2 DEF PutFile, SelectInSeq
    <2> QED
      BY <1>2, <2>1
  <1>3. CASE I # {}
    <2>1. Min(I) \in I
      BY <1>1, <1>3, HasMin
    <2>2. Min(I) # 0
      BY <2>1
    <2>3. PutFile(met, f) = [met EXCEPT ![Min(I)] = f]
      BY <1>3, <2>2 DEF PutFile, SelectInSeq, ReplaceAt
    <2> QED
      BY <2>1, <2>3
  <1> QED
    BY <1>2, <1>3

\* What the first k of these files are merged to.
PutFacts(q, k, m) ==
    /\ m \in Seq(Outputs)
    /\ \A i \in 1..k : \E j \in 1..Len(m) : m[j].path = q[i].path
    /\ \A j \in 1..Len(m) : \E i \in 1..k :
          m[j] = q[i] /\ \A l \in (i + 1)..k : q[l].path # m[j].path
    /\ \A i, j \in 1..Len(m) : m[i].path = m[j].path => i = j

\* One more file.
LEMMA PutStep ==
    ASSUME NEW q \in Seq(Outputs), NEW k \in Nat, k < Len(q), NEW m, PutFacts(q, k, m)
    PROVE  PutFacts(q, k + 1, PutFile(m, q[k + 1]))
  <1> DEFINE f == q[k + 1]
             p == PutFile(m, f)
  <1>1. /\ m \in Seq(Outputs) /\ Len(m) \in Nat /\ f \in Outputs
        /\ \A i \in 1..k : \E j \in 1..Len(m) : m[j].path = q[i].path
        /\ \A j \in 1..Len(m) : \E i \in 1..k :
              m[j] = q[i] /\ \A l \in (i + 1)..k : q[l].path # m[j].path
        /\ \A i, j \in 1..Len(m) : m[i].path = m[j].path => i = j
    <2>1. f \in Outputs
      OBVIOUS
    <2> HIDE DEF f, p
    <2>2. /\ m \in Seq(Outputs)
          /\ \A i \in 1..k : \E j \in 1..Len(m) : m[j].path = q[i].path
          /\ \A j \in 1..Len(m) : \E i \in 1..k :
                m[j] = q[i] /\ \A l \in (i + 1)..k : q[l].path # m[j].path
          /\ \A i, j \in 1..Len(m) : m[i].path = m[j].path => i = j
      BY Zenon DEF PutFacts
    <2>3. Len(m) \in Nat
      BY <2>2
    <2> QED
      BY <2>1, <2>2, <2>3, Zenon
  <1>2. ASSUME \A j \in 1..Len(m) : m[j].path # f.path, p = Append(m, f)
        PROVE  PutFacts(q, k + 1, p)
    <2>1. /\ p \in Seq(Outputs) /\ Len(p) = Len(m) + 1 /\ p[Len(m) + 1] = f
          /\ \A j \in 1..Len(m) : p[j] = m[j]
      BY <1>1, <1>2
    <2> HIDE DEF p
    <2>2. ASSUME NEW i \in 1..(k + 1) PROVE \E j \in 1..Len(p) : p[j].path = q[i].path
      <3>1. CASE i = k + 1
        BY <3>1, <2>1, <1>1
      <3>2. CASE i \in 1..k
        <4>1. PICK j \in 1..Len(m) : m[j].path = q[i].path
          BY <3>2, <1>1
        <4>2. j \in 1..Len(p) /\ p[j] = m[j]
          BY <4>1, <2>1, <1>1
        <4> QED
          BY <4>1, <4>2
      <3> QED
        BY <3>1, <3>2
    <2>3. ASSUME NEW j \in 1..Len(p)
          PROVE  \E i \in 1..(k + 1) :
                    p[j] = q[i] /\ \A l \in (i + 1)..(k + 1) : q[l].path # p[j].path
      <3>1. CASE j = Len(m) + 1
        <4>1. p[j] = q[k + 1] /\ k + 1 \in 1..(k + 1) /\ (k + 1 + 1)..(k + 1) = {}
          BY <3>1, <2>1
        <4> QED
          BY <4>1
      <3>2. CASE j \in 1..Len(m)
        <4>1. PICK i \in 1..k : m[j] = q[i] /\ \A l \in (i + 1)..k : q[l].path # m[j].path
          BY <3>2, <1>1
        <4>2. p[j] = m[j] /\ m[j].path # f.path
          BY <3>2, <2>1, <1>2
        <4>3. \A l \in (i + 1)..(k + 1) : l \in (i + 1)..k \/ l = k + 1
          OBVIOUS
        <4> QED
          BY <4>1, <4>2, <4>3
      <3> QED
        BY <3>1, <3>2, <2>1, <1>1
    <2>4. ASSUME NEW i \in 1..Len(p), NEW j \in 1..Len(p), p[i].path = p[j].path
          PROVE  i = j
      <3>1. i \in 1..Len(m) \/ i = Len(m) + 1
        BY <2>1, <1>1
      <3>2. j \in 1..Len(m) \/ j = Len(m) + 1
        BY <2>1, <1>1
      <3> HIDE DEF f
      <3> QED
        BY <2>1, <1>1, <1>2, <2>4, <3>1, <3>2
    <2> QED
      BY <2>1, <2>2, <2>3, <2>4 DEF PutFacts
  <1>3. ASSUME NEW spot \in 1..Len(m), m[spot].path = f.path, p = [m EXCEPT ![spot] = f]
        PROVE  PutFacts(q, k + 1, p)
    <2>1. /\ p \in Seq(Outputs) /\ Len(p) = Len(m) /\ p[spot] = f
          /\ \A j \in 1..Len(m) : j # spot => p[j] = m[j]
      BY <1>1, <1>3
    <2> HIDE DEF p
    <2>2. \A j \in 1..Len(m) : p[j].path = m[j].path
      BY <2>1, <1>3
    <2>3. ASSUME NEW i \in 1..(k + 1) PROVE \E j \in 1..Len(p) : p[j].path = q[i].path
      <3>1. CASE i = k + 1
        BY <3>1, <2>1, <1>1
      <3>2. CASE i \in 1..k
        BY <3>2, <1>1, <2>1, <2>2
      <3> QED
        BY <3>1, <3>2
    <2>4. ASSUME NEW j \in 1..Len(p)
          PROVE  \E i \in 1..(k + 1) :
                    p[j] = q[i] /\ \A l \in (i + 1)..(k + 1) : q[l].path # p[j].path
      <3>1. CASE j = spot
        <4>1. p[j] = q[k + 1] /\ k + 1 \in 1..(k + 1) /\ (k + 1 + 1)..(k + 1) = {}
          BY <3>1, <2>1
        <4> QED
          BY <4>1
      <3>2. CASE j # spot
        <4>1. PICK i \in 1..k : m[j] = q[i] /\ \A l \in (i + 1)..k : q[l].path # m[j].path
          BY <2>1, <1>1
        <4>2. p[j] = m[j] /\ m[j].path # f.path
          BY <3>2, <2>1, <1>1, <1>3
        <4>3. \A l \in (i + 1)..(k + 1) : l \in (i + 1)..k \/ l = k + 1
          OBVIOUS
        <4> QED
          BY <4>1, <4>2, <4>3
      <3> QED
        BY <3>1, <3>2
    <2> QED
      BY <2>1, <2>2, <2>3, <2>4, <1>1 DEF PutFacts
  <1> HIDE DEF f, p
  <1>4. \/ (\A j \in 1..Len(m) : m[j].path # f.path) /\ p = Append(m, f)
        \/ \E j \in 1..Len(m) : m[j].path = f.path /\ p = [m EXCEPT ![j] = f]
    BY <1>1, PutIs DEF p
  <1> QED
    BY <1>2, <1>3, <1>4 DEF p, f

\* All of them.
LEMMA Merging ==
    ASSUME NEW q \in Seq(Outputs)
    PROVE  PutFacts(q, Len(q), FoldLeft(PutFile, <<>>, q))
  <1>1. Len(q) \in Nat
    OBVIOUS
  <1>2. PICK f : Folding(q, Len(q), f) /\ FoldLeft(PutFile, <<>>, q) = f[1..Len(q)]
    BY <1>1, FoldExists, FoldIs
  <1> DEFINE S == {k \in Nat : k <= Len(q) => PutFacts(q, k, f[1..k])}
  <1>3. 0 \in S
    <2>1. f[1..0] = <<>>
      BY <1>1, <1>2, FoldSteps
    <2>2. PutFacts(q, 0, <<>>)
      BY DEF PutFacts
    <2> QED
      BY <2>1, <2>2
  <1>4. ASSUME NEW k \in Nat, k \in S PROVE k + 1 \in S
    <2> SUFFICES ASSUME k + 1 <= Len(q) PROVE PutFacts(q, k + 1, f[1..(k + 1)])
      OBVIOUS
    <2>1. k < Len(q) /\ PutFacts(q, k, f[1..k])
      BY <1>1, <1>4
    <2>2. f[1..(k + 1)] = PutFile(f[1..k], q[k + 1])
      BY <2>1, <1>1, <1>2, FoldSteps
    <2> QED
      BY <2>1, <2>2, PutStep
  <1> HIDE DEF S
  <1>5. \A k \in Nat : k \in S
    BY <1>3, <1>4, EveryNumber
  <1> QED
    BY <1>1, <1>2, <1>5 DEF S

LEMMA FlatExists ==
    ASSUME NEW docs
    PROVE  \A n \in Nat : \E f : FlatIs(docs, n, f)
  <1> DEFINE S == {n \in Nat : \E f : FlatIs(docs, n, f)}
  <1>1. 0 \in S
    <2>1. FlatIs(docs, 0, [i \in 1..0 |-> <<>>])
      BY DEF FlatIs
    <2> QED
      BY <2>1
  <1>2. ASSUME NEW n \in Nat, n \in S PROVE n + 1 \in S
    <2>1. PICK f : FlatIs(docs, n, f)
      BY <1>2
    <2> DEFINE g == [i \in 1..(n + 1) |-> IF i = 1 THEN docs[i] ELSE f[i - 1] \o docs[i]]
    <2>2. \A i \in 1..n : g[i] = f[i]
      <3> TAKE i \in 1..n
      <3>1. f[i] = IF i = 1 THEN docs[i] ELSE f[i - 1] \o docs[i]
        BY <2>1, Zenon DEF FlatIs
      <3>2. i \in 1..(n + 1)
        OBVIOUS
      <3> QED
        BY <3>1, <3>2, Zenon
    <2>3. \A i \in 1..(n + 1) : i # 1 => g[i - 1] = f[i - 1]
      <3> TAKE i \in 1..(n + 1)
      <3>1. i # 1 => i - 1 \in 1..n
        OBVIOUS
      <3> HIDE DEF g
      <3> QED
        BY <3>1, <2>2
    <2>4. g = [i \in 1..(n + 1) |-> IF i = 1 THEN docs[i] ELSE g[i - 1] \o docs[i]]
      BY <2>3, Zenon
    <2>5. FlatIs(docs, n + 1, g)
      BY <2>4, Zenon DEF FlatIs
    <2> QED
      BY <2>5
  <1> HIDE DEF S
  <1>3. \A n \in Nat : n \in S
    BY <1>1, <1>2, EveryNumber
  <1> QED
    BY <1>3 DEF S

\* What the first n documents are in a row: all of their files, and after a file of
\* one document come those of the later ones.
FlatFacts(docs, n, p) ==
    /\ p \in Seq(Outputs)
    /\ \A d \in 1..n : \A j \in 1..Len(docs[d]) : \E m \in 1..Len(p) : p[m] = docs[d][j]
    /\ \A m \in 1..Len(p) : \E d \in 1..n : \E j \in 1..Len(docs[d]) :
          /\ p[m] = docs[d][j]
          /\ \A e \in (d + 1)..n : \A i \in 1..Len(docs[e]) :
                \E l \in (m + 1)..Len(p) : p[l] = docs[e][i]

\* A number above one bound and below a smaller one.
LEMMA Between ==
    ASSUME NEW low \in Nat, NEW x \in Nat, NEW high \in Nat, NEW higher \in Nat,
           1 <= low, low + 1 <= x, x <= high, high <= higher
    PROVE  x \in (low + 1)..higher /\ x \in 1..high
  OBVIOUS

\* One more document.
LEMMA FlatStep ==
    ASSUME NEW docs \in Seq(Seq(Outputs)), NEW n \in Nat, n < Len(docs),
           NEW p, FlatFacts(docs, n, p)
    PROVE  FlatFacts(docs, n + 1, p \o docs[n + 1])
  <1> DEFINE more == docs[n + 1]
             r == p \o more
  <1>1. /\ p \in Seq(Outputs) /\ Len(p) \in Nat
        /\ more \in Seq(Outputs) /\ Len(more) \in Nat
        /\ \A d \in 1..n : \A j \in 1..Len(docs[d]) : \E m \in 1..Len(p) : p[m] = docs[d][j]
        /\ \A m \in 1..Len(p) : \E d \in 1..n : \E j \in 1..Len(docs[d]) :
              /\ p[m] = docs[d][j]
              /\ \A e \in (d + 1)..n : \A i \in 1..Len(docs[e]) :
                    \E l \in (m + 1)..Len(p) : p[l] = docs[e][i]
    BY DEF FlatFacts
  <1>2. /\ r \in Seq(Outputs) /\ Len(r) = Len(p) + Len(more)
        /\ \A m \in 1..Len(p) : r[m] = p[m]
        /\ \A j \in 1..Len(more) : r[Len(p) + j] = more[j]
    BY <1>1
  <1> HIDE DEF r
  <1>3. ASSUME NEW d \in 1..(n + 1), NEW j \in 1..Len(docs[d])
        PROVE  \E m \in 1..Len(r) : r[m] = docs[d][j]
    <2>1. CASE d = n + 1
      <3>1. Len(p) + j \in 1..Len(r) /\ r[Len(p) + j] = docs[d][j]
        BY <2>1, <1>1, <1>2
      <3> QED
        BY <3>1
    <2>2. CASE d \in 1..n
      <3>1. PICK m \in 1..Len(p) : p[m] = docs[d][j]
        BY <2>2, <1>1
      <3>2. m \in 1..Len(r) /\ r[m] = p[m]
        BY <1>1, <1>2
      <3> QED
        BY <3>1, <3>2, Zenon
    <2>3. d = n + 1 \/ d \in 1..n
      OBVIOUS
    <2> QED
      BY <2>1, <2>2, <2>3, Zenon
  <1>4. ASSUME NEW m \in 1..Len(r)
        PROVE  \E d \in 1..(n + 1) : \E j \in 1..Len(docs[d]) :
                  /\ r[m] = docs[d][j]
                  /\ \A e \in (d + 1)..(n + 1) : \A i \in 1..Len(docs[e]) :
                        \E l \in (m + 1)..Len(r) : r[l] = docs[e][i]
    <2>1. CASE m \in 1..Len(p)
      <3>1. PICK d \in 1..n : \E j \in 1..Len(docs[d]) :
                /\ p[m] = docs[d][j]
                /\ \A e \in (d + 1)..n : \A i \in 1..Len(docs[e]) :
                      \E l \in (m + 1)..Len(p) : p[l] = docs[e][i]
        BY <2>1, <1>1
      <3>1a. PICK j \in 1..Len(docs[d]) :
                /\ p[m] = docs[d][j]
                /\ \A e \in (d + 1)..n : \A i \in 1..Len(docs[e]) :
                      \E l \in (m + 1)..Len(p) : p[l] = docs[e][i]
        BY <3>1
      <3>2. ASSUME NEW e \in (d + 1)..(n + 1), NEW i \in 1..Len(docs[e])
            PROVE  \E l \in (m + 1)..Len(r) : r[l] = docs[e][i]
        <4>1. CASE e = n + 1
          <5>1. Len(p) + i \in (m + 1)..Len(r) /\ r[Len(p) + i] = docs[e][i]
            <6>1. i \in 1..Len(more) /\ docs[e] = more
              BY <4>1
            <6> HIDE DEF more
            <6>2. Len(p) + i \in (m + 1)..Len(r)
              BY <6>1, <2>1, <1>1, <1>2
            <6> QED
              BY <6>1, <6>2, <1>2
          <5> QED
            BY <5>1
        <4>2. CASE e \in (d + 1)..n
          <5>1. PICK l \in (m + 1)..Len(p) : p[l] = docs[e][i]
            BY <4>2, <3>1a
          <5>2. l \in (m + 1)..Len(r) /\ l \in 1..Len(p)
            <6> HIDE DEF more
            <6>1. m \in Nat /\ l \in Nat /\ m + 1 <= l /\ l <= Len(p) /\ 1 <= m
              BY <2>1, <1>1
            <6>2. Len(p) \in Nat /\ Len(r) \in Nat /\ Len(p) <= Len(r)
              BY <1>1, <1>2
            <6> QED
              BY <6>1, <6>2, Between, Zenon
          <5>3. r[l] = docs[e][i]
            BY <5>1, <5>2, <1>2, Zenon
          <5>4. l \in (m + 1)..Len(r)
            BY <5>2
          <5> QED
            BY <5>3, <5>4, Zenon
        <4>3. e = n + 1 \/ e \in (d + 1)..n
          OBVIOUS
        <4> QED
          BY <4>1, <4>2, <4>3, Zenon
      <3>3. r[m] = docs[d][j] /\ d \in 1..(n + 1)
        BY <2>1, <3>1a, <1>2
      <3>4. \A e \in (d + 1)..(n + 1) : \A i \in 1..Len(docs[e]) :
               \E l \in (m + 1)..Len(r) : r[l] = docs[e][i]
        BY <3>2, Zenon
      <3>5. \E i \in 1..Len(docs[d]) :
               /\ r[m] = docs[d][i]
               /\ \A e \in (d + 1)..(n + 1) : \A x \in 1..Len(docs[e]) :
                     \E l \in (m + 1)..Len(r) : r[l] = docs[e][x]
        BY <3>3, <3>4, Zenon
      <3> QED
        BY <3>3, <3>5, Zenon
    <2>2. CASE m \notin 1..Len(p)
      <3>1. m - Len(p) \in 1..Len(more) /\ m = Len(p) + (m - Len(p))
        BY <2>2, <1>1, <1>2
      <3>2. r[m] = docs[n + 1][m - Len(p)]
        BY <3>1, <1>2
      <3>3. n + 1 \in 1..(n + 1) /\ (n + 1 + 1)..(n + 1) = {}
        OBVIOUS
      <3> QED
        BY <3>1, <3>2, <3>3
    <2> QED
      BY <2>1, <2>2
  <1>5. FlatFacts(docs, n + 1, r)
    BY <1>2, <1>3, <1>4 DEF FlatFacts
  <1> QED
    BY <1>5 DEF r

\* All of them.
LEMMA Flattening ==
    ASSUME NEW docs \in Seq(Seq(Outputs)), docs # <<>>
    PROVE  FlatFacts(docs, Len(docs), FlattenSeq(docs))
  <1>1. Len(docs) \in Nat /\ Len(docs) # 0
    OBVIOUS
  <1>2. PICK f : FlatIs(docs, Len(docs), f) /\ FlattenSeq(docs) = f[Len(docs)]
    BY <1>1, FlatExists, FlattenIs
  <1>3. \A i \in 1..Len(docs) : f[i] = IF i = 1 THEN docs[i] ELSE f[i - 1] \o docs[i]
    BY <1>2, Zenon DEF FlatIs
  <1> DEFINE S == {k \in Nat : k + 1 <= Len(docs) => FlatFacts(docs, k + 1, f[k + 1])}
  <1>4. FlatFacts(docs, 0, <<>>) /\ <<>> \o docs[1] = docs[1]
    <2>1. docs[1] \in Seq(Outputs)
      BY <1>1
    <2> QED
      BY <2>1 DEF FlatFacts
  <1>5. 0 \in S
    <2>1. 0 < Len(docs) /\ f[1] = docs[1]
      BY <1>1, <1>3
    <2>2. FlatFacts(docs, 0 + 1, <<>> \o docs[0 + 1])
      BY <2>1, <1>4, FlatStep
    <2> QED
      BY <2>1, <2>2, <1>4
  <1>6. ASSUME NEW k \in Nat, k \in S PROVE k + 1 \in S
    <2> SUFFICES ASSUME k + 1 + 1 <= Len(docs) PROVE FlatFacts(docs, k + 1 + 1, f[k + 1 + 1])
      OBVIOUS
    <2>1. k + 1 < Len(docs) /\ k + 1 \in Nat /\ FlatFacts(docs, k + 1, f[k + 1])
      BY <1>1, <1>6
    <2>2. /\ k + 1 + 1 \in 1..Len(docs) /\ k + 1 + 1 # 1 /\ k + 1 + 1 - 1 = k + 1
      BY <1>1, <2>1
    <2>3. f[k + 1 + 1] = f[k + 1] \o docs[k + 1 + 1]
      <3> DEFINE x == k + 1 + 1
      <3>1. x \in 1..Len(docs) /\ x # 1 /\ x - 1 = k + 1
        BY <2>2
      <3> HIDE DEF x
      <3>2. f[x] = f[x - 1] \o docs[x]
        BY <3>1, <1>3, Zenon
      <3> QED
        BY <3>1, <3>2, Zenon DEF x
    <2> QED
      BY <2>1, <2>3, FlatStep
  <1> HIDE DEF S
  <1>7. \A k \in Nat : k \in S
    BY <1>5, <1>6, EveryNumber
  <1>8. Len(docs) - 1 \in Nat /\ Len(docs) - 1 + 1 = Len(docs)
    BY <1>1
  <1>9. FlatFacts(docs, Len(docs) - 1 + 1, f[Len(docs) - 1 + 1])
    <2> DEFINE x == Len(docs) - 1
    <2>1. x \in S /\ x + 1 <= Len(docs)
      BY <1>1, <1>7, <1>8
    <2> HIDE DEF x
    <2> QED
      BY <2>1 DEF S, x
  <1> QED
    BY <1>2, <1>8, <1>9, Zenon

\* Elements of sequences.
LEMMA ElementOf ==
    ASSUME NEW S, NEW seq \in Seq(S), NEW i \in 1..Len(seq)
    PROVE  seq[i] \in S
  OBVIOUS

LEMMA AppendIs ==
    ASSUME NEW S, NEW seq \in Seq(S), NEW e \in S
    PROVE  /\ Append(seq, e) \in Seq(S) /\ Len(Append(seq, e)) = Len(seq) + 1
           /\ \A i \in 1..Len(seq) : Append(seq, e)[i] = seq[i]
           /\ Append(seq, e)[Len(seq) + 1] = e
  OBVIOUS

\* What the documents are merged to: a file for each path that any of them names, and
\* each file is of the last document to name its path.
LEMMA MergedFilesAre ==
    ASSUME specs \in Seq([files : Seq(Outputs), keep : SUBSET Spellings]), specs # <<>>
    PROVE  /\ MergedFiles \in Seq(Outputs)
           /\ \A d \in 1..Len(specs) : \A j \in 1..Len(specs[d].files) :
                 \E k \in 1..Len(MergedFiles) : MergedFiles[k].path = specs[d].files[j].path
           /\ \A k \in 1..Len(MergedFiles) :
                 \E d \in 1..Len(specs) : \E j \in 1..Len(specs[d].files) :
                    /\ MergedFiles[k] = specs[d].files[j]
                    /\ \A e \in (d + 1)..Len(specs) : \A i \in 1..Len(specs[e].files) :
                          specs[e].files[i].path # MergedFiles[k].path
  <1> DEFINE docs == [i \in DOMAIN specs |-> specs[i].files]
             q == FlattenSeq(docs)
             m == FoldLeft(PutFile, <<>>, q)
  <1>1. /\ docs \in Seq(Seq(Outputs)) /\ docs # <<>> /\ Len(docs) = Len(specs)
        /\ Len(specs) \in Nat /\ \A i \in 1..Len(specs) : docs[i] = specs[i].files
    <2>1. DOMAIN specs = 1..Len(specs) /\ Len(specs) \in Nat /\ Len(specs) # 0
      OBVIOUS
    <2>2. ASSUME NEW i \in 1..Len(specs) PROVE specs[i].files \in Seq(Outputs)
      <3> HIDE DEF docs
      <3>1. specs[i] \in [files : Seq(Outputs), keep : SUBSET Spellings]
        BY ElementOf
      <3> QED
        BY <3>1
    <2> QED
      BY <2>1, <2>2
  <1>2. MergedFiles = m
    BY DEF MergedFiles
  <1> HIDE DEF docs
  <1>3. FlatFacts(docs, Len(docs), q)
    BY <1>1, Flattening
  <1> HIDE DEF q
  <1>4. PutFacts(q, Len(q), m) /\ q \in Seq(Outputs) /\ Len(q) \in Nat
    BY <1>3, Merging DEF FlatFacts
  <1> HIDE DEF m
  <1>5. ASSUME NEW d \in 1..Len(specs), NEW j \in 1..Len(specs[d].files)
        PROVE  \E k \in 1..Len(m) : m[k].path = specs[d].files[j].path
    <2>1. PICK i \in 1..Len(q) : q[i] = docs[d][j]
      BY <1>1, <1>3, <1>5 DEF FlatFacts
    <2>2. PICK k \in 1..Len(m) : m[k].path = q[i].path
      BY <1>4 DEF PutFacts
    <2> QED
      BY <1>1, <2>1, <2>2
  <1>6. ASSUME NEW k \in 1..Len(m)
        PROVE  \E d \in 1..Len(specs) : \E j \in 1..Len(specs[d].files) :
                  /\ m[k] = specs[d].files[j]
                  /\ \A e \in (d + 1)..Len(specs) : \A i \in 1..Len(specs[e].files) :
                        specs[e].files[i].path # m[k].path
    <2>1. PICK i \in 1..Len(q) : m[k] = q[i] /\ \A l \in (i + 1)..Len(q) : q[l].path # m[k].path
      BY <1>4 DEF PutFacts
    <2>2. PICK d \in 1..Len(docs) : \E j \in 1..Len(docs[d]) :
              /\ q[i] = docs[d][j]
              /\ \A e \in (d + 1)..Len(docs) : \A h \in 1..Len(docs[e]) :
                    \E l \in (i + 1)..Len(q) : q[l] = docs[e][h]
      BY <1>3 DEF FlatFacts
    <2>1a. PICK j \in 1..Len(docs[d]) :
              /\ q[i] = docs[d][j]
              /\ \A e \in (d + 1)..Len(docs) : \A h \in 1..Len(docs[e]) :
                    \E l \in (i + 1)..Len(q) : q[l] = docs[e][h]
      BY <2>2
    <2>3. ASSUME NEW e \in (d + 1)..Len(specs), NEW h \in 1..Len(specs[e].files)
          PROVE  specs[e].files[h].path # m[k].path
      <3>1. e \in 1..Len(specs) /\ e \in (d + 1)..Len(docs) /\ docs[e] = specs[e].files
        BY <1>1, <2>2
      <3>2. PICK l \in (i + 1)..Len(q) : q[l] = docs[e][h]
        BY <2>1a, <3>1
      <3> QED
        BY <2>1, <3>1, <3>2
    <2>4. d \in 1..Len(specs) /\ docs[d] = specs[d].files
      BY <1>1, <2>2
    <2> QED
      BY <2>1a, <2>1, <2>3, <2>4
  <1>7. m \in Seq(Outputs)
    BY <1>4 DEF PutFacts
  <1> QED
    BY <1>2, <1>5, <1>6, <1>7

-----------------------------------------------------------------------------
(* The command.                                                            *)

\* What becomes of a path of a document that is rendered, or is not.
Norm(option, path) == IF Version(option) \in PathRendered THEN Rendered(path) ELSE path

\* What was read says what the option said.
SaysAs(option, document) ==
    /\ document.keep = {Norm(option, k) : k \in option.keep}
    /\ Len(document.files) = Len(option.files)
    /\ \A n \in 1..Len(option.files) :
          /\ document.files[n].path = Norm(option, option.files[n].path)
          /\ document.files[n].text = option.files[n].text

\* A document that passed the checks.
MayBeRead(option, settings) == Parsed(option) /\ Version(option) <= settings.max

\* Types.
ReadTypes ==
    /\ sources \in Seq(Documents) /\ policy \in Policies
    /\ phase \in {"start", "read", "render", "add", "resolve", "accepted", "refused"}
    /\ at \in 1..(Len(sources) + 1)
    /\ specs \in Seq([files : Seq(Outputs), keep : SUBSET Spellings])
    /\ files \in Seq(Outputs) /\ left \in Seq(FilesWritten)
    /\ called \in Seq([call : IoCalls, source : Nat])
    /\ cache \in [IoCalls -> Nat]

\* Where the command is, it may be.
UnderPolicy ==
    /\ phase \in {"read", "render", "add"} => policy.enabled
    /\ phase \in {"read", "render", "add", "resolve"} => sources # <<>>
    /\ phase \in {"render", "add"} => at <= Len(sources) /\ MayBeRead(sources[at], policy)
    /\ phase = "render" => Version(sources[at]) \in PathRendered
    /\ phase = "add" => Version(sources[at]) \notin PathRendered /\ left = <<>>

\* The documents that were read, and the one in hand.
ReadSoFar ==
    /\ phase = "start" => specs = <<>> /\ at = 1
    /\ phase \in {"read", "render", "add", "resolve"} =>
          Len(specs) = at - 1 /\ \A i \in 1..Len(specs) : SaysAs(sources[i], specs[i])
    /\ phase = "resolve" => at = Len(sources) + 1
    /\ phase \in {"render", "add"} =>
          /\ Len(files) + Len(left) = Len(sources[at].files)
          /\ \A n \in 1..Len(files) :
                /\ files[n].path = Norm(sources[at], sources[at].files[n].path)
                /\ files[n].text = sources[at].files[n].text
          /\ \A n \in 1..Len(left) : left[n] = sources[at].files[Len(files) + n]

\* Every call was permitted, and no two are the same.
CallsSoFar ==
    /\ \A k \in 1..Len(called) :
          /\ called[k].source \in 1..Len(sources) /\ called[k].source <= at
          /\ policy.enabled /\ policy.io
          /\ sources[called[k].source].version = 3 /\ 3 <= policy.max
          /\ phase \in {"start", "read", "add"} => called[k].source < at
    /\ \A i, j \in 1..Len(called) : called[i] = called[j] => i = j

\* While a document is rendered, the cache has its calls, and nothing else gave output.
Cached ==
    phase = "render" =>
        /\ \A c \in IoCalls :
              /\ cache[c] # 0 => /\ cache[c] \in 1..Len(called)
                                 /\ called[cache[c]] = [call |-> c, source |-> at]
              /\ cache[c] = 0 => \A k \in 1..Len(called) : called[k] # [call |-> c, source |-> at]
        /\ \A n \in 1..Len(files) :
              /\ files[n].from # 0 <=>
                    files[n].text \in IoCalls /\ Version(sources[at]) \in ContentRendered
              /\ files[n].from # 0 => files[n].from = cache[files[n].text]

\* What was merged is what all documents say, and nothing of it is kept or outside.
MergedSoFar ==
    /\ phase \in {"resolve", "accepted"} /\ sources # <<>> =>
          /\ Len(specs) = Len(sources) /\ \A i \in 1..Len(specs) : SaysAs(sources[i], specs[i])
          /\ ~Contradiction
    /\ phase = "resolve" => files = MergedFiles
    /\ phase = "accepted" /\ sources # <<>> =>
          /\ \A k \in 1..Len(MergedFiles) : MergedFiles[k].path.as # "outside"
          /\ \A k \in AllKept : k.as # "outside"
          /\ accepted.files = [k \in DOMAIN MergedFiles |->
                                 [MergedFiles[k] EXCEPT !.path = Target(@)]]

ReadInv == ReadTypes /\ UnderPolicy /\ ReadSoFar /\ CallsSoFar /\ Cached /\ MergedSoFar

\* What no step changes.
Fixed == sources' = sources /\ policy' = policy

\* The types of a source.
LEMMA OptionFacts ==
    ASSUME ReadTypes, NEW i \in 1..Len(sources)
    PROVE  /\ sources[i] \in [from : {"stdin", "template", "file", "missing", "terminal"},
                              valid : BOOLEAN, version : Int, files : Seq(FilesWritten),
                              keep : SUBSET Spellings]
           /\ sources[i].files \in Seq(FilesWritten) /\ Len(sources[i].files) \in Nat
           /\ sources[i].keep \in SUBSET Spellings
           /\ sources[i].version \in Int /\ Version(sources[i]) \in Int
  <1>1. sources[i] \in Documents
    BY ElementOf DEF ReadTypes
  <1>2. sources[i] \in [from : {"stdin", "template", "file", "missing", "terminal"},
                        valid : BOOLEAN, version : Int, files : Seq(FilesWritten),
                        keep : SUBSET Spellings]
    BY <1>1, OptionsAssumption
  <1>3. /\ sources[i].files \in Seq(FilesWritten) /\ sources[i].keep \in SUBSET Spellings
        /\ sources[i].version \in Int
    BY <1>2
  <1>4. Len(sources[i].files) \in Nat
    BY <1>3, LenProperties
  <1>5. Version(sources[i]) \in Int
    BY <1>3 DEF Version
  <1> QED
    BY <1>2, <1>3, <1>4, <1>5

\* A path that is rendered is a path.
LEMMA NormIn ==
    ASSUME NEW path \in Spellings, NEW option
    PROVE  Rendered(path) \in Spellings /\ Norm(option, path) \in Spellings
  <1>1. path \in [of : DOMAIN Below, as : PathForms]
    BY DEF Spellings
  <1>2. Rendered(path) \in [of : DOMAIN Below, as : PathForms]
    BY <1>1 DEF Rendered, PathForms
  <1> QED
    BY <1>1, <1>2 DEF Norm, Spellings

\* While the documents and what was made of them stay, so does what they are merged to.
LEMMA SpecsStay ==
    ASSUME specs' = specs
    PROVE  MergedFiles' = MergedFiles /\ AllKept' = AllKept /\ Contradiction' = Contradiction
  BY Zenon DEF MergedFiles, AllKept, Contradiction

-----------------------------------------------------------------------------
(* One lemma for each action.                                              *)

\* Nothing is said of a command that refused, but that its calls were permitted.
LEMMA RefuseStep ==
    ASSUME ReadInv, Fixed, Refuse
    PROVE  ReadInv'
  <1>1. /\ phase' = "refused" /\ at' = at /\ left' = left /\ files' = files /\ cache' = cache
        /\ specs' = specs /\ called' = called /\ accepted' = accepted
        /\ sources' = sources /\ policy' = policy
    BY DEF Refuse, Fixed
  <1>2. ReadTypes'
    BY <1>1 DEF ReadInv, ReadTypes
  <1>3. UnderPolicy' /\ ReadSoFar' /\ Cached' /\ MergedSoFar'
    BY <1>1 DEF UnderPolicy, ReadSoFar, Cached, MergedSoFar
  <1>4. CallsSoFar'
    BY <1>1 DEF ReadInv, CallsSoFar
  <1> QED
    BY <1>2, <1>3, <1>4 DEF ReadInv

LEMMA StartStep ==
    ASSUME ReadInv, Fixed, Start
    PROVE  ReadInv'
  <1>1. ASSUME phase' \in {"accepted", "read"}, phase' = "accepted" => sources = <<>>,
               phase' = "read" => sources # <<>> /\ policy.enabled,
               UNCHANGED <<at, left, files, cache, specs, called, accepted>>
        PROVE  ReadInv'
    <2>1. /\ at' = at /\ left' = left /\ files' = files /\ cache' = cache
          /\ specs' = specs /\ called' = called /\ sources' = sources /\ policy' = policy
          /\ phase = "start" /\ specs = <<>> /\ at = 1
      BY <1>1 DEF Fixed, Start, ReadInv, ReadSoFar
    <2>2. ReadTypes'
      BY <1>1, <2>1 DEF ReadInv, ReadTypes
    <2>3. UnderPolicy' /\ ReadSoFar' /\ Cached' /\ MergedSoFar'
      BY <1>1, <2>1 DEF UnderPolicy, ReadSoFar, Cached, MergedSoFar
    <2>4. CallsSoFar'
      BY <1>1, <2>1 DEF ReadInv, CallsSoFar
    <2> QED
      BY <2>2, <2>3, <2>4 DEF ReadInv
  <1>2. CASE Refuse
    BY <1>2, RefuseStep
  <1>3. \/ sources = <<>> /\ phase' = "accepted"
           /\ UNCHANGED <<at, left, files, cache, specs, called, accepted>>
        \/ sources # <<>> /\ policy.enabled /\ phase' = "read"
           /\ UNCHANGED <<at, left, files, cache, specs, called, accepted>>
        \/ Refuse
    BY DEF Start
  <1> QED
    BY <1>1, <1>2, <1>3

LEMMA ReadStep ==
    ASSUME ReadInv, Fixed, Read
    PROVE  ReadInv'
  <1> DEFINE option == sources[at]
  <1>1. CASE Refuse
    BY <1>1, RefuseStep
  <1>2. /\ phase = "read" /\ at \in 1..Len(sources) /\ Len(sources) \in Nat
        /\ sources' = sources /\ policy' = policy
    <2>1. sources \in Seq(Documents) /\ at \in 1..(Len(sources) + 1) /\ at <= Len(sources)
      BY DEF Read, ReadInv, ReadTypes
    <2>2. Len(sources) \in Nat
      BY <2>1, LenProperties
    <2> QED
      BY <2>1, <2>2 DEF Read, Fixed
  <1>3. /\ option.files \in Seq(FilesWritten) /\ Len(option.files) \in Nat
        /\ DOMAIN option.files = 1..Len(option.files)
    BY <1>2, OptionFacts, LenProperties DEF ReadInv
  <1>4. ASSUME ~Refuse
        PROVE  /\ MayBeRead(option, policy) /\ cache' = NoCalls
               /\ at' = at /\ specs' = specs /\ called' = called /\ accepted' = accepted
               /\ \/ /\ Version(option) \in PathRendered
                     /\ phase' = "render" /\ left' = option.files /\ files' = <<>>
                  \/ /\ Version(option) \notin PathRendered /\ phase' = "add" /\ left' = <<>>
                     /\ files' = [k \in DOMAIN option.files |-> Literal(option.files[k])]
    BY <1>4 DEF Read, Permitted, MayBeRead
  <1> HIDE DEF option
  <1>5. ASSUME ~Refuse, phase' = "render", Version(option) \in PathRendered,
               left' = option.files, files' = <<>>
        PROVE  ReadInv'
    <2>1. ReadTypes'
      BY <1>2, <1>3, <1>4, <1>5 DEF ReadInv, ReadTypes, NoCalls
    <2>2. UnderPolicy'
      BY <1>2, <1>4, <1>5 DEF UnderPolicy, ReadInv, option
    <2>3. ReadSoFar'
      BY <1>2, <1>3, <1>4, <1>5 DEF ReadSoFar, ReadInv, option
    <2>4. CallsSoFar'
      BY <1>2, <1>4, <1>5 DEF CallsSoFar, ReadInv
    <2>5. Cached'
      <3>1. \A k \in 1..Len(called) : called[k].source < at
        BY <1>2 DEF CallsSoFar, ReadInv
      <3>2. \A k \in 1..Len(called), c \in IoCalls : called[k] # [call |-> c, source |-> at]
        BY <1>2, <3>1
      <3> QED
        BY <1>4, <1>5, <3>2 DEF Cached, NoCalls
    <2>6. MergedSoFar'
      BY <1>5 DEF MergedSoFar
    <2> QED
      BY <2>1, <2>2, <2>3, <2>4, <2>5, <2>6 DEF ReadInv
  <1>6. ASSUME ~Refuse, phase' = "add", Version(option) \notin PathRendered, left' = <<>>,
               files' = [k \in DOMAIN option.files |-> Literal(option.files[k])]
        PROVE  ReadInv'
    <2>1. \A k \in 1..Len(option.files) :
              /\ option.files[k] \in FilesWritten
              /\ files'[k] \in Outputs
              /\ files'[k].path = option.files[k].path /\ files'[k].text = option.files[k].text
      <3> TAKE k \in 1..Len(option.files)
      <3>1. option.files[k] \in FilesWritten
        BY <1>3, ElementOf
      <3>2. files'[k] = Literal(option.files[k])
        BY <1>3, <1>6
      <3> QED
        BY <3>1, <3>2 DEF Literal, FilesWritten, Outputs
    <2>2. files' \in Seq(Outputs) /\ Len(files') = Len(option.files)
      <3>1. files' = [k \in 1..Len(option.files) |-> files'[k]]
        BY <1>3, <1>6
      <3>2. files' \in [1..Len(option.files) -> Outputs]
        BY <2>1, <3>1
      <3> QED
        BY <1>3, <3>2
    <2>3. ReadTypes'
      BY <1>2, <1>4, <1>6, <2>2 DEF ReadInv, ReadTypes, NoCalls
    <2>4. UnderPolicy'
      BY <1>2, <1>4, <1>6 DEF UnderPolicy, ReadInv, option
    <2>5. ReadSoFar'
      <3>1. \A k \in 1..Len(files') :
                /\ files'[k].path = Norm(option, option.files[k].path)
                /\ files'[k].text = option.files[k].text
        <4> TAKE k \in 1..Len(files')
        <4>1. k \in 1..Len(option.files)
          BY <2>2
        <4>2. Norm(option, option.files[k].path) = option.files[k].path
          BY <1>6 DEF Norm
        <4> QED
          BY <2>1, <4>1, <4>2
      <3> QED
        <4>1. Len(specs) = at - 1 /\ \A i \in 1..Len(specs) : SaysAs(sources[i], specs[i])
          BY <1>2 DEF ReadSoFar, ReadInv
        <4>2. Len(files') + Len(left') = Len(option.files) /\ \A n \in 1..Len(left') : FALSE
          BY <1>3, <1>6, <2>2
        <4>3. at' = at /\ specs' = specs /\ sources' = sources /\ phase' = "add"
          BY <1>2, <1>4, <1>6
        <4> QED
          BY ONLY <3>1, <4>1, <4>2, <4>3 DEF ReadSoFar, option
    <2>6. CallsSoFar'
      BY <1>2, <1>4, <1>6 DEF CallsSoFar, ReadInv
    <2>7. Cached' /\ MergedSoFar'
      BY <1>6 DEF Cached, MergedSoFar
    <2> QED
      BY <2>3, <2>4, <2>5, <2>6, <2>7 DEF ReadInv
  <1> QED
    BY <1>1, <1>4, <1>5, <1>6

\* Where a document is in hand.
LEMMA InRender ==
    ASSUME ReadInv, phase \in {"render", "add"}
    PROVE  /\ at \in 1..Len(sources) /\ Len(sources) \in Nat /\ MayBeRead(sources[at], policy)
           /\ policy.enabled
  <1>1. sources \in Seq(Documents) /\ at \in 1..(Len(sources) + 1) /\ at <= Len(sources)
    BY DEF UnderPolicy, ReadInv, ReadTypes
  <1>2. Len(sources) \in Nat
    BY <1>1, LenProperties
  <1> QED
    BY <1>1, <1>2 DEF ReadInv, UnderPolicy

\* The next file of the document is put to those that are rendered.
LEMMA KeepFacts ==
    ASSUME ReadInv, Fixed, phase = "render", left # <<>>, NEW output \in Nat,
           Keep(left[1], output)
    PROVE  /\ phase' = "render" /\ at' = at /\ specs' = specs /\ accepted' = accepted
           /\ sources' = sources /\ policy' = policy
           /\ files' \in Seq(Outputs) /\ left' \in Seq(FilesWritten)
           /\ Len(files) \in Nat /\ Len(files') = Len(files) + 1
           /\ \A n \in 1..Len(files) : files'[n] = files[n]
           /\ files'[Len(files) + 1].text = left[1].text
           /\ files'[Len(files) + 1].from = output
           /\ UnderPolicy' /\ ReadSoFar' /\ MergedSoFar'
  <1> DEFINE f == left[1]
             entry == [path |-> Rendered(f.path), text |-> f.text, from |-> output]
             option == sources[at]
  <1>1. /\ phase' = "render" /\ at' = at /\ specs' = specs /\ accepted' = accepted
        /\ sources' = sources /\ policy' = policy
        /\ files' = Append(files, entry) /\ left' = Tail(left)
    BY DEF Keep, Fixed
  <1>2. /\ files \in Seq(Outputs) /\ left \in Seq(FilesWritten)
        /\ Len(files) \in Nat /\ Len(left) \in Nat /\ 1 \in 1..Len(left)
    <2>1. files \in Seq(Outputs) /\ left \in Seq(FilesWritten)
      BY DEF ReadInv, ReadTypes
    <2> QED
      BY <2>1
  <1>3. f \in FilesWritten /\ entry \in Outputs
    <2>1. f \in FilesWritten
      BY <1>2, ElementOf
    <2>2. Rendered(f.path) \in Spellings
      BY <2>1, NormIn DEF FilesWritten
    <2> QED
      BY <2>1, <2>2 DEF FilesWritten, Outputs
  <1>4. /\ Len(files) + Len(left) = Len(option.files)
        /\ \A n \in 1..Len(files) : /\ files[n].path = Norm(option, option.files[n].path)
                                    /\ files[n].text = option.files[n].text
        /\ \A n \in 1..Len(left) : left[n] = option.files[Len(files) + n]
        /\ Version(option) \in PathRendered
    BY DEF ReadInv, ReadSoFar, UnderPolicy
  <1>5. entry.path = Norm(option, option.files[Len(files) + 1].path)
        /\ entry.text = option.files[Len(files) + 1].text
        /\ entry.text = left[1].text /\ entry.from = output
    BY <1>2, <1>4 DEF Norm
  <1> HIDE DEF entry, option, f
  <1>6. /\ files' \in Seq(Outputs) /\ Len(files') = Len(files) + 1
        /\ \A n \in 1..Len(files) : files'[n] = files[n]
        /\ files'[Len(files) + 1] = entry
    BY <1>1, <1>2, <1>3
  <1>7. /\ left' \in Seq(FilesWritten) /\ Len(left') = Len(left) - 1
        /\ \A n \in 1..Len(left') : left'[n] = left[n + 1] /\ n + 1 \in 1..Len(left)
    BY <1>1, <1>2
  <1>8. UnderPolicy'
    BY <1>1 DEF UnderPolicy, ReadInv
  <1>9. ReadSoFar'
    <2>1. Len(files') + Len(left') = Len(option.files)
      <3>1. /\ Len(files') = Len(files) + 1 /\ Len(left') = Len(left) - 1
            /\ Len(files) \in Nat /\ Len(left) \in Nat
            /\ Len(files) + Len(left) = Len(option.files)
        BY <1>2, <1>4, <1>6, <1>7
      <3> QED
        BY ONLY <3>1
    <2>2. ASSUME NEW n \in 1..Len(files')
          PROVE  /\ files'[n].path = Norm(option, option.files[n].path)
                 /\ files'[n].text = option.files[n].text
      <3>1. n \in 1..Len(files) \/ n = Len(files) + 1
        BY <1>2, <1>6
      <3> QED
        BY <3>1, <1>4, <1>5, <1>6
    <2>3. ASSUME NEW n \in 1..Len(left') PROVE left'[n] = option.files[Len(files') + n]
      <3>1. Len(files) + (n + 1) = Len(files') + n
        BY <1>2, <1>6, <1>7
      <3> QED
        BY <3>1, <1>4, <1>7
    <2> QED
      BY <1>1, <2>1, <2>2, <2>3 DEF ReadSoFar, ReadInv, option
  <1>10. MergedSoFar'
    BY <1>1 DEF MergedSoFar
  <1> QED
    BY <1>1, <1>2, <1>5, <1>6, <1>7, <1>8, <1>9, <1>10

LEMMA RenderTextStep ==
    ASSUME ReadInv, Fixed, RenderText
    PROVE  ReadInv'
  <1>1. CASE Refuse
    BY <1>1, RefuseStep
  <1>2. ASSUME Keep(left[1], 0), UNCHANGED <<cache, called>>,
               \/ left[1].text \in {"null", "clear", "text"}
               \/ Version(sources[at]) \notin ContentRendered
        PROVE  ReadInv'
    <2>1. phase = "render" /\ left # <<>>
      BY DEF RenderText
    <2>2. /\ phase' = "render" /\ at' = at /\ specs' = specs
          /\ sources' = sources /\ policy' = policy
          /\ files' \in Seq(Outputs) /\ left' \in Seq(FilesWritten)
          /\ Len(files) \in Nat /\ Len(files') = Len(files) + 1
          /\ \A n \in 1..Len(files) : files'[n] = files[n]
          /\ files'[Len(files) + 1].text = left[1].text
          /\ files'[Len(files) + 1].from = 0
          /\ UnderPolicy' /\ ReadSoFar' /\ MergedSoFar'
      BY <1>2, <2>1, KeepFacts
    <2>3. ReadTypes'
      BY <1>2, <2>1, <2>2 DEF ReadInv, ReadTypes
    <2>4. CallsSoFar'
      BY <1>2, <2>1, <2>2 DEF ReadInv, CallsSoFar
    <2>5. Cached'
      <3>1. ASSUME NEW n \in 1..Len(files')
            PROVE  /\ files'[n].from # 0 <=>
                        files'[n].text \in IoCalls /\ Version(sources[at]) \in ContentRendered
                   /\ files'[n].from # 0 => files'[n].from = cache[files'[n].text]
        <4>1. CASE n = Len(files) + 1
          BY <4>1, <1>2, <2>2 DEF IoCalls
        <4>2. CASE n \in 1..Len(files)
          BY <4>2, <2>1, <2>2 DEF ReadInv, Cached
        <4> QED
          BY <4>1, <4>2, <2>2
      <3> QED
        BY <1>2, <2>1, <2>2, <3>1 DEF ReadInv, Cached
    <2> QED
      BY <2>2, <2>3, <2>4, <2>5 DEF ReadInv
  <1> QED
    BY <1>1, <1>2 DEF RenderText

\* What may call is of version 3.
LEMMA VersionThree ==
    ASSUME ReadInv, phase = "render", Version(sources[at]) \in IoVersions
    PROVE  sources[at].version = 3 /\ 3 <= policy.max
  <1>1. MayBeRead(sources[at], policy)
    BY InRender
  <1> QED
    BY <1>1 DEF MayBeRead, Version, IoVersions, NoVersion

\* A call that is made is a new one, and permitted.
LEMMA CalledStep ==
    ASSUME ReadInv, Fixed, phase = "render", at' = at, phase' \in {"render", "refused"},
           NEW c \in IoCalls, cache[c] = 0, policy.io, Version(sources[at]) \in IoVersions,
           called' = Append(called, [call |-> c, source |-> at])
    PROVE  /\ called' \in Seq([call : IoCalls, source : Nat])
           /\ Len(called) \in Nat /\ Len(called') = Len(called) + 1
           /\ \A k \in 1..Len(called) : called'[k] = called[k]
           /\ called'[Len(called) + 1] = [call |-> c, source |-> at]
           /\ \A k \in 1..Len(called) : called[k] # [call |-> c, source |-> at]
           /\ CallsSoFar'
  <1> DEFINE this == [call |-> c, source |-> at]
  <1>1. /\ at \in 1..Len(sources) /\ Len(sources) \in Nat
        /\ sources' = sources /\ policy' = policy
    BY InRender DEF Fixed
  <1>2. /\ called \in Seq([call : IoCalls, source : Nat])
        /\ this \in [call : IoCalls, source : Nat] /\ this.source = at
    BY <1>1 DEF ReadInv, ReadTypes
  <1>3. \A k \in 1..Len(called) : called[k] # this
    BY DEF ReadInv, Cached
  <1> HIDE DEF this
  <1>4. /\ called' \in Seq([call : IoCalls, source : Nat])
        /\ Len(called) \in Nat /\ Len(called') = Len(called) + 1
        /\ \A k \in 1..Len(called) : called'[k] = called[k]
        /\ called'[Len(called) + 1] = this
    BY <1>2 DEF this
  <1>5. \A k \in 1..Len(called') : k \in 1..Len(called) \/ k = Len(called) + 1
    BY <1>4
  <1>6. policy.enabled /\ sources[at].version = 3 /\ 3 <= policy.max
    BY VersionThree, InRender
  <1>7. ASSUME NEW k \in 1..Len(called')
        PROVE  /\ called'[k].source \in 1..Len(sources) /\ called'[k].source <= at
               /\ sources[called'[k].source].version = 3
    <2>1. CASE k \in 1..Len(called)
      BY <2>1, <1>4 DEF ReadInv, CallsSoFar
    <2>2. CASE k = Len(called) + 1
      BY <2>2, <1>1, <1>2, <1>4, <1>6
    <2> QED
      BY <1>5, <2>1, <2>2
  <1>8. \A i, j \in 1..Len(called') : called'[i] = called'[j] => i = j
    <2>1. \A i, j \in 1..Len(called) : called[i] = called[j] => i = j
      BY DEF ReadInv, CallsSoFar
    <2> QED
      BY ONLY <2>1, <1>3, <1>4, <1>5
  <1>9. CallsSoFar'
    BY <1>1, <1>6, <1>7, <1>8 DEF CallsSoFar
  <1> QED
    BY <1>3, <1>4, <1>9 DEF this

LEMMA CallStep ==
    ASSUME ReadInv, Fixed, Call
    PROVE  ReadInv'
  <1> DEFINE c == left[1].text
             n == Len(called) + 1
             option == sources[at]
  <1>1. CASE Refuse
    BY <1>1, RefuseStep
  <1>2. /\ phase = "render" /\ left # <<>> /\ c \in IoCalls
        /\ Version(option) \in ContentRendered
        /\ sources' = sources /\ policy' = policy
        /\ cache \in [IoCalls -> Nat]
    BY DEF Call, CanCall, Fixed, ReadInv, ReadTypes
  <1>3. ASSUME ~Refuse
        PROVE  /\ Version(option) \in IoVersions /\ policy.io
               /\ \/ cache[c] # 0 /\ Keep(left[1], cache[c]) /\ UNCHANGED <<cache, called>>
                  \/ /\ cache[c] = 0 /\ called' = Append(called, [call |-> c, source |-> at])
                     /\ Keep(left[1], n) /\ cache' = [cache EXCEPT ![c] = n]
                  \/ /\ cache[c] = 0 /\ called' = Append(called, [call |-> c, source |-> at])
                     /\ phase' = "refused"
                     /\ UNCHANGED <<at, left, files, cache, specs, accepted>>
    BY <1>3 DEF Call
  <1>4. /\ \A k \in 1..Len(files) :
              /\ files[k].from # 0 <=>
                    files[k].text \in IoCalls /\ Version(option) \in ContentRendered
              /\ files[k].from # 0 => files[k].from = cache[files[k].text]
        /\ \A b \in IoCalls :
              /\ cache[b] # 0 => cache[b] \in 1..Len(called)
                                 /\ called[cache[b]] = [call |-> b, source |-> at]
              /\ cache[b] = 0 => \A k \in 1..Len(called) : called[k] # [call |-> b, source |-> at]
    BY <1>2 DEF ReadInv, Cached
  <1>5. ASSUME cache[c] # 0, Keep(left[1], cache[c]), UNCHANGED <<cache, called>>
        PROVE  ReadInv'
    <2>1. /\ phase' = "render" /\ at' = at /\ specs' = specs
          /\ files' \in Seq(Outputs) /\ left' \in Seq(FilesWritten)
          /\ Len(files) \in Nat /\ Len(files') = Len(files) + 1
          /\ \A k \in 1..Len(files) : files'[k] = files[k]
          /\ files'[Len(files) + 1].text = c
          /\ files'[Len(files) + 1].from = cache[c]
          /\ UnderPolicy' /\ ReadSoFar' /\ MergedSoFar'
      BY <1>2, <1>5, KeepFacts
    <2>2. ReadTypes'
      BY <1>2, <1>5, <2>1 DEF ReadInv, ReadTypes
    <2>3. CallsSoFar'
      BY <1>2, <1>5, <2>1 DEF ReadInv, CallsSoFar
    <2>4. Cached'
      <3> HIDE DEF c
      <3>1. ASSUME NEW k \in 1..Len(files')
            PROVE  /\ files'[k].from # 0 <=>
                        files'[k].text \in IoCalls /\ Version(option) \in ContentRendered
                   /\ files'[k].from # 0 => files'[k].from = cache[files'[k].text]
        <4>1. CASE k = Len(files) + 1
          BY <4>1, <1>2, <1>5, <2>1
        <4>2. CASE k \in 1..Len(files)
          BY <4>2, <1>4, <2>1
        <4> QED
          BY <4>1, <4>2, <2>1
      <3> QED
        BY <1>2, <1>4, <1>5, <2>1, <3>1 DEF Cached
    <2> QED
      BY <2>1, <2>2, <2>3, <2>4 DEF ReadInv
  <1>6. ASSUME cache[c] = 0, called' = Append(called, [call |-> c, source |-> at]),
               Version(option) \in IoVersions, policy.io,
               Keep(left[1], n), cache' = [cache EXCEPT ![c] = n]
        PROVE  ReadInv'
    <2>1a. n \in Nat
      <3>1. called \in Seq([call : IoCalls, source : Nat])
        BY DEF ReadInv, ReadTypes
      <3> QED
        BY <3>1
    <2>1. /\ phase' = "render" /\ at' = at /\ specs' = specs
          /\ files' \in Seq(Outputs) /\ left' \in Seq(FilesWritten)
          /\ Len(files) \in Nat /\ Len(files') = Len(files) + 1
          /\ \A k \in 1..Len(files) : files'[k] = files[k]
          /\ files'[Len(files) + 1].text = c
          /\ files'[Len(files) + 1].from = n
          /\ UnderPolicy' /\ ReadSoFar' /\ MergedSoFar'
      BY <1>2, <1>6, <2>1a, KeepFacts
    <2>2. /\ called' \in Seq([call : IoCalls, source : Nat])
          /\ Len(called) \in Nat /\ Len(called') = Len(called) + 1
          /\ \A k \in 1..Len(called) : called'[k] = called[k]
          /\ called'[Len(called) + 1] = [call |-> c, source |-> at]
          /\ \A k \in 1..Len(called) : called[k] # [call |-> c, source |-> at]
          /\ CallsSoFar'
      BY <1>2, <1>6, <2>1, CalledStep
    <2> HIDE DEF c
    <2>3. /\ cache' \in [IoCalls -> Nat] /\ cache'[c] = Len(called) + 1
          /\ \A b \in IoCalls : b # c => cache'[b] = cache[b]
      BY <1>2, <1>6, <2>1a
    <2>4. ReadTypes'
      BY <1>2, <2>1, <2>2, <2>3 DEF ReadInv, ReadTypes
    <2>5. Cached'
      <3>1. ASSUME NEW k \in 1..Len(files')
            PROVE  /\ files'[k].from # 0 <=>
                        files'[k].text \in IoCalls /\ Version(option) \in ContentRendered
                   /\ files'[k].from # 0 => files'[k].from = cache'[files'[k].text]
        <4>1. CASE k = Len(files) + 1
          BY <4>1, <1>2, <2>1, <2>2, <2>3
        <4>2. CASE k \in 1..Len(files)
          <5>1. files'[k] = files[k]
            BY <4>2, <2>1
          <5>2. files[k].text # c \/ files[k].from = 0
            BY <4>2, <1>4, <1>6
          <5> QED
            BY <4>2, <5>1, <5>2, <1>2, <1>4, <2>3
        <4> QED
          BY <4>1, <4>2, <2>1
      <3>2. ASSUME NEW b \in IoCalls
            PROVE  /\ cache'[b] # 0 => cache'[b] \in 1..Len(called')
                                      /\ called'[cache'[b]] = [call |-> b, source |-> at]
                   /\ cache'[b] = 0 =>
                        \A k \in 1..Len(called') : called'[k] # [call |-> b, source |-> at]
        <4>1. CASE b = c
          BY <4>1, <2>2, <2>3
        <4>2. CASE b # c
          <5>1. cache'[b] = cache[b] /\ [call |-> c, source |-> at] # [call |-> b, source |-> at]
            BY <4>2, <2>3
          <5>2. \A k \in 1..Len(called') : k \in 1..Len(called) \/ k = Len(called) + 1
            BY <2>2
          <5>3. called'[Len(called) + 1] # [call |-> b, source |-> at]
            BY <5>1, <2>2
          <5>4. \A k \in 1..Len(called) : called'[k] = called[k]
            BY <2>2
          <5>5. Len(called) \in Nat /\ Len(called') = Len(called) + 1
            BY <2>2
          <5>6. /\ cache[b] # 0 => cache[b] \in 1..Len(called)
                                  /\ called[cache[b]] = [call |-> b, source |-> at]
                /\ cache[b] = 0 =>
                     \A k \in 1..Len(called) : called[k] # [call |-> b, source |-> at]
            BY <1>4
          <5> HIDE DEF c
          <5> QED
            BY <5>1, <5>2, <5>3, <5>4, <5>5, <5>6
        <4> QED
          BY <4>1, <4>2
      <3> QED
        BY <1>2, <2>1, <3>1, <3>2 DEF Cached
    <2> QED
      BY <2>1, <2>2, <2>4, <2>5 DEF ReadInv
  <1>7. ASSUME cache[c] = 0, called' = Append(called, [call |-> c, source |-> at]),
               Version(option) \in IoVersions, policy.io, phase' = "refused",
               UNCHANGED <<at, left, files, cache, specs, accepted>>
        PROVE  ReadInv'
    <2>1. called' \in Seq([call : IoCalls, source : Nat]) /\ CallsSoFar'
      BY <1>2, <1>7, CalledStep
    <2>2. ReadTypes'
      BY <1>2, <1>7, <2>1 DEF ReadInv, ReadTypes
    <2>3. UnderPolicy' /\ ReadSoFar' /\ Cached' /\ MergedSoFar'
      BY <1>7 DEF UnderPolicy, ReadSoFar, Cached, MergedSoFar
    <2> QED
      BY <2>1, <2>2, <2>3 DEF ReadInv
  <1> HIDE DEF c, n, option
  <1> QED
    BY <1>1, <1>3, <1>5, <1>6, <1>7

LEMMA AddStep ==
    ASSUME ReadInv, Fixed, Add
    PROVE  ReadInv'
  <1> DEFINE option == sources[at]
             document == [files |-> files,
                          keep |-> IF phase = "render" THEN {Rendered(k) : k \in option.keep}
                                   ELSE option.keep]
  <1>1. CASE Refuse
    BY <1>1, RefuseStep
  <1>2. /\ phase \in {"render", "add"} /\ left = <<>>
        /\ sources' = sources /\ policy' = policy
    BY DEF Add, Fixed
  <1>3. ASSUME ~Refuse
        PROVE  /\ specs' = Append(specs, document) /\ phase' = "read" /\ at' = at + 1
               /\ left' = left /\ files' = files /\ cache' = cache
               /\ called' = called /\ accepted' = accepted
    BY <1>3 DEF Add
  <1>4. /\ at \in 1..Len(sources) /\ Len(sources) \in Nat /\ policy.enabled
        /\ option.keep \in SUBSET Spellings /\ sources # <<>>
        /\ phase = "render" <=> Version(option) \in PathRendered
    BY <1>2, InRender, OptionFacts DEF ReadInv, UnderPolicy
  <1>5. /\ Len(specs) = at - 1 /\ \A i \in 1..Len(specs) : SaysAs(sources[i], specs[i])
        /\ Len(files) = Len(option.files)
        /\ \A n \in 1..Len(files) : /\ files[n].path = Norm(option, option.files[n].path)
                                    /\ files[n].text = option.files[n].text
    <2>1. Len(files) \in Nat /\ Len(left) = 0 /\ Len(files) + Len(left) = Len(option.files)
      <3>1. files \in Seq(Outputs)
        BY DEF ReadInv, ReadTypes
      <3> QED
        BY <3>1, <1>2 DEF ReadInv, ReadSoFar
    <2> QED
      BY <1>2, <2>1 DEF ReadInv, ReadSoFar
  <1>6. /\ document.keep = {Norm(option, k) : k \in option.keep}
        /\ document.files = files
        /\ document \in [files : Seq(Outputs), keep : SUBSET Spellings]
    <2>1. document.keep = {Norm(option, k) : k \in option.keep}
      BY <1>4 DEF Norm
    <2>2. \A k \in option.keep : Norm(option, k) \in Spellings
      BY <1>4, NormIn
    <2>3. files \in Seq(Outputs)
      BY DEF ReadInv, ReadTypes
    <2> HIDE DEF option
    <2>4. document.keep \in SUBSET Spellings
      BY <2>1, <2>2
    <2> QED
      BY <2>1, <2>3, <2>4
  <1> HIDE DEF document, option
  <1>7. SaysAs(option, document)
    BY <1>5, <1>6 DEF SaysAs
  <1>8. ASSUME ~Refuse
        PROVE  /\ specs' \in Seq([files : Seq(Outputs), keep : SUBSET Spellings])
               /\ Len(specs') = at
               /\ \A i \in 1..(at - 1) : specs'[i] = specs[i]
               /\ specs'[at] = document
    <2>1. specs \in Seq([files : Seq(Outputs), keep : SUBSET Spellings])
      BY DEF ReadInv, ReadTypes
    <2> QED
      <3>1. /\ specs' \in Seq([files : Seq(Outputs), keep : SUBSET Spellings])
            /\ Len(specs') = Len(specs) + 1
            /\ \A i \in 1..Len(specs) : specs'[i] = specs[i]
            /\ specs'[Len(specs) + 1] = document
        <4> DEFINE Sorts == [files : Seq(Outputs), keep : SUBSET Spellings]
        <4>1. specs \in Seq(Sorts) /\ document \in Sorts /\ specs' = Append(specs, document)
          BY <1>3, <1>6, <1>8, <2>1
        <4> HIDE DEF Sorts
        <4>2. /\ specs' \in Seq(Sorts)
              /\ Len(specs') = Len(specs) + 1
              /\ \A i \in 1..Len(specs) : specs'[i] = specs[i]
              /\ specs'[Len(specs) + 1] = document
          BY <4>1, AppendIs
        <4> QED
          BY <4>2 DEF Sorts
      <3>2. Len(specs) = at - 1 /\ Len(specs) + 1 = at
        BY <1>4, <1>5
      <3> QED
        BY <3>1, <3>2
  <1>9. ASSUME ~Refuse PROVE ReadInv'
    <2>1. ReadTypes'
      BY <1>2, <1>3, <1>4, <1>8, <1>9 DEF ReadInv, ReadTypes
    <2>2. UnderPolicy'
      BY <1>2, <1>3, <1>4, <1>9 DEF UnderPolicy
    <2>3. ReadSoFar'
      <3>1. ASSUME NEW i \in 1..Len(specs') PROVE SaysAs(sources[i], specs'[i])
        <4>1. CASE i = at
          BY <4>1, <1>7, <1>8, <1>9 DEF option
        <4>2. CASE i # at
          <5>1. i \in 1..Len(specs) /\ i \in 1..(at - 1)
            BY <4>2, <1>4, <1>5, <1>8, <1>9
          <5> QED
            BY <5>1, <1>5, <1>8, <1>9
        <4> QED
          BY <4>1, <4>2
      <3>2. Len(specs') = at' - 1
        BY <1>3, <1>4, <1>8, <1>9
      <3> QED
        BY <1>2, <1>3, <1>9, <3>1, <3>2 DEF ReadSoFar
    <2>4. CallsSoFar'
      <3>1. \A k \in 1..Len(called) :
                /\ called[k].source \in 1..Len(sources)
                /\ called[k].source < at' /\ called[k].source <= at'
        BY <1>3, <1>4, <1>9 DEF ReadInv, CallsSoFar
      <3> QED
        BY <1>2, <1>3, <1>9, <3>1 DEF ReadInv, CallsSoFar
    <2>5. Cached' /\ MergedSoFar'
      BY <1>3, <1>9 DEF Cached, MergedSoFar
    <2> QED
      BY <2>1, <2>2, <2>3, <2>4, <2>5 DEF ReadInv
  <1> QED
    BY <1>1, <1>9

LEMMA MergeStep ==
    ASSUME ReadInv, Fixed, Merge
    PROVE  ReadInv'
  <1>1. CASE Refuse
    BY <1>1, RefuseStep
  <1>2. ASSUME ~Refuse PROVE ReadInv'
    <2>1. /\ phase = "read" /\ at > Len(sources) /\ ~Contradiction
          /\ phase' = "resolve" /\ files' = MergedFiles
          /\ at' = at /\ left' = left /\ cache' = cache /\ specs' = specs
          /\ called' = called /\ accepted' = accepted
          /\ sources' = sources /\ policy' = policy
      BY <1>2 DEF Merge, Fixed
    <2>2. /\ sources \in Seq(Documents) /\ at \in 1..(Len(sources) + 1)
          /\ specs \in Seq([files : Seq(Outputs), keep : SUBSET Spellings])
          /\ sources # <<>>
          /\ Len(specs) = at - 1 /\ \A i \in 1..Len(specs) : SaysAs(sources[i], specs[i])
      BY <2>1 DEF ReadInv, ReadTypes, ReadSoFar, UnderPolicy
    <2>3. Len(sources) \in Nat /\ at = Len(sources) + 1 /\ Len(specs) = Len(sources)
      <3>1. Len(sources) \in Nat
        BY <2>2, LenProperties
      <3> QED
        BY <2>1, <2>2, <3>1
    <2>4. specs # <<>>
      BY <2>2, <2>3
    <2>5. MergedFiles \in Seq(Outputs)
      BY <2>2, <2>4, MergedFilesAre
    <2>6. ReadTypes'
      BY <2>1, <2>5 DEF ReadInv, ReadTypes
    <2>7. UnderPolicy' /\ ReadSoFar' /\ Cached'
      BY <2>1, <2>2, <2>3 DEF UnderPolicy, ReadSoFar, Cached
    <2>8. CallsSoFar'
      BY <2>1 DEF ReadInv, CallsSoFar
    <2>9. MergedSoFar'
      <3>1. MergedFiles' = MergedFiles /\ Contradiction' = Contradiction
        BY <2>1, SpecsStay
      <3> QED
        BY <2>1, <2>2, <2>3, <3>1 DEF MergedSoFar
    <2> QED
      BY <2>6, <2>7, <2>8, <2>9 DEF ReadInv
  <1> QED
    BY <1>1, <1>2

LEMMA ResolveStep ==
    ASSUME ReadInv, Fixed, Resolve
    PROVE  ReadInv'
  <1>1. CASE Refuse
    BY <1>1, RefuseStep
  <1>2. ASSUME ~Refuse PROVE ReadInv'
    <2>1. /\ phase = "resolve" /\ phase' = "accepted"
          /\ \A f \in ToSet(files) : f.path.as # "outside"
          /\ \A k \in AllKept : k.as # "outside"
          /\ accepted'.files = [k \in DOMAIN files |-> [files[k] EXCEPT !.path = Target(@)]]
          /\ at' = at /\ left' = left /\ files' = files /\ cache' = cache /\ specs' = specs
          /\ called' = called /\ sources' = sources /\ policy' = policy
      <3>1. /\ phase = "resolve" /\ phase' = "accepted"
            /\ \A f \in ToSet(files) : f.path.as # "outside"
            /\ \A k \in AllKept : k.as # "outside"
            /\ at' = at /\ left' = left /\ files' = files /\ cache' = cache /\ specs' = specs
            /\ called' = called /\ sources' = sources /\ policy' = policy
        BY <1>2 DEF Resolve, Fixed
      <3>2. accepted' = [files |-> [k \in DOMAIN files |-> [files[k] EXCEPT !.path = Target(@)]],
                         keep |-> {Target(k) : k \in AllKept}]
        BY <1>2 DEF Resolve
      <3> QED
        BY <3>1, <3>2
    <2>2. files = MergedFiles /\ files \in Seq(Outputs)
      BY <2>1 DEF ReadInv, ReadTypes, MergedSoFar
    <2>3. ReadTypes'
      BY <2>1 DEF ReadInv, ReadTypes
    <2>4. UnderPolicy' /\ ReadSoFar' /\ Cached'
      BY <2>1 DEF UnderPolicy, ReadSoFar, Cached
    <2>5. CallsSoFar'
      BY <2>1 DEF ReadInv, CallsSoFar
    <2>6. MergedSoFar'
      <3>1. MergedFiles' = MergedFiles /\ AllKept' = AllKept /\ Contradiction' = Contradiction
        BY <2>1, SpecsStay
      <3>2. \A k \in 1..Len(files) : files[k].path.as # "outside"
        BY <2>1, <2>2 DEF ToSet
      <3>3. sources # <<>> =>
              /\ Len(specs) = Len(sources)
              /\ \A i \in 1..Len(specs) : SaysAs(sources[i], specs[i])
              /\ ~Contradiction
        BY <2>1 DEF ReadInv, MergedSoFar
      <3> QED
        BY <2>1, <2>2, <3>1, <3>2, <3>3 DEF MergedSoFar
    <2> QED
      BY <2>3, <2>4, <2>5, <2>6 DEF ReadInv
  <1> QED
    BY <1>1, <1>2

-----------------------------------------------------------------------------
(* The theorems.                                                           *)

LEMMA InitReads == SpecInit => ReadInv
  <1> SUFFICES ASSUME SpecInit PROVE ReadInv
    OBVIOUS
  <1>1. PICK n \in 0..MaxSources : sources \in [1..n -> Documents]
    BY DEF SpecInit
  <1>2. n \in Nat /\ sources \in Seq(Documents) /\ Len(sources) \in Nat
    <2>1. n \in Nat
      BY <1>1
    <2> QED
      BY <1>1, <2>1
  <1>3. /\ policy \in Policies /\ phase = "start" /\ at = 1 /\ left = <<>> /\ files = <<>>
        /\ cache = NoCalls /\ specs = <<>> /\ called = <<>>
    BY DEF SpecInit
  <1>4. ReadTypes
    BY <1>2, <1>3 DEF ReadTypes, NoCalls
  <1>5. UnderPolicy /\ ReadSoFar /\ CallsSoFar /\ Cached /\ MergedSoFar
    BY <1>3 DEF UnderPolicy, ReadSoFar, CallsSoFar, Cached, MergedSoFar
  <1> QED
    BY <1>4, <1>5 DEF ReadInv

LEMMA ReadsStep == ReadInv /\ [SpecNext]_specVars => ReadInv'
  <1> SUFFICES ASSUME ReadInv, [SpecNext]_specVars PROVE ReadInv'
    OBVIOUS
  <1>1. CASE SpecNext
    <2>1. Fixed
      BY <1>1 DEF SpecNext, Fixed
    <2> QED
      BY <1>1, <2>1, StartStep, ReadStep, RenderTextStep, CallStep, AddStep, MergeStep,
         ResolveStep DEF SpecNext
  <1>2. CASE UNCHANGED specVars
    <2>1. /\ sources' = sources /\ policy' = policy /\ phase' = phase /\ at' = at
          /\ left' = left /\ files' = files /\ cache' = cache /\ specs' = specs
          /\ called' = called /\ accepted' = accepted
      BY <1>2 DEF specVars
    <2>2. MergedFiles' = MergedFiles /\ AllKept' = AllKept /\ Contradiction' = Contradiction
      BY <2>1, SpecsStay
    <2>3. ReadTypes' /\ UnderPolicy' /\ ReadSoFar'
      BY <2>1 DEF ReadInv, ReadTypes, UnderPolicy, ReadSoFar
    <2>4. CallsSoFar' /\ Cached'
      BY <2>1 DEF ReadInv, CallsSoFar, Cached
    <2>5. MergedSoFar'
      BY <2>1, <2>2 DEF ReadInv, MergedSoFar
    <2> QED
      BY <2>3, <2>4, <2>5 DEF ReadInv
  <1> QED
    BY <1>1, <1>2

\* The invariant holds, for any documents and policy.
THEOREM Reads == SpecReadSpec => []ReadInv
  BY InitReads, ReadsStep, PTL DEF SpecReadSpec

\* It says who may call and where the outputs come from.
LEMMA Control == ReadInv => CommandsAreControlled
  <1> SUFFICES ASSUME ReadInv PROVE CommandsAreControlled
    OBVIOUS
  <1>1. /\ called \in Seq([call : IoCalls, source : Nat]) /\ DOMAIN called = 1..Len(called)
        /\ files \in Seq(Outputs) /\ DOMAIN files = 1..Len(files)
    BY DEF ReadInv, ReadTypes
  <1>2. CallsArePermitted
    BY <1>1 DEF CallsArePermitted, ReadInv, CallsSoFar
  <1>3. OneAnswer
    <2>1. \A i, j \in DOMAIN called : called[i] = called[j] => i = j
      BY <1>1 DEF ReadInv, CallsSoFar
    <2>2. ASSUME NEW i \in 1..Len(files), NEW j \in 1..Len(files), phase = "render",
                 files[i].from # 0
          PROVE  /\ called[files[i].from] = [call |-> files[i].text, source |-> at]
                 /\ files[i].text = files[j].text => files[i].from = files[j].from
      BY <2>2 DEF ReadInv, Cached
    <2> QED
      BY <1>1, <2>1, <2>2 DEF OneAnswer
  <1> QED
    BY <1>2, <1>3 DEF CommandsAreControlled

\* A path is understood after it was rendered.
LEMMA SaysNorm ==
    ASSUME NEW i, NEW path
    PROVE  Says(i, path) = Target(Norm(sources[i], path))
  BY DEF Says, Norm

\* What was accepted is of all documents.
LEMMA AcceptedFiles ==
    ASSUME ReadInv, phase = "accepted", sources # <<>>
    PROVE  /\ Len(sources) \in Nat /\ DOMAIN sources = 1..Len(sources)
           /\ Len(specs) = Len(sources) /\ specs # <<>>
           /\ specs \in Seq([files : Seq(Outputs), keep : SUBSET Spellings])
           /\ \A d \in 1..Len(sources) :
                 /\ SaysAs(sources[d], specs[d])
                 /\ sources[d].files \in Seq(FilesWritten) /\ Len(sources[d].files) \in Nat
                 /\ DOMAIN sources[d].files = 1..Len(sources[d].files)
  <1>1. /\ sources \in Seq(Documents)
        /\ specs \in Seq([files : Seq(Outputs), keep : SUBSET Spellings])
        /\ Len(specs) = Len(sources)
        /\ \A i \in 1..Len(specs) : SaysAs(sources[i], specs[i])
    BY DEF ReadInv, ReadTypes, MergedSoFar
  <1>2. Len(sources) \in Nat /\ DOMAIN sources = 1..Len(sources) /\ Len(sources) # 0
    BY <1>1
  <1>3. specs # <<>>
    BY <1>1, <1>2
  <1>4. ASSUME NEW d \in 1..Len(sources)
        PROVE  /\ sources[d].files \in Seq(FilesWritten) /\ Len(sources[d].files) \in Nat
               /\ DOMAIN sources[d].files = 1..Len(sources[d].files)
    <2>1. sources[d].files \in Seq(FilesWritten)
      BY OptionFacts DEF ReadInv
    <2> QED
      BY <2>1, LenProperties
  <1> QED
    BY <1>1, <1>2, <1>3, <1>4

\* A file that a document names is accepted, as this document or a later one says.
LEMMA NamedIsAccepted ==
    ASSUME ReadInv, phase = "accepted", NEW d \in DOMAIN sources,
           NEW g \in ToSet(sources[d].files)
    PROVE  \E k \in DOMAIN accepted.files : \E e \in d..Len(sources) :
              \E h \in ToSet(sources[e].files) :
                 /\ accepted.files[k].path = Says(d, g.path)
                 /\ Says(e, h.path) = Says(d, g.path)
                 /\ accepted.files[k].text = h.text
  <1> DEFINE M == MergedFiles
             A == accepted.files
  <1>1. sources # <<>>
    OBVIOUS
  <1>2. /\ Len(sources) \in Nat /\ DOMAIN sources = 1..Len(sources)
        /\ Len(specs) = Len(sources) /\ specs # <<>>
        /\ specs \in Seq([files : Seq(Outputs), keep : SUBSET Spellings])
        /\ \A i \in 1..Len(sources) :
              /\ SaysAs(sources[i], specs[i])
              /\ DOMAIN sources[i].files = 1..Len(sources[i].files)
    BY <1>1, AcceptedFiles
  <1>3. /\ M \in Seq(Outputs)
        /\ \A i \in 1..Len(specs) : \A j \in 1..Len(specs[i].files) :
              \E k \in 1..Len(M) : M[k].path = specs[i].files[j].path
        /\ \A k \in 1..Len(M) :
              \E i \in 1..Len(specs) : \E j \in 1..Len(specs[i].files) :
                 /\ M[k] = specs[i].files[j]
                 /\ \A e \in (i + 1)..Len(specs) : \A l \in 1..Len(specs[e].files) :
                       specs[e].files[l].path # M[k].path
    BY <1>2, MergedFilesAre
  <1>4. A = [k \in DOMAIN M |-> [M[k] EXCEPT !.path = Target(@)]]
    BY <1>1 DEF ReadInv, MergedSoFar
  <1> HIDE DEF M, A
  <1>5. \A k \in 1..Len(M) :
            k \in DOMAIN A /\ A[k].path = Target(M[k].path) /\ A[k].text = M[k].text
    <2> TAKE k \in 1..Len(M)
    <2>1. k \in DOMAIN M /\ M[k] \in Outputs
      BY <1>3
    <2>2. k \in DOMAIN A /\ A[k] = [M[k] EXCEPT !.path = Target(@)]
      BY <1>4, <2>1
    <2> QED
      BY <2>1, <2>2 DEF Outputs
  <1>6. PICK n \in 1..Len(sources[d].files) : g = sources[d].files[n]
    BY <1>2 DEF ToSet
  <1>7. d \in 1..Len(specs) /\ n \in 1..Len(specs[d].files)
        /\ specs[d].files[n].path = Norm(sources[d], g.path)
    BY <1>2, <1>6 DEF SaysAs
  <1>8. PICK k \in 1..Len(M) : M[k].path = specs[d].files[n].path
    BY <1>3, <1>7
  <1>9. PICK e \in 1..Len(specs) : \E j \in 1..Len(specs[e].files) :
            /\ M[k] = specs[e].files[j]
            /\ \A l \in (e + 1)..Len(specs) : \A m \in 1..Len(specs[l].files) :
                  specs[l].files[m].path # M[k].path
    BY <1>3
  <1>10. PICK j \in 1..Len(specs[e].files) : M[k] = specs[e].files[j]
    BY <1>9
  <1>11. e \in d..Len(sources)
    <2>1. d \notin (e + 1)..Len(specs)
      BY <1>7, <1>8, <1>9
    <2> QED
      BY <1>2, <1>7, <1>9, <2>1
  <1> DEFINE h == sources[e].files[j]
  <1>12. /\ j \in 1..Len(sources[e].files) /\ h \in ToSet(sources[e].files)
         /\ M[k].path = Norm(sources[e], h.path) /\ M[k].text = h.text
    <2>1. SaysAs(sources[e], specs[e]) /\ DOMAIN sources[e].files = 1..Len(sources[e].files)
      BY <1>2, <1>9
    <2>2. j \in 1..Len(sources[e].files)
      BY <1>10, <2>1 DEF SaysAs
    <2> QED
      BY <1>10, <2>1, <2>2 DEF SaysAs, ToSet
  <1> HIDE DEF h
  <1>13. Says(e, h.path) = Target(M[k].path) /\ Says(d, g.path) = Target(M[k].path)
    BY <1>7, <1>8, <1>12, SaysNorm
  <1> QED
    BY <1>5, <1>11, <1>12, <1>13 DEF A

\* The last document that names a file decides on it.
LEMMA LastIsRight == ReadInv => LastWins
  <1> SUFFICES ASSUME ReadInv, phase = "accepted", NEW i \in DOMAIN sources,
                      NEW f \in ToSet(sources[i].files)
               PROVE  LET named(j, g) == Says(j, g.path) = Says(i, f.path)
                          deciding == CHOOSE j \in DOMAIN sources :
                                     /\ \E g \in ToSet(sources[j].files) : named(j, g)
                                     /\ \A k \in (j + 1)..Len(sources) :
                                          \A g \in ToSet(sources[k].files) : ~named(k, g)
                      IN  \E k \in DOMAIN accepted.files : \E g \in ToSet(sources[deciding].files) :
                              /\ named(deciding, g) /\ accepted.files[k].path = Says(i, f.path)
                              /\ accepted.files[k].text = g.text
    BY Zenon DEF LastWins
  <1> DEFINE named(j, g) == Says(j, g.path) = Says(i, f.path)
             Speaks(j) == \E g \in ToSet(sources[j].files) : named(j, g)
             IsLast(j) == /\ Speaks(j)
                          /\ \A k \in (j + 1)..Len(sources) :
                               \A g \in ToSet(sources[k].files) : ~named(k, g)
             deciding == CHOOSE j \in DOMAIN sources : IsLast(j)
             T == {j \in DOMAIN sources : Speaks(j)}
  <1>1. sources # <<>>
    OBVIOUS
  <1>2. Len(sources) \in Nat /\ DOMAIN sources = 1..Len(sources)
    BY <1>1, AcceptedFiles
  <1>3. T \in SUBSET (1..Len(sources)) /\ i \in T
    BY <1>2
  <1>4. Max(T) \in T /\ \A y \in T : Max(T) >= y
    BY <1>2, <1>3, HasMax
  <1>5. \E j \in DOMAIN sources : IsLast(j)
    <2> DEFINE x == Max(T)
    <2>1. x \in DOMAIN sources /\ Speaks(x)
      BY <1>4
    <2>2. ASSUME NEW k \in (x + 1)..Len(sources) PROVE ~Speaks(k)
      <3>1. x \in 1..Len(sources) /\ \A y \in T : x >= y
        BY <1>2, <1>4, <2>1
      <3> HIDE DEF x
      <3>2. k \in 1..Len(sources) /\ ~(x >= k)
        BY <1>2, <3>1
      <3>3. k \notin T
        BY <3>1, <3>2
      <3> QED
        BY <1>2, <3>2, <3>3
    <2> HIDE DEF x
    <2> QED
      BY <2>1, <2>2, Zenon
  <1>6. deciding \in DOMAIN sources /\ IsLast(deciding)
    BY <1>5, Zenon
  <1> HIDE DEF deciding
  <1>7. PICK g \in ToSet(sources[deciding].files) : named(deciding, g)
    BY <1>6
  <1>8. PICK k \in DOMAIN accepted.files : \E e \in deciding..Len(sources) :
            \E h \in ToSet(sources[e].files) :
               /\ accepted.files[k].path = Says(deciding, g.path)
               /\ Says(e, h.path) = Says(deciding, g.path)
               /\ accepted.files[k].text = h.text
    BY <1>6, <1>7, NamedIsAccepted
  <1>9. PICK e \in deciding..Len(sources) : \E h \in ToSet(sources[e].files) :
            /\ accepted.files[k].path = Says(deciding, g.path)
            /\ Says(e, h.path) = Says(deciding, g.path)
            /\ accepted.files[k].text = h.text
    BY <1>8
  <1>10. PICK h \in ToSet(sources[e].files) :
            /\ accepted.files[k].path = Says(deciding, g.path)
            /\ Says(e, h.path) = Says(deciding, g.path)
            /\ accepted.files[k].text = h.text
    BY <1>9
  <1>11. e = deciding
    <2>1. named(e, h)
      BY <1>7, <1>10
    <2>2. e \notin (deciding + 1)..Len(sources)
      BY <1>6, <2>1
    <2> QED
      BY <1>2, <1>6, <2>2
  <1>12. named(deciding, h) /\ accepted.files[k].path = Says(i, f.path)
         /\ accepted.files[k].text = h.text /\ h \in ToSet(sources[deciding].files)
    BY <1>7, <1>10, <1>11
  <1> QED
    BY <1>8, <1>12, Zenon DEF deciding

\* What any document keeps is named by none.
LEMMA KeptIsLeft == ReadInv => KeptIsNotTouched
  <1> SUFFICES ASSUME ReadInv, phase = "accepted", NEW i \in DOMAIN sources,
                      NEW j \in DOMAIN sources, NEW f \in ToSet(sources[i].files),
                      NEW k \in sources[j].keep, f.path.as # "dotted", k.as # "dotted",
                      Says(i, f.path).as = Says(j, k).as
               PROVE  /\ Says(i, f.path).of # Says(j, k).of
                      /\ Says(i, f.path).of \notin Below[Says(j, k).of]
    BY DEF KeptIsNotTouched
  <1> DEFINE p == Norm(sources[i], f.path)
             q == Norm(sources[j], k)
  <1>1. sources # <<>>
    OBVIOUS
  <1>2. /\ Len(sources) \in Nat /\ DOMAIN sources = 1..Len(sources)
        /\ Len(specs) = Len(sources) /\ specs # <<>>
        /\ specs \in Seq([files : Seq(Outputs), keep : SUBSET Spellings])
        /\ \A d \in 1..Len(sources) :
              /\ SaysAs(sources[d], specs[d])
              /\ sources[d].files \in Seq(FilesWritten)
              /\ DOMAIN sources[d].files = 1..Len(sources[d].files)
    BY <1>1, AcceptedFiles
  <1>3. PICK n \in 1..Len(sources[i].files) : f = sources[i].files[n]
    BY <1>2 DEF ToSet
  <1>4. f.path \in Spellings /\ k \in Spellings
    <2>1. f \in FilesWritten
      BY <1>2, <1>3, ElementOf
    <2>2. sources[j].keep \in SUBSET Spellings
      BY <1>2, OptionFacts DEF ReadInv
    <2> QED
      BY <2>1, <2>2 DEF FilesWritten
  <1>5. /\ n \in 1..Len(specs[i].files) /\ specs[i].files[n].path = p
        /\ q \in specs[j].keep
    BY <1>2, <1>3 DEF SaysAs
  <1>6. q \in AllKept /\ q.as # "outside"
    <2>1. q \in AllKept
      BY <1>2, <1>5 DEF AllKept
    <2> HIDE DEF q
    <2> QED
      BY <1>1, <2>1 DEF ReadInv, MergedSoFar
  <1>7. p.as # "outside"
    <2>1. \E m \in 1..Len(MergedFiles) : MergedFiles[m].path = specs[i].files[n].path
      BY <1>2, <1>5, MergedFilesAre
    <2> HIDE DEF p
    <2> QED
      BY <1>1, <1>5, <2>1 DEF ReadInv, MergedSoFar
  <1>8. ~Matches(q, p)
    <2>1. specs[i].files[n] \in ToSet(specs[i].files) /\ i \in DOMAIN specs
      <3>1. specs[i].files \in Seq(Outputs)
        <4> DEFINE Sorts == [files : Seq(Outputs), keep : SUBSET Spellings]
        <4>1. specs \in Seq(Sorts) /\ i \in 1..Len(specs)
          BY <1>2
        <4> HIDE DEF Sorts
        <4>2. specs[i] \in Sorts
          BY <4>1, ElementOf
        <4> QED
          BY <4>2 DEF Sorts
      <3> QED
        BY <1>2, <1>5, <3>1 DEF ToSet
    <2>2. ~Contradiction
      BY <1>1 DEF ReadInv, MergedSoFar
    <2> HIDE DEF q, p
    <2> QED
      BY <1>5, <1>6, <2>1, <2>2 DEF Contradiction
  <1>9. /\ p \in [of : DOMAIN Below, as : PathForms] /\ q \in [of : DOMAIN Below, as : PathForms]
        /\ p.as # "dotted" /\ q.as # "dotted"
    <2>1. p \in Spellings /\ q \in Spellings
      BY <1>4, NormIn
    <2>2. p.as # "dotted" /\ q.as # "dotted"
      BY <1>4 DEF Norm, Rendered, Spellings
    <2> HIDE DEF p, q
    <2> QED
      BY <2>1, <2>2 DEF Spellings
  <1>10. Says(i, f.path) = Target(p) /\ Says(j, k) = Target(q)
    BY SaysNorm
  <1> HIDE DEF p, q
  <1>11. Target(p).of = p.of /\ Target(q).of = q.of
    BY <1>9 DEF Target
  <1>12. Expanded(p).as = Expanded(q).as
    <2>1. Target(p).as = Target(q).as
      BY <1>10
    <2> QED
      BY <1>6, <1>7, <1>9, <2>1 DEF Target, Expanded, PathForms
  <1> QED
    BY <1>8, <1>10, <1>11, <1>12 DEF Matches

\* Commands are run and files are read only where a document and the policy permit it,
\* once for each document, and a text gets the output of its own document's call: the
\* guards and the cache of pipe() and include() in the rendering of a document.
THEOREM Controlled == SpecReadSpec => []CommandsAreControlled
  BY Reads, Control, PTL

\* What merge_specs and resolve_paths let pass has each file as the last document to name
\* it says, and nothing in it that any document keeps.
THEOREM AcceptedAsSaid == SpecReadSpec => []AcceptedMeansSaid
  <1>1. ReadInv => AcceptedMeansSaid
    BY LastIsRight, KeptIsLeft DEF AcceptedMeansSaid
  <1> QED
    BY <1>1, Reads, PTL

-----------------------------------------------------------------------------
(* The check for a newer version.                                          *)

Methods == Branches \union {"pip", "pipx"}
Saved == [is : {"saved"}, source : Methods, latest : Nat]

VcTypeOK ==
    /\ setting \in Settings
    /\ version \in Nat
    /\ released \in [Sources -> Nat] /\ tracked \in [Sources -> Nat]
    /\ store \in {NoCache, Torn} \union Saved
    /\ age \in 0..Interval
    /\ step \in {"idle", "cache", "ask", "save", "write"}
    /\ result \in [source : Methods, latest : Nat] \union {NoAnswer}
    /\ notice \in Nat \union {Unsaid}
    /\ last \in [source : Methods, age : Nat] \union {NoLast}
    /\ evidence \subseteq [source : Methods, latest : Nat, age : Nat]

\* what was fetched had been released
FetchedWasReleased == \A s \in Sources : tracked[s] # 0 => released[s] # 0

\* a check that is under way knows its method and has said nothing
UnderWay == step # "idle" => Method(install) # "unknown" /\ notice = Unsaid

\* the result was found in this hour, for this method
ResultHasEvidence ==
    step \in {"save", "write"} =>
        /\ result.source = Method(install)
        /\ \E e \in evidence :
              e.source = result.source /\ e.latest = result.latest /\ e.age = 0

\* what is in the cache was found no longer ago than it was written
CacheHasEvidence ==
    store.is = "saved" /\ age < Interval =>
        \E e \in evidence : e.source = store.source /\ e.latest = store.latest /\ e.age <= age

\* an answer that was saved is in the cache until the interval is over
LastIsCached ==
    /\ last # NoLast =>
          /\ store.is = "saved" /\ store.source = last.source
          /\ last.age = age /\ age < Interval
    /\ step = "write" => age = 0 /\ store = Torn

VcIInv ==
    /\ VcTypeOK /\ FetchedWasReleased /\ UnderWay
    /\ ResultHasEvidence /\ CacheHasEvidence /\ LastIsCached /\ SaidWasSo

-----------------------------------------------------------------------------
\* The ways that are not "unknown" have a source.
LEMMA MethodKnown ==
    ASSUME Method(install) # "unknown"
    PROVE  Method(install) \in Methods /\ SourceOf(Method(install)) \in Sources
  BY DEF Method, Methods, SourceOf, Sources, Branches

\* Fetching loses no ref and brings none that was not released.
LEMMA Fetching ==
    ASSUME VcTypeOK, FetchedWasReleased
    PROVE  /\ Fetched \in [Sources -> Nat]
           /\ \A s \in Sources : Fetched[s] # 0 => released[s] # 0
           /\ \A s \in Sources : tracked[s] # 0 => Fetched[s] # 0
  BY DEF VcTypeOK, FetchedWasReleased, Fetched, Sources, Branches

\* What is compared with, when there is something, is what there is to find:
\* of _check_git_default, _check_git_branch and _check_pypi.
LEMMA ComparedWithTheTruth ==
    ASSUME VcTypeOK, FetchedWasReleased, NEW method \in Methods, Compared(method) # 0
    PROVE  Latest(method) = Truth(method) /\ Latest(method) \in Nat
  <1>1. CASE SourceOf(method) = "index"
    BY <1>1 DEF VcTypeOK, Compared, Latest, Truth, SourceOf, Sources, Branches
  <1>2. CASE SourceOf(method) # "index" /\ setting.url
    BY <1>2 DEF VcTypeOK, Compared, Latest, Truth, SourceOf, Sources, Branches, Fetched, Methods
  <1>3. CASE SourceOf(method) # "index" /\ ~setting.url
    <2>1. method \in Sources /\ SourceOf(method) = method
      BY <1>3 DEF SourceOf, Sources, Branches
    <2>2. Compared(method) = Fetched[method] /\ released[method] # 0
      BY <1>3, <2>1, Fetching DEF Compared
    <2>3. Fetched[method] = released[method]
      BY <1>3, <2>1, <2>2 DEF Fetched
    <2> QED
      BY <1>3, <2>1, <2>2, <2>3 DEF VcTypeOK, Latest, Truth
  <1> QED
    BY <1>1, <1>2, <1>3

\* What a check finds is of the method with which it began, after the fetch too.
LEMMA MethodStays ==
    ASSUME VcTypeOK, Ask, Method(install) # "unknown"
    PROVE  Method(install)' = Method(install)
  <1>1. CASE Method(install) = "topic"
    <2>1. install = "topic" /\ tracked["topic"] # 0
      BY <1>1 DEF Method, Branches
    <2>2. tracked' = Fetched /\ install' = install
      BY <1>1 DEF Ask, Branches, vcWorld
    <2>3. Fetched["topic"] # 0
      BY <2>1 DEF VcTypeOK, Fetched, Sources, Branches
    <2> QED
      BY <1>1, <2>1, <2>2, <2>3 DEF Method, Branches
  <1>2. CASE Method(install) # "topic"
    BY <1>2 DEF Ask, Method, Branches, vcWorld
  <1> QED
    BY <1>1, <1>2

LEMMA VcStart ==
    VcInit => VcIInv
  BY IntervalAssumption, SettingsAssumption, ReleasesAssumption
  DEF VcInit, VcIInv, VcTypeOK, FetchedWasReleased, UnderWay, ResultHasEvidence,
      CacheHasEvidence, LastIsCached, SaidWasSo, NoCache, NoAnswer, NoLast, Unsaid
\* An action that leaves the cache, the evidence and what is known of the
\* sources as they are cannot disturb what is said of them.
LEMMA VcStep ==
    VcIInv /\ [VcNext]_vcVars => VcIInv'
  <1> SUFFICES ASSUME VcIInv, [VcNext]_vcVars PROVE VcIInv'
    OBVIOUS
  <1> USE IntervalAssumption
  <1>0. /\ VcTypeOK /\ FetchedWasReleased /\ UnderWay
        /\ ResultHasEvidence /\ CacheHasEvidence /\ LastIsCached /\ SaidWasSo
    BY DEF VcIInv
  <1>1. CASE Begin
    BY <1>0, <1>1 DEF Begin, VcIInv, VcTypeOK, FetchedWasReleased, UnderWay, ResultHasEvidence,
       CacheHasEvidence, LastIsCached, SaidWasSo, Method, vcWorld
  <1>2. CASE FromCache
    <2>1. VcTypeOK' /\ FetchedWasReleased' /\ UnderWay' /\ ResultHasEvidence' /\ LastIsCached'
      BY <1>0, <1>2 DEF FromCache, VcTypeOK, FetchedWasReleased, UnderWay, ResultHasEvidence,
         LastIsCached, Method, vcWorld, Replayed, Fresh, Saved, NoCache, Torn
    <2>2. CacheHasEvidence'
      BY <1>0, <1>2 DEF FromCache, CacheHasEvidence, vcWorld
    <2>3. SaidWasSo'
      BY <1>0, <1>2 DEF FromCache, SaidWasSo, CacheHasEvidence, Method, vcWorld, Replayed, Fresh
    <2> QED
      BY <2>1, <2>2, <2>3 DEF VcIInv
  <1>3. CASE Ask
    <2> DEFINE method == Method(install)
    <2>1. method \in Methods /\ SourceOf(method) \in Sources /\ method # "unknown" /\ notice = Unsaid
      BY <1>0, <1>3, MethodKnown DEF Ask, UnderWay
    <2>2. Method(install)' = method
      BY <1>0, <1>3, <2>1, MethodStays
    <2>3. tracked' \in [Sources -> Nat] /\ \A s \in Sources : tracked'[s] # 0 => released'[s] # 0
      BY <1>0, <1>3, Fetching DEF Ask, VcTypeOK, FetchedWasReleased, vcWorld
    <2>4. notice' = Unsaid /\ UNCHANGED <<vcWorld, store, age, last>>
      BY <1>3, <2>1 DEF Ask
    <2>5. CASE Compared(method) = 0
      <3>1. step' = "idle" /\ UNCHANGED <<result, evidence>>
        BY <1>3, <2>5 DEF Ask
      <3> QED
        BY <1>0, <2>3, <2>4, <3>1 DEF VcIInv, VcTypeOK, FetchedWasReleased, UnderWay,
           ResultHasEvidence, CacheHasEvidence, LastIsCached, SaidWasSo, vcWorld
    <2>6. CASE Compared(method) # 0
      <3> DEFINE found == [source |-> method, latest |-> Truth(method), age |-> 0]
      <3>1. step' = "save" /\ result' = [source |-> method, latest |-> Latest(method)]
        BY <1>3, <2>6 DEF Ask
      <3>2. evidence' = {e \in evidence : e.source # method \/ e.latest # Truth(method)}
                        \union {found}
        BY <1>3, <2>6 DEF Ask
      <3>3. Latest(method) = Truth(method) /\ Latest(method) \in Nat
        BY <1>0, <2>1, <2>6, ComparedWithTheTruth
      <3> HIDE DEF method
      <3>4. VcTypeOK' /\ FetchedWasReleased' /\ UnderWay'
        BY <1>0, <2>1, <2>2, <2>3, <2>4, <3>1, <3>2, <3>3
        DEF VcTypeOK, FetchedWasReleased, UnderWay, vcWorld
      <3>5. ResultHasEvidence'
        <4>1. result'.source = Method(install)'
          BY <2>2, <3>1
        <4>2. found \in evidence' /\ found.source = result'.source
              /\ found.latest = result'.latest /\ found.age = 0
          BY <3>1, <3>2, <3>3
        <4> QED
          BY <4>1, <4>2 DEF ResultHasEvidence
      <3>6. CacheHasEvidence'
        <4> SUFFICES ASSUME store.is = "saved", age < Interval
                     PROVE  \E e \in evidence' :
                               e.source = store.source /\ e.latest = store.latest /\ e.age <= age
          BY <2>4 DEF CacheHasEvidence
        <4>1. PICK e \in evidence :
                 e.source = store.source /\ e.latest = store.latest /\ e.age <= age
          BY <1>0 DEF CacheHasEvidence
        <4>2. CASE e.source = method /\ e.latest = Truth(method)
          <5>1. found \in evidence' /\ found.source = store.source /\ found.latest = store.latest
            BY <3>2, <4>1, <4>2
          <5>2. found.age <= age
            BY <1>0 DEF VcTypeOK
          <5> QED
            BY <5>1, <5>2
        <4>3. CASE e.source # method \/ e.latest # Truth(method)
          BY <3>2, <4>1, <4>3
        <4> QED
          BY <4>2, <4>3
      <3>7. LastIsCached' /\ SaidWasSo'
        BY <1>0, <2>4, <3>1 DEF LastIsCached, SaidWasSo, vcWorld
      <3> QED
        BY <3>4, <3>5, <3>6, <3>7 DEF VcIInv
    <2> QED
      BY <2>5, <2>6
  <1>4. CASE AskInVain
    BY <1>0, <1>4 DEF AskInVain, VcIInv, VcTypeOK, FetchedWasReleased, UnderWay,
       ResultHasEvidence, CacheHasEvidence, LastIsCached, SaidWasSo, Method, vcWorld
  <1>5. CASE Open
    BY <1>0, <1>5 DEF Open, VcIInv, VcTypeOK, FetchedWasReleased, UnderWay,
       ResultHasEvidence, CacheHasEvidence, LastIsCached, SaidWasSo, Method, vcWorld, Torn, NoLast
  <1>6. CASE Write
    <2>1. result.source = Method(install) /\ result.source \in Methods /\ result.latest \in Nat
      BY <1>0, <1>6, MethodKnown
      DEF Write, ResultHasEvidence, UnderWay, VcTypeOK, NoAnswer
    <2>2. PICK e \in evidence : e.source = result.source /\ e.latest = result.latest /\ e.age = 0
      BY <1>0, <1>6 DEF Write, ResultHasEvidence
    <2>3. /\ store' = [is |-> "saved", source |-> result.source, latest |-> result.latest]
          /\ last' = [source |-> result.source, age |-> 0]
          /\ age = 0 /\ age' = 0 /\ step' = "idle"
          /\ notice' = result.latest /\ result' = NoAnswer /\ evidence' = evidence
          /\ UNCHANGED <<vcWorld, tracked>>
      BY <1>0, <1>6 DEF Write, LastIsCached
    <2>4. VcTypeOK' /\ FetchedWasReleased' /\ UnderWay' /\ ResultHasEvidence'
      BY <1>0, <2>1, <2>3 DEF VcTypeOK, FetchedWasReleased, UnderWay, ResultHasEvidence, vcWorld,
         Saved, NoAnswer
    <2>5. CacheHasEvidence' /\ LastIsCached'
      BY <2>2, <2>3 DEF CacheHasEvidence, LastIsCached
    <2>6. SaidWasSo'
      BY <2>1, <2>2, <2>3 DEF SaidWasSo, Method, vcWorld
    <2> QED
      BY <2>4, <2>5, <2>6 DEF VcIInv
  <1>7. CASE CannotSave
    <2>1. result.source = Method(install) /\ result.latest \in Nat
      BY <1>0, <1>7, MethodKnown
      DEF CannotSave, ResultHasEvidence, UnderWay, VcTypeOK, NoAnswer
    <2>2. VcTypeOK' /\ FetchedWasReleased' /\ UnderWay' /\ ResultHasEvidence' /\ LastIsCached'
      BY <1>0, <1>7, <2>1 DEF CannotSave, VcTypeOK, FetchedWasReleased, UnderWay,
         ResultHasEvidence, LastIsCached, vcWorld
    <2>3. CacheHasEvidence' /\ SaidWasSo'
      BY <1>0, <1>7, <2>1 DEF CannotSave, ResultHasEvidence, CacheHasEvidence, SaidWasSo, Method,
         vcWorld
    <2> QED
      BY <2>2, <2>3 DEF VcIInv
  <1>8. CASE Killed
    BY <1>0, <1>8 DEF Killed, VcIInv, VcTypeOK, FetchedWasReleased, UnderWay,
       ResultHasEvidence, CacheHasEvidence, LastIsCached, SaidWasSo, vcWorld
  <1>9. CASE Hour
    <2>1. /\ step = "idle" /\ step' = "idle" /\ notice' = Unsaid
          /\ UNCHANGED <<vcWorld, tracked, store, result>>
          /\ age' = IF age < Interval THEN age + 1 ELSE age
          /\ evidence' = {[e EXCEPT !.age = @ + 1] : e \in {f \in evidence : f.age + 1 < Interval}}
          /\ last' = IF last # NoLast /\ last.age + 1 < Interval
                     THEN [last EXCEPT !.age = @ + 1] ELSE NoLast
      BY <1>9 DEF Hour
    <2>2. evidence' \subseteq [source : Methods, latest : Nat, age : Nat]
      BY <1>0, <2>1 DEF VcTypeOK
    <2>3. age \in Nat /\ age' \in 0..Interval /\ (age' < Interval => age' = age + 1 /\ age < Interval)
      BY <1>0, <2>1 DEF VcTypeOK
    <2>4. last' # NoLast => /\ last # NoLast /\ last'.source = last.source
                            /\ last'.age = last.age + 1 /\ last'.age < Interval
                            /\ last' \in [source : Methods, age : Nat]
      BY <1>0, <2>1 DEF VcTypeOK, NoLast
    <2>5. VcTypeOK' /\ FetchedWasReleased' /\ UnderWay' /\ ResultHasEvidence' /\ SaidWasSo'
      BY <1>0, <2>1, <2>2, <2>3, <2>4 DEF VcTypeOK, FetchedWasReleased, UnderWay,
         ResultHasEvidence, SaidWasSo, vcWorld
    <2>6. LastIsCached'
      BY <1>0, <2>1, <2>3, <2>4 DEF LastIsCached
    <2>7. CacheHasEvidence'
      <3> SUFFICES ASSUME store.is = "saved", age' < Interval
                   PROVE  \E e \in evidence' :
                             e.source = store.source /\ e.latest = store.latest /\ e.age <= age'
        BY <2>1 DEF CacheHasEvidence
      <3>1. PICK e \in evidence :
               e.source = store.source /\ e.latest = store.latest /\ e.age <= age
        BY <1>0, <2>3 DEF CacheHasEvidence
      <3>2. e \in [source : Methods, latest : Nat, age : Nat]
        BY <1>0 DEF VcTypeOK
      <3>3. [e EXCEPT !.age = @ + 1] \in evidence'
        BY <2>1, <2>3, <3>1, <3>2
      <3> QED
        BY <2>3, <3>1, <3>2, <3>3
    <2> QED
      BY <2>5, <2>6, <2>7 DEF VcIInv
  <1>10. ASSUME NEW s \in Sources, Release(s) PROVE VcIInv'
    BY <1>0, <1>10 DEF Release, VcIInv, VcTypeOK, FetchedWasReleased, UnderWay,
       ResultHasEvidence, CacheHasEvidence, LastIsCached, SaidWasSo, Method
  <1>11. ASSUME NEW how \in Installs, NEW v \in 1..Newest, Install(how, v) PROVE VcIInv'
    <2>1. v \in Nat
      BY <1>0, <1>11 DEF Install, VcTypeOK, SourceOf, Sources, Branches
    <2> QED
      BY <1>0, <1>11, <2>1 DEF Install, VcIInv, VcTypeOK, FetchedWasReleased, UnderWay,
         ResultHasEvidence, CacheHasEvidence, LastIsCached, SaidWasSo
  <1>12. CASE UNCHANGED vcVars
    BY <1>0, <1>12 DEF vcVars, VcIInv, VcTypeOK, FetchedWasReleased, UnderWay,
       ResultHasEvidence, CacheHasEvidence, LastIsCached, SaidWasSo, Method
  <1> QED
    BY <1>1, <1>2, <1>3, <1>4, <1>5, <1>6, <1>7, <1>8, <1>9, <1>10, <1>11, <1>12 DEF VcNext

\* The inductive invariant holds of every interval, however often something is
\* released or installed.
THEOREM VcInductive ==
    VcSpec => []VcIInv
  BY VcStart, VcStep, PTL DEF VcSpec

\* What a check says was so within the interval (_do_check, _cache_is_fresh and
\* _load_cache).
THEOREM Saying ==
    VcSpec => []SaidWasSo
  <1>1. VcIInv => SaidWasSo
    BY DEF VcIInv
  <1> QED
    BY <1>1, VcInductive, PTL

\* The network is not asked again within the interval (defaults.toml): an
\* answer that was saved is in the cache, and the cache is fresh.
THEOREM Asking ==
    VcSpec => AskedOncePerInterval
  <1>1. VcIInv /\ [VcNext]_vcVars
        => [step' = "ask" /\ step # "ask" => last.source # Method(install)]_vcVars
    <2> SUFFICES ASSUME VcIInv, VcNext, step' = "ask", step # "ask",
                        last.source = Method(install)
                 PROVE  FALSE
      OBVIOUS
    <2>1. FromCache
      BY DEF VcNext, Begin, FromCache, Ask, AskInVain, Open, Write, CannotSave, Killed, Hour,
         Release, Install
    <2>2. ~Replayed(Method(install))
      BY <2>1 DEF FromCache
    <2>3. Method(install) \in Methods
      BY <2>1, MethodKnown DEF VcIInv, UnderWay, FromCache
    <2>4. last # NoLast
      BY <2>3 DEF NoLast, Methods, Branches
    <2> QED
      BY <2>2, <2>4 DEF VcIInv, LastIsCached, Replayed, Fresh, NoCache
  <1> QED
    BY <1>1, VcInductive, PTL DEF VcSpec, AskedOncePerInterval

-----------------------------------------------------------------------------
(* Where a playbook is found.                                              *)

\* The first of several tries that found something.
LEMMA FirstFoundIs ==
    ASSUME NEW n \in Nat, NEW u, DOMAIN u = 1..n
    PROVE  \/ FirstFound(u) = NotFound /\ \A i \in 1..n : u[i] = NotFound
           \/ \E i \in 1..n : /\ FirstFound(u) = u[i] /\ u[i] # NotFound
                              /\ \A j \in 1..n : j < i => u[j] = NotFound
  <1> DEFINE found == {i \in 1..n : u[i] # NotFound}
  <1>1. CASE found = {}
    BY <1>1 DEF FirstFound
  <1>2. CASE found # {}
    <2>1. Min(found) \in found /\ \A j \in found : Min(found) =< j
      BY <1>2, HasMin
    <2>2. FirstFound(u) = u[Min(found)]
      BY <1>2 DEF FirstFound
    <2>3. Min(found) \in 1..n /\ u[Min(found)] # NotFound
          /\ \A j \in 1..n : j < Min(found) => u[j] = NotFound
      BY <2>1
    <2> QED
      BY <2>2, <2>3
  <1> QED
    BY <1>1, <1>2

\* Of n tries, some find x now, and some find nothing any more of what is in L.
Changed(n, u, v, x, L) ==
    /\ n \in Nat /\ DOMAIN u = 1..n /\ DOMAIN v = 1..n
    /\ x # NotFound /\ NotFound \notin L
    /\ \A i \in 1..n : v[i] = u[i] \/ v[i] = x \/ (u[i] \in L /\ v[i] = NotFound)

\* Then the first that is found is the same, or x, or it was in L.
LEMMA FirstChanges ==
    ASSUME NEW n, NEW u, NEW v, NEW x, NEW L, Changed(n, u, v, x, L)
    PROVE  FirstFound(v) = FirstFound(u) \/ FirstFound(v) = x \/ FirstFound(u) \in L
  <1> USE DEF Changed
  <1>1. CASE \E i \in 1..n : /\ FirstFound(u) = u[i] /\ u[i] # NotFound
                              /\ \A j \in 1..n : j < i => u[j] = NotFound
    <2>1. PICK i \in 1..n : /\ FirstFound(u) = u[i] /\ u[i] # NotFound
                            /\ \A j \in 1..n : j < i => u[j] = NotFound
      BY <1>1
    <2>2. CASE FirstFound(v) = NotFound /\ \A k \in 1..n : v[k] = NotFound
      BY <2>1, <2>2
    <2>3. ASSUME NEW k \in 1..n, FirstFound(v) = v[k], v[k] # NotFound,
                 \A j \in 1..n : j < k => v[j] = NotFound
          PROVE  FirstFound(v) = FirstFound(u) \/ FirstFound(v) = x \/ FirstFound(u) \in L
      <3>1. CASE k < i
        BY <2>1, <2>3, <3>1
      <3>2. CASE i < k
        BY <2>1, <2>3, <3>2
      <3>3. CASE i = k
        BY <2>1, <2>3, <3>3
      <3> QED
        BY <3>1, <3>2, <3>3
    <2> QED
      BY <2>2, <2>3, FirstFoundIs
  <1>2. CASE FirstFound(u) = NotFound /\ \A i \in 1..n : u[i] = NotFound
    <2>1. \A i \in 1..n : v[i] \in {NotFound, x}
      BY <1>2
    <2> QED
      BY <1>2, <2>1, FirstFoundIs
  <1> QED
    BY <1>1, <1>2, FirstFoundIs

\* A playbook that appears is found where it is, and nothing else changes there.
LEMMA AppearsAt ==
    ASSUME NEW place, NEW n, present' = present \union {<<place, n>>}
    PROVE  \A p, m : At1(p, m)' = IF p = place /\ m = n THEN <<place, n>> ELSE At1(p, m)
  BY DEF At1, NotFound

\* Of two least numbers of a set, or with one added.
LEMMA SameLeast ==
    ASSUME NEW D \in SUBSET Nat, NEW k, NEW k1,
           \/ k = 0 /\ D = {}
           \/ k \in D /\ \A j \in D : k =< j,
           \/ k1 = 0 /\ D = {}
           \/ k1 \in D /\ \A j \in D : k1 =< j
    PROVE  k1 = k
  <1>1. CASE D = {}
    BY <1>1
  <1>2. CASE D # {}
    <2>1. k \in Nat /\ k1 \in Nat /\ k =< k1 /\ k1 =< k
      BY <1>2
    <2> QED
      BY <2>1
  <1> QED
    BY <1>1, <1>2

LEMMA NewLeast ==
    ASSUME NEW D \in SUBSET Nat, NEW k, NEW k1, NEW i \in Nat,
           \/ k = 0 /\ D = {}
           \/ k \in D /\ \A j \in D : k =< j,
           k1 \in D \union {i}, \A j \in D \union {i} : k1 =< j
    PROVE  \/ k1 = k /\ k \in D
           \/ k1 = i /\ i \notin D /\ ((k = 0 /\ D = {}) \/ (i < k /\ k \in D))
  <1>1. CASE D = {}
    BY <1>1
  <1>2. CASE D # {}
    <2>1. k \in D /\ k \in Nat /\ k1 \in Nat /\ k1 =< k /\ k1 =< i
      BY <1>2
    <2>2. k1 \in D => k =< k1
      BY <1>2
    <2>3. i \in D => k =< i
      BY <1>2
    <2> QED
      BY <2>1, <2>2, <2>3
  <1> QED
    BY <1>1, <1>2

\* The directory of a collection is the first with playbooks of it, if there is one.
LEMMA KnownDirs ==
    ASSUME NEW c
    PROVE  LET dirs(P) == {i \in 1..CollectionDirs : \E x \in Names : <<<<i, c>>, x>> \in P}
           IN  /\ \/ KnownDir(c) = 0 /\ dirs(present) = {}
                  \/ /\ KnownDir(c) \in dirs(present)
                     /\ \A j \in dirs(present) : KnownDir(c) =< j
               /\ \/ KnownDir(c)' = 0 /\ dirs(present') = {}
                  \/ /\ KnownDir(c)' \in dirs(present')
                     /\ \A j \in dirs(present') : KnownDir(c)' =< j
  <1> DEFINE old == {i \in 1..CollectionDirs : \E x \in Names : <<<<i, c>>, x>> \in present}
             new == {i \in 1..CollectionDirs : \E x \in Names : <<<<i, c>>, x>> \in present'}
  <1>1. /\ KnownDir(c) = IF old = {} THEN 0 ELSE Min(old)
        /\ KnownDir(c)' = IF new = {} THEN 0 ELSE Min(new)
    BY DEF KnownDir, Min
  <1>2. old \in SUBSET Nat /\ new \in SUBSET Nat
    OBVIOUS
  <1>3. \/ KnownDir(c) = 0 /\ old = {}
        \/ KnownDir(c) \in old /\ \A j \in old : KnownDir(c) =< j
    BY <1>1, <1>2, HasMin
  <1>4. \/ KnownDir(c)' = 0 /\ new = {}
        \/ KnownDir(c)' \in new /\ \A j \in new : KnownDir(c)' =< j
    BY <1>1, <1>2, HasMin
  <1> QED
    BY <1>3, <1>4

\* The directories of collections, and what is hidden by a playbook in one of them.
InDirs == (1..CollectionDirs) \X Collections
HiddenBy(place, m) == {<<<<j, place[2]>>, m>> : j \in {k \in 1..CollectionDirs : place[1] < k}}

\* What a collection has of a name, after a playbook has appeared: the same, the
\* playbook, or nothing any more when another directory of the collection hides it.
LEMMA AppearsInCollection ==
    ASSUME NEW place \in Places, NEW n \in Names, present' = present \union {<<place, n>>},
           NEW c, NEW m \in Names
    PROVE  \/ InCollection(c, m)' = InCollection(c, m)
           \/ place \in InDirs /\ InCollection(c, m)' = <<place, n>> /\ m = n
           \/ place \in InDirs /\ InCollection(c, m)' = NotFound /\ InCollection(c, m) \in HiddenBy(place, m)
  <1> DEFINE dirs == {i \in 1..CollectionDirs : \E x \in Names : <<<<i, c>>, x>> \in present}
             next == {i \in 1..CollectionDirs : \E x \in Names : <<<<i, c>>, x>> \in present'}
  <1>1. \/ KnownDir(c) = 0 /\ dirs = {}
        \/ KnownDir(c) \in dirs /\ \A j \in dirs : KnownDir(c) =< j
    BY KnownDirs
  <1>2. \/ KnownDir(c)' = 0 /\ next = {}
        \/ KnownDir(c)' \in next /\ \A j \in next : KnownDir(c)' =< j
    BY KnownDirs
  <1>3. dirs \subseteq 1..CollectionDirs /\ CollectionDirs \in Nat
    BY PlaybooksAssumption DEF PlaybooksAssumption
  <1>4. /\ InCollection(c, m) = IF KnownDir(c) # 0 /\ <<<<KnownDir(c), c>>, m>> \in present
                                THEN <<<<KnownDir(c), c>>, m>> ELSE NotFound
        /\ InCollection(c, m)' = IF KnownDir(c)' # 0 /\ <<<<KnownDir(c)', c>>, m>> \in present'
                                 THEN <<<<KnownDir(c)', c>>, m>> ELSE NotFound
    BY DEF InCollection, At1, NotFound
  <1>5. CASE ~\E i \in 1..CollectionDirs : place = <<i, c>>
    <2>1. next = dirs
      <3>1. \A i \in 1..CollectionDirs, x \in Names :
               <<<<i, c>>, x>> \in present' <=> <<<<i, c>>, x>> \in present
        BY <1>5
      <3> QED
        BY <3>1
    <2> HIDE DEF dirs, next
    <2>2. KnownDir(c)' = KnownDir(c)
      BY <1>1, <1>2, <1>3, <2>1, SameLeast
    <2>3. KnownDir(c) # 0 => <<KnownDir(c), c>> # place
      BY <1>1, <1>3, <1>5
    <2> QED
      BY <2>2, <2>3, <1>4
  <1>6. ASSUME NEW i \in 1..CollectionDirs, place = <<i, c>>
        PROVE  \/ InCollection(c, m)' = InCollection(c, m)
               \/ InCollection(c, m)' = <<place, n>> /\ m = n
               \/ InCollection(c, m)' = NotFound /\ InCollection(c, m) \in HiddenBy(place, m)
    <2>1. next = dirs \union {i}
      <3>1. \A j \in 1..CollectionDirs, x \in Names :
               <<<<j, c>>, x>> \in present' <=> <<<<j, c>>, x>> \in present \/ (j = i /\ x = n)
        BY <1>6
      <3> QED
        BY <3>1
    <2>2. i \notin dirs => <<place, m>> \notin present
      BY <1>6
    <2>3. \A j \in 1..CollectionDirs : i < j => <<<<j, c>>, m>> \in HiddenBy(place, m)
      BY <1>6 DEF HiddenBy
    <2> HIDE DEF dirs, next
    <2>4. \/ KnownDir(c)' = KnownDir(c) /\ KnownDir(c) # 0
          \/ /\ KnownDir(c)' = i /\ i \notin dirs
             /\ KnownDir(c) = 0 \/ (i < KnownDir(c) /\ KnownDir(c) \in dirs)
      <3>1. KnownDir(c)' \in dirs \union {i} /\ \A j \in dirs \union {i} : KnownDir(c)' =< j
        BY <1>2, <2>1
      <3>2. dirs \in SUBSET Nat /\ i \in Nat
        BY <1>3
      <3> QED
        BY <1>1, <1>3, <3>1, <3>2, NewLeast
    <2>5. CASE KnownDir(c)' = KnownDir(c) /\ KnownDir(c) # 0
      BY <1>4, <2>5
    <2>6. CASE /\ KnownDir(c)' = i /\ i \notin dirs
               /\ KnownDir(c) = 0 \/ (i < KnownDir(c) /\ KnownDir(c) \in dirs)
      <3>1. InCollection(c, m)' = IF m = n THEN <<place, n>> ELSE NotFound
        BY <2>6, <2>2, <1>6, <1>4
      <3> QED
        BY <1>3, <1>4, <2>3, <2>6, <3>1
    <2> QED
      BY <2>4, <2>5, <2>6
  <1>7. ASSUME NEW i \in 1..CollectionDirs, place = <<i, c>>
        PROVE  place \in InDirs
    BY <1>7, <1>3 DEF Places, Here, ProjectDirs, Range, InDirs
  <1> QED
    BY <1>5, <1>6, <1>7

\* What the collections of the view have of a name.
LEMMA AppearsInView ==
    ASSUME NEW place \in Places, NEW n \in Names, present' = present \union {<<place, n>>},
           NEW m \in Names
    PROVE  \/ InViewCollections(m)' = InViewCollections(m)
           \/ place \in InDirs /\ InViewCollections(m)' = <<place, n>> /\ m = n
           \/ place \in InDirs /\ InViewCollections(m) \in HiddenBy(place, m)
  <1> DEFINE u == [i \in DOMAIN ViewCollections |-> InCollection(ViewCollections[i], m)]
             v == [i \in DOMAIN ViewCollections |-> InCollection(ViewCollections[i], m)']
  <1>1. /\ Len(ViewCollections) \in Nat /\ DOMAIN ViewCollections = 1..Len(ViewCollections)
        /\ DOMAIN u = 1..Len(ViewCollections) /\ DOMAIN v = 1..Len(ViewCollections)
    BY PlaybooksAssumption DEF PlaybooksAssumption
  <1>2. \A i \in 1..Len(ViewCollections) :
           \/ v[i] = u[i]
           \/ place \in InDirs /\ v[i] = <<place, n>> /\ m = n
           \/ place \in InDirs /\ v[i] = NotFound /\ u[i] \in HiddenBy(place, m)
    BY <1>1, AppearsInCollection
  <1>3. <<place, n>> # NotFound /\ NotFound \notin HiddenBy(place, m)
    BY DEF NotFound, HiddenBy, Places, Here, ProjectDirs, Range
  <1>4. CASE ViewCollections = <<"unset">>
    BY <1>4, AppearsInCollection DEF InViewCollections
  <1>5. CASE ViewCollections # <<"unset">>
    <2>1. InViewCollections(m) = FirstFound(u) /\ InViewCollections(m)' = FirstFound(v)
      BY <1>5 DEF InViewCollections, FirstFound
    <2>2. CASE \A i \in 1..Len(ViewCollections) : v[i] = u[i]
      <3>1. u = v
        BY <1>1, <2>2
      <3> QED
        BY <2>1, <3>1
    <2>3. CASE place \in InDirs
      <3>1. Changed(Len(ViewCollections), u, v, <<place, n>>, HiddenBy(place, m))
        BY <1>1, <1>2, <1>3 DEF Changed
      <3>2. \/ FirstFound(v) = FirstFound(u) \/ FirstFound(v) = <<place, n>>
            \/ FirstFound(u) \in HiddenBy(place, m)
        BY <3>1, FirstChanges
      <3>3. \A i \in 1..Len(ViewCollections) : v[i] = NotFound \/ v[i][2] = m
        BY <1>1 DEF InCollection, At1
      <3> HIDE DEF u, v
      <3>4. FirstFound(v) = <<place, n>> => m = n
        BY <1>1, <1>3, <3>3, FirstFoundIs
      <3> QED
        BY <2>1, <2>3, <3>2, <3>4
    <2> QED
      BY <1>2, <2>2, <2>3
  <1> QED
    BY <1>4, <1>5

\* A playbook of a project is in one of its directories.
LEMMA InProjectIs ==
    ASSUME NEW m
    PROVE  InProject(m) = NotFound \/ \E d \in Range(ProjectDirs) : InProject(m) = <<d, m>>
  <1> DEFINE u == [i \in DOMAIN ProjectDirs |-> At1(ProjectDirs[i], m)]
  <1>1. DOMAIN ProjectDirs = 1..3 /\ DOMAIN u = 1..3
    BY DEF ProjectDirs
  <1>2. \A i \in 1..3 : u[i] = NotFound \/ \E d \in Range(ProjectDirs) : u[i] = <<d, m>>
    BY <1>1 DEF At1, Range
  <1>3. InProject(m) = FirstFound(u)
    BY DEF InProject
  <1> HIDE DEF u
  <1>4. \/ FirstFound(u) = NotFound
        \/ \E i \in 1..3 : FirstFound(u) = u[i] /\ u[i] # NotFound
    BY <1>1, 3 \in Nat, FirstFoundIs
  <1> QED
    BY <1>2, <1>3, <1>4

\* What the directories of the project have of a name.
LEMMA AppearsInProject ==
    ASSUME NEW place \in Places, NEW n, present' = present \union {<<place, n>>}, NEW m
    PROVE  \/ InProject(m)' = InProject(m)
           \/ InProject(m)' = <<place, n>> /\ m = n /\ place \in Range(ProjectDirs)
  <1> DEFINE u == [i \in DOMAIN ProjectDirs |-> At1(ProjectDirs[i], m)]
             v == [i \in DOMAIN ProjectDirs |-> At1(ProjectDirs[i], m)']
  <1>1. DOMAIN ProjectDirs = 1..3 /\ DOMAIN u = 1..3 /\ DOMAIN v = 1..3
    BY DEF ProjectDirs
  <1>2. InProject(m) = FirstFound(u) /\ InProject(m)' = FirstFound(v)
    BY DEF InProject, FirstFound
  <1>3. \A i \in 1..3 : \/ v[i] = u[i]
                        \/ v[i] = <<place, n>> /\ m = n /\ place \in Range(ProjectDirs)
    <2> SUFFICES ASSUME NEW i \in 1..3
                 PROVE  \/ v[i] = u[i]
                        \/ v[i] = <<place, n>> /\ m = n /\ place \in Range(ProjectDirs)
      OBVIOUS
    <2>1. /\ v[i] = At1(ProjectDirs[i], m)' /\ u[i] = At1(ProjectDirs[i], m)
          /\ ProjectDirs[i] \in Range(ProjectDirs)
      BY <1>1 DEF Range
    <2>2. At1(ProjectDirs[i], m)' = IF ProjectDirs[i] = place /\ m = n THEN <<place, n>>
                                    ELSE At1(ProjectDirs[i], m)
      BY AppearsAt
    <2> QED
      BY <2>1, <2>2
  <1>4. <<place, n>> # NotFound
    BY DEF NotFound, Places, Here, ProjectDirs, Range
  <1>5. CASE \A i \in 1..3 : v[i] = u[i]
    <2>1. u = v
      BY <1>1, <1>5
    <2> QED
      BY <1>2, <2>1
  <1>6. CASE m = n /\ place \in Range(ProjectDirs)
    <2>1. Changed(3, u, v, <<place, n>>, {})
      BY <1>1, <1>3, <1>4 DEF Changed
    <2>2. FirstFound(v) = FirstFound(u) \/ FirstFound(v) = <<place, n>> \/ FirstFound(u) \in {}
      BY <2>1, FirstChanges
    <2> QED
      BY <1>2, <1>6, <2>2
  <1> QED
    BY <1>3, <1>5, <1>6

\* A playbook of a collection is not beside the project or in it.
LEMMA InViewIs ==
    ASSUME NEW m
    PROVE  InViewCollections(m)[1] \notin {Here} \union Range(ProjectDirs)
  <1> DEFINE u == [i \in DOMAIN ViewCollections |-> InCollection(ViewCollections[i], m)]
  <1>1. /\ Len(ViewCollections) \in Nat /\ DOMAIN ViewCollections = 1..Len(ViewCollections)
        /\ DOMAIN u = 1..Len(ViewCollections) /\ CollectionDirs \in Nat
    BY PlaybooksAssumption DEF PlaybooksAssumption
  <1>2. NotFound[1] \notin {Here} \union Range(ProjectDirs)
    BY DEF NotFound, Here, ProjectDirs, Range
  <1>3. ASSUME NEW c
        PROVE  InCollection(c, m)[1] \notin {Here} \union Range(ProjectDirs)
    <2>1. KnownDir(c) = 0 \/ KnownDir(c) \in 1..CollectionDirs
      BY KnownDirs
    <2>2. KnownDir(c) # 0 => <<KnownDir(c), c>> \notin {Here} \union Range(ProjectDirs)
      BY <1>1, <2>1 DEF Here, ProjectDirs, Range
    <2>3. InCollection(c, m) = NotFound
          \/ (KnownDir(c) # 0 /\ InCollection(c, m) = <<<<KnownDir(c), c>>, m>>)
      BY DEF InCollection, At1
    <2> QED
      BY <1>2, <2>2, <2>3
  <1>4. \A i \in 1..Len(ViewCollections) : u[i][1] \notin {Here} \union Range(ProjectDirs)
    BY <1>1, <1>3
  <1>5. InViewCollections(m) = IF ViewCollections = <<"unset">> THEN InCollection(Default, m) ELSE FirstFound(u)
    BY DEF InViewCollections, FirstFound
  <1> HIDE DEF u
  <1>6. FirstFound(u)[1] \notin {Here} \union Range(ProjectDirs)
    BY <1>1, <1>2, <1>4, FirstFoundIs
  <1> QED
    BY <1>3, <1>5, <1>6

\* Three tries, one after the other.
LEMMA ThreeTries ==
    ASSUME NEW x, NEW y, NEW z
    PROVE  FirstFound(<<x, y, z>>) = IF x # NotFound THEN x ELSE IF y # NotFound THEN y ELSE z
  <1> DEFINE u == <<x, y, z>>
  <1>1. DOMAIN u = 1..3 /\ u[1] = x /\ u[2] = y /\ u[3] = z
    OBVIOUS
  <1> HIDE DEF u
  <1>2. \/ FirstFound(u) = NotFound /\ \A i \in 1..3 : u[i] = NotFound
        \/ \E i \in 1..3 : /\ FirstFound(u) = u[i] /\ u[i] # NotFound
                           /\ \A j \in 1..3 : j < i => u[j] = NotFound
    BY <1>1, 3 \in Nat, FirstFoundIs
  <1>3. FirstFound(u) = IF x # NotFound THEN x ELSE IF y # NotFound THEN y ELSE z
    BY <1>1, <1>2
  <1> QED
    BY <1>3 DEF u

\* A playbook that appears stands for itself, or hides the rest of its collection
\* in a later directory; it comes after everything that is nearer.
LEMMA AppearsStep ==
    ASSUME NEW place \in Places, NEW n \in Names, present' = present \union {<<place, n>>},
           NEW m \in Names
    PROVE  LET a == Plain(m)
           IN  \/ ExpandPlaybook(a)' = ExpandPlaybook(a)
               \/ /\ ExpandPlaybook(a)' = <<place, n>> /\ n = m
                  /\ place # Here => ExpandPlaybook(a)[1] # Here
                  /\ place \notin {Here} \union Range(ProjectDirs) =>
                       ExpandPlaybook(a)[1] \notin Range(ProjectDirs)
               \/ place \in InDirs /\ ExpandPlaybook(a) \in HiddenBy(place, m)
  <1> DEFINE x == At1(Here, m)
             y == InProject(m)
             z == InViewCollections(m)
  <1>1. ExpandPlaybook(Plain(m)) = IF x # NotFound THEN x ELSE IF y # NotFound THEN y ELSE z
    BY ThreeTries DEF ExpandPlaybook, Plain
  <1>2. ExpandPlaybook(Plain(m))' = IF x' # NotFound THEN x' ELSE IF y' # NotFound THEN y' ELSE z'
    BY ThreeTries DEF ExpandPlaybook, Plain
  <1>3. x' = IF place = Here /\ m = n THEN <<place, n>> ELSE x
    BY AppearsAt
  <1>4. x = NotFound \/ x = <<Here, m>>
    BY DEF At1
  <1>5. y = NotFound \/ \E d \in Range(ProjectDirs) : y = <<d, m>>
    BY InProjectIs
  <1>6. y' = y \/ (y' = <<place, n>> /\ m = n /\ place \in Range(ProjectDirs))
    BY AppearsInProject
  <1>7. \/ z' = z
        \/ place \in InDirs /\ z' = <<place, n>> /\ m = n
        \/ place \in InDirs /\ z \in HiddenBy(place, m)
    BY AppearsInView
  <1>8. Here \notin Range(ProjectDirs) /\ NotFound[1] # Here /\ NotFound[1] \notin Range(ProjectDirs)
    BY DEF Here, ProjectDirs, Range, NotFound
  <1>9. place \in InDirs => place # Here /\ place \notin Range(ProjectDirs)
    BY DEF InDirs, Here, ProjectDirs, Range
  <1>0. z[1] \notin {Here} \union Range(ProjectDirs)
    BY InViewIs
  <1> HIDE DEF x, y, z
  <1>10. <<place, n>> # NotFound /\ \A d : <<d, m>>[1] = d
    BY DEF NotFound, Places, Here, ProjectDirs, Range
  <1>11. CASE x' # x
    BY <1>1, <1>2, <1>3, <1>10, <1>11
  <1>12. CASE x' = x /\ x # NotFound
    BY <1>1, <1>2, <1>12
  <1>13. CASE x' = x /\ x = NotFound /\ y' # y
    <2>1. y' = <<place, n>> /\ m = n /\ place \in Range(ProjectDirs) /\ y' # NotFound
      BY <1>6, <1>10, <1>13
    <2>2. ExpandPlaybook(Plain(m))' = <<place, n>>
      BY <1>2, <1>13, <2>1
    <2>3. ExpandPlaybook(Plain(m))[1] # Here
      BY <1>1, <1>5, <1>8, <1>10, <1>13, <1>0
    <2> QED
      BY <1>8, <2>1, <2>2, <2>3
  <1>14. CASE x' = x /\ x = NotFound /\ y' = y /\ y # NotFound
    BY <1>1, <1>2, <1>14
  <1>15. CASE x' = x /\ x = NotFound /\ y' = y /\ y = NotFound
    <2>1. ExpandPlaybook(Plain(m)) = z /\ ExpandPlaybook(Plain(m))' = z'
      BY <1>1, <1>2, <1>15
    <2> QED
      BY <1>0, <1>7, <1>8, <1>9, <2>1
  <1> QED
    BY <1>11, <1>12, <1>13, <1>14, <1>15

\* No step but this one makes a playbook appear, and one that does keeps to this.
THEOREM Appearing == PlaybooksSpec => OnlyItself
  <1>1. [PlaybooksNext]_runVars =>
          [\A place \in Places, n \in Names :
             present' = present \union {<<place, n>>} /\ <<place, n>> \notin present =>
               \A a \in {Plain(m) : m \in Names} :
                 \/ ExpandPlaybook(a)' = ExpandPlaybook(a)
                 \/ /\ ExpandPlaybook(a)' = <<place, n>> /\ n = a.n
                    /\ place # Here => ExpandPlaybook(a)[1] # Here
                    /\ place \notin {Here} \union Range(ProjectDirs) =>
                         ExpandPlaybook(a)[1] \notin Range(ProjectDirs)
                 \/ \E i, j \in 1..CollectionDirs, c \in Collections :
                      /\ place = <<i, c>> /\ i < j
                      /\ ExpandPlaybook(a)[1] = <<j, c>>]_runVars
    <2> SUFFICES ASSUME NEW place \in Places, NEW n \in Names,
                        present' = present \union {<<place, n>>}, NEW m \in Names
                 PROVE  LET a == Plain(m)
                        IN  \/ ExpandPlaybook(a)' = ExpandPlaybook(a)
                            \/ /\ ExpandPlaybook(a)' = <<place, n>> /\ n = a.n
                               /\ place # Here => ExpandPlaybook(a)[1] # Here
                               /\ place \notin {Here} \union Range(ProjectDirs) =>
                                    ExpandPlaybook(a)[1] \notin Range(ProjectDirs)
                            \/ \E i, j \in 1..CollectionDirs, c \in Collections :
                                 /\ place = <<i, c>> /\ i < j
                                 /\ ExpandPlaybook(a)[1] = <<j, c>>
      OBVIOUS
    <2>1. Plain(m).n = m
      BY DEF Plain
    <2>2. place \in InDirs /\ ExpandPlaybook(Plain(m)) \in HiddenBy(place, m) =>
            \E i, j \in 1..CollectionDirs, c \in Collections :
              place = <<i, c>> /\ i < j /\ ExpandPlaybook(Plain(m))[1] = <<j, c>>
      BY DEF InDirs, HiddenBy
    <2> QED
      BY <2>1, <2>2, AppearsStep
  <1> QED
    BY <1>1, PTL DEF PlaybooksSpec, OnlyItself

-----------------------------------------------------------------------------
(* The arguments of a run.                                                 *)

Parse == INSTANCE FoldProofs WITH Op <- ParseArgument

LEMMA AllFlat == \A q : Parse!FlattenSeq(q) = FlattenSeq(q)
  BY Zenon DEF FlattenSeq, Parse!FlattenSeq

\* What may be in the command.
Own == {[is |-> "option", n |-> o] : o \in {"--extra-vars", "global-vars.yml", "--diff", "--check", "-vv"}}
Words == [from : Nat, what : Arguments \union Own, playbook : BOOLEAN]

LEMMA Associative ==
    ASSUME NEW s \in Seq(Words), NEW t \in Seq(Words), NEW u \in Seq(Words)
    PROVE  s \o (t \o u) = (s \o t) \o u
  BY ConcatAssociative

LEMMA TwoMore ==
    ASSUME NEW s \in Seq(Words), NEW t \in Seq(Words), NEW v \in Words, NEW w \in Words
    PROVE  s \o ((t \o <<v>>) \o <<w>>) = (s \o t) \o <<v, w>>
  <1> DEFINE p == <<v>>
             q == <<w>>
  <1>1. p \in Seq(Words) /\ q \in Seq(Words) /\ <<v, w>> \in Seq(Words)
    OBVIOUS
  <1>2. p \o q = <<v, w>>
    <2> DEFINE c == p \o q
               d == <<v, w>>
    <2>1. Len(p) = 1 /\ Len(q) = 1 /\ p[1] = v /\ q[1] = w
      OBVIOUS
    <2>2. Len(d) = 2 /\ d[1] = v /\ d[2] = w
      OBVIOUS
    <2>3. c \in Seq(Words) /\ Len(c) = 2 /\ c[1] = v /\ c[2] = w
      <3> HIDE DEF p, q
      <3>1. /\ c \in Seq(Words) /\ Len(c) = Len(p) + Len(q)
            /\ \A i \in 1..(Len(p) + Len(q)) :
                  c[i] = IF i <= Len(p) THEN p[i] ELSE q[i - Len(p)]
        BY <1>1, ConcatProperties
      <3> HIDE DEF c
      <3>2. c[1] = p[1] /\ c[2] = q[1]
        BY <2>1, <3>1
      <3> QED
        BY <2>1, <3>1, <3>2
    <2> HIDE DEF c, d
    <2>4. \A i \in 1..Len(c) : c[i] = d[i]
      BY <2>2, <2>3
    <2> QED
      BY <1>1, <2>2, <2>3, <2>4, SeqEqual DEF c, d
  <1> HIDE DEF p, q
  <1>3. p \o q \in Seq(Words)
    BY <1>1, <1>2, Zenon
  <1>4. (t \o p) \o q = t \o (p \o q)
    BY <1>1, Associative
  <1>5. s \o (t \o (p \o q)) = (s \o t) \o (p \o q)
    BY <1>3, Associative
  <1> QED
    BY <1>2, <1>4, <1>5, Zenon DEF p, q

LEMMA ThreeParts ==
    ASSUME NEW s \in Seq(Words), NEW t \in Seq(Words), NEW u \in Seq(Words)
    PROVE  LET all == (s \o t) \o u IN
           /\ all \in Seq(Words) /\ Len(all) = Len(s) + Len(t) + Len(u)
           /\ \A k \in 1..Len(s) : all[k] = s[k]
           /\ \A m \in 1..Len(t) : all[Len(s) + m] = t[m]
           /\ \A m \in 1..Len(u) : all[Len(s) + Len(t) + m] = u[m]
           /\ Len(s) \in Nat /\ Len(t) \in Nat /\ Len(u) \in Nat
  OBVIOUS

\* What an argument is, told by whether it is an option.
LEMMA ArgumentIs ==
    ASSUME NEW a \in Arguments
    PROVE  /\ a.is = "option" => a.n = "--" \/ a.n \in Listed \union Valued \union Joined
           /\ a.is # "option" => /\ a.n \in Names \union DOMAIN PlaybookSets
                                 /\ a.n \notin Listed \union Valued \union Joined /\ a.n # "--"
           /\ ExpandSet(a) \in Seq(Arguments)
  <1>1. CASE \E o \in Listed \union Valued \union Joined \union {"--"} : a = [is |-> "option", n |-> o]
    BY <1>1 DEF ExpandSet
  <1>2. CASE \E n \in Names : a = Plain(n)
    BY <1>2, PlaybooksAssumption DEF Plain, ExpandSet
  <1>3. CASE \E c \in Collections, n \in Names : a = Qualified(c, n)
    BY <1>3, PlaybooksAssumption DEF Qualified, ExpandSet
  <1>4. CASE \E s \in DOMAIN PlaybookSets : a = [is |-> "set", n |-> s]
    BY <1>4, PlaybooksAssumption DEF ExpandSet
  <1> QED
    BY <1>1, <1>2, <1>3, <1>4 DEF Arguments

\* What is added is no playbook.
LEMMA AddedIs ==
    ASSUME NEW o \in {"--extra-vars", "global-vars.yml", "--diff", "--check", "-vv"}
    PROVE  Added(o) \in Words /\ Added(o).playbook = FALSE /\ Added(o).what = [is |-> "option", n |-> o]
  <1>1. [is |-> "option", n |-> o] \in Arguments \union Own
    BY DEF Own
  <1> QED
    BY <1>1 DEF Added, Kept, Words

LEMMA GlobalsAre ==
    /\ Globals \in Seq(Words)
    /\ \A m \in 1..Len(Globals) : Globals[m].playbook = FALSE
  <1> DEFINE Two == <<Added("--extra-vars"), Added("global-vars.yml")>>
             S == {w \in Words : w.playbook = FALSE}
             q == [i \in DOMAIN GlobalVars |-> IF GlobalVars[i] THEN Two ELSE <<>>]
  <1>1. Two \in Seq(S)
    <2>1. Added("--extra-vars") \in S /\ Added("global-vars.yml") \in S
      BY AddedIs
    <2> HIDE DEF S
    <2> QED
      BY <2>1
  <1>2. <<>> \in Seq(S)
    OBVIOUS
  <1>3. q \in Seq(Seq(S))
    <2>1. DOMAIN GlobalVars = 1..Len(GlobalVars) /\ Len(GlobalVars) \in Nat
      BY PlaybooksAssumption
    <2> HIDE DEF Two, S
    <2> QED
      BY <1>1, <1>2, <2>1
  <1>4. Globals = Parse!FlattenSeq(q)
    BY AllFlat, Zenon DEF Globals
  <1> HIDE DEF S, q
  <1>5. Globals \in Seq(S)
    BY <1>3, <1>4, Parse!FlatRange, Zenon
  <1> QED
    BY <1>5 DEF S

\* What the arguments become, in a row.
Become == [i \in DOMAIN line |-> Becomes(i)]

LEMMA BecomesWords ==
    ASSUME line \in Seq(Arguments)
    PROVE  Become \in Seq(Seq(Words)) /\ Len(Become) = Len(line)
  <1>1. ASSUME NEW i \in 1..Len(line) PROVE Becomes(i) \in Seq(Words)
    <2>1. line[i] \in Arguments /\ i \in Nat
      OBVIOUS
    <2>2. Kept(line[i], i) \in Words
      BY <2>1 DEF Kept, Words
    <2>3. Expansion(line[i], i) \in Seq(Words)
      <3>1. ExpandSet(line[i]) \in Seq(Arguments)
        BY <2>1, ArgumentIs
      <3> DEFINE q == ExpandSet(line[i])
      <3> HIDE DEF q
      <3>2. \A e \in DOMAIN q : [from |-> i, what |-> q[e], playbook |-> TRUE] \in Words
        BY <2>1, <3>1 DEF Words, q
      <3>3. [e \in DOMAIN q |-> [from |-> i, what |-> q[e], playbook |-> TRUE]] \in Seq(Words)
        BY <3>1, <3>2 DEF q
      <3> QED
        BY <3>3 DEF Expansion, q
    <2>4. <<>> \in Seq(Words) /\ <<Kept(line[i], i)>> \in Seq(Words)
      BY <2>2
    <2> QED
      BY <2>3, <2>4, Zenon DEF Becomes
  <1>2. DOMAIN line = 1..Len(line) /\ Len(line) \in Nat
    OBVIOUS
  <1> QED
    BY <1>1, <1>2 DEF Become

LEMMA BecomesRow ==
    ASSUME line \in Seq(Arguments)
    PROVE  \E g : /\ g[0] = <<>>
                  /\ \A k \in 0..Len(line) : g[k] \in Seq(Words)
                  /\ \A k \in Nat : k < Len(line) => g[k + 1] = g[k] \o Becomes(k + 1)
                  /\ FlattenSeq(Become) = g[Len(line)]
  <1>1. Become \in Seq(Seq(Words)) /\ Len(Become) = Len(line)
    BY BecomesWords
  <1>2. PICK g : /\ g[0] = <<>>
                 /\ \A k \in Nat : k < Len(Become) => g[k + 1] = g[k] \o Become[k + 1]
                 /\ Parse!FlattenSeq(Become) = g[Len(Become)]
    BY <1>1, Parse!FlatRow, Zenon
  <1>3. ASSUME NEW k \in Nat, k < Len(line) PROVE Become[k + 1] = Becomes(k + 1)
    <2>1. k + 1 \in DOMAIN line
      BY <1>3
    <2> QED
      BY <2>1, Zenon DEF Become
  <1>4. \A k \in Nat : k < Len(line) => g[k + 1] = g[k] \o Becomes(k + 1)
    BY <1>1, <1>2, <1>3
  <1> DEFINE T == {k \in Nat : k <= Len(line) => g[k] \in Seq(Words)}
  <1>5. 0 \in T
    <2>1. g[0] \in Seq(Words)
      BY <1>2
    <2> QED
      BY <2>1
  <1>6. ASSUME NEW k \in Nat, k \in T PROVE k + 1 \in T
    <2>1. SUFFICES ASSUME k + 1 <= Len(line) PROVE g[k + 1] \in Seq(Words)
      OBVIOUS
    <2>2. k < Len(line) /\ k <= Len(line) /\ k + 1 \in 1..Len(line)
      BY <2>1
    <2>3. Become[k + 1] \in Seq(Words) /\ g[k] \in Seq(Words)
      BY <1>1, <1>6, <2>2
    <2>4. g[k + 1] = g[k] \o Become[k + 1]
      BY <1>1, <1>2, <2>2
    <2>5. g[k] \o Become[k + 1] \in Seq(Words)
      BY <2>3, ConcatProperties, Zenon
    <2> QED
      BY <2>4, <2>5, Zenon
  <1> HIDE DEF T
  <1>7. \A k \in Nat : k \in T
    BY <1>5, <1>6, Parse!EveryNumber, Zenon
  <1>8. \A k \in 0..Len(line) : g[k] \in Seq(Words)
    BY <1>7 DEF T
  <1>9. FlattenSeq(Become) = g[Len(line)]
    BY <1>1, <1>2, AllFlat, Zenon
  <1> QED
    BY <1>2, <1>4, <1>8, <1>9

\* An option takes the next argument, which then takes none itself.
LEMMA TakenTakesNot ==
    ASSUME line \in Seq(Arguments), NEW i \in 1..Len(line)
    PROVE  /\ Taken(i) => ~Takes(i) /\ line[i].n # "--" /\ Becomes(i) = <<Kept(line[i], i)>>
           /\ line[i].is # "option" => ~Takes(i) /\ line[i].n # "--"
           /\ line[i].n = "--" => ~Takes(i) /\ ~Taken(i)
  <1>1. line[i] \in Arguments
    OBVIOUS
  <1>2. line[i].is # "option" => line[i].n # "--"
    BY <1>1, ArgumentIs
  <1> QED
    BY <1>2, Zenon DEF Takes, Taken, Becomes

\* How far the command has come after k arguments: the next one may be taken.
Reaches(k) == IF k + 1 <= Len(line) /\ Taken(k + 1) THEN k + 1 ELSE k
DoneAt(k) == {j \in 1..Reaches(k) : line[j].n # "--"}

LEMMA ParseStep ==
    ASSUME line \in Seq(Arguments), NEW g,
           \A k \in 0..Len(line) : g[k] \in Seq(Words),
           \A k \in Nat : k < Len(line) => g[k + 1] = g[k] \o Becomes(k + 1),
           NEW k \in Nat, k < Len(line), NEW parse,
           parse = [done |-> DoneAt(k), cmd |-> Globals \o g[Reaches(k)]]
    PROVE  ParseArgument(parse, k + 1)
             = [done |-> DoneAt(k + 1), cmd |-> Globals \o g[Reaches(k + 1)]]
  <1> DEFINE i == k + 1
             a == line[i]
  <1>1. i \in 1..Len(line) /\ k \in 0..Len(line) /\ i \in 0..Len(line) /\ Len(line) \in Nat
    OBVIOUS
  <1>2. Globals \in Seq(Words) /\ g[k] \in Seq(Words) /\ g[i] = g[k] \o Becomes(i)
    BY <1>1, GlobalsAre
  <1>3. CASE Taken(i)
    <2>1. ~Takes(i) /\ a.n # "--"
      BY <1>1, <1>3, TakenTakesNot
    <2>2. Reaches(k) = i
      BY <1>1, <1>3 DEF Reaches
    <2>3. Reaches(i) = i
      <3>1. i + 1 > 1 /\ i + 1 - 1 = i
        BY <1>1
      <3>2. ~Taken(i + 1)
        BY <2>1, <3>1 DEF Taken
      <3> QED
        BY <3>2 DEF Reaches
    <2>4. i \in DoneAt(k)
      BY <1>1, <2>1, <2>2 DEF DoneAt
    <2>5. DoneAt(i) = DoneAt(k)
      BY <2>2, <2>3 DEF DoneAt
    <2> HIDE DEF i
    <2>6. ParseArgument(parse, i) = parse
      BY <2>4 DEF ParseArgument
    <2> QED
      BY <2>2, <2>3, <2>5, <2>6, Zenon DEF i
  <1>4. CASE ~Taken(i)
    <2>1. Reaches(k) = k
      BY <1>1, <1>4 DEF Reaches
    <2>2. parse.done = DoneAt(k) /\ parse.cmd = Globals \o g[k]
      BY <2>1
    <2>3. i \notin DoneAt(k)
      BY <2>1 DEF DoneAt
    <2>4. Reaches(i) \in {i, i + 1} /\ (Reaches(i) = i + 1 <=> i + 1 <= Len(line) /\ Taken(i + 1))
      <3>1. i # i + 1
        OBVIOUS
      <3> QED
        BY <3>1, Zenon DEF Reaches
    <2>5. Taken(i + 1) <=> Takes(i) /\ line[i + 1].is # "option"
      BY <1>1 DEF Taken
    <2>6. CASE a.n = "--"
      <3>1. ~Takes(i) /\ Becomes(i) = <<>>
        BY <1>1, <2>6, TakenTakesNot DEF Becomes
      <3>2. Reaches(i) = i
        BY <2>4, <2>5, <3>1
      <3>3. DoneAt(i) = DoneAt(k)
        BY <2>1, <2>6, <3>2 DEF DoneAt
      <3>4. g[i] = g[k]
        <4>1. g[k] \o <<>> = g[k]
          <5> HIDE DEF i
          <5> QED
            BY <1>2
        <4> QED
          BY <1>2, <3>1, <4>1, Zenon
      <3>5. ParseArgument(parse, i) = parse
        BY <2>6, Zenon DEF ParseArgument
      <3> QED
        BY <3>2, <3>3, <3>4, <3>5, <2>1, Zenon
    <2>7. CASE a.n # "--" /\ a.is # "option"
      <3>1. ~Takes(i) /\ Becomes(i) = Expansion(a, i)
        BY <1>1, <1>4, <2>7, TakenTakesNot DEF Becomes
      <3>2. Reaches(i) = i
        BY <2>4, <2>5, <3>1
      <3>3. DoneAt(i) = DoneAt(k) \union {i}
        BY <2>1, <2>7, <3>2 DEF DoneAt
      <3>4. Becomes(i) \in Seq(Words)
        <4>1. Become[i] = Becomes(i)
          <5>1. i \in DOMAIN line
            BY <1>1
          <5> QED
            BY <5>1, Zenon DEF Become
        <4>2. Become[i] \in Seq(Words)
          <5>1. Become \in Seq(Seq(Words)) /\ i \in 1..Len(Become)
            BY <1>1, BecomesWords
          <5> HIDE DEF i
          <5> QED
            BY <5>1
        <4> QED
          BY <4>1, <4>2, Zenon
      <3>5. Globals \o g[i] = (Globals \o g[k]) \o Becomes(i)
        <4>1. \A u \in Seq(Words) : Globals \o (g[k] \o u) = (Globals \o g[k]) \o u
          BY <1>2, Associative
        <4> QED
          BY <1>2, <3>4, <4>1, Zenon
      <3>6. ParseArgument(parse, i)
              = [done |-> parse.done \union {i}, cmd |-> parse.cmd \o Expansion(a, i)]
        BY <2>2, <2>3, <2>7, Zenon DEF ParseArgument
      <3> QED
        BY <2>2, <3>1, <3>2, <3>3, <3>5, <3>6, Zenon
    <2>8. CASE a.n # "--" /\ a.is = "option"
      <3>1. Becomes(i) = <<Kept(a, i)>>
        BY <2>8, Zenon DEF Becomes
      <3>2. Kept(a, i) \in Words
        BY <1>1 DEF Kept, Words
      <3>3. Takes(i) <=> a.n \notin Listed
        BY <2>8, Zenon DEF Takes
      <3>4. Globals \o g[i] = Append(Globals \o g[k], Kept(a, i))
        <4> DEFINE s == Globals
                   t == g[k]
                   w == Kept(a, i)
        <4>1. s \in Seq(Words) /\ t \in Seq(Words) /\ w \in Words
          BY <1>2, <3>2
        <4>2. g[i] = t \o <<w>>
          BY <1>2, <3>1, Zenon
        <4> HIDE DEF s, t, w
        <4>3. s \o (t \o <<w>>) = Append(s \o t, w)
          BY <4>1
        <4> QED
          BY <4>2, <4>3 DEF s, t, w
      <3>5. CASE i + 1 <= Len(line) /\ Taken(i + 1)
        <4>1. i + 1 \in 1..Len(line) /\ i \in Nat /\ i < Len(line)
          BY <1>1, <3>5
        <4>2. line[i + 1].is # "option" /\ a.n \notin Listed
          BY <2>5, <3>3, <3>5
        <4>3. line[i + 1].n # "--" /\ Becomes(i + 1) = <<Kept(line[i + 1], i + 1)>>
          BY <3>5, <4>1, TakenTakesNot
        <4>4. Reaches(i) = i + 1
          BY <2>4, <3>5
        <4>5. DoneAt(i) = DoneAt(k) \union {i, i + 1}
          BY <2>1, <2>8, <4>1, <4>3, <4>4 DEF DoneAt
        <4>6. g[i + 1] = g[i] \o <<Kept(line[i + 1], i + 1)>>
          BY <4>1, <4>3
        <4>7. Globals \o g[i + 1] = (Globals \o g[k]) \o <<Kept(a, i), Kept(line[i + 1], i + 1)>>
          <5> DEFINE s == Globals
                     t == g[k]
                     v == Kept(a, i)
                     w == Kept(line[i + 1], i + 1)
          <5>1. w \in Words
            BY <4>1 DEF Kept, Words
          <5>2. s \in Seq(Words) /\ t \in Seq(Words) /\ v \in Words
            BY <1>2, <3>2
          <5>3. g[i + 1] = (t \o <<v>>) \o <<w>>
            BY <1>2, <3>1, <4>6, Zenon
          <5> HIDE DEF s, t, v, w
          <5>4. s \o ((t \o <<v>>) \o <<w>>) = (s \o t) \o <<v, w>>
            BY <5>1, <5>2, TwoMore
          <5> QED
            BY <5>3, <5>4 DEF s, t, v, w
        <4>8. ParseArgument(parse, i)
                = [done |-> parse.done \union {i, i + 1},
                   cmd |-> parse.cmd \o <<Kept(a, i), Kept(line[i + 1], i + 1)>>]
          BY <2>2, <2>3, <2>8, <3>5, <4>2, Zenon DEF ParseArgument
        <4> QED
          BY <2>2, <4>4, <4>5, <4>7, <4>8, Zenon
      <3>6. CASE ~(i + 1 <= Len(line) /\ Taken(i + 1))
        <4>1. Reaches(i) = i
          BY <2>4, <3>6
        <4>2. DoneAt(i) = DoneAt(k) \union {i}
          BY <2>1, <2>8, <4>1 DEF DoneAt
        <4>3. ~(i + 1 <= Len(line) /\ a.n \notin Listed /\ line[i + 1].is # "option")
          BY <2>5, <3>3, <3>6
        <4>4. ParseArgument(parse, i)
                = [done |-> parse.done \union {i}, cmd |-> Append(parse.cmd, Kept(a, i))]
          BY <2>2, <2>3, <2>8, <4>3, Zenon DEF ParseArgument
        <4> QED
          BY <2>2, <3>4, <4>1, <4>2, <4>4, Zenon
      <3> QED
        BY <3>5, <3>6
    <2> QED
      BY <2>6, <2>7, <2>8
  <1> QED
    BY <1>3, <1>4

\* The command is what each argument becomes, after what is added first.
LEMMA ParsedIs ==
    ASSUME line \in Seq(Arguments)
    PROVE  Parsed1 = Globals \o FlattenSeq(Become)
  <1> DEFINE n == Len(line)
             q == [i \in DOMAIN line |-> i]
  <1>1. n \in Nat /\ DOMAIN line = 1..n
    OBVIOUS
  <1>2. PICK g : /\ g[0] = <<>>
                 /\ \A k \in 0..n : g[k] \in Seq(Words)
                 /\ \A k \in Nat : k < n => g[k + 1] = g[k] \o Becomes(k + 1)
                 /\ FlattenSeq(Become) = g[n]
    BY BecomesRow
  <1>3. Parsed1 = Parse!Fold([done |-> {}, cmd |-> Globals], q).cmd
    BY Zenon DEF Parsed1, FoldLeft, MapThenFoldSet, Max,
       Parse!Fold, Parse!FoldLeft, Parse!MapThenFoldSet, Parse!Max
  <1>4. PICK r : /\ r[0] = [done |-> {}, cmd |-> Globals]
                 /\ \A k \in Nat : k < n => r[k + 1] = ParseArgument(r[k], q[k + 1])
                 /\ Parse!Fold([done |-> {}, cmd |-> Globals], q) = r[n]
    <2>1. DOMAIN q = 1..n
      BY <1>1
    <2> HIDE DEF q, n
    <2> QED
      BY <1>1, <2>1, Parse!FoldRow
  <1> DEFINE At(k) == [done |-> DoneAt(k), cmd |-> Globals \o g[Reaches(k)]]
             T == {k \in Nat : k <= n => r[k] = At(k)}
  <1>5. 0 \in T
    <2>1. ~Taken(0 + 1)
      BY DEF Taken
    <2>2. Reaches(0) = 0
      BY <2>1 DEF Reaches
    <2>3. DoneAt(0) = {}
      BY <2>2 DEF DoneAt
    <2>4. Globals \o <<>> = Globals
      BY GlobalsAre
    <2> QED
      BY <1>2, <1>4, <2>2, <2>3, <2>4, Zenon
  <1>6. ASSUME NEW k \in Nat, k \in T PROVE k + 1 \in T
    <2>1. SUFFICES ASSUME k + 1 <= n PROVE r[k + 1] = At(k + 1)
      OBVIOUS
    <2>2. k < n /\ k <= n /\ k + 1 \in DOMAIN line
      BY <1>1, <2>1
    <2>3. r[k + 1] = ParseArgument(r[k], k + 1)
      BY <1>4, <2>2
    <2>4. r[k] = At(k)
      BY <1>6, <2>2
    <2> QED
      BY <1>2, <2>2, <2>3, <2>4, ParseStep
  <1> HIDE DEF T
  <1>7. \A k \in Nat : k \in T
    BY <1>5, <1>6, Parse!EveryNumber, Zenon
  <1>8. r[n] = At(n)
    BY <1>1, <1>7 DEF T
  <1>9. Reaches(n) = n
    <2>1. ~(n + 1 <= n)
      <3> HIDE DEF n
      <3> QED
        BY <1>1
    <2> QED
      BY <2>1, Zenon DEF Reaches
  <1>10. r[n].cmd = Globals \o g[n]
    <2>1. r[n].cmd = Globals \o g[Reaches(n)]
      BY <1>8
    <2> QED
      BY <1>9, <2>1, Zenon
  <1> QED
    BY <1>2, <1>3, <1>4, <1>10, Zenon

\* The command, and what is in it: nothing that is added is a playbook.
Given1 == Globals \o FlattenSeq(Become)
Friday2 == <<Added("--diff"), Added("--check")>>

LEMMA CommandIs ==
    ASSUME line \in Seq(Arguments)
    PROVE  /\ Parsed1 = Given1 /\ Given1 \in Seq(Words)
           /\ Command = (Given1 \o ReadOnly) \o Verbose /\ Given1 \o <<>> = Given1
           /\ ReadOnly \in Seq(Words) /\ Verbose \in Seq(Words) /\ Command \in Seq(Words)
           /\ \A k \in 1..Len(Command) : Command[k].playbook =>
                \E i \in 1..Len(line) : \E j \in 1..Len(Becomes(i)) : Command[k] = Becomes(i)[j]
           /\ \A i \in 1..Len(line) : \A j \in 1..Len(Becomes(i)) :
                \E k \in 1..Len(Command) : Command[k] = Becomes(i)[j]
  <1> DEFINE flat == FlattenSeq(Become)
             end == ReadOnly \o Verbose
  <1>1. Become \in Seq(Seq(Words)) /\ Len(Become) = Len(line)
    BY BecomesWords
  <1>2. /\ flat \in Seq(Words)
        /\ \A i \in 1..Len(Become) : \A j \in 1..Len(Become[i]) :
              \E m \in 1..Len(flat) : flat[m] = Become[i][j]
        /\ \A m \in 1..Len(flat) :
              \E i \in 1..Len(Become) : \E j \in 1..Len(Become[i]) : flat[m] = Become[i][j]
    <2>1. Parse!FlattenSeq(Become) = flat
      BY AllFlat
    <2> DEFINE same == Parse!FlattenSeq(Become)
    <2>2. same \in Seq(Words)
      BY <1>1, Parse!FlatRange, Zenon
    <2>3. \A i \in 1..Len(Become) : \A j \in 1..Len(Become[i]) :
             \E m \in 1..Len(same) : same[m] = Become[i][j]
      BY <1>1, Parse!FlatRange, Zenon
    <2>4. \A m \in 1..Len(same) :
             \E i \in 1..Len(Become) : \E j \in 1..Len(Become[i]) : same[m] = Become[i][j]
      BY <1>1, Parse!FlatRange, Zenon
    <2>5. same = flat
      BY <2>1
    <2> HIDE DEF same, flat
    <2> QED
      BY <2>2, <2>3, <2>4, <2>5
  <1>3. \A i \in 1..Len(line) : Become[i] = Becomes(i)
    <2>1. DOMAIN line = 1..Len(line)
      OBVIOUS
    <2> QED
      BY <2>1, Zenon DEF Become
  <1>4. /\ end \in Seq(Words) /\ \A m \in 1..Len(end) : end[m].playbook = FALSE
        /\ ReadOnly \in Seq(Words) /\ Verbose \in Seq(Words)
    <2>1. Friday2 \in Seq(Words) /\ \A m \in 1..Len(Friday2) : Friday2[m].playbook = FALSE
      <3>1. Added("--diff") \in Words /\ Added("--check") \in Words
        BY AddedIs
      <3>2. Added("--diff").playbook = FALSE /\ Added("--check").playbook = FALSE
        BY AddedIs
      <3> QED
        BY <3>1, <3>2 DEF Friday2
    <2>2. <<>> \in Seq(Words) /\ \A m \in 1..Len(<<>>) : <<>>[m].playbook = FALSE
      OBVIOUS
    <2>3. <<Added("-vv")>> \in Seq(Words)
          /\ \A m \in 1..Len(<<Added("-vv")>>) : <<Added("-vv")>>[m].playbook = FALSE
      <3>1. Added("-vv") \in Words /\ Added("-vv").playbook = FALSE
        BY AddedIs
      <3> QED
        BY <3>1
    <2>4. ReadOnly \in Seq(Words) /\ \A m \in 1..Len(ReadOnly) : ReadOnly[m].playbook = FALSE
      BY <2>1, <2>2, Zenon DEF ReadOnly, Friday2
    <2>5. Verbose \in Seq(Words) /\ \A m \in 1..Len(Verbose) : Verbose[m].playbook = FALSE
      BY <2>2, <2>3, Zenon DEF Verbose
    <2>6. /\ end \in Seq(Words) /\ Len(end) = Len(ReadOnly) + Len(Verbose)
          /\ \A m \in 1..(Len(ReadOnly) + Len(Verbose)) :
               end[m] = IF m <= Len(ReadOnly) THEN ReadOnly[m] ELSE Verbose[m - Len(ReadOnly)]
      BY <2>4, <2>5, ConcatProperties
    <2>7. ASSUME NEW m \in 1..Len(end) PROVE end[m].playbook = FALSE
      <3> HIDE DEF end
      <3>1. Len(ReadOnly) \in Nat /\ Len(Verbose) \in Nat
        BY <2>4, <2>5
      <3>2. CASE m <= Len(ReadOnly)
        <4>1. m \in 1..Len(ReadOnly) /\ end[m] = ReadOnly[m]
          BY <2>6, <3>1, <3>2
        <4> QED
          BY <2>4, <4>1
      <3>3. CASE ~(m <= Len(ReadOnly))
        <4>1. m - Len(ReadOnly) \in 1..Len(Verbose) /\ end[m] = Verbose[m - Len(ReadOnly)]
          BY <2>6, <3>1, <3>3
        <4> QED
          BY <2>5, <4>1
      <3> QED
        BY <3>2, <3>3
    <2> QED
      BY <2>4, <2>5, <2>6, <2>7
  <1>5. Globals \in Seq(Words) /\ \A m \in 1..Len(Globals) : Globals[m].playbook = FALSE
    BY GlobalsAre
  <1>6. Parsed1 = Given1
    BY ParsedIs DEF Given1
  <1>7. Given1 \in Seq(Words)
    BY <1>2, <1>5, ConcatProperties, Zenon DEF Given1
  <1>8. Command = Given1 \o end
    <2>1. Command = (Given1 \o ReadOnly) \o Verbose
      BY <1>6, Zenon DEF Command
    <2> QED
      BY <1>4, <1>7, <2>1, Associative
  <1>9. Command = (Given1 \o ReadOnly) \o Verbose /\ Given1 \o <<>> = Given1
    BY <1>6, <1>7, ConcatEmptySeq, Zenon DEF Command
  <1> HIDE DEF flat, end
  <1>10. /\ Command \in Seq(Words)
         /\ Len(Command) = Len(Globals) + Len(flat) + Len(end)
         /\ \A k \in 1..Len(Globals) : Command[k] = Globals[k]
         /\ \A m \in 1..Len(flat) : Command[Len(Globals) + m] = flat[m]
         /\ \A m \in 1..Len(end) : Command[Len(Globals) + Len(flat) + m] = end[m]
         /\ Len(Globals) \in Nat /\ Len(flat) \in Nat /\ Len(end) \in Nat
    <2>1. Command = (Globals \o flat) \o end
      BY <1>8, Zenon DEF Given1, flat
    <2>2. flat \in Seq(Words) /\ end \in Seq(Words) /\ Globals \in Seq(Words)
      BY <1>2, <1>4, <1>5, Zenon
    <2> QED
      BY <2>1, <2>2, ThreeParts
  <1>11. ASSUME NEW k \in 1..Len(Command), Command[k].playbook
         PROVE  \E i \in 1..Len(line) : \E j \in 1..Len(Becomes(i)) : Command[k] = Becomes(i)[j]
    <2>1. k \notin 1..Len(Globals)
      BY <1>5, <1>10, <1>11
    <2>2. \A m \in 1..Len(end) : k # Len(Globals) + Len(flat) + m
      BY <1>4, <1>10, <1>11
    <2>3. k - Len(Globals) \in 1..Len(flat) /\ k = Len(Globals) + (k - Len(Globals))
      <3>1. k - Len(Globals) - Len(flat) \notin 1..Len(end)
        <4>1. k = Len(Globals) + Len(flat) + (k - Len(Globals) - Len(flat))
          BY <1>10
        <4> QED
          BY <2>2, <4>1, Zenon
      <3> DEFINE a == Len(Globals)
                 b == Len(flat)
                 c == Len(end)
      <3>2. k \in 1..(a + b + c) /\ k \notin 1..a /\ k - a - b \notin 1..c
            /\ a \in Nat /\ b \in Nat /\ c \in Nat
        BY <1>10, <2>1, <3>1
      <3> HIDE DEF a, b, c
      <3>3. k - a \in 1..b /\ k = a + (k - a)
        BY <3>2
      <3> QED
        BY <3>3 DEF a, b, c
    <2>4. PICK m \in 1..Len(flat) : k = Len(Globals) + m
      BY <2>3
    <2>5. Command[k] = flat[m]
      BY <1>10, <2>4
    <2>6. PICK i \in 1..Len(Become) : \E j \in 1..Len(Become[i]) : flat[m] = Become[i][j]
      BY <1>2
    <2>7. i \in 1..Len(line) /\ Become[i] = Becomes(i)
      BY <1>1, <1>3
    <2> QED
      BY <2>5, <2>6, <2>7
  <1>12. ASSUME NEW i \in 1..Len(line), NEW j \in 1..Len(Becomes(i))
         PROVE  \E k \in 1..Len(Command) : Command[k] = Becomes(i)[j]
    <2>1. i \in 1..Len(Become) /\ Become[i] = Becomes(i)
      BY <1>1, <1>3
    <2>2. PICK m \in 1..Len(flat) : flat[m] = Becomes(i)[j]
      <3>1. j \in 1..Len(Become[i])
        BY <2>1, Zenon
      <3>2. PICK m \in 1..Len(flat) : flat[m] = Become[i][j]
        BY <1>2, <2>1, <3>1, Zenon
      <3> QED
        BY <2>1, <3>2, Zenon
    <2>3. Len(Globals) + m \in 1..Len(Command)
      BY <1>10
    <2> QED
      BY <1>10, <2>2, <2>3
  <1> QED
    BY <1>4, <1>6, <1>7, <1>9, <1>10, <1>11, <1>12

\* What asks for a check still does so with more behind it.
LEMMA CheckStays ==
    ASSUME NEW c \in Seq(Words), NEW d \in Seq(Words), HasCheck(c)
    PROVE  HasCheck(c \o d)
  <1> DEFINE cd == c \o d
  <1>1. /\ cd \in Seq(Words) /\ Len(cd) = Len(c) + Len(d) /\ Len(c) \in Nat /\ Len(d) \in Nat
        /\ \A i \in 1..(Len(c) + Len(d)) : cd[i] = IF i <= Len(c) THEN c[i] ELSE d[i - Len(c)]
    BY ConcatProperties
  <1>2. PICK i \in DOMAIN c : c[i].what.is = "option" /\ c[i].what.n \in Checks
    BY DEF HasCheck
  <1>3. i \in 1..Len(c) /\ DOMAIN cd = 1..Len(cd)
    BY <1>1
  <1> HIDE DEF cd
  <1>4. i \in DOMAIN cd /\ cd[i] = c[i]
    BY <1>1, <1>3
  <1>5. HasCheck(cd)
    BY <1>2, <1>4, Zenon DEF HasCheck
  <1> QED
    BY <1>5 DEF cd

\* A read-only Friday adds the check that is not there.
LEMMA FridayChecks ==
    ASSUME line \in Seq(Arguments)
    PROVE  FridayIsReadOnly
  <1>1. /\ Given1 \in Seq(Words) /\ Parsed1 = Given1 /\ Given1 \o <<>> = Given1
        /\ Command = (Given1 \o ReadOnly) \o Verbose /\ Verbose \in Seq(Words)
        /\ ReadOnly \in Seq(Words)
    BY CommandIs
  <1>2. SUFFICES ASSUME friday PROVE HasCheck(Command)
    BY Zenon DEF FridayIsReadOnly, CheckMode
  <1> DEFINE checked == Given1 \o ReadOnly
  <1>3. checked \in Seq(Words)
    BY <1>1, ConcatProperties
  <1>4. CASE HasCheck(Parsed1)
    <2>1. HasCheck(checked)
      BY <1>1, <1>4, Zenon DEF ReadOnly
    <2> HIDE DEF checked
    <2>2. HasCheck(checked \o Verbose)
      BY <1>1, <1>3, <2>1, CheckStays
    <2> QED
      BY <1>1, <2>2 DEF checked
  <1>5. CASE ~HasCheck(Parsed1)
    <2>1. checked = Given1 \o Friday2
      BY <1>2, <1>5, Zenon DEF ReadOnly, Friday2
    <2>2. Friday2 \in Seq(Words) /\ Len(Friday2) = 2 /\ Friday2[2] = Added("--check")
      BY AddedIs DEF Friday2
    <2>3. /\ checked \in Seq(Words) /\ Len(checked) = Len(Given1) + 2
          /\ \A i \in 1..(Len(Given1) + 2) :
               checked[i] = IF i <= Len(Given1) THEN Given1[i] ELSE Friday2[i - Len(Given1)]
      <3> DEFINE c == Given1 \o Friday2
      <3>1. /\ c \in Seq(Words) /\ Len(c) = Len(Given1) + Len(Friday2)
            /\ \A i \in 1..(Len(Given1) + Len(Friday2)) :
                 c[i] = IF i <= Len(Given1) THEN Given1[i] ELSE Friday2[i - Len(Given1)]
        BY <1>1, <2>2, ConcatProperties
      <3> HIDE DEF c
      <3>2. c = checked
        BY <2>1 DEF c
      <3> QED
        BY <2>2, <3>1, <3>2, Zenon
    <2> DEFINE n == Len(Given1)
               i == n + 2
    <2>4. n \in Nat
      BY <1>1
    <2>5. i \in 1..(n + 2) /\ ~(i <= n) /\ i - n = 2
      <3> HIDE DEF n
      <3> QED
        BY <2>4
    <2> HIDE DEF checked
    <2>6. checked[i] = Friday2[i - n]
      <3> HIDE DEF i
      <3> QED
        BY <2>3, <2>5
    <2> HIDE DEF i, n
    <2>7. checked[i].what = [is |-> "option", n |-> "--check"]
      BY <2>2, <2>5, <2>6, AddedIs
    <2>8. i \in DOMAIN checked
      BY <2>3, <2>5 DEF n
    <2>9. checked[i].what.is = "option" /\ checked[i].what.n \in Checks
      BY <2>7 DEF Checks
    <2>10. HasCheck(checked)
      BY <2>8, <2>9, Zenon DEF HasCheck
    <2>11. HasCheck(checked \o Verbose)
      BY <1>1, <1>3, <2>10, CheckStays
    <2> QED
      BY <1>1, <2>11 DEF checked
  <1> QED
    BY <1>4, <1>5

\* What an argument that is no value of an option becomes is a playbook.
LEMMA PlaybooksTaken ==
    ASSUME line \in Seq(Arguments)
    PROVE  TakenForPlaybooks
  <1> DEFINE positional == {i \in DOMAIN line : line[i].is # "option"
                                                /\ ~(i > 1 /\ line[i - 1].n \in Valued)}
             Expanding(i) == line[i].is # "option" /\ ~Taken(i)
             expanded == {k \in DOMAIN Command : Command[k].playbook}
  <1> SUFFICES ASSUME \A i \in DOMAIN line : line[i].n \notin Joined
               PROVE  {Command[k].from : k \in expanded}
                        = {i \in positional : ExpandSet(line[i]) # <<>>}
    BY Zenon DEF TakenForPlaybooks
  <1>1. DOMAIN line = 1..Len(line) /\ Len(line) \in Nat
    OBVIOUS
  <1>2. ASSUME NEW i \in 1..Len(line), line[i].is # "option"
        PROVE  Taken(i) <=> i > 1 /\ line[i - 1].n \in Valued
    <2>1. CASE i > 1
      <3>1. i - 1 \in 1..Len(line)
        BY <1>1, <2>1
      <3>2. line[i - 1] \in Arguments /\ line[i - 1].n \notin Joined
        BY <1>1, <3>1
      <3>3. /\ line[i - 1].is = "option" =>
                 line[i - 1].n = "--" \/ line[i - 1].n \in Listed \union Valued \union Joined
            /\ line[i - 1].is # "option" => line[i - 1].n \notin Listed \union Valued \union Joined
        BY <3>2, ArgumentIs
      <3>4. line[i - 1].n \in Valued => line[i - 1].n \notin Listed \union {"--"}
        BY PlaybooksAssumption
      <3>5. Takes(i - 1) <=> line[i - 1].n \in Valued
        BY <3>2, <3>3, <3>4, Zenon DEF Takes
      <3> QED
        BY <1>2, <2>1, <3>5, Zenon DEF Taken
    <2>2. CASE ~(i > 1)
      BY <2>2, Zenon DEF Taken
    <2> QED
      BY <2>1, <2>2
  <1>3. positional = {i \in 1..Len(line) : Expanding(i)}
    BY <1>1, <1>2, Zenon
  <1>4. ASSUME NEW i \in 1..Len(line), NEW j \in 1..Len(Becomes(i))
        PROVE  /\ Becomes(i)[j].from = i
               /\ Becomes(i)[j].playbook => Expanding(i) /\ ExpandSet(line[i]) # <<>>
    <2>1. CASE line[i].n = "--"
      <3>1. Len(Becomes(i)) = 0
        BY <2>1 DEF Becomes
      <3> QED
        BY <3>1
    <2>2. CASE line[i].n # "--" /\ (line[i].is = "option" \/ Taken(i))
      <3>1. Becomes(i) = <<Kept(line[i], i)>>
        BY <2>2, Zenon DEF Becomes
      <3>2. j = 1
        BY <3>1
      <3>3. Becomes(i)[j] = Kept(line[i], i)
        BY <3>1, <3>2
      <3> QED
        BY <3>3 DEF Kept
    <2>3. CASE line[i].n # "--" /\ Expanding(i)
      <3>1. Becomes(i) = Expansion(line[i], i)
        BY <2>3, Zenon DEF Becomes
      <3>2. ExpandSet(line[i]) \in Seq(Arguments)
        BY ArgumentIs
      <3> DEFINE q == ExpandSet(line[i])
      <3> HIDE DEF q
      <3>3. Becomes(i) = [e \in DOMAIN q |-> [from |-> i, what |-> q[e], playbook |-> TRUE]]
        BY <3>1, Zenon DEF Expansion, q
      <3>4. Len(Becomes(i)) = Len(q) /\ DOMAIN q = 1..Len(q)
        BY <3>2, <3>3 DEF q
      <3>5. j \in DOMAIN q
        BY <3>4
      <3>6. Becomes(i)[j].from = i
        BY <3>3, <3>5
      <3>7. q # <<>>
        BY <3>5
      <3> QED
        BY <2>3, <3>6, <3>7 DEF q
    <2> QED
      BY <2>1, <2>2, <2>3, Zenon
  <1>5. ASSUME NEW i \in 1..Len(line), Expanding(i), ExpandSet(line[i]) # <<>>
        PROVE  \E j \in 1..Len(Becomes(i)) : Becomes(i)[j].playbook
    <2>1. line[i].n # "--"
      BY <1>5, TakenTakesNot
    <2>2. Becomes(i) = Expansion(line[i], i)
      BY <1>5, <2>1, Zenon DEF Becomes
    <2>3. ExpandSet(line[i]) \in Seq(Arguments)
      BY ArgumentIs
    <2> DEFINE q == ExpandSet(line[i])
    <2> HIDE DEF q
    <2>4. Becomes(i) = [e \in DOMAIN q |-> [from |-> i, what |-> q[e], playbook |-> TRUE]]
      BY <2>2, Zenon DEF Expansion, q
    <2>5. Len(Becomes(i)) = Len(q) /\ DOMAIN q = 1..Len(q) /\ 1 \in 1..Len(q)
      BY <1>5, <2>3, <2>4 DEF q
    <2>6. Becomes(i)[1].playbook = TRUE
      BY <2>4, <2>5
    <2> QED
      BY <2>5, <2>6
  <1>6. /\ Command \in Seq(Words)
        /\ \A k \in 1..Len(Command) : Command[k].playbook =>
             \E i \in 1..Len(line) : \E j \in 1..Len(Becomes(i)) : Command[k] = Becomes(i)[j]
        /\ \A i \in 1..Len(line) : \A j \in 1..Len(Becomes(i)) :
             \E k \in 1..Len(Command) : Command[k] = Becomes(i)[j]
    BY CommandIs
  <1>7. DOMAIN Command = 1..Len(Command)
    BY <1>6
  <1> HIDE DEF Expanding
  <1>8. ASSUME NEW k \in expanded
        PROVE  Command[k].from \in {i \in positional : ExpandSet(line[i]) # <<>>}
    <2>1. k \in 1..Len(Command) /\ Command[k].playbook
      BY <1>7
    <2>2. PICK i \in 1..Len(line) : \E j \in 1..Len(Becomes(i)) : Command[k] = Becomes(i)[j]
      BY <1>6, <2>1, Zenon
    <2>3. PICK j \in 1..Len(Becomes(i)) : Command[k] = Becomes(i)[j]
      BY <2>2
    <2>4. Command[k].from = i /\ Expanding(i) /\ ExpandSet(line[i]) # <<>>
      BY <1>4, <2>1, <2>3, Zenon
    <2> QED
      BY <1>3, <2>4, Zenon
  <1>9. ASSUME NEW i \in positional, ExpandSet(line[i]) # <<>>
        PROVE  \E k \in expanded : i = Command[k].from
    <2>1. i \in 1..Len(line) /\ Expanding(i)
      BY <1>3, Zenon
    <2>2. PICK j \in 1..Len(Becomes(i)) : Becomes(i)[j].playbook
      BY <1>5, <1>9, <2>1, Zenon
    <2>3. PICK k \in 1..Len(Command) : Command[k] = Becomes(i)[j]
      BY <1>6, <2>1, Zenon
    <2>4. Command[k].from = i /\ Command[k].playbook
      BY <1>4, <2>1, <2>2, <2>3, Zenon
    <2> QED
      BY <1>7, <2>4, Zenon
  <1> HIDE DEF positional, expanded
  <1> QED
    BY <1>8, <1>9

\* The arguments of a run reach ansible-playbook, whatever they are and however
\* many: those that are no playbooks as they were given, in their places, the
\* playbooks looked up, and on a read-only Friday with a check.
THEOREM ArgumentsArrive == PlaybooksSpec => []ArgumentsKept
  <1> DEFINE Typed == line \in Seq(Arguments)
  <1>1. PlaybooksInit => Typed
    BY DEF PlaybooksInit
  <1>2. Typed /\ [PlaybooksNext]_runVars => Typed'
    <2> SUFFICES ASSUME Typed, [PlaybooksNext]_runVars PROVE Typed'
      OBVIOUS
    <2>1. CASE \E place \in Places, n \in Names : Appears1(place, n) \/ Disappears(place, n)
      BY <2>1 DEF Appears1, Disappears
    <2>2. CASE \E a \in Arguments : Argument(a)
      <3>1. PICK a \in Arguments : Argument(a)
        BY <2>2
      <3>2. line' = Append(line, a)
        BY <3>1 DEF Argument
      <3> QED
        BY <3>2
    <2>3. CASE UNCHANGED runVars
      BY <2>3 DEF runVars
    <2> QED
      BY <2>1, <2>2, <2>3 DEF PlaybooksNext
  <1>3. Typed => ArgumentsKept
    <2> SUFFICES ASSUME Typed PROVE ArgumentsKept
      OBVIOUS
    <2>1. NoArgumentLost
      <3>1. Command = (Given1 \o ReadOnly) \o Verbose /\ Given1 \o <<>> = Given1
        BY CommandIs
      <3>2. Command \in {Given1 \o Verbose, (Given1 \o Friday2) \o Verbose}
        BY <3>1, Zenon DEF ReadOnly, Friday2
      <3> QED
        BY <3>2, Zenon DEF NoArgumentLost, Given1, Friday2, Become
    <2> QED
      BY <2>1, FridayChecks, PlaybooksTaken DEF ArgumentsKept
  <1> QED
    BY <1>1, <1>2, <1>3, PTL DEF PlaybooksSpec

-----------------------------------------------------------------------------
(* The configuration.                                                      *)


Gathering == INSTANCE FoldProofs WITH Op <- MergeDict

\* A tree: what leads to a path is a map, and a list is a sequence.
Sequence(q) == \E S : q \in Seq(S)
Tree(tree) ==
    /\ <<>> \in DOMAIN tree /\ tree[<<>>] = Map
    /\ \A p \in DOMAIN tree :
          /\ p \in Seq(STRING) /\ tree[p].is \in {"leaf", "list", "map"}
          /\ tree[p].is = "list" => Sequence(tree[p].of)
          /\ \A a \in Above(p) : a \in DOMAIN tree /\ tree[a].is = "map"
\* Two trees with the same leaves, lists and maps, whatever these hold.
Alike(t, u) == DOMAIN t = DOMAIN u /\ \A p \in DOMAIN t : t[p].is = u[p].is
\* What is in the one tree is in the other.
Absorbed(tree, new) == \A p \in DOMAIN new : p \in DOMAIN tree /\ tree[p].is = new[p].is

LEMMA AboveAbove ==
    ASSUME NEW p \in Seq(STRING), NEW a \in Above(p)
    PROVE  a \in Seq(STRING) /\ Above(a) \subseteq Above(p)
  <1>1. PICK n \in 0..(Len(p) - 1) : a = SubSeq(p, 1, n)
    BY DEF Above
  <1>2. n \in Nat /\ n <= Len(p) /\ Len(p) \in Nat
    OBVIOUS
  <1>3. a \in Seq(STRING) /\ Len(a) = n
    BY <1>1, <1>2
  <1>4. ASSUME NEW m \in 0..(n - 1) PROVE SubSeq(a, 1, m) = SubSeq(p, 1, m)
    BY <1>1, <1>2, <1>4
  <1>5. 0..(n - 1) \subseteq 0..(Len(p) - 1)
    BY <1>2
  <1> QED
    BY <1>3, <1>4, <1>5, Zenon DEF Above

\* A merge, at one path.
LEMMA MergeHas == \A old, new, p : p \in DOMAIN MergeDict(old, new)
                                     <=> p \in DOMAIN new \/ (p \in DOMAIN old /\ ~Replaced(p, new))
  BY Zenon DEF MergeDict
LEMMA MergeNew == \A old, new : \A p \in DOMAIN new :
                     MergeDict(old, new)[p] = MergeValue(AtPath(old, p), new[p])
  BY Zenon DEF MergeDict
LEMMA MergeOld == \A old, new : \A p \in DOMAIN MergeDict(old, new) :
                     p \notin DOMAIN new => MergeDict(old, new)[p] = old[p]
  BY Zenon DEF MergeDict

LEMMA ValueIs == \A old, new : MergeValue(old, new).is = new.is
  BY DEF MergeValue, List
LEMMA ValueNew == \A old, new : new.is # "list" \/ old.is # "list" => MergeValue(old, new) = new
  BY DEF MergeValue
LEMMA ValueMore == \A old, new : new.is = "list" /\ old.is = "list"
                                   => MergeValue(old, new).of = old.of \o new.of
  BY DEF MergeValue, List

LEMMA MergeKind == \A old, new : \A p \in DOMAIN new :
                     /\ p \in DOMAIN MergeDict(old, new)
                     /\ MergeDict(old, new)[p].is = new[p].is
  <1> TAKE old, new
  <1> TAKE p \in DOMAIN new
  <1>1. p \in DOMAIN MergeDict(old, new)
    BY MergeHas, Zenon
  <1>2. MergeValue(AtPath(old, p), new[p]).is = new[p].is
    BY ValueIs, Zenon
  <1> QED
    BY <1>1, <1>2, MergeNew, Zenon

LEMMA MergeIs ==
    ASSUME NEW old, NEW new, Tree(old), Tree(new)
    PROVE  Tree(MergeDict(old, new)) /\ Absorbed(MergeDict(old, new), new)
  <1> DEFINE m == MergeDict(old, new)
  <1>1. Absorbed(m, new)
    BY MergeKind DEF Absorbed
  <1>2. ASSUME NEW p \in DOMAIN m
        PROVE  /\ p \in Seq(STRING) /\ m[p].is \in {"leaf", "list", "map"}
               /\ m[p].is = "list" => Sequence(m[p].of)
               /\ \A a \in Above(p) : a \in DOMAIN m /\ m[a].is = "map"
    <2>1. CASE p \in DOMAIN new
      <3>1. /\ p \in Seq(STRING) /\ new[p].is \in {"leaf", "list", "map"}
            /\ new[p].is = "list" => Sequence(new[p].of)
            /\ \A a \in Above(p) : a \in DOMAIN new /\ new[a].is = "map"
        BY <2>1, Zenon DEF Tree
      <3>2. m[p] = MergeValue(AtPath(old, p), new[p]) /\ m[p].is = new[p].is
        BY <2>1, MergeNew, MergeKind
      <3>3. \A a \in Above(p) : a \in DOMAIN m /\ m[a].is = "map"
        BY <3>1, <1>1, Zenon DEF Absorbed
      <3>4. m[p].is = "list" => Sequence(m[p].of)
        <4>1. CASE new[p].is = "list" /\ AtPath(old, p).is = "list"
          <5>1. p \in DOMAIN old /\ AtPath(old, p) = old[p]
            BY <4>1 DEF AtPath, Absent
          <5>2. Sequence(old[p].of) /\ Sequence(new[p].of)
            BY <3>1, <4>1, <5>1, Zenon DEF Tree
          <5>3. m[p].of = old[p].of \o new[p].of
            <6>1. MergeValue(old[p], new[p]).of = old[p].of \o new[p].of
              BY <4>1, <5>1, ValueMore, Zenon
            <6> QED
              BY <3>2, <5>1, <6>1, Zenon
          <5>4. PICK S, T : old[p].of \in Seq(S) /\ new[p].of \in Seq(T)
            BY <5>2, Zenon DEF Sequence
          <5>5. \A x \in Seq(S), y \in Seq(T) : x \o y \in Seq(S \union T)
            OBVIOUS
          <5> QED
            BY <5>3, <5>4, <5>5, Zenon DEF Sequence
        <4>2. CASE ~(new[p].is = "list" /\ AtPath(old, p).is = "list")
          <5>1. m[p] = new[p]
            <6>1. MergeValue(AtPath(old, p), new[p]) = new[p]
              BY <4>2, ValueNew, Zenon
            <6> QED
              BY <3>2, <6>1, Zenon
          <5> QED
            BY <5>1, <3>1, Zenon
        <4> QED
          BY <4>1, <4>2, Zenon
      <3> QED
        BY <3>1, <3>2, <3>3, <3>4, Zenon
    <2>2. CASE p \notin DOMAIN new
      <3>1. p \in DOMAIN old /\ ~Replaced(p, new) /\ m[p] = old[p]
        BY <2>2, MergeHas, MergeOld
      <3>2. /\ p \in Seq(STRING) /\ old[p].is \in {"leaf", "list", "map"}
            /\ old[p].is = "list" => Sequence(old[p].of)
            /\ \A a \in Above(p) : a \in DOMAIN old /\ old[a].is = "map"
        BY <3>1, Zenon DEF Tree
      <3>3. ASSUME NEW a \in Above(p) PROVE a \in DOMAIN m /\ m[a].is = "map"
        <4>1. CASE a \in DOMAIN new
          BY <4>1, <1>1, <3>1, <3>3, Zenon DEF Absorbed, Replaced
        <4>2. CASE a \notin DOMAIN new
          <5>1. ~Replaced(a, new)
            BY <3>1, <3>2, <3>3, AboveAbove, Zenon DEF Replaced
          <5> QED
            BY <4>2, <5>1, <3>2, <3>3, MergeHas, MergeOld
        <4> QED
          BY <4>1, <4>2
      <3> QED
        BY <3>1, <3>2, <3>3, Zenon
    <2> QED
      BY <2>1, <2>2
  <1>3. <<>> \in DOMAIN m /\ m[<<>>] = Map
    <2>1. <<>> \in DOMAIN new /\ new[<<>>] = Map
      BY Zenon DEF Tree
    <2>2. new[<<>>].is # "list"
      BY <2>1 DEF Map
    <2> QED
      <3>1. MergeValue(AtPath(old, <<>>), new[<<>>]) = new[<<>>]
        BY <2>2, ValueNew, Zenon
      <3> QED
        BY <2>1, <3>1, MergeHas, MergeNew, Zenon
  <1> QED
    BY <1>1, <1>2, <1>3, Zenon DEF Tree

LEMMA MergeAlike ==
    ASSUME NEW t, NEW u, Alike(t, u), NEW v, NEW w, Alike(v, w)
    PROVE  Alike(MergeDict(t, v), MergeDict(u, w))
  <1>1. \A p : Replaced(p, v) <=> Replaced(p, w)
    BY Zenon DEF Replaced, Alike
  <1>2. \A p : p \in DOMAIN MergeDict(t, v) <=> p \in DOMAIN MergeDict(u, w)
    BY <1>1, MergeHas, Zenon DEF Alike
  <1>3. ASSUME NEW p \in DOMAIN MergeDict(t, v)
        PROVE  MergeDict(t, v)[p].is = MergeDict(u, w)[p].is
    <2>1. CASE p \in DOMAIN v
      <3>1. p \in DOMAIN w /\ v[p].is = w[p].is
        BY <2>1, Zenon DEF Alike
      <3> QED
        BY <2>1, <3>1, MergeKind
    <2>2. CASE p \notin DOMAIN v
      <3>1. p \notin DOMAIN w /\ p \in DOMAIN t
        BY <2>2, MergeHas, Zenon DEF Alike
      <3>2. MergeDict(t, v)[p] = t[p] /\ MergeDict(u, w)[p] = u[p]
        BY <1>2, <2>2, <3>1, MergeOld
      <3> QED
        BY <3>1, <3>2, Zenon DEF Alike
    <2> QED
      BY <2>1, <2>2
  <1> QED
    BY <1>2, <1>3, Zenon DEF Alike

\* A tree that has what another has keeps it when that is merged again, and its
\* lists grow.
LEMMA MergedAgain ==
    ASSUME NEW tree, NEW new, Tree(tree), Tree(new), Absorbed(tree, new), NEW p
    PROVE  LET now == AtPath(tree, p)
               then == AtPath(MergeDict(tree, new), p)
           IN  then.is = now.is /\ (now.is = "list" => IsPrefix(now.of, then.of))
  <1> DEFINE m == MergeDict(tree, new)
  <1>2. ASSUME NEW q, Sequence(q) PROVE IsPrefix(q, q)
    <2>1. PICK S : q \in Seq(S)
      BY <1>2 DEF Sequence
    <2> QED
      BY <2>1 DEF IsPrefix
  <1>3. ASSUME NEW q, Sequence(q), NEW s, Sequence(s) PROVE IsPrefix(q, q \o s)
    <2>1. PICK S, T : q \in Seq(S) /\ s \in Seq(T)
      BY <1>3, Zenon DEF Sequence
    <2>2. q \in Seq(S \union T) /\ s \in Seq(S \union T)
      BY <2>1
    <2>3. \A U : \A x, y \in Seq(U) : Len(x) <= Len(x \o y) /\ SubSeq(x \o y, 1, Len(x)) = SubSeq(x, 1, Len(x))
      OBVIOUS
    <2> QED
      BY <2>2, <2>3, Zenon DEF IsPrefix
  <1>4. CASE p \in DOMAIN new
    <2>1. p \in DOMAIN tree /\ tree[p].is = new[p].is
      BY <1>4, Zenon DEF Absorbed
    <2>2. p \in DOMAIN m /\ m[p] = MergeValue(tree[p], new[p])
      BY <1>4, <2>1, MergeHas, MergeNew, Zenon DEF AtPath
    <2>3. m[p].is = tree[p].is
      BY <1>4, <2>1, MergeKind
    <2>4. ASSUME tree[p].is = "list" PROVE IsPrefix(tree[p].of, m[p].of)
      <3>1. m[p].of = tree[p].of \o new[p].of
        BY <2>1, <2>2, <2>4, ValueMore, Zenon
      <3>2. Sequence(tree[p].of) /\ Sequence(new[p].of)
        BY <1>4, <2>1, <2>4, Zenon DEF Tree
      <3> QED
        BY <1>3, <3>1, <3>2, Zenon
    <2> QED
      BY <2>1, <2>2, <2>3, <2>4, Zenon DEF AtPath
  <1>5. CASE p \notin DOMAIN new /\ p \in DOMAIN tree
    <2>1. ~Replaced(p, new)
      BY <1>5, Zenon DEF Tree, Absorbed, Replaced
    <2>2. p \in DOMAIN m /\ m[p] = tree[p]
      BY <1>5, <2>1, MergeHas, MergeOld
    <2>3. tree[p].is = "list" => Sequence(tree[p].of)
      BY <1>5, Zenon DEF Tree
    <2> QED
      BY <1>2, <1>5, <2>2, <2>3, Zenon DEF AtPath
  <1>6. CASE p \notin DOMAIN new /\ p \notin DOMAIN tree
    <2>1. p \notin DOMAIN m
      BY <1>6, MergeHas, Zenon
    <2>2. Absent.is # "list"
      BY DEF Absent
    <2> QED
      BY <1>6, <2>1, <2>2, Zenon DEF AtPath
  <1> QED
    BY <1>4, <1>5, <1>6, Zenon

-----------------------------------------------------------------------------
LEMMA ExpandedIs ==
    ASSUME NEW v, v.is \in {"leaf", "list", "map"}
    PROVE  /\ ExpandValue(v).is = v.is
           /\ v.is = "list" /\ Sequence(v.of) => Sequence(ExpandValue(v).of)
  <1>1. CASE v.is = "leaf"
    <2>1. ExpandValue(v) = Leaf(ExpandText(v.of))
      BY <1>1 DEF ExpandValue
    <2> QED
      BY <1>1, <2>1 DEF Leaf
  <1>2. CASE v.is = "list"
    <2> DEFINE q == [i \in DOMAIN v.of |-> ExpandText(v.of[i])]
    <2>1. ExpandValue(v) = List(q)
      BY <1>2 DEF ExpandValue
    <2>2. ExpandValue(v).is = "list" /\ ExpandValue(v).of = q
      BY <2>1 DEF List
    <2>3. ASSUME Sequence(v.of) PROVE Sequence(q)
      <3>1. PICK S : v.of \in Seq(S)
        BY <2>3 DEF Sequence
      <3> DEFINE T == {ExpandText(v.of[i]) : i \in DOMAIN v.of}
      <3>2. \A i \in DOMAIN v.of : ExpandText(v.of[i]) \in T
        OBVIOUS
      <3> HIDE DEF T
      <3>3. q \in Seq(T)
        BY <3>1, <3>2
      <3> QED
        BY <3>3, Zenon DEF Sequence
    <2> QED
      BY <1>2, <2>2, <2>3, Zenon
  <1>3. CASE v.is = "map"
    BY <1>3 DEF ExpandValue
  <1> QED
    BY <1>1, <1>2, <1>3

LEMMA EmptyIs == Tree(EmptyTree)
  <1>1. Above(<<>>) = {}
    <2>1. 0..(Len(<<>>) - 1) = {}
      OBVIOUS
    <2> QED
      BY <2>1 DEF Above
  <1>2. <<>> \in Seq(STRING) /\ Map.is = "map"
    BY DEF Map
  <1> QED
    BY <1>1, <1>2 DEF Tree, EmptyTree

LEMMA LoadedIs ==
    ASSUME NEW i \in DOMAIN ConfigFiles
    PROVE  /\ Tree(Loaded(i))
           /\ ConfigFiles[i].reads = "yes" =>
                /\ DOMAIN Loaded(i) = DOMAIN ConfigFiles[i].says
                /\ \A p \in DOMAIN Loaded(i) :
                     /\ ConfigFiles[i].says[p].is \in {"leaf", "list", "map"}
                     /\ Loaded(i)[p] = ExpandValue(ConfigFiles[i].says[p])
                     /\ Loaded(i)[p].is = ConfigFiles[i].says[p].is
           /\ ConfigFiles[i].reads # "yes" => Loaded(i) = EmptyTree
  <1> DEFINE says == ConfigFiles[i].says
  <1>1. IsTree(says)
    BY ConfigAssumption, Zenon
  <1>2. CASE ConfigFiles[i].reads = "yes"
    <2>1. Loaded(i) = ExpandVars(says)
      BY <1>2, Zenon DEF Loaded
    <2> HIDE DEF says
    <2>2. /\ DOMAIN Loaded(i) = DOMAIN says
          /\ \A p \in DOMAIN says : Loaded(i)[p] = ExpandValue(says[p])
      BY <2>1, Zenon DEF ExpandVars
    <2>3. \A p \in DOMAIN says :
            /\ p \in Seq(STRING) /\ says[p].is \in {"leaf", "list", "map"}
            /\ says[p].is = "list" => says[p].of \in Seq(Seq(Pieces))
            /\ \A a \in Above(p) : a \in DOMAIN says /\ says[a].is = "map"
      BY <1>1, Zenon DEF IsTree
    <2>4. \A p \in DOMAIN says : Loaded(i)[p].is = says[p].is
      BY <2>2, <2>3, ExpandedIs
    <2>5. \A p \in DOMAIN says : says[p].is = "list" => Sequence(says[p].of)
      BY <2>3, Zenon DEF Sequence
    <2>6. \A p \in DOMAIN says : says[p].is = "list" => Sequence(Loaded(i)[p].of)
      BY <2>2, <2>3, <2>5, ExpandedIs
    <2>7. <<>> \in DOMAIN says /\ Loaded(i)[<<>>] = Map
      <3>1. <<>> \in DOMAIN says /\ says[<<>>] = Map
        BY <1>1, Zenon DEF IsTree
      <3>2. ExpandValue(Map) = Map
        BY DEF ExpandValue, Map
      <3> QED
        BY <2>2, <3>1, <3>2, Zenon
    <2>8. Tree(Loaded(i))
      BY <2>2, <2>3, <2>4, <2>6, <2>7, Zenon DEF Tree
    <2> QED
      BY <1>2, <2>2, <2>3, <2>4, <2>8, Zenon DEF says
  <1>3. CASE ConfigFiles[i].reads # "yes"
    BY <1>3, EmptyIs, Zenon DEF Loaded
  <1> QED
    BY <1>2, <1>3

\* The loop of "load", over trees that were read.
LEMMA LoadRow ==
    ASSUME NEW n \in Nat, NEW q, DOMAIN q = 1..n
    PROVE  \E r : /\ r[0] = EmptyTree
                  /\ \A k \in Nat : k < n => r[k + 1] = MergeDict(r[k], q[k + 1])
                  /\ FoldLeft(MergeDict, EmptyTree, q) = r[n]
  <1>1. FoldLeft(MergeDict, EmptyTree, q) = Gathering!Fold(EmptyTree, q)
    BY Zenon DEF FoldLeft, MapThenFoldSet, Max,
         Gathering!Fold, Gathering!FoldLeft, Gathering!MapThenFoldSet, Gathering!Max
  <1>2. \E r : /\ r[0] = EmptyTree
               /\ \A k \in Nat : k < n => r[k + 1] = MergeDict(r[k], q[k + 1])
               /\ Gathering!Fold(EmptyTree, q) = r[n]
    <2>1. Gathering!HasRow(EmptyTree, q, n)
      BY Gathering!FoldHasRow, Zenon
    <2> QED
      BY <2>1, Zenon DEF Gathering!HasRow
  <1> QED
    BY <1>1, <1>2

LEMMA LoadIsTree ==
    ASSUME NEW n \in Nat, NEW names \in [1..n -> DOMAIN ConfigFiles]
    PROVE  Tree(LoadFiles(names))
  <1> DEFINE q == [i \in DOMAIN names |-> Loaded(names[i])]
  <1>1. DOMAIN q = 1..n
    OBVIOUS
  <1>2. \A i \in 1..n : Tree(q[i])
    BY LoadedIs
  <1>3. LoadFiles(names) = FoldLeft(MergeDict, EmptyTree, q)
    BY Zenon DEF LoadFiles
  <1> HIDE DEF q
  <1>4. PICK r : /\ r[0] = EmptyTree
                 /\ \A k \in Nat : k < n => r[k + 1] = MergeDict(r[k], q[k + 1])
                 /\ FoldLeft(MergeDict, EmptyTree, q) = r[n]
    BY <1>1, LoadRow
  <1> DEFINE T == {k \in Nat : k <= n => Tree(r[k])}
  <1>5. 0 \in T
    BY <1>4, EmptyIs
  <1>6. ASSUME NEW k \in Nat, k \in T PROVE k + 1 \in T
    <2> SUFFICES ASSUME k + 1 <= n PROVE Tree(r[k + 1])
      OBVIOUS
    <2>1. k <= n /\ k < n /\ k + 1 \in 1..n
      OBVIOUS
    <2>2. Tree(r[k])
      BY <1>6, <2>1
    <2>3. Tree(q[k + 1])
      BY <1>2, <2>1, Zenon
    <2>4. r[k + 1] = MergeDict(r[k], q[k + 1])
      BY <1>4, <2>1, Zenon
    <2> QED
      BY <2>2, <2>3, <2>4, MergeIs, Zenon
  <1> HIDE DEF T
  <1>7. n \in T
    BY <1>5, <1>6, Gathering!EveryNumber, Zenon
  <1> QED
    BY <1>3, <1>4, <1>7 DEF T

\* What the variables are has no part in where leaves, lists and maps are.
LEMMA LoadAlike ==
    ASSUME NEW n \in Nat, NEW q, DOMAIN q = 1..n, NEW u, DOMAIN u = 1..n,
           \A i \in 1..n : Alike(q[i], u[i])
    PROVE  Alike(FoldLeft(MergeDict, EmptyTree, q), FoldLeft(MergeDict, EmptyTree, u))
  <1>1. PICK r : /\ r[0] = EmptyTree
                 /\ \A k \in Nat : k < n => r[k + 1] = MergeDict(r[k], q[k + 1])
                 /\ FoldLeft(MergeDict, EmptyTree, q) = r[n]
    BY LoadRow
  <1>2. PICK s : /\ s[0] = EmptyTree
                 /\ \A k \in Nat : k < n => s[k + 1] = MergeDict(s[k], u[k + 1])
                 /\ FoldLeft(MergeDict, EmptyTree, u) = s[n]
    BY LoadRow
  <1> DEFINE T == {k \in Nat : k <= n => Alike(r[k], s[k])}
  <1>3. 0 \in T
    BY <1>1, <1>2 DEF Alike
  <1>4. ASSUME NEW k \in Nat, k \in T PROVE k + 1 \in T
    <2> SUFFICES ASSUME k + 1 <= n PROVE Alike(r[k + 1], s[k + 1])
      OBVIOUS
    <2>1. /\ Alike(r[k], s[k]) /\ Alike(q[k + 1], u[k + 1])
          /\ r[k + 1] = MergeDict(r[k], q[k + 1]) /\ s[k + 1] = MergeDict(s[k], u[k + 1])
      BY <1>1, <1>2, <1>4
    <2> QED
      BY <2>1, MergeAlike, Zenon
  <1> HIDE DEF T
  <1>5. n \in T
    BY <1>3, <1>4, Gathering!EveryNumber, Zenon
  <1> QED
    BY <1>1, <1>2, <1>5 DEF T

LEMMA FilesAlike ==
    ASSUME NEW n \in Nat, NEW names \in [1..n -> DOMAIN ConfigFiles]
    PROVE  Alike(LoadFiles(names), LoadFiles(names)')
  <1> DEFINE q == [i \in DOMAIN names |-> Loaded(names[i])]
             u == [i \in DOMAIN names |-> Loaded(names[i])']
  <1>1. DOMAIN q = 1..n /\ DOMAIN u = 1..n
    OBVIOUS
  <1>2. ASSUME NEW i \in DOMAIN ConfigFiles PROVE Alike(Loaded(i), Loaded(i)')
    <2> DEFINE says == ConfigFiles[i].says
    <2>1. \A p \in DOMAIN says : says[p].is \in {"leaf", "list", "map"}
      BY ConfigAssumption, Zenon DEF IsTree
    <2>2. CASE ConfigFiles[i].reads = "yes"
      <3>1. Loaded(i) = ExpandVars(says) /\ Loaded(i)' = [p \in DOMAIN says |-> ExpandValue(says[p])']
        BY <2>2, Zenon DEF Loaded, ExpandVars
      <3>2. \A p \in DOMAIN says : ExpandValue(says[p]).is = says[p].is
        BY <2>1, ExpandedIs
      <3>3. \A p \in DOMAIN says : ExpandValue(says[p])'.is = says[p].is
        <4> TAKE p \in DOMAIN says
        <4>1. \/ says[p].is = "leaf" /\ ExpandValue(says[p])' = Leaf(ExpandText(says[p].of)')
              \/ says[p].is = "list" /\ ExpandValue(says[p])'
                                          = List([j \in DOMAIN says[p].of |-> ExpandText(says[p].of[j])'])
              \/ says[p].is = "map" /\ ExpandValue(says[p])' = says[p]
          BY <2>1 DEF ExpandValue
        <4> QED
          BY <4>1 DEF Leaf, List
      <3> HIDE DEF says
      <3> QED
        BY <3>1, <3>2, <3>3 DEF Alike, ExpandVars
    <2>3. CASE ConfigFiles[i].reads # "yes"
      BY <2>3 DEF Loaded, EmptyTree, Alike
    <2> QED
      BY <2>2, <2>3
  <1>3. \A i \in 1..n : Alike(q[i], u[i])
    BY <1>2
  <1>4. LoadFiles(names) = FoldLeft(MergeDict, EmptyTree, q)
    BY Zenon DEF LoadFiles
  <1>5. LoadFiles(names)' = FoldLeft(MergeDict, EmptyTree, u)
    BY Zenon DEF LoadFiles
  <1> HIDE DEF q, u
  <1> QED
    BY <1>1, <1>3, <1>4, <1>5, LoadAlike, Zenon

Getting == INSTANCE FoldProofs WITH Op <- GetStep

\* How far the walk has come after k keys.
Walked(path, k, walk) ==
    LET here == SubSeq(path, 1, k)
    IN  /\ walk \in [at : DOMAIN cfg, out : {"found", "missing", "traceback"}]
        /\ here \in DOMAIN cfg => walk = [at |-> here, out |-> "found"]
        /\ here \notin DOMAIN cfg => walk.out # "found"

LEMMA WalkStep ==
    ASSUME Tree(cfg), NEW path \in Seq(STRING), NEW k \in Nat, k < Len(path),
           NEW walk, Walked(path, k, walk)
    PROVE  Walked(path, k + 1, GetStep(walk, path[k + 1]))
  <1> DEFINE here == SubSeq(path, 1, k)
             then == SubSeq(path, 1, k + 1)
             key == path[k + 1]
             next == Append(walk.at, key)
             stepped == GetStep(walk, key)
  <1>1. then = Append(here, key) /\ then \in Seq(STRING)
    OBVIOUS
  <1>2. here \in Above(then)
    <2>1. Len(then) = k + 1
      OBVIOUS
    <2>2. SubSeq(then, 1, k) = here /\ k \in 0..(k + 1 - 1)
      OBVIOUS
    <2> HIDE DEF here, then
    <2> QED
      BY <2>1, <2>2 DEF Above
  <1>3. then \in DOMAIN cfg => here \in DOMAIN cfg /\ cfg[here].is = "map"
    BY <1>2, Zenon DEF Tree
  <1>4. /\ walk \in [at : DOMAIN cfg, out : {"found", "missing", "traceback"}]
        /\ here \in DOMAIN cfg => walk = [at |-> here, out |-> "found"]
        /\ here \notin DOMAIN cfg => walk.out # "found"
    BY Zenon DEF Walked
  <1> HIDE DEF here, then, key
  <1>5. stepped \in [at : DOMAIN cfg, out : {"found", "missing", "traceback"}]
    BY <1>4 DEF GetStep
  <1>6. ASSUME then \in DOMAIN cfg PROVE stepped = [at |-> then, out |-> "found"]
    <2>1. walk = [at |-> here, out |-> "found"] /\ cfg[here].is = "map" /\ next = then
      BY <1>1, <1>3, <1>4, <1>6
    <2>2. stepped = [walk EXCEPT !.at = next]
      BY <1>6, <2>1 DEF GetStep
    <2> QED
      BY <2>1, <2>2
  <1>7. ASSUME then \notin DOMAIN cfg PROVE stepped.out # "found"
    BY <1>1, <1>4, <1>7 DEF GetStep
  <1> QED
    BY <1>5, <1>6, <1>7, Zenon DEF Walked, then, key

LEMMA GotRow ==
    ASSUME NEW n \in Nat, NEW path, DOMAIN path = 1..n
    PROVE  \E r : /\ r[0] = [at |-> <<>>, out |-> "found"]
                  /\ \A k \in Nat : k < n => r[k + 1] = GetStep(r[k], path[k + 1])
                  /\ ConfigGet(path) = r[n]
  <1> DEFINE start == [at |-> <<>>, out |-> "found"]
  <1>1. ConfigGet(path) = Getting!Fold(start, path)
    BY Zenon DEF ConfigGet, FoldLeft, MapThenFoldSet, Max,
         Getting!Fold, Getting!FoldLeft, Getting!MapThenFoldSet, Getting!Max
  <1> HIDE DEF start
  <1>2. \E r : /\ r[0] = start
               /\ \A k \in Nat : k < n => r[k + 1] = GetStep(r[k], path[k + 1])
               /\ Getting!Fold(start, path) = r[n]
    <2>1. Getting!HasRow(start, path, n)
      BY Getting!FoldHasRow, Zenon
    <2> QED
      BY <2>1, Zenon DEF Getting!HasRow
  <1> QED
    BY <1>1, <1>2 DEF start

LEMMA GotIs ==
    ASSUME Tree(cfg), NEW path \in Seq(STRING)
    PROVE  IF path \in DOMAIN cfg THEN ConfigGet(path) = [at |-> path, out |-> "found"]
           ELSE ConfigGet(path).out # "found"
  <1> DEFINE n == Len(path)
             start == [at |-> <<>>, out |-> "found"]
  <1>1. n \in Nat /\ DOMAIN path = 1..n
    OBVIOUS
  <1>4. Walked(path, 0, start)
    <2>1. SubSeq(path, 1, 0) = <<>>
      OBVIOUS
    <2>2. <<>> \in DOMAIN cfg
      BY Zenon DEF Tree
    <2> QED
      BY <2>1, <2>2 DEF Walked
  <1>5. SubSeq(path, 1, n) = path
    OBVIOUS
  <1> HIDE DEF n
  <1>6. PICK r : /\ r[0] = start
                 /\ \A k \in Nat : k < n => r[k + 1] = GetStep(r[k], path[k + 1])
                 /\ ConfigGet(path) = r[n]
    BY <1>1, GotRow
  <1> HIDE DEF start
  <1> DEFINE T == {k \in Nat : k <= n => Walked(path, k, r[k])}
  <1>7. 0 \in T
    BY <1>4, <1>6
  <1>8. ASSUME NEW k \in Nat, k \in T PROVE k + 1 \in T
    <2> SUFFICES ASSUME k + 1 <= n PROVE Walked(path, k + 1, r[k + 1])
      OBVIOUS
    <2>1. k < n /\ Walked(path, k, r[k]) /\ r[k + 1] = GetStep(r[k], path[k + 1])
      BY <1>1, <1>6, <1>8
    <2> QED
      BY <2>1, WalkStep, Zenon DEF n
  <1> HIDE DEF T
  <1>9. n \in T
    BY <1>1, <1>7, <1>8, Getting!EveryNumber, Zenon
  <1>10. Walked(path, n, r[n])
    BY <1>1, <1>9 DEF T
  <1> QED
    BY <1>5, <1>6, <1>10 DEF Walked

-----------------------------------------------------------------------------
LEMMA OnlyView == NotAnotherView
  <1> SUFFICES ASSUME NEW here \in DOMAIN BeginsWith,
                      here \in CfgViews \/ BeginsWith[here] = {}
               PROVE  HereView(here) \in {here, DefaultView}
    BY Zenon DEF NotAnotherView
  <1> DEFINE matching == CfgViews \intersect BeginsWith[here]
  <1>1. IsFiniteSet(BeginsWith[here]) /\ (BeginsWith[here] = {} \/ here \in BeginsWith[here])
    BY ConfigAssumption, Zenon
  <1>2. IsFiniteSet(matching)
    BY <1>1, FS_Subset
  <1>3. CASE BeginsWith[here] = {}
    <2>1. matching = {}
      BY <1>3
    <2>2. Cardinality(matching) = 0
      BY <1>2, <2>1, FS_EmptySet
    <2>3. HereView(here) = DefaultView
      <3> HIDE DEF matching
      <3>1. Cardinality(matching) # 1
        BY <2>2
      <3> QED
        BY <3>1, Zenon DEF HereView, matching
    <2> QED
      BY <2>3
  <1>4. CASE here \in matching
    <2>1. CASE Cardinality(matching) = 1
      <3>1. PICK x : matching = {x}
        BY <1>2, <2>1, FS_Singleton
      <3>2. matching = {here}
        BY <1>4, <3>1
      <3>3. (CHOOSE v \in matching : TRUE) = here
        <4> HIDE DEF matching
        <4> QED
          BY <3>2
      <3>4. HereView(here) = here
        BY <2>1, <3>3, Zenon DEF HereView
      <3> QED
        BY <3>4
    <2>2. CASE Cardinality(matching) # 1
      BY <2>2, Zenon DEF HereView
    <2> QED
      BY <2>1, <2>2
  <1> QED
    BY <1>1, <1>3, <1>4

-----------------------------------------------------------------------------
NameLists == UNION {[1..n -> DOMAIN ConfigFiles] : n \in Nat}
\* While it is loaded, the configuration is a tree, and what the last directory
\* says is in it, whatever the environment has become since.
CfgInv ==
    /\ Tree(cfg) /\ merged \in Seq(NameLists)
    /\ loading = "loading" /\ merged # <<>> => Absorbed(cfg, LoadFiles(merged[Len(merged)]))

LEMMA ListsAre ==
    ASSUME NEW names \in NameLists
    PROVE  Tree(LoadFiles(names)) /\ Alike(LoadFiles(names), LoadFiles(names)')
  <1>1. PICK n \in Nat : names \in [1..n -> DOMAIN ConfigFiles]
    BY DEF NameLists
  <1> QED
    BY <1>1, LoadIsTree, FilesAlike

LEMMA MergeIn ==
    ASSUME CfgInv, NEW names \in NameLists, MergeDirectory(names)
    PROVE  CfgInv'
  <1>1. merged' = Append(merged, names) /\ merged' \in Seq(NameLists)
    BY DEF CfgInv, MergeDirectory
  <1>2. merged' # <<>> /\ merged'[Len(merged')] = names
    BY <1>1 DEF CfgInv
  <1>3. CASE CannotLoad(names)
    <2>1. loading' = "failed" /\ cfg' = cfg
      BY <1>3 DEF MergeDirectory
    <2>2. Tree(cfg')
      BY <2>1 DEF CfgInv
    <2> QED
      BY <1>1, <2>1, <2>2 DEF CfgInv
  <1>4. CASE ~CannotLoad(names)
    <2>1. cfg' = MergeDict(cfg, LoadFiles(names))
      BY <1>4 DEF MergeDirectory
    <2>2. Tree(LoadFiles(names)) /\ Alike(LoadFiles(names), LoadFiles(names)')
      BY ListsAre
    <2>3. Tree(cfg') /\ Absorbed(cfg', LoadFiles(names))
      BY <2>1, <2>2, MergeIs DEF CfgInv
    <2>4. Absorbed(cfg', LoadFiles(names)')
      BY <2>2, <2>3, Zenon DEF Absorbed, Alike
    <2>5. Absorbed(cfg, LoadFiles(merged[Len(merged)]))'
      BY <1>2, <2>4, Zenon DEF LoadFiles
    <2> QED
      BY <1>1, <2>3, <2>5, Zenon DEF CfgInv
  <1> QED
    BY <1>3, <1>4

\* The environment may be another one then.
LEMMA StillIn ==
    ASSUME CfgInv, cfg' = cfg, merged' = merged, loading' = "loading" => loading = "loading"
    PROVE  CfgInv'
  <1>1. Tree(cfg') /\ merged' \in Seq(NameLists)
    BY DEF CfgInv
  <1>2. ASSUME loading' = "loading", merged' # <<>>
        PROVE  Absorbed(cfg, LoadFiles(merged[Len(merged)]))'
    <2> DEFINE names == merged[Len(merged)]
    <2>1. names \in NameLists
      BY <1>2 DEF CfgInv
    <2>2. Absorbed(cfg, LoadFiles(names))
      BY <1>2 DEF CfgInv
    <2> HIDE DEF names
    <2>3. PICK l : l = names
      OBVIOUS
    <2>4. Absorbed(cfg, LoadFiles(l)) /\ Alike(LoadFiles(l), LoadFiles(l)')
      BY <2>1, <2>2, <2>3, ListsAre
    <2>5. Absorbed(cfg', LoadFiles(l)')
      BY <2>4, Zenon DEF Absorbed, Alike
    <2>6. merged'[Len(merged')] = l
      BY <2>3, Zenon DEF names
    <2> QED
      BY <2>5, <2>6, Zenon DEF LoadFiles
  <1> QED
    BY <1>1, <1>2, Zenon DEF CfgInv

LEMMA ReadsOn == CfgInv /\ [ConfigNext]_cfgVars => CfgInv'
  <1> SUFFICES ASSUME CfgInv, [ConfigNext]_cfgVars
               PROVE  CfgInv'
    OBVIOUS
  <1>1. ASSUME NEW i \in DOMAIN EnvFiles, ReadEnv(i) PROVE CfgInv'
    BY <1>1, StillIn DEF ReadEnv
  <1>2. ASSUME NEW n \in 1..FilesIn, NEW names \in [1..n -> DOMAIN ConfigFiles],
               MergeDirectory(names)
        PROVE  CfgInv'
    <2>1. n \in Nat
      BY ConfigAssumption
    <2>2. names \in NameLists
      BY <2>1, Zenon DEF NameLists
    <2> QED
      BY <1>2, <2>2, MergeIn
  <1>3. ASSUME PrependVenv PROVE CfgInv'
    BY <1>3, StillIn DEF PrependVenv
  <1>4. ASSUME NEW here \in DOMAIN BeginsWith, NEW asked \in Asked, ChooseView(here, asked)
        PROVE  CfgInv'
    BY <1>4, StillIn DEF ChooseView
  <1>5. CASE UNCHANGED cfgVars
    BY <1>5, StillIn DEF cfgVars
  <1> QED
    BY <1>1, <1>2, <1>3, <1>4, <1>5 DEF ConfigNext

\* What is read out of the merged tree is what is there, however many
\* directories and environment files there are.
THEOREM ReadOut == ConfigSpec => []ReadAsMerged
  <1>1. ConfigInit => CfgInv
    BY EmptyIs DEF ConfigInit, CfgInv
  <1>2. CfgInv => ReadAsMerged
    <2> SUFFICES ASSUME CfgInv PROVE ReadAsMerged
      OBVIOUS
    <2>1. AgainOnlyAddsToLists
      <3> SUFFICES ASSUME loading = "loading", merged # <<>>, NEW path \in CfgPaths
                   PROVE  LET names == merged[Len(merged)]
                              again == MergeDict(cfg, LoadFiles(names))
                              now == AtPath(cfg, path)
                              then == AtPath(again, path)
                          IN  then.is = now.is /\ (now.is = "list" => IsPrefix(now.of, then.of))
        BY Zenon DEF AgainOnlyAddsToLists
      <3> DEFINE names == merged[Len(merged)]
      <3>1. names \in NameLists /\ Absorbed(cfg, LoadFiles(names)) /\ Tree(cfg)
        BY DEF CfgInv
      <3> HIDE DEF names
      <3>2. Tree(LoadFiles(names))
        BY <3>1, ListsAre
      <3> QED
        BY <3>1, <3>2, MergedAgain, Zenon DEF names
    <2>2. GetFindsWhatIsThere
      <3>1. Tree(cfg) /\ \A path \in CfgPaths : path \in Seq(STRING)
        BY ConfigAssumption DEF CfgInv
      <3> QED
        BY <3>1, GotIs, Zenon DEF GetFindsWhatIsThere
    <2> QED
      BY <2>1, <2>2, OnlyView, Zenon DEF ReadAsMerged
  <1> QED
    BY <1>1, <1>2, ReadsOn, PTL DEF ConfigSpec

-----------------------------------------------------------------------------
(* What the files of a directory say.                                      *)

\* A tree says nothing of a path, or has a leaf there.
Silent(path, tree) == path \notin DOMAIN tree /\ ~Replaced(path, tree)
HasLeaf(path, tree, leaf) == path \in DOMAIN tree /\ tree[path] = leaf

LEMMA SilentMerge ==
    ASSUME NEW path, NEW t, NEW u, Silent(path, t), Silent(path, u)
    PROVE  Silent(path, MergeDict(t, u))
  <1> DEFINE m == MergeDict(t, u)
  <1>1. path \notin DOMAIN m
    BY MergeHas, Zenon DEF Silent
  <1>2. ASSUME NEW above \in Above(path), above \in DOMAIN m PROVE m[above].is = "map"
    <2>1. CASE above \in DOMAIN u
      <3>1. m[above].is = u[above].is
        BY <2>1, MergeKind
      <3> QED
        BY <2>1, <3>1, <1>2, Zenon DEF Silent, Replaced
    <2>2. CASE above \notin DOMAIN u
      <3>1. above \in DOMAIN t /\ m[above] = t[above]
        BY <1>2, <2>2, MergeHas, MergeOld
      <3> QED
        BY <3>1, <1>2, Zenon DEF Silent, Replaced
    <2> QED
      BY <2>1, <2>2
  <1> QED
    BY <1>1, <1>2, Zenon DEF Silent, Replaced

\* Nothing said, everything stays.
LEMMA SilentStays ==
    ASSUME NEW path, NEW t, NEW u, Silent(path, u)
    PROVE  AtPath(MergeDict(t, u), path) = AtPath(t, path)
  <1>1. path \in DOMAIN MergeDict(t, u) <=> path \in DOMAIN t
    BY MergeHas, Zenon DEF Silent
  <1>2. path \in DOMAIN MergeDict(t, u) => MergeDict(t, u)[path] = t[path]
    BY MergeOld DEF Silent
  <1> QED
    BY <1>1, <1>2, Zenon DEF AtPath

LEMMA LeafComes ==
    ASSUME NEW path, NEW t, NEW u, NEW leaf, leaf.is = "leaf", HasLeaf(path, u, leaf)
    PROVE  HasLeaf(path, MergeDict(t, u), leaf)
  <1>1. path \in DOMAIN u /\ u[path] = leaf
    BY Zenon DEF HasLeaf
  <1>2. path \in DOMAIN MergeDict(t, u)
    BY <1>1, MergeHas, Zenon
  <1>3. MergeDict(t, u)[path] = MergeValue(AtPath(t, path), leaf)
    BY <1>1, MergeNew, Zenon
  <1>4. MergeValue(AtPath(t, path), leaf) = leaf
    <2>1. leaf.is # "list"
      OBVIOUS
    <2> QED
      BY <2>1, ValueNew, Zenon
  <1> QED
    BY <1>2, <1>3, <1>4, Zenon DEF HasLeaf

LEMMA LeafStays ==
    ASSUME NEW path, NEW t, NEW u, NEW leaf, HasLeaf(path, t, leaf), Silent(path, u)
    PROVE  HasLeaf(path, MergeDict(t, u), leaf)
  <1>1. path \in DOMAIN MergeDict(t, u)
    BY MergeHas, Zenon DEF Silent, HasLeaf
  <1>2. MergeDict(t, u)[path] = t[path]
    BY <1>1, MergeOld DEF Silent
  <1> QED
    BY <1>1, <1>2, Zenon DEF HasLeaf

\* What a file says is what is loaded of it.
LEMMA UntouchedIs ==
    ASSUME NEW i \in DOMAIN ConfigFiles, NEW path, path # <<>>, ~Touches(i, path)
    PROVE  Silent(path, Loaded(i))
  <1> DEFINE says == ConfigFiles[i].says
  <1>1. CASE ConfigFiles[i].reads = "yes"
    <2>1. DOMAIN Loaded(i) = DOMAIN says
      BY <1>1, LoadedIs
    <2>2. \A p \in DOMAIN says : says[p].is \in {"leaf", "list", "map"} /\ Loaded(i)[p].is = says[p].is
      BY <1>1, <2>1, LoadedIs
    <2> HIDE DEF says
    <2>3. AtPath(says, path).is = "absent"
      BY <1>1, Zenon DEF Touches, says
    <2>4. path \notin DOMAIN says
      BY <2>2, <2>3 DEF AtPath
    <2>5. \A above \in Above(path) : AtPath(says, above).is \notin {"leaf", "list"}
      BY <1>1, Zenon DEF Touches, says
    <2>6. \A above \in Above(path) : above \in DOMAIN says => says[above].is = "map"
      BY <2>2, <2>5 DEF AtPath
    <2>7. \A above \in Above(path) : above \in DOMAIN Loaded(i) => Loaded(i)[above].is = "map"
      BY <2>1, <2>2, <2>6
    <2> QED
      BY <2>1, <2>4, <2>7, Zenon DEF Silent, Replaced
  <1>2. CASE ConfigFiles[i].reads # "yes"
    <2>1. Loaded(i) = EmptyTree
      BY <1>2, Zenon DEF Loaded
    <2>2. DOMAIN EmptyTree = {<<>>} /\ EmptyTree[<<>>].is = "map"
      BY DEF EmptyTree, Map
    <2> QED
      BY <2>1, <2>2, Zenon DEF Silent, Replaced
  <1> QED
    BY <1>1, <1>2

LEMMA TouchedIs ==
    ASSUME NEW i \in DOMAIN ConfigFiles, NEW path, Touches(i, path),
           ExpandValue(AtPath(ConfigFiles[i].says, path)).is = "leaf"
    PROVE  HasLeaf(path, Loaded(i), ExpandValue(AtPath(ConfigFiles[i].says, path)))
  <1> DEFINE says == ConfigFiles[i].says
  <1>1. ConfigFiles[i].reads = "yes"
    BY Zenon DEF Touches
  <1>2. DOMAIN Loaded(i) = DOMAIN says /\ \A p \in DOMAIN says : Loaded(i)[p] = ExpandValue(says[p])
    BY <1>1, LoadedIs
  <1>3. path \in DOMAIN says
    <2>1. ExpandValue(Absent).is # "leaf"
      BY DEF ExpandValue, Absent
    <2> QED
      BY <2>1, Zenon DEF AtPath
  <1> QED
    BY <1>2, <1>3, Zenon DEF HasLeaf, AtPath

\* A directory: of a path that no file of it touches it says nothing, and where
\* the last file that touches one has a leaf, it has this leaf.
LEMMA LoadSays ==
    ASSUME NEW n \in Nat, NEW names \in [1..n -> DOMAIN ConfigFiles], NEW path, path # <<>>,
           NEW latest \in 0..n, \A k \in 1..n : k > latest => ~Touches(names[k], path),
           NEW leaf,
           latest # 0 => leaf.is = "leaf" /\ HasLeaf(path, Loaded(names[latest]), leaf)
    PROVE  IF latest = 0 THEN Silent(path, LoadFiles(names)) ELSE HasLeaf(path, LoadFiles(names), leaf)
  <1> DEFINE q == [i \in DOMAIN names |-> Loaded(names[i])]
  <1>1. DOMAIN q = 1..n
    OBVIOUS
  <1>2. \A k \in 1..n : k > latest => Silent(path, q[k])
    <2> TAKE k \in 1..n
    <2>1. k > latest => Silent(path, Loaded(names[k]))
      BY UntouchedIs
    <2> QED
      BY <2>1, Zenon
  <1>3. latest # 0 => leaf.is = "leaf" /\ HasLeaf(path, q[latest], leaf)
    <2>1. latest # 0 => latest \in 1..n
      OBVIOUS
    <2> QED
      BY <2>1, Zenon
  <1>4. LoadFiles(names) = FoldLeft(MergeDict, EmptyTree, q)
    BY Zenon DEF LoadFiles
  <1> HIDE DEF q
  <1>5. PICK r : /\ r[0] = EmptyTree
                 /\ \A k \in Nat : k < n => r[k + 1] = MergeDict(r[k], q[k + 1])
                 /\ FoldLeft(MergeDict, EmptyTree, q) = r[n]
    BY <1>1, LoadRow
  <1> DEFINE Is(k) == IF latest = 0 THEN Silent(path, r[k]) ELSE HasLeaf(path, r[k], leaf)
             T == {k \in Nat : k <= n /\ latest <= k => Is(k)}
  <1>6. 0 \in T
    <2>1. latest = 0 => Silent(path, r[0])
      <3>1. DOMAIN EmptyTree = {<<>>} /\ EmptyTree[<<>>].is = "map"
        BY DEF EmptyTree, Map
      <3> QED
        BY <1>5, <3>1, Zenon DEF Silent, Replaced
    <2>2. latest <= 0 => latest = 0
      OBVIOUS
    <2> QED
      BY <2>1, <2>2
  <1>7. ASSUME NEW k \in Nat, k \in T PROVE k + 1 \in T
    <2> SUFFICES ASSUME k + 1 <= n, latest <= k + 1 PROVE Is(k + 1)
      OBVIOUS
    <2>1. r[k + 1] = MergeDict(r[k], q[k + 1])
      BY <1>5
    <2>2. CASE latest <= k
      <3>1. Is(k) /\ k + 1 \in 1..n /\ k + 1 > latest
        BY <1>7, <2>2
      <3>2. Silent(path, q[k + 1])
        BY <1>2, <3>1
      <3> QED
        BY <2>1, <3>1, <3>2, SilentMerge, LeafStays, Zenon
    <2>3. CASE latest = k + 1
      <3>1. latest # 0
        BY <2>3
      <3>2. leaf.is = "leaf" /\ HasLeaf(path, q[k + 1], leaf)
        BY <1>3, <2>3, <3>1
      <3> QED
        BY <2>1, <3>1, <3>2, LeafComes, Zenon
    <2> QED
      BY <2>2, <2>3
  <1> HIDE DEF T
  <1>8. n \in T
    BY <1>6, <1>7, Gathering!EveryNumber, Zenon
  <1>9. Is(n)
    BY <1>8 DEF T
  <1> QED
    BY <1>4, <1>5, <1>9, Zenon

LEMMA LastIs ==
    ASSUME NEW n \in Nat, NEW names, DOMAIN names = 1..n, NEW path
    PROVE  LET latest == LastTouch(names, path)
           IN  /\ latest \in 0..n /\ \A k \in 1..n : k > latest => ~Touches(names[k], path)
               /\ latest # 0 => Touches(names[latest], path)
  <1> DEFINE ts == {i \in DOMAIN names : Touches(names[i], path)}
             latest == LastTouch(names, path)
  <1>1. CASE ts = {}
    <2>1. latest = 0
      BY <1>1, Zenon DEF LastTouch
    <2> HIDE DEF latest
    <2> QED
      BY <1>1, <2>1 DEF latest
  <1>2. CASE ts # {}
    <2>1. latest = CHOOSE i \in ts : \A j \in ts : j <= i
      BY <1>2, Zenon DEF LastTouch
    <2>2. \E x \in ts : \A y \in ts : y <= x
      <3>1. ts \in SUBSET (1..n)
        OBVIOUS
      <3> HIDE DEF ts
      <3>2. Gathering!Max(ts) \in ts /\ \A y \in ts : Gathering!Max(ts) >= y
        BY <1>2, <3>1, Gathering!HasMax
      <3>3. \A x, y \in 1..n : x >= y => y <= x
        OBVIOUS
      <3> QED
        BY <3>1, <3>2, <3>3
    <2> HIDE DEF latest
    <2>3. latest \in ts /\ \A j \in ts : j <= latest
      <3> HIDE DEF ts
      <3> QED
        BY <2>1, <2>2, Zenon
    <2>4. latest \in 1..n /\ Touches(names[latest], path)
      BY <2>3
    <2>5. \A k \in 1..n : k > latest => k \notin ts
      <3> HIDE DEF ts
      <3> QED
        BY <2>3, <2>4
    <2> QED
      BY <2>4, <2>5 DEF latest
  <1> QED
    BY <1>1, <1>2

LEMMA LastWinsHere ==
    ASSUME Tree(cfg), [ConfigNext]_cfgVars, merged \in Seq(NameLists)
    PROVE  LastFileWins
  <1> SUFFICES ASSUME cfg' # cfg, NEW path \in CfgPaths
               PROVE  LET names == merged'[Len(merged')]
                          latest == LastTouch(names, path)
                          now == AtPath(cfg', path)
                          old == AtPath(cfg, path)
                          new == IF latest = 0 THEN old
                                 ELSE ExpandValue(AtPath(ConfigFiles[names[latest]].says, path))
                      IN  new.is = "leaf" \/ (latest = 0 /\ old.is = "list") =>
                              now.is = new.is /\ now.of = new.of
    BY Zenon DEF LastFileWins
  <1>1. PICK n \in 1..FilesIn : \E names \in [1..n -> DOMAIN ConfigFiles] : MergeDirectory(names)
    <2>1. ~(\E i \in DOMAIN EnvFiles : ReadEnv(i))
      BY Zenon DEF ReadEnv
    <2>2. ~PrependVenv
      BY Zenon DEF PrependVenv
    <2>3. ~(\E here \in DOMAIN BeginsWith, asked \in Asked : ChooseView(here, asked))
      BY Zenon DEF ChooseView
    <2>4. ~UNCHANGED cfgVars
      BY DEF cfgVars
    <2> QED
      BY <2>1, <2>2, <2>3, <2>4, Zenon DEF ConfigNext
  <1>2. PICK names \in [1..n -> DOMAIN ConfigFiles] : MergeDirectory(names)
    BY <1>1
  <1>3. n \in Nat
    BY ConfigAssumption
  <1>4. merged' = Append(merged, names) /\ cfg' = MergeDict(cfg, LoadFiles(names))
    BY <1>2 DEF MergeDirectory
  <1>5. merged'[Len(merged')] = names
    <2>1. names \in NameLists
      BY <1>3, Zenon DEF NameLists
    <2> QED
      BY <1>4, <2>1
  <1> DEFINE latest == LastTouch(names, path)
             old == AtPath(cfg, path)
             now == AtPath(cfg', path)
             said == ExpandValue(AtPath(ConfigFiles[names[latest]].says, path))
  <1>6. /\ latest \in 0..n /\ \A k \in 1..n : k > latest => ~Touches(names[k], path)
        /\ latest # 0 => Touches(names[latest], path)
    BY <1>3, LastIs
  <1>7. ASSUME latest = 0, path # <<>> PROVE now = old
    <2>1. Silent(path, LoadFiles(names))
      <3> HIDE DEF latest
      <3>1. \A leaf : latest # 0 => leaf.is = "leaf" /\ HasLeaf(path, Loaded(names[latest]), leaf)
        BY <1>7
      <3> QED
        BY <1>3, <1>6, <1>7, <3>1, LoadSays
    <2> QED
      BY <1>4, <2>1, SilentStays, Zenon
  <1>8. ASSUME latest # 0, path # <<>>, said.is = "leaf" PROVE now = said
    <2>1. latest \in 1..n /\ names[latest] \in DOMAIN ConfigFiles /\ Touches(names[latest], path)
      <3> HIDE DEF latest
      <3> QED
        BY <1>6, <1>8
    <2>2. HasLeaf(path, Loaded(names[latest]), said)
      BY <1>8, <2>1, TouchedIs, Zenon
    <2> HIDE DEF said
    <2>3. HasLeaf(path, LoadFiles(names), said)
      <3> HIDE DEF latest
      <3> QED
        BY <1>3, <1>6, <1>8, <2>2, LoadSays
    <2>4. HasLeaf(path, cfg', said)
      BY <1>4, <1>8, <2>3, LeafComes, Zenon
    <2> QED
      BY <2>4, Zenon DEF HasLeaf, AtPath
  <1>9. ASSUME path = <<>> PROVE old.is = "map" /\ (latest # 0 => said.is = "map")
    <2>1. old = Map
      BY <1>9, Zenon DEF AtPath, Tree
    <2>2. latest # 0 => said = ExpandValue(Map)
      <3>1. latest # 0 => IsTree(ConfigFiles[names[latest]].says)
        <4>1. latest # 0 => names[latest] \in DOMAIN ConfigFiles
          <5> HIDE DEF latest
          <5> QED
            BY <1>6
        <4> QED
          BY <4>1, ConfigAssumption, Zenon
      <3> QED
        BY <1>9, <3>1, Zenon DEF IsTree, AtPath
    <2>3. Map.is = "map" /\ ExpandValue(Map).is = "map"
      BY DEF Map, ExpandValue
    <2> QED
      BY <2>1, <2>2, <2>3, Zenon
  <1>10. (IF latest = 0 THEN old ELSE said).is = "leaf" \/ (latest = 0 /\ old.is = "list") =>
           /\ now.is = (IF latest = 0 THEN old ELSE said).is
           /\ now.of = (IF latest = 0 THEN old ELSE said).of
    <2> HIDE DEF latest, old, now, said
    <2> QED
      BY <1>7, <1>8, <1>9
  <1> QED
    BY <1>5, <1>10, Zenon

-----------------------------------------------------------------------------
(* What the files of variables say.                                        *)

Assigning == INSTANCE FoldProofs WITH Op <- AssignVar

Variables == [Vars -> Texts]
Assignments == [var : Vars, value : Texts]

LEMMA FlatSame == \A q : Assigning!FlattenSeq(q) = FlattenSeq(q)
  BY Zenon DEF FlattenSeq, Assigning!FlattenSeq

Plains == [t : {"word", "home", "below home"}, n : STRING]
Refs == [t : {"ref"}, n : Vars]
LEMMA PieceCases == \A x : x \in Pieces <=> x \in Plains \/ x \in Refs \/ x = VenvBin
  BY DEF Pieces, Plains, Refs
LEMMA PlainIs == \A x \in Plains : x.t # "ref" /\ x.t # "unset" /\ [x EXCEPT !.t = "below home"] \in Plains
  BY DEF Plains
LEMMA RefIs == \A x \in Refs : x.t = "ref" /\ x.n \in Vars /\ x = Ref(x.n)
  BY DEF Refs, Ref
LEMMA VenvIs == VenvBin.t = "venv"
  BY DEF VenvBin

LEMMA UnsetIsNoText == Unset \notin Seq(Pieces)
  <1>1. ASSUME NEW x \in Pieces PROVE x.t # "unset"
    BY PieceCases, PlainIs, RefIs, VenvIs
  <1>2. Unset[1].t = "unset" /\ DOMAIN Unset = 1..1
    BY DEF Unset
  <1> QED
    BY <1>1, <1>2

LEMMA TextIs == \A x \in Texts : TextOf(x) \in Seq(Pieces) /\ (x # Unset => TextOf(x) = x)
  <1> TAKE x \in Texts
  <1>1. CASE x = Unset
    BY <1>1 DEF TextOf
  <1>2. CASE x # Unset
    <2>1. TextOf(x) = x
      BY <1>2, Zenon DEF TextOf
    <2>2. x \in Seq(Pieces)
      BY <1>2, Zenon DEF Texts
    <2> QED
      BY <2>1, <2>2
  <1> QED
    BY <1>1, <1>2

LEMMA SomeText == \A x \in Seq(Pieces) : x \in Texts /\ x # Unset /\ TextOf(x) = x
  BY UnsetIsNoText, Zenon DEF Texts, TextOf

LEMMA PieceIs == \A x \in Pieces : x.t = "ref" => x.n \in Vars /\ x = Ref(x.n)
  BY PieceCases, PlainIs, RefIs, VenvIs

LEMMA EntryIs ==
    ASSUME NEW known \in Variables, NEW x \in Pieces
    PROVE  Entry(known, x) \in Seq(Pieces)
  <1>1. CASE x.t = "ref"
    <2>1. Entry(known, x) = TextOf(known[x.n])
      BY <1>1, Zenon DEF Entry
    <2>2. known[x.n] \in Texts
      BY <1>1, PieceIs DEF Variables
    <2> QED
      BY <2>1, <2>2, TextIs, Zenon
  <1>2. CASE x.t # "ref"
    <2>1. Entry(known, x) = <<x>>
      BY <1>2, Zenon DEF Entry
    <2> HIDE DEF Pieces
    <2> QED
      BY <2>1
  <1> QED
    BY <1>1, <1>2

LEMMA EntriesAre ==
    ASSUME NEW known \in Variables, NEW value \in Seq(Pieces)
    PROVE  [i \in DOMAIN value |-> Entry(known, value[i])] \in Seq(Seq(Pieces))
  <1>1. \A i \in DOMAIN value : Entry(known, value[i]) \in Seq(Pieces)
    BY EntryIs
  <1>2. PICK n \in Nat : DOMAIN value = 1..n
    BY LenProperties
  <1>3. [i \in DOMAIN value |-> Entry(known, value[i])] \in [1..n -> Seq(Pieces)]
    BY <1>1, <1>2, Zenon
  <1> QED
    BY <1>3, Assigning!SeqDef

LEMMA ComposedIs ==
    ASSUME NEW known \in Variables, NEW value \in Seq(Pieces)
    PROVE  Composed(known, value) \in Seq(Pieces)
  <1> DEFINE q == [i \in DOMAIN value |-> Entry(known, value[i])]
  <1>1. q \in Seq(Seq(Pieces))
    BY EntriesAre
  <1> HIDE DEF q
  <1>2. FlattenSeq(q) \in Seq(Pieces)
    BY <1>1, FlatSame, Assigning!FlatRange
  <1> QED
    BY <1>2, Zenon DEF Composed, q

LEMMA TildeIs ==
    ASSUME NEW var, NEW value \in Seq(Pieces)
    PROVE  Tilde(var, value) \in Seq(Pieces) /\ Len(Tilde(var, value)) = Len(value)
  <1> DEFINE BelowHome(x) == IF x.t = "home" THEN [x EXCEPT !.t = "below home"] ELSE x
             t == [i \in DOMAIN value |-> BelowHome(value[i])]
  <1>1. \A x \in Pieces : BelowHome(x) \in Pieces
    <2> TAKE x \in Pieces
    <2>1. CASE x.t = "home"
      <3>1. x \in Plains
        BY <2>1, PieceCases, RefIs, VenvIs
      <3>2. [x EXCEPT !.t = "below home"] \in Plains
        BY <3>1, PlainIs
      <3> QED
        BY <2>1, <3>2, PieceCases, Zenon
    <2>2. CASE x.t # "home"
      BY <2>2
    <2> QED
      BY <2>1, <2>2
  <1>2. t \in Seq(Pieces) /\ Len(t) = Len(value)
    <2> HIDE DEF BelowHome
    <2>1. \A i \in DOMAIN value : t[i] \in Pieces
      BY <1>1
    <2> QED
      BY <2>1
  <1>3. Tilde(var, value) = IF var = "PATH" THEN t ELSE value
    BY Zenon DEF Tilde
  <1> QED
    BY <1>2, <1>3, Zenon

LEMMA AssignIs ==
    ASSUME NEW known \in Variables, NEW a \in Assignments
    PROVE  AssignVar(known, a) \in Variables
  <1>1. a.value # Unset => Composed(known, a.value) \in Seq(Pieces)
    <2>1. a.value \in Texts
      BY DEF Assignments
    <2>2. a.value # Unset => a.value \in Seq(Pieces)
      BY <2>1, Zenon DEF Texts
    <2> QED
      BY <2>2, ComposedIs
  <1>2. Unset \in Texts /\ (a.value # Unset => Composed(known, a.value) \in Texts)
    BY <1>1, Zenon DEF Texts
  <1> QED
    BY <1>2 DEF AssignVar, Variables

\* The lines of a file, one after the other.
Assigned(known, file) == FoldLeft(AssignVar, known, file)
IsRow(known, n, file, r) ==
    /\ r[0] = known
    /\ \A k \in Nat : k < n => r[k + 1] = AssignVar(r[k], file[k + 1])
    /\ Assigned(known, file) = r[n]
HasRow(known, n, file) == \E r : IsRow(known, n, file, r)
LEMMA AssignRow ==
    ASSUME NEW known, NEW n \in Nat, NEW file, DOMAIN file = 1..n
    PROVE  HasRow(known, n, file)
  <1>1. Assigned(known, file) = Assigning!Fold(known, file)
    BY Zenon DEF Assigned, FoldLeft, MapThenFoldSet, Max,
         Assigning!Fold, Assigning!FoldLeft, Assigning!MapThenFoldSet, Assigning!Max
  <1>2. \E r : /\ r[0] = known
               /\ \A k \in Nat : k < n => r[k + 1] = AssignVar(r[k], file[k + 1])
               /\ Assigning!Fold(known, file) = r[n]
    <2>1. Assigning!HasRow(known, file, n)
      BY Assigning!FoldHasRow, Zenon
    <2> QED
      BY <2>1, Zenon DEF Assigning!HasRow
  <1> QED
    BY <1>1, <1>2, Zenon DEF HasRow, IsRow

LEMMA RowIsVariables ==
    ASSUME NEW n \in Nat, NEW file, \A k \in 1..n : file[k] \in Assignments,
           NEW known \in Variables, NEW r, IsRow(known, n, file, r)
    PROVE  \A k \in Nat : k <= n => r[k] \in Variables
  <1> DEFINE T == {k \in Nat : k <= n => r[k] \in Variables}
  <1>0. r[0] = known /\ \A k \in Nat : k < n => r[k + 1] = AssignVar(r[k], file[k + 1])
    BY Zenon DEF IsRow
  <1>1. 0 \in T
    BY <1>0
  <1>2. ASSUME NEW k \in Nat, k \in T PROVE k + 1 \in T
    <2> SUFFICES ASSUME k + 1 <= n PROVE r[k + 1] \in Variables
      OBVIOUS
    <2>1. r[k] \in Variables /\ file[k + 1] \in Assignments /\ r[k + 1] = AssignVar(r[k], file[k + 1])
      BY <1>0, <1>2
    <2> QED
      BY <2>1, AssignIs, Zenon
  <1> HIDE DEF T
  <1>3. \A k \in Nat : k \in T
    BY <1>1, <1>2, Assigning!EveryNumber, Zenon
  <1> QED
    BY <1>3 DEF T

LEMMA AfterIs ==
    ASSUME NEW known \in Variables, NEW file \in Seq(Assignments)
    PROVE  AfterFile(known, file) \in Variables
  <1> DEFINE values == Assigned(known, file)
  <1>1. PICK n \in Nat : DOMAIN file = 1..n /\ \A k \in 1..n : file[k] \in Assignments
    BY LenProperties, ElementOfSeq
  <1>2. PICK r : IsRow(known, n, file, r)
    BY <1>1, AssignRow, Zenon DEF HasRow
  <1>3. values \in Variables
    <2>1. n <= n
      BY <1>1
    <2>2. values = r[n]
      BY <1>2, Zenon DEF IsRow
    <2> QED
      BY <1>1, <1>2, <2>1, <2>2, RowIsVariables
  <1>4. DOMAIN known = Vars /\ \A v \in Vars : known[v] \in Texts /\ values[v] \in Texts
    <2> HIDE DEF values
    <2> QED
      BY <1>3 DEF Variables
  <1>5. \A v \in Vars : values[v] # Unset => Tilde(v, values[v]) \in Texts
    <2> TAKE v \in Vars
    <2> HIDE DEF values
    <2>1. values[v] # Unset => values[v] \in Seq(Pieces)
      BY <1>4, Zenon DEF Texts
    <2>2. values[v] # Unset => Tilde(v, values[v]) \in Seq(Pieces)
      BY <2>1, TildeIs
    <2> QED
      BY <2>2, Zenon DEF Texts
  <1>6. AfterFile(known, file) = [v \in DOMAIN known |->
             IF v \in {a.var : a \in Range(file)} /\ values[v] # Unset
             THEN Tilde(v, values[v]) ELSE known[v]]
    BY Zenon DEF AfterFile, Assigned
  <1> HIDE DEF values
  <1> QED
    BY <1>4, <1>5, <1>6 DEF Variables

LEMMA AssignElse == \A known, a, v : v # a.var /\ v \in DOMAIN known => AssignVar(known, a)[v] = known[v]
  BY DEF AssignVar
LEMMA AssignHere == \A known, a : a.var \in DOMAIN known =>
                        AssignVar(known, a)[a.var] = IF a.value = Unset THEN Unset ELSE Composed(known, a.value)
  BY Zenon DEF AssignVar

\* What no line from one to another assigns stays what it was.
LEMMA RowKeeps ==
    ASSUME NEW n \in Nat, NEW file, \A k \in 1..n : file[k] \in Assignments,
           NEW known \in Variables, NEW r, IsRow(known, n, file, r),
           NEW v \in Vars, NEW lo \in 0..n, NEW hi \in 0..n, lo <= hi,
           \A k \in 1..n : lo < k /\ k <= hi => file[k].var # v
    PROVE  r[hi][v] = r[lo][v]
  <1>0. \A k \in Nat : k < n => r[k + 1] = AssignVar(r[k], file[k + 1])
    BY Zenon DEF IsRow
  <1>1. \A k \in Nat : k <= n => r[k] \in Variables
    BY RowIsVariables
  <1> DEFINE T == {k \in Nat : lo <= k /\ k <= hi => r[k][v] = r[lo][v]}
  <1>2. 0 \in T
    <2>1. lo <= 0 => lo = 0
      OBVIOUS
    <2> QED
      BY <2>1
  <1>3. ASSUME NEW k \in Nat, k \in T PROVE k + 1 \in T
    <2> SUFFICES ASSUME lo <= k + 1, k + 1 <= hi PROVE r[k + 1][v] = r[lo][v]
      OBVIOUS
    <2>1. CASE lo = k + 1
      BY <2>1
    <2>2. CASE lo <= k
      <3>1. r[k][v] = r[lo][v]
        BY <1>3, <2>2
      <3>2. k < n /\ k <= n /\ k + 1 \in 1..n /\ lo < k + 1
        BY <2>2
      <3>3. file[k + 1].var # v
        BY <3>2
      <3>4. DOMAIN r[k] = Vars
        BY <1>1, <3>2 DEF Variables
      <3>5. r[k + 1] = AssignVar(r[k], file[k + 1])
        BY <1>0, <3>2
      <3>6. AssignVar(r[k], file[k + 1])[v] = r[k][v]
        BY <3>3, <3>4, AssignElse
      <3> QED
        BY <3>1, <3>5, <3>6, Zenon
    <2> QED
      BY <2>1, <2>2
  <1> HIDE DEF T
  <1>4. hi \in Nat /\ hi \in T
    <2>1. \A k \in Nat : k \in T
      BY <1>2, <1>3, Assigning!EveryNumber, Zenon
    <2> QED
      BY <2>1
  <1> QED
    BY <1>4 DEF T

\* A variable that is given values only has one in the end.
LEMMA RowSays ==
    ASSUME NEW n \in Nat, NEW file, \A k \in 1..n : file[k] \in Assignments,
           NEW known \in Variables, NEW r, IsRow(known, n, file, r),
           NEW v \in Vars, \A k \in 1..n : file[k].var = v => file[k].value # Unset,
           \E k \in 1..n : file[k].var = v
    PROVE  r[n][v] \in Seq(Pieces)
  <1>0. \A k \in Nat : k < n => r[k + 1] = AssignVar(r[k], file[k + 1])
    BY Zenon DEF IsRow
  <1>1. \A k \in Nat : k <= n => r[k] \in Variables
    BY RowIsVariables
  <1> DEFINE T == {k \in Nat : k <= n /\ (\E l \in 1..k : file[l].var = v) => r[k][v] \in Seq(Pieces)}
  <1>2. 0 \in T
    OBVIOUS
  <1>3. ASSUME NEW k \in Nat, k \in T PROVE k + 1 \in T
    <2> SUFFICES ASSUME k + 1 <= n, \E l \in 1..(k + 1) : file[l].var = v
                 PROVE  r[k + 1][v] \in Seq(Pieces)
      OBVIOUS
    <2>1. k < n /\ k <= n /\ k + 1 \in 1..n
      OBVIOUS
    <2>2. r[k] \in Variables /\ DOMAIN r[k] = Vars /\ r[k + 1] = AssignVar(r[k], file[k + 1])
      BY <1>0, <1>1, <2>1 DEF Variables
    <2>3. CASE file[k + 1].var = v
      <3>1. file[k + 1].value # Unset /\ file[k + 1].value \in Texts
        BY <2>1, <2>3 DEF Assignments
      <3>2. file[k + 1].value \in Seq(Pieces)
        BY <3>1, Zenon DEF Texts
      <3>3. Composed(r[k], file[k + 1].value) \in Seq(Pieces)
        BY <2>2, <3>2, ComposedIs
      <3>4. r[k + 1][v] = Composed(r[k], file[k + 1].value)
        BY <2>2, <2>3, <3>1, AssignHere, Zenon
      <3> QED
        BY <3>3, <3>4, Zenon
    <2>4. CASE file[k + 1].var # v
      <3>1. \E l \in 1..k : file[l].var = v
        BY <2>4
      <3>2. r[k][v] \in Seq(Pieces)
        BY <1>3, <2>1, <3>1
      <3>3. r[k + 1][v] = r[k][v]
        BY <2>2, <2>4, AssignElse
      <3> QED
        BY <3>2, <3>3, Zenon
    <2> QED
      BY <2>3, <2>4
  <1> HIDE DEF T
  <1>4. n \in T
    BY <1>2, <1>3, Assigning!EveryNumber, Zenon
  <1> QED
    BY <1>4 DEF T

\* Sequences in a row of which one is left out.
LEMMA FlatWithout ==
    ASSUME NEW S, NEW e \in Seq(Seq(S)), NEW f \in Seq(Seq(S)), Len(e) = Len(f),
           NEW o \in 1..Len(e), f[o] = <<>>,
           \A j \in 1..Len(e) : j # o => Len(e[j]) = Len(f[j])
    PROVE  Len(FlattenSeq(e)) = Len(e[o]) + Len(FlattenSeq(f))
  <1> DEFINE n == Len(e)
  <1>1. n \in Nat
    OBVIOUS
  <1>2. PICK r : /\ r[0] = <<>>
                 /\ \A k \in Nat : k < Len(e) => r[k + 1] = r[k] \o e[k + 1]
                 /\ FlattenSeq(e) = r[Len(e)]
    BY FlatSame, Assigning!FlatRow
  <1>3. PICK s : /\ s[0] = <<>>
                 /\ \A k \in Nat : k < Len(f) => s[k + 1] = s[k] \o f[k + 1]
                 /\ FlattenSeq(f) = s[Len(f)]
    BY FlatSame, Assigning!FlatRow
  <1>10. /\ o \in 1..n /\ Len(f) = n /\ Len(e[o]) \in Nat /\ Len(f[o]) = 0
         /\ \A k \in 1..n : e[k] \in Seq(S) /\ f[k] \in Seq(S)
         /\ \A k \in 1..n : k # o => Len(e[k]) = Len(f[k])
    <2>1. o \in 1..n /\ Len(f) = n
      OBVIOUS
    <2>2. e[o] \in Seq(S)
      OBVIOUS
    <2>3. Len(e[o]) \in Nat /\ Len(f[o]) = 0
      BY <2>2
    <2>4. \A k \in 1..n : e[k] \in Seq(S) /\ f[k] \in Seq(S)
      OBVIOUS
    <2>5. \A k \in 1..n : k # o => Len(e[k]) = Len(f[k])
      BY Zenon
    <2> QED
      BY <2>1, <2>3, <2>4, <2>5, Zenon
  <1>11. /\ \A k \in Nat : k < n => r[k + 1] = r[k] \o e[k + 1]
         /\ \A k \in Nat : k < n => s[k + 1] = s[k] \o f[k + 1]
         /\ FlattenSeq(e) = r[n] /\ FlattenSeq(f) = s[n]
    BY <1>2, <1>3, <1>10, Zenon
  <1>12. /\ <<>> \in Seq(S) /\ Len(<<>>) = 0 /\ \A x \in Seq(S) : Len(x) \in Nat
         /\ \A x, y \in Seq(S) : x \o y \in Seq(S) /\ Len(x \o y) = Len(x) + Len(y)
    OBVIOUS
  <1> DEFINE Is(k) == /\ r[k] \in Seq(S) /\ s[k] \in Seq(S)
                      /\ k < o => Len(r[k]) = Len(s[k])
                      /\ o <= k => Len(r[k]) = Len(e[o]) + Len(s[k])
             T == {k \in Nat : k <= n => Is(k)}
  <1> HIDE DEF n
  <1>4. 0 \in T
    <2>1. Is(0)
      BY <1>2, <1>3, <1>10, <1>12
    <2> HIDE DEF Is
    <2> QED
      BY <2>1
  <1>5. ASSUME NEW k \in Nat, k \in T PROVE k + 1 \in T
    <2> SUFFICES ASSUME k + 1 <= n PROVE Is(k + 1)
      <3> HIDE DEF Is
      <3> QED
        OBVIOUS
    <2>1. k < n /\ k + 1 \in 1..n /\ Is(k)
      <3> HIDE DEF Is
      <3> QED
        BY <1>1, <1>5
    <2>2. r[k + 1] = r[k] \o e[k + 1] /\ s[k + 1] = s[k] \o f[k + 1]
      BY <1>11, <2>1, Zenon
    <2>3. e[k + 1] \in Seq(S) /\ f[k + 1] \in Seq(S)
      BY <1>10, <2>1, Zenon
    <2>4. /\ r[k + 1] \in Seq(S) /\ Len(r[k + 1]) = Len(r[k]) + Len(e[k + 1])
          /\ s[k + 1] \in Seq(S) /\ Len(s[k + 1]) = Len(s[k]) + Len(f[k + 1])
      <3>1. /\ r[k] \o e[k + 1] \in Seq(S) /\ Len(r[k] \o e[k + 1]) = Len(r[k]) + Len(e[k + 1])
            /\ s[k] \o f[k + 1] \in Seq(S) /\ Len(s[k] \o f[k + 1]) = Len(s[k]) + Len(f[k + 1])
        BY <1>12, <2>1, <2>3, Zenon
      <3> QED
        BY <2>2, <3>1, Zenon
    <2>5. /\ Len(e[k + 1]) \in Nat /\ Len(f[k + 1]) \in Nat
          /\ Len(r[k]) \in Nat /\ Len(s[k]) \in Nat
      BY <1>12, <2>1, <2>3, Zenon
    <2>6. k + 1 # o => Len(e[k + 1]) = Len(f[k + 1])
      BY <1>10, <2>1, Zenon
    <2> DEFINE re == Len(r[k])  se == Len(s[k])  ee == Len(e[k + 1])  fe == Len(f[k + 1])
               rm == Len(r[k + 1])  sm == Len(s[k + 1])  eo == Len(e[o])
    <2>7. /\ ee \in Nat /\ fe \in Nat /\ re \in Nat /\ se \in Nat /\ rm = re + ee /\ sm = se + fe
          /\ (k < o => re = se) /\ (o <= k => re = eo + se) /\ eo \in Nat /\ o \in Nat
          /\ (k + 1 # o => ee = fe) /\ (k + 1 = o => ee = eo /\ fe = 0)
      <3>1. k < o => Len(r[k]) = Len(s[k])
        BY <2>1, Zenon
      <3>2. o <= k => Len(r[k]) = Len(e[o]) + Len(s[k])
        BY <2>1, Zenon
      <3>3. Len(e[o]) \in Nat /\ o \in Nat /\ Len(f[o]) = 0
        BY <1>10
      <3> HIDE DEF Is
      <3> QED
        BY <2>4, <2>5, <2>6, <3>1, <3>2, <3>3, Zenon
    <2> HIDE DEF re, se, ee, fe, rm, sm, eo
    <2>8. (k + 1 < o => rm = sm) /\ (o <= k + 1 => rm = eo + sm)
      BY <2>7
    <2> QED
      BY <2>4, <2>8 DEF rm, sm, eo
  <1> HIDE DEF T, Is
  <1>6. n \in T
    BY <1>1, <1>4, <1>5, Assigning!EveryNumber, Zenon
  <1>7. Is(n)
    BY <1>1, <1>6 DEF T
  <1>8. o <= n
    BY <1>1, <1>10
  <1> QED
    BY <1>7, <1>8, <1>11, Zenon DEF Is

\* What a file leaves of one variable.
LEMMA AfterAt ==
    ASSUME NEW known \in Variables, NEW n \in Nat, NEW file, DOMAIN file = 1..n, NEW v \in Vars
    PROVE  AfterFile(known, file)[v] =
             IF (\E k \in 1..n : file[k].var = v) /\ Assigned(known, file)[v] # Unset
             THEN Tilde(v, Assigned(known, file)[v]) ELSE known[v]
  <1> DEFINE values == Assigned(known, file)
  <1>1. AfterFile(known, file) = [w \in DOMAIN known |->
             IF w \in {a.var : a \in Range(file)} /\ values[w] # Unset
             THEN Tilde(w, values[w]) ELSE known[w]]
    BY Zenon DEF AfterFile, Assigned
  <1>2. v \in DOMAIN known
    BY DEF Variables
  <1> HIDE DEF values
  <1>3. v \in {a.var : a \in Range(file)} <=> \E k \in 1..n : file[k].var = v
    BY DEF Range
  <1> QED
    BY <1>1, <1>2, <1>3, Zenon DEF values

\* Another variable has the value then that the line which refers to it found.
LEMMA OtherStays ==
    ASSUME NEW n \in Nat, NEW file, DOMAIN file = 1..n, \A k \in 1..n : file[k] \in Assignments,
           NEW known \in Variables, NEW r, IsRow(known, n, file, r),
           NEW v \in Vars, NEW lo \in 0..n,
           \A k \in 1..n : file[k].var = v => k <= lo /\ file[k].value # Unset
    PROVE  Len(TextOf(AfterFile(known, file)[v])) = Len(TextOf(r[lo][v]))
  <1>1. r[n][v] = r[lo][v]
    <2>1. lo <= n /\ n \in 0..n /\ \A k \in 1..n : lo < k /\ k <= n => file[k].var # v
      OBVIOUS
    <2> QED
      BY <2>1, RowKeeps
  <1>2. Assigned(known, file) = r[n] /\ r[0] = known
    BY Zenon DEF IsRow
  <1>3. CASE \E k \in 1..n : file[k].var = v
    <2>1. r[n][v] \in Seq(Pieces)
      BY <1>3, RowSays
    <2>2. r[n][v] # Unset /\ TextOf(r[n][v]) = r[n][v]
      BY <2>1, SomeText
    <2>3. AfterFile(known, file)[v] = Tilde(v, r[n][v])
      BY <1>2, <1>3, <2>2, AfterAt
    <2>4. Tilde(v, r[n][v]) \in Seq(Pieces) /\ Len(Tilde(v, r[n][v])) = Len(r[n][v])
      BY <2>1, TildeIs
    <2>5. TextOf(Tilde(v, r[n][v])) = Tilde(v, r[n][v])
      BY <2>4, SomeText
    <2> QED
      BY <1>1, <2>2, <2>3, <2>4, <2>5, Zenon
  <1>4. CASE ~(\E k \in 1..n : file[k].var = v)
    <2>1. AfterFile(known, file)[v] = known[v]
      BY <1>4, AfterAt
    <2>2. r[n][v] = known[v]
      <3>1. 0 \in 0..n /\ n \in 0..n /\ 0 <= n /\ \A k \in 1..n : 0 < k /\ k <= n => file[k].var # v
        BY <1>4
      <3> QED
        BY <1>2, <3>1, RowKeeps
    <2> QED
      BY <1>1, <2>1, <2>2, Zenon
  <1> QED
    BY <1>3, <1>4

Others(var, value) == {v \in Vars \ {var} : Ref(v) \in Range(value)}
Without(after, var, value) ==
    [j \in DOMAIN value |->
        IF j \in {l \in DOMAIN value : value[l] = Ref(var)} THEN <<>>
        ELSE IF value[j].t = "ref" THEN TextOf(after[value[j].n]) ELSE <<value[j]>>]

LEMMA WithoutIs ==
    ASSUME NEW after \in Variables, NEW var, NEW value \in Seq(Pieces)
    PROVE  Without(after, var, value) \in Seq(Seq(Pieces)) /\ Len(Without(after, var, value)) = Len(value)
  <1> DEFINE w == Without(after, var, value)
  <1>1. <<>> \in Seq(Pieces)
    OBVIOUS
  <1>2. ASSUME NEW j \in DOMAIN value
        PROVE  w[j] \in Seq(Pieces)
    <2>1. w[j] = <<>> \/ w[j] = Entry(after, value[j])
      BY Zenon DEF Without, Entry
    <2>2. Entry(after, value[j]) \in Seq(Pieces)
      BY EntryIs
    <2> QED
      BY <1>1, <2>1, <2>2, Zenon
  <1>3. DOMAIN w = 1..Len(value)
    <2>1. DOMAIN w = DOMAIN value
      BY Zenon DEF Without
    <2> HIDE DEF w
    <2> QED
      BY <2>1
  <1>4. w = [j \in 1..Len(value) |-> w[j]]
    <2>1. w = [j \in DOMAIN value |-> w[j]]
      BY Zenon DEF Without
    <2>2. DOMAIN value = 1..Len(value)
      OBVIOUS
    <2> HIDE DEF w
    <2> QED
      BY <2>1, <2>2, Zenon
  <1>5. Len(value) \in Nat /\ DOMAIN value = 1..Len(value)
    OBVIOUS
  <1> HIDE DEF w
  <1>6. w \in [1..Len(value) -> Seq(Pieces)]
    BY <1>2, <1>4, <1>5, Zenon
  <1>7. w \in Seq(Seq(Pieces))
    BY <1>5, <1>6, Assigning!SeqDef
  <1>8. Len(w) = Len(value)
    BY <1>3, <1>5, <1>7
  <1> QED
    BY <1>7, <1>8 DEF w

LEMMA OwnOnce ==
    ASSUME NEW known \in Variables, NEW file \in Seq(Assignments), NEW i \in DOMAIN file,
           NEW own, {j \in DOMAIN file[i].value : file[i].value[j] = Ref(file[i].var)} = {own},
           SaidOnce(file, i, Others(file[i].var, file[i].value))
    PROVE  Len(AfterFile(known, file)[file[i].var]) =
             Len(TextOf(known[file[i].var]))
             + Len(FlattenSeq(Without(AfterFile(known, file), file[i].var, file[i].value)))
  <1> DEFINE var == file[i].var
             value == file[i].value
             after == AfterFile(known, file)
             m == i - 1
  <1>1. PICK n \in Nat : DOMAIN file = 1..n /\ \A k \in 1..n : file[k] \in Assignments
    BY LenProperties, ElementOfSeq
  <1>2. PICK r : IsRow(known, n, file, r)
    BY <1>1, AssignRow, Zenon DEF HasRow
  <1>3. /\ i \in 1..n /\ i \in 0..n /\ m \in 0..n /\ m \in Nat /\ m + 1 = i /\ m < n /\ m <= n
        /\ \A k \in 1..n : k < i => k <= m
    BY <1>1
  <1>4. var \in Vars /\ value \in Texts /\ value # Unset
    BY <1>1, <1>3 DEF Assignments, SaidOnce
  <1>5. value \in Seq(Pieces)
    BY <1>4, Zenon DEF Texts
  <1>6. /\ \A j \in 1..n : file[j].var = var => j = i
        /\ \A j \in 1..n : file[j].var \in Others(var, value) => j < i /\ file[j].value # Unset
    BY <1>1, Zenon DEF SaidOnce
  <1>7. /\ r[0] = known /\ r[i] = AssignVar(r[m], file[i]) /\ Assigned(known, file) = r[n]
        /\ r[m] \in Variables
    <2>1. r[m + 1] = AssignVar(r[m], file[m + 1])
      BY <1>2, <1>3, Zenon DEF IsRow
    <2>2. r[m] \in Variables
      BY <1>1, <1>2, <1>3, RowIsVariables
    <2> HIDE DEF m
    <2> QED
      BY <1>2, <1>3, <2>1, <2>2, Zenon DEF IsRow
  <1> HIDE DEF m
  <1>8. r[m][var] = known[var]
    <2>1. 0 \in 0..n /\ 0 <= m /\ \A k \in 1..n : 0 < k /\ k <= m => file[k].var # var
      <3>1. \A k \in 1..n : k <= m => k # i
        BY <1>3
      <3> QED
        BY <1>3, <1>6, <3>1
    <2>2. r[m][var] = r[0][var]
      <3> HIDE DEF var
      <3> QED
        BY <1>1, <1>2, <1>3, <1>4, <2>1, RowKeeps
    <2> QED
      BY <1>7, <2>2, Zenon
  <1>9. r[n][var] = Composed(r[m], value)
    <2>1. n \in 0..n /\ i <= n /\ \A k \in 1..n : i < k /\ k <= n => file[k].var # var
      <3>1. \A k \in 1..n : i < k => k # i
        BY <1>3
      <3> QED
        BY <1>3, <1>6, <3>1
    <2>2. r[n][var] = r[i][var]
      <3> HIDE DEF var
      <3> QED
        BY <1>1, <1>2, <1>3, <1>4, <2>1, RowKeeps
    <2>3. r[i][var] = Composed(r[m], value)
      <3>1. file[i].var \in DOMAIN r[m]
        BY <1>4, <1>7 DEF Variables
      <3> QED
        BY <1>4, <1>7, <3>1, AssignHere, Zenon
    <2> QED
      BY <2>2, <2>3, Zenon
  <1>10. Len(after[var]) = Len(Composed(r[m], value))
    <2>1. Composed(r[m], value) \in Seq(Pieces)
      BY <1>5, <1>7, ComposedIs, Zenon
    <2>2. Composed(r[m], value) # Unset
      BY <2>1, SomeText, Zenon
    <2>3. \E k \in 1..n : file[k].var = var
      BY <1>3, Zenon
    <2>4. after[var] = Tilde(var, Composed(r[m], value))
      <3> HIDE DEF var, value
      <3>1. AfterFile(known, file)[var] = Tilde(var, Assigned(known, file)[var])
        BY <1>1, <1>4, <1>7, <1>9, <2>2, <2>3, AfterAt
      <3> QED
        BY <1>7, <1>9, <3>1, Zenon
    <2> QED
      BY <2>1, <2>4, TildeIs, Zenon
  <1>11. after \in Variables
    BY AfterIs
  <1>12. ASSUME NEW v \in Others(var, value)
         PROVE  Len(TextOf(after[v])) = Len(TextOf(r[m][v]))
    <2>1. v \in Vars /\ \A k \in 1..n : file[k].var = v => k <= m /\ file[k].value # Unset
      BY <1>3, <1>6 DEF Others
    <2> QED
      BY <1>1, <1>2, <1>3, <2>1, OtherStays
  <1> DEFINE e == [j \in DOMAIN value |-> Entry(r[m], value[j])]
             w == Without(after, var, value)
  <1>13. own \in DOMAIN value /\ value[own] = Ref(var) /\ \A j \in DOMAIN value : value[j] = Ref(var) => j = own
    <2>1. {j \in DOMAIN value : value[j] = Ref(var)} = {own}
      OBVIOUS
    <2> HIDE DEF value, var
    <2> QED
      BY <2>1
  <1> HIDE DEF value, var, after
  <1>14. e \in Seq(Seq(Pieces)) /\ Composed(r[m], value) = FlattenSeq(e) /\ Len(e) = Len(value)
    <2>1. e \in Seq(Seq(Pieces))
      BY <1>5, <1>7, EntriesAre
    <2>2. Composed(r[m], value) = FlattenSeq(e)
      BY Zenon DEF Composed
    <2>3. DOMAIN value = 1..Len(value) /\ Len(value) \in Nat
      BY <1>5
    <2>4. DOMAIN e = 1..Len(value)
      BY <2>3
    <2>5. Len(e) = Len(value)
      <3> HIDE DEF e
      <3> QED
        BY <2>1, <2>3, <2>4
    <2> QED
      BY <2>1, <2>2, <2>5
  <1>15. w \in Seq(Seq(Pieces)) /\ Len(w) = Len(value)
    BY <1>5, <1>11, WithoutIs
  <1>16. w[own] = <<>>
    BY <1>13, Zenon DEF Without
  <1>17. e[own] = TextOf(known[var])
    <2>1. Ref(var).t = "ref" /\ Ref(var).n = var
      BY DEF Ref
    <2>2. Entry(r[m], Ref(var)) = TextOf(r[m][var])
      BY <2>1, Zenon DEF Entry
    <2> QED
      BY <1>8, <1>13, <2>2, Zenon
  <1>18. ASSUME NEW j \in DOMAIN value, j # own PROVE Len(e[j]) = Len(w[j])
    <2>1. value[j] # Ref(var) /\ value[j] \in Pieces
      BY <1>5, <1>13, <1>18
    <2>2. CASE value[j].t = "ref"
      <3>1. value[j].n \in Vars /\ value[j] = Ref(value[j].n)
        BY <2>1, <2>2, PieceIs
      <3>2. value[j] \in Range(value)
        BY Zenon DEF Range
      <3>3. value[j].n \in Others(var, value)
        BY <2>1, <3>1, <3>2 DEF Others
      <3>4. e[j] = TextOf(r[m][value[j].n])
        BY <2>2, Zenon DEF Entry
      <3>5. w[j] = TextOf(after[value[j].n])
        BY <2>1, <2>2, Zenon DEF Without
      <3> QED
        BY <1>12, <3>3, <3>4, <3>5, Zenon
    <2>3. CASE value[j].t # "ref"
      <3>1. e[j] = <<value[j]>>
        BY <2>3, Zenon DEF Entry
      <3>2. w[j] = <<value[j]>>
        BY <2>1, <2>3, Zenon DEF Without
      <3> QED
        BY <3>1, <3>2, Zenon
    <2> QED
      BY <2>2, <2>3
  <1> HIDE DEF e, w
  <1>19. DOMAIN value = 1..Len(e) /\ Len(e) = Len(w)
    BY <1>5, <1>14, <1>15
  <1>20. Len(FlattenSeq(e)) = Len(e[own]) + Len(FlattenSeq(w))
    BY <1>13, <1>14, <1>15, <1>16, <1>18, <1>19, FlatWithout
  <1> QED
    BY <1>10, <1>14, <1>17, <1>20, Zenon DEF w, after, var, value

-----------------------------------------------------------------------------
\* An environment is one for all the variables, with texts or with none.
LEMMA EnvStays == env \in Variables /\ [ConfigNext]_cfgVars => env' \in Variables
  <1> SUFFICES ASSUME env \in Variables, [ConfigNext]_cfgVars
               PROVE  env' \in Variables
    OBVIOUS
  <1>1. ASSUME NEW i \in DOMAIN EnvFiles, ReadEnv(i) PROVE env' \in Variables
    <2>1. EnvFiles[i] \in Seq(Assignments)
      BY ConfigAssumption, Zenon DEF Assignments
    <2>2. env' = AfterFile(env, EnvFiles[i])
      BY <1>1, Zenon DEF ReadEnv, EnvAfter
    <2> QED
      BY <2>1, <2>2, AfterIs, Zenon
  <1>2. ASSUME NEW n \in 1..FilesIn, NEW names \in [1..n -> DOMAIN ConfigFiles],
               MergeDirectory(names)
        PROVE  env' \in Variables
    BY <1>2 DEF MergeDirectory
  <1>3. ASSUME PrependVenv PROVE env' \in Variables
    <2>1. CASE env' = env
      BY <2>1
    <2>2. CASE env' = [env EXCEPT !["PATH"] = <<VenvBin>> \o TextOf(env["PATH"])]
      <3>1. "PATH" \in Vars
        BY ConfigAssumption
      <3>2. TextOf(env["PATH"]) \in Seq(Pieces)
        BY <3>1, TextIs DEF Variables
      <3>3. <<VenvBin>> \in Seq(Pieces)
        <4>1. VenvBin \in Pieces
          BY PieceCases, Zenon
        <4> HIDE DEF Pieces
        <4> QED
          BY <4>1
      <3>4. <<VenvBin>> \o TextOf(env["PATH"]) \in Seq(Pieces)
        <4>1. \A x, y \in Seq(Pieces) : x \o y \in Seq(Pieces)
          OBVIOUS
        <4> QED
          BY <3>2, <3>3, <4>1, Zenon
      <3>5. <<VenvBin>> \o TextOf(env["PATH"]) \in Texts
        BY <3>4, SomeText, Zenon
      <3> QED
        BY <2>2, <3>5 DEF Variables
    <2> QED
      BY <1>3, <2>1, <2>2, Zenon DEF PrependVenv
  <1>4. ASSUME NEW here \in DOMAIN BeginsWith, NEW asked \in Asked, ChooseView(here, asked)
        PROVE  env' \in Variables
    BY <1>4 DEF ChooseView
  <1>5. CASE UNCHANGED cfgVars
    BY <1>5 DEF cfgVars
  <1> QED
    BY <1>1, <1>2, <1>3, <1>4, <1>5 DEF ConfigNext

LEMMA OwnOnceHere ==
    ASSUME env \in Variables, envRead \in Seq(DOMAIN EnvFiles), [ConfigNext]_cfgVars
    PROVE  OwnValueOnce
  <1> SUFFICES ASSUME envRead' # envRead,
                      NEW i \in DOMAIN EnvFiles[envRead'[Len(envRead')]]
               PROVE  LET file == EnvFiles[envRead'[Len(envRead')]]
                          a == file[i]
                          refs == {j \in DOMAIN a.value : a.value[j] = Ref(a.var)}
                          others == {v \in Vars \ {a.var} : Ref(v) \in Range(a.value)}
                      IN  Cardinality(refs) = 1 /\ SaidOnce(file, i, others) =>
                            Len(env'[a.var]) =
                                Len(TextOf(env[a.var])) + Len(FlattenSeq([j \in DOMAIN a.value |->
                                    IF j \in refs THEN <<>>
                                    ELSE IF a.value[j].t = "ref" THEN TextOf(env'[a.value[j].n])
                                    ELSE <<a.value[j]>>]))
    BY Zenon DEF OwnValueOnce
  <1>1. PICK f \in DOMAIN EnvFiles : ReadEnv(f)
    <2>1. ~(\E n \in 1..FilesIn : \E names \in [1..n -> DOMAIN ConfigFiles] : MergeDirectory(names))
      BY Zenon DEF MergeDirectory
    <2>2. ~PrependVenv
      BY Zenon DEF PrependVenv
    <2>3. ~(\E here \in DOMAIN BeginsWith, asked \in Asked : ChooseView(here, asked))
      BY Zenon DEF ChooseView
    <2>4. ~UNCHANGED cfgVars
      BY DEF cfgVars
    <2> QED
      BY <2>1, <2>2, <2>3, <2>4, Zenon DEF ConfigNext
  <1>2. envRead' = Append(envRead, f) /\ env' = AfterFile(env, EnvFiles[f])
    BY <1>1, Zenon DEF ReadEnv, EnvAfter
  <1>3. envRead'[Len(envRead')] = f
    BY <1>2
  <1> DEFINE file == EnvFiles[f]
  <1>4. file \in Seq(Assignments) /\ i \in DOMAIN file
    BY <1>3, ConfigAssumption, Zenon DEF Assignments
  <1> DEFINE a == file[i]
             refs == {j \in DOMAIN a.value : a.value[j] = Ref(a.var)}
  <1>5. ASSUME Cardinality(refs) = 1, SaidOnce(file, i, Others(a.var, a.value))
        PROVE  Len(env'[a.var]) = Len(TextOf(env[a.var])) + Len(FlattenSeq(Without(env', a.var, a.value)))
    <2>1. IsFiniteSet(refs)
      <3>1. a \in Assignments /\ a.value # Unset
        BY <1>4, <1>5 DEF SaidOnce
      <3>2. a.value \in Seq(Pieces)
        BY <3>1, Zenon DEF Assignments, Texts
      <3>3. IsFiniteSet(DOMAIN a.value)
        <4>1. PICK n \in Nat : DOMAIN a.value = 1..n
          BY <3>2, LenProperties
        <4> HIDE DEF a
        <4>2. IsFiniteSet(1..n)
          <5>1. 1 \in Int /\ n \in Int
            OBVIOUS
          <5> QED
            BY ONLY <5>1, FS_Interval
        <4> QED
          BY <4>1, <4>2, Zenon
      <3>4. refs \subseteq DOMAIN a.value
        OBVIOUS
      <3> HIDE DEF refs, a
      <3> QED
        BY <3>3, <3>4, FS_Subset, Zenon
    <2>2. PICK own : refs = {own}
      <3> HIDE DEF refs
      <3> QED
        BY <1>5, <2>1, FS_Singleton
    <2> QED
      BY <1>2, <1>4, <1>5, <2>2, OwnOnce, Zenon
  <1> QED
    BY <1>3, <1>5, Zenon DEF Others, Without

\* What is in the files arrives, whatever they say and however many there are:
\* the last file of a directory has its say of every option it sets, and one
\* that none of them sets stays (LastFileWins, _merge_dict); a variable that
\* refers to itself is extended once (OwnValueOnce, _merge_env_file).
THEOREM HaveTheirSay == ConfigSpec => FilesHaveTheirSay
  <1> DEFINE Inv == CfgInv /\ env \in Variables /\ envRead \in Seq(DOMAIN EnvFiles)
  <1>1. ConfigInit => Inv
    <2>1. Environment \in Variables
      BY ConfigAssumption DEF Variables
    <2> QED
      BY <2>1, EmptyIs DEF ConfigInit, CfgInv
  <1>2. Inv /\ [ConfigNext]_cfgVars => Inv'
    <2> SUFFICES ASSUME Inv, [ConfigNext]_cfgVars PROVE Inv'
      OBVIOUS
    <2>1. CfgInv'
      BY ReadsOn, Zenon
    <2>2. env' \in Variables
      BY EnvStays, Zenon
    <2>3. envRead' = envRead \/ \E i \in DOMAIN EnvFiles : envRead' = Append(envRead, i)
      BY DEF ConfigNext, cfgVars, ReadEnv, MergeDirectory, PrependVenv, ChooseView
    <2>4. envRead' \in Seq(DOMAIN EnvFiles)
      BY <2>3
    <2> QED
      BY <2>1, <2>2, <2>4, Zenon DEF Variables
  <1>3. Inv /\ [ConfigNext]_cfgVars => LastFileWins /\ OwnValueOnce
    <2>1. Inv /\ [ConfigNext]_cfgVars => LastFileWins
      BY LastWinsHere, Zenon DEF CfgInv
    <2>2. Inv /\ [ConfigNext]_cfgVars => OwnValueOnce
      BY OwnOnceHere, Zenon
    <2> QED
      BY <2>1, <2>2
  <1>4. Inv /\ [ConfigNext]_cfgVars => [LastFileWins /\ OwnValueOnce]_cfgVars
    BY <1>3, Zenon
  <1> QED
    BY <1>1, <1>2, <1>4, PTL DEF ConfigSpec, FilesHaveTheirSay
=============================================================================
