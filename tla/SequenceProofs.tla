---------------------------- MODULE SequenceProofs ----------------------------
(***************************************************************************)
(* What the proofs of several modules need of numbers and sequences: the   *)
(* least of a set of numbers, for induction on a least counterexample, and *)
(* FlattenSeq.                                                             *)
(***************************************************************************)
EXTENDS Naturals, Sequences, SequencesExt, WellFoundedInduction, SequenceTheorems, TLAPS

-----------------------------------------------------------------------------
(* Induction: a set of numbers has a smallest one *)

Less == {p \in Nat \X Nat : p[1] < p[2]}

(* The order of the natural numbers is well founded. *)
LEMMA LessWF == IsWellFoundedOn(Less, Nat)
  BY NatLessThanWellFounded DEF Less, OpToRel

(* A set of natural numbers that is not empty has a least element. *)
LEMMA NatMin ==
  ASSUME NEW T, T \subseteq Nat, T # {}
  PROVE  \E m \in T : \A n \in T : m <= n
<1>1. PICK m \in T : \A n \in T : ~ (<<n, m>> \in Less)
  BY LessWF, WFMin, Zenon
<1>2. ASSUME NEW n \in T PROVE m <= n
  <2>1. <<n, m>> \notin Less
    BY <1>1
  <2>2. n \in Nat /\ m \in Nat
    OBVIOUS
  <2> QED BY <2>1, <2>2 DEF Less
<1>3. QED BY <1>2

FlattenTo(f, s, n) == f = [i \in 1 .. n |-> IF i = 1 THEN s[i] ELSE f[i - 1] \o s[i]]

(* The recursive function inside FlattenSeq exists, by a least             *)
(* counterexample.                                                         *)
LEMMA FlattenExists ==
  ASSUME NEW s, NEW n \in Nat
  PROVE  \E f : FlattenTo(f, s, n)
<1> DEFINE Bad == {m \in Nat : ~ \E f : FlattenTo(f, s, m)}
<1>1. SUFFICES ASSUME Bad # {} PROVE FALSE
  OBVIOUS
<1>2. PICK m \in Bad : \A k \in Bad : m <= k
  BY <1>1, NatMin
<1>3. m # 0
  <2>1. FlattenTo([i \in 1 .. 0 |-> 0], s, 0)
    BY DEF FlattenTo
  <2>2. QED BY <2>1
<1>4. m - 1 \in Nat /\ m - 1 \notin Bad /\ m \in Nat
  BY <1>2, <1>3
<1>5. PICK f : FlattenTo(f, s, m - 1)
  BY <1>4
<1>6. DEFINE g == [i \in 1 .. m |-> IF i < m THEN f[i] ELSE IF i = 1 THEN s[i] ELSE f[i - 1] \o s[i]]
<1>7. FlattenTo(g, s, m)
  <2>1. SUFFICES ASSUME NEW i \in 1 .. m
                 PROVE  g[i] = IF i = 1 THEN s[i] ELSE g[i - 1] \o s[i]
    BY DEF FlattenTo
  <2>2. CASE i = m /\ i = 1 BY <2>2
  <2>3. CASE i = m /\ i # 1
    <3>1. i - 1 \in 1 .. m /\ i - 1 < m /\ ~ i < m BY <2>3, <1>4
    <3>2. g[i] = f[i - 1] \o s[i] BY <2>3, <3>1
    <3>3. g[i - 1] = f[i - 1] BY <3>1
    <3> QED BY <2>3, <3>2, <3>3
  <2>4. CASE i < m /\ i = 1
    BY <2>4, <1>5, <1>4 DEF FlattenTo
  <2>5. CASE i < m /\ i # 1
    <3>1. i - 1 \in 1 .. m /\ i - 1 < m /\ i \in 1 .. m - 1 BY <2>5, <1>4
    <3>2. f[i] = f[i - 1] \o s[i]
      BY <1>5, <3>1, <2>5 DEF FlattenTo
    <3> QED BY <2>5, <3>1, <3>2
  <2> QED BY <2>2, <2>3, <2>4, <2>5, <1>4
<1> QED BY <1>7, <1>2

(* FlattenSeq of a sequence that is not empty is the last value of that    *)
(* function.                                                               *)
LEMMA FlattenIs ==
  ASSUME NEW s, Len(s) \in Nat, Len(s) # 0
  PROVE  \E f : FlattenTo(f, s, Len(s)) /\ FlattenSeq(s) = f[Len(s)]
<1> DEFINE flatten[i \in 1..Len(s)] == IF i = 1 THEN s[i] ELSE flatten[i-1] \o s[i]
<1>1. FlattenSeq(s) = flatten[Len(s)]
  BY DEF FlattenSeq
<1>2. flatten = CHOOSE f : FlattenTo(f, s, Len(s))
  BY DEF FlattenTo
<1>3. FlattenTo(flatten, s, Len(s))
  <2> HIDE DEF flatten
  <2> QED BY <1>2, FlattenExists
<1> QED BY <1>1, <1>3

-----------------------------------------------------------------------------
(* FlattenSeq *)

(* r is the first n sequences of s, one after the other: row and col say   *)
(* where each element of r comes from.                                     *)
Joins(r, s, n, row, col) ==
  /\ \A p \in 1 .. Len(r) : /\ row[p] \in 1 .. n /\ col[p] \in 1 .. Len(s[row[p]])
                            /\ r[p] = s[row[p]][col[p]]
  /\ \A i \in 1 .. n : \A j \in 1 .. Len(s[i]) : \E p \in 1 .. Len(r) : row[p] = i /\ col[p] = j
  /\ \A p, q \in 1 .. Len(r) :
       p < q => row[p] < row[q] \/ (row[p] = row[q] /\ col[p] < col[q])

(* The first sequence alone is joined as it is. *)
LEMMA JoinsOne ==
  ASSUME NEW S, NEW s \in Seq(Seq(S)), s # <<>>
  PROVE  \E row, col : Joins(s[1], s, 1, row, col)
<1>1. Len(s[1]) \in Nat
  OBVIOUS
<1> DEFINE row == [p \in 1 .. Len(s[1]) |-> 1]
           col == [p \in 1 .. Len(s[1]) |-> p]
<1>2. \A p \in 1 .. Len(s[1]) : row[p] = 1 /\ col[p] = p
  OBVIOUS
<1> HIDE DEF row, col
<1>3. Joins(s[1], s, 1, row, col)
  BY <1>1, <1>2 DEF Joins
<1> QED BY <1>3

(* Appending the next sequence keeps the origin of each element and the    *)
(* order of the origins.                                                   *)
LEMMA JoinsNext ==
  ASSUME NEW S, NEW s \in Seq(Seq(S)), NEW n \in Nat, n > 0, n < Len(s), NEW r \in Seq(S),
         NEW row, NEW col, Joins(r, s, n, row, col)
  PROVE  \E row2, col2 : Joins(r \o s[n + 1], s, n + 1, row2, col2)
<1> DEFINE t == s[n + 1]
           a == Len(r)
           b == Len(t)
           u == r \o t
<1>1. t \in Seq(S) /\ a \in Nat /\ b \in Nat /\ u \in Seq(S) /\ n + 1 \in DOMAIN s
  <2>1. n + 1 \in 1 .. Len(s) BY LenProperties
  <2> QED BY <2>1
<1>2. /\ Len(u) = a + b
      /\ \A p \in 1 .. (a + b) : u[p] = IF p <= a THEN r[p] ELSE t[p - a]
  BY <1>1, ConcatProperties, LenProperties
<1> HIDE DEF u
<1> DEFINE row2 == [p \in 1 .. (a + b) |-> IF p <= a THEN row[p] ELSE n + 1]
           col2 == [p \in 1 .. (a + b) |-> IF p <= a THEN col[p] ELSE p - a]
<1>3. /\ \A p \in 1 .. a : /\ row[p] \in 1 .. n /\ col[p] \in 1 .. Len(s[row[p]])
                           /\ r[p] = s[row[p]][col[p]]
      /\ \A i \in 1 .. n : \A j \in 1 .. Len(s[i]) : \E p \in 1 .. a : row[p] = i /\ col[p] = j
      /\ \A p, q \in 1 .. a :
           p < q => row[p] < row[q] \/ (row[p] = row[q] /\ col[p] < col[q])
  BY DEF Joins
<1> HIDE DEF a, b
<1>4. \A p \in 1 .. a : p \in 1 .. (a + b) /\ row2[p] = row[p] /\ col2[p] = col[p]
  BY <1>1
<1>5. \A p \in 1 .. (a + b) : ~ p <= a => row2[p] = n + 1 /\ col2[p] = p - a /\ p - a \in 1 .. b
  BY <1>1
<1>6. \A p \in 1 .. (a + b) : p <= a => p \in 1 .. a
  BY <1>1
<1> HIDE DEF row2, col2
<1>7. ASSUME NEW p \in 1 .. (a + b)
      PROVE  /\ row2[p] \in 1 .. (n + 1) /\ col2[p] \in 1 .. Len(s[row2[p]])
             /\ u[p] = s[row2[p]][col2[p]]
  <2>1. CASE p <= a
    <3>1. p \in 1 .. a BY <2>1, <1>6
    <3>2. row[p] \in 1 .. n /\ row[p] \in 1 .. (n + 1) BY <3>1, <1>3
    <3> QED BY <3>1, <3>2, <2>1, <1>4, <1>3, <1>2
  <2>2. CASE ~ p <= a
    <3>1. n + 1 \in 1 .. (n + 1) OBVIOUS
    <3> QED BY <3>1, <2>2, <1>5, <1>2 DEF b
  <2> QED BY <2>1, <2>2
<1>8. ASSUME NEW i \in 1 .. (n + 1), NEW j \in 1 .. Len(s[i])
      PROVE  \E p \in 1 .. (a + b) : row2[p] = i /\ col2[p] = j
  <2>1. CASE i \in 1 .. n
    <3>1. PICK p \in 1 .. a : row[p] = i /\ col[p] = j BY <2>1, <1>3
    <3> QED BY <3>1, <1>4
  <2>2. CASE i = n + 1
    <3>1. j \in 1 .. b BY <2>2 DEF b
    <3>2. j + a \in 1 .. (a + b) /\ ~ j + a <= a /\ (j + a) - a = j
      BY <3>1, <1>1
    <3> QED BY <3>2, <1>5, <2>2
  <2> QED BY <2>1, <2>2
<1>9. ASSUME NEW p \in 1 .. (a + b), NEW q \in 1 .. (a + b), p < q
      PROVE  row2[p] < row2[q] \/ (row2[p] = row2[q] /\ col2[p] < col2[q])
  <2>1. CASE q <= a
    <3>1. p \in 1 .. a /\ q \in 1 .. a BY <2>1, <1>9, <1>1
    <3> QED BY <3>1, <1>9, <1>3, <1>4
  <2>2. CASE ~ q <= a /\ p <= a
    <3>1. p \in 1 .. a /\ row2[q] = n + 1 BY <2>2, <1>6, <1>5
    <3>2. row[p] \in 1 .. n /\ row2[p] = row[p] BY <3>1, <1>3, <1>4
    <3> QED BY <3>1, <3>2
  <2>3. CASE ~ p <= a
    <3>1. ~ q <= a BY <2>3, <1>9, <1>1
    <3> QED BY <3>1, <2>3, <1>9, <1>5, <1>1
  <2> QED BY <2>1, <2>2, <2>3
<1>10. Joins(u, s, n + 1, row2, col2)
  BY <1>2, <1>7, <1>8, <1>9 DEF Joins
<1> QED BY <1>10 DEF u

(* FlattenSeq has every element of every sequence exactly once, in the     *)
(* order of the sequences and within them.                                 *)
LEMMA Flattened ==
  ASSUME NEW S, NEW s \in Seq(Seq(S))
  PROVE  /\ FlattenSeq(s) \in Seq(S)
         /\ \E row, col : Joins(FlattenSeq(s), s, Len(s), row, col)
<1>1. CASE s = <<>>
  <2>1. FlattenSeq(s) = <<>> /\ Len(s) = 0
    BY <1>1 DEF FlattenSeq
  <2>2. Joins(<<>>, s, 0, <<>>, <<>>)
    BY DEF Joins
  <2> QED BY <2>1, <2>2
<1>2. CASE s # <<>>
  <2>1. Len(s) \in Nat /\ Len(s) # 0 /\ DOMAIN s = 1 .. Len(s) BY <1>2, EmptySeq
  <2>2. PICK f : FlattenTo(f, s, Len(s)) /\ FlattenSeq(s) = f[Len(s)]
    BY <2>1, FlattenIs
  <2> DEFINE Good(n) == f[n] \in Seq(S) /\ \E row, col : Joins(f[n], s, n, row, col)
             Bad == {n \in Nat : n \in 1 .. Len(s) /\ ~Good(n)}
  <2>3. SUFFICES ASSUME Bad # {} PROVE FALSE
    <3>1. Good(Len(s)) BY <2>1
    <3> QED BY <3>1, <2>2
  <2>4. PICK m \in Bad : \A k \in Bad : m <= k
    <3> HIDE DEF Bad
    <3>1. Bad \subseteq Nat BY DEF Bad
    <3> QED BY <3>1, <2>3, NatMin
  <2>5. m \in Nat /\ m \in 1 .. Len(s) /\ ~Good(m)
    BY <2>4
  <2>6. f[m] = IF m = 1 THEN s[m] ELSE f[m - 1] \o s[m]
    BY <2>2, <2>5 DEF FlattenTo
  <2>7. m # 1
    <3>1. SUFFICES ASSUME m = 1 PROVE FALSE OBVIOUS
    <3>2. f[1] = s[1] /\ s[1] \in Seq(S) BY <3>1, <2>6, <2>1, <1>2
    <3>3. \E row, col : Joins(s[1], s, 1, row, col) BY <1>2, JoinsOne
    <3> QED BY <3>1, <3>2, <3>3, <2>5
  <2> DEFINE n == m - 1
  <2>8. n \in Nat /\ n > 0 /\ n < Len(s) /\ n \in 1 .. Len(s) /\ n < m /\ m = n + 1
    BY <2>5, <2>7, <2>1
  <2>9. Good(n)
    <3>1. n \notin Bad BY <2>4, <2>5, <2>8
    <3> QED BY <3>1, <2>8
  <2> HIDE DEF n
  <2>10. PICK row, col : Joins(f[n], s, n, row, col)
    BY <2>9
  <2>11. f[n] \in Seq(S) BY <2>9
  <2>12. \E row2, col2 : Joins(f[n] \o s[n + 1], s, n + 1, row2, col2)
    BY <2>10, <2>11, <2>8, JoinsNext
  <2>13. f[m] = f[n] \o s[n + 1] /\ f[m] \in Seq(S)
    <3>1. s[n + 1] \in Seq(S) BY <2>8, <2>5, <2>1
    <3>2. f[m] = f[n] \o s[n + 1] BY <2>6, <2>7, <2>8 DEF n
    <3> QED BY <3>1, <3>2, <2>11
  <2> QED BY <2>12, <2>13, <2>8, <2>5
<1> QED BY <1>1, <1>2

-----------------------------------------------------------------------------
(* FlattenSeq of a longer sequence *)

(* Two functions that flatten agree where the sequences do. *)
LEMMA FlattenAgrees ==
  ASSUME NEW s, NEW t, NEW f, NEW g, NEW m \in Nat, m # 0, NEW n \in Nat, m <= n,
         FlattenTo(f, s, m), FlattenTo(g, t, n), \A i \in 1 .. m : s[i] = t[i]
  PROVE  f[m] = g[m]
<1> DEFINE Bad == {i \in 1 .. m : f[i] # g[i]}
<1>1. SUFFICES ASSUME Bad # {} PROVE FALSE
  <2>1. m \in 1 .. m
    OBVIOUS
  <2> QED BY <2>1
<1>2. PICK k \in Bad : \A i \in Bad : k <= i
  <2> HIDE DEF Bad
  <2>1. Bad \subseteq Nat BY DEF Bad
  <2> QED BY <2>1, <1>1, NatMin
<1>3. k \in 1 .. m /\ k \in 1 .. n /\ f[k] # g[k]
  BY <1>2
<1>4. /\ f[k] = IF k = 1 THEN s[k] ELSE f[k - 1] \o s[k]
      /\ g[k] = IF k = 1 THEN t[k] ELSE g[k - 1] \o t[k]
  BY <1>3 DEF FlattenTo
<1>5. k # 1
  BY <1>3, <1>4
<1>6. k - 1 \in 1 .. m /\ k - 1 \notin Bad
  BY <1>2, <1>3, <1>5
<1>7. f[k - 1] = g[k - 1]
  BY <1>6
<1> QED BY <1>3, <1>4, <1>5, <1>7

(* One more sequence is one more piece at the end. *)
LEMMA FlattenAppend ==
  ASSUME NEW S, NEW s \in Seq(Seq(S)), NEW t \in Seq(S)
  PROVE  FlattenSeq(Append(s, t)) = FlattenSeq(s) \o t
<1> DEFINE u == Append(s, t)
           n == Len(s)
<1>1. /\ n \in Nat /\ Len(u) = n + 1 /\ u[n + 1] = t /\ u \in Seq(Seq(S))
      /\ \A i \in 1 .. n : u[i] = s[i]
  OBVIOUS
<1> HIDE DEF u, n
<1>2. PICK g : FlattenTo(g, u, n + 1) /\ FlattenSeq(u) = g[n + 1]
  BY <1>1, FlattenIs
<1>3. g[n + 1] = IF n + 1 = 1 THEN t ELSE g[(n + 1) - 1] \o t
  <2>1. n + 1 \in 1 .. (n + 1)
    BY <1>1
  <2>2. g[n + 1] = IF n + 1 = 1 THEN u[n + 1] ELSE g[(n + 1) - 1] \o u[n + 1]
    BY <1>2, <2>1 DEF FlattenTo
  <2> QED BY <1>1, <2>2
<1>4. CASE n = 0
  <2>1. s = <<>> /\ FlattenSeq(s) = <<>>
    BY <1>4, EmptySeq DEF n, FlattenSeq
  <2>2. <<>> \o t = t
    OBVIOUS
  <2> QED BY <1>2, <1>3, <1>4, <2>1, <2>2 DEF u
<1>5. CASE n # 0
  <2>1. PICK f : FlattenTo(f, s, n) /\ FlattenSeq(s) = f[n]
    BY <1>1, <1>5, FlattenIs DEF n
  <2>2. f[n] = g[n]
    <3> DEFINE k == n + 1
    <3>1. FlattenTo(f, s, n) /\ FlattenTo(g, u, k) /\ n \in Nat /\ n # 0 /\ k \in Nat /\ n <= k
      BY <1>1, <1>2, <1>5, <2>1
    <3> HIDE DEF k
    <3>2. \A i \in 1 .. n : s[i] = u[i]
      BY <1>1
    <3> QED BY <3>1, <3>2, FlattenAgrees
  <2>3. (n + 1) - 1 = n /\ n + 1 # 1
    BY <1>1, <1>5
  <2> QED BY <1>2, <1>3, <2>1, <2>2, <2>3 DEF u
<1> QED BY <1>4, <1>5

(* The first n elements of a sequence, one by one. *)
LEMMA FirstElements ==
  ASSUME NEW S, NEW t \in Seq(S), NEW n \in Nat, n < Len(t)
  PROVE  /\ SubSeq(t, 1, n) \in Seq(S) /\ n + 1 \in DOMAIN t /\ t[n + 1] \in S
         /\ SubSeq(t, 1, n + 1) = Append(SubSeq(t, 1, n), t[n + 1])
<1>1. Len(t) \in Nat /\ DOMAIN t = 1 .. Len(t) /\ n + 1 \in 1 .. Len(t)
  OBVIOUS
<1> DEFINE a == SubSeq(t, 1, n)
           b == SubSeq(t, 1, n + 1)
<1>2. a \in Seq(S) /\ Len(a) = n /\ \A i \in 1 .. n : a[i] = t[i]
  BY <1>1, SubSeqProperties
<1>3. b \in Seq(S) /\ Len(b) = n + 1 /\ \A i \in 1 .. n + 1 : b[i] = t[i]
  BY <1>1, SubSeqProperties
<1>4. t[n + 1] \in S
  BY <1>1
<1> HIDE DEF a, b
<1>5. /\ Append(a, t[n + 1]) \in Seq(S) /\ Len(Append(a, t[n + 1])) = n + 1
      /\ \A i \in 1 .. n + 1 : Append(a, t[n + 1])[i] = t[i]
  BY <1>2, <1>4
<1>6. b = Append(a, t[n + 1])
  BY <1>3, <1>5, SeqEqual
<1> QED BY <1>1, <1>2, <1>4, <1>6 DEF a, b

(* Appending to the second of two sequences. *)
LEMMA ConcatAppend ==
  ASSUME NEW T, NEW a \in Seq(T), NEW b \in Seq(T), NEW x \in T
  PROVE  a \o b \in Seq(T) /\ a \o Append(b, x) = Append(a \o b, x)
<1>1. a \o b \in Seq(T) /\ <<x>> \in Seq(T)
  OBVIOUS
<1>2. Append(a \o b, x) = (a \o b) \o <<x>> /\ Append(b, x) = b \o <<x>>
  BY <1>1, AppendIsConcat
<1>3. (a \o b) \o <<x>> = a \o (b \o <<x>>)
  BY <1>1, ConcatAssociative
<1> QED BY <1>1, <1>2, <1>3

(* FlattenSeq of a concatenation is the concatenation. *)
LEMMA FlattenConcat ==
  ASSUME NEW S, NEW s \in Seq(Seq(S)), NEW t \in Seq(Seq(S))
  PROVE  FlattenSeq(s \o t) = FlattenSeq(s) \o FlattenSeq(t)
<1> DEFINE first(n) == SubSeq(t, 1, n)
           Bad == {n \in 0 .. Len(t) : FlattenSeq(s \o first(n)) # FlattenSeq(s) \o FlattenSeq(first(n))}
<1>1. Len(t) \in Nat /\ SubSeq(t, 1, Len(t)) = t /\ SubSeq(t, 1, 0) = <<>>
  OBVIOUS
<1>2. SUFFICES ASSUME Bad # {} PROVE FALSE
  <2>1. Len(t) \in 0 .. Len(t) /\ Len(t) \notin Bad
    <3> HIDE DEF Bad
    <3> QED BY <1>1, <1>2
  <2>2. FlattenSeq(s \o first(Len(t))) = FlattenSeq(s) \o FlattenSeq(first(Len(t)))
    BY <2>1, Zenon
  <2> QED BY <2>2, <1>1, Zenon
<1>3. PICK m \in Bad : \A i \in Bad : m <= i
  <2> HIDE DEF Bad
  <2>1. Bad \subseteq Nat BY DEF Bad
  <2> QED BY <2>1, <1>2, NatMin
<1>4. FlattenSeq(s) \in Seq(S) /\ FlattenSeq(<<>>) = <<>>
  BY Flattened DEF FlattenSeq
<1>5. m # 0
  <2>1. s \o <<>> = s /\ FlattenSeq(s) \o <<>> = FlattenSeq(s)
    BY <1>4
  <2>2. FlattenSeq(s \o first(0)) = FlattenSeq(s) \o FlattenSeq(first(0))
    BY <2>1, <1>4, <1>1
  <2> QED BY <2>2, <1>3
<1> DEFINE n == m - 1
           a == SubSeq(t, 1, n)
<1>6. n \in Nat /\ n < Len(t) /\ n \notin Bad /\ n + 1 = m /\ n \in 0 .. Len(t)
  <2>1. m \in 0 .. Len(t)
    BY <1>3
  <2> HIDE DEF Bad
  <2>2. n \in Nat /\ n < Len(t) /\ n + 1 = m /\ n \in 0 .. Len(t) /\ ~ m <= n
    BY <2>1, <1>1, <1>5
  <2>3. n \notin Bad
    BY <2>2, <1>3
  <2> QED BY <2>2, <2>3
<1>7. FlattenSeq(s \o a) = FlattenSeq(s) \o FlattenSeq(a)
  BY <1>6
<1>8. a \in Seq(Seq(S)) /\ t[m] \in Seq(S) /\ SubSeq(t, 1, m) = Append(a, t[m])
  <2> HIDE DEF n
  <2> QED BY <1>6, FirstElements
<1>9. FlattenSeq(s \o SubSeq(t, 1, m)) # FlattenSeq(s) \o FlattenSeq(SubSeq(t, 1, m))
  BY <1>3
<1> HIDE DEF a, Bad, n
<1>10. s \o a \in Seq(Seq(S)) /\ s \o Append(a, t[m]) = Append(s \o a, t[m])
  <2>1. PICK T : T = Seq(S)
    OBVIOUS
  <2>2. s \in Seq(T) /\ a \in Seq(T) /\ t[m] \in T
    BY <1>8, <2>1
  <2>3. s \o a \in Seq(T) /\ s \o Append(a, t[m]) = Append(s \o a, t[m])
    BY <2>2, ConcatAppend, SMT
  <2> QED BY <2>1, <2>3
<1>11. FlattenSeq(s \o SubSeq(t, 1, m)) = FlattenSeq(s \o a) \o t[m]
  BY <1>8, <1>10, FlattenAppend
<1>12. FlattenSeq(SubSeq(t, 1, m)) = FlattenSeq(a) \o t[m] /\ FlattenSeq(a) \in Seq(S)
  BY <1>8, FlattenAppend, Flattened
<1>13. (FlattenSeq(s) \o FlattenSeq(a)) \o t[m] = FlattenSeq(s) \o (FlattenSeq(a) \o t[m])
  <2> DEFINE x == FlattenSeq(s)
             y == FlattenSeq(a)
             z == t[m]
  <2>1. x \in Seq(S) /\ y \in Seq(S) /\ z \in Seq(S)
    BY <1>4, <1>8, <1>12
  <2> HIDE DEF x, y, z
  <2>2. (x \o y) \o z = x \o (y \o z)
    BY <2>1, ConcatAssociative
  <2> QED BY <2>2 DEF x, y, z
<1> QED BY <1>7, <1>9, <1>11, <1>12, <1>13

==============================================================================
