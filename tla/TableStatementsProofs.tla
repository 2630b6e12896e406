------------------------ MODULE TableStatementsProofs ------------------------
(***************************************************************************)
(* Proofs about TableStatements, for classes of any number of properties,  *)
(* and any number of rows, entities, comparisons, conditions, statements   *)
(* and scopes.  First the conditions: what SQLite reads in a text is what  *)
(* was meant, and a statement binds the parameters of its placeholders;    *)
(* after the texts come the mutable lists, who has which and how they are  *)
(* handed on.  Then the table: what the processor makes of a class, the    *)
(* CREATE that fails for it, the rows INSERT stores and the keys that tell *)
(* them apart.                                                             *)
(***************************************************************************)
EXTENDS TableStatements, SequenceProofs, FiniteSetTheorems

-----------------------------------------------------------------------------
(* Texts *)

Part == [op : {"", "AND", "OR"}, number : Nat, arity : Nat]
Parameter == Nat \X Nat

(* The operator before a comparison, its number and its arity. *)
OpAt(text, i) == text[i].op
NumberAt(text, i) == text[i].number
ArityAt(text, i) == text[i].arity

(* The lists of the values of a text. *)
ValuesOf(text) == [i \in DOMAIN text |-> Values(text[i])]

(* They are one list per comparison, and the placeholders all of them. *)
LEMMA ValuesAre ==
  ASSUME NEW text \in Seq(Part)
  PROVE  /\ ValuesOf(text) \in Seq(Seq(Parameter)) /\ Len(ValuesOf(text)) = Len(text)
         /\ \A i \in 1 .. Len(text) : ValuesOf(text)[i] = Values(text[i])
         /\ Placeholders(text) = FlattenSeq(ValuesOf(text))
<1>1. Len(text) \in Nat /\ DOMAIN text = 1 .. Len(text) /\ \A i \in 1 .. Len(text) : text[i] \in Part
  OBVIOUS
<1>2. ASSUME NEW i \in 1 .. Len(text)
      PROVE  Values(text[i]) \in Seq(Parameter)
  <2>1. text[i].number \in Nat /\ text[i].arity \in Nat
    BY <1>1 DEF Part
  <2>2. \A j \in 1 .. text[i].arity : <<text[i].number, j>> \in Parameter
    BY <2>1 DEF Parameter
  <2> QED BY <2>1, <2>2 DEF Values
<1>3. ValuesOf(text) = [i \in 1 .. Len(text) |-> Values(text[i])]
  BY <1>1 DEF ValuesOf
<1>4. ValuesOf(text) \in Seq(Seq(Parameter)) /\ Len(ValuesOf(text)) = Len(text)
  <2> DEFINE T == Seq(Parameter)
  <2>1. \A i \in 1 .. Len(text) : Values(text[i]) \in T
    BY <1>2
  <2> HIDE DEF T
  <2>2. [i \in 1 .. Len(text) |-> Values(text[i])] \in Seq(T)
    BY <1>1, <2>1, IsASeq
  <2>3. ValuesOf(text) \in Seq(T) /\ Len(ValuesOf(text)) = Len(text)
    BY <1>1, <1>3, <2>2
  <2> QED BY <2>3 DEF T
<1> QED BY <1>3, <1>4 DEF Placeholders, ValuesOf

(* The placeholders of a text that is one text behind the other, whatever  *)
(* the operators are, are those of the one behind those of the other.      *)
LEMMA PlaceholdersOfTwo ==
  ASSUME NEW s \in Seq(Part), NEW t \in Seq(Part), NEW u \in Seq(Part), Len(u) = Len(s) + Len(t),
         \A i \in 1 .. Len(s) : /\ NumberAt(u, i) = NumberAt(s, i)
                                /\ ArityAt(u, i) = ArityAt(s, i),
         \A i \in 1 .. Len(t) : /\ NumberAt(u, Len(s) + i) = NumberAt(t, i)
                                /\ ArityAt(u, Len(s) + i) = ArityAt(t, i)
  PROVE  /\ Placeholders(u) = Placeholders(s) \o Placeholders(t)
         /\ Numbers(u) = Numbers(s) \union Numbers(t)
<1>1. /\ Len(s) \in Nat /\ DOMAIN s = 1 .. Len(s) /\ Len(t) \in Nat /\ DOMAIN t = 1 .. Len(t)
      /\ DOMAIN u = 1 .. (Len(s) + Len(t))
  OBVIOUS
<1> DEFINE v == ValuesOf(s)
           w == ValuesOf(t)
           x == ValuesOf(u)
<1>2. /\ v \in Seq(Seq(Parameter)) /\ Len(v) = Len(s)
      /\ \A i \in 1 .. Len(s) : v[i] = Values(s[i])
      /\ Placeholders(s) = FlattenSeq(v)
  BY ValuesAre
<1>3. /\ w \in Seq(Seq(Parameter)) /\ Len(w) = Len(t)
      /\ \A i \in 1 .. Len(t) : w[i] = Values(t[i])
      /\ Placeholders(t) = FlattenSeq(w)
  BY ValuesAre
<1>4. /\ x \in Seq(Seq(Parameter)) /\ Len(x) = Len(u)
      /\ \A i \in 1 .. Len(u) : x[i] = Values(u[i])
      /\ Placeholders(u) = FlattenSeq(x)
  BY ValuesAre
<1>5. /\ \A i \in 1 .. Len(s) : Values(u[i]) = Values(s[i])
      /\ \A i \in 1 .. Len(t) : Values(u[Len(s) + i]) = Values(t[i])
  BY DEF Values, NumberAt, ArityAt
<1> HIDE DEF v, w, x
<1>6. x = v \o w
  <2> DEFINE T == Seq(Parameter)
  <2>1. v \in Seq(T) /\ w \in Seq(T) /\ x \in Seq(T)
    BY <1>2, <1>3, <1>4
  <2> HIDE DEF T
  <2>2. /\ v \o w \in Seq(T) /\ Len(v \o w) = Len(s) + Len(t)
        /\ \A i \in 1 .. Len(s) + Len(t) : (v \o w)[i] = IF i <= Len(s) THEN v[i] ELSE w[i - Len(s)]
    BY <2>1, <1>2, <1>3, ConcatProperties
  <2>3. ASSUME NEW i \in 1 .. Len(s) + Len(t) PROVE x[i] = (v \o w)[i]
    <3>1. CASE i <= Len(s)
      <4>1. i \in 1 .. Len(s) /\ i \in 1 .. Len(u)
        BY <1>1, <3>1
      <4> QED BY <4>1, <3>1, <2>2, <1>2, <1>4, <1>5
    <3>2. CASE ~ i <= Len(s)
      <4>1. PICK j \in 1 .. Len(t) : j = i - Len(s) /\ i = Len(s) + j /\ i \in 1 .. Len(u)
        <5>1. i - Len(s) \in 1 .. Len(t) /\ i = Len(s) + (i - Len(s)) /\ i \in 1 .. Len(u)
          BY <1>1, <3>2
        <5> QED BY <5>1
      <4>2. x[i] = Values(u[Len(s) + j]) /\ (v \o w)[i] = w[j]
        BY <4>1, <3>2, <2>2, <1>4
      <4> QED BY <4>1, <4>2, <1>3, <1>5
    <3> QED BY <3>1, <3>2
  <2> QED BY <2>1, <2>2, <2>3, <1>4, SeqEqual
<1>7. Placeholders(u) = Placeholders(s) \o Placeholders(t)
  <2>1. FlattenSeq(v \o w) = FlattenSeq(v) \o FlattenSeq(w)
    <3>1. v \in Seq(Seq(Parameter)) /\ w \in Seq(Seq(Parameter))
      BY <1>2, <1>3
    <3> QED BY <3>1, FlattenConcat
  <2> QED BY <2>1, <1>2, <1>3, <1>4, <1>6
<1>8. Numbers(u) = Numbers(s) \union Numbers(t)
  <2>1. ASSUME NEW n \in Numbers(u) PROVE n \in Numbers(s) \union Numbers(t)
    <3>1. PICK i \in 1 .. (Len(s) + Len(t)) : n = NumberAt(u, i)
      BY <1>1 DEF Numbers, NumberAt
    <3>2. CASE i <= Len(s)
      <4>1. i \in 1 .. Len(s)
        BY <1>1, <3>2
      <4> QED BY <4>1, <3>1, <1>1 DEF Numbers, NumberAt
    <3>3. CASE ~ i <= Len(s)
      <4>1. PICK j \in 1 .. Len(t) : i = Len(s) + j
        <5>1. i - Len(s) \in 1 .. Len(t) /\ i = Len(s) + (i - Len(s))
          BY <1>1, <3>3
        <5> QED BY <5>1
      <4>2. n = NumberAt(t, j)
        BY <4>1, <3>1
      <4> QED BY <4>2, <1>1 DEF Numbers, NumberAt
    <3> QED BY <3>2, <3>3
  <2>2. ASSUME NEW i \in 1 .. Len(s) PROVE NumberAt(s, i) \in Numbers(u)
    <3>1. i \in 1 .. (Len(s) + Len(t)) /\ NumberAt(u, i) = NumberAt(s, i)
      BY <1>1
    <3> QED BY <3>1, <1>1 DEF Numbers, NumberAt
  <2>3. ASSUME NEW i \in 1 .. Len(t) PROVE NumberAt(t, i) \in Numbers(u)
    <3>1. Len(s) + i \in 1 .. (Len(s) + Len(t)) /\ NumberAt(u, Len(s) + i) = NumberAt(t, i)
      BY <1>1
    <3> QED BY <3>1, <1>1 DEF Numbers, NumberAt
  <2>4. Numbers(s) \subseteq Numbers(u)
    BY <2>2, <1>1 DEF Numbers, NumberAt
  <2>5. Numbers(t) \subseteq Numbers(u)
    BY <2>3, <1>1 DEF Numbers, NumberAt
  <2> QED BY <2>1, <2>4, <2>5
<1> QED BY <1>7, <1>8

(* u is the second text behind the first, with the operator between. *)
ChainOf(u, op, s, t) ==
  /\ u \in Seq(Part) /\ Len(u) = Len(s) + Len(t)
  /\ Len(s) \in Nat /\ Len(t) \in Nat /\ Len(t) > 0
  /\ \A i \in 1 .. Len(s) : /\ OpAt(u, i) = OpAt(s, i)
                            /\ NumberAt(u, i) = NumberAt(s, i)
                            /\ ArityAt(u, i) = ArityAt(s, i)
  /\ \A j \in 1 .. Len(t) :
       /\ OpAt(u, Len(s) + j) = IF j = 1 THEN op ELSE OpAt(t, j)
       /\ NumberAt(u, Len(s) + j) = NumberAt(t, j)
       /\ ArityAt(u, Len(s) + j) = ArityAt(t, j)

(* A chain is such a text. *)
LEMMA ChainParts ==
  ASSUME NEW op \in {"AND", "OR"}, NEW s \in Seq(Part), NEW t \in Seq(Part), t # <<>>
  PROVE  ChainOf(Chain(op, s, t), op, s, t)
<1> DEFINE h == [Head(t) EXCEPT !.op = op]
           a == s \o <<h>>
           b == Tail(t)
<1>1. /\ Len(s) \in Nat /\ Len(t) \in Nat /\ Len(t) > 0 /\ Head(t) = t[1] /\ t[1] \in Part
      /\ \A i \in 1 .. Len(t) : t[i] \in Part
  BY EmptySeq
<1>2. h \in Part /\ h.op = op /\ h.number = t[1].number /\ h.arity = t[1].arity
  BY <1>1 DEF Part
<1>3. /\ b \in Seq(Part) /\ Len(b) = Len(t) - 1
      /\ \A i \in 1 .. Len(t) - 1 : b[i] = t[i + 1]
  BY <1>1, HeadTailProperties
<1> HIDE DEF h, b
<1>4. /\ a \in Seq(Part) /\ Len(a) = Len(s) + 1 /\ a[Len(s) + 1] = h
      /\ \A i \in 1 .. Len(s) : a[i] = s[i]
  BY <1>1, <1>2
<1> HIDE DEF a
<1>5. Chain(op, s, t) = a \o b
  BY DEF Chain, a, b, h
<1>6. /\ a \o b \in Seq(Part) /\ Len(a \o b) = (Len(s) + 1) + (Len(t) - 1)
      /\ \A i \in 1 .. (Len(s) + 1) + (Len(t) - 1) :
           (a \o b)[i] = IF i <= Len(s) + 1 THEN a[i] ELSE b[i - (Len(s) + 1)]
  <2>1. /\ a \o b \in Seq(Part) /\ Len(a \o b) = Len(a) + Len(b)
        /\ \A i \in 1 .. Len(a) + Len(b) :
             (a \o b)[i] = IF i <= Len(a) THEN a[i] ELSE b[i - Len(a)]
    <3>1. a \in Seq(Part) /\ b \in Seq(Part)
      BY <1>3, <1>4
    <3> QED BY <3>1, ConcatProperties
  <2> QED BY <2>1, <1>3, <1>4
<1>7. (Len(s) + 1) + (Len(t) - 1) = Len(s) + Len(t)
  BY <1>1
<1>8. ASSUME NEW i \in 1 .. Len(s) PROVE (a \o b)[i] = s[i]
  BY <1>1, <1>4, <1>6
<1>9. ASSUME NEW i \in 1 .. Len(t)
      PROVE  /\ OpAt(a \o b, Len(s) + i) = IF i = 1 THEN op ELSE OpAt(t, i)
             /\ NumberAt(a \o b, Len(s) + i) = NumberAt(t, i)
             /\ ArityAt(a \o b, Len(s) + i) = ArityAt(t, i)
  <2>1. CASE i = 1
    <3>1. (a \o b)[Len(s) + 1] = h
      BY <1>1, <1>4, <1>6
    <3> QED BY <3>1, <2>1, <1>2 DEF OpAt, NumberAt, ArityAt
  <2>2. CASE i # 1
    <3>1. (a \o b)[Len(s) + i] = b[i - 1]
      <4>1. Len(s) + i \in 1 .. (Len(s) + 1) + (Len(t) - 1) /\ ~ Len(s) + i <= Len(s) + 1
            /\ (Len(s) + i) - (Len(s) + 1) = i - 1
        BY <1>1, <2>2
      <4> QED BY <4>1, <1>6
    <3>2. b[i - 1] = t[i]
      <4>1. i - 1 \in 1 .. Len(t) - 1 /\ (i - 1) + 1 = i
        BY <1>1, <2>2
      <4> QED BY <4>1, <1>3
    <3> QED BY <3>1, <3>2, <2>2 DEF OpAt, NumberAt, ArityAt
  <2> QED BY <2>1, <2>2
<1>10. ASSUME NEW i \in 1 .. Len(s)
       PROVE  /\ OpAt(a \o b, i) = OpAt(s, i)
              /\ NumberAt(a \o b, i) = NumberAt(s, i)
              /\ ArityAt(a \o b, i) = ArityAt(s, i)
  BY <1>8 DEF OpAt, NumberAt, ArityAt
<1> QED BY <1>1, <1>5, <1>6, <1>7, <1>9, <1>10 DEF ChainOf

-----------------------------------------------------------------------------
(* What SQLite reads *)

(* The text of a condition starts without an operator and goes on with     *)
(* one before each comparison.                                             *)
Shaped(text) ==
  /\ text # <<>> /\ OpAt(text, 1) = ""
  /\ \A i \in 2 .. Len(text) : OpAt(text, i) # ""

AnyOr(text) == \E i \in DOMAIN text : OpAt(text, i) = "OR"

(* Such a text has comparisons. *)
LEMMA ShapedText ==
  ASSUME NEW text \in Seq(Part), Shaped(text)
  PROVE  /\ Len(text) \in Nat /\ Len(text) > 0 /\ DOMAIN text = 1 .. Len(text)
         /\ text # <<>> /\ 1 \in 1 .. Len(text)
         /\ \A i \in 1 .. Len(text) : text[i] \in Part
<1>1. text # <<>>
  BY DEF Shaped
<1>2. Len(text) \in Nat /\ DOMAIN text = 1 .. Len(text) /\ \A i \in 1 .. Len(text) : text[i] \in Part
  OBVIOUS
<1>3. Len(text) # 0
  BY <1>1, EmptySeq
<1> QED BY <1>1, <1>2, <1>3

(* The operators of such a text. *)
LEMMA ShapedOps ==
  ASSUME NEW text \in Seq(Part), Shaped(text)
  PROVE  /\ OpAt(text, 1) = ""
         /\ \A i \in 2 .. Len(text) : OpAt(text, i) = "AND" \/ OpAt(text, i) = "OR"
<1>1. OpAt(text, 1) = ""
  BY DEF Shaped
<1>2. ASSUME NEW i \in 2 .. Len(text) PROVE OpAt(text, i) = "AND" \/ OpAt(text, i) = "OR"
  <2>1. i \in 1 .. Len(text)
    BY ShapedText
  <2>2. text[i] \in Part
    BY <2>1, ShapedText
  <2>3. OpAt(text, i) \in {"", "AND", "OR"}
    BY <2>2 DEF Part, OpAt
  <2>4. OpAt(text, i) # ""
    BY DEF Shaped
  <2> QED BY <2>3, <2>4
<1> QED BY <1>1, <1>2

(* Where each comparison of a chain comes from. *)
LEMMA ChainPlaces ==
  ASSUME NEW op \in {"AND", "OR"}, NEW s \in Seq(Part), NEW t \in Seq(Part), Shaped(s), Shaped(t)
  PROVE  /\ Chain(op, s, t) \in Seq(Part) /\ Len(Chain(op, s, t)) = Len(s) + Len(t)
         /\ Len(s) \in Nat /\ Len(t) \in Nat /\ Len(s) > 0 /\ Len(t) > 0
         /\ DOMAIN Chain(op, s, t) = 1 .. Len(s) + Len(t)
         /\ DOMAIN s = 1 .. Len(s) /\ DOMAIN t = 1 .. Len(t)
         /\ \A i \in 1 .. Len(s) + Len(t) :
              ~ i <= Len(s) => i - Len(s) \in 1 .. Len(t) /\ i = Len(s) + (i - Len(s))
<1>1. /\ Len(s) \in Nat /\ Len(t) \in Nat /\ Len(s) > 0 /\ Len(t) > 0 /\ t # <<>>
      /\ DOMAIN s = 1 .. Len(s) /\ DOMAIN t = 1 .. Len(t)
  BY ShapedText
<1>2. Chain(op, s, t) \in Seq(Part) /\ Len(Chain(op, s, t)) = Len(s) + Len(t)
  <2>1. t # <<>>
    BY <1>1
  <2>2. ChainOf(Chain(op, s, t), op, s, t)
    BY <2>1, ChainParts
  <2> QED BY <2>2 DEF ChainOf
<1>3. DOMAIN Chain(op, s, t) = 1 .. Len(s) + Len(t)
  BY <1>2, LenProperties
<1> QED BY <1>1, <1>2, <1>3

(* A chain has the shape of a condition, and an OR if one of the two has   *)
(* one or it is the operator.                                              *)
LEMMA ChainShape ==
  ASSUME NEW op \in {"AND", "OR"}, NEW s \in Seq(Part), NEW t \in Seq(Part), Shaped(s), Shaped(t)
  PROVE  /\ Shaped(Chain(op, s, t))
         /\ AnyOr(Chain(op, s, t)) => AnyOr(s) \/ AnyOr(t) \/ op = "OR"
<1> DEFINE u == Chain(op, s, t)
           m == Len(s)
           n == Len(t)
<1>1. /\ Len(u) = m + n /\ m \in Nat /\ n \in Nat /\ m > 0 /\ n > 0 /\ DOMAIN u = 1 .. m + n
      /\ DOMAIN s = 1 .. m /\ DOMAIN t = 1 .. n
      /\ \A i \in 1 .. m + n : ~ i <= m => i - m \in 1 .. n /\ i = m + (i - m)
  BY ChainPlaces
<1>2. /\ \A i \in 1 .. m : OpAt(u, i) = OpAt(s, i)
      /\ \A j \in 1 .. n : OpAt(u, m + j) = IF j = 1 THEN op ELSE OpAt(t, j)
  <2>1. t # <<>>
    BY ShapedText
  <2>2. ChainOf(u, op, s, t)
    BY <2>1, ChainParts
  <2> HIDE DEF u
  <2> QED BY <2>2 DEF ChainOf
<1>3. u # <<>>
  BY <1>1, EmptySeq
<1> HIDE DEF u, m, n
<1>4. ASSUME NEW i \in 2 .. m + n PROVE OpAt(u, i) # ""
  <2>1. CASE i <= m
    <3>1. i \in 1 .. m /\ i \in 2 .. m
      BY <1>1, <2>1
    <3>2. OpAt(s, i) # ""
      BY <3>1 DEF Shaped, m
    <3> QED BY <3>1, <3>2, <1>2
  <2>2. CASE ~ i <= m
    <3>1. i \in 1 .. m + n
      BY <1>1
    <3>2. PICK j \in 1 .. n : i = m + j
      BY <1>1, <2>2, <3>1
    <3>3. j # 1 => j \in 2 .. n
      OBVIOUS
    <3>4. j # 1 => OpAt(t, j) # ""
      BY <3>3 DEF Shaped, n
    <3> QED BY <3>2, <3>4, <1>2
  <2> QED BY <2>1, <2>2
<1>5. OpAt(u, 1) = ""
  <2>1. 1 \in 1 .. m
    BY <1>1
  <2> QED BY <2>1, <1>2 DEF Shaped
<1>6. ASSUME NEW i \in DOMAIN u, OpAt(u, i) = "OR" PROVE AnyOr(s) \/ AnyOr(t) \/ op = "OR"
  <2>1. CASE i <= m
    <3>1. i \in 1 .. m
      BY <1>1, <2>1
    <3> QED BY <3>1, <1>1, <1>2, <1>6 DEF AnyOr
  <2>2. CASE ~ i <= m
    <3>1. PICK j \in 1 .. n : i = m + j
      BY <1>1, <2>2
    <3>2. OpAt(u, i) = IF j = 1 THEN op ELSE OpAt(t, j)
      BY <3>1, <1>2
    <3> QED BY <3>1, <3>2, <1>1, <1>6 DEF AnyOr
  <2> QED BY <2>1, <2>2
<1>7. Shaped(u)
  BY <1>1, <1>3, <1>4, <1>5 DEF Shaped
<1>8. AnyOr(u) => AnyOr(s) \/ AnyOr(t) \/ op = "OR"
  BY <1>6 DEF AnyOr
<1> QED BY <1>7, <1>8 DEF u

(* The comparisons from the i-th on, up to the next OR, all hold. *)
GroupHolds(text, i, S) ==
  /\ OpAt(text, i) # "AND"
  /\ \A j \in i .. Len(text) :
       (\A k \in i + 1 .. j : OpAt(text, k) = "AND") => NumberAt(text, j) \in S

(* Holds, in these words. *)
LEMMA HoldsIs ==
  ASSUME NEW text \in Seq(Part), NEW S
  PROVE  Holds(text, S) <=> \E i \in 1 .. Len(text) : GroupHolds(text, i, S)
<1>1. DOMAIN text = 1 .. Len(text)
  OBVIOUS
<1> QED BY <1>1 DEF Holds, GroupHolds, OpAt, NumberAt

(* A text without an OR holds when all its comparisons do. *)
LEMMA HoldsWithoutOr ==
  ASSUME NEW text \in Seq(Part), Shaped(text), ~ AnyOr(text), NEW S
  PROVE  Holds(text, S) <=> \A i \in 1 .. Len(text) : NumberAt(text, i) \in S
<1> DEFINE n == Len(text)
<1>1. n \in Nat /\ n > 0 /\ DOMAIN text = 1 .. n
  BY ShapedText
<1>2. \A i \in 2 .. n : OpAt(text, i) = "AND"
  <2>1. \A i \in 2 .. n : i \in DOMAIN text
    BY <1>1
  <2> QED BY <2>1, ShapedOps DEF AnyOr
<1>3. OpAt(text, 1) # "AND"
  BY ShapedOps
<1> HIDE DEF n
<1>4. ASSUME Holds(text, S) PROVE \A i \in 1 .. n : NumberAt(text, i) \in S
  <2>1. PICK i \in 1 .. n :
          /\ OpAt(text, i) # "AND"
          /\ \A j \in i .. n :
               (\A k \in i + 1 .. j : OpAt(text, k) = "AND") => NumberAt(text, j) \in S
    BY <1>4, HoldsIs DEF n, GroupHolds
  <2>2. i = 1
    <3>1. i # 1 => i \in 2 .. n
      OBVIOUS
    <3> QED BY <3>1, <1>2, <2>1
  <2>3. ASSUME NEW j \in 1 .. n PROVE NumberAt(text, j) \in S
    <3>1. \A k \in i + 1 .. j : k \in 2 .. n
      BY <1>1, <2>2
    <3>2. \A k \in i + 1 .. j : OpAt(text, k) = "AND"
      BY <3>1, <1>2
    <3> QED BY <2>1, <2>2, <3>2
  <2> QED BY <2>3
<1>5. ASSUME \A i \in 1 .. n : NumberAt(text, i) \in S PROVE Holds(text, S)
  <2>1. 1 \in 1 .. n
    BY <1>1
  <2>2. \A j \in 1 .. n : NumberAt(text, j) \in S
    BY <1>5
  <2>3. GroupHolds(text, 1, S)
    BY <2>2, <1>1, <1>3 DEF n, GroupHolds
  <2> QED BY <2>1, <2>3, HoldsIs DEF n
<1> QED BY <1>4, <1>5 DEF n

(* The groups of the first text of an OR end where it ends. *)
LEMMA OrKeepsFirst ==
  ASSUME NEW s \in Seq(Part), NEW t \in Seq(Part), NEW u, ChainOf(u, "OR", s, t),
         NEW S, NEW i \in 1 .. Len(s)
  PROVE  GroupHolds(u, i, S) <=> GroupHolds(s, i, S)
<1> DEFINE m == Len(s)
           n == Len(t)
<1>1. Len(u) = m + n /\ m \in Nat /\ n \in Nat /\ n > 0
  BY DEF ChainOf
<1>2. \A k \in 1 .. m : OpAt(u, k) = OpAt(s, k) /\ NumberAt(u, k) = NumberAt(s, k)
  BY DEF ChainOf
<1>3. OpAt(u, m + 1) = "OR"
  <2>1. 1 \in 1 .. n
    BY <1>1
  <2> QED BY <2>1 DEF ChainOf
<1>4. i \in 1 .. m
  OBVIOUS
<1> HIDE DEF m, n
<1>5. ASSUME GroupHolds(u, i, S) PROVE GroupHolds(s, i, S)
  <2>1. ASSUME NEW j \in i .. m, \A k \in i + 1 .. j : OpAt(s, k) = "AND"
        PROVE  NumberAt(s, j) \in S
    <3>1. j \in i .. m + n /\ j \in 1 .. m
      BY <1>1, <1>4
    <3>2. \A k \in i + 1 .. j : k \in 1 .. m
      BY <1>1, <1>4
    <3>3. \A k \in i + 1 .. j : OpAt(u, k) = "AND"
      BY <3>2, <2>1, <1>2
    <3>4. NumberAt(u, j) \in S
      BY <3>1, <3>3, <1>5, <1>1 DEF GroupHolds
    <3> QED BY <3>4, <3>1, <1>2
  <2> QED BY <2>1, <1>5, <1>2, <1>4 DEF GroupHolds, m
<1>6. ASSUME GroupHolds(s, i, S) PROVE GroupHolds(u, i, S)
  <2>1. ASSUME NEW j \in i .. m + n, \A k \in i + 1 .. j : OpAt(u, k) = "AND"
        PROVE  NumberAt(u, j) \in S
    <3>1. j <= m
      <4>1. SUFFICES ASSUME ~ j <= m PROVE FALSE
        OBVIOUS
      <4>2. m + 1 \in i + 1 .. j
        BY <1>1, <1>4, <4>1
      <4> QED BY <4>2, <2>1, <1>3
    <3>2. j \in i .. m /\ j \in 1 .. m
      BY <1>1, <1>4, <3>1
    <3>3. \A k \in i + 1 .. j : k \in 1 .. m
      BY <1>1, <1>4, <3>2
    <3>4. \A k \in i + 1 .. j : OpAt(s, k) = "AND"
      BY <3>3, <2>1, <1>2
    <3>5. NumberAt(s, j) \in S
      BY <3>2, <3>4, <1>6 DEF GroupHolds, m
    <3> QED BY <3>5, <3>2, <1>2
  <2>2. OpAt(u, i) # "AND"
    BY <1>6, <1>2, <1>4 DEF GroupHolds
  <2> QED BY <2>1, <2>2, <1>1 DEF GroupHolds
<1> QED BY <1>5, <1>6

(* Places of the second text, counted from the first. *)
Shifted(m, n, i) ==
  /\ \A j \in i .. n : m + j \in m + i .. m + n /\ j \in 1 .. n
  /\ \A j \in m + i .. m + n : \E l \in i .. n : j = m + l /\ l \in 1 .. n
  /\ \A j \in 1 .. n : /\ \A k \in (m + i) + 1 .. m + j :
                            \E l \in i + 1 .. j : k = m + l /\ l \in 1 .. n /\ l # 1
                       /\ \A l \in i + 1 .. j : /\ m + l \in (m + i) + 1 .. m + j
                                                /\ l \in 1 .. n /\ l # 1

(* Whatever the first text is. *)
LEMMA Shift ==
  ASSUME NEW m \in Nat, NEW n \in Nat, NEW i \in 1 .. n
  PROVE  Shifted(m, n, i)
<1>1. ASSUME NEW j \in i .. n PROVE m + j \in m + i .. m + n /\ j \in 1 .. n
  OBVIOUS
<1>2. ASSUME NEW j \in m + i .. m + n PROVE \E l \in i .. n : j = m + l /\ l \in 1 .. n
  <2>1. j - m \in i .. n /\ j = m + (j - m) /\ j - m \in 1 .. n
    OBVIOUS
  <2> QED BY <2>1
<1>3. ASSUME NEW j \in 1 .. n, NEW k \in (m + i) + 1 .. m + j
      PROVE  \E l \in i + 1 .. j : k = m + l /\ l \in 1 .. n /\ l # 1
  <2>1. k - m \in i + 1 .. j /\ k = m + (k - m) /\ k - m \in 1 .. n /\ k - m # 1
    OBVIOUS
  <2> QED BY <2>1
<1>4. ASSUME NEW j \in 1 .. n, NEW l \in i + 1 .. j
      PROVE  m + l \in (m + i) + 1 .. m + j /\ l \in 1 .. n /\ l # 1
  OBVIOUS
<1> QED BY <1>1, <1>2, <1>3, <1>4 DEF Shifted

(* The groups of the second text are the same behind the first. *)
LEMMA OrKeepsSecond ==
  ASSUME NEW s \in Seq(Part), NEW t \in Seq(Part), NEW u, ChainOf(u, "OR", s, t), OpAt(t, 1) = "",
         NEW S, NEW i \in 1 .. Len(t)
  PROVE  GroupHolds(u, Len(s) + i, S) <=> GroupHolds(t, i, S)
<1> DEFINE m == Len(s)
           n == Len(t)
<1>1. Len(u) = m + n /\ m \in Nat /\ n \in Nat /\ n > 0
  BY DEF ChainOf
<1>2. /\ \A k \in 1 .. n : OpAt(u, m + k) = IF k = 1 THEN "OR" ELSE OpAt(t, k)
      /\ \A k \in 1 .. n : NumberAt(u, m + k) = NumberAt(t, k)
  BY DEF ChainOf
<1>3. i \in 1 .. n
  OBVIOUS
<1> HIDE DEF m, n
<1>7. Shifted(m, n, i)
  BY <1>1, <1>3, Shift
<1>4. OpAt(u, m + i) = "AND" <=> OpAt(t, i) = "AND"
  BY <1>2, <1>3
<1>5. ASSUME GroupHolds(u, m + i, S) PROVE GroupHolds(t, i, S)
  <2>1. ASSUME NEW j \in i .. n, \A k \in i + 1 .. j : OpAt(t, k) = "AND"
        PROVE  NumberAt(t, j) \in S
    <3>1. m + j \in m + i .. m + n /\ j \in 1 .. n
      BY <1>7, Zenon DEF Shifted
    <3>2. ASSUME NEW k \in (m + i) + 1 .. m + j PROVE OpAt(u, k) = "AND"
      <4>2. PICK l \in i + 1 .. j : k = m + l /\ l \in 1 .. n /\ l # 1
        BY <1>7, <3>1, Zenon DEF Shifted
      <4>3. OpAt(u, m + l) = OpAt(t, l) /\ OpAt(t, l) = "AND"
        BY <4>2, <1>2, <2>1
      <4> QED BY <4>2, <4>3
    <3>3. NumberAt(u, m + j) \in S
      BY <3>1, <3>2, <1>5, <1>1 DEF GroupHolds
    <3> QED BY <3>1, <3>3, <1>2
  <2>2. OpAt(t, i) # "AND"
    BY <1>4, <1>5 DEF GroupHolds
  <2> QED BY <2>1, <2>2 DEF GroupHolds, n
<1>6. ASSUME GroupHolds(t, i, S) PROVE GroupHolds(u, m + i, S)
  <2>1. ASSUME NEW j \in m + i .. m + n, \A k \in (m + i) + 1 .. j : OpAt(u, k) = "AND"
        PROVE  NumberAt(u, j) \in S
    <3>1. PICK l \in i .. n : j = m + l /\ l \in 1 .. n
      BY <1>7, Zenon DEF Shifted
    <3>2. ASSUME NEW k \in i + 1 .. l PROVE OpAt(t, k) = "AND"
      <4>1. m + k \in (m + i) + 1 .. j /\ k \in 1 .. n /\ k # 1
        BY <1>7, <3>1, Zenon DEF Shifted
      <4>2. OpAt(u, m + k) = "AND" /\ OpAt(u, m + k) = OpAt(t, k)
        BY <4>1, <1>2, <2>1
      <4> QED BY <4>2
    <3>3. NumberAt(t, l) \in S
      BY <3>1, <3>2, <1>6 DEF GroupHolds, n
    <3> QED BY <3>1, <3>3, <1>2
  <2>2. OpAt(u, m + i) # "AND"
    BY <1>4, <1>6 DEF GroupHolds
  <2> QED BY <2>1, <2>2, <1>1 DEF GroupHolds
<1> QED BY <1>5, <1>6 DEF m

(* An OR holds when one of the two does. *)
LEMMA HoldsOr ==
  ASSUME NEW s \in Seq(Part), NEW t \in Seq(Part), Shaped(s), Shaped(t), NEW S
  PROVE  Holds(Chain("OR", s, t), S) <=> Holds(s, S) \/ Holds(t, S)
<1> DEFINE u == Chain("OR", s, t)
           m == Len(s)
           n == Len(t)
<1>1. ChainOf(u, "OR", s, t)
  <2>1. t # <<>> /\ "OR" \in {"AND", "OR"}
    BY ShapedText
  <2> QED BY <2>1, ChainParts
<1>2. /\ u \in Seq(Part) /\ Len(u) = m + n /\ m \in Nat /\ n \in Nat
  BY <1>1 DEF ChainOf
<1>3. OpAt(t, 1) = ""
  BY ShapedOps
<1> HIDE DEF u
<1>4. \A i \in 1 .. m : GroupHolds(u, i, S) <=> GroupHolds(s, i, S)
  BY <1>1, OrKeepsFirst
<1>5. \A i \in 1 .. n : GroupHolds(u, m + i, S) <=> GroupHolds(t, i, S)
  BY <1>1, <1>3, OrKeepsSecond
<1>6. /\ Holds(u, S) <=> \E i \in 1 .. m + n : GroupHolds(u, i, S)
      /\ Holds(s, S) <=> \E i \in 1 .. m : GroupHolds(s, i, S)
      /\ Holds(t, S) <=> \E i \in 1 .. n : GroupHolds(t, i, S)
  BY <1>2, HoldsIs
<1> HIDE DEF m, n
<1>7. ASSUME Holds(u, S) PROVE Holds(s, S) \/ Holds(t, S)
  <2>1. PICK i \in 1 .. m + n : GroupHolds(u, i, S)
    BY <1>6, <1>7
  <2>2. CASE i <= m
    <3>1. i \in 1 .. m
      BY <1>2, <2>2
    <3> QED BY <3>1, <2>1, <1>4, <1>6
  <2>3. CASE ~ i <= m
    <3> DEFINE j == i - m
    <3>1. j \in 1 .. n /\ i = m + j
      BY <1>2, <2>3
    <3> HIDE DEF j
    <3> QED BY <3>1, <2>1, <1>5, <1>6
  <2> QED BY <2>2, <2>3
<1>8. ASSUME Holds(s, S) PROVE Holds(u, S)
  <2>1. PICK i \in 1 .. m : GroupHolds(s, i, S)
    BY <1>6, <1>8
  <2>2. i \in 1 .. m + n
    BY <1>2
  <2> QED BY <2>1, <2>2, <1>4, <1>6
<1>9. ASSUME Holds(t, S) PROVE Holds(u, S)
  <2>1. PICK i \in 1 .. n : GroupHolds(t, i, S)
    BY <1>6, <1>9
  <2>2. m + i \in 1 .. m + n
    BY <1>2
  <2> QED BY <2>1, <2>2, <1>5, <1>6
<1> QED BY <1>7, <1>8, <1>9 DEF u

(* An AND of texts without an OR holds when both do. *)
LEMMA HoldsAnd ==
  ASSUME NEW s \in Seq(Part), NEW t \in Seq(Part), Shaped(s), Shaped(t),
         ~ AnyOr(s), ~ AnyOr(t), NEW S
  PROVE  Holds(Chain("AND", s, t), S) <=> Holds(s, S) /\ Holds(t, S)
<1> DEFINE u == Chain("AND", s, t)
           m == Len(s)
           n == Len(t)
<1>1. "AND" \in {"AND", "OR"} /\ "AND" # "OR"
  OBVIOUS
<1>2. ChainOf(u, "AND", s, t)
  <2>1. t # <<>>
    BY ShapedText
  <2> QED BY <2>1, <1>1, ChainParts
<1>3. /\ u \in Seq(Part) /\ Len(u) = m + n /\ m \in Nat /\ n \in Nat
      /\ \A i \in 1 .. m : NumberAt(u, i) = NumberAt(s, i)
      /\ \A i \in 1 .. n : NumberAt(u, m + i) = NumberAt(t, i)
  BY <1>2 DEF ChainOf
<1>4. Shaped(u) /\ ~ AnyOr(u)
  BY <1>1, ChainShape
<1> HIDE DEF u
<1>5. /\ Holds(u, S) <=> \A i \in 1 .. m + n : NumberAt(u, i) \in S
      /\ Holds(s, S) <=> \A i \in 1 .. m : NumberAt(s, i) \in S
      /\ Holds(t, S) <=> \A i \in 1 .. n : NumberAt(t, i) \in S
  BY <1>3, <1>4, HoldsWithoutOr
<1> HIDE DEF m, n
<1>6. ASSUME Holds(u, S) PROVE Holds(s, S) /\ Holds(t, S)
  <2>1. \A i \in 1 .. m : i \in 1 .. m + n
    BY <1>3
  <2>2. \A i \in 1 .. n : m + i \in 1 .. m + n
    BY <1>3
  <2> QED BY <2>1, <2>2, <1>3, <1>5, <1>6
<1>7. ASSUME Holds(s, S), Holds(t, S) PROVE Holds(u, S)
  <2>1. ASSUME NEW i \in 1 .. m + n PROVE NumberAt(u, i) \in S
    <3>1. CASE i <= m
      <4>1. i \in 1 .. m
        BY <1>3, <3>1
      <4> QED BY <4>1, <1>3, <1>5, <1>7
    <3>2. CASE ~ i <= m
      <4> DEFINE j == i - m
      <4>1. j \in 1 .. n /\ i = m + j
        BY <1>3, <3>2
      <4> HIDE DEF j
      <4> QED BY <4>1, <1>3, <1>5, <1>7
    <3> QED BY <3>1, <3>2
  <2> QED BY <2>1, <1>5
<1> QED BY <1>6, <1>7 DEF u

-----------------------------------------------------------------------------
(* Who has which list *)

Content(heap, l) == IF l = NoList THEN <<>> ELSE heap[l]
Origin(heap, l) == heap[l][1][1]

(* Of the holders H of texts and lists, the live ones L can still be       *)
(* executed; re are the comparisons written twice.  A list begins with a   *)
(* parameter of its holder; a live holder without such comparisons has     *)
(* its parameters in its list; live holders share a list only from such a  *)
(* comparison on.                                                          *)
Sound(heap, re, H, L, text, list) ==
  /\ \A h \in H : list[h] # NoList => Origin(heap, list[h]) \in Numbers(text[h])
  /\ \A h \in L : Numbers(text[h]) \intersect re = {} =>
                    Content(heap, list[h]) = Placeholders(text[h])
  /\ \A h, k \in L :
       h # k /\ list[h] = list[k] /\ list[h] # NoList => Origin(heap, list[h]) \in re

(* A list is handed to a new holder: by one of the givers G, or it is new. *)
(* The comparisons of a giver that is not live are written twice.          *)
Handed(heap, heap2, re2, H, L, text, list, G, newText, newList) ==
  /\ G \subseteq H
  /\ \A g \in G : g \notin L => Numbers(text[g]) \subseteq re2
  /\ newList # NoList => (\E g \in G : list[g] = newList) \/ (\A h \in H : list[h] # newList)
  /\ \A l \in DOMAIN heap : l # newList => heap2[l] = heap[l]
  /\ \A l \in DOMAIN heap : Origin(heap2, l) = Origin(heap, l)
  /\ newList # NoList => Origin(heap2, newList) \in Numbers(newText)
  /\ Numbers(newText) \intersect re2 = {} => Content(heap2, newList) = Placeholders(newText)

(* The givers are no longer live then; the other holders stay. *)
Succeeds(heap, re, H, L, text, list, heap2, re2, H2, L2, text2, list2, n, G) ==
  /\ Sound(heap, re, H, L, text, list)
  /\ L \subseteq H /\ L2 \subseteq H2 /\ re \subseteq re2
  /\ \A h \in H : list[h] # NoList => list[h] \in DOMAIN heap
  /\ n \in H2
  /\ Handed(heap, heap2, re2, H, L, text, list, G, text2[n], list2[n])
  /\ \A h \in H2 : h # n => h \in H /\ text2[h] = text[h] /\ list2[h] = list[h]
  /\ \A h \in L2 : h # n => h \in L /\ h \notin G

(* The lists are as sound as before. *)
LEMMA TakesOver ==
  ASSUME NEW heap, NEW re, NEW H, NEW L, NEW text, NEW list, NEW heap2, NEW re2, NEW H2, NEW L2,
         NEW text2, NEW list2, NEW n, NEW G,
         Succeeds(heap, re, H, L, text, list, heap2, re2, H2, L2, text2, list2, n, G)
  PROVE  Sound(heap2, re2, H2, L2, text2, list2)
<1>8. /\ Sound(heap, re, H, L, text, list)
      /\ L \subseteq H /\ L2 \subseteq H2 /\ re \subseteq re2
      /\ \A h \in H : list[h] # NoList => list[h] \in DOMAIN heap
      /\ n \in H2
      /\ Handed(heap, heap2, re2, H, L, text, list, G, text2[n], list2[n])
      /\ \A h \in H2 : h # n => h \in H /\ text2[h] = text[h] /\ list2[h] = list[h]
      /\ \A h \in L2 : h # n => h \in L /\ h \notin G
  BY DEF Succeeds
<1>1. /\ \A h \in H : list[h] # NoList => Origin(heap, list[h]) \in Numbers(text[h])
      /\ \A h \in L : Numbers(text[h]) \intersect re = {} =>
                        Content(heap, list[h]) = Placeholders(text[h])
      /\ \A h, k \in L :
           h # k /\ list[h] = list[k] /\ list[h] # NoList => Origin(heap, list[h]) \in re
  BY <1>8 DEF Sound
<1>7. /\ G \subseteq H
      /\ \A g \in G : g \notin L => Numbers(text[g]) \subseteq re2
      /\ list2[n] # NoList =>
           (\E g \in G : list[g] = list2[n]) \/ (\A h \in H : list[h] # list2[n])
      /\ \A l \in DOMAIN heap : l # list2[n] => heap2[l] = heap[l]
      /\ \A l \in DOMAIN heap : Origin(heap2, l) = Origin(heap, l)
      /\ list2[n] # NoList => Origin(heap2, list2[n]) \in Numbers(text2[n])
      /\ Numbers(text2[n]) \intersect re2 = {} => Content(heap2, list2[n]) = Placeholders(text2[n])
  BY <1>8 DEF Handed
<1>2. ASSUME NEW h \in L, h \notin G, list[h] = list2[n], list[h] # NoList
      PROVE  Origin(heap, list[h]) \in re2 /\ Origin(heap, list[h]) \in Numbers(text[h])
  <2>1. h \in H
    BY <1>8
  <2>2. PICK g \in G : list[g] = list2[n]
    BY <2>1, <1>2, <1>7, <1>8
  <2>3. g \in H /\ g # h
    BY <1>2, <1>7, <1>8
  <2>4. CASE g \in L
    BY <2>1, <2>2, <2>3, <2>4, <1>1, <1>2, <1>8
  <2>5. CASE g \notin L
    BY <2>1, <2>2, <2>3, <2>5, <1>1, <1>2, <1>7, <1>8
  <2> QED BY <2>4, <2>5, <1>8
<1>3. ASSUME NEW h \in H2, list2[h] # NoList
      PROVE  Origin(heap2, list2[h]) \in Numbers(text2[h])
  <2>1. CASE h = n
    BY <2>1, <1>3, <1>7, <1>8
  <2>2. CASE h # n
    <3>1. h \in H /\ text2[h] = text[h] /\ list2[h] = list[h]
      BY <2>2, <1>8
    <3>2. list[h] \in DOMAIN heap
      BY <3>1, <1>3, <1>8
    <3>3. Origin(heap2, list[h]) = Origin(heap, list[h])
      BY <3>2, <1>7, <1>8
    <3> QED BY <3>1, <3>3, <1>1, <1>3, <1>8
  <2> QED BY <2>1, <2>2, <1>8
<1>4. ASSUME NEW h \in L2, Numbers(text2[h]) \intersect re2 = {}
      PROVE  Content(heap2, list2[h]) = Placeholders(text2[h])
  <2>1. CASE h = n
    BY <2>1, <1>4, <1>7, <1>8
  <2>2. CASE h # n
    <3>1. h \in H2
      BY <1>8
    <3>2. h \in H /\ text2[h] = text[h] /\ list2[h] = list[h] /\ h \in L /\ h \notin G
      BY <2>2, <3>1, <1>8
    <3>3. Content(heap, list[h]) = Placeholders(text[h])
      BY <3>2, <1>1, <1>4, <1>8
    <3>4. CASE list[h] = NoList
      BY <3>2, <3>3, <3>4, <1>8 DEF Content
    <3>5. CASE list[h] # NoList
      <4>1. list[h] # list2[n]
        BY <3>2, <3>5, <1>2, <1>4, <1>8
      <4>2. list[h] \in DOMAIN heap
        BY <3>2, <3>5, <1>8
      <4>3. heap2[list[h]] = heap[list[h]]
        BY <4>1, <4>2, <1>7, <1>8
      <4> QED BY <4>3, <3>2, <3>3, <3>5, <1>8 DEF Content
    <3> QED BY <3>4, <3>5, <1>8
  <2> QED BY <2>1, <2>2, <1>8
<1>5. ASSUME NEW k \in L2, k # n, list2[k] = list2[n], list2[k] # NoList
      PROVE  Origin(heap2, list2[n]) \in re2
  <2>1. k \in H2
    BY <1>8
  <2>2. k \in H /\ list2[k] = list[k] /\ k \in L /\ k \notin G
    BY <2>1, <1>5, <1>8
  <2>3. Origin(heap, list[k]) \in re2
    BY <2>2, <1>2, <1>5, <1>8
  <2>4. list[k] \in DOMAIN heap
    BY <2>2, <1>5, <1>8
  <2>5. Origin(heap2, list[k]) = Origin(heap, list[k])
    BY <2>4, <1>7, <1>8
  <2> QED BY <2>2, <2>3, <2>5, <1>5, <1>8
<1>6. ASSUME NEW h \in L2, NEW k \in L2, h # k, list2[h] = list2[k], list2[h] # NoList
      PROVE  Origin(heap2, list2[h]) \in re2
  <2>1. CASE h = n
    BY <2>1, <1>5, <1>6, <1>8
  <2>2. CASE k = n
    BY <2>2, <1>5, <1>6, <1>8
  <2>3. CASE h # n /\ k # n
    <3>1. h \in H2 /\ k \in H2
      BY <1>8
    <3>2. /\ h \in H /\ list2[h] = list[h] /\ h \in L
          /\ k \in H /\ list2[k] = list[k] /\ k \in L
      BY <2>3, <3>1, <1>8
    <3>3. Origin(heap, list[h]) \in re /\ list[h] \in DOMAIN heap
      BY <3>2, <1>1, <1>6, <1>8
    <3>4. Origin(heap2, list[h]) = Origin(heap, list[h])
      BY <3>3, <1>7, <1>8
    <3> QED BY <3>2, <3>3, <3>4, <1>8
  <2> QED BY <2>1, <2>2, <2>3, <1>8
<1> QED BY <1>3, <1>4, <1>6 DEF Sound

-----------------------------------------------------------------------------
(* Two lists as one *)

Parameters == Seq(Parameter) \ {<<>>}

(* heap2 is heap, with the parameters of q behind those of p in list l. *)
Joined(heap2, l, heap, p, q) ==
  /\ heap2 \in Seq(Parameters) /\ Len(heap2) = Len(heap) /\ l \in 0 .. Len(heap)
  /\ l = NoList <=> p = NoList /\ q = NoList
  /\ l = p \/ l = q
  /\ Content(heap2, l) = Content(heap, p) \o Content(heap, q)
  /\ \A k \in 1 .. Len(heap) : k # l => heap2[k] = heap[k]
  /\ \A k \in 1 .. Len(heap) : Origin(heap2, k) = Origin(heap, k)

(* A concatenation begins with the first sequence. *)
LEMMA BeginsWith ==
  ASSUME NEW S, NEW a \in Seq(S), NEW b \in Seq(S), a # <<>>
  PROVE  a \o b \in Seq(S) /\ a \o b # <<>> /\ (a \o b)[1] = a[1]
<1>1. Len(a) \in Nat /\ Len(a) # 0 /\ Len(b) \in Nat
  BY EmptySeq
<1>2. /\ a \o b \in Seq(S) /\ Len(a \o b) = Len(a) + Len(b)
      /\ \A i \in 1 .. Len(a) + Len(b) :
           (a \o b)[i] = IF i <= Len(a) THEN a[i] ELSE b[i - Len(a)]
  BY ConcatProperties
<1>3. 1 \in 1 .. Len(a) + Len(b) /\ 1 <= Len(a) /\ Len(a \o b) # 0
  BY <1>1, <1>2
<1> QED BY <1>2, <1>3, EmptySeq

(* Merged joins. *)
LEMMA MergedJoins ==
  ASSUME NEW heap \in Seq(Parameters), NEW p \in 0 .. Len(heap), NEW q \in 0 .. Len(heap)
  PROVE  Joined(Merged(heap, p, q).heap, Merged(heap, p, q).list, heap, p, q)
<1>1. Len(heap) \in Nat /\ DOMAIN heap = 1 .. Len(heap)
  OBVIOUS
<1>2. ASSUME NEW k \in 1 .. Len(heap)
      PROVE  heap[k] \in Seq(Parameter) /\ heap[k] # <<>> /\ Len(heap[k]) \in Nat /\ Len(heap[k]) > 0
  <2>1. heap[k] \in Parameters
    BY <1>1
  <2>2. heap[k] \in Seq(Parameter) /\ heap[k] # <<>>
    BY <2>1 DEF Parameters
  <2> QED BY <2>2, EmptySeq
<1>3. CASE p = NoList
  <2>1. Merged(heap, p, q).heap = heap /\ Merged(heap, p, q).list = q
    BY <1>3 DEF Merged
  <2>2. <<>> \o Content(heap, q) = Content(heap, q)
    <3>1. Content(heap, q) \in Seq(Parameter)
      BY <1>1, <1>2 DEF Content, NoList
    <3> QED BY <3>1
  <2>3. Content(heap, p) = <<>>
    BY <1>3 DEF Content
  <2> QED BY <2>1, <2>2, <2>3, <1>3 DEF Joined
<1>4. CASE p # NoList /\ q = NoList
  <2>1. Merged(heap, p, q).heap = heap /\ Merged(heap, p, q).list = p
    BY <1>4 DEF Merged
  <2>2. Content(heap, p) \o <<>> = Content(heap, p)
    <3>1. Content(heap, p) \in Seq(Parameter)
      BY <1>1, <1>2 DEF Content, NoList
    <3> QED BY <3>1
  <2>3. Content(heap, q) = <<>>
    BY <1>4 DEF Content
  <2> QED BY <2>1, <2>2, <2>3, <1>4 DEF Joined
<1>5. CASE p # NoList /\ q # NoList
  <2> DEFINE both == heap[p] \o heap[q]
             heap2 == [heap EXCEPT ![p] = both]
  <2>1. p \in 1 .. Len(heap) /\ q \in 1 .. Len(heap)
    BY <1>1, <1>5 DEF NoList
  <2>2. both \in Seq(Parameter) /\ both # <<>> /\ both[1] = heap[p][1]
    <3>1. heap[p] \in Seq(Parameter) /\ heap[q] \in Seq(Parameter) /\ heap[p] # <<>>
      BY <2>1, <1>2
    <3> QED BY <3>1, BeginsWith
  <2>3. both \in Parameters
    BY <2>2 DEF Parameters
  <2>4. Merged(heap, p, q).heap = heap2 /\ Merged(heap, p, q).list = p
    BY <1>5 DEF Merged
  <2> HIDE DEF both
  <2>5. /\ heap2 \in Seq(Parameters) /\ Len(heap2) = Len(heap) /\ heap2[p] = both
        /\ \A k \in 1 .. Len(heap) : k # p => heap2[k] = heap[k]
    BY <2>1, <2>3, ExceptSeq
  <2> HIDE DEF heap2
  <2>6. \A k \in 1 .. Len(heap) : Origin(heap2, k) = Origin(heap, k)
    BY <2>2, <2>5 DEF Origin
  <2>7. Content(heap2, p) = Content(heap, p) \o Content(heap, q)
    BY <2>5, <1>5 DEF Content, both
  <2> QED BY <2>4, <2>5, <2>6, <2>7, <1>5 DEF Joined
<1> QED BY <1>3, <1>4, <1>5

-----------------------------------------------------------------------------
(* The holders of a state *)

(* A condition by its place, a statement by its place, negated. *)
Holders(conds, stats) == DOMAIN conds \union {- i : i \in DOMAIN stats}
Live(conds, stats) == {h \in Holders(conds, stats) : h > 0 => ~ conds[h].used}
TextOf(conds, stats) ==
  [h \in Holders(conds, stats) |-> IF h > 0 THEN conds[h].text ELSE stats[- h].text]
ListOf(conds, stats) ==
  [h \in Holders(conds, stats) |-> IF h > 0 THEN conds[h].list ELSE stats[- h].list]

(* Each condition. *)
LEMMA ConditionHolds ==
  ASSUME NEW X, NEW Y, NEW conds \in Seq(X), NEW stats \in Seq(Y), NEW c \in DOMAIN conds
  PROVE  /\ c \in Nat /\ c > 0 /\ c \in Holders(conds, stats)
         /\ c \in Live(conds, stats) <=> ~ conds[c].used
         /\ TextOf(conds, stats)[c] = conds[c].text
         /\ ListOf(conds, stats)[c] = conds[c].list
<1>1. c \in Nat /\ c > 0
  BY LenProperties
<1>2. c \in Holders(conds, stats)
  BY DEF Holders
<1> QED BY <1>1, <1>2 DEF Live, TextOf, ListOf

(* Each statement. *)
LEMMA StatementHolds ==
  ASSUME NEW X, NEW Y, NEW conds \in Seq(X), NEW stats \in Seq(Y), NEW i \in DOMAIN stats
  PROVE  /\ i \in Nat /\ - i \in Int /\ - i < 0 /\ - i \in Holders(conds, stats)
         /\ - i \in Live(conds, stats)
         /\ TextOf(conds, stats)[- i] = stats[i].text
         /\ ListOf(conds, stats)[- i] = stats[i].list
<1>1. i \in Nat /\ i > 0 /\ - i \in Int /\ ~ - i > 0 /\ - (- i) = i
  <2>1. i \in 1 .. Len(stats) /\ Len(stats) \in Nat
    BY LenProperties
  <2> QED BY <2>1
<1>2. - i \in Holders(conds, stats)
  BY DEF Holders
<1> DEFINE h == - i
<1>3. ~ h > 0 /\ - h = i /\ h \in Holders(conds, stats) /\ h < 0
  BY <1>1, <1>2
<1> HIDE DEF h
<1>4. h \in Live(conds, stats)
  BY <1>3 DEF Live
<1>5. TextOf(conds, stats)[h] = stats[i].text /\ ListOf(conds, stats)[h] = stats[i].list
  BY <1>3 DEF TextOf, ListOf
<1> QED BY <1>1, <1>3, <1>4, <1>5 DEF h

(* There are no others. *)
LEMMA HolderIs ==
  ASSUME NEW X, NEW Y, NEW conds \in Seq(X), NEW stats \in Seq(Y), NEW h \in Holders(conds, stats)
  PROVE  (h > 0 /\ h \in DOMAIN conds) \/ \E i \in DOMAIN stats : h = - i /\ ~ h > 0
<1>1. CASE h \in DOMAIN conds
  <2>1. h \in Nat /\ h > 0
    BY <1>1, ConditionHolds
  <2> QED BY <1>1, <2>1
<1>2. CASE h \notin DOMAIN conds
  <2>1. PICK i \in DOMAIN stats : h = - i
    BY <1>2 DEF Holders
  <2>2. - i < 0
    BY StatementHolds
  <2> QED BY <2>1, <2>2
<1> QED BY <1>1, <1>2

(* The holders of a list have it. *)
ListsExist(heap, H, list) == \A h \in H : list[h] # NoList => list[h] \in DOMAIN heap

(* Conditions that were used are only marked. *)
Marked(conds2, conds, given) ==
  /\ DOMAIN conds2 = DOMAIN conds
  /\ \A c \in DOMAIN conds : /\ conds2[c].text = conds[c].text /\ conds2[c].list = conds[c].list
                             /\ conds2[c].used <=> conds[c].used \/ c \in given

SoundIn(heap, re, conds, stats) ==
  Sound(heap, re, Holders(conds, stats), Live(conds, stats), TextOf(conds, stats), ListOf(conds, stats))

HandedIn(heap, heap2, re2, conds, stats, G, newText, newList) ==
  Handed(heap, heap2, re2, Holders(conds, stats), Live(conds, stats), TextOf(conds, stats),
         ListOf(conds, stats), G, newText, newList)

(* A new condition. *)
LEMMA ConditionTakesOver ==
  ASSUME NEW X, NEW Y, NEW conds \in Seq(X), NEW stats \in Seq(Y), NEW heap, NEW re,
         SoundIn(heap, re, conds, stats), ListsExist(heap, Holders(conds, stats), ListOf(conds, stats)),
         NEW X2, NEW conds2 \in Seq(X2), NEW given, Marked(conds2, conds, given),
         NEW X3, NEW conds3 \in Seq(X3), Len(conds3) = Len(conds) + 1,
         \A c \in DOMAIN conds : conds3[c] = conds2[c],
         NEW heap2, NEW re2, re \subseteq re2, given \subseteq DOMAIN conds,
         HandedIn(heap, heap2, re2, conds, stats, given,
                  conds3[Len(conds) + 1].text, conds3[Len(conds) + 1].list)
  PROVE  SoundIn(heap2, re2, conds3, stats)
<1> DEFINE H == Holders(conds, stats)
           L == Live(conds, stats)
           H2 == Holders(conds3, stats)
           L2 == Live(conds3, stats)
           text == TextOf(conds, stats)
           list == ListOf(conds, stats)
           text2 == TextOf(conds3, stats)
           list2 == ListOf(conds3, stats)
           n == Len(conds) + 1
<1>1. /\ n \in DOMAIN conds3 /\ \A c \in DOMAIN conds3 : c # n => c \in DOMAIN conds
      /\ \A c \in DOMAIN conds : c \in DOMAIN conds3
  <2>1. Len(conds) \in Nat /\ DOMAIN conds = 1 .. Len(conds) /\ DOMAIN conds3 = 1 .. Len(conds3)
    BY LenProperties
  <2> QED BY <2>1
<1> HIDE DEF n
<1>2. n \in H2 /\ text2[n] = conds3[n].text /\ list2[n] = conds3[n].list
  BY <1>1, ConditionHolds
<1>3. ASSUME NEW c \in DOMAIN conds
      PROVE  /\ c \in H2 /\ c \in H /\ text2[c] = text[c] /\ list2[c] = list[c]
             /\ c \in L2 => c \in L /\ c \notin given
  <2>1. /\ c \in H /\ text[c] = conds[c].text /\ list[c] = conds[c].list
        /\ c \in L <=> ~ conds[c].used
    BY ConditionHolds
  <2>2. /\ c \in H2 /\ text2[c] = conds3[c].text /\ list2[c] = conds3[c].list
        /\ c \in L2 <=> ~ conds3[c].used
    BY <1>1, ConditionHolds
  <2>3. /\ conds3[c].text = conds[c].text /\ conds3[c].list = conds[c].list
        /\ conds3[c].used <=> conds[c].used \/ c \in given
    BY DEF Marked
  <2> QED BY <2>1, <2>2, <2>3
<1>4. ASSUME NEW i \in DOMAIN stats
      PROVE  /\ - i \in H2 /\ - i \in H /\ text2[- i] = text[- i] /\ list2[- i] = list[- i]
             /\ - i \in L /\ - i \notin given
  <2>1. /\ - i \in H /\ text[- i] = stats[i].text /\ list[- i] = stats[i].list
        /\ - i \in L /\ - i < 0
    BY StatementHolds
  <2>2. - i \in H2 /\ text2[- i] = stats[i].text /\ list2[- i] = stats[i].list
    BY StatementHolds
  <2>3. - i \notin given
    BY <2>1, ConditionHolds
  <2> QED BY <2>1, <2>2, <2>3
<1>5. ASSUME NEW h \in H2, h # n
      PROVE  /\ h \in H /\ text2[h] = text[h] /\ list2[h] = list[h]
             /\ h \in L2 => h \in L /\ h \notin given
  <2>1. h \in DOMAIN conds3 \/ \E i \in DOMAIN stats : h = - i
    BY HolderIs
  <2> QED BY <2>1, <1>1, <1>3, <1>4, <1>5
<1>6. L \subseteq H /\ L2 \subseteq H2
  BY DEF Live
<1>7. /\ Handed(heap, heap2, re2, H, L, text, list, given, text2[n], list2[n])
      /\ Sound(heap, re, H, L, text, list)
      /\ \A h \in H : list[h] # NoList => list[h] \in DOMAIN heap
  BY <1>2 DEF HandedIn, SoundIn, ListsExist, n
<1> HIDE DEF H, L, H2, L2, text, list, text2, list2
<1>8. /\ \A h \in H2 : h # n => h \in H /\ text2[h] = text[h] /\ list2[h] = list[h]
      /\ \A h \in L2 : h # n => h \in L /\ h \notin given
  BY <1>5, <1>6
<1>9. Sound(heap2, re2, H2, L2, text2, list2)
  <2>1. Succeeds(heap, re, H, L, text, list, heap2, re2, H2, L2, text2, list2, n, given)
    BY <1>2, <1>6, <1>7, <1>8 DEF Succeeds
  <2> QED BY <2>1, TakesOver
<1> QED BY <1>9 DEF SoundIn, H2, L2, text2, list2

(* A new statement, behind the first k, in the place of the others. *)
LEMMA StatementTakesOver ==
  ASSUME NEW X, NEW Y, NEW conds \in Seq(X), NEW stats \in Seq(Y), NEW heap, NEW re,
         SoundIn(heap, re, conds, stats), ListsExist(heap, Holders(conds, stats), ListOf(conds, stats)),
         NEW X2, NEW conds2 \in Seq(X2), NEW given, Marked(conds2, conds, given),
         NEW Y2, NEW stats2 \in Seq(Y2), NEW k \in 0 .. Len(stats), Len(stats2) = k + 1,
         \A i \in 1 .. k : stats2[i] = stats[i],
         NEW heap2, NEW re2, re \subseteq re2, given \subseteq DOMAIN conds,
         HandedIn(heap, heap2, re2, conds, stats, given \union {- i : i \in k + 1 .. Len(stats)},
                  stats2[k + 1].text, stats2[k + 1].list)
  PROVE  SoundIn(heap2, re2, conds2, stats2)
<1> DEFINE H == Holders(conds, stats)
           L == Live(conds, stats)
           H2 == Holders(conds2, stats2)
           L2 == Live(conds2, stats2)
           text == TextOf(conds, stats)
           list == ListOf(conds, stats)
           text2 == TextOf(conds2, stats2)
           list2 == ListOf(conds2, stats2)
           m == k + 1
           n == - m
           G == given \union {- i : i \in m .. Len(stats)}
<1>1. /\ m \in DOMAIN stats2 /\ \A i \in DOMAIN stats2 : i # m => i \in DOMAIN stats /\ i \in 1 .. k
      /\ \A i \in 1 .. k : i \in DOMAIN stats2 /\ i \notin m .. Len(stats)
      /\ \A i \in m .. Len(stats) : i \in DOMAIN stats
      /\ \A i, j \in Nat : - i = - j => i = j
  <2>1. Len(stats) \in Nat /\ DOMAIN stats = 1 .. Len(stats) /\ DOMAIN stats2 = 1 .. Len(stats2)
    BY LenProperties
  <2> QED BY <2>1
<1>2. n \in H2 /\ text2[n] = stats2[m].text /\ list2[n] = stats2[m].list /\ m \in Nat
  <2> HIDE DEF m
  <2> QED BY <1>1, StatementHolds
<1> HIDE DEF m
<1>3. ASSUME NEW c \in DOMAIN conds
      PROVE  /\ c \in H2 /\ c \in H /\ text2[c] = text[c] /\ list2[c] = list[c]
             /\ c \in L2 => c \in L /\ c \notin G
  <2>1. /\ c \in H /\ text[c] = conds[c].text /\ list[c] = conds[c].list
        /\ c \in L <=> ~ conds[c].used
        /\ c \in Nat /\ c > 0
    BY ConditionHolds
  <2>2. c \in DOMAIN conds2
    BY DEF Marked
  <2>3. /\ c \in H2 /\ text2[c] = conds2[c].text /\ list2[c] = conds2[c].list
        /\ c \in L2 <=> ~ conds2[c].used
    BY <2>2, ConditionHolds
  <2>4. /\ conds2[c].text = conds[c].text /\ conds2[c].list = conds[c].list
        /\ conds2[c].used <=> conds[c].used \/ c \in given
    BY DEF Marked
  <2>5. \A i \in m .. Len(stats) : c # - i
    <3>1. \A i \in m .. Len(stats) : - i < 0
      BY <1>1, StatementHolds
    <3> QED BY <3>1, <2>1
  <2> QED BY <2>1, <2>3, <2>4, <2>5
<1>4. ASSUME NEW i \in DOMAIN stats2, i # m
      PROVE  /\ - i \in H2 /\ - i \in H /\ text2[- i] = text[- i] /\ list2[- i] = list[- i]
             /\ - i \in L /\ - i \notin G
  <2>1. i \in DOMAIN stats /\ i \in 1 .. k
    BY <1>1, <1>4
  <2>2. /\ - i \in H /\ text[- i] = stats[i].text /\ list[- i] = stats[i].list
        /\ - i \in L /\ - i < 0 /\ i \in Nat
    BY <2>1, StatementHolds
  <2>3. - i \in H2 /\ text2[- i] = stats2[i].text /\ list2[- i] = stats2[i].list
    BY StatementHolds
  <2>4. stats2[i] = stats[i]
    BY <2>1
  <2>5. - i \notin given
    BY <2>2, ConditionHolds
  <2>6. \A j \in m .. Len(stats) : - i # - j
    <3>1. \A j \in m .. Len(stats) : j \in Nat
      BY <1>1, StatementHolds
    <3> QED BY <3>1, <2>1, <2>2, <1>1
  <2> QED BY <2>2, <2>3, <2>4, <2>5, <2>6
<1>5. ASSUME NEW h \in H2, h # n
      PROVE  /\ h \in H /\ text2[h] = text[h] /\ list2[h] = list[h]
             /\ h \in L2 => h \in L /\ h \notin G
  <2>1. h \in DOMAIN conds2 \/ \E i \in DOMAIN stats2 : h = - i
    BY HolderIs
  <2>2. h \in DOMAIN conds2 => h \in DOMAIN conds
    BY DEF Marked
  <2> HIDE DEF H, L, H2, L2, text, list, text2, list2, G
  <2> QED BY <2>1, <2>2, <1>3, <1>4, <1>5
<1>6. L \subseteq H /\ L2 \subseteq H2
  BY DEF Live
<1>7. /\ Handed(heap, heap2, re2, H, L, text, list, G, text2[n], list2[n])
      /\ Sound(heap, re, H, L, text, list)
      /\ \A h \in H : list[h] # NoList => list[h] \in DOMAIN heap
  BY <1>2 DEF HandedIn, SoundIn, ListsExist, m
<1> HIDE DEF H, L, H2, L2, text, list, text2, list2, G, n
<1>8. /\ \A h \in H2 : h # n => h \in H /\ text2[h] = text[h] /\ list2[h] = list[h]
      /\ \A h \in L2 : h # n => h \in L /\ h \notin G
  BY <1>5, <1>6
<1>9. Sound(heap2, re2, H2, L2, text2, list2)
  <2>1. Succeeds(heap, re, H, L, text, list, heap2, re2, H2, L2, text2, list2, n, G)
    BY <1>2, <1>6, <1>7, <1>8 DEF Succeeds
  <2> QED BY <2>1, TakesOver
<1> QED BY <1>9 DEF SoundIn, H2, L2, text2, list2

(* The end of a scope: the statements are gone. *)
LEMMA StatementsEnd ==
  ASSUME NEW X, NEW Y, NEW conds \in Seq(X), NEW stats \in Seq(Y), NEW heap, NEW re,
         SoundIn(heap, re, conds, stats), NEW stats2 \in Seq(Y), \A i \in DOMAIN stats2 : FALSE
  PROVE  SoundIn(heap, re, conds, stats2)
<1> DEFINE H == Holders(conds, stats)
           L == Live(conds, stats)
           H2 == Holders(conds, stats2)
           L2 == Live(conds, stats2)
           text == TextOf(conds, stats)
           list == ListOf(conds, stats)
           text2 == TextOf(conds, stats2)
           list2 == ListOf(conds, stats2)
<1>2. ASSUME NEW h \in H2
      PROVE  h \in H /\ text2[h] = text[h] /\ list2[h] = list[h] /\ (h \in L2 => h \in L)
  <2>1. h \in DOMAIN conds
    BY DEF Holders
  <2>2. /\ h \in H /\ text[h] = conds[h].text /\ list[h] = conds[h].list
        /\ h \in L <=> ~ conds[h].used
    BY <2>1, ConditionHolds
  <2>3. /\ h \in Nat /\ h > 0 /\ h \in H2
        /\ h \in L2 <=> ~ conds[h].used
        /\ text2[h] = conds[h].text
        /\ list2[h] = conds[h].list
    BY <2>1, ConditionHolds
  <2> QED BY <2>2, <2>3
<1>3. L2 \subseteq H2 /\ Sound(heap, re, H, L, text, list)
  BY DEF Live, SoundIn
<1> HIDE DEF H, L, H2, L2, text, list, text2, list2
<1>4. Sound(heap, re, H2, L2, text2, list2)
  BY <1>2, <1>3 DEF Sound
<1> QED BY <1>4 DEF SoundIn, H2, L2, text2, list2

-----------------------------------------------------------------------------
(* The invariant *)

StatementKinds == {"delete", "join", "update", "final", "select", "finalSelect"}
ConditionsWith(k) == [text : Seq(Part), list : 0 .. k, means : SUBSET Valuations,
                      mixed : BOOLEAN, used : BOOLEAN]
StatementsWith(k) == [kind : StatementKinds, text : Seq(Part), list : 0 .. k]
Bindings == SUBSET [text : Seq(Part), bound : Seq(Parameter)]

(* The type invariant of Conditions, in these words. *)
LEMMA TypesAre ==
  ConditionTypeOK <=>
    /\ lists \in Seq(Parameters)
    /\ conditions \in Seq(ConditionsWith(Len(lists)))
    /\ statements \in Seq(StatementsWith(Len(lists)))
    /\ executed \in Seq(Bindings)
    /\ comparisons \in 0 .. MaxComparisons
    /\ reused \subseteq 1 .. comparisons
  BY DEF ConditionTypeOK, Text, ListId, NoList, Part, Parameter, Parameters, StatementKinds,
         ConditionsWith, StatementsWith, Bindings

(* SQLite reads the text of condition C as it was meant, if no operand of  *)
(* an AND in it is an OR.                                                  *)
Meant(C) == Shaped(C.text) /\ (~ C.mixed => Read(C.text) = C.means)

ConditionsAreMeant ==
  \A c \in DOMAIN conditions :
    Meant(conditions[c]) /\ Numbers(conditions[c].text) \subseteq 1 .. comparisons

StatementsAreNumbered ==
  \A i \in DOMAIN statements : Numbers(statements[i].text) \subseteq 1 .. comparisons

ListsAreSound == SoundIn(lists, reused, conditions, statements)

ConditionInvariant ==
  /\ ConditionTypeOK
  /\ ConditionsAreMeant
  /\ StatementsAreNumbered
  /\ ListsAreSound
  /\ ParametersMatchPlaceholders

-----------------------------------------------------------------------------
(* What is read and what is meant *)

(* A sequence of one element. *)
LEMMA SingleSeq ==
  ASSUME NEW S, NEW x \in S
  PROVE  /\ <<x>> \in Seq(S) /\ Len(<<x>>) = 1 /\ <<x>>[1] = x /\ <<x>> # <<>>
         /\ DOMAIN <<x>> = 1 .. 1
<1>1. <<x>> \in Seq(S) /\ Len(<<x>>) = 1 /\ <<x>>[1] = x
  OBVIOUS
<1>2. <<x>> # <<>> /\ DOMAIN <<x>> = 1 .. 1
  BY <1>1, EmptySeq, LenProperties
<1> QED BY <1>1, <1>2

(* A condition is one comparison. *)
LEMMA ComparisonIsMeant ==
  ASSUME comparisons \in Nat, NEW n \in Nat,
         NEW C, C.text = <<Comparison(n)>>, C.means = {S \in Valuations : comparisons + 1 \in S}
  PROVE  /\ Meant(C) /\ C.text \in Seq(Part) /\ C.means \subseteq Valuations
         /\ Numbers(C.text) = {comparisons + 1}
<1> DEFINE text == <<Comparison(n)>>
<1>1. /\ Comparison(n) \in Part /\ Comparison(n).op = ""
      /\ Comparison(n).number = comparisons + 1 /\ Comparison(n).arity = n
  <2>1. comparisons + 1 \in Nat /\ "" \in {"", "AND", "OR"}
    OBVIOUS
  <2>2. Comparison(n) = [op |-> "", number |-> comparisons + 1, arity |-> n]
    BY DEF Comparison
  <2>3. PICK op \in {"", "AND", "OR"}, k \in Nat : op = "" /\ k = comparisons + 1
    BY <2>1
  <2>4. PICK part : part = Comparison(n)
    OBVIOUS
  <2>5. part = [op |-> op, number |-> k, arity |-> n]
    BY <2>2, <2>3, <2>4
  <2>6. part.op = op /\ part.number = k /\ part.arity = n
    BY <2>5
  <2>7. part \in Part
    BY <2>5 DEF Part
  <2> QED BY <2>3, <2>4, <2>6, <2>7
<1>2. text \in Seq(Part) /\ Len(text) = 1 /\ text[1] = Comparison(n) /\ text # <<>> /\ DOMAIN text = 1 .. 1
  BY <1>1, SingleSeq
<1> HIDE DEF text
<1>3. OpAt(text, 1) = "" /\ NumberAt(text, 1) = comparisons + 1
  BY <1>1, <1>2 DEF OpAt, NumberAt
<1>4. Shaped(text)
  <2>1. \A i \in 2 .. Len(text) : FALSE
    BY <1>2
  <2> QED BY <2>1, <1>2, <1>3 DEF Shaped
<1>5. ~ AnyOr(text)
  <2>1. \A i \in DOMAIN text : i = 1
    BY <1>2
  <2> QED BY <2>1, <1>3 DEF AnyOr
<1>6. Numbers(text) = {comparisons + 1}
  <2>1. \A i \in DOMAIN text : text[i].number = comparisons + 1
    <3>1. \A i \in DOMAIN text : i = 1
      BY <1>2
    <3> QED BY <3>1, <1>1, <1>2
  <2>2. 1 \in DOMAIN text
    BY <1>2
  <2> QED BY <2>1, <2>2 DEF Numbers
<1>7. ASSUME NEW S PROVE Holds(text, S) <=> comparisons + 1 \in S
  <2>1. Holds(text, S) <=> \A i \in 1 .. Len(text) : NumberAt(text, i) \in S
    BY <1>2, <1>4, <1>5, HoldsWithoutOr
  <2>2. \A i \in 1 .. Len(text) : i = 1
    BY <1>2
  <2>3. 1 \in 1 .. Len(text)
    BY <1>2
  <2> QED BY <2>1, <2>2, <2>3, <1>3
<1>8. Read(text) = {S \in Valuations : comparisons + 1 \in S}
  BY <1>7 DEF Read
<1> QED BY <1>2, <1>4, <1>6, <1>8 DEF Meant, text

(* A condition is two, with AND or OR between them. *)
LEMMA ChainIsMeant ==
  ASSUME NEW op \in {"AND", "OR"}, NEW C, NEW D, NEW E, Meant(C), Meant(D),
         C.text \in Seq(Part), D.text \in Seq(Part), C.mixed \in BOOLEAN, D.mixed \in BOOLEAN,
         E.text = Chain(op, C.text, D.text),
         E.means = IF op = "AND" THEN C.means \intersect D.means ELSE C.means \union D.means,
         E.mixed = (\/ C.mixed \/ D.mixed
                    \/ op = "AND" /\ (AnyOr(C.text) \/ AnyOr(D.text)))
  PROVE  Meant(E)
<1> DEFINE s == C.text
           t == D.text
           u == E.text
<1>1. /\ s \in Seq(Part) /\ t \in Seq(Part) /\ Shaped(s) /\ Shaped(t) /\ u = Chain(op, s, t)
      /\ ~ C.mixed => Read(s) = C.means
      /\ ~ D.mixed => Read(t) = D.means
  BY DEF Meant
<1>2. Shaped(u)
  <2> HIDE DEF s, t, u
  <2> QED BY <1>1, ChainShape
<1>3. ASSUME ~ E.mixed PROVE Read(u) = E.means
  <2>1. ~ C.mixed /\ ~ D.mixed /\ (op = "AND" => ~ AnyOr(s) /\ ~ AnyOr(t))
    BY <1>3
  <2>2. Read(s) = C.means /\ Read(t) = D.means
    BY <1>1, <2>1
  <2>3. CASE op = "AND"
    <3>1. E.means = Read(s) \intersect Read(t)
      BY <2>2, <2>3
    <3> HIDE DEF s, t, u
    <3>2. \A S : Holds(u, S) <=> Holds(s, S) /\ Holds(t, S)
      BY <1>1, <2>1, <2>3, HoldsAnd
    <3> QED BY <3>1, <3>2 DEF Read
  <2>4. CASE op = "OR"
    <3>1. E.means = Read(s) \union Read(t)
      BY <2>2, <2>4
    <3> HIDE DEF s, t, u
    <3>2. \A S : Holds(u, S) <=> Holds(s, S) \/ Holds(t, S)
      BY <1>1, <2>4, HoldsOr
    <3> QED BY <3>1, <3>2 DEF Read
  <2> QED BY <2>3, <2>4
<1> QED BY <1>2, <1>3 DEF Meant

(* The values of a comparison are its placeholders, all of them its own. *)
LEMMA ComparisonValues ==
  ASSUME comparisons \in Nat, NEW n \in Nat
  PROVE  /\ Placeholders(<<Comparison(n)>>) = Values(Comparison(n))
         /\ Values(Comparison(n)) \in Seq(Parameter)
         /\ n = 0 => Values(Comparison(n)) = <<>>
         /\ n # 0 => /\ Values(Comparison(n)) \in Parameters
                     /\ Values(Comparison(n))[1][1] = comparisons + 1
<1> DEFINE v == Values(Comparison(n))
           text == <<Comparison(n)>>
           k == comparisons + 1
<1>1. v = [i \in 1 .. n |-> <<k, i>>] /\ k \in Nat
  BY DEF Values, Comparison
<1> HIDE DEF v, k
<1>2. v \in Seq(Parameter) /\ Len(v) = n
  <2>1. \A i \in 1 .. n : <<k, i>> \in Parameter
    BY <1>1 DEF Parameter
  <2> QED BY <1>1, <2>1
<1>3. n = 0 => v = <<>>
  BY <1>2, EmptySeq
<1>4. ASSUME n # 0 PROVE v \in Parameters /\ v[1][1] = k
  <2>1. 1 \in 1 .. n
    BY <1>4
  <2>2. v # <<>>
    BY <1>2, <1>4, EmptySeq
  <2> QED BY <1>1, <1>2, <2>1, <2>2 DEF Parameters
<1>5. Placeholders(text) = v
  <2>1. text \in Seq(Part) /\ Len(text) = 1 /\ text[1] = Comparison(n) /\ DOMAIN text = 1 .. 1
    <3>1. PICK C : C.text = <<Comparison(n)>> /\ C.means = {S \in Valuations : comparisons + 1 \in S}
      <4> DEFINE C == [text |-> <<Comparison(n)>>, means |-> {S \in Valuations : comparisons + 1 \in S}]
      <4>1. C.text = <<Comparison(n)>> /\ C.means = {S \in Valuations : comparisons + 1 \in S}
        OBVIOUS
      <4> QED BY <4>1
    <3>2. text \in Seq(Part)
      BY <3>1, ComparisonIsMeant
    <3> QED BY <3>2, SingleSeq
  <2> HIDE DEF text
  <2>2. /\ ValuesOf(text) \in Seq(Seq(Parameter)) /\ Len(ValuesOf(text)) = Len(text)
        /\ \A i \in 1 .. Len(text) : ValuesOf(text)[i] = Values(text[i])
        /\ Placeholders(text) = FlattenSeq(ValuesOf(text))
    BY <2>1, ValuesAre
  <2>3. ValuesOf(text) = Append(<<>>, v)
    <3>1. PICK T : T = Seq(Parameter)
      OBVIOUS
    <3>2. <<>> \in Seq(T) /\ v \in T /\ ValuesOf(text) \in Seq(T)
      BY <1>2, <2>2, <3>1
    <3>3. Append(<<>>, v) \in Seq(T) /\ Len(Append(<<>>, v)) = 1 /\ Append(<<>>, v)[1] = v
      BY <3>2
    <3>4. ValuesOf(text)[1] = v /\ Len(ValuesOf(text)) = 1
      BY <2>1, <2>2 DEF v
    <3> QED BY <3>2, <3>3, <3>4, SeqEqual
  <2>4. FlattenSeq(Append(<<>>, v)) = FlattenSeq(<<>>) \o v
    <3>1. PICK e \in Seq(Seq(Parameter)) : e = <<>>
      <4>1. <<>> \in Seq(Seq(Parameter))
        BY EmptySeq, Zenon
      <4> QED BY <4>1
    <3>2. v \in Seq(Parameter)
      BY <1>2
    <3>3. FlattenSeq(Append(e, v)) = FlattenSeq(e) \o v
      BY <3>2, FlattenAppend
    <3> QED BY <3>1, <3>3, Zenon
  <2>5. FlattenSeq(<<>>) \o v = v
    BY <1>2 DEF FlattenSeq
  <2> QED BY <2>2, <2>3, <2>4, <2>5
<1> QED BY <1>2, <1>3, <1>4, <1>5 DEF v, k

-----------------------------------------------------------------------------
(* Steps *)

(* Types grow with the lists. *)
LEMMA TypesGrow ==
  ASSUME NEW k \in Nat, NEW m \in Nat, k <= m
  PROVE  /\ ConditionsWith(k) \subseteq ConditionsWith(m)
         /\ StatementsWith(k) \subseteq StatementsWith(m)
<1>1. 0 .. k \subseteq 0 .. m
  OBVIOUS
<1> QED BY <1>1 DEF ConditionsWith, StatementsWith

(* Used marks. *)
LEMMA UsedMarks ==
  ASSUME NEW k \in Nat, conditions \in Seq(ConditionsWith(k)), NEW given
  PROVE  /\ Used(given) \in Seq(ConditionsWith(k)) /\ Len(Used(given)) = Len(conditions)
         /\ DOMAIN Used(given) = DOMAIN conditions
         /\ Marked(Used(given), conditions, given)
         /\ \A c \in DOMAIN conditions : /\ Used(given)[c].text = conditions[c].text
                                         /\ Used(given)[c].means = conditions[c].means
                                         /\ Used(given)[c].mixed = conditions[c].mixed
<1> DEFINE u == Used(given)
           n == Len(conditions)
<1>1. n \in Nat /\ DOMAIN conditions = 1 .. n
  BY LenProperties
<1>2. u = [c \in 1 .. n |-> IF c \in given THEN [conditions[c] EXCEPT !.used = TRUE] ELSE conditions[c]]
  BY <1>1 DEF Used
<1> HIDE DEF u, n
<1>3. ASSUME NEW c \in 1 .. n
      PROVE  /\ u[c] \in ConditionsWith(k)
             /\ u[c].text = conditions[c].text /\ u[c].list = conditions[c].list
             /\ u[c].means = conditions[c].means /\ u[c].mixed = conditions[c].mixed
             /\ u[c].used <=> conditions[c].used \/ c \in given
  <2>1. conditions[c] \in ConditionsWith(k)
    BY <1>1, LenProperties
  <2>2. u[c] = IF c \in given THEN [conditions[c] EXCEPT !.used = TRUE] ELSE conditions[c]
    BY <1>2
  <2>3. CASE c \in given
    BY <2>1, <2>2, <2>3 DEF ConditionsWith
  <2>4. CASE c \notin given
    BY <2>1, <2>2, <2>4 DEF ConditionsWith
  <2> QED BY <2>3, <2>4
<1>4. u \in Seq(ConditionsWith(k)) /\ Len(u) = n /\ DOMAIN u = 1 .. n
  <2>1. DOMAIN u = 1 .. n
    BY <1>2
  <2>2. \A c \in 1 .. n : u[c] \in ConditionsWith(k)
    BY <1>3
  <2>3. u = [c \in 1 .. n |-> u[c]]
    BY <1>2
  <2> HIDE DEF ConditionsWith
  <2>4. [c \in 1 .. n |-> u[c]] \in Seq(ConditionsWith(k))
    BY <1>1, <2>2, IsASeq
  <2>5. u \in Seq(ConditionsWith(k))
    BY <2>3, <2>4
  <2> QED BY <2>1, <2>5, <1>1, LenProperties
<1>5. Marked(u, conditions, given)
  BY <1>1, <1>3, <1>4 DEF Marked
<1> QED BY <1>1, <1>3, <1>4, <1>5 DEF u, n

(* Parameters match in what was executed, however often conditions are     *)
(* used from then on.                                                      *)
LEMMA ExecutedStays ==
  ASSUME ParametersMatchPlaceholders, executed' = executed, reused \subseteq reused'
  PROVE  ParametersMatchPlaceholders'
<1>1. ASSUME NEW s \in UNION Range(executed), Numbers(s.text) \intersect reused' = {}
      PROVE  s.bound = Placeholders(s.text)
  <2>1. Numbers(s.text) \intersect reused = {}
    BY <1>1
  <2> QED BY <2>1 DEF ParametersMatchPlaceholders
<1> QED BY <1>1 DEF ParametersMatchPlaceholders

(* The lists of the holders exist. *)
LEMMA HoldersHaveLists ==
  ASSUME ConditionTypeOK
  PROVE  ListsExist(lists, Holders(conditions, statements), ListOf(conditions, statements))
<1> DEFINE k == Len(lists)
           H == Holders(conditions, statements)
           list == ListOf(conditions, statements)
<1>1. /\ conditions \in Seq(ConditionsWith(k)) /\ statements \in Seq(StatementsWith(k))
      /\ k \in Nat /\ DOMAIN lists = 1 .. k
  BY TypesAre, LenProperties
<1> HIDE DEF k
<1>2. ASSUME NEW h \in H PROVE list[h] \in 0 .. k
  <2>1. CASE h \in DOMAIN conditions
    <3>1. conditions[h] \in ConditionsWith(k)
      BY <1>1, <2>1, LenProperties
    <3>2. list[h] = conditions[h].list
      BY <1>1, <2>1, ConditionHolds
    <3> QED BY <3>1, <3>2 DEF ConditionsWith
  <2>2. CASE \E i \in DOMAIN statements : h = - i
    <3>1. PICK i \in DOMAIN statements : h = - i
      BY <2>2
    <3>2. statements[i] \in StatementsWith(k)
      BY <1>1, <3>1, LenProperties
    <3>3. list[h] = statements[i].list
      BY <1>1, <3>1, StatementHolds
    <3> QED BY <3>2, <3>3 DEF StatementsWith
  <2> QED BY <1>1, <2>1, <2>2, HolderIs
<1> HIDE DEF H, list
<1>3. \A h \in H : list[h] # NoList => list[h] \in DOMAIN lists
  BY <1>1, <1>2 DEF NoList
<1> QED BY <1>3 DEF ListsExist, H, list

(* A step that adds a condition, made of given ones. *)
LEMMA AddsCondition ==
  ASSUME ConditionInvariant, NEW given, given \subseteq DOMAIN conditions, NEW C,
         conditions' = Append(Used(given), C),
         lists' \in Seq(Parameters), Len(lists) <= Len(lists'),
         C \in ConditionsWith(Len(lists')), Meant(C), Numbers(C.text) \subseteq 1 .. comparisons',
         comparisons' \in 0 .. MaxComparisons, comparisons <= comparisons',
         reused \subseteq reused', reused' \subseteq 1 .. comparisons',
         statements' = statements, executed' = executed,
         HandedIn(lists, lists', reused', conditions, statements, given, C.text, C.list)
  PROVE  ConditionInvariant'
<1> DEFINE k == Len(lists)
           m == Len(lists')
           n == Len(conditions)
<1>1. /\ conditions \in Seq(ConditionsWith(k)) /\ statements \in Seq(StatementsWith(k))
      /\ lists \in Seq(Parameters) /\ executed \in Seq(Bindings)
      /\ comparisons \in 0 .. MaxComparisons /\ ConditionTypeOK
  BY TypesAre DEF ConditionInvariant
<1>2. k \in Nat /\ m \in Nat /\ k <= m /\ n \in Nat /\ DOMAIN conditions = 1 .. n
  BY <1>1, LenProperties
<1>3. /\ ConditionsWith(k) \subseteq ConditionsWith(m)
      /\ StatementsWith(k) \subseteq StatementsWith(m)
  BY <1>2, TypesGrow
<1> HIDE DEF k, m, n
<1>4. /\ Used(given) \in Seq(ConditionsWith(k)) /\ Len(Used(given)) = n
      /\ DOMAIN Used(given) = 1 .. n
      /\ Marked(Used(given), conditions, given)
      /\ \A c \in 1 .. n : /\ Used(given)[c].text = conditions[c].text
                           /\ Used(given)[c].means = conditions[c].means
                           /\ Used(given)[c].mixed = conditions[c].mixed
  BY <1>1, <1>2, UsedMarks DEF n
<1>5. Used(given) \in Seq(ConditionsWith(m)) /\ C \in ConditionsWith(m)
  <2>1. Used(given) \in Seq(ConditionsWith(m))
    BY <1>3, <1>4, SeqMonotonic
  <2> QED BY <2>1 DEF m
<1>6. /\ conditions' \in Seq(ConditionsWith(m)) /\ Len(conditions') = n + 1
      /\ \A c \in 1 .. n : conditions'[c] = Used(given)[c]
      /\ conditions'[n + 1] = C
  BY <1>4, <1>5, AppendProperties
<1>7. ConditionTypeOK'
  <2>1. statements' \in Seq(StatementsWith(m))
    <3>1. statements \in Seq(StatementsWith(m))
      BY <1>1, <1>3, SeqMonotonic
    <3> QED BY <3>1
  <2>2. /\ lists' \in Seq(Parameters) /\ conditions' \in Seq(ConditionsWith(Len(lists')))
        /\ statements' \in Seq(StatementsWith(Len(lists'))) /\ executed' \in Seq(Bindings)
        /\ comparisons' \in 0 .. MaxComparisons /\ reused' \subseteq 1 .. comparisons'
    BY <1>1, <1>6, <2>1 DEF m
  <2> QED BY <2>2 DEF ConditionTypeOK, Text, ListId, NoList, Part, Parameter, Parameters, StatementKinds,
                      ConditionsWith, StatementsWith, Bindings
<1>8. 1 .. comparisons \subseteq 1 .. comparisons'
  BY <1>1
<1>9. ConditionsAreMeant'
  <2>1. DOMAIN conditions' = 1 .. n + 1
    BY <1>6, LenProperties
  <2>2. ASSUME NEW c \in 1 .. n
        PROVE  Meant(conditions'[c]) /\ Numbers(conditions'[c].text) \subseteq 1 .. comparisons'
    <3>1. Meant(conditions[c]) /\ Numbers(conditions[c].text) \subseteq 1 .. comparisons
      BY <1>2 DEF ConditionInvariant, ConditionsAreMeant
    <3>2. conditions'[c] = Used(given)[c]
      BY <1>6
    <3>3. Meant(Used(given)[c])
      BY <3>1, <1>4 DEF Meant
    <3>4. Numbers(Used(given)[c].text) \subseteq 1 .. comparisons'
      BY <3>1, <1>4, <1>8
    <3> QED BY <3>2, <3>3, <3>4
  <2>3. \A c \in 1 .. n + 1 : c \in 1 .. n \/ c = n + 1
    BY <1>2
  <2>4. \A c \in DOMAIN conditions' :
          Meant(conditions'[c]) /\ Numbers(conditions'[c].text) \subseteq 1 .. comparisons'
    BY <2>1, <2>2, <2>3, <1>6
  <2> QED BY <2>4 DEF ConditionsAreMeant
<1>10. StatementsAreNumbered'
  <2>1. \A i \in DOMAIN statements : Numbers(statements[i].text) \subseteq 1 .. comparisons'
    BY <1>8 DEF ConditionInvariant, StatementsAreNumbered
  <2> QED BY <2>1 DEF StatementsAreNumbered
<1>11. ListsAreSound'
  <2>1. SoundIn(lists, reused, conditions, statements)
    BY DEF ConditionInvariant, ListsAreSound
  <2>2. ListsExist(lists, Holders(conditions, statements), ListOf(conditions, statements))
    BY <1>1, HoldersHaveLists
  <2>3. HandedIn(lists, lists', reused', conditions, statements, given,
                 conditions'[n + 1].text, conditions'[n + 1].list)
    BY <1>6
  <2>4. \A c \in DOMAIN conditions : conditions'[c] = Used(given)[c]
    BY <1>2, <1>6
  <2>5. SoundIn(lists', reused', conditions', statements)
    BY <1>1, <1>4, <1>6, <2>1, <2>2, <2>3, <2>4, ConditionTakesOver DEF n
  <2> QED BY <2>5 DEF ListsAreSound
<1>12. ParametersMatchPlaceholders'
  BY ExecutedStays DEF ConditionInvariant
<1> QED BY <1>7, <1>9, <1>10, <1>11, <1>12 DEF ConditionInvariant

(* A step that adds a statement, behind the first j, made of the others    *)
(* and of given conditions.                                                *)
LEMMA AddsStatement ==
  ASSUME ConditionInvariant, NEW given, given \subseteq DOMAIN conditions,
         NEW j \in 0 .. Len(statements), NEW s,
         conditions' = Used(given), statements' = Append(SubSeq(statements, 1, j), s),
         lists' \in Seq(Parameters), Len(lists) <= Len(lists'),
         s \in StatementsWith(Len(lists')), Numbers(s.text) \subseteq 1 .. comparisons',
         comparisons' \in 0 .. MaxComparisons, comparisons <= comparisons',
         reused \subseteq reused', reused' \subseteq 1 .. comparisons', executed' = executed,
         HandedIn(lists, lists', reused', conditions, statements,
                  given \union {- i : i \in j + 1 .. Len(statements)}, s.text, s.list)
  PROVE  ConditionInvariant'
<1> DEFINE k == Len(lists)
           m == Len(lists')
           n == Len(statements)
<1>1. /\ conditions \in Seq(ConditionsWith(k)) /\ statements \in Seq(StatementsWith(k))
      /\ lists \in Seq(Parameters) /\ executed \in Seq(Bindings)
      /\ comparisons \in 0 .. MaxComparisons /\ ConditionTypeOK
  BY TypesAre DEF ConditionInvariant
<1>2. k \in Nat /\ m \in Nat /\ k <= m /\ n \in Nat /\ DOMAIN statements = 1 .. n /\ j \in 0 .. n
  BY <1>1, LenProperties
<1>3. /\ ConditionsWith(k) \subseteq ConditionsWith(m)
      /\ StatementsWith(k) \subseteq StatementsWith(m)
  BY <1>2, TypesGrow
<1> HIDE DEF k, m, n
<1>4. /\ Used(given) \in Seq(ConditionsWith(k))
      /\ DOMAIN Used(given) = DOMAIN conditions
      /\ Marked(Used(given), conditions, given)
      /\ \A c \in DOMAIN conditions : /\ Used(given)[c].text = conditions[c].text
                                      /\ Used(given)[c].means = conditions[c].means
                                      /\ Used(given)[c].mixed = conditions[c].mixed
  BY <1>1, <1>2, UsedMarks
<1>5. conditions' \in Seq(ConditionsWith(m)) /\ s \in StatementsWith(m)
  <2>1. Used(given) \in Seq(ConditionsWith(m))
    BY <1>3, <1>4, SeqMonotonic
  <2> QED BY <2>1 DEF m
<1>6. /\ statements' \in Seq(StatementsWith(m)) /\ Len(statements') = j + 1
      /\ \A i \in 1 .. j : statements'[i] = statements[i]
      /\ statements'[j + 1] = s
  <2> DEFINE front == SubSeq(statements, 1, j)
  <2>1. front \in Seq(StatementsWith(m)) /\ Len(front) = j /\ \A i \in 1 .. j : front[i] = statements[i]
    <3>1. \A i \in 1 .. j : statements[i] \in StatementsWith(m)
      <4>1. \A i \in 1 .. j : i \in 1 .. n
        BY <1>2
      <4>2. \A i \in 1 .. n : statements[i] \in StatementsWith(k)
        BY <1>1, <1>2, LenProperties
      <4> QED BY <4>1, <4>2, <1>3
    <3> QED BY <3>1, <1>2, SubSeqProperties
  <2> HIDE DEF front
  <2>2. statements' = Append(front, s)
    BY DEF front
  <2> QED BY <2>1, <2>2, <1>5, AppendProperties
<1>7. ConditionTypeOK'
  <2>1. /\ lists' \in Seq(Parameters) /\ conditions' \in Seq(ConditionsWith(Len(lists')))
        /\ statements' \in Seq(StatementsWith(Len(lists'))) /\ executed' \in Seq(Bindings)
        /\ comparisons' \in 0 .. MaxComparisons /\ reused' \subseteq 1 .. comparisons'
    BY <1>1, <1>5, <1>6 DEF m
  <2> QED BY <2>1 DEF ConditionTypeOK, Text, ListId, NoList, Part, Parameter, Parameters, StatementKinds,
                      ConditionsWith, StatementsWith, Bindings
<1>8. 1 .. comparisons \subseteq 1 .. comparisons'
  BY <1>1
<1>9. ConditionsAreMeant'
  <2>1. ASSUME NEW c \in DOMAIN conditions
        PROVE  /\ Meant(Used(given)[c])
               /\ Numbers(Used(given)[c].text) \subseteq 1 .. comparisons'
    <3>1. Meant(conditions[c]) /\ Numbers(conditions[c].text) \subseteq 1 .. comparisons
      BY DEF ConditionInvariant, ConditionsAreMeant
    <3>2. Meant(Used(given)[c])
      BY <3>1, <1>4 DEF Meant
    <3> QED BY <3>1, <3>2, <1>4, <1>8
  <2> QED BY <2>1, <1>4 DEF ConditionsAreMeant
<1>10. StatementsAreNumbered'
  <2>1. DOMAIN statements' = 1 .. j + 1
    BY <1>6, LenProperties
  <2>2. ASSUME NEW i \in 1 .. j
        PROVE  Numbers(statements'[i].text) \subseteq 1 .. comparisons'
    <3>1. i \in DOMAIN statements
      BY <1>2
    <3>2. Numbers(statements[i].text) \subseteq 1 .. comparisons
      BY <3>1 DEF ConditionInvariant, StatementsAreNumbered
    <3> QED BY <3>2, <1>6, <1>8
  <2>3. \A i \in 1 .. j + 1 : i \in 1 .. j \/ i = j + 1
    BY <1>2
  <2>4. \A i \in DOMAIN statements' : Numbers(statements'[i].text) \subseteq 1 .. comparisons'
    BY <2>1, <2>2, <2>3, <1>6
  <2> QED BY <2>4 DEF StatementsAreNumbered
<1>11. ListsAreSound'
  <2>1. SoundIn(lists, reused, conditions, statements)
    BY DEF ConditionInvariant, ListsAreSound
  <2>2. ListsExist(lists, Holders(conditions, statements), ListOf(conditions, statements))
    BY <1>1, HoldersHaveLists
  <2>3. HandedIn(lists, lists', reused', conditions, statements,
                 given \union {- i : i \in j + 1 .. Len(statements)},
                 statements'[j + 1].text, statements'[j + 1].list)
    BY <1>6
  <2>4. Marked(conditions', conditions, given)
    BY <1>4
  <2>5. SoundIn(lists', reused', conditions', statements')
    BY <1>1, <1>5, <1>6, <2>1, <2>2, <2>3, <2>4, StatementTakesOver
  <2> QED BY <2>5 DEF ListsAreSound
<1>12. ParametersMatchPlaceholders'
  BY ExecutedStays DEF ConditionInvariant
<1> QED BY <1>7, <1>9, <1>10, <1>11, <1>12 DEF ConditionInvariant

-----------------------------------------------------------------------------
(* How lists are handed on *)

(* One holder hands its list on as it is. *)
LEMMA OneHands ==
  ASSUME NEW heap, NEW re, NEW H, NEW L, NEW text, NEW list, Sound(heap, re, H, L, text, list),
         NEW re2, re \subseteq re2, NEW g \in H, NEW newText, newText = text[g],
         NEW newList, newList = list[g],
         g \notin L => Numbers(text[g]) \subseteq re2 /\ Numbers(text[g]) # {}
  PROVE  Handed(heap, heap, re2, H, L, text, list, {g}, newText, newList)
<1>1. newList # NoList => Origin(heap, newList) \in Numbers(newText)
  BY DEF Sound
<1>2. ASSUME Numbers(newText) \intersect re2 = {} PROVE Content(heap, newList) = Placeholders(newText)
  <2>1. g \in L /\ Numbers(text[g]) \intersect re = {}
    BY <1>2
  <2> QED BY <2>1 DEF Sound
<1> QED BY <1>1, <1>2 DEF Handed

(* Two holders hand theirs on as one. *)
LEMMA TwoHand ==
  ASSUME NEW heap, NEW re, NEW H, NEW L, NEW text, NEW list, Sound(heap, re, H, L, text, list),
         DOMAIN heap = 1 .. Len(heap), NEW heap2, NEW re2, re \subseteq re2,
         NEW g \in H, NEW h \in H, NEW newText, NEW newList,
         Joined(heap2, newList, heap, list[g], list[h]),
         Numbers(newText) = Numbers(text[g]) \union Numbers(text[h]),
         Placeholders(newText) = Placeholders(text[g]) \o Placeholders(text[h]),
         g \notin L => Numbers(text[g]) \subseteq re2 /\ Numbers(text[g]) # {},
         h \notin L => Numbers(text[h]) \subseteq re2 /\ Numbers(text[h]) # {}
  PROVE  Handed(heap, heap2, re2, H, L, text, list, {g, h}, newText, newList)
<1>1. /\ newList \in 0 .. Len(heap) /\ (newList = list[g] \/ newList = list[h])
      /\ Content(heap2, newList) = Content(heap, list[g]) \o Content(heap, list[h])
      /\ \A k \in 1 .. Len(heap) : k # newList => heap2[k] = heap[k]
      /\ \A k \in 1 .. Len(heap) : Origin(heap2, k) = Origin(heap, k)
  BY DEF Joined
<1>2. ASSUME newList # NoList PROVE Origin(heap2, newList) \in Numbers(newText)
  <2>1. newList \in 1 .. Len(heap)
    BY <1>1, <1>2 DEF NoList
  <2>2. Origin(heap2, newList) = Origin(heap, newList)
    BY <1>1, <2>1
  <2>3. Origin(heap, newList) \in Numbers(text[g]) \/ Origin(heap, newList) \in Numbers(text[h])
    BY <1>1, <1>2 DEF Sound
  <2> QED BY <2>2, <2>3
<1>3. ASSUME Numbers(newText) \intersect re2 = {}
      PROVE  Content(heap2, newList) = Placeholders(newText)
  <2>1. /\ g \in L /\ Numbers(text[g]) \intersect re = {}
        /\ h \in L /\ Numbers(text[h]) \intersect re = {}
    BY <1>3
  <2>2. /\ Content(heap, list[g]) = Placeholders(text[g])
        /\ Content(heap, list[h]) = Placeholders(text[h])
    BY <2>1 DEF Sound
  <2> QED BY <2>2, <1>1
<1>4. newList # NoList => \E x \in {g, h} : list[x] = newList
  BY <1>1
<1> QED BY <1>1, <1>2, <1>3, <1>4 DEF Handed

(* The text of a condition has comparisons. *)
LEMMA ShapedNumbers ==
  ASSUME NEW text \in Seq(Part), Shaped(text)
  PROVE  Numbers(text) # {}
<1>1. 1 \in DOMAIN text
  BY ShapedText
<1> QED BY <1>1 DEF Numbers

(* What is used again is in reused. *)
LEMMA ReuseIs ==
  ASSUME ConditionInvariant, NEW Again, Again \subseteq DOMAIN conditions, Reuse(Again)
  PROVE  /\ reused \subseteq reused' /\ reused' \subseteq 1 .. comparisons
         /\ \A c \in Again : Numbers(conditions[c].text) \subseteq reused'
<1>1. reused' = reused \union UNION {Numbers(conditions[c].text) : c \in Again}
  BY DEF Reuse
<1>2. reused \subseteq 1 .. comparisons
  BY TypesAre DEF ConditionInvariant
<1>3. \A c \in Again : Numbers(conditions[c].text) \subseteq 1 .. comparisons
  BY DEF ConditionInvariant, ConditionsAreMeant
<1> QED BY <1>1, <1>2, <1>3

(* A condition: its text, its list, and that it is live or written twice   *)
(* when it is used.                                                        *)
LEMMA ConditionIs ==
  ASSUME ConditionInvariant, NEW c \in DOMAIN conditions
  PROVE  /\ conditions[c] \in ConditionsWith(Len(lists)) /\ conditions[c].text \in Seq(Part)
         /\ conditions[c].list \in 0 .. Len(lists) /\ conditions[c].means \in SUBSET Valuations
         /\ conditions[c].mixed \in BOOLEAN
         /\ Meant(conditions[c]) /\ Numbers(conditions[c].text) \subseteq 1 .. comparisons
         /\ Numbers(conditions[c].text) # {}
         /\ c \in Holders(conditions, statements)
         /\ c \in Live(conditions, statements) <=> ~ conditions[c].used
         /\ TextOf(conditions, statements)[c] = conditions[c].text
         /\ ListOf(conditions, statements)[c] = conditions[c].list
<1>1. /\ conditions \in Seq(ConditionsWith(Len(lists))) /\ statements \in Seq(StatementsWith(Len(lists)))
  BY TypesAre DEF ConditionInvariant
<1>2. conditions[c] \in ConditionsWith(Len(lists))
  BY <1>1, LenProperties
<1>3. Meant(conditions[c]) /\ Numbers(conditions[c].text) \subseteq 1 .. comparisons
  BY DEF ConditionInvariant, ConditionsAreMeant
<1>4. /\ conditions[c].text \in Seq(Part) /\ conditions[c].list \in 0 .. Len(lists)
      /\ conditions[c].means \in SUBSET Valuations /\ conditions[c].mixed \in BOOLEAN
  BY <1>2 DEF ConditionsWith
<1>5. Numbers(conditions[c].text) # {}
  <2>1. Shaped(conditions[c].text)
    BY <1>3 DEF Meant
  <2> QED BY <2>1, <1>4, ShapedNumbers
<1>6. /\ c \in Holders(conditions, statements)
      /\ c \in Live(conditions, statements) <=> ~ conditions[c].used
      /\ TextOf(conditions, statements)[c] = conditions[c].text
      /\ ListOf(conditions, statements)[c] = conditions[c].list
  BY <1>1, ConditionHolds
<1> QED BY <1>2, <1>3, <1>4, <1>5, <1>6

(* A statement. *)
LEMMA StatementIs ==
  ASSUME ConditionInvariant, NEW i \in DOMAIN statements
  PROVE  /\ statements[i] \in StatementsWith(Len(lists)) /\ statements[i].text \in Seq(Part)
         /\ statements[i].kind \in StatementKinds /\ statements[i].list \in 0 .. Len(lists)
         /\ Numbers(statements[i].text) \subseteq 1 .. comparisons
         /\ - i \in Holders(conditions, statements) /\ - i \in Live(conditions, statements)
         /\ TextOf(conditions, statements)[- i] = statements[i].text
         /\ ListOf(conditions, statements)[- i] = statements[i].list
<1>1. /\ conditions \in Seq(ConditionsWith(Len(lists))) /\ statements \in Seq(StatementsWith(Len(lists)))
  BY TypesAre DEF ConditionInvariant
<1>2. statements[i] \in StatementsWith(Len(lists))
  BY <1>1, LenProperties
<1>3. Numbers(statements[i].text) \subseteq 1 .. comparisons
  BY DEF ConditionInvariant, StatementsAreNumbered
<1>4. /\ statements[i].text \in Seq(Part) /\ statements[i].kind \in StatementKinds
      /\ statements[i].list \in 0 .. Len(lists)
  BY <1>2 DEF StatementsWith
<1>5. /\ - i \in Holders(conditions, statements) /\ - i \in Live(conditions, statements)
      /\ TextOf(conditions, statements)[- i] = statements[i].text
      /\ ListOf(conditions, statements)[- i] = statements[i].list
  BY <1>1, StatementHolds
<1> QED BY <1>2, <1>3, <1>4, <1>5

-----------------------------------------------------------------------------
(* The actions *)

(* A new list, behind the others, or none for no parameters, is handed on  *)
(* by nobody.                                                              *)
LEMMA NewListIs ==
  ASSUME ConditionInvariant, NEW n \in Nat, NEW l, l = IF n = 0 THEN NoList ELSE Len(lists) + 1,
         lists' = IF n = 0 THEN lists ELSE Append(lists, Values(Comparison(n)))
  PROVE  /\ lists' \in Seq(Parameters) /\ Len(lists) <= Len(lists') /\ l \in 0 .. Len(lists')
         /\ HandedIn(lists, lists', reused', conditions, statements, {}, <<Comparison(n)>>, l)
<1> DEFINE k == Len(lists)
           v == Values(Comparison(n))
           text == <<Comparison(n)>>
<1>1. lists \in Seq(Parameters) /\ k \in Nat /\ DOMAIN lists = 1 .. k /\ comparisons \in Nat
  BY TypesAre, LenProperties DEF ConditionInvariant
<1>2. /\ Placeholders(text) = v
      /\ n = 0 => v = <<>>
      /\ n # 0 => v \in Parameters /\ v[1][1] = comparisons + 1
  BY <1>1, ComparisonValues
<1>3. Numbers(text) = {comparisons + 1}
  <2>1. PICK C : C.text = <<Comparison(n)>> /\ C.means = {S \in Valuations : comparisons + 1 \in S}
    <3> DEFINE C == [text |-> <<Comparison(n)>>, means |-> {S \in Valuations : comparisons + 1 \in S}]
    <3>1. C.text = <<Comparison(n)>> /\ C.means = {S \in Valuations : comparisons + 1 \in S}
      OBVIOUS
    <3> QED BY <3>1
  <2> QED BY <2>1, <1>1, ComparisonIsMeant
<1> HIDE DEF k, v, text
<1>4. CASE n = 0
  <2>1. lists' = lists /\ l = NoList /\ l \in 0 .. k
    BY <1>1, <1>4 DEF NoList
  <2>2. Content(lists, l) = Placeholders(text)
    BY <1>2, <1>4, <2>1 DEF Content
  <2>3. HandedIn(lists, lists', reused', conditions, statements, {}, text, l)
    BY <2>1, <2>2 DEF HandedIn, Handed
  <2>4. lists' \in Seq(Parameters) /\ Len(lists) <= Len(lists') /\ l \in 0 .. Len(lists')
    <3>1. lists' \in Seq(Parameters)
      BY <2>1, <1>1
    <3>2. Len(lists') = Len(lists)
      BY <2>1, Zenon
    <3>3. k <= k
      BY <1>1
    <3> QED BY <3>1, <3>2, <3>3, <2>1 DEF k
  <2> QED BY <2>3, <2>4 DEF text
<1>5. CASE n # 0
  <2>1. lists' = Append(lists, v) /\ l = k + 1
    BY <1>5 DEF k, v
  <2>2. /\ lists' \in Seq(Parameters) /\ Len(lists') = k + 1
        /\ \A i \in 1 .. k : lists'[i] = lists[i]
        /\ lists'[k + 1] = v
    <3>1. v \in Parameters
      BY <1>2, <1>5
    <3> QED BY <2>1, <3>1, <1>1, AppendProperties DEF k
  <2>3. Content(lists', l) = Placeholders(text) /\ Origin(lists', l) \in Numbers(text)
    <3>1. l # NoList
      BY <1>1, <2>1 DEF NoList
    <3> QED BY <3>1, <2>1, <2>2, <1>2, <1>3, <1>5 DEF Content, Origin
  <2>4. \A h \in Holders(conditions, statements) : ListOf(conditions, statements)[h] # l
    <3>1. l # NoList /\ l \notin DOMAIN lists
      BY <1>1, <2>1 DEF NoList
    <3>2. ListsExist(lists, Holders(conditions, statements), ListOf(conditions, statements))
      BY HoldersHaveLists DEF ConditionInvariant
    <3> QED BY <3>1, <3>2 DEF ListsExist
  <2>5. \A i \in DOMAIN lists : lists'[i] = lists[i] /\ Origin(lists', i) = Origin(lists, i)
    BY <1>1, <2>2 DEF Origin
  <2>6. HandedIn(lists, lists', reused', conditions, statements, {}, text, l)
    BY <2>3, <2>4, <2>5 DEF HandedIn, Handed
  <2>7. Len(lists) <= Len(lists') /\ l \in 0 .. Len(lists')
    BY <1>1, <2>1, <2>2 DEF k
  <2> QED BY <2>2, <2>6, <2>7 DEF text
<1> QED BY <1>4, <1>5

(* Nothing used, nothing marked. *)
LEMMA NothingIsUsed ==
  ASSUME ConditionInvariant
  PROVE  Used({}) = conditions
<1>1. conditions \in Seq(ConditionsWith(Len(lists)))
  BY TypesAre DEF ConditionInvariant
<1>2. conditions = [c \in DOMAIN conditions |-> conditions[c]]
  BY <1>1
<1> QED BY <1>2 DEF Used

(* The bounds of what is there. *)
LEMMA BoundsAre ==
  ASSUME ConditionInvariant
  PROVE  /\ lists \in Seq(Parameters) /\ Len(lists) \in Nat /\ DOMAIN lists = 1 .. Len(lists)
         /\ comparisons \in Nat /\ comparisons <= MaxComparisons /\ MaxComparisons \in Nat
         /\ comparisons \in 0 .. MaxComparisons
         /\ reused \subseteq 1 .. comparisons
         /\ Len(statements) \in Nat /\ DOMAIN statements = 1 .. Len(statements)
         /\ SubSeq(statements, 1, Len(statements)) = statements
<1>1. MaxComparisons \in Nat
  BY ConditionBounds
<1>2. /\ lists \in Seq(Parameters) /\ comparisons \in 0 .. MaxComparisons
      /\ reused \subseteq 1 .. comparisons /\ statements \in Seq(StatementsWith(Len(lists)))
  BY TypesAre DEF ConditionInvariant
<1>3. SubSeq(statements, 1, Len(statements)) = statements
  BY <1>2, SubSeqFull
<1>4. Len(statements) \in Nat /\ DOMAIN statements = 1 .. Len(statements)
  BY <1>2, LenProperties
<1>5. Len(lists) \in Nat /\ DOMAIN lists = 1 .. Len(lists)
  BY <1>2, LenProperties
<1> QED BY <1>1, <1>2, <1>3, <1>4, <1>5

(* A comparison. *)
LEMMA CompareKeeps ==
  ASSUME ConditionInvariant, NEW n \in Arity, Compare(n)
  PROVE  ConditionInvariant'
<1>1. n \in Nat
  BY ConditionBounds
<1>2. /\ comparisons \in Nat /\ comparisons < MaxComparisons /\ MaxComparisons \in Nat
      /\ reused \subseteq 1 .. comparisons
  BY BoundsAre DEF Compare
<1> DEFINE l == IF n = 0 THEN NoList ELSE Len(lists) + 1
           C == [text  |-> <<Comparison(n)>>, list |-> l,
                 means |-> {S \in Valuations : comparisons + 1 \in S},
                 mixed |-> FALSE, used |-> FALSE]
<1>3. /\ conditions' = Append(conditions, C) /\ comparisons' = comparisons + 1
      /\ lists' = IF n = 0 THEN lists ELSE Append(lists, Values(Comparison(n)))
      /\ statements' = statements /\ executed' = executed /\ reused' = reused
  BY DEF Compare
<1>4. conditions' = Append(Used({}), C)
  BY <1>3, NothingIsUsed
<1>5. /\ C.text = <<Comparison(n)>> /\ C.list = l
      /\ C.means = {S \in Valuations : comparisons + 1 \in S}
  OBVIOUS
<1>6. /\ Meant(C) /\ C.text \in Seq(Part) /\ C.means \subseteq Valuations
      /\ Numbers(C.text) = {comparisons + 1}
  <2> HIDE DEF C
  <2> QED BY <1>1, <1>2, <1>5, ComparisonIsMeant
<1>7. /\ lists' \in Seq(Parameters) /\ Len(lists) <= Len(lists') /\ l \in 0 .. Len(lists')
      /\ HandedIn(lists, lists', reused', conditions, statements, {}, <<Comparison(n)>>, l)
  <2> HIDE DEF l
  <2> QED BY <1>1, <1>3, NewListIs DEF l
<1>8. C \in ConditionsWith(Len(lists'))
  <2>1. /\ <<Comparison(n)>> \in Seq(Part)
        /\ {S \in Valuations : comparisons + 1 \in S} \in SUBSET Valuations
    BY <1>5, <1>6
  <2> HIDE DEF l
  <2> QED BY <2>1, <1>7 DEF ConditionsWith
<1> HIDE DEF C, l
<1>9. Numbers(C.text) \subseteq 1 .. comparisons'
  BY <1>2, <1>3, <1>6
<1>10. HandedIn(lists, lists', reused', conditions, statements, {}, C.text, C.list)
  BY <1>5, <1>7
<1>11. /\ comparisons' \in 0 .. MaxComparisons /\ comparisons <= comparisons'
       /\ reused \subseteq reused' /\ reused' \subseteq 1 .. comparisons'
  BY <1>2, <1>3
<1>12. {} \subseteq DOMAIN conditions
  OBVIOUS
<1> QED BY <1>3, <1>4, <1>6, <1>7, <1>8, <1>9, <1>10, <1>11, <1>12, AddsCondition

(* SET. *)
LEMMA WriteUpdateKeeps ==
  ASSUME ConditionInvariant, NEW n \in Arity, WriteUpdate(n)
  PROVE  ConditionInvariant'
<1>1. n \in Nat /\ n # 0
  BY ConditionBounds DEF WriteUpdate
<1>2. /\ comparisons \in Nat /\ comparisons < MaxComparisons /\ MaxComparisons \in Nat
      /\ reused \subseteq 1 .. comparisons
      /\ Len(statements) \in 0 .. Len(statements)
      /\ Len(statements) + 1 .. Len(statements) = {}
      /\ SubSeq(statements, 1, Len(statements)) = statements
  BY BoundsAre DEF WriteUpdate
<1> DEFINE l == Len(lists) + 1
           s == Statement("update", <<Comparison(n)>>, l)
<1>3. /\ statements' = Append(statements, s) /\ comparisons' = comparisons + 1
      /\ lists' = Append(lists, Values(Comparison(n)))
      /\ conditions' = conditions /\ executed' = executed /\ reused' = reused
  BY DEF WriteUpdate, AddStatement
<1>4. conditions' = Used({})
  BY <1>3, NothingIsUsed
<1>5. s.text = <<Comparison(n)>> /\ s.list = l
  BY DEF Statement
<1>6. <<Comparison(n)>> \in Seq(Part) /\ Numbers(<<Comparison(n)>>) = {comparisons + 1}
  <2>1. PICK C : C.text = <<Comparison(n)>> /\ C.means = {S \in Valuations : comparisons + 1 \in S}
    <3> DEFINE C == [text |-> <<Comparison(n)>>, means |-> {S \in Valuations : comparisons + 1 \in S}]
    <3>1. C.text = <<Comparison(n)>> /\ C.means = {S \in Valuations : comparisons + 1 \in S}
      OBVIOUS
    <3> QED BY <3>1
  <2>2. C.text \in Seq(Part) /\ Numbers(C.text) = {comparisons + 1}
    BY <2>1, <1>1, <1>2, ComparisonIsMeant
  <2> QED BY <2>1, <2>2
<1>7. /\ lists' \in Seq(Parameters) /\ Len(lists) <= Len(lists') /\ l \in 0 .. Len(lists')
      /\ HandedIn(lists, lists', reused', conditions, statements, {}, <<Comparison(n)>>, l)
  <2>1. /\ l = IF n = 0 THEN NoList ELSE Len(lists) + 1
        /\ lists' = IF n = 0 THEN lists ELSE Append(lists, Values(Comparison(n)))
    BY <1>1, <1>3
  <2> HIDE DEF l
  <2> QED BY <1>1, <2>1, NewListIs
<1>8. s \in StatementsWith(Len(lists'))
  <2> HIDE DEF l
  <2>1. "update" \in StatementKinds
    BY DEF StatementKinds
  <2> QED BY <2>1, <1>6, <1>7 DEF StatementsWith, Statement
<1> HIDE DEF s, l
<1>9. Numbers(s.text) \subseteq 1 .. comparisons'
  BY <1>2, <1>3, <1>5, <1>6
<1>10. HandedIn(lists, lists', reused', conditions, statements,
                {} \union {- i : i \in Len(statements) + 1 .. Len(statements)}, s.text, s.list)
  <2>1. {} \union {- i : i \in Len(statements) + 1 .. Len(statements)} = {}
    BY <1>2
  <2> QED BY <2>1, <1>5, <1>7
<1>11. /\ comparisons' \in 0 .. MaxComparisons /\ comparisons <= comparisons'
       /\ reused \subseteq reused' /\ reused' \subseteq 1 .. comparisons'
  BY <1>2, <1>3
<1>12. {} \subseteq DOMAIN conditions
  OBVIOUS
<1>13. statements' = Append(SubSeq(statements, 1, Len(statements)), s)
  BY <1>2, <1>3
<1> QED BY <1>2, <1>3, <1>4, <1>7, <1>8, <1>9, <1>10, <1>11, <1>12, <1>13, AddsStatement

(* The placeholders of a chain are those of the two texts. *)
LEMMA ChainPlaceholders ==
  ASSUME NEW op \in {"AND", "OR"}, NEW s \in Seq(Part), NEW t \in Seq(Part), Shaped(t)
  PROVE  /\ Placeholders(Chain(op, s, t)) = Placeholders(s) \o Placeholders(t)
         /\ Numbers(Chain(op, s, t)) = Numbers(s) \union Numbers(t)
         /\ Chain(op, s, t) \in Seq(Part)
<1> DEFINE u == Chain(op, s, t)
<1>1. ChainOf(u, op, s, t)
  <2>1. t # <<>>
    BY ShapedText
  <2> QED BY <2>1, ChainParts
<1> HIDE DEF u
<1>2. u \in Seq(Part) /\ Len(u) = Len(s) + Len(t)
  BY <1>1 DEF ChainOf
<1>3. /\ \A i \in 1 .. Len(s) : NumberAt(u, i) = NumberAt(s, i) /\ ArityAt(u, i) = ArityAt(s, i)
      /\ \A i \in 1 .. Len(t) : /\ NumberAt(u, Len(s) + i) = NumberAt(t, i)
                                /\ ArityAt(u, Len(s) + i) = ArityAt(t, i)
  BY <1>1 DEF ChainOf
<1>4. Placeholders(u) = Placeholders(s) \o Placeholders(t) /\ Numbers(u) = Numbers(s) \union Numbers(t)
  BY <1>2, <1>3, PlaceholdersOfTwo
<1> QED BY <1>2, <1>4 DEF u

(* So are those of one text behind the other. *)
LEMMA ConcatPlaceholders ==
  ASSUME NEW s \in Seq(Part), NEW t \in Seq(Part)
  PROVE  /\ Placeholders(s \o t) = Placeholders(s) \o Placeholders(t)
         /\ Numbers(s \o t) = Numbers(s) \union Numbers(t)
         /\ s \o t \in Seq(Part)
<1> DEFINE u == s \o t
<1>1. /\ u \in Seq(Part) /\ Len(u) = Len(s) + Len(t)
      /\ \A i \in 1 .. Len(s) + Len(t) : u[i] = IF i <= Len(s) THEN s[i] ELSE t[i - Len(s)]
  BY ConcatProperties
<1>2. Len(s) \in Nat /\ Len(t) \in Nat
  OBVIOUS
<1> HIDE DEF u
<1>3. ASSUME NEW i \in 1 .. Len(s) PROVE u[i] = s[i]
  BY <1>1, <1>2
<1>4. ASSUME NEW i \in 1 .. Len(t) PROVE u[Len(s) + i] = t[i]
  <2>1. Len(s) + i \in 1 .. Len(s) + Len(t) /\ ~ Len(s) + i <= Len(s) /\ (Len(s) + i) - Len(s) = i
    BY <1>2
  <2> QED BY <2>1, <1>1
<1>5. /\ \A i \in 1 .. Len(s) : NumberAt(u, i) = NumberAt(s, i) /\ ArityAt(u, i) = ArityAt(s, i)
      /\ \A i \in 1 .. Len(t) : /\ NumberAt(u, Len(s) + i) = NumberAt(t, i)
                                /\ ArityAt(u, Len(s) + i) = ArityAt(t, i)
  BY <1>3, <1>4 DEF NumberAt, ArityAt
<1>6. Placeholders(u) = Placeholders(s) \o Placeholders(t) /\ Numbers(u) = Numbers(s) \union Numbers(t)
  BY <1>1, <1>5, PlaceholdersOfTwo
<1> QED BY <1>1, <1>6 DEF u

(* Joined lists are lists, and not fewer. *)
LEMMA JoinedLists ==
  ASSUME NEW heap \in Seq(Parameters), NEW p \in 0 .. Len(heap), NEW q \in 0 .. Len(heap),
         NEW heap2, heap2 = Merged(heap, p, q).heap, NEW l, l = Merged(heap, p, q).list
  PROVE  /\ Joined(heap2, l, heap, p, q)
         /\ heap2 \in Seq(Parameters) /\ Len(heap) <= Len(heap2) /\ l \in 0 .. Len(heap2)
<1>1. Joined(heap2, l, heap, p, q)
  BY MergedJoins
<1>2. heap2 \in Seq(Parameters) /\ Len(heap2) = Len(heap) /\ l \in 0 .. Len(heap)
  BY <1>1 DEF Joined
<1>3. Len(heap) \in Nat
  BY LenProperties
<1> QED BY <1>1, <1>2, <1>3

(* AND, OR. *)
LEMMA CombineKeeps ==
  ASSUME ConditionInvariant, NEW op \in {"AND", "OR"}, NEW c \in DOMAIN conditions,
         NEW d \in DOMAIN conditions, Combine(op, c, d)
  PROVE  ConditionInvariant'
<1> DEFINE A == conditions[c]
           B == conditions[d]
           l == Merged(lists, A.list, B.list).list
           C == [text  |-> Chain(op, A.text, B.text),
                 list  |-> l,
                 means |-> IF op = "AND" THEN A.means \intersect B.means ELSE A.means \union B.means,
                 mixed |-> \/ A.mixed \/ B.mixed
                           \/ op = "AND" /\ (HasOr(c) \/ HasOr(d)),
                 used  |-> FALSE]
           H == Holders(conditions, statements)
           L == Live(conditions, statements)
           text == TextOf(conditions, statements)
           list == ListOf(conditions, statements)
           Again == IF c = d THEN {c} ELSE UsedBefore({c, d})
<1>1. /\ conditions' = Append(Used({c, d}), C)
      /\ lists' = Merged(lists, A.list, B.list).heap
      /\ statements' = statements /\ executed' = executed /\ comparisons' = comparisons
      /\ Reuse(Again)
  BY DEF Combine
<1>2. /\ A.text \in Seq(Part) /\ A.list \in 0 .. Len(lists) /\ A.means \in SUBSET Valuations
      /\ A.mixed \in BOOLEAN /\ Meant(A) /\ Numbers(A.text) \subseteq 1 .. comparisons
      /\ Numbers(A.text) # {} /\ c \in H /\ (c \in L <=> ~ A.used)
      /\ text[c] = A.text /\ list[c] = A.list
  BY ConditionIs
<1>3. /\ B.text \in Seq(Part) /\ B.list \in 0 .. Len(lists) /\ B.means \in SUBSET Valuations
      /\ B.mixed \in BOOLEAN /\ Meant(B) /\ Numbers(B.text) \subseteq 1 .. comparisons
      /\ Numbers(B.text) # {} /\ d \in H /\ (d \in L <=> ~ B.used)
      /\ text[d] = B.text /\ list[d] = B.list
  BY ConditionIs
<1>4. /\ lists \in Seq(Parameters) /\ comparisons \in 0 .. MaxComparisons
      /\ comparisons \in Nat /\ DOMAIN lists = 1 .. Len(lists)
  BY BoundsAre
<1>5. /\ HasOr(c) <=> AnyOr(A.text)
      /\ HasOr(d) <=> AnyOr(B.text)
  BY DEF HasOr, AnyOr, OpAt
<1>6. /\ C.text = Chain(op, A.text, B.text) /\ C.list = l
      /\ C.means = IF op = "AND" THEN A.means \intersect B.means ELSE A.means \union B.means
      /\ C.mixed = (\/ A.mixed \/ B.mixed
                    \/ op = "AND" /\ (AnyOr(A.text) \/ AnyOr(B.text)))
  BY <1>5
<1>7. /\ Again \subseteq DOMAIN conditions
      /\ A.used => c \in Again
      /\ B.used => d \in Again
  BY DEF UsedBefore
<1>8. /\ reused \subseteq reused' /\ reused' \subseteq 1 .. comparisons
      /\ \A x \in Again : Numbers(conditions[x].text) \subseteq reused'
  <2> HIDE DEF Again
  <2> QED BY <1>1, <1>7, ReuseIs
<1>9. /\ c \notin L => Numbers(text[c]) \subseteq reused' /\ Numbers(text[c]) # {}
      /\ d \notin L => Numbers(text[d]) \subseteq reused' /\ Numbers(text[d]) # {}
  <2>1. A.used => Numbers(A.text) \subseteq reused'
    BY <1>7, <1>8
  <2>2. B.used => Numbers(B.text) \subseteq reused'
    BY <1>7, <1>8
  <2> HIDE DEF A, B, L, text
  <2> QED BY <2>1, <2>2, <1>2, <1>3
<1> HIDE DEF Again, C, l, A, B, H, L, text, list
<1>10. /\ Placeholders(C.text) = Placeholders(A.text) \o Placeholders(B.text)
       /\ Numbers(C.text) = Numbers(A.text) \union Numbers(B.text)
       /\ C.text \in Seq(Part)
  <2>1. Shaped(B.text)
    BY <1>3 DEF Meant
  <2>2. /\ Placeholders(Chain(op, A.text, B.text)) = Placeholders(A.text) \o Placeholders(B.text)
        /\ Numbers(Chain(op, A.text, B.text)) = Numbers(A.text) \union Numbers(B.text)
        /\ Chain(op, A.text, B.text) \in Seq(Part)
    <3>1. PICK s \in Seq(Part), t \in Seq(Part) : s = A.text /\ t = B.text
      BY <1>2, <1>3
    <3>2. Shaped(t)
      BY <2>1, <3>1
    <3>3. /\ Placeholders(Chain(op, s, t)) = Placeholders(s) \o Placeholders(t)
          /\ Numbers(Chain(op, s, t)) = Numbers(s) \union Numbers(t)
          /\ Chain(op, s, t) \in Seq(Part)
      BY <3>2, ChainPlaceholders
    <3> QED BY <3>1, <3>3, Zenon
  <2> QED BY <2>2, <1>6
<1>11. /\ Joined(lists', l, lists, A.list, B.list)
       /\ lists' \in Seq(Parameters) /\ Len(lists) <= Len(lists') /\ l \in 0 .. Len(lists')
  <2>1. l = Merged(lists, A.list, B.list).list
    BY DEF l
  <2> QED BY <2>1, <1>1, <1>2, <1>3, <1>4, JoinedLists
<1>12. Meant(C)
  BY <1>2, <1>3, <1>6, ChainIsMeant
<1>13. C \in ConditionsWith(Len(lists'))
  <2>1. C.means \in SUBSET Valuations
    BY <1>2, <1>3, <1>6
  <2>2. C.mixed \in BOOLEAN
    BY <1>6
  <2>3. C = [text |-> C.text, list |-> C.list, means |-> C.means, mixed |-> C.mixed, used |-> FALSE]
    BY DEF C
  <2>4. C.list \in 0 .. Len(lists')
    BY <1>6, <1>11
  <2>5. PICK k : k = Len(lists')
    OBVIOUS
  <2>6. PICK s, p, v, m : s = C.text /\ p = C.list /\ v = C.means /\ m = C.mixed
    OBVIOUS
  <2>7. s \in Seq(Part) /\ p \in 0 .. k /\ v \in SUBSET Valuations /\ m \in BOOLEAN
    BY <2>1, <2>2, <2>4, <2>5, <2>6, <1>10
  <2>8. [text |-> s, list |-> p, means |-> v, mixed |-> m, used |-> FALSE] \in ConditionsWith(k)
    BY <2>7 DEF ConditionsWith
  <2>9. C = [text |-> s, list |-> p, means |-> v, mixed |-> m, used |-> FALSE]
    BY <2>3, <2>6, Zenon
  <2> QED BY <2>5, <2>8, <2>9
<1>14. HandedIn(lists, lists', reused', conditions, statements, {c, d}, C.text, C.list)
  <2>1. Sound(lists, reused, H, L, text, list)
    BY DEF ConditionInvariant, ListsAreSound, SoundIn, H, L, text, list
  <2>2. Joined(lists', C.list, lists, list[c], list[d])
    BY <1>2, <1>3, <1>6, <1>11
  <2>3. /\ Numbers(C.text) = Numbers(text[c]) \union Numbers(text[d])
        /\ Placeholders(C.text) = Placeholders(text[c]) \o Placeholders(text[d])
    BY <1>2, <1>3, <1>10
  <2>4. c \in H /\ d \in H
    BY <1>2, <1>3
  <2>5. Handed(lists, lists', reused', H, L, text, list, {c, d}, C.text, C.list)
    BY <2>1, <2>2, <2>3, <2>4, <1>4, <1>8, <1>9, TwoHand
  <2> QED BY <2>5 DEF HandedIn, H, L, text, list
<1>15. Numbers(C.text) \subseteq 1 .. comparisons'
  BY <1>1, <1>2, <1>3, <1>10
<1>16. /\ comparisons' \in 0 .. MaxComparisons /\ comparisons <= comparisons'
       /\ reused \subseteq reused' /\ reused' \subseteq 1 .. comparisons'
  BY <1>1, <1>4, <1>8
<1>17. {c, d} \subseteq DOMAIN conditions
  OBVIOUS
<1> QED BY <1>1, <1>11, <1>12, <1>13, <1>14, <1>15, <1>16, <1>17, AddsCondition

(* What a statement is made of. *)
LEMMA StatementParts ==
  ASSUME NEW kind \in StatementKinds, NEW text \in Seq(Part), NEW k \in Nat, NEW l \in 0 .. k
  PROVE  /\ Statement(kind, text, l) \in StatementsWith(k)
         /\ Statement(kind, text, l).text = text /\ Statement(kind, text, l).list = l
  BY DEF Statement, StatementsWith

(* DELETE WHERE, SELECT WHERE, SELECT JOIN ON. *)
LEMMA WriteWithConditionKeeps ==
  ASSUME ConditionInvariant, NEW kind \in Kinds, NEW c \in DOMAIN conditions,
         WriteWithCondition(kind, c)
  PROVE  ConditionInvariant'
<1> DEFINE A == conditions[c]
           s == Statement(kind, A.text, A.list)
           H == Holders(conditions, statements)
           L == Live(conditions, statements)
           text == TextOf(conditions, statements)
           list == ListOf(conditions, statements)
           Again == UsedBefore({c})
           n == Len(statements)
<1>1. /\ statements' = Append(statements, s) /\ conditions' = Used({c})
      /\ lists' = lists /\ executed' = executed /\ comparisons' = comparisons
      /\ Reuse(Again)
  BY DEF WriteWithCondition, AddStatement
<1>2. /\ A.text \in Seq(Part) /\ A.list \in 0 .. Len(lists)
      /\ Numbers(A.text) \subseteq 1 .. comparisons
      /\ Numbers(A.text) # {} /\ c \in H /\ (c \in L <=> ~ A.used)
      /\ text[c] = A.text /\ list[c] = A.list
  BY ConditionIs
<1>3. /\ lists \in Seq(Parameters) /\ Len(lists) \in Nat /\ comparisons \in 0 .. MaxComparisons
      /\ comparisons \in Nat /\ n \in Nat /\ SubSeq(statements, 1, n) = statements
  BY BoundsAre
<1>4. kind \in StatementKinds
  BY ConditionBounds DEF StatementKinds
<1>5. /\ s \in StatementsWith(Len(lists)) /\ s.text = A.text /\ s.list = A.list
  <2> HIDE DEF A
  <2> QED BY <1>2, <1>3, <1>4, StatementParts
<1>6. Again \subseteq DOMAIN conditions /\ (A.used => c \in Again)
  BY DEF UsedBefore
<1>7. /\ reused \subseteq reused' /\ reused' \subseteq 1 .. comparisons
      /\ \A x \in Again : Numbers(conditions[x].text) \subseteq reused'
  <2> HIDE DEF Again
  <2> QED BY <1>1, <1>6, ReuseIs
<1>8. c \notin L => Numbers(text[c]) \subseteq reused' /\ Numbers(text[c]) # {}
  <2>1. A.used => Numbers(A.text) \subseteq reused'
    BY <1>6, <1>7
  <2> HIDE DEF A, L, text
  <2> QED BY <2>1, <1>2
<1> HIDE DEF Again, A, s, H, L, text, list
<1>9. HandedIn(lists, lists', reused', conditions, statements,
               {c} \union {- i : i \in n + 1 .. Len(statements)}, s.text, s.list)
  <2>1. Sound(lists, reused, H, L, text, list)
    BY DEF ConditionInvariant, ListsAreSound, SoundIn, H, L, text, list
  <2>2. s.text = text[c] /\ s.list = list[c] /\ c \in H
    BY <1>2, <1>5
  <2>3. Handed(lists, lists, reused', H, L, text, list, {c}, s.text, s.list)
    BY <2>1, <2>2, <1>7, <1>8, OneHands
  <2>4. {c} \union {- i : i \in n + 1 .. Len(statements)} = {c}
    BY <1>3
  <2>5. HandedIn(lists, lists, reused', conditions, statements, {c}, s.text, s.list)
    BY <2>3 DEF HandedIn, H, L, text, list
  <2> QED BY <2>4, <2>5, <1>1
<1>10. Numbers(s.text) \subseteq 1 .. comparisons'
  BY <1>1, <1>2, <1>5
<1>11. /\ comparisons' \in 0 .. MaxComparisons /\ comparisons <= comparisons'
       /\ reused \subseteq reused' /\ reused' \subseteq 1 .. comparisons'
  BY <1>1, <1>3, <1>7
<1>12. {c} \subseteq DOMAIN conditions /\ n \in 0 .. Len(statements)
  BY <1>3
<1>13. /\ statements' = Append(SubSeq(statements, 1, n), s)
       /\ lists' \in Seq(Parameters) /\ Len(lists) <= Len(lists')
       /\ s \in StatementsWith(Len(lists'))
  <2>1. Len(lists) = Len(lists')
    BY <1>1
  <2>2. Len(lists) <= Len(lists)
    BY <1>3
  <2> QED BY <2>1, <2>2, <1>1, <1>3, <1>5
<1> QED BY <1>1, <1>9, <1>10, <1>11, <1>12, <1>13, AddsStatement

(* No comparisons, no placeholders. *)
LEMMA NoPlaceholders ==
  /\ <<>> \in Seq(Part) /\ Numbers(<<>>) = {} /\ Placeholders(<<>>) = <<>>
<1>1. PICK e \in Seq(Part) : e = <<>>
  <2>1. <<>> \in Seq(Part)
    BY EmptySeq, Zenon
  <2> QED BY <2>1
<1>2. \A i \in DOMAIN e : FALSE
  BY <1>1
<1>3. Numbers(e) = {}
  BY <1>2 DEF Numbers
<1>4. Placeholders(e) = <<>>
  <2>1. [i \in DOMAIN e |-> Values(e[i])] = <<>>
    BY <1>1, <1>2
  <2> QED BY <2>1 DEF Placeholders, FlattenSeq
<1> QED BY <1>1, <1>3, <1>4

(* DELETE X, SELECT GROUPBY, SELECT NATURAL JOIN, SELECT JOIN USING. *)
LEMMA WriteWithoutConditionKeeps ==
  ASSUME ConditionInvariant, NEW kind \in Kinds, WriteWithoutCondition(kind)
  PROVE  ConditionInvariant'
<1> DEFINE n == Len(statements)
           s == Statement(kind, <<>>, NoList)
<1>1. /\ statements' = Append(statements, s) /\ conditions' = conditions
      /\ lists' = lists /\ executed' = executed /\ comparisons' = comparisons /\ reused' = reused
  BY DEF WriteWithoutCondition, AddStatement
<1>2. conditions' = Used({})
  BY <1>1, NothingIsUsed
<1>3. /\ lists \in Seq(Parameters) /\ Len(lists) \in Nat /\ comparisons \in 0 .. MaxComparisons
      /\ comparisons \in Nat /\ n \in Nat /\ SubSeq(statements, 1, n) = statements
      /\ reused \subseteq 1 .. comparisons
  BY BoundsAre
<1>4. kind \in StatementKinds
  BY ConditionBounds DEF StatementKinds
<1>5. s \in StatementsWith(Len(lists)) /\ s.text = <<>> /\ s.list = NoList
  <2>1. PICK e \in Seq(Part), l \in 0 .. Len(lists) : e = <<>> /\ l = NoList
    <3>1. <<>> \in Seq(Part) /\ 0 \in 0 .. Len(lists)
      BY <1>3, NoPlaceholders
    <3> QED BY <3>1 DEF NoList
  <2>2. /\ Statement(kind, e, l) \in StatementsWith(Len(lists))
        /\ Statement(kind, e, l).text = e /\ Statement(kind, e, l).list = l
    BY <1>3, <1>4, StatementParts
  <2> QED BY <2>1, <2>2
<1> HIDE DEF s
<1>6. Numbers(s.text) = {} /\ Placeholders(s.text) = <<>>
  BY <1>5, NoPlaceholders
<1>7. HandedIn(lists, lists', reused', conditions, statements,
               {} \union {- i : i \in n + 1 .. Len(statements)}, s.text, s.list)
  <2>1. {} \union {- i : i \in n + 1 .. Len(statements)} = {}
    BY <1>3
  <2>2. Content(lists, s.list) = Placeholders(s.text)
    BY <1>5, <1>6 DEF Content
  <2>3. HandedIn(lists, lists, reused', conditions, statements, {}, s.text, s.list)
    BY <1>5, <2>2 DEF HandedIn, Handed
  <2> QED BY <2>1, <2>3, <1>1
<1>8. Numbers(s.text) \subseteq 1 .. comparisons'
  BY <1>6
<1>9. /\ comparisons' \in 0 .. MaxComparisons /\ comparisons <= comparisons'
      /\ reused \subseteq reused' /\ reused' \subseteq 1 .. comparisons'
  BY <1>1, <1>3
<1>10. {} \subseteq DOMAIN conditions /\ n \in 0 .. Len(statements)
  BY <1>3
<1>11. /\ statements' = Append(SubSeq(statements, 1, n), s)
       /\ lists' \in Seq(Parameters) /\ Len(lists) <= Len(lists')
       /\ s \in StatementsWith(Len(lists'))
  <2>1. Len(lists) = Len(lists')
    BY <1>1
  <2>2. Len(lists) <= Len(lists)
    BY <1>3
  <2> QED BY <2>1, <2>2, <1>1, <1>3, <1>5
<1> QED BY <1>1, <1>2, <1>7, <1>8, <1>9, <1>10, <1>11, AddsStatement

(* What a clause makes of a statement. *)
LEMMA RefinementIs ==
  ASSUME NEW kind \in DOMAIN Refinement
  PROVE  Refinement[kind] \in StatementKinds
<1>1. kind \in {"update", "join", "select"}
  BY DEF Refinement
<1>2. /\ Refinement["update"] = "final" /\ Refinement["join"] = "select"
      /\ Refinement["select"] = "finalSelect"
  BY DEF Refinement
<1> QED BY <1>1, <1>2 DEF StatementKinds

(* UPDATE WHERE, JOIN WHERE, GROUPBY HAVING. *)
LEMMA AppendClauseKeeps ==
  ASSUME ConditionInvariant, NEW c \in DOMAIN conditions, AppendClause(c)
  PROVE  ConditionInvariant'
<1> DEFINE n == Len(statements)
           g == - n
           A == statements[n]
           B == conditions[c]
           l == Merged(lists, A.list, B.list).list
           kind == Refinement[A.kind]
           s == Statement(kind, A.text \o B.text, l)
           H == Holders(conditions, statements)
           L == Live(conditions, statements)
           text == TextOf(conditions, statements)
           list == ListOf(conditions, statements)
           Again == UsedBefore({c})
           j == n - 1
<1>1. /\ statements # <<>> /\ A.kind \in DOMAIN Refinement
      /\ statements' = Append(SubSeq(statements, 1, j), s) /\ conditions' = Used({c})
      /\ lists' = Merged(lists, A.list, B.list).heap
      /\ executed' = executed /\ comparisons' = comparisons
      /\ Reuse(Again)
  BY DEF AppendClause, Last, Front
<1>2. /\ lists \in Seq(Parameters) /\ Len(lists) \in Nat /\ comparisons \in 0 .. MaxComparisons
      /\ comparisons \in Nat /\ n \in Nat /\ DOMAIN statements = 1 .. n
      /\ DOMAIN lists = 1 .. Len(lists)
  BY BoundsAre
<1>3. n \in DOMAIN statements /\ n # 0 /\ j \in 0 .. Len(statements) /\ j + 1 = n
  <2>1. n # 0
    <3>1. statements \in Seq(StatementsWith(Len(lists)))
      BY TypesAre DEF ConditionInvariant
    <3> QED BY <3>1, <1>1, EmptySeq
  <2> QED BY <2>1, <1>2
<1>4. /\ A.text \in Seq(Part) /\ A.list \in 0 .. Len(lists)
      /\ Numbers(A.text) \subseteq 1 .. comparisons
      /\ g \in H /\ g \in L /\ text[g] = A.text /\ list[g] = A.list
  BY <1>3, StatementIs
<1>5. /\ B.text \in Seq(Part) /\ B.list \in 0 .. Len(lists)
      /\ Numbers(B.text) \subseteq 1 .. comparisons
      /\ Numbers(B.text) # {} /\ c \in H /\ (c \in L <=> ~ B.used)
      /\ text[c] = B.text /\ list[c] = B.list
  BY ConditionIs
<1>6. Again \subseteq DOMAIN conditions /\ (B.used => c \in Again)
  BY DEF UsedBefore
<1>7. /\ reused \subseteq reused' /\ reused' \subseteq 1 .. comparisons
      /\ \A x \in Again : Numbers(conditions[x].text) \subseteq reused'
  <2> HIDE DEF Again
  <2> QED BY <1>1, <1>6, ReuseIs
<1>8. c \notin L => Numbers(text[c]) \subseteq reused' /\ Numbers(text[c]) # {}
  <2>1. B.used => Numbers(B.text) \subseteq reused'
    BY <1>6, <1>7
  <2> HIDE DEF B, L, text
  <2> QED BY <2>1, <1>5
<1>9. kind \in StatementKinds
  BY <1>1, RefinementIs
<1>10. {- i : i \in j + 1 .. Len(statements)} = {g}
  <2>1. ASSUME NEW m \in Nat PROVE {- i : i \in m .. m} = {- m}
    <3>1. \A i \in m .. m : i = m
      OBVIOUS
    <3>2. m \in m .. m
      OBVIOUS
    <3> QED BY <3>1, <3>2
  <2>2. PICK m \in Nat : m = n /\ m = j + 1
    BY <1>2, <1>3
  <2>3. {- i : i \in j + 1 .. Len(statements)} = {- i : i \in m .. m}
    BY <2>2, Zenon
  <2> QED BY <2>1, <2>2, <2>3
<1> HIDE DEF Again, A, B, H, L, text, list, l, s, kind, g, n, j
<1>11. /\ Joined(lists', l, lists, A.list, B.list)
       /\ lists' \in Seq(Parameters) /\ Len(lists) <= Len(lists') /\ l \in 0 .. Len(lists')
  <2>1. l = Merged(lists, A.list, B.list).list
    BY DEF l
  <2> QED BY <2>1, <1>1, <1>2, <1>4, <1>5, JoinedLists
<1>12. PICK both \in Seq(Part) :
         /\ both = A.text \o B.text
         /\ Placeholders(both) = Placeholders(A.text) \o Placeholders(B.text)
         /\ Numbers(both) = Numbers(A.text) \union Numbers(B.text)
  <2>1. PICK a \in Seq(Part), b \in Seq(Part) : a = A.text /\ b = B.text
    BY <1>4, <1>5
  <2>2. /\ Placeholders(a \o b) = Placeholders(a) \o Placeholders(b)
        /\ Numbers(a \o b) = Numbers(a) \union Numbers(b)
        /\ a \o b \in Seq(Part)
    BY ConcatPlaceholders
  <2> QED BY <2>1, <2>2, Zenon
<1>13. /\ s \in StatementsWith(Len(lists')) /\ s.text = both /\ s.list = l
  <2>1. s = Statement(kind, both, l)
    BY <1>12 DEF s
  <2>2. Len(lists') \in Nat
    BY <1>11, LenProperties
  <2>3. PICK k \in Nat : k = Len(lists')
    BY <2>2
  <2>4. l \in 0 .. k
    BY <1>11, <2>3
  <2>5. Statement(kind, both, l) \in StatementsWith(k)
    BY <1>9, <1>12, <2>4, StatementParts
  <2>6. Statement(kind, both, l).text = both /\ Statement(kind, both, l).list = l
    BY DEF Statement
  <2> QED BY <2>1, <2>3, <2>5, <2>6
<1>14. HandedIn(lists, lists', reused', conditions, statements,
                {c} \union {- i : i \in j + 1 .. Len(statements)}, s.text, s.list)
  <2>1. Sound(lists, reused, H, L, text, list)
    BY DEF ConditionInvariant, ListsAreSound, SoundIn, H, L, text, list
  <2>2. Joined(lists', s.list, lists, list[g], list[c])
    BY <1>4, <1>5, <1>11, <1>13
  <2>3. /\ Numbers(s.text) = Numbers(text[g]) \union Numbers(text[c])
        /\ Placeholders(s.text) = Placeholders(text[g]) \o Placeholders(text[c])
    BY <1>4, <1>5, <1>12, <1>13
  <2>4. g \in H /\ c \in H /\ g \in L
    BY <1>4, <1>5
  <2>5. Handed(lists, lists', reused', H, L, text, list, {g, c}, s.text, s.list)
    BY <2>1, <2>2, <2>3, <2>4, <1>2, <1>7, <1>8, TwoHand
  <2>6. {c} \union {- i : i \in j + 1 .. Len(statements)} = {g, c}
    BY <1>10
  <2>7. HandedIn(lists, lists', reused', conditions, statements, {g, c}, s.text, s.list)
    BY <2>5 DEF HandedIn, H, L, text, list
  <2> QED BY <2>6, <2>7
<1>15. Numbers(s.text) \subseteq 1 .. comparisons'
  BY <1>1, <1>4, <1>5, <1>12, <1>13
<1>16. /\ comparisons' \in 0 .. MaxComparisons /\ comparisons <= comparisons'
       /\ reused \subseteq reused' /\ reused' \subseteq 1 .. comparisons'
  BY <1>1, <1>2, <1>7
<1>17. {c} \subseteq DOMAIN conditions
  OBVIOUS
<1> QED BY <1>1, <1>3, <1>11, <1>13, <1>14, <1>15, <1>16, <1>17, AddsStatement

-----------------------------------------------------------------------------
(* UNION *)

MergingTo(f, parts, n) ==
  f = [i \in 0 .. n |-> IF i = 0 THEN [heap |-> lists, list |-> NoList]
                        ELSE Merged(f[i - 1].heap, f[i - 1].list, parts[i].list)]

(* The recursive function inside MergedAll exists, by a least              *)
(* counterexample.                                                         *)
LEMMA MergingExists ==
  ASSUME NEW parts, NEW n \in Nat
  PROVE  \E f : MergingTo(f, parts, n)
<1> DEFINE Bad == {m \in Nat : ~ \E f : MergingTo(f, parts, m)}
<1>1. SUFFICES ASSUME Bad # {} PROVE FALSE
  OBVIOUS
<1>2. PICK m \in Bad : \A k \in Bad : m <= k
  BY <1>1, NatMin
<1>3. m # 0
  <2> DEFINE e == [i \in 0 .. 0 |-> [heap |-> lists, list |-> NoList]]
  <2>1. MergingTo(e, parts, 0)
    <3>1. \A i \in 0 .. 0 : i = 0
      OBVIOUS
    <3> QED BY <3>1 DEF MergingTo
  <2> QED BY <2>1
<1>4. m - 1 \in Nat /\ m - 1 \notin Bad /\ m \in Nat
  BY <1>2, <1>3
<1>5. PICK f : MergingTo(f, parts, m - 1)
  BY <1>4
<1> DEFINE g == [i \in 0 .. m |-> IF i < m THEN f[i] ELSE Merged(f[i - 1].heap, f[i - 1].list, parts[i].list)]
<1>6. MergingTo(g, parts, m)
  <2>1. SUFFICES ASSUME NEW i \in 0 .. m
                 PROVE  g[i] = IF i = 0 THEN [heap |-> lists, list |-> NoList]
                               ELSE Merged(g[i - 1].heap, g[i - 1].list, parts[i].list)
    BY DEF MergingTo
  <2>2. CASE i = 0
    <3>1. i < m /\ i \in 0 .. m - 1
      BY <2>2, <1>3, <1>4
    <3>2. g[i] = f[i]
      BY <3>1
    <3>3. f[i] = [heap |-> lists, list |-> NoList]
      BY <3>1, <2>2, <1>5 DEF MergingTo
    <3> QED BY <2>2, <3>2, <3>3
  <2>3. CASE i = m
    <3>1. i - 1 \in 0 .. m /\ i - 1 < m /\ ~ i < m /\ i # 0
      BY <2>3, <1>3, <1>4
    <3>2. g[i] = Merged(f[i - 1].heap, f[i - 1].list, parts[i].list)
      BY <3>1
    <3>3. g[i - 1] = f[i - 1]
      BY <3>1
    <3> QED BY <3>1, <3>2, <3>3
  <2>4. CASE i # 0 /\ i # m
    <3>1. i - 1 \in 0 .. m /\ i - 1 < m /\ i < m /\ i \in 0 .. m - 1
      BY <2>4, <1>4
    <3>2. g[i] = f[i] /\ g[i - 1] = f[i - 1]
      BY <3>1
    <3>3. f[i] = Merged(f[i - 1].heap, f[i - 1].list, parts[i].list)
      BY <3>1, <2>4, <1>5 DEF MergingTo
    <3> QED BY <2>4, <3>2, <3>3
  <2> QED BY <2>2, <2>3, <2>4
<1> QED BY <1>6, <1>2

(* The merged lists are the last value of that function. *)
LEMMA MergedAllIs ==
  ASSUME NEW parts, Len(parts) \in Nat
  PROVE  \E f : MergingTo(f, parts, Len(parts)) /\ MergedAll(parts) = f[Len(parts)]
<1> DEFINE merging[i \in 0 .. Len(parts)] ==
             IF i = 0 THEN [heap |-> lists, list |-> NoList]
             ELSE LET m == merging[i - 1] IN Merged(m.heap, m.list, parts[i].list)
<1>1. MergedAll(parts) = merging[Len(parts)]
  BY DEF MergedAll
<1>2. merging = CHOOSE f : MergingTo(f, parts, Len(parts))
  BY DEF MergingTo
<1>3. MergingTo(merging, parts, Len(parts))
  <2> HIDE DEF merging
  <2> QED BY <1>2, MergingExists
<1> QED BY <1>1, <1>3

(* Of the statements a .. b, text is the text and l, in heap, the list:    *)
(* a list of one of them, the only one that has changed, with the          *)
(* parameters of all unless one of their comparisons was written twice.    *)
Merges(heap, l, text, a, b) ==
  /\ heap \in Seq(Parameters) /\ Len(heap) = Len(lists) /\ l \in 0 .. Len(lists)
  /\ text \in Seq(Part)
  /\ l # NoList => \E h \in a .. b : statements[h].list = l
  /\ \A k \in 1 .. Len(lists) : k # l => heap[k] = lists[k]
  /\ \A k \in 1 .. Len(lists) : Origin(heap, k) = Origin(lists, k)
  /\ Numbers(text) \subseteq 1 .. comparisons
  /\ l # NoList => Origin(lists, l) \in Numbers(text)
  /\ Numbers(text) \intersect reused = {} => Content(heap, l) = Placeholders(text)

(* Two statements with one list have it from a comparison written twice.   *)
LEMMA SharedStatements ==
  ASSUME ConditionInvariant, NEW a \in DOMAIN statements, NEW b \in DOMAIN statements, a # b,
         statements[a].list = statements[b].list, statements[a].list # NoList
  PROVE  Origin(lists, statements[a].list) \in reused
<1> DEFINE H == Holders(conditions, statements)
           L == Live(conditions, statements)
           text == TextOf(conditions, statements)
           list == ListOf(conditions, statements)
           g == - a
           h == - b
<1>1. g \in L /\ list[g] = statements[a].list
  BY StatementIs
<1>2. h \in L /\ list[h] = statements[b].list
  BY StatementIs
<1>3. g # h
  <2>1. a \in Nat /\ b \in Nat
    BY BoundsAre
  <2> QED BY <2>1
<1>4. Sound(lists, reused, H, L, text, list)
  BY DEF ConditionInvariant, ListsAreSound, SoundIn
<1> HIDE DEF H, L, text, list, g, h
<1> QED BY <1>1, <1>2, <1>3, <1>4 DEF Sound

(* A statement: its list begins with a parameter of its text, and has its  *)
(* parameters unless one of its comparisons was written twice.             *)
LEMMA StatementHasItsList ==
  ASSUME ConditionInvariant, NEW b \in DOMAIN statements
  PROVE  /\ statements[b].list # NoList =>
              Origin(lists, statements[b].list) \in Numbers(statements[b].text)
         /\ Numbers(statements[b].text) \intersect reused = {} =>
              Content(lists, statements[b].list) = Placeholders(statements[b].text)
<1> DEFINE H == Holders(conditions, statements)
           L == Live(conditions, statements)
           text == TextOf(conditions, statements)
           list == ListOf(conditions, statements)
           h == - b
<1>1. h \in H /\ h \in L /\ list[h] = statements[b].list /\ text[h] = statements[b].text
  BY StatementIs
<1>2. Sound(lists, reused, H, L, text, list)
  BY DEF ConditionInvariant, ListsAreSound, SoundIn
<1> HIDE DEF H, L, text, list, h
<1> QED BY <1>1, <1>2 DEF Sound

(* Merged with the next statement. *)
LEMMA MergesNext ==
  ASSUME ConditionInvariant, NEW a \in DOMAIN statements, NEW b \in DOMAIN statements, a <= b,
         NEW heap, NEW l, NEW text, Merges(heap, l, text, a, b - 1),
         NEW q, q = statements[b].list, NEW heap2, heap2 = Merged(heap, l, q).heap,
         NEW l2, l2 = Merged(heap, l, q).list, NEW text2, text2 = text \o statements[b].text
  PROVE  Merges(heap2, l2, text2, a, b)
<1>1. /\ heap \in Seq(Parameters) /\ Len(heap) = Len(lists) /\ l \in 0 .. Len(lists)
      /\ text \in Seq(Part)
      /\ l # NoList => \E h \in a .. b - 1 : statements[h].list = l
      /\ \A k \in 1 .. Len(lists) : k # l => heap[k] = lists[k]
      /\ \A k \in 1 .. Len(lists) : Origin(heap, k) = Origin(lists, k)
      /\ Numbers(text) \subseteq 1 .. comparisons
      /\ l # NoList => Origin(lists, l) \in Numbers(text)
      /\ Numbers(text) \intersect reused = {} => Content(heap, l) = Placeholders(text)
  BY DEF Merges
<1>2. PICK t \in Seq(Part) : t = statements[b].text
  BY StatementIs
<1>3. /\ q \in 0 .. Len(lists) /\ Numbers(t) \subseteq 1 .. comparisons
      /\ q # NoList => Origin(lists, q) \in Numbers(t)
      /\ Numbers(t) \intersect reused = {} => Content(lists, q) = Placeholders(t)
  BY <1>2, StatementIs, StatementHasItsList
<1>4. /\ heap2 \in Seq(Parameters) /\ Len(heap2) = Len(heap) /\ l2 \in 0 .. Len(heap)
      /\ l2 = NoList <=> l = NoList /\ q = NoList
      /\ Content(heap2, l2) = Content(heap, l) \o Content(heap, q)
      /\ \A k \in 1 .. Len(heap) : k # l2 => heap2[k] = heap[k]
      /\ \A k \in 1 .. Len(heap) : Origin(heap2, k) = Origin(heap, k)
  <2>1. Joined(heap2, l2, heap, l, q)
    BY <1>1, <1>3, MergedJoins
  <2> QED BY <2>1 DEF Joined
<1>5. l2 = IF l = NoList THEN q ELSE l
  BY DEF Merged
<1>6. /\ text2 \in Seq(Part) /\ Placeholders(text2) = Placeholders(text) \o Placeholders(t)
      /\ Numbers(text2) = Numbers(text) \union Numbers(t)
  <2>1. text2 = text \o t
    BY <1>2
  <2> QED BY <2>1, <1>1, ConcatPlaceholders
<1>7. /\ a \in Nat /\ b \in Nat /\ b \in a .. b /\ a .. b - 1 \subseteq a .. b
      /\ \A h \in a .. b - 1 : h \in DOMAIN statements /\ h # b
  <2>1. DOMAIN statements = 1 .. Len(statements) /\ Len(statements) \in Nat
    BY BoundsAre
  <2> QED BY <2>1
<1>8. ASSUME l2 # NoList PROVE \E h \in a .. b : statements[h].list = l2
  <2>1. CASE l = NoList
    <3>1. statements[b].list = l2
      BY <2>1, <1>5
    <3> QED BY <3>1, <1>7
  <2>2. CASE l # NoList
    <3>1. PICK h \in a .. b - 1 : statements[h].list = l
      BY <2>2, <1>1
    <3>2. h \in a .. b /\ statements[h].list = l2
      BY <3>1, <2>2, <1>5, <1>7
    <3> QED BY <3>2
  <2> QED BY <2>1, <2>2
<1>9. ASSUME NEW k \in 1 .. Len(lists), k # l2 PROVE heap2[k] = lists[k]
  <2>1. k # l
    <3>1. k # NoList
      BY DEF NoList
    <3> QED BY <3>1, <1>5, <1>9
  <2>2. heap2[k] = heap[k]
    BY <1>1, <1>4, <1>9
  <2>3. heap[k] = lists[k]
    BY <2>1, <1>1
  <2> QED BY <2>2, <2>3
<1>10. ASSUME NEW k \in 1 .. Len(lists) PROVE Origin(heap2, k) = Origin(lists, k)
  <2>1. Origin(heap2, k) = Origin(heap, k)
    BY <1>1, <1>4
  <2> QED BY <2>1, <1>1
<1>11. ASSUME l2 # NoList PROVE Origin(lists, l2) \in Numbers(text2)
  BY <1>1, <1>3, <1>5, <1>6, <1>11
<1>12. ASSUME Numbers(text2) \intersect reused = {} PROVE Content(heap2, l2) = Placeholders(text2)
  <2>1. Numbers(text) \intersect reused = {} /\ Numbers(t) \intersect reused = {}
    BY <1>6, <1>12
  <2>2. Content(heap, l) = Placeholders(text) /\ Content(lists, q) = Placeholders(t)
    BY <2>1, <1>1, <1>3
  <2>3. Content(heap, q) = Content(lists, q)
    <3>1. CASE q = NoList
      BY <3>1 DEF Content
    <3>2. CASE q # NoList
      <4>1. q # l
        <5>1. SUFFICES ASSUME q = l PROVE FALSE
          OBVIOUS
        <5>2. PICK h \in a .. b - 1 : statements[h].list = q
          BY <5>1, <3>2, <1>1
        <5>3. Origin(lists, q) \in reused
          <6>1. h \in DOMAIN statements /\ h # b
            BY <1>7
          <6>2. statements[h].list = statements[b].list /\ statements[h].list # NoList
            BY <5>2, <3>2
          <6> QED BY <6>1, <6>2, <5>2, SharedStatements
        <5> QED BY <5>3, <3>2, <2>1, <1>3
      <4>2. q \in 1 .. Len(lists)
        BY <3>2, <1>3 DEF NoList
      <4>3. heap[q] = lists[q]
        BY <4>1, <4>2, <1>1
      <4> QED BY <4>3, <3>2 DEF Content
    <3> QED BY <3>1, <3>2
  <2> QED BY <2>2, <2>3, <1>4, <1>6
<1>13. Numbers(text2) \subseteq 1 .. comparisons
  BY <1>1, <1>3, <1>6
<1>14. Len(heap2) = Len(lists) /\ l2 \in 0 .. Len(lists) /\ heap2 \in Seq(Parameters)
  BY <1>1, <1>4
<1> QED BY <1>6, <1>8, <1>9, <1>10, <1>11, <1>12, <1>13, <1>14 DEF Merges

(* Nothing merged yet. *)
LEMMA MergesNone ==
  ASSUME ConditionInvariant, NEW a, NEW b
  PROVE  Merges(lists, NoList, <<>>, a, b)
<1>1. lists \in Seq(Parameters) /\ Len(lists) \in Nat
  BY BoundsAre
<1>2. PICK e \in Seq(Part) : e = <<>> /\ Numbers(e) = {} /\ Placeholders(e) = <<>>
  BY NoPlaceholders
<1>3. NoList \in 0 .. Len(lists)
  BY <1>1 DEF NoList
<1>4. Content(lists, NoList) = Placeholders(e)
  BY <1>2 DEF Content
<1>5. Merges(lists, NoList, e, a, b)
  BY <1>1, <1>2, <1>3, <1>4 DEF Merges
<1> QED BY <1>2, <1>5

(* The last n statements, and their texts. *)
LastStatements(n) == SubSeq(statements, Len(statements) - n + 1, Len(statements))
TextsOf(parts) == [i \in DOMAIN parts |-> parts[i].text]

PartsOf(parts, texts, n, j) ==
  /\ n \in Nat /\ j \in Nat /\ j + n = Len(statements)
  /\ Len(parts) = n /\ texts \in Seq(Seq(Part)) /\ Len(texts) = n
  /\ \A i \in 1 .. n : /\ parts[i] = statements[j + i] /\ texts[i] = statements[j + i].text
                       /\ j + i \in DOMAIN statements

(* They are the statements behind the first j. *)
LEMMA PartsAre ==
  ASSUME ConditionInvariant, NEW n \in 2 .. Len(statements)
  PROVE  PartsOf(LastStatements(n), TextsOf(LastStatements(n)), n, Len(statements) - n)
<1> DEFINE N == Len(statements)
           j == N - n
           parts == LastStatements(n)
           texts == TextsOf(parts)
<1>1. N \in Nat /\ DOMAIN statements = 1 .. N
  BY BoundsAre
<1>2. n \in Nat /\ j \in Nat /\ j + n = N /\ j + 1 \in 1 .. N + 1 /\ N - n + 1 = j + 1
  BY <1>1
<1>3. \A i \in 1 .. n : j + i \in 1 .. N
  BY <1>1, <1>2
<1>4. Len(parts) = n /\ DOMAIN parts = 1 .. n /\ \A i \in 1 .. n : parts[i] = statements[j + i]
  <2>1. parts = [i \in 1 .. n |-> statements[j + i]]
    <3>1. parts = [i \in 1 .. (1 + N - (j + 1)) |-> statements[i + (j + 1) - 1]]
      BY <1>1, <1>2 DEF LastStatements
    <3>2. 1 + N - (j + 1) = n
      BY <1>1, <1>2
    <3>3. \A i \in 1 .. n : i + (j + 1) - 1 = j + i
      BY <1>2
    <3> QED BY <3>1, <3>2, <3>3
  <2>2. parts \in Seq(StatementsWith(Len(lists)))
    <3>1. \A i \in 1 .. n : statements[j + i] \in StatementsWith(Len(lists))
      BY <1>1, <1>3, StatementIs
    <3>2. \A i \in 1 .. n : parts[i] \in StatementsWith(Len(lists))
      BY <2>1, <3>1
    <3>3. parts = [i \in 1 .. n |-> parts[i]]
      BY <2>1
    <3> HIDE DEF StatementsWith
    <3>4. [i \in 1 .. n |-> parts[i]] \in Seq(StatementsWith(Len(lists)))
      BY <3>2, <1>2, IsASeq
    <3> QED BY <3>3, <3>4
  <2>3. DOMAIN parts = 1 .. n
    BY <2>1
  <2> QED BY <2>1, <2>2, <2>3, <1>2, LenProperties
<1>7. texts = [i \in DOMAIN parts |-> parts[i].text]
  BY DEF TextsOf
<1> HIDE DEF parts, texts
<1>5. texts \in Seq(Seq(Part)) /\ DOMAIN texts = 1 .. n
      /\ \A i \in 1 .. n : texts[i] = statements[j + i].text
  <2>1. texts = [i \in 1 .. n |-> statements[j + i].text]
    BY <1>4, <1>7
  <2>2. \A i \in 1 .. n : statements[j + i].text \in Seq(Part)
    BY <1>1, <1>3, StatementIs
  <2>3. PICK T : T = Seq(Part)
    OBVIOUS
  <2>4. \A i \in 1 .. n : texts[i] \in T
    BY <2>1, <2>2, <2>3
  <2>5. texts = [i \in 1 .. n |-> texts[i]]
    BY <2>1
  <2>6. [i \in 1 .. n |-> texts[i]] \in Seq(T)
    BY <2>4, <1>2, IsASeq
  <2>7. texts \in Seq(T)
    BY <2>5, <2>6
  <2> QED BY <2>1, <2>3, <2>7
<1>6. Len(texts) = n
  <2>1. PICK T : T = Seq(Part)
    OBVIOUS
  <2>2. texts \in Seq(T)
    BY <2>1, <1>5
  <2> QED BY <2>2, <1>2, <1>5, LenProperties
<1> HIDE DEF j
<1>8. PartsOf(parts, texts, n, j)
  BY <1>1, <1>2, <1>3, <1>4, <1>5, <1>6 DEF PartsOf
<1> QED BY <1>8 DEF parts, texts, j

(* UNION merges them. *)
LEMMA UnionMerges ==
  ASSUME ConditionInvariant, NEW n \in 2 .. Len(statements),
         NEW j, NEW parts, NEW texts, PartsOf(parts, texts, n, j)
  PROVE  Merges(MergedAll(parts).heap, MergedAll(parts).list, FlattenSeq(texts), j + 1, Len(statements))
<1>1. /\ n \in Nat /\ j \in Nat /\ j + n = Len(statements)
      /\ Len(parts) = n /\ texts \in Seq(Seq(Part)) /\ Len(texts) = n
      /\ \A i \in 1 .. n : /\ parts[i] = statements[j + i] /\ texts[i] = statements[j + i].text
                           /\ j + i \in DOMAIN statements
  BY DEF PartsOf
<1>2. PICK f : MergingTo(f, parts, n) /\ MergedAll(parts) = f[n]
  BY <1>1, MergedAllIs
<1> DEFINE Bad == {i \in 0 .. n : ~ Merges(f[i].heap, f[i].list, FlattenSeq(SubSeq(texts, 1, i)), j + 1, j + i)}
<1>3. SubSeq(texts, 1, n) = texts /\ SubSeq(texts, 1, 0) = <<>>
  <2>1. PICK T : T = Seq(Part)
    OBVIOUS
  <2>2. texts \in Seq(T)
    BY <2>1, <1>1
  <2> QED BY <2>2, <1>1, SubSeqFull, SubSeqEmpty
<1>4. SUFFICES ASSUME Bad # {} PROVE FALSE
  <2>3. n \in 0 .. n
    BY <1>1
  <2>4. n \notin Bad
    <3> HIDE DEF Bad
    <3> QED OBVIOUS
  <2>1. n \in 0 .. n /\ n \notin Bad
    BY <2>3, <2>4
  <2>2. Merges(f[n].heap, f[n].list, FlattenSeq(SubSeq(texts, 1, n)), j + 1, j + n)
    BY <2>1
  <2> QED BY <2>2, <1>1, <1>2, <1>3
<1>5. PICK i \in Bad : \A k \in Bad : i <= k
  <2>1. Bad \subseteq Nat
    BY <1>1
  <2> HIDE DEF Bad
  <2> QED BY <2>1, <1>4, NatMin
<1>6. i # 0
  <2>1. SUFFICES ASSUME i = 0 PROVE FALSE
    OBVIOUS
  <2>2. 0 \in 0 .. n
    BY <1>1
  <2>3. f[0] = [heap |-> lists, list |-> NoList]
    BY <2>2, <1>2 DEF MergingTo
  <2>4. f[0].heap = lists /\ f[0].list = NoList
    BY <2>3
  <2>5. FlattenSeq(SubSeq(texts, 1, 0)) = <<>>
    BY <1>3 DEF FlattenSeq
  <2>6. Merges(f[0].heap, f[0].list, FlattenSeq(SubSeq(texts, 1, 0)), j + 1, j + 0)
    BY <2>4, <2>5, MergesNone
  <2> QED BY <2>1, <2>6
<1>7. /\ i \in 1 .. n /\ i - 1 \in 0 .. n /\ i - 1 \in Nat /\ i - 1 < n /\ (i - 1) + 1 = i
      /\ j + (i - 1) = (j + i) - 1 /\ j + 1 <= j + i
  BY <1>1, <1>6
<1>8. i - 1 \notin Bad
  <2>1. i - 1 < i
    BY <1>7
  <2> QED BY <2>1, <1>5, <1>7
<1> DEFINE before == FlattenSeq(SubSeq(texts, 1, i - 1))
           heap == f[i - 1].heap
           l == f[i - 1].list
           b == j + i
<1>9. Merges(heap, l, before, j + 1, b - 1)
  <2>1. Merges(f[i - 1].heap, f[i - 1].list, FlattenSeq(SubSeq(texts, 1, i - 1)), j + 1, j + (i - 1))
    BY <1>7, <1>8
  <2> QED BY <2>1, <1>7
<1>10. FlattenSeq(SubSeq(texts, 1, i)) = before \o statements[b].text
  <2>1. PICK T : T = Seq(Part)
    OBVIOUS
  <2>2. texts \in Seq(T)
    BY <2>1, <1>1
  <2>3. PICK k \in Nat : k = i - 1 /\ k < Len(texts) /\ k + 1 = i
    BY <1>1, <1>7
  <2>4. /\ SubSeq(texts, 1, k) \in Seq(T) /\ texts[k + 1] \in T
        /\ SubSeq(texts, 1, k + 1) = Append(SubSeq(texts, 1, k), texts[k + 1])
    BY <2>2, <2>3, FirstElements
  <2>5. PICK u, t : u = SubSeq(texts, 1, k) /\ t = texts[k + 1]
    OBVIOUS
  <2>6. u \in Seq(Seq(Part)) /\ t \in Seq(Part)
    BY <2>1, <2>4, <2>5
  <2>7. FlattenSeq(Append(u, t)) = FlattenSeq(u) \o t
    BY <2>6, FlattenAppend
  <2>8. texts[i] = statements[b].text
    BY <1>1, <1>7
  <2>9. SubSeq(texts, 1, i) = Append(u, t) /\ before = FlattenSeq(u) /\ t = statements[b].text
    BY <2>3, <2>4, <2>5, <2>8
  <2> HIDE DEF before, b
  <2> QED BY <2>7, <2>9
<1>11. f[i] = Merged(heap, l, statements[b].list)
  <2>1. i \in 0 .. n
    BY <1>5
  <2>2. f[i] = Merged(f[i - 1].heap, f[i - 1].list, parts[i].list)
    BY <2>1, <1>2, <1>6 DEF MergingTo
  <2>3. parts[i] = statements[b]
    BY <1>1, <1>7
  <2> QED BY <2>2, <2>3
<1>12. j + 1 \in DOMAIN statements /\ b \in DOMAIN statements /\ j + 1 <= b
  <2>1. 1 \in 1 .. n
    BY <1>7
  <2> QED BY <2>1, <1>1, <1>7
<1> HIDE DEF before, heap, l, b
<1>13. Merges(f[i].heap, f[i].list, before \o statements[b].text, j + 1, b)
  <2>1. PICK a \in DOMAIN statements : a = j + 1
    BY <1>12
  <2>2. PICK q, heap2, l2, text2 :
          /\ q = statements[b].list /\ heap2 = Merged(heap, l, q).heap
          /\ l2 = Merged(heap, l, q).list /\ text2 = before \o statements[b].text
    OBVIOUS
  <2>3. Merges(heap2, l2, text2, a, b)
    BY <2>1, <2>2, <1>9, <1>12, MergesNext
  <2> QED BY <2>1, <2>2, <2>3, <1>11
<1>14. i \notin Bad
  <2>1. Merges(f[i].heap, f[i].list, FlattenSeq(SubSeq(texts, 1, i)), j + 1, j + i)
    BY <1>10, <1>13 DEF b
  <2> QED BY <2>1
<1> QED BY <1>5, <1>14

(* They hand their lists on as one. *)
LEMMA MergesHand ==
  ASSUME ConditionInvariant, NEW j \in Nat, NEW heap, NEW l, NEW text,
         Merges(heap, l, text, j + 1, Len(statements))
  PROVE  HandedIn(lists, heap, reused, conditions, statements,
                  {} \union {- i : i \in j + 1 .. Len(statements)}, text, l)
<1> DEFINE N == Len(statements)
           G == {} \union {- i : i \in j + 1 .. N}
           H == Holders(conditions, statements)
           L == Live(conditions, statements)
           texts == TextOf(conditions, statements)
           list == ListOf(conditions, statements)
<1>1. /\ heap \in Seq(Parameters) /\ Len(heap) = Len(lists) /\ l \in 0 .. Len(lists)
      /\ l # NoList => \E h \in j + 1 .. N : statements[h].list = l
      /\ \A k \in 1 .. Len(lists) : k # l => heap[k] = lists[k]
      /\ \A k \in 1 .. Len(lists) : Origin(heap, k) = Origin(lists, k)
      /\ l # NoList => Origin(lists, l) \in Numbers(text)
      /\ Numbers(text) \intersect reused = {} => Content(heap, l) = Placeholders(text)
  BY DEF Merges
<1>2. /\ N \in Nat /\ DOMAIN statements = 1 .. N
      /\ DOMAIN lists = 1 .. Len(lists) /\ Len(lists) \in Nat
  BY BoundsAre
<1>3. \A i \in j + 1 .. N : i \in DOMAIN statements
  BY <1>2
<1>4. \A i \in j + 1 .. N : - i \in H /\ - i \in L /\ list[- i] = statements[i].list
  BY <1>3, StatementIs
<1>5. G \subseteq H /\ G \subseteq L
  BY <1>4
<1>6. ASSUME l # NoList PROVE \E g \in G : list[g] = l
  <2>1. PICK h \in j + 1 .. N : statements[h].list = l
    BY <1>1, <1>6
  <2>2. - h \in G
    BY <2>1
  <2> HIDE DEF G, list
  <2> QED BY <2>1, <2>2, <1>4
<1>7. ASSUME l # NoList PROVE Origin(heap, l) \in Numbers(text)
  <2>1. l \in 1 .. Len(lists)
    BY <1>1, <1>2, <1>7 DEF NoList
  <2> QED BY <2>1, <1>1, <1>7
<1> HIDE DEF G, H, L, texts, list
<1>8. Handed(lists, heap, reused, H, L, texts, list, G, text, l)
  BY <1>1, <1>2, <1>5, <1>6, <1>7 DEF Handed
<1> QED BY <1>8 DEF HandedIn, G, H, L, texts, list, N

(* UNION. *)
LEMMA UnionKeeps ==
  ASSUME ConditionInvariant, NEW n, Union(n)
  PROVE  ConditionInvariant'
<1> DEFINE N == Len(statements)
           j == N - n
           parts == LastStatements(n)
           texts == TextsOf(parts)
           text == FlattenSeq(texts)
           l == MergedAll(parts).list
           s == Statement("finalSelect", text, l)
<1>1. /\ n \in 2 .. N
      /\ lists' = MergedAll(parts).heap
      /\ statements' = Append(SubSeq(statements, 1, j), s)
      /\ conditions' = conditions /\ executed' = executed /\ comparisons' = comparisons
      /\ reused' = reused
  BY DEF Union, LastStatements, TextsOf
<1>2. /\ lists \in Seq(Parameters) /\ Len(lists) \in Nat /\ comparisons \in 0 .. MaxComparisons
      /\ comparisons \in Nat /\ N \in Nat /\ reused \subseteq 1 .. comparisons
  BY BoundsAre
<1>3. PartsOf(parts, texts, n, j)
  BY <1>1, PartsAre
<1>4. j \in Nat /\ j \in 0 .. N
  BY <1>1, <1>2
<1> HIDE DEF parts, texts, j
<1>5. Merges(lists', l, text, j + 1, N)
  <2>1. Merges(MergedAll(parts).heap, MergedAll(parts).list, FlattenSeq(texts), j + 1, Len(statements))
    BY <1>1, <1>3, UnionMerges
  <2> QED BY <2>1, <1>1
<1> HIDE DEF text, l, s
<1>6. /\ lists' \in Seq(Parameters) /\ Len(lists') = Len(lists) /\ l \in 0 .. Len(lists)
      /\ text \in Seq(Part) /\ Numbers(text) \subseteq 1 .. comparisons
  BY <1>5 DEF Merges
<1>7. Len(lists) <= Len(lists')
  BY <1>2, <1>6
<1>8. s \in StatementsWith(Len(lists')) /\ s.text = text /\ s.list = l
  <2>1. "finalSelect" \in StatementKinds
    BY DEF StatementKinds
  <2>2. PICK k \in Nat : k = Len(lists')
    BY <1>2, <1>6
  <2>3. l \in 0 .. k
    BY <1>6, <2>2
  <2>4. Statement("finalSelect", text, l) \in StatementsWith(k)
    BY <1>6, <2>1, <2>3, StatementParts
  <2>5. Statement("finalSelect", text, l).text = text /\ Statement("finalSelect", text, l).list = l
    BY DEF Statement
  <2> QED BY <2>2, <2>4, <2>5 DEF s
<1>9. HandedIn(lists, lists', reused', conditions, statements,
               {} \union {- i : i \in j + 1 .. Len(statements)}, s.text, s.list)
  <2>1. PICK heap : heap = lists'
    OBVIOUS
  <2>2. Merges(heap, l, text, j + 1, Len(statements))
    BY <2>1, <1>5
  <2>3. HandedIn(lists, heap, reused, conditions, statements,
                 {} \union {- i : i \in j + 1 .. Len(statements)}, text, l)
    BY <2>2, <1>4, MergesHand
  <2> QED BY <2>1, <2>3, <1>1, <1>8
<1>10. conditions' = Used({})
  BY <1>1, NothingIsUsed
<1>11. Numbers(s.text) \subseteq 1 .. comparisons'
  BY <1>1, <1>6, <1>8
<1>12. /\ comparisons' \in 0 .. MaxComparisons /\ comparisons <= comparisons'
       /\ reused \subseteq reused' /\ reused' \subseteq 1 .. comparisons'
  BY <1>1, <1>2
<1>13. {} \subseteq DOMAIN conditions
  OBVIOUS
<1> QED BY <1>1, <1>4, <1>6, <1>7, <1>8, <1>9, <1>10, <1>11, <1>12, <1>13, AddsStatement

-----------------------------------------------------------------------------
(* The end of a scope *)

Binding(s) == [text |-> s.text, bound |-> IF s.list = NoList THEN <<>> ELSE lists[s.list]]

(* A statement binds its list. *)
LEMMA BindingIs ==
  ASSUME ConditionInvariant, NEW s \in Range(statements)
  PROVE  /\ Binding(s) \in [text : Seq(Part), bound : Seq(Parameter)]
         /\ Binding(s).text = s.text
         /\ Numbers(s.text) \intersect reused = {} => Binding(s).bound = Placeholders(s.text)
<1>1. PICK i \in DOMAIN statements : s = statements[i]
  BY DEF Range
<1>2. s.text \in Seq(Part) /\ s.list \in 0 .. Len(lists)
  BY <1>1, StatementIs
<1>3. Binding(s) = [text |-> s.text, bound |-> Content(lists, s.list)]
  BY DEF Binding, Content
<1>4. Content(lists, s.list) \in Seq(Parameter)
  <2>1. CASE s.list = NoList
    <3>1. <<>> \in Seq(Parameter)
      BY EmptySeq, Zenon
    <3> QED BY <2>1, <3>1 DEF Content
  <2>2. CASE s.list # NoList
    <3>1. s.list \in 1 .. Len(lists) /\ lists \in Seq(Parameters)
      BY <2>2, <1>2, BoundsAre DEF NoList
    <3>2. lists[s.list] \in Parameters
      BY <3>1, LenProperties
    <3> QED BY <2>2, <3>2 DEF Content, Parameters
  <2> QED BY <2>1, <2>2
<1>5. Numbers(s.text) \intersect reused = {} => Content(lists, s.list) = Placeholders(s.text)
  BY <1>1, StatementHasItsList
<1>6. PICK text, bound : text = s.text /\ bound = Content(lists, s.list)
  OBVIOUS
<1>7. Binding(s) = [text |-> text, bound |-> bound] /\ text \in Seq(Part) /\ bound \in Seq(Parameter)
  BY <1>2, <1>3, <1>4, <1>6
<1>8. Binding(s) \in [text : Seq(Part), bound : Seq(Parameter)]
  BY <1>7
<1>9. Binding(s).text = text /\ Binding(s).bound = bound
  BY <1>7
<1> QED BY <1>5, <1>6, <1>8, <1>9

(* Execute. *)
LEMMA ExecuteKeeps ==
  ASSUME ConditionInvariant, Execute
  PROVE  ConditionInvariant'
<1> DEFINE new == {Binding(s) : s \in Range(statements)}
           k == Len(executed)
<1>1. /\ executed' = Append(executed, new) /\ statements' = <<>>
      /\ lists' = lists /\ conditions' = conditions /\ comparisons' = comparisons /\ reused' = reused
  BY DEF Execute, Binding
<1>2. /\ conditions \in Seq(ConditionsWith(Len(lists))) /\ statements \in Seq(StatementsWith(Len(lists)))
      /\ lists \in Seq(Parameters) /\ executed \in Seq(Bindings)
      /\ comparisons \in 0 .. MaxComparisons /\ reused \subseteq 1 .. comparisons
  BY TypesAre DEF ConditionInvariant
<1>3. new \in Bindings
  BY BindingIs DEF Bindings
<1> HIDE DEF new, k
<1>4. /\ executed' \in Seq(Bindings) /\ Len(executed') = k + 1 /\ k \in Nat
      /\ \A i \in 1 .. k : executed'[i] = executed[i]
      /\ executed'[k + 1] = new
  BY <1>1, <1>2, <1>3, AppendProperties, LenProperties DEF k
<1>5. PICK e \in Seq(StatementsWith(Len(lists))) : e = <<>> /\ \A i \in DOMAIN e : FALSE
  <2>1. <<>> \in Seq(StatementsWith(Len(lists)))
    BY EmptySeq, Zenon
  <2>2. \A i \in DOMAIN <<>> : FALSE
    OBVIOUS
  <2> QED BY <2>1, <2>2
<1>6. statements' = e
  BY <1>1, <1>5
<1>7. ConditionTypeOK'
  <2>1. Len(lists') = Len(lists)
    BY <1>1
  <2>2. /\ lists' \in Seq(Parameters) /\ conditions' \in Seq(ConditionsWith(Len(lists')))
        /\ statements' \in Seq(StatementsWith(Len(lists'))) /\ executed' \in Seq(Bindings)
        /\ comparisons' \in 0 .. MaxComparisons /\ reused' \subseteq 1 .. comparisons'
    <3>1. statements' \in Seq(StatementsWith(Len(lists')))
      BY <1>5, <1>6, <2>1
    <3>2. conditions' \in Seq(ConditionsWith(Len(lists')))
      BY <1>1, <1>2, <2>1
    <3> QED BY <3>1, <3>2, <1>1, <1>2, <1>4
  <2> QED BY <2>2 DEF ConditionTypeOK, Text, ListId, NoList, Part, Parameter, Parameters, StatementKinds,
                      ConditionsWith, StatementsWith, Bindings
<1>8. ConditionsAreMeant'
  <2>1. \A c \in DOMAIN conditions :
          Meant(conditions[c]) /\ Numbers(conditions[c].text) \subseteq 1 .. comparisons
    BY DEF ConditionInvariant, ConditionsAreMeant
  <2> QED BY <2>1, <1>1 DEF ConditionsAreMeant
<1>9. StatementsAreNumbered'
  BY <1>5, <1>6 DEF StatementsAreNumbered
<1>10. ListsAreSound'
  <2>1. SoundIn(lists, reused, conditions, statements)
    BY DEF ConditionInvariant, ListsAreSound
  <2>2. SoundIn(lists, reused, conditions, e)
    BY <2>1, <1>2, <1>5, StatementsEnd
  <2>3. SoundIn(lists', reused', conditions', statements')
    BY <2>2, <1>1, <1>6
  <2> QED BY <2>3 DEF ListsAreSound
<1>11. ParametersMatchPlaceholders'
  <2>1. ASSUME NEW s \in UNION Range(executed'), Numbers(s.text) \intersect reused = {}
        PROVE  s.bound = Placeholders(s.text)
    <3>1. PICK i \in DOMAIN executed' : s \in executed'[i]
      BY DEF Range
    <3>2. DOMAIN executed' = 1 .. k + 1 /\ DOMAIN executed = 1 .. k
      BY <1>2, <1>4, LenProperties DEF k
    <3>3. i \in 1 .. k \/ i = k + 1
      BY <3>1, <3>2, <1>4
    <3>4. CASE i \in 1 .. k
      <4>1. s \in executed[i] /\ i \in DOMAIN executed
        BY <3>1, <3>2, <3>4, <1>4
      <4>2. s \in UNION Range(executed)
        BY <4>1 DEF Range
      <4> QED BY <4>2, <2>1 DEF ConditionInvariant, ParametersMatchPlaceholders
    <3>5. CASE i = k + 1
      <4>1. s \in new
        BY <3>1, <3>5, <1>4
      <4>2. PICK t \in Range(statements) : s = Binding(t)
        BY <4>1 DEF new
      <4>3. /\ Binding(t).text = t.text
            /\ Numbers(t.text) \intersect reused = {} => Binding(t).bound = Placeholders(t.text)
        BY BindingIs
      <4> QED BY <4>2, <4>3, <2>1
    <3> QED BY <3>3, <3>4, <3>5
  <2> QED BY <2>1, <1>1 DEF ParametersMatchPlaceholders
<1> QED BY <1>7, <1>8, <1>9, <1>10, <1>11 DEF ConditionInvariant

-----------------------------------------------------------------------------
(* The theorems *)

(* At the start there is nothing. *)
LEMMA ConditionInitInvariant ==
  ConditionInit => ConditionInvariant
<1> SUFFICES ASSUME ConditionInit PROVE ConditionInvariant
  OBVIOUS
<1>1. /\ lists = <<>> /\ conditions = <<>> /\ statements = <<>> /\ executed = <<>>
      /\ comparisons = 0 /\ reused = {}
  BY DEF ConditionInit
<1>2. \A S : <<>> \in Seq(S)
  BY EmptySeq, Zenon
<1>3. \A i \in DOMAIN <<>> : FALSE
  OBVIOUS
<1>4. ConditionTypeOK
  <2>1. lists \in Seq(Parameters) /\ executed \in Seq(Bindings)
    BY <1>1, <1>2
  <2>2. conditions \in Seq(ConditionsWith(Len(lists))) /\ statements \in Seq(StatementsWith(Len(lists)))
    BY <1>1, <1>2
  <2>3. comparisons \in 0 .. MaxComparisons /\ reused \subseteq 1 .. comparisons
    BY <1>1, ConditionBounds
  <2> QED BY <2>1, <2>2, <2>3, TypesAre
<1>5. ConditionsAreMeant /\ StatementsAreNumbered
  BY <1>1, <1>3 DEF ConditionsAreMeant, StatementsAreNumbered
<1>6. ListsAreSound
  <2>1. Holders(conditions, statements) = {}
    BY <1>1, <1>3 DEF Holders
  <2>2. Live(conditions, statements) = {}
    BY <2>1 DEF Live
  <2> QED BY <2>1, <2>2 DEF ListsAreSound, SoundIn, Sound
<1>7. ParametersMatchPlaceholders
  <2>1. UNION Range(executed) = {}
    BY <1>1, <1>3 DEF Range
  <2> QED BY <2>1 DEF ParametersMatchPlaceholders
<1> QED BY <1>4, <1>5, <1>6, <1>7 DEF ConditionInvariant

(* Every step of the statements keeps it. *)
LEMMA ConditionNextKeeps ==
  ASSUME ConditionInvariant, ConditionNext
  PROVE  ConditionInvariant'
<1>1. ASSUME NEW n \in Arity, Compare(n) PROVE ConditionInvariant'
  BY <1>1, CompareKeeps
<1>2. ASSUME NEW n \in Arity, WriteUpdate(n) PROVE ConditionInvariant'
  BY <1>2, WriteUpdateKeeps
<1>3. ASSUME NEW op \in {"AND", "OR"}, NEW c \in DOMAIN conditions, NEW d \in DOMAIN conditions,
             Combine(op, c, d)
      PROVE  ConditionInvariant'
  BY <1>3, CombineKeeps
<1>4. ASSUME NEW kind \in Kinds, WriteWithoutCondition(kind) PROVE ConditionInvariant'
  BY <1>4, WriteWithoutConditionKeeps
<1>5. ASSUME NEW kind \in Kinds, NEW c \in DOMAIN conditions, WriteWithCondition(kind, c)
      PROVE  ConditionInvariant'
  BY <1>5, WriteWithConditionKeeps
<1>6. ASSUME NEW c \in DOMAIN conditions, AppendClause(c) PROVE ConditionInvariant'
  BY <1>6, AppendClauseKeeps
<1>7. ASSUME NEW n \in 2 .. MaxStatements, Union(n) PROVE ConditionInvariant'
  BY <1>7, UnionKeeps
<1>8. ASSUME Execute PROVE ConditionInvariant'
  BY <1>8, ExecuteKeeps
<1> QED BY <1>1, <1>2, <1>3, <1>4, <1>5, <1>6, <1>7, <1>8 DEF ConditionNext

(* A step of the schema or of the table leaves it as it is. *)
LEMMA ConditionsStay ==
  ASSUME ConditionInvariant, UNCHANGED conditionVars
  PROVE  ConditionInvariant'
<1>1. /\ lists' = lists /\ conditions' = conditions /\ statements' = statements
      /\ executed' = executed /\ comparisons' = comparisons /\ reused' = reused
  BY DEF conditionVars
<1>2. ConditionTypeOK'
  <2>1. ConditionTypeOK
    BY DEF ConditionInvariant
  <2> QED BY <2>1, <1>1 DEF ConditionTypeOK, ListId
<1>3. ConditionsAreMeant' /\ StatementsAreNumbered'
  <2>1. ConditionsAreMeant /\ StatementsAreNumbered
    BY DEF ConditionInvariant
  <2> QED BY <2>1, <1>1 DEF ConditionsAreMeant, StatementsAreNumbered
<1>4. ListsAreSound'
  <2>1. ListsAreSound
    BY DEF ConditionInvariant
  <2> QED BY <2>1, <1>1 DEF ListsAreSound
<1>5. ParametersMatchPlaceholders'
  BY <1>1, ExecutedStays DEF ConditionInvariant
<1> QED BY <1>2, <1>3, <1>4, <1>5 DEF ConditionInvariant

(* The conditions, the statements and their lists are as the invariant     *)
(* says in every state, whatever becomes of the class and its table.       *)
THEOREM ConditionInvariantHolds == Spec => []ConditionInvariant
<1>1. Init => ConditionInvariant
  BY ConditionInitInvariant DEF Init
<1>2. ConditionInvariant /\ [Next]_vars => ConditionInvariant'
  <2> SUFFICES ASSUME ConditionInvariant, [Next]_vars PROVE ConditionInvariant'
    OBVIOUS
  <2>1. CASE SchemaNext /\ UNCHANGED <<conditionVars, tableVars>>
    BY <2>1, ConditionsStay
  <2>2. CASE Create
    BY <2>2, ConditionsStay DEF Create
  <2>3. ASSUME NEW entities, NEW withId, Insert(entities, withId) PROVE ConditionInvariant'
    <3>1. UNCHANGED conditionVars
      BY <2>3 DEF Insert
    <3> QED BY <3>1, ConditionsStay
  <2>4. CASE Query
    BY <2>4, ConditionNextKeeps DEF Query
  <2>5. CASE UNCHANGED vars
    <3>1. UNCHANGED conditionVars
      BY <2>5 DEF vars
    <3> QED BY <3>1, ConditionsStay
  <2> QED BY <2>1, <2>2, <2>3, <2>4, <2>5 DEF Next
<1> QED BY <1>1, <1>2, PTL DEF Spec

(* SQLite reads a condition as it was written, as long as no operand of an *)
(* AND in it is an OR: for every number of comparisons and conditions, and *)
(* for every set of comparisons that hold.                                 *)
THEOREM ConditionsAreReadAsWritten == Spec => []PlainConditionsMeanWhatIsWritten
<1>1. ConditionInvariant => PlainConditionsMeanWhatIsWritten
  BY DEF ConditionInvariant, ConditionsAreMeant, Meant, PlainConditionsMeanWhatIsWritten
<1> QED BY <1>1, ConditionInvariantHolds, PTL

(* An executed statement binds to each of its placeholders the value that  *)
(* was written there, unless one of its comparisons is in a condition that *)
(* was used twice: however AND, OR, second clauses and UNION pass lists on *)
(* and append to them.                                                     *)
THEOREM ParametersMatch == Spec => []ParametersMatchPlaceholders
<1>1. ConditionInvariant => ParametersMatchPlaceholders
  BY DEF ConditionInvariant
<1> QED BY <1>1, ConditionInvariantHolds, PTL

-----------------------------------------------------------------------------
(* UpTo *)

UpToBy(f, keep, n) ==
  f = [m \in 0 .. n |-> IF m = 0 THEN <<>> ELSE IF m \in keep THEN Append(f[m - 1], m) ELSE f[m - 1]]

(* The recursive function inside UpTo exists, by a least counterexample. *)
LEMMA UpToExists ==
  ASSUME NEW keep, NEW n \in Nat
  PROVE  \E f : UpToBy(f, keep, n)
<1> DEFINE Bad == {m \in Nat : ~ \E f : UpToBy(f, keep, m)}
<1>1. SUFFICES ASSUME Bad # {} PROVE FALSE
  OBVIOUS
<1>2. PICK m \in Bad : \A k \in Bad : m <= k
  BY <1>1, NatMin
<1>3. m # 0
  <2> DEFINE e == [i \in 0 .. 0 |-> <<>>]
  <2>1. UpToBy(e, keep, 0)
    <3>1. \A i \in 0 .. 0 : i = 0
      OBVIOUS
    <3> QED BY <3>1 DEF UpToBy
  <2> QED BY <2>1
<1>4. m - 1 \in Nat /\ m - 1 \notin Bad /\ m \in Nat
  BY <1>2, <1>3
<1>5. PICK f : UpToBy(f, keep, m - 1)
  BY <1>4
<1> DEFINE next == IF m \in keep THEN Append(f[m - 1], m) ELSE f[m - 1]
           g == [i \in 0 .. m |-> IF i < m THEN f[i] ELSE next]
<1>6. UpToBy(g, keep, m)
  <2>1. SUFFICES ASSUME NEW i \in 0 .. m
                 PROVE  g[i] = IF i = 0 THEN <<>> ELSE IF i \in keep THEN Append(g[i - 1], i) ELSE g[i - 1]
    BY DEF UpToBy
  <2>2. CASE i = m
    <3>1. i - 1 \in 0 .. m /\ i - 1 < m /\ ~ i < m /\ i # 0
      BY <2>2, <1>3, <1>4
    <3>2. g[i] = next /\ g[i - 1] = f[i - 1]
      BY <3>1
    <3> QED BY <2>2, <3>1, <3>2
  <2>3. CASE i # m
    <3>1. i < m /\ i \in 0 .. m - 1 /\ g[i] = f[i]
      BY <2>3, <1>4
    <3>2. f[i] = IF i = 0 THEN <<>> ELSE IF i \in keep THEN Append(f[i - 1], i) ELSE f[i - 1]
      BY <3>1, <1>5 DEF UpToBy
    <3>3. i # 0 => g[i - 1] = f[i - 1]
      BY <3>1, <1>4
    <3> HIDE DEF g
    <3> QED BY <3>1, <3>2, <3>3
  <2> QED BY <2>2, <2>3
<1> QED BY <1>6, <1>2

(* u has the numbers up to n that are in keep, in order; it has as many,   *)
(* and one is at its own place, as long as none is left out.               *)
Selects(u, n, keep) ==
  /\ u \in Seq(Nat)
  /\ \A i \in 1 .. Len(u) : u[i] \in 1 .. n /\ u[i] \in keep
  /\ \A i, j \in 1 .. Len(u) : i < j => u[i] < u[j]
  /\ \A m \in 1 .. n : m \in keep => \E i \in 1 .. Len(u) : u[i] = m
  /\ Len(u) <= n
  /\ Len(u) = n <=> \A m \in 1 .. n : m \in keep
  /\ \A i \in 1 .. n : i <= Len(u) /\ u[i] = i <=> \A m \in 1 .. i : m \in keep

(* No number is selected up to 0. *)
LEMMA SelectsNone ==
  ASSUME NEW keep
  PROVE  Selects(<<>>, 0, keep)
<1>1. <<>> \in Seq(Nat)
  BY EmptySeq, Zenon
<1>2. Len(<<>>) = 0
  OBVIOUS
<1>3. \A i \in 1 .. 0 : FALSE
  OBVIOUS
<1> QED BY <1>1, <1>2, <1>3 DEF Selects

(* The next number is left out. *)
LEMMA SelectsOut ==
  ASSUME NEW keep, NEW n \in Nat, NEW u, Selects(u, n, keep), n + 1 \notin keep
  PROVE  Selects(u, n + 1, keep)
<1>1. /\ u \in Seq(Nat) /\ Len(u) \in Nat /\ Len(u) <= n
      /\ \A i \in 1 .. Len(u) : u[i] \in 1 .. n /\ u[i] \in keep
      /\ \A i, j \in 1 .. Len(u) : i < j => u[i] < u[j]
      /\ \A m \in 1 .. n : m \in keep => \E i \in 1 .. Len(u) : u[i] = m
      /\ \A i \in 1 .. n : i <= Len(u) /\ u[i] = i <=> \A m \in 1 .. i : m \in keep
  BY DEF Selects
<1>2. \A i \in 1 .. Len(u) : u[i] \in 1 .. (n + 1)
  BY <1>1
<1>3. ASSUME NEW m \in 1 .. (n + 1), m \in keep
      PROVE  \E i \in 1 .. Len(u) : u[i] = m
  <2>1. m \in 1 .. n
    BY <1>3
  <2> QED BY <2>1, <1>1, <1>3
<1>4. Len(u) # n + 1 /\ Len(u) <= n + 1 /\ n + 1 \in 1 .. (n + 1)
  BY <1>1
<1>5. ASSUME NEW i \in 1 .. (n + 1)
      PROVE  i <= Len(u) /\ u[i] = i <=> \A m \in 1 .. i : m \in keep
  <2>1. CASE i = n + 1
    <3>1. ~ i <= Len(u) /\ i \in 1 .. i
      BY <2>1, <1>1
    <3> QED BY <3>1, <2>1
  <2>2. CASE i # n + 1
    <3>1. i \in 1 .. n
      BY <2>2
    <3> QED BY <3>1, <1>1
  <2> QED BY <2>1, <2>2
<1> QED BY <1>1, <1>2, <1>3, <1>4, <1>5 DEF Selects

(* The next number is selected. *)
LEMMA SelectsIn ==
  ASSUME NEW keep, NEW n \in Nat, NEW u, Selects(u, n, keep), n + 1 \in keep
  PROVE  Selects(Append(u, n + 1), n + 1, keep)
<1>1. /\ u \in Seq(Nat) /\ Len(u) \in Nat /\ Len(u) <= n
      /\ \A i \in 1 .. Len(u) : u[i] \in 1 .. n /\ u[i] \in keep
      /\ \A i, j \in 1 .. Len(u) : i < j => u[i] < u[j]
      /\ \A m \in 1 .. n : m \in keep => \E i \in 1 .. Len(u) : u[i] = m
      /\ Len(u) = n <=> \A m \in 1 .. n : m \in keep
      /\ \A i \in 1 .. n : i <= Len(u) /\ u[i] = i <=> \A m \in 1 .. i : m \in keep
  BY DEF Selects
<1> DEFINE v == Append(u, n + 1)
<1>2. /\ v \in Seq(Nat) /\ Len(v) = Len(u) + 1 /\ v[Len(u) + 1] = n + 1
      /\ \A i \in 1 .. Len(u) : v[i] = u[i]
  BY <1>1
<1> HIDE DEF v
<1>3. ASSUME NEW i \in 1 .. Len(v) PROVE v[i] \in 1 .. (n + 1) /\ v[i] \in keep
  <2>1. CASE i \in 1 .. Len(u)
    <3>1. v[i] = u[i] /\ u[i] \in 1 .. n /\ u[i] \in keep
      BY <2>1, <1>1, <1>2
    <3> QED BY <3>1
  <2>2. CASE i = Len(u) + 1
    BY <2>2, <1>2
  <2> QED BY <2>1, <2>2, <1>1, <1>2
<1>4. ASSUME NEW i \in 1 .. Len(v), NEW j \in 1 .. Len(v), i < j PROVE v[i] < v[j]
  <2>1. i \in 1 .. Len(u)
    BY <1>1, <1>2, <1>4
  <2>2. v[i] = u[i] /\ u[i] \in 1 .. n
    BY <2>1, <1>1, <1>2
  <2>3. CASE j \in 1 .. Len(u)
    <3>1. v[j] = u[j] /\ u[i] < u[j]
      BY <2>1, <2>3, <1>1, <1>2, <1>4
    <3> QED BY <2>2, <3>1
  <2>4. CASE j = Len(u) + 1
    BY <2>2, <2>4, <1>2
  <2> QED BY <2>3, <2>4, <1>1, <1>2
<1>5. ASSUME NEW m \in 1 .. (n + 1), m \in keep
      PROVE  \E i \in 1 .. Len(v) : v[i] = m
  <2>1. CASE m = n + 1
    <3>1. Len(u) + 1 \in 1 .. Len(v)
      BY <1>1, <1>2
    <3> QED BY <3>1, <2>1, <1>2
  <2>2. CASE m # n + 1
    <3>1. m \in 1 .. n
      BY <2>2
    <3>2. PICK i \in 1 .. Len(u) : u[i] = m
      BY <3>1, <1>1, <1>5
    <3>3. i \in 1 .. Len(v)
      BY <1>1, <1>2
    <3>4. v[i] = m
      BY <3>2, <1>2
    <3> QED BY <3>3, <3>4
  <2> QED BY <2>1, <2>2
<1>6. Len(v) <= n + 1 /\ (Len(v) = n + 1 <=> \A m \in 1 .. (n + 1) : m \in keep)
  <2>1. Len(v) <= n + 1 /\ (Len(v) = n + 1 <=> Len(u) = n)
    BY <1>1, <1>2
  <2>2. (\A m \in 1 .. (n + 1) : m \in keep) <=> (\A m \in 1 .. n : m \in keep)
    <3>1. \A m \in 1 .. (n + 1) : m = n + 1 \/ m \in 1 .. n
      OBVIOUS
    <3>2. \A m \in 1 .. n : m \in 1 .. (n + 1)
      OBVIOUS
    <3> QED BY <3>1, <3>2
  <2> QED BY <2>1, <2>2, <1>1
<1>7. ASSUME NEW i \in 1 .. (n + 1)
      PROVE  i <= Len(v) /\ v[i] = i <=> \A m \in 1 .. i : m \in keep
  <2>1. CASE i = n + 1
    <3>1. i <= Len(v) <=> Len(v) = n + 1
      BY <2>1, <1>1, <1>2, <1>6
    <3>2. Len(v) = n + 1 => v[i] = i
      BY <2>1, <1>1, <1>2
    <3> QED BY <2>1, <3>1, <3>2, <1>6
  <2>2. CASE i # n + 1
    <3>1. i \in 1 .. n
      BY <2>2
    <3>2. i <= Len(u) => i \in 1 .. Len(u) /\ v[i] = u[i] /\ i <= Len(v)
      BY <3>1, <1>1, <1>2
    <3>3. i <= Len(v) /\ ~ i <= Len(u) => v[i] = n + 1
      <4>1. SUFFICES ASSUME i <= Len(v), ~ i <= Len(u) PROVE i = Len(u) + 1
        BY <1>2
      <4> QED BY <4>1, <3>1, <1>1, <1>2
    <3>4. i <= Len(v) /\ v[i] = i <=> i <= Len(u) /\ u[i] = i
      BY <2>2, <3>2, <3>3
    <3> QED BY <3>1, <3>4, <1>1
  <2> QED BY <2>1, <2>2
<1> QED BY <1>2, <1>3, <1>4, <1>5, <1>6, <1>7 DEF Selects, v

(* UpTo selects, for every n, by a least counterexample. *)
LEMMA UpToSelects ==
  ASSUME NEW keep, NEW n \in Nat
  PROVE  Selects(UpTo(n, keep), n, keep)
<1> DEFINE kept[m \in 0 .. n] ==
             IF m = 0 THEN <<>> ELSE IF m \in keep THEN Append(kept[m - 1], m) ELSE kept[m - 1]
<1>1. UpTo(n, keep) = kept[n]
  BY DEF UpTo
<1>2. kept = CHOOSE f : UpToBy(f, keep, n)
  BY DEF UpToBy
<1>3. UpToBy(kept, keep, n)
  <2> HIDE DEF kept
  <2> QED BY <1>2, UpToExists
<1> HIDE DEF kept
<1>4. PICK f : f = kept
  OBVIOUS
<1>5. \A m \in 0 .. n :
        f[m] = IF m = 0 THEN <<>> ELSE IF m \in keep THEN Append(f[m - 1], m) ELSE f[m - 1]
  BY <1>3, <1>4 DEF UpToBy
<1> DEFINE Bad == {m \in Nat : m <= n /\ ~ Selects(f[m], m, keep)}
<1>6. SUFFICES ASSUME Bad # {} PROVE FALSE
  BY <1>1, <1>4
<1>7. PICK m \in Bad : \A k \in Bad : m <= k
  <2> HIDE DEF Bad
  <2>1. Bad \subseteq Nat
    BY DEF Bad
  <2> QED BY <2>1, <1>6, NatMin
<1>8. m \in Nat /\ m <= n /\ ~ Selects(f[m], m, keep) /\ m \in 0 .. n
  BY <1>7
<1>9. m # 0
  <2>1. f[0] = <<>>
    <3>1. 0 \in 0 .. n
      OBVIOUS
    <3> QED BY <3>1, <1>5
  <2> QED BY <2>1, <1>8, SelectsNone
<1>10. PICK k \in Nat : k = m - 1
  BY <1>8, <1>9
<1>11. k + 1 = m /\ k <= n /\ ~ m <= k
  BY <1>8, <1>10
<1>12. Selects(f[k], k, keep)
  <2>1. k \notin Bad
    <3> HIDE DEF Bad
    <3> QED BY <1>7, <1>11
  <2> QED BY <2>1, <1>11
<1>13. f[m] = IF m \in keep THEN Append(f[k], m) ELSE f[k]
  BY <1>5, <1>8, <1>9, <1>10
<1> HIDE DEF Bad
<1>14. CASE m \in keep
  <2>1. Selects(Append(f[k], k + 1), k + 1, keep)
    BY <1>11, <1>12, <1>14, SelectsIn
  <2> QED BY <2>1, <1>8, <1>11, <1>13, <1>14
<1>15. CASE m \notin keep
  <2>1. Selects(f[k], k + 1, keep)
    BY <1>11, <1>12, <1>15, SelectsOut
  <2> QED BY <2>1, <1>8, <1>11, <1>13, <1>15
<1> QED BY <1>14, <1>15

-----------------------------------------------------------------------------
(* What the processor has done with the properties before the one it is at *)

Typed(c, p) == c[p].type # "Other"
Keyed(c, p, kind) == c[p].key = kind
Incremented(c, p) == c[p].isAutoincrement
AcceptsNull(c, p) == c[p].nullable
IsUnsigned(c, p) == c[p].type = "ULong"
IsRowId(c, p) == c[p].type = "Long"
RowIdOf(c, p) == c[p].key = "primary" /\ c[p].type \in {"Long", "ULong"}
ElementOf(c, p) ==
  LET elements == UpTo(Len(c), {i \in DOMAIN c : c[i].backed})
  IN  IF p \in DOMAIN elements THEN elements[p] ELSE NoProperty

ColumnsOf(c) == [name : DOMAIN c, type : {"INTEGER", "BIGINT", "INT", "TEXT"}, comma : BOOLEAN,
                 constraints : SUBSET {"PRIMARY KEY", "AUTOINCREMENT", "NOT NULL"}]
AccessorsOf(c) == [property : DOMAIN c, column : {NoProperty} \union DOMAIN c, acceptsNull : BOOLEAN]
ParsersOf(c) == [primaryKeyName : {NoProperty} \union DOMAIN c, isAutomaticIncrement : BOOLEAN,
                 isRowId : BOOLEAN, compositePrimaryKeys : Seq(DOMAIN c)]

ConstraintsOf(c, p) ==
  IF Keyed(c, p, "primary") THEN {"PRIMARY KEY"} \union IF Incremented(c, p) THEN {"AUTOINCREMENT"} ELSE {}
  ELSE IF Keyed(c, p, "composite") \/ AcceptsNull(c, p) THEN {} ELSE {"NOT NULL"}
ColumnFor(c, p) == [name |-> p, type |-> SQLTypeName(c[p].type, Keyed(c, p, "primary")),
                    constraints |-> ConstraintsOf(c, p), comma |-> p < Len(c)]

NameAt(cols, i) == cols[i].name
PropertyAt(acc, i) == acc[i].property
ColumnAt(acc, i) == acc[i].column
NullAt(acc, i) == acc[i].acceptsNull
KeyName(pr) == pr.primaryKeyName
KeyIsRowId(pr) == pr.isRowId
Composites(pr) == pr.compositePrimaryKeys

(* One column for each property before k that has one, in order. *)
ColumnsWritten(c, cols, k) ==
  /\ cols \in Seq(ColumnsOf(c))
  /\ \A i \in 1 .. Len(cols) : /\ NameAt(cols, i) \in 1 .. (k - 1) /\ Typed(c, NameAt(cols, i))
                               /\ cols[i] = ColumnFor(c, NameAt(cols, i))
  /\ \A i, j \in 1 .. Len(cols) : i < j => NameAt(cols, i) < NameAt(cols, j)
  /\ \A p \in 1 .. (k - 1) : Typed(c, p) => \E i \in 1 .. Len(cols) : NameAt(cols, i) = p

(* Accessors of properties before k, each with the element at its place. *)
AccessorsWritten(c, acc, k) ==
  /\ acc \in Seq(AccessorsOf(c))
  /\ \A i \in 1 .. Len(acc) :
       /\ PropertyAt(acc, i) \in 1 .. (k - 1)
       /\ ColumnAt(acc, i) = ElementOf(c, PropertyAt(acc, i))
       /\ NullAt(acc, i) <=> \/ AcceptsNull(c, PropertyAt(acc, i))
                             \/ \E q \in 1 .. PropertyAt(acc, i) : RowIdOf(c, q)

(* The keys among the properties before k. *)
KeysParsed(c, pr, k) ==
  /\ pr \in ParsersOf(c)
  /\ KeyName(pr) # NoProperty =>
       /\ KeyName(pr) \in 1 .. (k - 1)
       /\ Typed(c, KeyName(pr)) /\ Keyed(c, KeyName(pr), "primary")
  /\ \A p \in 1 .. (k - 1) : Typed(c, p) /\ Keyed(c, p, "primary") => p = KeyName(pr)
  /\ KeyIsRowId(pr) <=> \E p \in 1 .. (k - 1) : RowIdOf(c, p)
  /\ \A i \in 1 .. Len(Composites(pr)) : /\ Composites(pr)[i] \in 1 .. (k - 1)
                                         /\ Typed(c, Composites(pr)[i])
                                         /\ Keyed(c, Composites(pr)[i], "composite")
  /\ \A p \in 1 .. (k - 1) :
       Typed(c, p) /\ Keyed(c, p, "composite") => \E i \in 1 .. Len(Composites(pr)) : Composites(pr)[i] = p

(* What parseProperty has let through. *)
LetThrough(c, p) ==
  /\ ~ Keyed(c, p, "both")
  /\ Keyed(c, p, "primary") =>
       AcceptsNull(c, p) /\ (Incremented(c, p) => IsRowId(c, p) \/ IsUnsigned(c, p))
  /\ Keyed(c, p, "composite") => ~ AcceptsNull(c, p)
Checked(c, k) == \A p \in 1 .. (k - 1) : Typed(c, p) => LetThrough(c, p)

SchemaInvariant ==
  /\ class \in Classes /\ index \in 1 .. Len(class) + 1
  /\ outcome \in {"compiling", "generated", "rejected"}
  /\ outcome = "generated" => index = Len(class) + 1
  /\ ColumnsWritten(class, columns, index)
  /\ AccessorsWritten(class, accessors, index)
  /\ KeysParsed(class, parser, index)
  /\ Checked(class, index)

(* A class and its properties. *)
LEMMA ClassIs ==
  ASSUME NEW c \in Classes
  PROVE  /\ Len(c) \in Nat /\ DOMAIN c = 1 .. Len(c)
         /\ \A p \in 1 .. Len(c) : c[p] \in Property /\ AcceptsNull(c, p) \in BOOLEAN
<1>1. c \in Seq(Property)
  BY ClassesAssumption
<1>2. Len(c) \in Nat /\ DOMAIN c = 1 .. Len(c) /\ \A p \in 1 .. Len(c) : c[p] \in Property
  <2> HIDE DEF Property
  <2> QED BY <1>1
<1>3. \A p \in 1 .. Len(c) : AcceptsNull(c, p) \in BOOLEAN
  BY <1>2 DEF Property, AcceptsNull
<1> QED BY <1>2, <1>3

(* The element at a place is a property or none. *)
LEMMA ElementIs ==
  ASSUME NEW c \in Classes, NEW p
  PROVE  ElementOf(c, p) \in {NoProperty} \union DOMAIN c
<1> DEFINE keep == {i \in DOMAIN c : c[i].backed}
           elements == UpTo(Len(c), keep)
<1>1. Selects(elements, Len(c), keep)
  BY ClassIs, UpToSelects
<1>2. \A i \in DOMAIN elements : elements[i] \in DOMAIN c
  BY <1>1 DEF Selects
<1> QED BY <1>2 DEF ElementOf

(* The column of a property. *)
LEMMA ColumnForIs ==
  ASSUME NEW c \in Classes, NEW p \in 1 .. Len(c), Typed(c, p)
  PROVE  ColumnFor(c, p) \in ColumnsOf(c) /\ ColumnFor(c, p).name = p
<1>1. p \in DOMAIN c /\ (p < Len(c)) \in BOOLEAN /\ c[p].type \in {"Long", "ULong", "Int", "String"}
  BY ClassIs DEF Property, PropertyType, Typed
<1>2. SQLTypeName(c[p].type, Keyed(c, p, "primary")) \in {"INTEGER", "BIGINT", "INT", "TEXT"}
  BY <1>1 DEF SQLTypeName
<1>3. ConstraintsOf(c, p) \in SUBSET {"PRIMARY KEY", "AUTOINCREMENT", "NOT NULL"}
  BY DEF ConstraintsOf
<1> QED BY <1>1, <1>2, <1>3 DEF ColumnFor, ColumnsOf

(* The columns when another is written, and when a property has none. *)
LEMMA ColumnsNext ==
  ASSUME NEW c \in Classes, NEW cols, NEW k \in 1 .. Len(c), ColumnsWritten(c, cols, k), Typed(c, k)
  PROVE  ColumnsWritten(c, Append(cols, ColumnFor(c, k)), k + 1)
<1> DEFINE new == Append(cols, ColumnFor(c, k))
<1>1. /\ cols \in Seq(ColumnsOf(c)) /\ Len(cols) \in Nat /\ k \in Nat /\ (k + 1) - 1 = k
      /\ \A i \in 1 .. Len(cols) : /\ NameAt(cols, i) \in 1 .. (k - 1) /\ Typed(c, NameAt(cols, i))
                                   /\ cols[i] = ColumnFor(c, NameAt(cols, i))
      /\ \A i, j \in 1 .. Len(cols) : i < j => NameAt(cols, i) < NameAt(cols, j)
      /\ \A p \in 1 .. (k - 1) : Typed(c, p) => \E i \in 1 .. Len(cols) : NameAt(cols, i) = p
  BY ClassIs DEF ColumnsWritten
<1>2. ColumnFor(c, k) \in ColumnsOf(c) /\ ColumnFor(c, k).name = k
  BY ColumnForIs
<1> HIDE DEF ColumnFor
<1>3. /\ new \in Seq(ColumnsOf(c)) /\ Len(new) = Len(cols) + 1 /\ new[Len(cols) + 1] = ColumnFor(c, k)
      /\ \A i \in 1 .. Len(cols) : new[i] = cols[i]
  <2> DEFINE T == ColumnsOf(c)
             x == ColumnFor(c, k)
  <2>1. cols \in Seq(T) /\ x \in T
    BY <1>1, <1>2
  <2> HIDE DEF T, x
  <2> QED BY <2>1 DEF T, x
<1> HIDE DEF new
<1>4. NameAt(new, Len(cols) + 1) = k /\ \A i \in 1 .. Len(cols) : NameAt(new, i) = NameAt(cols, i)
  BY <1>2, <1>3 DEF NameAt
<1>5. \A i \in 1 .. Len(new) : i \in 1 .. Len(cols) \/ i = Len(cols) + 1
  BY <1>1, <1>3
<1>6. \A i \in 1 .. Len(cols) : i \in 1 .. Len(new)
  BY <1>1, <1>3
<1>7. ASSUME NEW i \in 1 .. Len(new)
      PROVE  /\ NameAt(new, i) \in 1 .. k /\ Typed(c, NameAt(new, i))
             /\ new[i] = ColumnFor(c, NameAt(new, i))
  <2>1. CASE i \in 1 .. Len(cols)
    <3>1. NameAt(cols, i) \in 1 .. (k - 1)
      BY <2>1, <1>1
    <3>2. NameAt(cols, i) \in 1 .. k
      BY <3>1, <1>1
    <3> QED BY <2>1, <3>2, <1>1, <1>3, <1>4
  <2>2. CASE i = Len(cols) + 1
    <3>1. k \in 1 .. k
      BY <1>1
    <3> QED BY <2>2, <3>1, <1>3, <1>4
  <2> QED BY <2>1, <2>2, <1>5
<1>8. ASSUME NEW i \in 1 .. Len(new), NEW j \in 1 .. Len(new), i < j
      PROVE  NameAt(new, i) < NameAt(new, j)
  <2>1. i \in 1 .. Len(cols)
    BY <1>1, <1>3, <1>8
  <2>2. NameAt(new, i) = NameAt(cols, i) /\ NameAt(cols, i) \in 1 .. (k - 1)
    BY <2>1, <1>1, <1>4
  <2>3. CASE j \in 1 .. Len(cols)
    BY <2>1, <2>3, <1>1, <1>4, <1>8
  <2>4. CASE j = Len(cols) + 1
    <3>1. NameAt(new, j) = k
      BY <2>4, <1>4
    <3> QED BY <2>2, <3>1, <1>1
  <2> QED BY <2>3, <2>4, <1>5
<1>9. ASSUME NEW p \in 1 .. k, Typed(c, p)
      PROVE  \E i \in 1 .. Len(new) : NameAt(new, i) = p
  <2>1. CASE p = k
    <3>1. Len(cols) + 1 \in 1 .. Len(new)
      BY <1>1, <1>3
    <3> QED BY <2>1, <3>1, <1>4
  <2>2. CASE p # k
    <3>1. p \in 1 .. (k - 1)
      BY <2>2, <1>1
    <3> QED BY <3>1, <1>1, <1>4, <1>6, <1>9
  <2> QED BY <2>1, <2>2
<1> QED BY <1>1, <1>3, <1>7, <1>8, <1>9 DEF ColumnsWritten, new

(* The same columns, when a property has none. *)
LEMMA ColumnsSkip ==
  ASSUME NEW c, NEW cols, NEW k \in Nat, ColumnsWritten(c, cols, k), ~ Typed(c, k)
  PROVE  ColumnsWritten(c, cols, k + 1)
<1>1. (k + 1) - 1 = k /\ \A p \in 1 .. k : p # k => p \in 1 .. (k - 1)
  OBVIOUS
<1>2. \A p \in 1 .. (k - 1) : p \in 1 .. k
  OBVIOUS
<1> QED BY <1>1, <1>2 DEF ColumnsWritten

(* The accessors when another is written, and when a property has none. *)
LEMMA AccessorsNext ==
  ASSUME NEW c \in Classes, NEW acc, NEW k \in 1 .. Len(c), AccessorsWritten(c, acc, k), NEW a,
         a.property = k, a.column = ElementOf(c, k), a \in AccessorsOf(c),
         a.acceptsNull <=> AcceptsNull(c, k) \/ \E q \in 1 .. k : RowIdOf(c, q)
  PROVE  AccessorsWritten(c, Append(acc, a), k + 1)
<1> DEFINE new == Append(acc, a)
<1>1. /\ acc \in Seq(AccessorsOf(c)) /\ Len(acc) \in Nat /\ k \in Nat /\ (k + 1) - 1 = k
      /\ \A i \in 1 .. Len(acc) :
           /\ PropertyAt(acc, i) \in 1 .. (k - 1)
           /\ ColumnAt(acc, i) = ElementOf(c, PropertyAt(acc, i))
           /\ NullAt(acc, i) <=> \/ AcceptsNull(c, PropertyAt(acc, i))
                                 \/ \E q \in 1 .. PropertyAt(acc, i) : RowIdOf(c, q)
  BY ClassIs DEF AccessorsWritten
<1>2. /\ new \in Seq(AccessorsOf(c)) /\ Len(new) = Len(acc) + 1 /\ new[Len(acc) + 1] = a
      /\ \A i \in 1 .. Len(acc) : new[i] = acc[i]
  <2> DEFINE T == AccessorsOf(c)
  <2>1. acc \in Seq(T) /\ a \in T
    BY <1>1
  <2> HIDE DEF T
  <2> QED BY <2>1 DEF T
<1> HIDE DEF new
<1>3. ASSUME NEW i \in 1 .. Len(new)
      PROVE  /\ PropertyAt(new, i) \in 1 .. k
             /\ ColumnAt(new, i) = ElementOf(c, PropertyAt(new, i))
             /\ NullAt(new, i) <=> \/ AcceptsNull(c, PropertyAt(new, i))
                                   \/ \E q \in 1 .. PropertyAt(new, i) : RowIdOf(c, q)
  <2>1. CASE i \in 1 .. Len(acc)
    <3>1. /\ PropertyAt(new, i) = PropertyAt(acc, i) /\ ColumnAt(new, i) = ColumnAt(acc, i)
          /\ NullAt(new, i) = NullAt(acc, i)
      BY <2>1, <1>2 DEF PropertyAt, ColumnAt, NullAt
    <3>2. PropertyAt(acc, i) \in 1 .. (k - 1)
      BY <2>1, <1>1
    <3>3. PropertyAt(acc, i) \in 1 .. k
      BY <3>2, <1>1
    <3> QED BY <2>1, <3>1, <3>3, <1>1
  <2>2. CASE i = Len(acc) + 1
    <3>1. PropertyAt(new, i) = k /\ ColumnAt(new, i) = a.column /\ NullAt(new, i) = a.acceptsNull
      BY <2>2, <1>2 DEF PropertyAt, ColumnAt, NullAt
    <3>2. k \in 1 .. k
      BY <1>1
    <3> QED BY <3>1, <3>2
  <2> QED BY <2>1, <2>2, <1>1, <1>2
<1> QED BY <1>1, <1>2, <1>3 DEF AccessorsWritten, new

(* The same accessors, when a property has none. *)
LEMMA AccessorsSkip ==
  ASSUME NEW c, NEW acc, NEW k \in Nat, AccessorsWritten(c, acc, k)
  PROVE  AccessorsWritten(c, acc, k + 1)
<1>1. \A p \in 1 .. (k - 1) : p \in 1 .. ((k + 1) - 1)
  OBVIOUS
<1> QED BY <1>1 DEF AccessorsWritten

(* The keys when a property without one is passed. *)
LEMMA KeysSkip ==
  ASSUME NEW c \in Classes, NEW pr, NEW k \in 1 .. Len(c), KeysParsed(c, pr, k),
         Typed(c, k) => ~ Keyed(c, k, "primary") /\ ~ Keyed(c, k, "composite"), ~ RowIdOf(c, k)
  PROVE  KeysParsed(c, pr, k + 1)
<1>1. k \in Nat /\ (k + 1) - 1 = k
  BY ClassIs
<1>2. \A p \in 1 .. k : p = k \/ p \in 1 .. (k - 1)
  BY <1>1
<1>3. \A p \in 1 .. (k - 1) : p \in 1 .. k
  BY <1>1
<1>4. (\E p \in 1 .. k : RowIdOf(c, p)) <=> \E p \in 1 .. (k - 1) : RowIdOf(c, p)
  BY <1>2, <1>3
<1> QED BY <1>1, <1>2, <1>3, <1>4 DEF KeysParsed

(* The keys when a primary key is the next property. *)
LEMMA KeysPrimary ==
  ASSUME NEW c \in Classes, NEW pr, NEW k \in 1 .. Len(c), KeysParsed(c, pr, k),
         Typed(c, k), Keyed(c, k, "primary"), KeyName(pr) = NoProperty,
         NEW pr2 \in ParsersOf(c), KeyName(pr2) = k, KeyIsRowId(pr2) <=> RowIdOf(c, k),
         Composites(pr2) = Composites(pr)
  PROVE  KeysParsed(c, pr2, k + 1)
<1>1. k \in Nat /\ (k + 1) - 1 = k /\ k \in 1 .. k
  BY ClassIs
<1>2. \A p \in 1 .. k : p = k \/ p \in 1 .. (k - 1)
  BY <1>1
<1>3. \A p \in 1 .. (k - 1) : p \in 1 .. k /\ p # NoProperty
  BY <1>1 DEF NoProperty
<1>4. \A p \in 1 .. (k - 1) : ~ (Typed(c, p) /\ Keyed(c, p, "primary"))
  BY <1>3 DEF KeysParsed
<1>5. ASSUME NEW p \in 1 .. k, RowIdOf(c, p)
      PROVE  p = k
  <2>1. Typed(c, p) /\ Keyed(c, p, "primary")
    BY <1>5 DEF RowIdOf, Typed, Keyed
  <2> QED BY <2>1, <1>2, <1>4
<1>6. KeyIsRowId(pr2) <=> \E p \in 1 .. k : RowIdOf(c, p)
  BY <1>1, <1>5
<1>7. \A p \in 1 .. k : Typed(c, p) /\ Keyed(c, p, "primary") => p = k
  BY <1>2, <1>4
<1>8. ~ Keyed(c, k, "composite")
  BY DEF Keyed
<1>9. /\ \A i \in 1 .. Len(Composites(pr)) : /\ Composites(pr)[i] \in 1 .. k
                                             /\ Typed(c, Composites(pr)[i])
                                             /\ Keyed(c, Composites(pr)[i], "composite")
      /\ \A p \in 1 .. k : Typed(c, p) /\ Keyed(c, p, "composite") =>
                             \E i \in 1 .. Len(Composites(pr)) : Composites(pr)[i] = p
  BY <1>2, <1>3, <1>8 DEF KeysParsed
<1> QED BY <1>1, <1>6, <1>7, <1>9 DEF KeysParsed

(* The keys when a part of a composite key is the next property. *)
LEMMA KeysComposite ==
  ASSUME NEW c \in Classes, NEW pr, NEW k \in 1 .. Len(c), KeysParsed(c, pr, k),
         Typed(c, k), Keyed(c, k, "composite"),
         NEW pr2 \in ParsersOf(c), KeyName(pr2) = KeyName(pr), KeyIsRowId(pr2) = KeyIsRowId(pr),
         Composites(pr2) = Append(Composites(pr), k)
  PROVE  KeysParsed(c, pr2, k + 1)
<1>1. k \in Nat /\ (k + 1) - 1 = k /\ k \in 1 .. k
  BY ClassIs
<1>2. \A p \in 1 .. k : p = k \/ p \in 1 .. (k - 1)
  BY <1>1
<1>3. \A p \in 1 .. (k - 1) : p \in 1 .. k
  BY <1>1
<1>4. ~ Keyed(c, k, "primary") /\ ~ RowIdOf(c, k)
  BY DEF Keyed, RowIdOf
<1>5. (\E p \in 1 .. k : RowIdOf(c, p)) <=> \E p \in 1 .. (k - 1) : RowIdOf(c, p)
  BY <1>2, <1>3, <1>4
<1>6. PICK s, t : s = Composites(pr) /\ t = Composites(pr2)
  OBVIOUS
<1>7. s \in Seq(DOMAIN c) /\ k \in DOMAIN c
  BY <1>6, ClassIs DEF KeysParsed, ParsersOf, Composites
<1>8. /\ t = Append(s, k) /\ Len(s) \in Nat /\ Len(t) = Len(s) + 1 /\ t[Len(s) + 1] = k
      /\ \A i \in 1 .. Len(s) : t[i] = s[i]
  BY <1>6, <1>7
<1>9. /\ \A i \in 1 .. Len(t) : i \in 1 .. Len(s) \/ i = Len(s) + 1
      /\ \A i \in 1 .. Len(s) : i \in 1 .. Len(t)
      /\ Len(s) + 1 \in 1 .. Len(t)
  BY <1>8
<1>10. /\ \A i \in 1 .. Len(s) : /\ s[i] \in 1 .. (k - 1) /\ Typed(c, s[i])
                                 /\ Keyed(c, s[i], "composite")
       /\ \A p \in 1 .. (k - 1) : Typed(c, p) /\ Keyed(c, p, "composite") =>
                                    \E i \in 1 .. Len(s) : s[i] = p
  BY <1>6 DEF KeysParsed
<1>11. \A i \in 1 .. Len(t) : t[i] \in 1 .. k /\ Typed(c, t[i]) /\ Keyed(c, t[i], "composite")
  BY <1>1, <1>3, <1>8, <1>9, <1>10
<1>12. \A p \in 1 .. k : Typed(c, p) /\ Keyed(c, p, "composite") => \E i \in 1 .. Len(t) : t[i] = p
  BY <1>2, <1>8, <1>9, <1>10
<1>13. /\ KeyName(pr) # NoProperty => /\ KeyName(pr) \in 1 .. k
                                      /\ Typed(c, KeyName(pr)) /\ Keyed(c, KeyName(pr), "primary")
       /\ \A p \in 1 .. k : Typed(c, p) /\ Keyed(c, p, "primary") => p = KeyName(pr)
       /\ KeyIsRowId(pr) <=> \E p \in 1 .. k : RowIdOf(c, p)
  BY <1>2, <1>3, <1>4, <1>5 DEF KeysParsed
<1> QED BY <1>1, <1>6, <1>11, <1>12, <1>13 DEF KeysParsed

(* The checks, when one more property has passed them. *)
LEMMA CheckedNext ==
  ASSUME NEW c, NEW k \in Nat, Checked(c, k), Typed(c, k) => LetThrough(c, k)
  PROVE  Checked(c, k + 1)
<1>1. (k + 1) - 1 = k /\ \A p \in 1 .. k : p = k \/ p \in 1 .. (k - 1)
  OBVIOUS
<1> QED BY <1>1 DEF Checked

-----------------------------------------------------------------------------
(* The steps of the processor *)

(* Before the first property nothing is written. *)
LEMMA SchemaInitInvariant ==
  ASSUME SchemaInit
  PROVE  SchemaInvariant
<1>1. /\ class \in Classes /\ index = 1 /\ columns = <<>> /\ accessors = <<>> /\ outcome = "compiling"
      /\ parser = [primaryKeyName |-> NoProperty, isAutomaticIncrement |-> FALSE,
                   isRowId |-> FALSE, compositePrimaryKeys |-> <<>>]
  BY DEF SchemaInit
<1>2. index \in 1 .. Len(class) + 1 /\ (1 - 1) = 0
  BY <1>1, ClassIs
<1>3. \A S : <<>> \in Seq(S)
  BY EmptySeq, Zenon
<1>4. Len(<<>>) = 0 /\ \A i \in 1 .. 0 : FALSE
  OBVIOUS
<1>5. ColumnsWritten(class, <<>>, 1) /\ AccessorsWritten(class, <<>>, 1) /\ Checked(class, 1)
  BY <1>2, <1>3, <1>4 DEF ColumnsWritten, AccessorsWritten, Checked
<1>6. /\ parser \in ParsersOf(class) /\ KeyName(parser) = NoProperty /\ KeyIsRowId(parser) = FALSE
      /\ Composites(parser) = <<>>
  BY <1>1, <1>3 DEF ParsersOf, KeyName, KeyIsRowId, Composites
<1>7. KeysParsed(class, parser, 1)
  BY <1>2, <1>4, <1>6 DEF KeysParsed
<1> QED BY <1>1, <1>2, <1>5, <1>7 DEF SchemaInvariant

(* At a property. *)
LEMMA Presents ==
  ASSUME SchemaInvariant, Present
  PROVE  /\ class \in Classes /\ index \in 1 .. Len(class) /\ index \in Nat /\ Len(class) \in Nat
         /\ index \in DOMAIN class /\ index + 1 \in 1 .. Len(class) + 1
         /\ outcome = "compiling" /\ Current = class[index]
         /\ ColumnsWritten(class, columns, index) /\ AccessorsWritten(class, accessors, index)
         /\ KeysParsed(class, parser, index) /\ Checked(class, index)
  BY ClassIs DEF SchemaInvariant, Present, Current

(* A property without a column. *)
LEMMA SkipPropertyKeeps ==
  ASSUME SchemaInvariant, SkipProperty
  PROVE  SchemaInvariant'
<1>1. Present /\ ~ Typed(class, index)
  BY DEF SkipProperty, Typed, Current
<1>2. ~ RowIdOf(class, index)
  BY <1>1 DEF Typed, RowIdOf
<1>3. /\ ColumnsWritten(class, columns, index + 1) /\ AccessorsWritten(class, accessors, index + 1)
      /\ KeysParsed(class, parser, index + 1) /\ Checked(class, index + 1)
  BY <1>1, <1>2, Presents, ColumnsSkip, AccessorsSkip, KeysSkip, CheckedNext
<1>4. /\ class' = class /\ columns' = columns /\ accessors' = accessors /\ parser' = parser
      /\ outcome' = outcome /\ index' = index + 1
  BY DEF SkipProperty
<1> QED BY <1>1, <1>3, <1>4, Presents DEF SchemaInvariant

(* A property that is rejected. *)
LEMMA RejectKeeps ==
  ASSUME SchemaInvariant, Reject
  PROVE  SchemaInvariant'
  BY DEF SchemaInvariant, Reject

(* The end of the class. *)
LEMMA GenerateKeeps ==
  ASSUME SchemaInvariant, Generate
  PROVE  SchemaInvariant'
<1>1. index = Len(class) + 1
  BY ClassIs DEF SchemaInvariant, Generate
<1> QED BY <1>1 DEF SchemaInvariant, Generate

(* What a property is that has a column and is not rejected. *)
LEMMA Accepted ==
  ASSUME SchemaInvariant, HasColumn, ~ Rejected(Current)
  PROVE  /\ Present /\ Typed(class, index) /\ LetThrough(class, index)
         /\ Keyed(class, index, "primary") <=> IsPrimaryKey(Current)
         /\ Keyed(class, index, "primary") => KeyName(parser) = NoProperty
         /\ RowIdOf(class, index) <=> Keyed(class, index, "primary") /\ IsLong(Current)
<1>1. Present /\ Typed(class, index) /\ Current = class[index] /\ Current.type # "Other"
  BY DEF HasColumn, Current, Typed
<1>2. Current \in Property
  BY <1>1, Presents, ClassIs
<1>3. PICK p : p = Current
  OBVIOUS
<1>4. /\ p.type \in {"Long", "ULong", "Int", "String"} /\ p.key \in {"none", "primary", "composite", "both"}
      /\ p.nullable \in BOOLEAN /\ p.isAutoincrement \in BOOLEAN
  BY <1>1, <1>2, <1>3 DEF Property, PropertyType
<1>5. p.key # "both" /\ (p.key = "primary" <=> IsPrimaryKey(p))
  BY <1>3, <1>4 DEF Rejected, IsPrimaryKey
<1>6. IsLong(p) <=> p.type \in {"Long", "ULong"}
  BY <1>4 DEF IsLong, SQLTypeName
<1>7. p.key = "primary" => p.nullable /\ (p.isAutoincrement => IsLong(p)) /\ KeyName(parser) = NoProperty
  BY <1>3, <1>5 DEF Rejected, KeyName
<1>8. p.key = "composite" => ~ p.nullable
  BY <1>3 DEF Rejected
<1>9. class[index] = p
  BY <1>1, <1>3
<1>10. LetThrough(class, index)
  BY <1>5, <1>6, <1>7, <1>8, <1>9 DEF LetThrough, Keyed, AcceptsNull, Incremented, IsRowId, IsUnsigned
<1> QED BY <1>1, <1>3, <1>5, <1>6, <1>7, <1>9, <1>10 DEF Keyed, RowIdOf

(* The column and the accessor that AddColumn writes. *)
LEMMA AddColumnKeeps ==
  ASSUME SchemaInvariant, NEW constraints, AddColumn(constraints),
         constraints = ConstraintsOf(class, index),
         KeysParsed(class, parser', index + 1)
  PROVE  SchemaInvariant'
<1>1. HasColumn /\ ~ Rejected(Current)
  BY DEF AddColumn
<1>2. /\ Present /\ Typed(class, index) /\ LetThrough(class, index)
      /\ Keyed(class, index, "primary") <=> IsPrimaryKey(Current)
  BY <1>1, Accepted
<1>3. /\ class \in Classes /\ index \in 1 .. Len(class) /\ index \in Nat /\ Len(class) \in Nat
      /\ index \in DOMAIN class /\ index + 1 \in 1 .. Len(class) + 1
      /\ outcome = "compiling" /\ Current = class[index]
      /\ ColumnsWritten(class, columns, index) /\ AccessorsWritten(class, accessors, index)
      /\ Checked(class, index)
  BY <1>2, Presents
<1>4. columns' = Append(columns, ColumnFor(class, index))
  <2>1. SQLTypeName(Current.type, IsPrimaryKey(Current))
          = SQLTypeName(class[index].type, Keyed(class, index, "primary"))
    BY <1>2, <1>3 DEF SQLTypeName
  <2> QED BY <2>1 DEF AddColumn, ColumnFor
<1> DEFINE a == [property |-> index, column |-> ElementName(index),
                 acceptsNull |-> parser'.isRowId \/ Current.nullable]
<1>5. accessors' = Append(accessors, a)
  BY DEF AddColumn
<1>6. ElementName(index) = ElementOf(class, index)
  BY DEF ElementName, ElementOf, Descriptor
<1>7. parser'.isRowId <=> \E q \in 1 .. index : RowIdOf(class, q)
  <2>1. (index + 1) - 1 = index
    BY <1>3
  <2> QED BY <2>1 DEF KeysParsed, KeyIsRowId
<1>8. /\ a.property = index /\ a.column = ElementOf(class, index) /\ a \in AccessorsOf(class)
      /\ a.acceptsNull <=> AcceptsNull(class, index) \/ \E q \in 1 .. index : RowIdOf(class, q)
  <2>1. ElementOf(class, index) \in {NoProperty} \union DOMAIN class
    BY <1>3, ElementIs
  <2>2. (parser'.isRowId \/ Current.nullable) \in BOOLEAN
    OBVIOUS
  <2>3. a \in AccessorsOf(class)
    BY <2>1, <2>2, <1>3, <1>6 DEF AccessorsOf
  <2>4. a.acceptsNull <=> AcceptsNull(class, index) \/ \E q \in 1 .. index : RowIdOf(class, q)
    BY <1>3, <1>7 DEF AcceptsNull
  <2> QED BY <2>3, <2>4, <1>6
<1> HIDE DEF a
<1>9. ColumnsWritten(class, columns', index + 1)
  BY <1>2, <1>3, <1>4, ColumnsNext
<1>10. AccessorsWritten(class, accessors', index + 1)
  BY <1>3, <1>5, <1>8, AccessorsNext
<1>11. Checked(class, index + 1)
  BY <1>2, <1>3, CheckedNext
<1>12. class' = class /\ outcome' = outcome /\ index' = index + 1
  BY DEF AddColumn
<1> QED BY <1>3, <1>9, <1>10, <1>11, <1>12 DEF SchemaInvariant

(* A primary key. *)
LEMMA AddPrimaryKeyKeeps ==
  ASSUME SchemaInvariant, AddPrimaryKey
  PROVE  SchemaInvariant'
<1> DEFINE constraints == {"PRIMARY KEY"} \union IF Current.isAutoincrement THEN {"AUTOINCREMENT"} ELSE {}
<1>1. /\ HasColumn /\ ~ Rejected(Current) /\ IsPrimaryKey(Current) /\ AddColumn(constraints)
      /\ parser' = [parser EXCEPT !.primaryKeyName = index,
                                  !.isAutomaticIncrement = Current.isAutoincrement,
                                  !.isRowId = IsLong(Current)]
  BY DEF AddPrimaryKey, AddColumn
<1>2. /\ Present /\ Typed(class, index) /\ Keyed(class, index, "primary")
      /\ KeyName(parser) = NoProperty /\ (RowIdOf(class, index) <=> IsLong(Current))
  BY <1>1, Accepted
<1>3. /\ class \in Classes /\ index \in 1 .. Len(class) /\ index \in DOMAIN class
      /\ KeysParsed(class, parser, index) /\ Current = class[index]
  BY <1>2, Presents
<1>4. Current.isAutoincrement \in BOOLEAN /\ IsLong(Current) \in BOOLEAN
  BY <1>3, ClassIs DEF Property, IsLong
<1>5. parser \in ParsersOf(class)
  BY <1>3 DEF KeysParsed
<1>6. /\ parser' \in ParsersOf(class) /\ KeyName(parser') = index
      /\ KeyIsRowId(parser') = IsLong(Current) /\ Composites(parser') = Composites(parser)
  BY <1>1, <1>3, <1>4, <1>5 DEF ParsersOf, KeyName, KeyIsRowId, Composites
<1>7. KeysParsed(class, parser', index + 1)
  BY <1>2, <1>3, <1>6, KeysPrimary
<1>8. constraints = ConstraintsOf(class, index)
  BY <1>2, <1>3 DEF ConstraintsOf, Incremented
<1> HIDE DEF constraints
<1> QED BY <1>1, <1>7, <1>8, AddColumnKeeps

(* A part of a composite key. *)
LEMMA AddCompositeKeyKeeps ==
  ASSUME SchemaInvariant, AddCompositeKey
  PROVE  SchemaInvariant'
<1>1. /\ HasColumn /\ ~ Rejected(Current) /\ Current.key = "composite" /\ AddColumn({})
      /\ parser' = [parser EXCEPT !.compositePrimaryKeys = Append(@, index)]
  BY DEF AddCompositeKey, AddColumn
<1>2. Present /\ Typed(class, index)
  BY <1>1, Accepted
<1>3. /\ class \in Classes /\ index \in 1 .. Len(class) /\ index \in DOMAIN class
      /\ KeysParsed(class, parser, index) /\ Current = class[index]
  BY <1>2, Presents
<1>4. Keyed(class, index, "composite") /\ ~ Keyed(class, index, "primary")
  BY <1>1, <1>3 DEF Keyed
<1>5. parser \in ParsersOf(class) /\ parser.compositePrimaryKeys \in Seq(DOMAIN class)
  BY <1>3 DEF KeysParsed, ParsersOf
<1>6. Append(parser.compositePrimaryKeys, index) \in Seq(DOMAIN class)
  BY <1>3, <1>5
<1>7. /\ parser' \in ParsersOf(class) /\ KeyName(parser') = KeyName(parser)
      /\ KeyIsRowId(parser') = KeyIsRowId(parser) /\ Composites(parser') = Append(Composites(parser), index)
  BY <1>1, <1>5, <1>6 DEF ParsersOf, KeyName, KeyIsRowId, Composites
<1>8. KeysParsed(class, parser', index + 1)
  BY <1>2, <1>3, <1>4, <1>7, KeysComposite
<1>9. {} = ConstraintsOf(class, index)
  BY <1>4 DEF ConstraintsOf
<1> QED BY <1>1, <1>8, <1>9, AddColumnKeeps

(* A property that is no key. *)
LEMMA AddPlainColumnKeeps ==
  ASSUME SchemaInvariant, AddPlainColumn
  PROVE  SchemaInvariant'
<1> DEFINE constraints == IF Current.nullable THEN {} ELSE {"NOT NULL"}
<1>1. /\ HasColumn /\ ~ Rejected(Current) /\ Current.key = "none" /\ AddColumn(constraints)
      /\ parser' = parser
  BY DEF AddPlainColumn, AddColumn
<1>2. Present /\ Typed(class, index)
  BY <1>1, Accepted
<1>3. /\ class \in Classes /\ index \in 1 .. Len(class) /\ index \in DOMAIN class
      /\ KeysParsed(class, parser, index) /\ Current = class[index]
  BY <1>2, Presents
<1>4. /\ ~ Keyed(class, index, "composite") /\ ~ Keyed(class, index, "primary")
      /\ ~ RowIdOf(class, index)
  BY <1>1, <1>3 DEF Keyed, RowIdOf
<1>5. KeysParsed(class, parser', index + 1)
  BY <1>1, <1>3, <1>4, KeysSkip
<1>6. constraints = ConstraintsOf(class, index)
  BY <1>3, <1>4 DEF ConstraintsOf, AcceptsNull
<1> HIDE DEF constraints
<1> QED BY <1>1, <1>5, <1>6, AddColumnKeeps

(* Every step of the processor keeps the invariant. *)
LEMMA SchemaNextKeeps ==
  ASSUME SchemaInvariant, SchemaNext
  PROVE  SchemaInvariant'
  BY SkipPropertyKeeps, RejectKeeps, AddPrimaryKeyKeeps, AddCompositeKeyKeeps, AddPlainColumnKeeps,
     GenerateKeeps DEF SchemaNext

-----------------------------------------------------------------------------
(* The table that was generated *)

Primary(p) == Typed(class, p) /\ Keyed(class, p, "primary")
Composite(p) == Typed(class, p) /\ Keyed(class, p, "composite")
Columned(p) == p \in 1 .. (index - 1) /\ Typed(class, p)

HasConstraint(p, constraint) == constraint \in ColumnOf(p).constraints

(* The columns by the names of their properties. *)
LEMMA ColumnsAre ==
  ASSUME SchemaInvariant
  PROVE  /\ columns \in Seq(ColumnsOf(class)) /\ Len(columns) \in Nat /\ DOMAIN columns = 1 .. Len(columns)
         /\ \A i \in 1 .. Len(columns) : /\ Columned(NameAt(columns, i))
                                         /\ columns[i] = ColumnFor(class, NameAt(columns, i))
         /\ \A i, j \in 1 .. Len(columns) : i < j => NameAt(columns, i) < NameAt(columns, j)
         /\ \A p : Columned(p) => \E i \in 1 .. Len(columns) : NameAt(columns, i) = p
<1>1. ColumnsWritten(class, columns, index)
  BY DEF SchemaInvariant
<1>2. columns \in Seq(ColumnsOf(class))
  BY <1>1 DEF ColumnsWritten
<1>3. Len(columns) \in Nat /\ DOMAIN columns = 1 .. Len(columns)
  <2> HIDE DEF ColumnsOf
  <2> QED BY <1>2
<1> QED BY <1>1, <1>2, <1>3 DEF ColumnsWritten, Columned

(* The names of the columns, and the column of a name. *)
LEMMA ColumnNamesAre ==
  ASSUME SchemaInvariant
  PROVE  /\ \A p : p \in ColumnNames <=> Columned(p)
         /\ \A p \in ColumnNames : ColumnOf(p) = ColumnFor(class, p)
<1>1. \A p : p \in ColumnNames <=> \E i \in 1 .. Len(columns) : NameAt(columns, i) = p
  BY ColumnsAre DEF ColumnNames, NameAt
<1>2. \A p : p \in ColumnNames <=> Columned(p)
  BY <1>1, ColumnsAre
<1>3. ASSUME NEW p \in ColumnNames PROVE ColumnOf(p) = ColumnFor(class, p)
  <2>1. PICK i \in DOMAIN columns : i = CHOOSE j \in DOMAIN columns : columns[j].name = p
    <3>1. \E j \in DOMAIN columns : columns[j].name = p
      BY DEF ColumnNames
    <3> QED BY <3>1
  <2>2. NameAt(columns, i) = p /\ ColumnOf(p) = columns[i]
    <3>1. \E j \in DOMAIN columns : columns[j].name = p
      BY DEF ColumnNames
    <3> QED BY <3>1, <2>1 DEF ColumnOf, NameAt
  <2> QED BY <2>2, ColumnsAre
<1> QED BY <1>2, <1>3

(* The constraints on the column of a property, and its type. *)
LEMMA ConstraintsAre ==
  ASSUME SchemaInvariant, NEW p \in ColumnNames
  PROVE  /\ Columned(p) /\ LetThrough(class, p) /\ p \in DOMAIN class
         /\ HasConstraint(p, "PRIMARY KEY") <=> Keyed(class, p, "primary")
         /\ HasConstraint(p, "AUTOINCREMENT") <=> Keyed(class, p, "primary") /\ Incremented(class, p)
         /\ HasConstraint(p, "NOT NULL") <=>
              ~ Keyed(class, p, "primary") /\ ~ Keyed(class, p, "composite") /\ ~ AcceptsNull(class, p)
         /\ ColumnOf(p).type = "INTEGER" <=> Keyed(class, p, "primary") /\ IsRowId(class, p)
<1>1. Columned(p) /\ ColumnOf(p) = ColumnFor(class, p)
  BY ColumnNamesAre
<1>2. /\ class \in Classes /\ Checked(class, index) /\ index \in 1 .. Len(class) + 1
  BY DEF SchemaInvariant
<1>3. p \in 1 .. Len(class) /\ p \in DOMAIN class /\ LetThrough(class, p)
  BY <1>1, <1>2, ClassIs DEF Columned, Checked
<1>4. class[p].type \in {"Long", "ULong", "Int", "String"}
  <2>1. class[p] \in Property
    BY <1>2, <1>3, ClassIs
  <2>2. class[p].type \in PropertyType
    BY <2>1 DEF Property
  <2> QED BY <2>2, <1>1 DEF Columned, Typed, PropertyType
<1>5. ColumnOf(p).constraints = ConstraintsOf(class, p)
  BY <1>1 DEF ColumnFor
<1>6. ColumnOf(p).type = SQLTypeName(class[p].type, Keyed(class, p, "primary"))
  BY <1>1 DEF ColumnFor
<1>7. ColumnOf(p).type = "INTEGER" <=> Keyed(class, p, "primary") /\ IsRowId(class, p)
  BY <1>4, <1>6 DEF SQLTypeName, IsRowId
<1>8. /\ HasConstraint(p, "PRIMARY KEY") <=> Keyed(class, p, "primary")
      /\ HasConstraint(p, "AUTOINCREMENT") <=> Keyed(class, p, "primary") /\ Incremented(class, p)
      /\ HasConstraint(p, "NOT NULL") <=>
           ~ Keyed(class, p, "primary") /\ ~ Keyed(class, p, "composite") /\ ~ AcceptsNull(class, p)
  <2>1. CASE Keyed(class, p, "primary")
    <3>1. CASE Incremented(class, p)
      <4>1. ColumnOf(p).constraints = {"PRIMARY KEY", "AUTOINCREMENT"}
        BY <2>1, <3>1, <1>5 DEF ConstraintsOf
      <4> QED BY <2>1, <3>1, <4>1 DEF HasConstraint
    <3>2. CASE ~ Incremented(class, p)
      <4>1. ColumnOf(p).constraints = {"PRIMARY KEY"}
        BY <2>1, <3>2, <1>5 DEF ConstraintsOf
      <4> QED BY <2>1, <3>2, <4>1 DEF HasConstraint
    <3> QED BY <3>1, <3>2
  <2>2. CASE ~ Keyed(class, p, "primary") /\ (Keyed(class, p, "composite") \/ AcceptsNull(class, p))
    <3>1. ColumnOf(p).constraints = {}
      BY <2>2, <1>5 DEF ConstraintsOf
    <3> QED BY <2>2, <3>1 DEF HasConstraint
  <2>3. CASE ~ (Keyed(class, p, "primary") \/ Keyed(class, p, "composite") \/ AcceptsNull(class, p))
    <3>1. ColumnOf(p).constraints = {"NOT NULL"}
      BY <2>3, <1>5 DEF ConstraintsOf
    <3> QED BY <2>3, <3>1 DEF HasConstraint
  <2> QED BY <2>1, <2>2, <2>3
<1> QED BY <1>1, <1>3, <1>7, <1>8

(* What SQLite makes of the columns, by their properties. *)
LEMMA TableIs ==
  ASSUME SchemaInvariant
  PROVE  /\ \A p : p \in PrimaryKeyColumns <=> Columned(p) /\ Keyed(class, p, "primary")
         /\ \A p : p \in RowIdColumns <=> Columned(p) /\ Keyed(class, p, "primary") /\ IsRowId(class, p)
         /\ \A p : p \in NotNullColumns <=>
              /\ Columned(p) /\ ~ Keyed(class, p, "primary") /\ ~ Keyed(class, p, "composite")
              /\ ~ AcceptsNull(class, p)
         /\ \A p : p \in Range(parser.compositePrimaryKeys) <=> Columned(p) /\ Keyed(class, p, "composite")
<1>1. \A p : p \in ColumnNames <=> Columned(p)
  BY ColumnNamesAre
<1>2. \A p : p \in PrimaryKeyColumns <=> Columned(p) /\ Keyed(class, p, "primary")
  <2>1. \A p : p \in PrimaryKeyColumns <=> p \in ColumnNames /\ HasConstraint(p, "PRIMARY KEY")
    BY DEF PrimaryKeyColumns, HasConstraint
  <2> QED BY <2>1, <1>1, ConstraintsAre
<1>3. \A p : p \in RowIdColumns <=> Columned(p) /\ Keyed(class, p, "primary") /\ IsRowId(class, p)
  <2>1. \A p : p \in RowIdColumns <=> p \in PrimaryKeyColumns /\ ColumnOf(p).type = "INTEGER"
    BY DEF RowIdColumns
  <2> QED BY <2>1, <1>1, <1>2, ConstraintsAre
<1>4. \A p : p \in NotNullColumns <=>
               /\ Columned(p) /\ ~ Keyed(class, p, "primary") /\ ~ Keyed(class, p, "composite")
               /\ ~ AcceptsNull(class, p)
  <2>1. \A p : p \in NotNullColumns <=> p \in ColumnNames /\ HasConstraint(p, "NOT NULL")
    BY DEF NotNullColumns, HasConstraint
  <2> QED BY <2>1, <1>1, ConstraintsAre
<1>5. \A p : p \in Range(parser.compositePrimaryKeys) <=> Columned(p) /\ Keyed(class, p, "composite")
  <2>1. KeysParsed(class, parser, index)
    BY DEF SchemaInvariant
  <2>2. PICK s : s = parser.compositePrimaryKeys
    OBVIOUS
  <2>3. s \in Seq(DOMAIN class)
    BY <2>1, <2>2 DEF KeysParsed, ParsersOf
  <2>4. DOMAIN s = 1 .. Len(s)
    BY <2>3
  <2>5. \A p : p \in Range(s) <=> \E i \in 1 .. Len(s) : s[i] = p
    BY <2>4 DEF Range
  <2>6. /\ \A i \in 1 .. Len(s) : Columned(s[i]) /\ Keyed(class, s[i], "composite")
        /\ \A p : Columned(p) /\ Keyed(class, p, "composite") => \E i \in 1 .. Len(s) : s[i] = p
    BY <2>1, <2>2 DEF KeysParsed, Composites, Columned
  <2> QED BY <2>2, <2>5, <2>6
<1> QED BY <1>2, <1>3, <1>4, <1>5

(* There is one primary key, or none. *)
LEMMA OnePrimaryKey ==
  ASSUME SchemaInvariant
  PROVE  Cardinality(PrimaryKeyColumns) <= 1
<1>1. \A p \in PrimaryKeyColumns : p = KeyName(parser)
  BY TableIs DEF SchemaInvariant, KeysParsed, Columned
<1>2. CASE PrimaryKeyColumns = {}
  BY <1>2, FS_EmptySet
<1>3. CASE PrimaryKeyColumns # {}
  <2>1. PrimaryKeyColumns = {KeyName(parser)}
    BY <1>1, <1>3
  <2>2. Cardinality({KeyName(parser)}) = 1
    BY FS_Singleton
  <2> QED BY <2>1, <2>2
<1> QED BY <1>2, <1>3

(* The commas are right when the last property has a column. *)
LEMMA CommasAre ==
  ASSUME SchemaInvariant, outcome = "generated"
  PROVE  (columns # <<>> /\ \A i \in DOMAIN columns : columns[i].comma <=> i < Len(columns)) <=>
         class # <<>> /\ Typed(class, Len(class))
<1> DEFINE n == Len(class)
           last == Len(columns)
<1>1. class \in Classes /\ n \in Nat /\ index - 1 = n /\ index = n + 1
  BY ClassIs DEF SchemaInvariant
<1>2. /\ columns \in Seq(ColumnsOf(class)) /\ last \in Nat /\ DOMAIN columns = 1 .. last
      /\ \A i \in 1 .. last : /\ NameAt(columns, i) \in 1 .. n /\ Typed(class, NameAt(columns, i))
                              /\ columns[i] = ColumnFor(class, NameAt(columns, i))
      /\ \A i, j \in 1 .. last : i < j => NameAt(columns, i) < NameAt(columns, j)
      /\ \A p \in 1 .. n : Typed(class, p) => \E i \in 1 .. last : NameAt(columns, i) = p
  BY <1>1, ColumnsAre DEF Columned
<1>3. \A i \in 1 .. last : columns[i].comma <=> NameAt(columns, i) < n
  <2>1. \A p : ColumnFor(class, p).comma <=> p < n
    BY DEF ColumnFor
  <2> HIDE DEF n
  <2> QED BY <2>1, <1>2
<1>4. (columns = <<>> <=> last = 0) /\ (class = <<>> <=> n = 0)
  <2>1. columns = <<>> <=> last = 0
    <3> DEFINE T == ColumnsOf(class)
    <3>1. columns \in Seq(T)
      BY <1>2
    <3> HIDE DEF T
    <3> QED BY <3>1
  <2>2. class \in Seq(Property)
    BY <1>1, ClassesAssumption
  <2>3. class = <<>> <=> n = 0
    <3> HIDE DEF Property
    <3> QED BY <2>2
  <2> QED BY <2>1, <2>3
<1> HIDE DEF last, n
<1>5. CASE n = 0
  <2>1. last = 0
    <3>1. ~ 1 \in 1 .. last
      <4>1. \A p : p \notin 1 .. n
        BY <1>5
      <4> QED BY <4>1, <1>2
    <3> QED BY <3>1, <1>2
  <2> QED BY <2>1, <1>4, <1>5
<1>6. CASE n # 0 /\ ~ Typed(class, n)
  <2>1. CASE last = 0
    BY <2>1, <1>4, <1>6 DEF n
  <2>2. CASE last # 0
    <3>1. last \in 1 .. last /\ ~ last < last
      BY <2>2, <1>2
    <3>2. NameAt(columns, last) \in 1 .. n /\ NameAt(columns, last) # n
      BY <3>1, <1>2, <1>6
    <3>3. NameAt(columns, last) < n
      BY <3>2, <1>1
    <3>4. last \in DOMAIN columns /\ ~ (columns[last].comma <=> last < last)
      BY <3>1, <3>3, <1>2, <1>3
    <3> QED BY <3>4, <1>6 DEF n, last
  <2> QED BY <2>1, <2>2
<1>7. CASE n # 0 /\ Typed(class, n)
  <2>1. n \in 1 .. n
    BY <1>1, <1>7
  <2>2. PICK k \in 1 .. last : NameAt(columns, k) = n
    BY <2>1, <1>2, <1>7
  <2>3. last # 0 /\ last \in 1 .. last
    BY <2>2, <1>2
  <2>4. ASSUME NEW i \in 1 .. last, i < last PROVE NameAt(columns, i) < n
    <3>1. NameAt(columns, i) < NameAt(columns, last) /\ NameAt(columns, last) \in 1 .. n
          /\ NameAt(columns, i) \in 1 .. n
      BY <2>3, <2>4, <1>2
    <3> QED BY <3>1, <1>1
  <2>5. ~ NameAt(columns, last) < n
    <3>1. k = last
      <4>1. ~ k < last
        BY <2>2, <2>4, <1>1
      <4> QED BY <4>1, <1>2
    <3> QED BY <3>1, <2>2, <1>1
  <2>6. \A i \in 1 .. last : columns[i].comma <=> i < last
    <3>1. ASSUME NEW i \in 1 .. last PROVE columns[i].comma <=> i < last
      <4>1. CASE i < last
        BY <4>1, <2>4, <1>3
      <4>2. CASE ~ i < last
        <5>1. i = last
          BY <4>2, <1>2
        <5> QED BY <4>2, <5>1, <2>5, <1>3
      <4> QED BY <4>1, <4>2
    <3> QED BY <3>1
  <2> QED BY <2>3, <2>6, <1>2, <1>4, <1>7 DEF last, n
<1> QED BY <1>5, <1>6, <1>7, <1>4 DEF last, n

CreateFails ==
  \/ class = <<>>
  \/ class[Len(class)].type = "Other"
  \/ \E i, j \in DOMAIN columns :
       class[columns[i].name].key = "primary" /\ class[columns[j].name].key = "composite"
  \/ \E i \in DOMAIN class : UnsignedKey(i) /\ class[i].isAutoincrement

(* CREATE fails for these classes and no other. *)
LEMMA CreateFailsFor ==
  ASSUME SchemaInvariant, outcome = "generated"
  PROVE  ~ CreateIsAccepted <=> CreateFails
<1>1. (columns # <<>> /\ \A i \in DOMAIN columns : columns[i].comma <=> i < Len(columns)) <=>
      ~ (class = <<>> \/ class[Len(class)].type = "Other")
  BY CommasAre DEF Typed
<1>2. Cardinality(PrimaryKeyColumns) <= 1
  BY OnePrimaryKey
<1>3. (PrimaryKeyColumns = {} \/ parser.compositePrimaryKeys = <<>>) <=>
      ~ \E i, j \in DOMAIN columns :
          class[columns[i].name].key = "primary" /\ class[columns[j].name].key = "composite"
  <2>1. \A p : p \in PrimaryKeyColumns <=>
          \E i \in DOMAIN columns : NameAt(columns, i) = p /\ Keyed(class, p, "primary")
    BY ColumnsAre, TableIs
  <2>2. \A p : p \in Range(parser.compositePrimaryKeys) <=>
                 \E i \in DOMAIN columns : NameAt(columns, i) = p /\ Keyed(class, p, "composite")
    BY ColumnsAre, TableIs
  <2>3. parser.compositePrimaryKeys = <<>> <=> Range(parser.compositePrimaryKeys) = {}
    <3>1. PICK s : s = parser.compositePrimaryKeys
      OBVIOUS
    <3>2. s \in Seq(DOMAIN class)
      BY <3>1 DEF SchemaInvariant, KeysParsed, ParsersOf
    <3>3. s = <<>> <=> DOMAIN s = {}
      BY <3>2
    <3>4. DOMAIN s = {} <=> Range(s) = {}
      BY DEF Range
    <3> QED BY <3>1, <3>3, <3>4
  <2>4. (\E i, j \in DOMAIN columns :
           class[columns[i].name].key = "primary" /\ class[columns[j].name].key = "composite") <=>
        \E i, j \in DOMAIN columns :
           Keyed(class, NameAt(columns, i), "primary") /\ Keyed(class, NameAt(columns, j), "composite")
    BY DEF NameAt, Keyed
  <2> QED BY <2>1, <2>2, <2>3, <2>4
<1>4. (\A p \in ColumnNames : "AUTOINCREMENT" \in ColumnOf(p).constraints => p \in RowIdColumns) <=>
      ~ \E i \in DOMAIN class : UnsignedKey(i) /\ class[i].isAutoincrement
  <2>1. \A p \in ColumnNames :
          ("AUTOINCREMENT" \in ColumnOf(p).constraints => p \in RowIdColumns) <=>
          ~ (Keyed(class, p, "primary") /\ Incremented(class, p) /\ IsUnsigned(class, p))
    <3>1. ASSUME NEW p \in ColumnNames
          PROVE  ("AUTOINCREMENT" \in ColumnOf(p).constraints => p \in RowIdColumns) <=>
                 ~ (Keyed(class, p, "primary") /\ Incremented(class, p) /\ IsUnsigned(class, p))
      <4>1. "AUTOINCREMENT" \in ColumnOf(p).constraints <=> Keyed(class, p, "primary") /\ Incremented(class, p)
        BY ConstraintsAre DEF HasConstraint
      <4>2. p \in RowIdColumns <=> Keyed(class, p, "primary") /\ IsRowId(class, p)
        BY TableIs, ColumnNamesAre
      <4>3. Keyed(class, p, "primary") /\ Incremented(class, p) => IsRowId(class, p) \/ IsUnsigned(class, p)
        BY ConstraintsAre DEF LetThrough
      <4>4. ~ (IsRowId(class, p) /\ IsUnsigned(class, p))
        BY DEF IsRowId, IsUnsigned
      <4> QED BY <4>1, <4>2, <4>3, <4>4
    <3> QED BY <3>1
  <2>2. \A p : p \in ColumnNames <=> p \in DOMAIN class /\ Typed(class, p)
    <3>1. index - 1 = Len(class) /\ DOMAIN class = 1 .. Len(class)
      BY ClassIs DEF SchemaInvariant
    <3> QED BY <3>1, ColumnNamesAre DEF Columned
  <2>3. \A p \in DOMAIN class :
          UnsignedKey(p) /\ class[p].isAutoincrement <=>
          Typed(class, p) /\ Keyed(class, p, "primary") /\ Incremented(class, p) /\ IsUnsigned(class, p)
    BY DEF UnsignedKey, Typed, Keyed, Incremented, IsUnsigned
  <2> QED BY <2>1, <2>2, <2>3
<1> QED BY <1>1, <1>2, <1>3, <1>4 DEF CreateIsAccepted, CreateFails

(* An accessor names its own column as long as no property in front is     *)
(* without a backing field.                                                *)
LEMMA AccessorsFit ==
  ASSUME SchemaInvariant
  PROVE  AccessorsFitTheirColumn
<1> SUFFICES ASSUME NEW a \in Range(accessors)
             PROVE  /\ a.column = a.property <=> \A i \in 1 .. a.property : class[i].backed
                    /\ a.acceptsNull <=> \/ class[a.property].nullable
                                         \/ \E i \in 1 .. a.property : RowIdKey(i)
  BY DEF AccessorsFitTheirColumn
<1>1. class \in Classes /\ index \in 1 .. Len(class) + 1 /\ AccessorsWritten(class, accessors, index)
  BY DEF SchemaInvariant
<1>2. DOMAIN accessors = 1 .. Len(accessors)
  <2>1. PICK T : T = AccessorsOf(class)
    OBVIOUS
  <2>2. accessors \in Seq(T)
    BY <2>1, <1>1 DEF AccessorsWritten
  <2> QED BY <2>2
<1>3. PICK n \in 1 .. Len(accessors) : a = accessors[n]
  BY <1>2 DEF Range
<1>4. /\ a.property \in 1 .. (index - 1) /\ a.column = ElementOf(class, a.property)
      /\ a.acceptsNull <=> AcceptsNull(class, a.property) \/ \E q \in 1 .. a.property : RowIdOf(class, q)
  BY <1>1, <1>3 DEF AccessorsWritten, PropertyAt, ColumnAt, NullAt
<1>5. PICK p : p = a.property
  OBVIOUS
<1> DEFINE keep == {i \in DOMAIN class : class[i].backed}
           elements == UpTo(Len(class), keep)
<1>6. Len(class) \in Nat /\ DOMAIN class = 1 .. Len(class)
  BY <1>1, ClassIs
<1>7. p \in 1 .. Len(class)
  BY <1>1, <1>4, <1>5, <1>6
<1>8. Selects(elements, Len(class), keep)
  BY <1>6, UpToSelects
<1>9. p <= Len(elements) /\ elements[p] = p <=> \A m \in 1 .. p : m \in keep
  BY <1>7, <1>8 DEF Selects
<1>10. (\A m \in 1 .. p : m \in keep) <=> \A m \in 1 .. p : class[m].backed
  <2>1. \A m \in 1 .. p : m \in DOMAIN class
    BY <1>6, <1>7
  <2> QED BY <2>1
<1>11. ElementOf(class, p) = IF p \in DOMAIN elements THEN elements[p] ELSE NoProperty
  BY DEF ElementOf
<1>12. (p \in DOMAIN elements <=> p <= Len(elements)) /\ p # NoProperty
  <2>1. elements \in Seq(Nat)
    BY <1>8 DEF Selects
  <2> HIDE DEF elements
  <2>2. DOMAIN elements = 1 .. Len(elements) /\ Len(elements) \in Nat
    BY <2>1
  <2> QED BY <2>2, <1>6, <1>7 DEF NoProperty
<1> HIDE DEF elements, keep
<1>13. ElementOf(class, p) = p <=> \A m \in 1 .. p : class[m].backed
  BY <1>9, <1>10, <1>11, <1>12
<1>14. \A i : RowIdKey(i) <=> RowIdOf(class, i)
  BY DEF RowIdKey, RowIdOf
<1> QED BY <1>4, <1>5, <1>13, <1>14 DEF AcceptsNull

-----------------------------------------------------------------------------
(* What an INSERT names *)

NameOf(list, i) == list[i].name
MarkOf(list, i) == list[i].mark
Backed(p) == class[p].backed
Given(p, withId) == p \in Elements /\ ~ LeftOut(p, withId)

(* The elements of the descriptor are the backed properties, in order. *)
LEMMA DescriptorIs ==
  ASSUME SchemaInvariant
  PROVE  /\ Selects(Descriptor, Len(class), {i \in DOMAIN class : class[i].backed})
         /\ Descriptor \in Seq(Nat) /\ Len(Descriptor) \in Nat /\ DOMAIN Descriptor = 1 .. Len(Descriptor)
         /\ \A p : p \in Elements <=> p \in DOMAIN class /\ Backed(p)
<1>1. Len(class) \in Nat /\ DOMAIN class = 1 .. Len(class)
  BY ClassIs DEF SchemaInvariant
<1> DEFINE keep == {i \in DOMAIN class : class[i].backed}
<1>2. PICK d : d = Descriptor
  OBVIOUS
<1>3. Selects(d, Len(class), keep)
  BY <1>1, <1>2, UpToSelects DEF Descriptor
<1>4. d \in Seq(Nat)
  BY <1>3 DEF Selects
<1>5. Len(d) \in Nat /\ DOMAIN d = 1 .. Len(d)
  BY <1>4
<1>6. \A p : p \in Range(d) <=> \E i \in 1 .. Len(d) : d[i] = p
  BY <1>5 DEF Range
<1>7. \A p : p \in keep <=> p \in DOMAIN class /\ Backed(p)
  BY DEF Backed
<1> HIDE DEF keep
<1>8. \A p : p \in Range(d) <=> p \in keep
  <2>1. \A p \in keep : p \in 1 .. Len(class)
    BY <1>1, <1>7
  <2>2. /\ \A i \in 1 .. Len(d) : d[i] \in keep
        /\ \A p \in 1 .. Len(class) : p \in keep => \E i \in 1 .. Len(d) : d[i] = p
    BY <1>3 DEF Selects
  <2> QED BY <2>1, <2>2, <1>6
<1> QED BY <1>2, <1>3, <1>4, <1>5, <1>7, <1>8 DEF Elements, keep

(* INSERT keeps the places of what it does not leave out, in order. *)
LEMMA KeptIs ==
  ASSUME SchemaInvariant, NEW withId
  PROVE  /\ Selects(Kept(withId), Len(Descriptor),
                    {n \in DOMAIN Descriptor : ~ LeftOut(Descriptor[n], withId)})
         /\ Len(Kept(withId)) \in Nat /\ DOMAIN Kept(withId) = 1 .. Len(Kept(withId))
<1>1. PICK k : k = Kept(withId)
  OBVIOUS
<1>2. Selects(k, Len(Descriptor), {n \in DOMAIN Descriptor : ~ LeftOut(Descriptor[n], withId)})
  BY <1>1, DescriptorIs, UpToSelects DEF Kept
<1>3. k \in Seq(Nat)
  BY <1>2 DEF Selects
<1> QED BY <1>1, <1>2, <1>3

(* Only the id is left out, and only when it is a row id that the client   *)
(* does not give.                                                          *)
LEMMA LeftOutIs ==
  ASSUME SchemaInvariant, NEW p \in DOMAIN class, NEW withId
  PROVE  /\ LeftOut(p, withId) => RowIdOf(class, p) /\ ~ withId /\ Columned(p)
         /\ Columned(p) /\ RowIdOf(class, p) /\ ~ withId => LeftOut(p, withId)
<1>1. KeysParsed(class, parser, index) /\ p # NoProperty
  BY ClassIs DEF SchemaInvariant, NoProperty
<1>2. LeftOut(p, withId) <=> KeyIsRowId(parser) /\ ~ withId /\ p = KeyName(parser)
  BY DEF LeftOut, IsInsertId, KeyIsRowId, KeyName
<1>3. \A q : RowIdOf(class, q) => Typed(class, q) /\ Keyed(class, q, "primary")
  BY DEF RowIdOf, Typed, Keyed
<1>4. ASSUME KeyIsRowId(parser), p = KeyName(parser)
      PROVE  RowIdOf(class, p) /\ Columned(p)
  <2>1. PICK q \in 1 .. (index - 1) : RowIdOf(class, q)
    BY <1>1, <1>4 DEF KeysParsed
  <2>2. q = p
    BY <2>1, <1>1, <1>3, <1>4 DEF KeysParsed
  <2> QED BY <2>1, <2>2, <1>3 DEF Columned
<1>5. ASSUME Columned(p), RowIdOf(class, p)
      PROVE  KeyIsRowId(parser) /\ p = KeyName(parser)
  BY <1>1, <1>3, <1>5 DEF KeysParsed, Columned
<1> QED BY <1>2, <1>4, <1>5

(* Names and tuples are those of the elements that are not left out.       *)
LEMMA NamesAre ==
  ASSUME SchemaInvariant, NEW withId
  PROVE  /\ Len(InsertColumns(withId)) = Len(Kept(withId)) /\ Len(EncodeTuple(withId)) = Len(Kept(withId))
         /\ DOMAIN InsertColumns(withId) = 1 .. Len(Kept(withId))
         /\ DOMAIN EncodeTuple(withId) = 1 .. Len(Kept(withId))
         /\ \A i \in 1 .. Len(Kept(withId)) :
              /\ NameOf(InsertColumns(withId), i) = NameOf(EncodeTuple(withId), i)
              /\ Given(NameOf(InsertColumns(withId), i), withId)
              /\ MarkOf(InsertColumns(withId), i) = IF Kept(withId)[i] < Len(Descriptor) THEN "," ELSE ""
              /\ MarkOf(EncodeTuple(withId), i) = IF Kept(withId)[i] < Len(Descriptor) THEN "," ELSE ")"
         /\ \A p : Given(p, withId) =>
              \E i \in 1 .. Len(Kept(withId)) : NameOf(InsertColumns(withId), i) = p
<1> DEFINE keep == {n \in DOMAIN Descriptor : ~ LeftOut(Descriptor[n], withId)}
<1>1. PICK k, d, names, tuple :
        /\ k = Kept(withId) /\ d = Descriptor /\ names = InsertColumns(withId) /\ tuple = EncodeTuple(withId)
  OBVIOUS
<1>2. Selects(k, Len(d), keep) /\ Len(k) \in Nat /\ DOMAIN k = 1 .. Len(k)
  BY <1>1, KeptIs
<1>3. Len(d) \in Nat /\ DOMAIN d = 1 .. Len(d)
  BY <1>1, DescriptorIs
<1>4. /\ names = [i \in 1 .. Len(k) |-> [name |-> d[k[i]], mark |-> IF k[i] < Len(d) THEN "," ELSE ""]]
      /\ tuple = [i \in 1 .. Len(k) |-> [name |-> d[k[i]], mark |-> IF k[i] < Len(d) THEN "," ELSE ")"]]
  BY <1>1, <1>2 DEF InsertColumns, EncodeTuple, Separated
<1>5. DOMAIN names = 1 .. Len(k) /\ DOMAIN tuple = 1 .. Len(k) /\ Len(names) = Len(k) /\ Len(tuple) = Len(k)
  <2>1. PICK n \in Nat : n = Len(k)
    BY <1>2
  <2>2. DOMAIN names = 1 .. n /\ DOMAIN tuple = 1 .. n
    BY <1>4, <2>1
  <2>3. \A f : f = [i \in 1 .. n |-> f[i]] => Len(f) = n
    OBVIOUS
  <2>4. names = [i \in 1 .. n |-> names[i]] /\ tuple = [i \in 1 .. n |-> tuple[i]]
    BY <1>4, <2>1
  <2>5. Len(names) = n /\ Len(tuple) = n
    BY <2>3, <2>4
  <2> QED BY <2>1, <2>2, <2>5
<1>6. ASSUME NEW i \in 1 .. Len(k)
      PROVE  /\ NameOf(names, i) = d[k[i]] /\ NameOf(tuple, i) = d[k[i]]
             /\ MarkOf(names, i) = IF k[i] < Len(d) THEN "," ELSE ""
             /\ MarkOf(tuple, i) = IF k[i] < Len(d) THEN "," ELSE ")"
  BY <1>4 DEF NameOf, MarkOf
<1>7. \A n \in DOMAIN d : n \in keep <=> ~ LeftOut(d[n], withId)
  BY <1>1
<1>8. \A p : p \in Elements <=> \E n \in DOMAIN d : d[n] = p
  BY <1>1 DEF Elements, Range
<1> HIDE DEF keep
<1>9. \A i \in 1 .. Len(k) : k[i] \in DOMAIN d /\ k[i] \in keep
  BY <1>2, <1>3 DEF Selects
<1>10. \A i \in 1 .. Len(k) : Given(d[k[i]], withId)
  BY <1>7, <1>8, <1>9 DEF Given
<1>11. ASSUME NEW p, Given(p, withId) PROVE \E i \in 1 .. Len(k) : NameOf(names, i) = p
  <2>1. PICK n \in DOMAIN d : d[n] = p
    BY <1>8, <1>11 DEF Given
  <2>2. n \in keep
    BY <2>1, <1>7, <1>11 DEF Given
  <2>3. PICK i \in 1 .. Len(k) : k[i] = n
    BY <2>2, <1>2, <1>3 DEF Selects
  <2> QED BY <2>1, <2>3, <1>6
<1> QED BY <1>1, <1>5, <1>6, <1>10, <1>11

-----------------------------------------------------------------------------
(* The row of an entity *)

RowIsOf(row, entity, withId, fresh) ==
  /\ row \in Row
  /\ \A c \in ColumnNames :
       /\ Given(c, withId) => row[c] = IF c \in RowIdColumns /\ entity[c] = Null THEN fresh ELSE entity[c]
       /\ ~ Given(c, withId) => row[c] = IF c \in RowIdColumns THEN fresh ELSE Null

(* The row of an entity. *)
LEMMA NewRowIs ==
  ASSUME SchemaInvariant, NEW withId, NEW entity \in [Elements -> Data \union {Null}], NEW fresh \in Nat
  PROVE  RowIsOf(NewRow(entity, withId, fresh), entity, withId, fresh)
<1>1. PICK names, tuple, k : names = InsertColumns(withId) /\ tuple = EncodeTuple(withId) /\ k = Len(Kept(withId))
  OBVIOUS
<1>2. /\ DOMAIN names = 1 .. k
      /\ \A i \in 1 .. k : NameOf(names, i) = NameOf(tuple, i) /\ Given(NameOf(names, i), withId)
      /\ \A p : Given(p, withId) => \E i \in 1 .. k : NameOf(names, i) = p
  BY <1>1, NamesAre
<1> DEFINE given == [c \in ColumnNames |->
                       IF \E i \in DOMAIN names : names[i].name = c
                       THEN entity[tuple[CHOOSE i \in DOMAIN names : names[i].name = c].name]
                       ELSE Null]
           row == [c \in ColumnNames |-> IF c \in RowIdColumns /\ given[c] = Null THEN fresh ELSE given[c]]
<1>3. NewRow(entity, withId, fresh) = row
  BY <1>1 DEF NewRow
<1>4. ASSUME NEW c \in ColumnNames, Given(c, withId)
      PROVE  given[c] = entity[c]
  <2>1. \E i \in DOMAIN names : names[i].name = c
    BY <1>2, <1>4 DEF NameOf
  <2>2. PICK i : i = CHOOSE j \in DOMAIN names : names[j].name = c
    OBVIOUS
  <2>3. i \in DOMAIN names /\ names[i].name = c
    BY <2>1, <2>2
  <2>4. tuple[i].name = c
    BY <2>3, <1>2 DEF NameOf
  <2>5. given[c] = entity[tuple[i].name]
    BY <2>1, <2>2
  <2> QED BY <2>4, <2>5
<1>5. ASSUME NEW c \in ColumnNames, ~ Given(c, withId)
      PROVE  given[c] = Null
  <2>1. ~ \E i \in DOMAIN names : names[i].name = c
    BY <1>2, <1>5 DEF NameOf
  <2> QED BY <2>1
<1>6. \A c \in ColumnNames : row[c] = IF c \in RowIdColumns /\ given[c] = Null THEN fresh ELSE given[c]
  OBVIOUS
<1>7. row = [c \in ColumnNames |-> row[c]]
  OBVIOUS
<1>8. \A c \in ColumnNames : given[c] \in Nat \union {Null}
  <2>1. ASSUME NEW c \in ColumnNames PROVE given[c] \in Nat \union {Null}
    <3> HIDE DEF given
    <3>1. CASE Given(c, withId)
      <4>1. given[c] = entity[c] /\ c \in Elements
        BY <3>1, <1>4 DEF Given
      <4>2. entity[c] \in Data \union {Null}
        BY <4>1
      <4> QED BY <4>1, <4>2, TableBounds
    <3>2. CASE ~ Given(c, withId)
      BY <3>2, <1>5
    <3> QED BY <3>1, <3>2
  <2> QED BY <2>1
<1> HIDE DEF given
<1>9. row \in Row
  BY <1>8 DEF Row
<1> HIDE DEF row
<1> QED BY <1>3, <1>4, <1>5, <1>6, <1>9 DEF RowIsOf

-----------------------------------------------------------------------------
(* A new row id *)

RowIdAt(t, i, c) == t[i][c]

(* The row ids of the first n rows. *)
IdsOf(t, n) == {RowIdAt(t, i, c) : i \in 1 .. n, c \in RowIdColumns}

(* There is at most one column with row ids. *)
LEMMA OneRowIdColumn ==
  ASSUME SchemaInvariant, NEW c \in RowIdColumns, NEW d \in RowIdColumns
  PROVE  c = d
<1>1. KeysParsed(class, parser, index)
  BY DEF SchemaInvariant
<1>2. \A p \in RowIdColumns : p = KeyName(parser)
  BY <1>1, TableIs DEF KeysParsed, Columned
<1> QED BY <1>2

(* Row ids have a largest one, by the least number of rows without it. *)
LEMMA LargestId ==
  ASSUME SchemaInvariant, NEW t, NEW n \in Nat,
         \A i \in 1 .. n : \A c \in RowIdColumns : RowIdAt(t, i, c) \in Nat
  PROVE  \E m \in IdsOf(t, n) \union {0} : \A k \in IdsOf(t, n) \union {0} : k <= m
<1> DEFINE Largest(j) == \E m \in IdsOf(t, j) \union {0} : \A k \in IdsOf(t, j) \union {0} : k <= m
           Bad == {j \in Nat : j <= n /\ ~ Largest(j)}
<1>1. SUFFICES ASSUME Bad # {} PROVE FALSE
  OBVIOUS
<1>2. PICK j \in Bad : \A k \in Bad : j <= k
  <2> HIDE DEF Bad
  <2>1. Bad \subseteq Nat
    BY DEF Bad
  <2> QED BY <2>1, <1>1, NatMin
<1>3. j \in Nat /\ j <= n /\ ~ Largest(j)
  BY <1>2
<1>4. j # 0
  <2>1. \A i : i \notin 1 .. 0
    OBVIOUS
  <2>2. IdsOf(t, 0) = {}
    BY <2>1 DEF IdsOf
  <2>3. Largest(0)
    BY <2>2
  <2> QED BY <2>3, <1>3
<1>5. PICK h \in Nat : h + 1 = j
  <2>1. j - 1 \in Nat /\ (j - 1) + 1 = j
    BY <1>3, <1>4
  <2> QED BY <2>1
<1>6. h <= n /\ ~ j <= h /\ j \in 1 .. n
  BY <1>3, <1>5
<1>7. Largest(h)
  <2>1. h \notin Bad
    <3> HIDE DEF Bad
    <3> QED BY <1>2, <1>6
  <2> QED BY <2>1, <1>6
<1>8. PICK m \in IdsOf(t, h) \union {0} : \A k \in IdsOf(t, h) \union {0} : k <= m
  BY <1>7
<1>9. \A i \in 1 .. j : i = j \/ i \in 1 .. h
  BY <1>5
<1>10. \A i \in 1 .. h : i \in 1 .. j /\ i \in 1 .. n
  BY <1>5, <1>6
<1>11. CASE RowIdColumns = {}
  <2>1. IdsOf(t, j) = {}
    BY <1>11 DEF IdsOf
  <2>2. Largest(j)
    BY <2>1
  <2> QED BY <2>2, <1>3
<1>12. ASSUME NEW c \in RowIdColumns PROVE FALSE
  <2>1. PICK x : x = RowIdAt(t, j, c)
    OBVIOUS
  <2>2. x \in Nat
    BY <2>1, <1>6
  <2>3. IdsOf(t, j) = IdsOf(t, h) \union {x}
    <3>1. \A d \in RowIdColumns : d = c
      BY OneRowIdColumn
    <3>2. j \in 1 .. j
      BY <1>3, <1>4
    <3>3. \A y : y \in IdsOf(t, j) <=> \E i \in 1 .. j : y = RowIdAt(t, i, c)
      BY <3>1 DEF IdsOf
    <3>4. \A y : y \in IdsOf(t, h) <=> \E i \in 1 .. h : y = RowIdAt(t, i, c)
      BY <3>1 DEF IdsOf
    <3>5. \A y : y \in IdsOf(t, j) <=> y \in IdsOf(t, h) \/ y = x
      BY <3>2, <3>3, <3>4, <2>1, <1>9, <1>10
    <3> QED BY <3>5
  <2>4. IdsOf(t, h) \subseteq Nat
    BY <1>10 DEF IdsOf
  <2>5. PICK S : S = IdsOf(t, h) \union {0}
    OBVIOUS
  <2>6. IdsOf(t, j) \union {0} = S \union {x} /\ S \subseteq Nat /\ m \in S /\ \A k \in S : k <= m
    BY <2>3, <2>4, <2>5, <1>8
  <2>7. CASE x <= m
    <3>1. m \in S \union {x} /\ \A k \in S \union {x} : k <= m
      BY <2>6, <2>7
    <3>2. Largest(j)
      BY <3>1, <2>6
    <3> QED BY <3>2, <1>3
  <2>8. CASE ~ x <= m
    <3>1. x \in S \union {x} /\ \A k \in S \union {x} : k <= x
      BY <2>2, <2>6, <2>8
    <3>2. Largest(j)
      BY <3>1, <2>6
    <3> QED BY <3>2, <1>3
  <2> QED BY <2>7, <2>8
<1> QED BY <1>11, <1>12

(* A new row id is larger than those of all rows. *)
LEMMA FreshIdIs ==
  ASSUME SchemaInvariant, NEW t, Len(t) \in Nat, DOMAIN t = 1 .. Len(t),
         \A i \in 1 .. Len(t) : \A c \in RowIdColumns : RowIdAt(t, i, c) \in Nat
  PROVE  /\ FreshId(t) \in Nat
         /\ \A i \in 1 .. Len(t) : \A c \in RowIdColumns : RowIdAt(t, i, c) < FreshId(t)
<1> DEFINE ids == {t[i][c] : i \in DOMAIN t, c \in RowIdColumns} \union {0}
<1>1. ids = IdsOf(t, Len(t)) \union {0}
  BY DEF IdsOf, RowIdAt
<1>2. FreshId(t) = 1 + CHOOSE k \in ids : \A j \in ids : j <= k
  BY DEF FreshId
<1> HIDE DEF ids
<1>3. PICK m : m = CHOOSE k \in ids : \A j \in ids : j <= k
  OBVIOUS
<1>4. m \in ids /\ \A j \in ids : j <= m
  <2>1. \E k \in ids : \A j \in ids : j <= k
    BY <1>1, LargestId
  <2> QED BY <2>1, <1>3
<1>5. ids \subseteq Nat
  BY <1>1 DEF IdsOf
<1>6. \A i \in 1 .. Len(t) : \A c \in RowIdColumns : RowIdAt(t, i, c) \in ids
  BY <1>1 DEF IdsOf
<1>7. ASSUME NEW x \in ids PROVE x < 1 + m
  BY <1>4, <1>5
<1>8. FreshId(t) = 1 + m
  BY <1>2, <1>3
<1>9. FreshId(t) \in Nat
  BY <1>4, <1>5, <1>8
<1> QED BY <1>6, <1>7, <1>8, <1>9

-----------------------------------------------------------------------------
(* The rows that an INSERT makes *)

KeyIsGiven(row) ==
  /\ \A c \in RowIdColumns : row[c] # Null
  /\ \A c \in Range(parser.compositePrimaryKeys) : Backed(c) => row[c] # Null
KeysAreGiven(t) == \A i \in 1 .. Len(t) : KeyIsGiven(t[i])

(* The row of an entity has its row id, and the parts of a composite key   *)
(* that the entity has.                                                    *)
LEMMA RowHasItsKey ==
  ASSUME SchemaInvariant, NEW entity \in Entities, NEW withId, NEW fresh \in Nat, NEW row,
         RowIsOf(row, entity, withId, fresh)
  PROVE  KeyIsGiven(row)
<1>1. fresh # Null
  BY TableBounds
<1>2. ASSUME NEW c \in RowIdColumns PROVE row[c] # Null
  <2>1. c \in ColumnNames
    BY DEF RowIdColumns, PrimaryKeyColumns
  <2> QED BY <2>1, <1>1 DEF RowIsOf
<1>3. ASSUME NEW c \in Range(parser.compositePrimaryKeys), Backed(c) PROVE row[c] # Null
  <2>1. Columned(c) /\ Keyed(class, c, "composite") /\ ~ Keyed(class, c, "primary")
    BY TableIs DEF Keyed
  <2>2. c \in ColumnNames /\ c \notin RowIdColumns
    BY <2>1, TableIs, ColumnNamesAre
  <2>3. c \in DOMAIN class /\ LetThrough(class, c)
    BY <2>2, ConstraintsAre
  <2>4. c \in Elements
    BY <2>3, <1>3, DescriptorIs
  <2>5. ~ LeftOut(c, withId)
    BY <2>1, <2>3, LeftOutIs DEF RowIdOf, Keyed
  <2>6. row[c] = entity[c]
    BY <2>2, <2>4, <2>5 DEF RowIsOf, Given
  <2>7. entity[c] # Null
    <3>1. ~ class[c].nullable
      BY <2>1, <2>3 DEF LetThrough, AcceptsNull
    <3> QED BY <3>1, <2>4 DEF Entities
  <2> QED BY <2>6, <2>7
<1> QED BY <1>2, <1>3 DEF KeyIsGiven

(* t has the rows of the table, then those of the first n entities; each   *)
(* has a row id, if it has one, that is larger than all before it.         *)
StoredUpTo(t, entities, withId, n) ==
  /\ t \in Seq(Row) /\ Len(t) = Len(rows) + n
  /\ \A i \in 1 .. Len(rows) : t[i] = rows[i]
  /\ KeysAreGiven(t)
  /\ \A k \in 1 .. n : \E fresh \in Nat :
       /\ RowIsOf(t[Len(rows) + k], entities[k], withId, fresh)
       /\ \A i \in 1 .. (Len(rows) + k - 1) : \A c \in RowIdColumns : RowIdAt(t, i, c) < fresh

(* No entity is stored yet. *)
LEMMA StoredNone ==
  ASSUME rows \in Seq(Row), KeysAreGiven(rows), NEW entities, NEW withId
  PROVE  StoredUpTo(rows, entities, withId, 0)
<1>1. Len(rows) \in Nat
  <2> HIDE DEF Row
  <2> QED OBVIOUS
<1>2. Len(rows) = Len(rows) + 0 /\ \A k : k \notin 1 .. 0
  BY <1>1
<1> QED BY <1>2 DEF StoredUpTo

(* One more entity is stored. *)
LEMMA StoredNext ==
  ASSUME SchemaInvariant, rows \in Seq(Row), NEW withId, NEW entities, NEW n \in Nat, NEW t,
         StoredUpTo(t, entities, withId, n), entities[n + 1] \in Entities
  PROVE  StoredUpTo(AppendRow(withId, t, entities[n + 1]), entities, withId, n + 1)
<1>1. PICK T, r : T = Row /\ r = rows
  OBVIOUS
<1>2. t \in Seq(T) /\ r \in Seq(T) /\ Len(t) = Len(r) + n
  BY <1>1 DEF StoredUpTo
<1>3. Len(t) \in Nat /\ DOMAIN t = 1 .. Len(t) /\ Len(r) \in Nat /\ \A i \in 1 .. Len(t) : t[i] \in T
  BY <1>2
<1>4. PICK o : o = Len(r)
  OBVIOUS
<1>5. \A i \in 1 .. Len(t) : KeyIsGiven(t[i])
  BY DEF StoredUpTo, KeysAreGiven
<1>6. \A i \in 1 .. Len(t) : \A c \in RowIdColumns : RowIdAt(t, i, c) \in Nat
  <2>1. ASSUME NEW i \in 1 .. Len(t), NEW c \in RowIdColumns PROVE RowIdAt(t, i, c) \in Nat
    <3>1. t[i] \in Row /\ c \in ColumnNames /\ t[i][c] # Null
      BY <1>1, <1>3, <1>5 DEF RowIdColumns, PrimaryKeyColumns, KeyIsGiven
    <3> QED BY <3>1 DEF Row, RowIdAt
  <2> QED BY <2>1
<1>7. PICK fresh \in Nat : /\ fresh = FreshId(t)
                           /\ \A i \in 1 .. Len(t) : \A c \in RowIdColumns : RowIdAt(t, i, c) < fresh
  BY <1>3, <1>6, FreshIdIs
<1>8. PICK e \in Entities : e = entities[n + 1]
  OBVIOUS
<1>9. PICK row : row = NewRow(e, withId, fresh)
  OBVIOUS
<1>10. RowIsOf(row, e, withId, fresh)
  <2>1. e \in [Elements -> Data \union {Null}]
    BY DEF Entities
  <2> QED BY <2>1, <1>9, NewRowIs
<1>11. row \in T /\ KeyIsGiven(row)
  BY <1>1, <1>10, RowHasItsKey DEF RowIsOf
<1>12. PICK u : u = Append(t, row)
  OBVIOUS
<1>13. AppendRow(withId, t, entities[n + 1]) = u
  BY <1>7, <1>8, <1>9, <1>12 DEF AppendRow
<1>14. /\ u \in Seq(T) /\ Len(u) = o + (n + 1) /\ u[o + (n + 1)] = row
       /\ \A i \in 1 .. Len(t) : u[i] = t[i]
  <2>1. Len(t) + 1 = o + (n + 1)
    BY <1>2, <1>3, <1>4
  <2> QED BY <2>1, <1>2, <1>11, <1>12
<1>15. o \in Nat /\ Len(t) = o + n /\ o + (n + 1) = Len(t) + 1
  BY <1>2, <1>3, <1>4
<1>16. \A i \in 1 .. Len(u) : i \in 1 .. Len(t) \/ i = o + (n + 1)
  BY <1>3, <1>14, <1>15
<1>17. \A i \in 1 .. o : u[i] = rows[i]
  <2>1. \A i \in 1 .. o : i \in 1 .. Len(t)
    BY <1>15
  <2>2. \A i \in 1 .. o : t[i] = rows[i]
    BY <1>1, <1>4 DEF StoredUpTo
  <2> QED BY <2>1, <2>2, <1>14
<1>18. KeysAreGiven(u)
  BY <1>5, <1>11, <1>14, <1>16 DEF KeysAreGiven
<1>19. ASSUME NEW k \in 1 .. (n + 1)
       PROVE  \E f \in Nat :
                /\ RowIsOf(u[o + k], entities[k], withId, f)
                /\ \A i \in 1 .. (o + k - 1) : \A c \in RowIdColumns : RowIdAt(u, i, c) < f
  <2>1. CASE k = n + 1
    <3>1. u[o + k] = row /\ entities[k] = e /\ o + k - 1 = Len(t)
      BY <2>1, <1>8, <1>14, <1>15
    <3>2. \A i \in 1 .. Len(t) : \A c \in RowIdColumns : RowIdAt(u, i, c) = RowIdAt(t, i, c)
      BY <1>14 DEF RowIdAt
    <3> QED BY <3>1, <3>2, <1>7, <1>10
  <2>2. CASE k # n + 1
    <3>1. k \in 1 .. n /\ o + k \in 1 .. Len(t) /\ \A i \in 1 .. (o + k - 1) : i \in 1 .. Len(t)
      BY <2>2, <1>15
    <3>2. PICK f \in Nat :
             /\ RowIsOf(t[o + k], entities[k], withId, f)
             /\ \A i \in 1 .. (o + k - 1) : \A c \in RowIdColumns : RowIdAt(t, i, c) < f
      BY <3>1, <1>1, <1>4 DEF StoredUpTo
    <3>3. u[o + k] = t[o + k]
      BY <3>1, <1>14
    <3>4. \A i \in 1 .. (o + k - 1) : \A c \in RowIdColumns : RowIdAt(u, i, c) = RowIdAt(t, i, c)
      BY <3>1, <1>14 DEF RowIdAt
    <3> QED BY <3>2, <3>3, <3>4
  <2> QED BY <2>1, <2>2
<1>20. Len(rows) = o /\ u \in Seq(Row)
  BY <1>1, <1>4, <1>14
<1> QED BY <1>13, <1>14, <1>17, <1>18, <1>19, <1>20 DEF StoredUpTo

StoringTo(f, entities, withId, n) ==
  f = [i \in 0 .. n |-> IF i = 0 THEN rows ELSE AppendRow(withId, f[i - 1], entities[i])]

(* The recursive function inside Stored exists, by a least counterexample. *)
LEMMA StoringExists ==
  ASSUME NEW entities, NEW withId, NEW n \in Nat
  PROVE  \E f : StoringTo(f, entities, withId, n)
<1> DEFINE Bad == {m \in Nat : ~ \E f : StoringTo(f, entities, withId, m)}
<1>1. SUFFICES ASSUME Bad # {} PROVE FALSE
  OBVIOUS
<1>2. PICK m \in Bad : \A k \in Bad : m <= k
  BY <1>1, NatMin
<1>3. m # 0
  <2> DEFINE e == [i \in 0 .. 0 |-> rows]
  <2>1. StoringTo(e, entities, withId, 0)
    <3>1. \A i \in 0 .. 0 : i = 0
      OBVIOUS
    <3> QED BY <3>1 DEF StoringTo
  <2> QED BY <2>1
<1>4. m - 1 \in Nat /\ m - 1 \notin Bad /\ m \in Nat
  BY <1>2, <1>3
<1>5. PICK f : StoringTo(f, entities, withId, m - 1)
  BY <1>4
<1> DEFINE next == AppendRow(withId, f[m - 1], entities[m])
           g == [i \in 0 .. m |-> IF i < m THEN f[i] ELSE next]
<1>6. StoringTo(g, entities, withId, m)
  <2>1. SUFFICES ASSUME NEW i \in 0 .. m
                 PROVE  g[i] = IF i = 0 THEN rows ELSE AppendRow(withId, g[i - 1], entities[i])
    BY DEF StoringTo
  <2>2. CASE i = m
    <3>1. i - 1 \in 0 .. m /\ i - 1 < m /\ ~ i < m /\ i # 0
      BY <2>2, <1>3, <1>4
    <3>2. g[i] = next /\ g[i - 1] = f[i - 1]
      BY <3>1
    <3> HIDE DEF g
    <3> QED BY <2>2, <3>1, <3>2
  <2>3. CASE i # m
    <3>1. i < m /\ i \in 0 .. m - 1 /\ g[i] = f[i]
      BY <2>3, <1>4
    <3>2. f[i] = IF i = 0 THEN rows ELSE AppendRow(withId, f[i - 1], entities[i])
      BY <3>1, <1>5 DEF StoringTo
    <3>3. i # 0 => g[i - 1] = f[i - 1]
      BY <3>1, <1>4
    <3> HIDE DEF g
    <3> QED BY <3>1, <3>2, <3>3
  <2> QED BY <2>2, <2>3
<1> QED BY <1>6, <1>2

(* What an INSERT would store, by a least number of entities that are not. *)
LEMMA StoredIs ==
  ASSUME SchemaInvariant, rows \in Seq(Row), KeysAreGiven(rows), NEW withId, NEW entities, Len(entities) \in Nat,
         \A k \in 1 .. Len(entities) : entities[k] \in Entities
  PROVE  StoredUpTo(Stored(entities, withId), entities, withId, Len(entities))
<1>1. PICK n \in Nat : n = Len(entities)
  OBVIOUS
<1> DEFINE after[m \in 0 .. Len(entities)] ==
             IF m = 0 THEN rows ELSE AppendRow(withId, after[m - 1], entities[m])
<1>2. Stored(entities, withId) = after[Len(entities)]
  BY DEF Stored
<1>3. after = CHOOSE f : StoringTo(f, entities, withId, Len(entities))
  BY DEF StoringTo
<1>4. StoringTo(after, entities, withId, Len(entities))
  <2> HIDE DEF after
  <2> QED BY <1>3, StoringExists
<1> HIDE DEF after
<1>5. PICK f : f = after
  OBVIOUS
<1>6. \A m \in 0 .. n : f[m] = IF m = 0 THEN rows ELSE AppendRow(withId, f[m - 1], entities[m])
  BY <1>1, <1>4, <1>5 DEF StoringTo
<1> DEFINE Bad == {m \in Nat : m <= n /\ ~ StoredUpTo(f[m], entities, withId, m)}
<1>7. SUFFICES ASSUME Bad # {} PROVE FALSE
  BY <1>1, <1>2, <1>5
<1>8. PICK m \in Bad : \A k \in Bad : m <= k
  <2> HIDE DEF Bad
  <2>1. Bad \subseteq Nat
    BY DEF Bad
  <2> QED BY <2>1, <1>7, NatMin
<1>9. m \in Nat /\ m <= n /\ ~ StoredUpTo(f[m], entities, withId, m) /\ m \in 0 .. n
  BY <1>8
<1>10. m # 0
  <2>1. 0 \in 0 .. n
    OBVIOUS
  <2>2. f[0] = rows
    BY <2>1, <1>6
  <2> QED BY <2>2, <1>9, StoredNone
<1>11. PICK k \in Nat : k = m - 1
  BY <1>9, <1>10
<1>12. k + 1 = m /\ k <= n /\ ~ m <= k /\ m \in 1 .. n
  BY <1>9, <1>10, <1>11
<1>13. StoredUpTo(f[k], entities, withId, k)
  <2>1. k \notin Bad
    <3> HIDE DEF Bad
    <3> QED BY <1>8, <1>12
  <2> QED BY <2>1, <1>12
<1>14. f[m] = AppendRow(withId, f[k], entities[k + 1])
  BY <1>6, <1>9, <1>10, <1>11, <1>12
<1> HIDE DEF Bad
<1>15. entities[k + 1] \in Entities
  BY <1>1, <1>12
<1>16. StoredUpTo(f[m], entities, withId, k + 1)
  BY <1>13, <1>14, <1>15, StoredNext
<1> QED BY <1>9, <1>12, <1>16

-----------------------------------------------------------------------------
(* What an INSERT stores, and when it throws *)

Throws(entities, withId) ==
  \/ entities = <<>>
  \/ RowIdKey(Last(Descriptor)) /\ ~ withId
  \/ \E i \in DOMAIN class : class[i].type = "Other" \/ ~ class[i].backed
  \/ \E i \in Elements : class[i].key # "none" /\ (~ RowIdKey(i) \/ withId)

(* A table in which an INSERT throws for no such reason: every property is *)
(* a column and an element, at its own place, and the last is not left out.*)
LEMMA PlainTable ==
  ASSUME SchemaInvariant, outcome = "generated", class # <<>>, NEW entities, NEW withId,
         ~ Throws(entities, withId)
  PROVE  /\ \A p : p \in DOMAIN class <=> Columned(p)
         /\ \A p : p \in DOMAIN class <=> p \in Elements
         /\ Len(Descriptor) = Len(class) /\ Len(class) \in Nat /\ Len(class) # 0
         /\ \A i \in 1 .. Len(class) : Descriptor[i] = i
         /\ ~ LeftOut(Len(class), withId)
         /\ \A p \in DOMAIN class : Keyed(class, p, "none") \/ (RowIdOf(class, p) /\ ~ withId)
<1>1. class \in Classes /\ index - 1 = Len(class) /\ DOMAIN class = 1 .. Len(class) /\ Len(class) \in Nat
  BY ClassIs DEF SchemaInvariant
<1>2. Len(class) # 0
  <2>1. class \in Seq(Property)
    BY <1>1, ClassesAssumption
  <2> HIDE DEF Property
  <2> QED BY <2>1
<1>3. \A p \in DOMAIN class : Typed(class, p) /\ Backed(p)
  BY DEF Throws, Typed, Backed
<1>4. \A p : p \in DOMAIN class <=> Columned(p)
  BY <1>1, <1>3 DEF Columned
<1>5. \A p : p \in DOMAIN class <=> p \in Elements
  BY <1>3, DescriptorIs
<1> DEFINE keep == {i \in DOMAIN class : class[i].backed}
<1>6. \A i \in 1 .. Len(class) : i \in keep
  BY <1>1, <1>3 DEF Backed
<1> HIDE DEF keep
<1>7. PICK d, n : d = Descriptor /\ n = Len(class)
  OBVIOUS
<1>8. Selects(d, n, keep)
  BY <1>7, DescriptorIs DEF keep
<1>9. Len(d) = n
  BY <1>6, <1>7, <1>8 DEF Selects
<1>10. \A i \in 1 .. n : d[i] = i
  <2>1. ASSUME NEW i \in 1 .. n PROVE d[i] = i
    <3>1. \A m \in 1 .. i : m \in 1 .. n
      BY <1>1, <1>7
    <3>2. \A m \in 1 .. i : m \in keep
      BY <3>1, <1>6, <1>7
    <3> QED BY <3>2, <1>8 DEF Selects
  <2> QED BY <2>1
<1>11. n \in 1 .. n /\ n \in DOMAIN class
  BY <1>1, <1>2, <1>7
<1>12. Last(Descriptor) = n
  BY <1>7, <1>9, <1>10, <1>11 DEF Last
<1>13. ~ LeftOut(n, withId)
  <2>1. LeftOut(n, withId) => RowIdOf(class, n) /\ ~ withId
    BY <1>11, LeftOutIs
  <2>2. RowIdOf(class, n) <=> RowIdKey(n)
    BY DEF RowIdOf, RowIdKey
  <2> QED BY <2>1, <2>2, <1>12 DEF Throws
<1>14. \A p \in DOMAIN class : Keyed(class, p, "none") \/ (RowIdOf(class, p) /\ ~ withId)
  BY <1>5 DEF Throws, Keyed, RowIdOf, RowIdKey
<1> QED BY <1>1, <1>2, <1>4, <1>5, <1>7, <1>9, <1>10, <1>13, <1>14

(* SQLite accepts the INSERT if there is no such reason. *)
LEMMA InsertIsWellFormed ==
  ASSUME SchemaInvariant, outcome = "generated", class # <<>>, NEW entities, NEW withId,
         ~ Throws(entities, withId)
  PROVE  InsertIsAccepted(entities, withId)
<1>1. PICK k, d, n, names, tuple :
        /\ k = Kept(withId) /\ d = Descriptor /\ n = Len(class)
        /\ names = InsertColumns(withId) /\ tuple = EncodeTuple(withId)
  OBVIOUS
<1> DEFINE keep == {i \in DOMAIN d : ~ LeftOut(d[i], withId)}
<1>2. /\ n \in Nat /\ n # 0 /\ Len(d) = n /\ \A i \in 1 .. n : d[i] = i
      /\ ~ LeftOut(n, withId) /\ DOMAIN d = 1 .. n
  BY <1>1, PlainTable, DescriptorIs
<1>3. Selects(k, n, keep) /\ Len(k) \in Nat /\ DOMAIN k = 1 .. Len(k)
  BY <1>1, <1>2, KeptIs
<1>4. n \in 1 .. n /\ n \in keep
  BY <1>2
<1> HIDE DEF keep
<1>5. PICK last \in 1 .. Len(k) : k[last] = n
  BY <1>3, <1>4 DEF Selects
<1>6. /\ \A i \in 1 .. Len(k) : k[i] \in 1 .. n
      /\ \A i, j \in 1 .. Len(k) : i < j => k[i] < k[j]
  BY <1>3 DEF Selects
<1>7. \A i \in 1 .. Len(k) : k[i] < n <=> i # Len(k)
  <2>1. last = Len(k)
    <3>1. ~ last < Len(k)
      <4>1. Len(k) \in 1 .. Len(k)
        BY <1>3, <1>5
      <4>2. last < Len(k) => k[last] < k[Len(k)] /\ k[Len(k)] \in 1 .. n
        BY <4>1, <1>5, <1>6
      <4> QED BY <4>2, <1>2, <1>5
    <3>2. \A m \in Nat : \A l \in 1 .. m : ~ l < m => l = m
      OBVIOUS
    <3>3. PICK m \in Nat : m = Len(k)
      BY <1>3
    <3>4. last \in 1 .. m /\ ~ last < m
      BY <3>1, <3>3
    <3>5. last = m
      BY <3>2, <3>4
    <3> QED BY <3>3, <3>5
  <2>2. ASSUME NEW i \in 1 .. Len(k), i # Len(k) PROVE k[i] < n
    <3>1. i < last
      BY <2>1, <2>2
    <3> QED BY <3>1, <1>5, <1>6
  <2>3. ~ k[Len(k)] < n
    BY <2>1, <1>2, <1>5
  <2> QED BY <2>2, <2>3
<1>8. /\ Len(names) = Len(k) /\ Len(tuple) = Len(k) /\ DOMAIN names = 1 .. Len(k) /\ DOMAIN tuple = 1 .. Len(k)
      /\ \A i \in 1 .. Len(k) :
           /\ Given(NameOf(names, i), withId)
           /\ MarkOf(names, i) = IF k[i] < n THEN "," ELSE ""
           /\ MarkOf(tuple, i) = IF k[i] < n THEN "," ELSE ")"
  BY <1>1, <1>2, NamesAre
<1>9. names # <<>> /\ tuple # <<>>
  <2>1. 1 \in 1 .. Len(k)
    BY <1>3, <1>5
  <2>2. DOMAIN <<>> = {}
    OBVIOUS
  <2> QED BY <2>1, <2>2, <1>8
<1>10. \A i \in 1 .. Len(k) : /\ MarkOf(names, i) = IF i = Len(k) THEN "" ELSE ","
                              /\ MarkOf(tuple, i) = IF i = Len(k) THEN ")" ELSE ","
  BY <1>7, <1>8
<1>11. WellMarked(names, "") /\ WellMarked(tuple, ")")
  BY <1>8, <1>9, <1>10 DEF WellMarked, MarkOf
<1>12. {names[i].name : i \in DOMAIN names} \subseteq ColumnNames
  <2>1. ASSUME NEW i \in DOMAIN names PROVE names[i].name \in ColumnNames
    <3>1. names[i].name \in Elements
      BY <1>8 DEF Given, NameOf
    <3> QED BY <3>1, PlainTable, ColumnNamesAre
  <2> QED BY <2>1
<1>13. entities # <<>>
  BY DEF Throws
<1> QED BY <1>1, <1>8, <1>11, <1>12, <1>13 DEF InsertIsAccepted

(* Nor does a constraint fail. *)
LEMMA ConstraintsHold ==
  ASSUME SchemaInvariant, outcome = "generated", class # <<>>, rows \in Seq(Row), SatisfiesConstraints(rows),
         NEW withId, NEW entities, Len(entities) \in Nat, \A k \in 1 .. Len(entities) : entities[k] \in Entities,
         NEW t, StoredUpTo(t, entities, withId, Len(entities)), ~ Throws(entities, withId)
  PROVE  SatisfiesConstraints(t)
<1>1. PICK o, n \in Nat : o = Len(rows) /\ n = Len(entities)
  <2> HIDE DEF Row
  <2> QED OBVIOUS
<1>2. DOMAIN rows = 1 .. o
  <2> HIDE DEF Row
  <2> QED BY <1>1
<1>3. DOMAIN t = 1 .. (o + n) /\ \A i \in 1 .. o : t[i] = rows[i]
  <2>1. t \in Seq(Row) /\ Len(t) = o + n
    BY <1>1 DEF StoredUpTo
  <2>2. DOMAIN t = 1 .. (o + n)
    <3> HIDE DEF Row
    <3> QED BY <2>1
  <2> QED BY <2>2, <1>1 DEF StoredUpTo
<1>4. \A k \in 1 .. n : \E fresh \in Nat :
        /\ RowIsOf(t[o + k], entities[k], withId, fresh)
        /\ \A i \in 1 .. (o + k - 1) : \A c \in RowIdColumns : RowIdAt(t, i, c) < fresh
  BY <1>1 DEF StoredUpTo
<1>5. \A i \in 1 .. (o + n) : i \in 1 .. o \/ (i - o \in 1 .. n /\ o + (i - o) = i)
  BY <1>1
<1>6. ASSUME NEW i \in DOMAIN t, NEW c \in NotNullColumns PROVE t[i][c] # Null
  <2>1. CASE i \in 1 .. o
    BY <2>1, <1>2, <1>3 DEF SatisfiesConstraints
  <2>2. CASE i \notin 1 .. o
    <3>1. PICK k \in 1 .. n : o + k = i
      BY <2>2, <1>3, <1>5
    <3>2. PICK fresh \in Nat : RowIsOf(t[i], entities[k], withId, fresh)
      BY <3>1, <1>4
    <3>3. Columned(c) /\ ~ Keyed(class, c, "primary") /\ ~ AcceptsNull(class, c)
      BY TableIs
    <3>4. c \in ColumnNames /\ c \in Elements /\ c \in DOMAIN class /\ c \notin RowIdColumns
      BY <3>3, ColumnNamesAre, PlainTable, TableIs
    <3>5. ~ LeftOut(c, withId)
      BY <3>3, <3>4, LeftOutIs DEF RowIdOf, Keyed
    <3>6. t[i][c] = entities[k][c]
      BY <3>2, <3>4, <3>5 DEF RowIsOf, Given
    <3>7. entities[k] \in Entities
      BY <1>1
    <3>8. entities[k][c] # Null
      BY <3>3, <3>4, <3>7 DEF Entities, AcceptsNull
    <3> QED BY <3>6, <3>8
  <2> QED BY <2>1, <2>2
<1>7. ASSUME NEW i \in DOMAIN t, NEW j \in DOMAIN t, i < j PROVE ~ Collide(t[i], t[j])
  <2>1. CASE j \in 1 .. o
    <3>1. i \in 1 .. o /\ i # j
      BY <2>1, <1>1, <1>3, <1>7
    <3> QED BY <2>1, <3>1, <1>2, <1>3 DEF SatisfiesConstraints
  <2>2. CASE j \notin 1 .. o
    <3>1. PICK k \in 1 .. n : o + k = j
      BY <2>2, <1>3, <1>5
    <3>2. PICK fresh \in Nat :
            /\ RowIsOf(t[j], entities[k], withId, fresh)
            /\ \A m \in 1 .. (o + k - 1) : \A c \in RowIdColumns : RowIdAt(t, m, c) < fresh
      BY <3>1, <1>4
    <3>3. SUFFICES ASSUME KeyColumns # {} PROVE ~ (Key(t[i]) = Key(t[j]) /\ ~ HasNull(Key(t[i])))
      BY DEF Collide
    <3>4. PICK c \in KeyColumns : TRUE
      BY <3>3
    <3>5. Columned(c) /\ ~ Keyed(class, c, "none")
      BY TableIs DEF KeyColumns, Keyed
    <3>6. c \in DOMAIN class /\ c \in ColumnNames /\ RowIdOf(class, c) /\ ~ withId
      BY <3>5, PlainTable, ColumnNamesAre
    <3>7. ~ Given(c, withId)
      BY <3>5, <3>6, LeftOutIs DEF Given
    <3>8. t[j][c] = IF c \in RowIdColumns THEN fresh ELSE Null
      BY <3>2, <3>6, <3>7 DEF RowIsOf
    <3>9. c \in DOMAIN Key(t[i]) /\ Key(t[i])[c] = t[i][c] /\ Key(t[j])[c] = t[j][c]
      BY DEF Key
    <3>10. CASE c \in RowIdColumns
      <4>1. i \in 1 .. (o + k - 1)
        BY <3>1, <1>1, <1>3, <1>7
      <4>2. t[i][c] < fresh /\ t[j][c] = fresh
        BY <3>2, <3>8, <3>10, <4>1 DEF RowIdAt
      <4>3. RowIdAt(t, i, c) \in Nat
        <5>1. i \in 1 .. Len(t) /\ t[i] \in Row
          <6>1. t \in Seq(Row)
            BY DEF StoredUpTo
          <6> HIDE DEF Row
          <6> QED BY <6>1
        <5>2. KeyIsGiven(t[i])
          BY <5>1 DEF StoredUpTo, KeysAreGiven
        <5> QED BY <5>1, <5>2, <3>6, <3>10 DEF KeyIsGiven, Row, RowIdAt
      <4>4. t[i][c] # t[j][c]
        BY <4>2, <4>3 DEF RowIdAt
      <4> QED BY <4>4, <3>9
    <3>11. CASE c \notin RowIdColumns
      <4>1. Key(t[i]) = Key(t[j]) => HasNull(Key(t[i]))
        BY <3>8, <3>9, <3>11 DEF HasNull
      <4> QED BY <4>1
    <3> QED BY <3>10, <3>11
  <2> QED BY <2>1, <2>2
<1>8. ASSUME NEW i \in DOMAIN t, NEW j \in DOMAIN t, i # j PROVE ~ Collide(t[i], t[j])
  <2>1. i < j \/ j < i
    BY <1>1, <1>3, <1>8
  <2>2. Collide(t[i], t[j]) => Collide(t[j], t[i])
    BY DEF Collide
  <2> QED BY <2>1, <2>2, <1>7
<1> QED BY <1>6, <1>8 DEF SatisfiesConstraints

InsertIsStored(ins, rs) ==
  LET entities == ins.entities
      old == Len(ins.before)
  IN  /\ ins.outcome = "done" =>
           /\ Len(rs) = old + Len(entities)
           /\ SubSeq(rs, 1, old) = ins.before
           /\ \A k \in DOMAIN entities, p \in Elements :
                ElementIsStored(entities[k][p], rs, old + k, p, ins.withId)
      /\ ins.outcome = "threw" => rs = ins.before /\ Throws(entities, ins.withId)

(* The elements that are stored are those of the entities, but for a key   *)
(* that is left out: a row id is new, an unsigned key is NULL.             *)
LEMMA StoredElements ==
  ASSUME SchemaInvariant, NEW withId, NEW entities, InsertIsAccepted(entities, withId),
         NEW entity, NEW row, NEW fresh, RowIsOf(row, entity, withId, fresh), NEW p \in Elements
  PROVE  \/ row[p] = entity[p]
         \/ p \in RowIdColumns /\ (~ withId \/ entity[p] = Null) /\ row[p] = fresh
         \/ UnsignedKey(p) /\ ~ withId /\ row[p] = Null
<1>1. p \in DOMAIN class
  BY DescriptorIs
<1>2. CASE LeftOut(p, withId)
  <2>1. RowIdOf(class, p) /\ ~ withId /\ Columned(p)
    BY <1>1, <1>2, LeftOutIs
  <2>2. p \in ColumnNames /\ ~ Given(p, withId)
    BY <2>1, <1>2, ColumnNamesAre DEF Given
  <2>3. row[p] = IF p \in RowIdColumns THEN fresh ELSE Null
    BY <2>2 DEF RowIsOf
  <2>4. p \in RowIdColumns \/ UnsignedKey(p)
    BY <2>1, TableIs DEF RowIdOf, Keyed, IsRowId, UnsignedKey
  <2> QED BY <2>1, <2>3, <2>4
<1>3. CASE ~ LeftOut(p, withId)
  <2>1. Given(p, withId)
    BY <1>3 DEF Given
  <2>2. p \in ColumnNames
    <3>1. PICK i \in DOMAIN InsertColumns(withId) : InsertColumns(withId)[i].name = p
      <4>1. PICK j \in 1 .. Len(Kept(withId)) : NameOf(InsertColumns(withId), j) = p
        BY <2>1, NamesAre
      <4>2. j \in DOMAIN InsertColumns(withId)
        BY NamesAre
      <4> QED BY <4>1, <4>2 DEF NameOf
    <3> QED BY <3>1 DEF InsertIsAccepted
  <2>3. row[p] = IF p \in RowIdColumns /\ entity[p] = Null THEN fresh ELSE entity[p]
    BY <2>1, <2>2 DEF RowIsOf
  <2> QED BY <2>3
<1> QED BY <1>2, <1>3

-----------------------------------------------------------------------------
(* The table and its rows *)

TableInvariant ==
  /\ SchemaInvariant
  /\ table \in {"absent", "created", "failed"}
  /\ table # "absent" => outcome = "generated" /\ (table = "failed" <=> CreateFails)
  /\ table # "created" => rows = <<>> /\ inserted.outcome = "none"
  /\ rows \in Seq(Row) /\ SatisfiesConstraints(rows) /\ KeysAreGiven(rows)
  /\ InsertsStoreTheEntities

(* Without rows there is nothing to constrain, and without an INSERT       *)
(* nothing to store.                                                       *)
LEMMA NoRows ==
  ASSUME rows = <<>>, inserted.outcome = "none"
  PROVE  /\ rows \in Seq(Row) /\ SatisfiesConstraints(rows) /\ KeysAreGiven(rows)
         /\ InsertsStoreTheEntities
<1>1. rows \in Seq(Row)
  BY EmptySeq, Zenon
<1>2. DOMAIN rows = {} /\ \A i \in 1 .. Len(rows) : FALSE
  <2>1. DOMAIN <<>> = {} /\ Len(<<>>) = 0 /\ \A i \in 1 .. 0 : FALSE
    OBVIOUS
  <2> QED BY <2>1
<1>3. SatisfiesConstraints(rows)
  BY <1>2, Zenon DEF SatisfiesConstraints
<1>4. KeysAreGiven(rows)
  BY <1>2, Zenon DEF KeysAreGiven
<1>5. InsertsStoreTheEntities
  BY DEF InsertsStoreTheEntities
<1> QED BY <1>1, <1>3, <1>4, <1>5

(* What depends on the class and the columns stays while they do. *)
LEMMA SchemaStays ==
  ASSUME UNCHANGED schemaVars
  PROVE  /\ SchemaInvariant' <=> SchemaInvariant
         /\ CreateFails' <=> CreateFails
         /\ Descriptor' = Descriptor /\ Elements' = Elements /\ Row' = Row
         /\ SatisfiesConstraints(rows)' <=> SatisfiesConstraints(rows')
         /\ KeysAreGiven(rows)' <=> KeysAreGiven(rows')
         /\ InsertsStoreTheEntities' <=> InsertIsStored(inserted', rows')
<1>1. /\ class' = class /\ index' = index /\ columns' = columns /\ accessors' = accessors
      /\ parser' = parser /\ outcome' = outcome
  BY DEF schemaVars
<1>2. SchemaInvariant' <=> SchemaInvariant
  BY <1>1 DEF SchemaInvariant
<1>3. CreateFails' <=> CreateFails
  BY <1>1 DEF CreateFails, UnsignedKey
<1>4. Descriptor' = Descriptor
  BY <1>1 DEF Descriptor
<1>5. Elements' = Elements
  BY <1>4 DEF Elements
<1>6. ColumnNames' = ColumnNames
  BY <1>1 DEF ColumnNames
<1>7. \A n : ColumnOf(n)' = ColumnOf(n)
  BY <1>1 DEF ColumnOf
<1>8. PrimaryKeyColumns' = PrimaryKeyColumns /\ NotNullColumns' = NotNullColumns
  BY <1>6, <1>7 DEF PrimaryKeyColumns, NotNullColumns
<1>9. RowIdColumns' = RowIdColumns
  BY <1>7, <1>8 DEF RowIdColumns
<1>10. KeyColumns' = KeyColumns
  BY <1>1, <1>8 DEF KeyColumns
<1>11. Row' = Row
  BY <1>6 DEF Row
<1>12. SatisfiesConstraints(rows)' <=> SatisfiesConstraints(rows')
  BY <1>8, <1>10 DEF SatisfiesConstraints, Collide, Key, HasNull
<1>13. KeysAreGiven(rows)' <=> KeysAreGiven(rows')
  BY <1>1, <1>9 DEF KeysAreGiven, KeyIsGiven, Backed
<1>14. \A i : (RowIdKey(i)' <=> RowIdKey(i)) /\ (UnsignedKey(i)' <=> UnsignedKey(i))
  BY <1>1 DEF RowIdKey, UnsignedKey
<1>15. InsertsStoreTheEntities' <=> InsertIsStored(inserted', rows')
  <2>1. \A e, t, n, p, id : ElementIsStored(e, t, n, p, id)' <=> ElementIsStored(e, t, n, p, id)
    BY <1>9, <1>14 DEF ElementIsStored
  <2> QED BY <1>1, <1>4, <1>5, <1>9, <1>14 DEF InsertsStoreTheEntities, InsertIsStored, Throws, ElementIsStored
<1> QED BY <1>2, <1>3, <1>4, <1>5, <1>11, <1>12, <1>13, <1>15

(* Nothing happens to the class and its table. *)
LEMMA RowsStay ==
  ASSUME TableInvariant, UNCHANGED <<schemaVars, tableVars>>
  PROVE  TableInvariant'
<1>1. /\ UNCHANGED schemaVars /\ outcome' = outcome
      /\ table' = table /\ rows' = rows /\ inserted' = inserted
  BY DEF schemaVars, tableVars
<1>2. InsertsStoreTheEntities' <=> InsertsStoreTheEntities
  <2>1. InsertsStoreTheEntities <=> InsertIsStored(inserted, rows)
    BY DEF InsertsStoreTheEntities, InsertIsStored, Throws
  <2> QED BY <2>1, <1>1, SchemaStays
<1> QED BY <1>1, <1>2, SchemaStays DEF TableInvariant

(* The processor goes on: there is no table yet. *)
LEMMA SchemaStepKeeps ==
  ASSUME TableInvariant, SchemaNext, UNCHANGED tableVars
  PROVE  TableInvariant'
<1>1. SchemaInvariant'
  BY SchemaNextKeeps DEF TableInvariant
<1>2. outcome = "compiling"
  BY DEF SchemaNext, SkipProperty, Reject, AddPrimaryKey, AddCompositeKey, AddPlainColumn, Generate,
         HasColumn, Present
<1>3. table = "absent" /\ rows = <<>> /\ inserted.outcome = "none"
  BY <1>2 DEF TableInvariant
<1>4. table' = "absent" /\ rows' = <<>> /\ inserted'.outcome = "none"
  BY <1>3 DEF tableVars
<1>5. (rows = <<>> /\ inserted.outcome = "none" =>
         /\ rows \in Seq(Row) /\ SatisfiesConstraints(rows) /\ KeysAreGiven(rows)
         /\ InsertsStoreTheEntities)'
  BY NoRows, PTL
<1> QED BY <1>1, <1>4, <1>5 DEF TableInvariant

(* CREATE makes the table or fails for the reasons given. *)
LEMMA CreateKeeps ==
  ASSUME TableInvariant, Create
  PROVE  TableInvariant'
<1>1. /\ outcome = "generated" /\ table = "absent" /\ UNCHANGED schemaVars /\ outcome' = outcome
      /\ rows' = rows /\ inserted' = inserted
      /\ table' = IF CreateIsAccepted THEN "created" ELSE "failed"
  BY DEF Create, schemaVars
<1>2. CreateIsAccepted <=> ~ CreateFails
  BY <1>1, CreateFailsFor DEF TableInvariant
<1>3. InsertsStoreTheEntities' <=> InsertsStoreTheEntities
  <2>1. InsertsStoreTheEntities <=> InsertIsStored(inserted, rows)
    BY DEF InsertsStoreTheEntities, InsertIsStored, Throws
  <2> QED BY <2>1, <1>1, SchemaStays
<1>4. table' # "absent" /\ (table' = "failed" <=> CreateFails) /\ table' \in {"absent", "created", "failed"}
  BY <1>1, <1>2
<1>5. rows' = <<>> /\ inserted'.outcome = "none"
  BY <1>1 DEF TableInvariant
<1> QED BY <1>1, <1>3, <1>4, <1>5, SchemaStays DEF TableInvariant

(* A function from 1 .. n is a sequence. *)
LEMMA EntitiesAre ==
  ASSUME NEW n \in Nat, NEW S, NEW entities \in [1 .. n -> S]
  PROVE  Len(entities) = n /\ DOMAIN entities = 1 .. n /\ \A k \in 1 .. n : entities[k] \in S
<1>1. entities = [i \in 1 .. n |-> entities[i]]
  OBVIOUS
<1>2. \A f : f = [i \in 1 .. n |-> f[i]] => Len(f) = n
  OBVIOUS
<1> QED BY <1>1, <1>2

(* An INSERT that SQLite accepts. *)
LEMMA InsertDone ==
  ASSUME TableInvariant, table = "created", NEW n \in Nat, NEW entities \in [1 .. n -> Entities], NEW withId,
         NEW t, t = Stored(entities, withId), InsertIsAccepted(entities, withId)
  PROVE  /\ t \in Seq(Row) /\ KeysAreGiven(t)
         /\ Len(t) = Len(rows) + n /\ SubSeq(t, 1, Len(rows)) = rows
         /\ \A k \in 1 .. n, p \in Elements :
              ElementIsStored(entities[k][p], t, Len(rows) + k, p, withId)
<1>1. SchemaInvariant /\ rows \in Seq(Row) /\ KeysAreGiven(rows)
  BY DEF TableInvariant
<1>2. StoredUpTo(t, entities, withId, n)
  BY <1>1, EntitiesAre, StoredIs
<1>3. t \in Seq(Row) /\ Len(t) = Len(rows) + n /\ KeysAreGiven(t) /\ \A i \in 1 .. Len(rows) : t[i] = rows[i]
  BY <1>2 DEF StoredUpTo
<1>4. SubSeq(t, 1, Len(rows)) = rows
  <2> DEFINE T == Row
  <2>1. /\ t \in Seq(T) /\ rows \in Seq(T) /\ Len(t) = Len(rows) + n
        /\ \A i \in 1 .. Len(rows) : t[i] = rows[i]
    BY <1>1, <1>3
  <2> HIDE DEF T
  <2>2. PICK s : s = SubSeq(t, 1, Len(rows))
    OBVIOUS
  <2>3. s \in Seq(T) /\ Len(s) = Len(rows) /\ \A i \in 1 .. Len(rows) : s[i] = t[i]
    BY <2>1, <2>2
  <2>4. s = rows
    BY <2>1, <2>3, SeqEqual
  <2> QED BY <2>2, <2>4
<1>5. ASSUME NEW k \in 1 .. n, NEW p \in Elements
      PROVE  ElementIsStored(entities[k][p], t, Len(rows) + k, p, withId)
  <2>1. PICK row, entity : row = t[Len(rows) + k] /\ entity = entities[k]
    OBVIOUS
  <2>2. PICK fresh \in Nat :
          /\ RowIsOf(row, entity, withId, fresh)
          /\ \A i \in 1 .. (Len(rows) + k - 1) : \A c \in RowIdColumns : RowIdAt(t, i, c) < fresh
    BY <2>1, <1>2 DEF StoredUpTo
  <2>3. \/ row[p] = entity[p]
        \/ p \in RowIdColumns /\ (~ withId \/ entity[p] = Null) /\ row[p] = fresh
        \/ UnsignedKey(p) /\ ~ withId /\ row[p] = Null
    BY <2>2, <1>1, StoredElements
  <2>4. p \in RowIdColumns => \A i \in 1 .. (Len(rows) + k - 1) : t[i][p] < fresh
    BY <2>2 DEF RowIdAt
  <2> QED BY <2>1, <2>3, <2>4 DEF ElementIsStored
<1> QED BY <1>3, <1>4, <1>5

(* An INSERT that throws has a reason to. *)
LEMMA InsertThrew ==
  ASSUME TableInvariant, table = "created", NEW n \in Nat, NEW entities \in [1 .. n -> Entities], NEW withId,
         NEW t, t = Stored(entities, withId), ~ (InsertIsAccepted(entities, withId) /\ SatisfiesConstraints(t))
  PROVE  Throws(entities, withId)
<1>1. /\ SchemaInvariant /\ rows \in Seq(Row) /\ KeysAreGiven(rows) /\ SatisfiesConstraints(rows)
      /\ outcome = "generated" /\ ~ CreateFails
  BY DEF TableInvariant
<1>2. class # <<>>
  BY <1>1 DEF CreateFails
<1>3. Len(entities) = n /\ \A k \in 1 .. n : entities[k] \in Entities
  BY EntitiesAre
<1>4. StoredUpTo(t, entities, withId, n)
  BY <1>1, <1>3, StoredIs
<1> SUFFICES ASSUME ~ Throws(entities, withId) PROVE FALSE
  OBVIOUS
<1>5. InsertIsAccepted(entities, withId)
  BY <1>1, <1>2, InsertIsWellFormed
<1>6. SatisfiesConstraints(t)
  BY <1>1, <1>2, <1>3, <1>4, ConstraintsHold
<1> QED BY <1>5, <1>6

(* INSERT stores all entities or none. *)
LEMMA InsertKeeps ==
  ASSUME TableInvariant, NEW n \in Nat, NEW entities \in [1 .. n -> Entities], NEW withId,
         Insert(entities, withId)
  PROVE  TableInvariant'
<1>1. PICK t, done :
        /\ t = Stored(entities, withId)
        /\ done = (InsertIsAccepted(entities, withId) /\ SatisfiesConstraints(t))
  OBVIOUS
<1>2. /\ table = "created" /\ table' = table /\ UNCHANGED schemaVars /\ outcome' = outcome
      /\ rows' = IF done THEN t ELSE rows
      /\ inserted' = [entities |-> entities, withId |-> withId, before |-> rows,
                      outcome |-> IF done THEN "done" ELSE "threw"]
  BY <1>1 DEF Insert, schemaVars
<1>3. /\ SchemaInvariant' /\ (CreateFails' <=> CreateFails) /\ outcome' = "generated" /\ table' = "created"
      /\ ~ CreateFails
  BY <1>2, SchemaStays DEF TableInvariant
<1>4. DOMAIN entities = 1 .. n /\ Len(entities) = n
  BY EntitiesAre
<1>5. /\ inserted'.entities = entities /\ inserted'.withId = withId /\ inserted'.before = rows
      /\ inserted'.outcome = IF done THEN "done" ELSE "threw"
  BY <1>2
<1>6. CASE done
  <2>1. InsertIsAccepted(entities, withId) /\ SatisfiesConstraints(t) /\ rows' = t
    BY <1>1, <1>2, <1>6
  <2>2. /\ t \in Seq(Row) /\ KeysAreGiven(t)
        /\ Len(t) = Len(rows) + n /\ SubSeq(t, 1, Len(rows)) = rows
        /\ \A k \in 1 .. n, p \in Elements :
             ElementIsStored(entities[k][p], t, Len(rows) + k, p, withId)
    BY <2>1, <1>1, <1>2, InsertDone
  <2>3. InsertIsStored(inserted', t)
    BY <2>2, <1>4, <1>5, <1>6 DEF InsertIsStored
  <2> QED BY <2>1, <2>2, <2>3, <1>2, <1>3, SchemaStays DEF TableInvariant
<1>7. CASE ~ done
  <2>1. rows' = rows /\ Throws(entities, withId)
    BY <1>1, <1>2, <1>7, InsertThrew
  <2>2. InsertIsStored(inserted', rows)
    BY <2>1, <1>5, <1>7 DEF InsertIsStored
  <2> QED BY <2>1, <2>2, <1>2, <1>3, SchemaStays DEF TableInvariant
<1> QED BY <1>1, <1>6, <1>7

(* What a table holds fits its class, its accessors and the INSERTs, in    *)
(* every state.                                                            *)
THEOREM TableInvariantHolds == Spec => []TableInvariant
<1>1. Init => TableInvariant
  <2> SUFFICES ASSUME Init PROVE TableInvariant
    OBVIOUS
  <2>1. SchemaInvariant
    BY SchemaInitInvariant DEF Init
  <2>2. table = "absent" /\ rows = <<>> /\ inserted.outcome = "none"
    BY DEF Init, NotInserted
  <2> QED BY <2>1, <2>2, NoRows DEF TableInvariant
<1>2. TableInvariant /\ [Next]_vars => TableInvariant'
  <2> SUFFICES ASSUME TableInvariant, [Next]_vars PROVE TableInvariant'
    OBVIOUS
  <2>1. CASE SchemaNext /\ UNCHANGED <<conditionVars, tableVars>>
    BY <2>1, SchemaStepKeeps
  <2>2. CASE Create
    BY <2>2, CreateKeeps
  <2>3. ASSUME NEW n \in 0 .. MaxRows - Len(rows), NEW entities \in [1 .. n -> Entities],
               NEW withId \in BOOLEAN, Insert(entities, withId)
        PROVE  TableInvariant'
    <3>1. n \in Nat
      OBVIOUS
    <3> QED BY <3>1, <2>3, InsertKeeps
  <2>4. CASE Query
    BY <2>4, RowsStay DEF Query
  <2>5. CASE UNCHANGED vars
    BY <2>5, RowsStay DEF vars
  <2> QED BY <2>1, <2>2, <2>3, <2>4, <2>5 DEF Next
<1> QED BY <1>1, <1>2, PTL DEF Spec

(* Every variable has its type, for all classes and any number of rows,    *)
(* conditions and statements.                                              *)
THEOREM Types == Spec => []TypeOK
<1>1. TableInvariant /\ ConditionInvariant => TypeOK
  <2> SUFFICES ASSUME TableInvariant, ConditionInvariant PROVE TypeOK
    OBVIOUS
  <2>1. /\ class \in Classes /\ index \in 1 .. Len(class) + 1
        /\ columns \in Seq(ColumnsOf(class)) /\ accessors \in Seq(AccessorsOf(class))
        /\ parser \in ParsersOf(class) /\ outcome \in {"compiling", "generated", "rejected"}
    BY DEF TableInvariant, SchemaInvariant, ColumnsWritten, AccessorsWritten, KeysParsed
  <2>2. ConditionTypeOK
    BY DEF ConditionInvariant
  <2>3. table \in {"absent", "created", "failed"} /\ rows \in Seq(Row)
    BY DEF TableInvariant
  <2> QED BY <2>1, <2>2, <2>3 DEF TypeOK, ColumnsOf, AccessorsOf, ParsersOf
<1> QED BY <1>1, TableInvariantHolds, ConditionInvariantHolds, PTL

(* Of the classes the processor accepts, CREATE fails for those with no    *)
(* property, with a last property that has no column, with both kinds of   *)
(* key or with an unsigned autoincrement key, and for no other; and an     *)
(* accessor names the column of its property unless a property without a   *)
(* backing field is in front: for classes of any number of properties.     *)
THEOREM GeneratedTables == Spec => []GeneratedTablesAreExplained
<1>1. TableInvariant => GeneratedTablesAreExplained
  <2> SUFFICES ASSUME TableInvariant PROVE GeneratedTablesAreExplained
    OBVIOUS
  <2>1. AccessorsFitTheirColumn
    BY AccessorsFit DEF TableInvariant
  <2>2. CreateFailureIsExplained
    BY DEF TableInvariant, CreateFailureIsExplained, CreateFails
  <2> QED BY <2>1, <2>2 DEF GeneratedTablesAreExplained
<1> QED BY <1>1, TableInvariantHolds, PTL

(* INSERT stores the entities it is given, every element in its column,    *)
(* but for a Long key that it leaves out or gets as null, in whose place   *)
(* the row has an id larger than all before it, and a ULong key that it    *)
(* leaves out, which is NULL; or it throws for one of its four reasons and *)
(* stores nothing: for any number of properties, entities and rows.        *)
THEOREM InsertsStore == Spec => []InsertsStoreTheEntities
<1>1. TableInvariant => InsertsStoreTheEntities
  BY DEF TableInvariant
<1> QED BY <1>1, TableInvariantHolds, PTL

(* In a table that was created, a Long key is the only column of the key,  *)
(* and a composite key has no other part than its properties.              *)
LEMMA KeyOfTable ==
  ASSUME TableInvariant, table = "created"
  PROVE  /\ \A i \in DOMAIN class : class[i].key = "primary" /\ class[i].type = "Long" =>
              i \in RowIdColumns /\ \A c \in KeyColumns : c = i
         /\ parser.compositePrimaryKeys # <<>> => KeyColumns = Range(parser.compositePrimaryKeys)
         /\ parser.compositePrimaryKeys # <<>> => KeyColumns # {}
<1>1. SchemaInvariant /\ outcome = "generated" /\ ~ CreateFails
  BY DEF TableInvariant
<1>2. class \in Classes /\ index = Len(class) + 1 /\ KeysParsed(class, parser, index)
  BY <1>1 DEF SchemaInvariant
<1>3. DOMAIN class = 1 .. (index - 1)
  BY <1>2, ClassIs
<1>4. \A p, q : ~ (p \in PrimaryKeyColumns /\ q \in Range(parser.compositePrimaryKeys))
  <2> SUFFICES ASSUME NEW p \in PrimaryKeyColumns, NEW q \in Range(parser.compositePrimaryKeys) PROVE FALSE
    OBVIOUS
  <2>1. Columned(p) /\ Keyed(class, p, "primary") /\ Columned(q) /\ Keyed(class, q, "composite")
    BY <1>1, TableIs
  <2>2. PICK i, j \in 1 .. Len(columns) : NameAt(columns, i) = p /\ NameAt(columns, j) = q
    BY <2>1, <1>1, ColumnsAre
  <2>3. i \in DOMAIN columns /\ j \in DOMAIN columns
    BY <1>1, ColumnsAre
  <2> QED BY <2>1, <2>2, <2>3, <1>1 DEF CreateFails, NameAt, Keyed
<1>5. ASSUME NEW i \in DOMAIN class, class[i].key = "primary", class[i].type = "Long"
      PROVE  i \in RowIdColumns /\ \A c \in KeyColumns : c = i
  <2>1. Columned(i) /\ Keyed(class, i, "primary") /\ IsRowId(class, i) /\ Typed(class, i)
    BY <1>3, <1>5 DEF Columned, Typed, Keyed, IsRowId
  <2>2. i \in RowIdColumns /\ i \in PrimaryKeyColumns
    BY <2>1, <1>1, TableIs
  <2>3. \A c \in PrimaryKeyColumns : c = KeyName(parser)
    BY <1>1, <1>2, TableIs DEF KeysParsed, Columned
  <2> QED BY <2>2, <2>3, <1>4 DEF KeyColumns
<1>6. ASSUME parser.compositePrimaryKeys # <<>>
      PROVE  KeyColumns = Range(parser.compositePrimaryKeys) /\ KeyColumns # {}
  <2>1. PICK s : s = parser.compositePrimaryKeys
    OBVIOUS
  <2>2. s \in Seq(DOMAIN class) /\ s # <<>>
    BY <2>1, <1>2, <1>6 DEF KeysParsed, ParsersOf
  <2>3. s[1] \in Range(s)
    BY <2>2 DEF Range
  <2> QED BY <2>1, <2>3, <1>4 DEF KeyColumns
<1> QED BY <1>5, <1>6

(* Columns that are never NULL and together the key identify a row. *)
LEMMA KeyIdentifies ==
  ASSUME SatisfiesConstraints(rows), KeyColumns # {},
         \A i \in DOMAIN rows : \A c \in KeyColumns : rows[i][c] # Null
  PROVE  \A i, j \in DOMAIN rows : ~ HasNull(Key(rows[i])) /\ (Key(rows[i]) = Key(rows[j]) => i = j)
<1>1. \A i \in DOMAIN rows : ~ HasNull(Key(rows[i]))
  BY DEF HasNull, Key
<1> QED BY <1>1 DEF SatisfiesConstraints, Collide

(* A key that is a Long, or composite and of backed properties, is never   *)
(* NULL and tells any two rows apart: for any number of rows and columns.  *)
THEOREM KeysIdentify == Spec => []KeysIdentifyRows
<1>1. TableInvariant => KeysIdentifyRows
  <2> SUFFICES ASSUME TableInvariant, NEW x \in DOMAIN rows,
                      \/ \E i \in DOMAIN class : class[i].key = "primary" /\ class[i].type = "Long"
                      \/ /\ parser.compositePrimaryKeys # <<>>
                         /\ \A i \in Range(parser.compositePrimaryKeys) : class[i].backed
               PROVE  \A i, j \in DOMAIN rows :
                        ~ HasNull(Key(rows[i])) /\ (Key(rows[i]) = Key(rows[j]) => i = j)
    BY DEF KeysIdentifyRows
  <2>1. table = "created"
    <3>1. DOMAIN <<>> = {}
      OBVIOUS
    <3> QED BY <3>1 DEF TableInvariant
  <2>2. SatisfiesConstraints(rows) /\ KeysAreGiven(rows) /\ DOMAIN rows = 1 .. Len(rows)
    <3> DEFINE T == Row
    <3>1. rows \in Seq(T) /\ SatisfiesConstraints(rows) /\ KeysAreGiven(rows)
      BY DEF TableInvariant
    <3> HIDE DEF T
    <3> QED BY <3>1
  <2>3. KeyColumns # {} /\ \A i \in DOMAIN rows : \A c \in KeyColumns : rows[i][c] # Null
    <3>1. CASE \E i \in DOMAIN class : class[i].key = "primary" /\ class[i].type = "Long"
      <4>1. PICK k \in RowIdColumns : \A c \in KeyColumns : c = k
        BY <3>1, <2>1, KeyOfTable
      <4>2. k \in KeyColumns
        BY DEF KeyColumns, RowIdColumns
      <4>3. \A i \in DOMAIN rows : rows[i][k] # Null
        BY <2>2 DEF KeysAreGiven, KeyIsGiven
      <4> QED BY <4>1, <4>2, <4>3
    <3>2. CASE /\ parser.compositePrimaryKeys # <<>>
               /\ \A i \in Range(parser.compositePrimaryKeys) : class[i].backed
      <4>1. KeyColumns = Range(parser.compositePrimaryKeys) /\ KeyColumns # {}
        BY <3>2, <2>1, KeyOfTable
      <4> QED BY <4>1, <3>2, <2>2 DEF KeysAreGiven, KeyIsGiven, Backed
    <3> QED BY <3>1, <3>2
  <2> QED BY <2>2, <2>3, KeyIdentifies
<1> QED BY <1>1, TableInvariantHolds, PTL

=============================================================================
