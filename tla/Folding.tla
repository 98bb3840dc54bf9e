------------------------------ MODULE Folding ------------------------------
(***************************************************************************)
(* What FoldLeft() of the community modules computes, for sequences of     *)
(* every length and for every operator: it starts with the base, each      *)
(* element that is appended is applied last, a fold of a concatenation     *)
(* continues where the first part has stopped, and a set that is closed    *)
(* under the operator is not left. And what the sums and concatenations of *)
(* the community modules are for two and three operands.                   *)
(***************************************************************************)
EXTENDS Integers, Sequences, SequencesExt, SequenceTheorems, WellFoundedInduction, TLAPS

\* Induction over the natural numbers, for a set in place of a formula.
LEMMA NatSet ==
    ASSUME NEW S, 0 \in S, \A n \in Nat : n \in S => n + 1 \in S
    PROVE  Nat \subseteq S
<1> SUFFICES ASSUME NEW k \in Nat, k \notin S PROVE FALSE
  OBVIOUS
<1> DEFINE T == {n \in Nat : n \notin S}
           R == OpToRel(<, Nat)
<1>1. IsWellFoundedOn(R, Nat)
  BY NatLessThanWellFounded
<1>2. T \subseteq Nat /\ T # {}
  OBVIOUS
<1> HIDE DEF R
<1>3. \E x \in T : \A y \in T : ~(<<y, x>> \in R)
  BY <1>1, <1>2, WFMin
<1>4. \A x, y \in Nat : <<y, x>> \in R <=> y < x
  BY DEF R, OpToRel
<1>5. PICK x \in T : \A y \in T : ~(y < x)
  BY <1>3, <1>4
<1>6. x # 0 /\ x - 1 \in Nat
  OBVIOUS
<1> QED
  BY <1>5, <1>6

\* What FoldLeft iterates: the result for each set of indices.
IsIter(f, n, v, q, Op(_, _)) ==
    f = [s \in SUBSET (1..n) |->
            IF s = {} THEN v ELSE Op(f[s \ {Max(s)}], q[Max(s)])]

\* One application.  A lemma can be cited for any operator it takes as a parameter as long
\* as its statement only passes that operator on.
Applied(Op(_, _), x, e) == Op(x, e)

\* A set of numbers up to n that is not empty has a largest one.
LEMMA MaxOfInterval ==
    ASSUME NEW n \in Nat, NEW s \in SUBSET (0..n), s # {}
    PROVE  Max(s) \in s /\ \A i \in s : i <= Max(s)
<1> DEFINE P(m) == \A t \in SUBSET (0..m) : t # {} => \E x \in t : \A i \in t : i <= x
           S == {m \in Nat : P(m)}
<1>1. P(0)
  <2> SUFFICES ASSUME NEW t \in SUBSET (0..0), t # {}
               PROVE  \E x \in t : \A i \in t : i <= x
    OBVIOUS
  <2>1. \A i \in t : i = 0
    OBVIOUS
  <2>2. PICK y \in t : TRUE
    OBVIOUS
  <2>3. y = 0 /\ y <= y
    BY <2>1, <2>2
  <2> QED
    BY <2>1, <2>2, <2>3
<1>2. ASSUME NEW m \in Nat, P(m) PROVE P(m + 1)
  <2> SUFFICES ASSUME NEW t \in SUBSET (0..m + 1), t # {}
               PROVE  \E x \in t : \A i \in t : i <= x
    OBVIOUS
  <2>1. CASE m + 1 \in t
    BY <2>1
  <2>2. CASE m + 1 \notin t
    <3>1. t \in SUBSET (0..m)
      BY <2>2
    <3> QED
      BY <1>2, <3>1
  <2> QED
    BY <2>1, <2>2
<1>3. n \in S
  <2>1. 0 \in S /\ \A m \in Nat : m \in S => m + 1 \in S
    BY <1>1, <1>2
  <2> HIDE DEF S
  <2> QED
    BY <2>1, NatSet
<1>4. \E x \in s : \A i \in s : i <= x
  BY <1>3
<1> QED
  BY <1>4 DEF Max

\* The largest of the first n + 1 indices is the last.
LEMMA MaxIsLast ==
    ASSUME NEW m \in Nat, NEW s \in SUBSET (1..m + 1), m + 1 \in s
    PROVE  s # {} /\ Max(s) = m + 1
<1>1. s # {} /\ m + 1 \in Nat /\ s \in SUBSET (0..m + 1)
  OBVIOUS
<1>2. Max(s) \in s /\ \A i \in s : i <= Max(s)
  BY <1>1, MaxOfInterval
<1>3. Max(s) \in 1..m + 1 /\ m + 1 <= Max(s)
  BY <1>2
<1> HIDE DEF Max
<1>4. Max(s) = m + 1
  BY <1>1, <1>3
<1> QED
  BY <1>1, <1>4

\* All indices but the last are those of the sequence before.
LEMMA WholeInterval ==
    ASSUME NEW n \in Nat
    PROVE  /\ 1..n + 1 # {} /\ Max(1..n + 1) = n + 1
           /\ (1..n + 1) \ {n + 1} = 1..n
<1>1. n + 1 \in 1..n + 1
  OBVIOUS
<1> QED
  BY <1>1, MaxIsLast

\* FoldLeft() is such an iteration, applied to all indices.
LEMMA FoldIsIter ==
    ASSUME NEW v, NEW q, NEW Op(_, _), NEW n \in Nat, DOMAIN q = 1..n
    PROVE  \E f : IsIter(f, n, v, q, Op) /\ FoldLeft(Op, v, q) = f[1..n]
<1> DEFINE P(m) == \E f : IsIter(f, m, v, q, Op)
           S == {m \in Nat : P(m)}
<1>1. P(0)
  <2> DEFINE f == [s \in SUBSET (1..0) |-> v]
  <2>1. \A s \in SUBSET (1..0) : s = {}
    OBVIOUS
  <2>2. IsIter(f, 0, v, q, Op)
    BY <2>1 DEF IsIter
  <2> QED
    BY <2>2
<1>2. ASSUME NEW m \in Nat, P(m) PROVE P(m + 1)
  <2>1. PICK f : IsIter(f, m, v, q, Op)
    BY <1>2
  <2> DEFINE g == [s \in SUBSET (1..m + 1) |->
                     IF m + 1 \in s THEN Op(f[s \ {m + 1}], q[m + 1]) ELSE f[s]]
  <2>2. ASSUME NEW s \in SUBSET (1..m + 1)
        PROVE  g[s] = IF s = {} THEN v ELSE Op(g[s \ {Max(s)}], q[Max(s)])
    <3>1. CASE m + 1 \in s
      <4>1. Max(s) = m + 1
        BY <3>1, MaxIsLast
      <4>2. s \ {m + 1} \in SUBSET (1..m + 1) /\ m + 1 \notin s \ {m + 1}
        OBVIOUS
      <4>3. g[s \ {m + 1}] = f[s \ {m + 1}]
        BY <4>2
      <4>4. g[s] = Op(f[s \ {m + 1}], q[m + 1])
        BY <3>1
      <4> QED
        BY <3>1, <4>1, <4>3, <4>4
    <3>2. CASE m + 1 \notin s
      <4>1. s \in SUBSET (1..m)
        BY <3>2
      <4>2. f[s] = IF s = {} THEN v ELSE Op(f[s \ {Max(s)}], q[Max(s)])
        BY <2>1, <4>1 DEF IsIter
      <4>3. g[s] = f[s]
        BY <3>2
      <4>4. s \ {Max(s)} \in SUBSET (1..m + 1) /\ m + 1 \notin s \ {Max(s)}
        BY <3>2
      <4>5. g[s \ {Max(s)}] = f[s \ {Max(s)}]
        BY <4>4
      <4> QED
        BY <4>2, <4>3, <4>5
    <3> QED
      BY <3>1, <3>2
  <2>3. IsIter(g, m + 1, v, q, Op)
    BY <2>2 DEF IsIter
  <2> QED
    BY <2>3
<1>3. P(n)
  <2>1. 0 \in S /\ \A m \in Nat : m \in S => m + 1 \in S
    BY <1>1, <1>2
  <2> HIDE DEF S
  <2>2. n \in S
    BY <2>1, NatSet
  <2> QED
    BY <2>2 DEF S
<1>4. FoldLeft(Op, v, q) = (CHOOSE f : IsIter(f, n, v, q, Op))[1..n]
  BY DEF FoldLeft, MapThenFoldSet, IsIter
<1> QED
  BY <1>3, <1>4

\* Two iterations agree as long as the sequences do.
LEMMA ItersAgree ==
    ASSUME NEW v, NEW Op(_, _), NEW q, NEW p, NEW f, NEW g, NEW m \in Nat, NEW n \in Nat, NEW l \in Nat,
           IsIter(f, m, v, q, Op), IsIter(g, n, v, p, Op), l <= m, l <= n,
           \A i \in 1..l : q[i] = p[i]
    PROVE  f[1..l] = g[1..l]
<1> DEFINE P(k) == k <= l => f[1..k] = g[1..k]
           S == {k \in Nat : P(k)}
<1>1. P(0)
  <2>1. 1..0 = {}
    OBVIOUS
  <2> QED
    BY <2>1 DEF IsIter
<1>2. ASSUME NEW k \in Nat, P(k), k + 1 <= l PROVE f[1..k + 1] = g[1..k + 1]
  <2> DEFINE s == 1..k + 1
  <2>1. s \in SUBSET (1..m) /\ s \in SUBSET (1..n)
    BY <1>2
  <2>2. k + 1 \in 1..l
    BY <1>2
  <2>3. s # {} /\ Max(s) = k + 1 /\ s \ {k + 1} = 1..k
    BY WholeInterval
  <2>4. f[s] = Op(f[s \ {Max(s)}], q[Max(s)])
    BY <2>1, <2>3 DEF IsIter
  <2>5. g[s] = Op(g[s \ {Max(s)}], p[Max(s)])
    BY <2>1, <2>3 DEF IsIter
  <2>6. q[k + 1] = p[k + 1] /\ f[1..k] = g[1..k]
    BY <1>2, <2>2
  <2> QED
    BY <2>3, <2>4, <2>5, <2>6
<1>3. l \in S
  <2>1. 0 \in S /\ \A k \in Nat : k \in S => k + 1 \in S
    BY <1>1, <1>2
  <2> HIDE DEF S
  <2> QED
    BY <2>1, NatSet
<1> QED
  BY <1>3

\* Nothing to fold.
LEMMA FoldEmpty ==
    ASSUME NEW v, NEW Op(_, _)
    PROVE  FoldLeft(Op, v, <<>>) = v
<1>1. DOMAIN <<>> = 1..0 /\ 1..0 = {}
  OBVIOUS
<1>2. PICK f : IsIter(f, 0, v, <<>>, Op) /\ FoldLeft(Op, v, <<>>) = f[1..0]
  BY <1>1, FoldIsIter
<1> QED
  BY <1>1, <1>2 DEF IsIter

\* The last element is applied last.
LEMMA FoldAppend ==
    ASSUME NEW Op(_, _), NEW v, NEW S, NEW q \in Seq(S), NEW e \in S
    PROVE  FoldLeft(Op, v, Append(q, e)) = Applied(Op, FoldLeft(Op, v, q), e)
<1> DEFINE n == Len(q)
           p == Append(q, e)
<1>1. n \in Nat /\ DOMAIN q = 1..n
  BY LenProperties
<1>2. p \in Seq(S) /\ Len(p) = n + 1 /\ p[n + 1] = e /\ \A i \in 1..n : p[i] = q[i]
  BY AppendProperties
<1>3. DOMAIN p = 1..n + 1 /\ n + 1 \in Nat
  BY <1>1, <1>2, LenProperties
<1> HIDE DEF n, p
<1>4. PICK f : IsIter(f, n, v, q, Op) /\ FoldLeft(Op, v, q) = f[1..n]
  BY <1>1, FoldIsIter
<1>5. PICK g : IsIter(g, n + 1, v, p, Op) /\ FoldLeft(Op, v, p) = g[1..n + 1]
  BY <1>3, FoldIsIter
<1>6. f[1..n] = g[1..n]
  <2>1. \A i \in 1..n : q[i] = p[i]
    BY <1>2
  <2>2. n \in Nat /\ n + 1 \in Nat /\ n <= n /\ n <= n + 1
    BY <1>1
  <2> QED
    BY <1>4, <1>5, <2>1, <2>2, ItersAgree
<1>7. g[1..n + 1] = Op(g[1..n], e)
  <2> DEFINE s == 1..n + 1
  <2>1. s \in SUBSET (1..n + 1)
    OBVIOUS
  <2>2. s # {} /\ Max(s) = n + 1 /\ s \ {n + 1} = 1..n
    BY <1>1, WholeInterval
  <2>3. g[s] = Op(g[s \ {Max(s)}], p[Max(s)])
    BY <1>5, <2>1, <2>2 DEF IsIter
  <2> QED
    BY <1>2, <2>2, <2>3
<1> QED
  BY <1>4, <1>5, <1>6, <1>7 DEF p, Applied

\* The first element is applied first.
LEMMA FoldFirst ==
    ASSUME NEW Op(_, _), NEW v, NEW S, NEW q \in Seq(S), q # <<>>
    PROVE  FoldLeft(Op, v, q) = FoldLeft(Op, Applied(Op, v, Head(q)), Tail(q))
<1> DEFINE P(n) == \A p \in Seq(S) :
                      Len(p) = n + 1 => FoldLeft(Op, v, p) = FoldLeft(Op, Applied(Op, v, Head(p)), Tail(p))
           T == {n \in Nat : P(n)}
<1>0. \A w : \A e \in S, p \in Seq(S) :
         FoldLeft(Op, w, Append(p, e)) = Applied(Op, FoldLeft(Op, w, p), e)
  BY FoldAppend
<1>1. P(0)
  <2> SUFFICES ASSUME NEW p \in Seq(S), Len(p) = 1
               PROVE  FoldLeft(Op, v, p) = FoldLeft(Op, Applied(Op, v, Head(p)), Tail(p))
    OBVIOUS
  <2>1. p # <<>>
    BY EmptySeq
  <2>2. Head(p) \in S /\ Tail(p) \in Seq(S) /\ Len(Tail(p)) = 0
    BY <2>1, HeadTailProperties
  <2>3. Tail(p) = <<>>
    BY <2>2, EmptySeq
  <2>4. <<>> \in Seq(S) /\ p = Append(<<>>, Head(p))
    <3>1. PICK r \in Seq(S), e \in S : p = Append(r, e)
      BY <2>1, SequenceEmptyOrAppend
    <3>2. Len(r) = 0
      BY <3>1, AppendProperties, LenProperties
    <3>3. r = <<>>
      BY <3>2, EmptySeq
    <3>4. p = <<e>> /\ Head(p) = e
      BY <3>1, <3>3
    <3> QED
      BY <3>1, <3>3, <3>4, EmptySeq
  <2>5. FoldLeft(Op, v, Append(<<>>, Head(p))) = Applied(Op, FoldLeft(Op, v, <<>>), Head(p))
    BY <1>0, <2>2, <2>4
  <2>6. FoldLeft(Op, v, <<>>) = v
    BY FoldEmpty
  <2>7. FoldLeft(Op, Applied(Op, v, Head(p)), <<>>) = Applied(Op, v, Head(p))
    BY FoldEmpty
  <2> QED
    BY <2>3, <2>4, <2>5, <2>6, <2>7
<1>2. ASSUME NEW n \in Nat, P(n) PROVE P(n + 1)
  <2> SUFFICES ASSUME NEW p \in Seq(S), Len(p) = (n + 1) + 1
               PROVE  FoldLeft(Op, v, p) = FoldLeft(Op, Applied(Op, v, Head(p)), Tail(p))
    OBVIOUS
  <2>1. p # <<>>
    BY EmptySeq
  <2>2. PICK r \in Seq(S), e \in S : p = Append(r, e)
    BY <2>1, SequenceEmptyOrAppend
  <2>3. Len(r) = n + 1
    <3>1. Len(p) = Len(r) + 1
      BY <2>2, AppendProperties
    <3> QED
      BY <3>1, LenProperties
  <2>4. r # <<>>
    BY <2>3, EmptySeq
  <2>5. Head(p) = Head(r) /\ Tail(p) = Append(Tail(r), e) /\ Tail(r) \in Seq(S)
    <3>1. Tail(r) \in Seq(S)
      BY <2>4, HeadTailProperties
    <3>2. Head(p) = Head(r) /\ Tail(p) = Append(Tail(r), e)
      BY <2>2, <2>4, HeadTailAppend
    <3> QED
      BY <3>1, <3>2
  <2>6. FoldLeft(Op, v, r) = FoldLeft(Op, Applied(Op, v, Head(r)), Tail(r))
    BY <1>2, <2>3
  <2>7. FoldLeft(Op, v, Append(r, e)) = Applied(Op, FoldLeft(Op, v, r), e)
    BY FoldAppend
  <2>8. FoldLeft(Op, Applied(Op, v, Head(r)), Append(Tail(r), e))
            = Applied(Op, FoldLeft(Op, Applied(Op, v, Head(r)), Tail(r)), e)
    BY <1>0, <2>5
  <2> QED
    BY <2>2, <2>5, <2>6, <2>7, <2>8
<1>3. Nat \subseteq T
  <2>1. 0 \in T /\ \A n \in Nat : n \in T => n + 1 \in T
    BY <1>1, <1>2
  <2> HIDE DEF T
  <2> QED
    BY <2>1, NatSet
<1>4. Len(q) - 1 \in Nat /\ Len(q) = (Len(q) - 1) + 1
  <2>1. Len(q) \in Nat /\ Len(q) # 0
    BY EmptySeq, LenProperties
  <2> QED
    BY <2>1
<1> QED
  BY <1>3, <1>4

\* One element.
LEMMA FoldOne ==
    ASSUME NEW Op(_, _), NEW v, NEW e
    PROVE  FoldLeft(Op, v, <<e>>) = Applied(Op, v, e)
<1>1. <<>> \in Seq({e}) /\ e \in {e} /\ Append(<<>>, e) = <<e>>
  BY EmptySeq
<1>2. \A w : \A d \in {e}, p \in Seq({e}) :
         FoldLeft(Op, w, Append(p, d)) = Applied(Op, FoldLeft(Op, w, p), d)
  BY FoldAppend
<1>3. FoldLeft(Op, v, <<>>) = v
  BY FoldEmpty
<1> QED
  BY <1>1, <1>2, <1>3

\* A sequence is folded from where the one before it has led.
LEMMA FoldConcat ==
    ASSUME NEW Op(_, _), NEW v, NEW S, NEW p \in Seq(S), NEW q \in Seq(S)
    PROVE  FoldLeft(Op, v, p \o q) = FoldLeft(Op, FoldLeft(Op, v, p), q)
<1> DEFINE w == FoldLeft(Op, v, p)
           P(n) == \A r \in Seq(S) :
                      Len(r) = n => FoldLeft(Op, v, p \o r) = FoldLeft(Op, w, r)
           T == {n \in Nat : P(n)}
<1> HIDE DEF w
<1>0. \A x : \A e \in S, r \in Seq(S) :
         FoldLeft(Op, x, Append(r, e)) = Applied(Op, FoldLeft(Op, x, r), e)
  BY FoldAppend
<1>1. P(0)
  <2>1. \A r \in Seq(S) : Len(r) = 0 => r = <<>>
    BY EmptySeq
  <2>2. FoldLeft(Op, w, <<>>) = w /\ p \o <<>> = p
    BY FoldEmpty, ConcatEmptySeq
  <2> QED
    BY <2>1, <2>2 DEF w
<1>2. ASSUME NEW n \in Nat, P(n) PROVE P(n + 1)
  <2> SUFFICES ASSUME NEW r \in Seq(S), Len(r) = n + 1
               PROVE  FoldLeft(Op, v, p \o r) = FoldLeft(Op, w, r)
    OBVIOUS
  <2>1. r # <<>>
    BY EmptySeq
  <2>2. PICK t \in Seq(S), e \in S : r = Append(t, e)
    BY <2>1, SequenceEmptyOrAppend
  <2>3. Len(t) = n
    <3>1. Len(r) = Len(t) + 1
      BY <2>2, AppendProperties
    <3> QED
      BY <3>1, LenProperties
  <2>4. p \o t \in Seq(S) /\ p \o Append(t, e) = Append(p \o t, e)
    <3>1. p \o t \in Seq(S) /\ <<e>> \in Seq(S)
      BY ConcatProperties
    <3>2. Append(t, e) = t \o <<e>> /\ Append(p \o t, e) = (p \o t) \o <<e>>
      BY <3>1, AppendIsConcat
    <3>3. p \o (t \o <<e>>) = (p \o t) \o <<e>>
      BY <3>1, ConcatAssociative
    <3> QED
      BY <3>1, <3>2, <3>3
  <2>5. FoldLeft(Op, v, p \o t) = FoldLeft(Op, w, t)
    BY <1>2, <2>3
  <2>6. FoldLeft(Op, v, Append(p \o t, e)) = Applied(Op, FoldLeft(Op, v, p \o t), e)
    BY <1>0, <2>4
  <2>7. FoldLeft(Op, w, Append(t, e)) = Applied(Op, FoldLeft(Op, w, t), e)
    BY <1>0
  <2> QED
    BY <2>2, <2>4, <2>5, <2>6, <2>7
<1>3. Nat \subseteq T
  <2>1. 0 \in T /\ \A n \in Nat : n \in T => n + 1 \in T
    BY <1>1, <1>2
  <2> HIDE DEF T
  <2> QED
    BY <2>1, NatSet
<1> QED
  BY <1>3, LenProperties DEF w

\* What each application keeps holds of the result.
LEMMA FoldInvariant ==
    ASSUME NEW Op(_, _), NEW V, NEW v \in V, NEW S, NEW q \in Seq(S),
           \A x \in V, e \in S : Applied(Op, x, e) \in V
    PROVE  FoldLeft(Op, v, q) \in V
<1> DEFINE P(n) == \A p \in Seq(S) : Len(p) = n => FoldLeft(Op, v, p) \in V
           T == {n \in Nat : P(n)}
<1>1. P(0)
  <2>1. \A p \in Seq(S) : Len(p) = 0 => p = <<>>
    BY EmptySeq
  <2>2. FoldLeft(Op, v, <<>>) = v
    BY FoldEmpty
  <2> QED
    BY <2>1, <2>2
<1>2. ASSUME NEW n \in Nat, P(n) PROVE P(n + 1)
  <2> SUFFICES ASSUME NEW p \in Seq(S), Len(p) = n + 1 PROVE FoldLeft(Op, v, p) \in V
    OBVIOUS
  <2>1. p # <<>>
    BY EmptySeq
  <2>2. PICK r \in Seq(S), e \in S : p = Append(r, e)
    BY <2>1, SequenceEmptyOrAppend
  <2>3. Len(r) = n
    <3>1. Len(p) = Len(r) + 1
      BY <2>2, AppendProperties
    <3> QED
      BY <3>1, LenProperties
  <2>4. FoldLeft(Op, v, Append(r, e)) = Applied(Op, FoldLeft(Op, v, r), e)
    BY FoldAppend
  <2> QED
    BY <1>2, <2>2, <2>3, <2>4
<1>3. Nat \subseteq T
  <2>1. 0 \in T /\ \A n \in Nat : n \in T => n + 1 \in T
    BY <1>1, <1>2
  <2> HIDE DEF T
  <2> QED
    BY <2>1, NatSet
<1> QED
  BY <1>3, LenProperties

\* Induction over sequences, for a set in place of a formula.
LEMMA SeqSet ==
    ASSUME NEW S, NEW T, <<>> \in T,
           \A q \in Seq(S), e \in S : q \in T => Append(q, e) \in T
    PROVE  Seq(S) \subseteq T
<1> DEFINE P(n) == \A p \in Seq(S) : Len(p) = n => p \in T
           N == {n \in Nat : P(n)}
<1>1. P(0)
  BY EmptySeq
<1>2. ASSUME NEW n \in Nat, P(n) PROVE P(n + 1)
  <2> SUFFICES ASSUME NEW p \in Seq(S), Len(p) = n + 1 PROVE p \in T
    OBVIOUS
  <2>1. p # <<>>
    BY EmptySeq
  <2>2. PICK r \in Seq(S), e \in S : p = Append(r, e)
    BY <2>1, SequenceEmptyOrAppend
  <2>3. Len(r) = n
    <3>1. Len(p) = Len(r) + 1
      BY <2>2, AppendProperties
    <3> QED
      BY <3>1, LenProperties
  <2> QED
    BY <1>2, <2>2, <2>3
<1>3. Nat \subseteq N
  <2>1. 0 \in N /\ \A n \in Nat : n \in N => n + 1 \in N
    BY <1>1, <1>2
  <2> HIDE DEF N
  <2> QED
    BY <2>1, NatSet
<1> QED
  BY <1>3, LenProperties

\* Two elements, and three.
LEMMA AppendToOne ==
    ASSUME NEW d, NEW e
    PROVE  <<d>> \in Seq({d, e}) /\ Append(<<d>>, e) = <<d, e>>
<1> DEFINE S == {d, e}
           p == <<d>>
           q == <<d, e>>
<1>1. d \in S /\ e \in S /\ p \in Seq(S) /\ q \in Seq(S)
  OBVIOUS
<1>2. Len(p) = 1 /\ p[1] = d /\ Len(q) = 2 /\ q[1] = d /\ q[2] = e
  OBVIOUS
<1> HIDE DEF S, p, q
<1>3. /\ Append(p, e) \in Seq(S) /\ Len(Append(p, e)) = 2
      /\ Append(p, e)[1] = d /\ Append(p, e)[2] = e
  <2>1. /\ Append(p, e) \in Seq(S) /\ Len(Append(p, e)) = Len(p) + 1
        /\ \A i \in 1..Len(p) : Append(p, e)[i] = p[i]
        /\ Append(p, e)[Len(p) + 1] = e
    BY <1>1, AppendProperties
  <2> QED
    BY <1>2, <2>1
<1>4. \A i \in 1..2 : Append(p, e)[i] = q[i]
  BY <1>2, <1>3
<1>5. Append(p, e) = q
  BY <1>1, <1>2, <1>3, <1>4, SeqEqual
<1> QED
  BY <1>1, <1>5 DEF S, p, q

\* A sequence of three elements is one of two with one appended.
LEMMA AppendToTwo ==
    ASSUME NEW c, NEW d, NEW e
    PROVE  <<c, d>> \in Seq({c, d, e}) /\ Append(<<c, d>>, e) = <<c, d, e>>
<1> DEFINE S == {c, d, e}
           p == <<c, d>>
           q == <<c, d, e>>
<1>1. e \in S /\ p \in Seq(S) /\ q \in Seq(S)
  OBVIOUS
<1>2. /\ Len(p) = 2 /\ p[1] = c /\ p[2] = d
      /\ Len(q) = 3 /\ q[1] = c /\ q[2] = d /\ q[3] = e
  OBVIOUS
<1> HIDE DEF S, p, q
<1>3. /\ Append(p, e) \in Seq(S) /\ Len(Append(p, e)) = 3
      /\ Append(p, e)[1] = c /\ Append(p, e)[2] = d /\ Append(p, e)[3] = e
  <2>1. /\ Append(p, e) \in Seq(S) /\ Len(Append(p, e)) = Len(p) + 1
        /\ \A i \in 1..Len(p) : Append(p, e)[i] = p[i]
        /\ Append(p, e)[Len(p) + 1] = e
    BY <1>1, AppendProperties
  <2> QED
    BY <1>2, <2>1
<1>4. \A i \in 1..3 : Append(p, e)[i] = q[i]
  BY <1>2, <1>3
<1>5. Append(p, e) = q
  BY <1>1, <1>2, <1>3, <1>4, SeqEqual
<1> QED
  BY <1>1, <1>5 DEF S, p, q

\* A fold over two elements, as one application to the next.
LEMMA FoldTwo ==
    ASSUME NEW Op(_, _), NEW v, NEW d, NEW e
    PROVE  FoldLeft(Op, v, <<d, e>>) = Applied(Op, Applied(Op, v, d), e)
<1>1. <<d>> \in Seq({d, e}) /\ Append(<<d>>, e) = <<d, e>>
  BY AppendToOne
<1>2. \A x \in {d, e}, p \in Seq({d, e}) :
         FoldLeft(Op, v, Append(p, x)) = Applied(Op, FoldLeft(Op, v, p), x)
  BY FoldAppend
<1> QED
  BY <1>1, <1>2, FoldOne

\* A fold over three elements.
LEMMA FoldThree ==
    ASSUME NEW Op(_, _), NEW v, NEW c, NEW d, NEW e
    PROVE  FoldLeft(Op, v, <<c, d, e>>) = Applied(Op, Applied(Op, Applied(Op, v, c), d), e)
<1>1. <<c, d>> \in Seq({c, d, e}) /\ Append(<<c, d>>, e) = <<c, d, e>>
  BY AppendToTwo
<1>2. \A x \in {c, d, e}, p \in Seq({c, d, e}) :
         FoldLeft(Op, v, Append(p, x)) = Applied(Op, FoldLeft(Op, v, p), x)
  BY FoldAppend
<1>3. FoldLeft(Op, v, <<c, d>>) = Applied(Op, Applied(Op, v, c), d)
  BY FoldTwo
<1> QED
  BY <1>1, <1>2, <1>3
-----------------------------------------------------------------------------
(***************************************************************************)
(* Sums and concatenations of two and three elements.                      *)
(***************************************************************************)
\* What SumFunction() iterates.
IsSum(h, f) ==
    h = [s \in SUBSET DOMAIN f |->
            IF s = {} THEN 0
            ELSE f[CHOOSE x \in s : TRUE] + h[s \ {CHOOSE x \in s : TRUE}]]

\* SumFunction() is the value of such a function at the whole domain.
LEMMA SumIsIter ==
    ASSUME NEW f, NEW g, IsSum(g, f)
    PROVE  \E h : IsSum(h, f) /\ SumFunction(f) = h[DOMAIN f]
BY DEF SumFunction, SumFunctionOnSet, FoldFunctionOnSet, MapThenFoldSet, IsSum

\* A function with two arguments sums up to its two values.
LEMMA SumTwo ==
    ASSUME NEW f, NEW a, NEW b, a # b, DOMAIN f = {a, b}, f[a] \in Int, f[b] \in Int
    PROVE  SumFunction(f) = f[a] + f[b]
<1> DEFINE g == [s \in SUBSET {a, b} |->
                   (IF a \in s THEN f[a] ELSE 0) + (IF b \in s THEN f[b] ELSE 0)]
           One(s) == CHOOSE x \in s : TRUE
<1>1. \A s : s # {} => One(s) \in s
  OBVIOUS
<1>2. IsSum(g, f)
  <2> HIDE DEF One
  <2>1. ASSUME NEW s \in SUBSET {a, b}
        PROVE  g[s] = IF s = {} THEN 0 ELSE f[One(s)] + g[s \ {One(s)}]
    BY <1>1, <2>1
  <2> QED
    BY <2>1 DEF IsSum, One
<1>3. PICK h : IsSum(h, f) /\ SumFunction(f) = h[DOMAIN f]
  BY <1>2, SumIsIter
<1> HIDE DEF One
<1>4. \A s \in SUBSET {a, b} : h[s] = IF s = {} THEN 0 ELSE f[One(s)] + h[s \ {One(s)}]
  BY <1>3 DEF IsSum, One
<1>5. h[{}] = 0
  BY <1>4
<1>6. h[{a}] = f[a] /\ h[{b}] = f[b]
  <2>1. One({a}) = a /\ One({b}) = b /\ {a} \ {a} = {} /\ {b} \ {b} = {}
    BY <1>1
  <2> QED
    BY <1>4, <1>5, <2>1
<1>7. {a, b} \ {a} = {b} /\ {a, b} \ {b} = {a} /\ One({a, b}) \in {a, b}
  BY <1>1
<1>8. h[{a, b}] = f[One({a, b})] + h[{a, b} \ {One({a, b})}]
  BY <1>4
<1>9. CASE One({a, b}) = a
  BY <1>3, <1>6, <1>7, <1>8, <1>9
<1>10. CASE One({a, b}) = b
  <2>1. h[{a, b}] = f[b] + f[a]
    BY <1>6, <1>7, <1>8, <1>10
  <2>2. f[b] + f[a] = f[a] + f[b]
    OBVIOUS
  <2> QED
    BY <1>3, <2>1, <2>2
<1> QED
  BY <1>7, <1>9, <1>10

\* A function with three arguments sums up to its three values.
LEMMA SumThree ==
    ASSUME NEW f, NEW a, NEW b, NEW c, a # b, b # c, a # c, DOMAIN f = {a, b, c},
           f[a] \in Int, f[b] \in Int, f[c] \in Int
    PROVE  SumFunction(f) = f[a] + f[b] + f[c]
<1> DEFINE g == [s \in SUBSET {a, b, c} |->
                   (IF a \in s THEN f[a] ELSE 0) + (IF b \in s THEN f[b] ELSE 0)
                      + (IF c \in s THEN f[c] ELSE 0)]
           One(s) == CHOOSE x \in s : TRUE
<1>1. \A s : s # {} => One(s) \in s
  OBVIOUS
<1>2. IsSum(g, f)
  <2> HIDE DEF One
  <2>1. ASSUME NEW s \in SUBSET {a, b, c}
        PROVE  g[s] = IF s = {} THEN 0 ELSE f[One(s)] + g[s \ {One(s)}]
    <3>1. CASE s = {}
      BY <3>1
    <3>2. CASE s # {}
      <4> One(s) \in s
        BY <1>1, <3>2
      <4>1. CASE One(s) = a
        BY <3>2, <4>1
      <4>2. CASE One(s) = b
        BY <3>2, <4>2
      <4>3. CASE One(s) = c
        BY <3>2, <4>3
      <4> QED
        BY <4>1, <4>2, <4>3
    <3> QED
      BY <3>1, <3>2
  <2> QED
    BY <2>1 DEF IsSum, One
<1>3. PICK h : IsSum(h, f) /\ SumFunction(f) = h[DOMAIN f]
  BY <1>2, SumIsIter
<1> HIDE DEF One
<1>4. \A s \in SUBSET {a, b, c} : h[s] = IF s = {} THEN 0 ELSE f[One(s)] + h[s \ {One(s)}]
  BY <1>3 DEF IsSum, One
<1>5. h[{}] = 0
  BY <1>4
<1>6. \A x \in {a, b, c} : h[{x}] = f[x]
  <2> TAKE x \in {a, b, c}
  <2>1. One({x}) = x /\ {x} \ {x} = {}
    BY <1>1
  <2> QED
    BY <1>4, <1>5, <2>1
<1>7. \A x, y \in {a, b, c} : x # y => h[{x, y}] = f[x] + f[y]
  <2> SUFFICES ASSUME NEW x \in {a, b, c}, NEW y \in {a, b, c}, x # y
               PROVE  h[{x, y}] = f[x] + f[y]
    OBVIOUS
  <2>1. {x, y} \ {x} = {y} /\ {x, y} \ {y} = {x} /\ One({x, y}) \in {x, y}
    BY <1>1
  <2>2. h[{x, y}] = f[One({x, y})] + h[{x, y} \ {One({x, y})}]
    BY <1>4
  <2>3. CASE One({x, y}) = x
    BY <1>6, <2>1, <2>2, <2>3
  <2>4. CASE One({x, y}) = y
    <3>1. h[{x, y}] = f[y] + f[x]
      BY <1>6, <2>1, <2>2, <2>4
    <3>2. f[y] + f[x] = f[x] + f[y]
      OBVIOUS
    <3> QED
      BY <3>1, <3>2
  <2> QED
    BY <2>1, <2>3, <2>4
<1>8. /\ {a, b, c} \ {a} = {b, c} /\ {a, b, c} \ {b} = {a, c} /\ {a, b, c} \ {c} = {a, b}
      /\ One({a, b, c}) \in {a, b, c}
  BY <1>1
<1>9. h[{a, b, c}] = f[One({a, b, c})] + h[{a, b, c} \ {One({a, b, c})}]
  BY <1>4
<1>10. h[{b, c}] = f[b] + f[c] /\ h[{a, c}] = f[a] + f[c] /\ h[{a, b}] = f[a] + f[b]
  BY <1>7
<1>11. CASE One({a, b, c}) = a
  <2>1. h[{a, b, c}] = f[a] + (f[b] + f[c])
    BY <1>8, <1>9, <1>10, <1>11
  <2>2. f[a] + (f[b] + f[c]) = f[a] + f[b] + f[c]
    OBVIOUS
  <2> QED
    BY <1>3, <2>1, <2>2
<1>12. CASE One({a, b, c}) = b
  <2>1. h[{a, b, c}] = f[b] + (f[a] + f[c])
    BY <1>8, <1>9, <1>10, <1>12
  <2>2. f[b] + (f[a] + f[c]) = f[a] + f[b] + f[c]
    OBVIOUS
  <2> QED
    BY <1>3, <2>1, <2>2
<1>13. CASE One({a, b, c}) = c
  <2>1. h[{a, b, c}] = f[c] + (f[a] + f[b])
    BY <1>8, <1>9, <1>10, <1>13
  <2>2. f[c] + (f[a] + f[b]) = f[a] + f[b] + f[c]
    OBVIOUS
  <2> QED
    BY <1>3, <2>1, <2>2
<1> QED
  BY <1>8, <1>11, <1>12, <1>13

\* A concatenation, by a name the provers do not expand.
Joined(p, q) == p \o q

\* Its length and its elements.
LEMMA JoinedAt ==
    ASSUME NEW S, NEW p \in Seq(S), NEW q \in Seq(S)
    PROVE  /\ Joined(p, q) \in Seq(S)
           /\ Len(Joined(p, q)) = Len(p) + Len(q)
           /\ \A i \in 1..Len(p) : Joined(p, q)[i] = p[i]
           /\ \A i \in 1..Len(q) : Joined(p, q)[Len(p) + i] = q[i]
<1>1. Len(p) \in Nat /\ Len(q) \in Nat
  BY LenProperties
<1>2. /\ p \o q \in Seq(S) /\ Len(p \o q) = Len(p) + Len(q)
      /\ \A i \in 1..Len(p) + Len(q) :
            (p \o q)[i] = IF i <= Len(p) THEN p[i] ELSE q[i - Len(p)]
  BY ConcatProperties
<1> DEFINE s == p \o q
<1> HIDE DEF s
<1>3. \A i \in 1..Len(p) : s[i] = p[i]
  BY <1>1, <1>2 DEF s
<1>4. ASSUME NEW i \in 1..Len(q) PROVE s[Len(p) + i] = q[i]
  <2>1. /\ Len(p) + i \in 1..Len(p) + Len(q) /\ ~(Len(p) + i <= Len(p))
        /\ (Len(p) + i) - Len(p) = i
    BY <1>1
  <2>2. s[Len(p) + i] = IF Len(p) + i <= Len(p) THEN p[Len(p) + i] ELSE q[(Len(p) + i) - Len(p)]
    BY <1>2, <2>1 DEF s
  <2> QED
    BY <2>1, <2>2
<1> QED
  BY <1>2, <1>3, <1>4 DEF Joined, s

\* What FlattenSeq() iterates.
IsFlat(h, q) == h = [i \in 1..Len(q) |-> IF i = 1 THEN q[i] ELSE h[i - 1] \o q[i]]

\* FlattenSeq() is the last value of such a function.
LEMMA FlattenIsIter ==
    ASSUME NEW q, NEW g, Len(q) # 0, IsFlat(g, q)
    PROVE  \E h : IsFlat(h, q) /\ FlattenSeq(q) = h[Len(q)]
BY DEF FlattenSeq, IsFlat

\* Two sequences are flattened to their concatenation.
LEMMA FlattenTwo ==
    ASSUME NEW p, NEW q
    PROVE  FlattenSeq(<<p, q>>) = Joined(p, q)
<1> DEFINE s == <<p, q>>
           g == [i \in 1..2 |-> IF i = 1 THEN p ELSE p \o q]
<1>1. Len(s) = 2 /\ s[1] = p /\ s[2] = q
  OBVIOUS
<1> HIDE DEF s
<1>2. IsFlat(g, s)
  <2>1. \A i \in 1..2 : g[i] = IF i = 1 THEN s[i] ELSE g[i - 1] \o s[i]
    BY <1>1
  <2> QED
    BY <1>1, <2>1 DEF IsFlat
<1>0. Len(s) # 0
  BY <1>1
<1> HIDE DEF g
<1>3. PICK h : IsFlat(h, s) /\ FlattenSeq(s) = h[Len(s)]
  BY <1>0, <1>2, FlattenIsIter
<1>4. h[1] = p /\ h[2] = h[1] \o q
  BY <1>1, <1>3 DEF IsFlat
<1> QED
  BY <1>1, <1>3, <1>4 DEF s, Joined

\* Three sequences are flattened to their concatenation, from the left.
LEMMA FlattenThree ==
    ASSUME NEW p, NEW q, NEW r
    PROVE  FlattenSeq(<<p, q, r>>) = Joined(Joined(p, q), r)
<1> DEFINE s == <<p, q, r>>
           g == [i \in 1..3 |-> IF i = 1 THEN p ELSE IF i = 2 THEN p \o q ELSE (p \o q) \o r]
<1>1. Len(s) = 3 /\ s[1] = p /\ s[2] = q /\ s[3] = r
  OBVIOUS
<1> HIDE DEF s
<1>2. IsFlat(g, s)
  <2>1. \A i \in 1..3 : g[i] = IF i = 1 THEN s[i] ELSE g[i - 1] \o s[i]
    BY <1>1
  <2> QED
    BY <1>1, <2>1 DEF IsFlat
<1>0. Len(s) # 0
  BY <1>1
<1> HIDE DEF g
<1>3. PICK h : IsFlat(h, s) /\ FlattenSeq(s) = h[Len(s)]
  BY <1>0, <1>2, FlattenIsIter
<1>4. h[1] = p /\ h[2] = h[1] \o q /\ h[3] = h[2] \o r
  <2>1. \A i \in 1..3 : h[i] = IF i = 1 THEN s[i] ELSE h[i - 1] \o s[i]
    BY <1>1, <1>3 DEF IsFlat
  <2> QED
    BY <1>1, <2>1
<1> QED
  BY <1>1, <1>3, <1>4 DEF s, Joined
=============================================================================
