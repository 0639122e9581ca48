---------------------------- MODULE QueueCounting ----------------------------
(***************************************************************************)
(* How many messages of a set a queue holds, and how the number changes    *)
(* when a message is sent to the queue or taken from it.  The channels and *)
(* ledgers of the models are sequences; that nothing is lost or repeated   *)
(* between them is a sum of such numbers.                                  *)
(***************************************************************************)
EXTENDS Integers, Sequences, FiniteSets, FiniteSetTheorems, SequenceTheorems, TLAPS

\* The positions of the queue q that hold a member of S, and their number.
PositionsOf(q, S) == {i \in DOMAIN q : q[i] \in S}
CountOf(q, S) == Cardinality(PositionsOf(q, S))

\* 1 if a condition holds, 0 otherwise.
Unit(b) == IF b THEN 1 ELSE 0

\* The positions are finitely many, so their number is a natural number.
LEMMA CountType ==
  ASSUME NEW X, NEW q \in Seq(X), NEW S
  PROVE  IsFiniteSet(PositionsOf(q, S)) /\ CountOf(q, S) \in Nat
<1>1. Len(q) \in Nat /\ DOMAIN q = 1 .. Len(q)
  BY LenProperties
<1>2. IsFiniteSet(1 .. Len(q))
  BY <1>1, FS_Interval
<1>3. PositionsOf(q, S) \in SUBSET (1 .. Len(q))
  BY <1>1 DEF PositionsOf
<1>4. IsFiniteSet(PositionsOf(q, S))
  BY <1>2, <1>3, FS_Subset
<1> QED
  BY <1>4, FS_CardinalityType DEF CountOf

\* An empty queue holds nothing.
LEMMA CountEmpty == \A S : CountOf(<<>>, S) = 0
<1>1. DOMAIN <<>> = {}
  OBVIOUS
<1>2. \A S : PositionsOf(<<>>, S) = {}
  BY <1>1 DEF PositionsOf
<1> QED
  BY <1>2, FS_EmptySet DEF CountOf

\* The number is zero exactly when no position holds a member of S.
LEMMA CountZero ==
  ASSUME NEW X, NEW q \in Seq(X), NEW S
  PROVE  CountOf(q, S) = 0 <=> \A i \in DOMAIN q : q[i] \notin S
<1>1. IsFiniteSet(PositionsOf(q, S))
  BY CountType
<1>2. CountOf(q, S) = 0 <=> PositionsOf(q, S) = {}
  BY <1>1, FS_EmptySet DEF CountOf
<1> QED
  BY <1>2 DEF PositionsOf

\* Sending adds one if the message belongs to S.
LEMMA CountAppend ==
  ASSUME NEW X, NEW q \in Seq(X), NEW e \in X, NEW S
  PROVE  CountOf(Append(q, e), S) = CountOf(q, S) + Unit(e \in S)
<1>1. /\ Len(q) \in Nat /\ DOMAIN q = 1 .. Len(q)
      /\ DOMAIN Append(q, e) = 1 .. (Len(q) + 1)
  BY AppendProperties, LenProperties
<1>2. \A i \in 1 .. Len(q) : Append(q, e)[i] = q[i]
  BY AppendProperties
<1>3. Append(q, e)[Len(q) + 1] = e
  BY AppendProperties
<1>4. 1 .. (Len(q) + 1) = (1 .. Len(q)) \cup {Len(q) + 1}
  BY <1>1
<1>5. IsFiniteSet(PositionsOf(q, S)) /\ CountOf(q, S) \in Nat
  BY CountType
<1>6. CASE e \in S
  <2>1. PositionsOf(Append(q, e), S) = PositionsOf(q, S) \cup {Len(q) + 1}
    BY <1>1, <1>2, <1>3, <1>4, <1>6 DEF PositionsOf
  <2>2. Len(q) + 1 \notin PositionsOf(q, S)
    BY <1>1 DEF PositionsOf
  <2>3. Cardinality(PositionsOf(q, S) \cup {Len(q) + 1}) = Cardinality(PositionsOf(q, S)) + 1
    BY <1>5, <2>2, FS_AddElement
  <2> QED
    BY <1>6, <2>1, <2>3 DEF CountOf, Unit
<1>7. CASE e \notin S
  <2>1. PositionsOf(Append(q, e), S) = PositionsOf(q, S)
    BY <1>1, <1>2, <1>3, <1>4, <1>7 DEF PositionsOf
  <2> QED
    BY <1>5, <1>7, <2>1 DEF CountOf, Unit
<1> QED
  BY <1>6, <1>7

\* Taking the first message subtracts one if it belongs to S.
LEMMA CountTail ==
  ASSUME NEW X, NEW q \in Seq(X), q # <<>>, NEW S
  PROVE  CountOf(q, S) = CountOf(Tail(q), S) + Unit(Head(q) \in S)
<1>1. /\ Len(q) \in Nat /\ Len(q) >= 1 /\ DOMAIN q = 1 .. Len(q)
      /\ Tail(q) \in Seq(X) /\ Head(q) = q[1] /\ Head(q) \in X
      /\ Len(Tail(q)) = Len(q) - 1 /\ DOMAIN Tail(q) = 1 .. (Len(q) - 1)
  OBVIOUS
<1>2. \A i \in 1 .. (Len(q) - 1) : Tail(q)[i] = q[i + 1]
  BY <1>1
<1> DEFINE P == PositionsOf(Tail(q), S)
           R == {i \in 2 .. Len(q) : q[i] \in S}
           f == [i \in P |-> i + 1]
<1>3. IsFiniteSet(P) /\ CountOf(Tail(q), S) \in Nat
  BY <1>1, CountType
<1>4. P = {i \in 1 .. (Len(q) - 1) : q[i + 1] \in S}
  BY <1>1, <1>2 DEF PositionsOf
<1>5. IsFiniteSet(R) /\ Cardinality(R) = Cardinality(P)
  <2>1. \A i \in P : i \in Int /\ i + 1 \in R
    BY <1>1, <1>4
  <2>2. f \in [P -> R]
    BY <2>1
  <2>3. \A i, j \in P : f[i] = f[j] => i = j
    BY <2>1
  <2>4. \A k \in R : k - 1 \in P /\ f[k - 1] = k
    BY <1>1, <1>4
  <2>5. f \in Bijection(P, R)
    BY <2>2, <2>3, <2>4 DEF Bijection, Injection, Surjection, IsInjective
  <2>6. ExistsBijection(P, R)
    BY <2>5 DEF ExistsBijection
  <2> QED
    BY <1>3, <2>6, FS_Bijection
<1>6. 1 .. Len(q) = {1} \cup (2 .. Len(q)) /\ 1 \notin 2 .. Len(q)
  BY <1>1
<1>7. CASE Head(q) \in S
  <2>1. PositionsOf(q, S) = R \cup {1} /\ 1 \notin R
    BY <1>1, <1>6, <1>7 DEF PositionsOf
  <2>2. Cardinality(R \cup {1}) = Cardinality(R) + 1
    BY <1>5, <2>1, FS_AddElement
  <2> QED
    BY <1>5, <1>7, <2>1, <2>2 DEF CountOf, Unit
<1>8. CASE Head(q) \notin S
  <2>1. PositionsOf(q, S) = R
    BY <1>1, <1>6, <1>8 DEF PositionsOf
  <2> QED
    BY <1>3, <1>5, <1>8, <2>1 DEF CountOf, Unit
<1> QED
  BY <1>7, <1>8

\* A first message taken from one queue and sent to another that is read before it:
\* the two together are unchanged.
LEMMA MoveHead ==
  ASSUME NEW X, NEW p \in Seq(X), NEW q \in Seq(X), q # <<>>
  PROVE  Append(p, Head(q)) \o Tail(q) = p \o q
<1>1. /\ Head(q) \in X /\ Tail(q) \in Seq(X) /\ Len(Tail(q)) = Len(q) - 1
      /\ Len(p) \in Nat /\ Len(q) \in Nat \ {0} /\ Head(q) = q[1]
      /\ \A i \in 1 .. (Len(q) - 1) : Tail(q)[i] = q[i + 1]
  BY HeadTailProperties, LenProperties, EmptySeq
<1>2. /\ Append(p, Head(q)) \in Seq(X) /\ Len(Append(p, Head(q))) = Len(p) + 1
      /\ \A i \in 1 .. Len(p) : Append(p, Head(q))[i] = p[i]
      /\ Append(p, Head(q))[Len(p) + 1] = q[1]
  BY <1>1, AppendProperties
<1> DEFINE s == Append(p, Head(q)) \o Tail(q)
           t == p \o q
<1>3. /\ s \in Seq(X) /\ Len(s) = Len(p) + Len(q)
      /\ \A i \in 1 .. Len(p) + Len(q) :
           s[i] = IF i <= Len(p) + 1 THEN Append(p, Head(q))[i] ELSE Tail(q)[i - (Len(p) + 1)]
  BY <1>1, <1>2, ConcatProperties
<1>4. /\ t \in Seq(X) /\ Len(t) = Len(p) + Len(q)
      /\ \A i \in 1 .. Len(p) + Len(q) : t[i] = IF i <= Len(p) THEN p[i] ELSE q[i - Len(p)]
  BY ConcatProperties
<1>5. ASSUME NEW i \in 1 .. Len(p) + Len(q) PROVE s[i] = t[i]
  <2>1. CASE i <= Len(p)
    BY <1>1, <1>2, <1>3, <1>4, <2>1
  <2>2. CASE i = Len(p) + 1
    BY <1>1, <1>2, <1>3, <1>4, <2>2
  <2>3. CASE i > Len(p) + 1
    <3>1. i - (Len(p) + 1) \in 1 .. (Len(q) - 1)
      BY <1>1, <2>3
    <3>2. Tail(q)[i - (Len(p) + 1)] = q[i - (Len(p) + 1) + 1]
      BY <1>1, <3>1
    <3>3. i - (Len(p) + 1) + 1 = i - Len(p)
      BY <1>1
    <3> QED
      BY <1>1, <1>3, <1>4, <2>3, <3>2, <3>3
  <2> QED
    BY <1>1, <2>1, <2>2, <2>3
<1> HIDE DEF s, t
<1>6. s = t
  BY <1>3, <1>4, <1>5, SeqEqual
<1> QED
  BY <1>6 DEF s, t

\* Sending to the second queue is sending to the two together.
LEMMA ConcatAppend ==
  ASSUME NEW X, NEW p \in Seq(X), NEW q \in Seq(X), NEW e \in X
  PROVE  p \o Append(q, e) = Append(p \o q, e)
<1>1. Append(q, e) = q \o <<e>> /\ <<e>> \in Seq(X)
  BY AppendIsConcat
<1>2. p \o q \in Seq(X)
  BY ConcatProperties
<1>3. Append(p \o q, e) = (p \o q) \o <<e>>
  BY <1>2, AppendIsConcat
<1>4. (p \o q) \o <<e>> = p \o (q \o <<e>>)
  BY <1>1, ConcatAssociative
<1> QED
  BY <1>1, <1>3, <1>4
=============================================================================
