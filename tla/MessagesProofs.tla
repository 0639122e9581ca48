--------------------------- MODULE MessagesProofs ---------------------------
(***************************************************************************)
(* The invariants of what is done with messages, for every value of the    *)
(* constants: Lavis's own edits are never taken for the user's, the        *)
(* handles of the v6 host calls carry their authority, and the companion   *)
(* bot handles its updates once and leaves menus to their owners.          *)
(***************************************************************************)
EXTENDS MCMessages, QueueCounting, WellFoundedInduction, NaturalsInduction

-----------------------------------------------------------------------------
(* Queues with one message taken out.                                        *)

\* A set of natural numbers that is not empty has a least member.
LEMMA LeastNatural ==
  ASSUME NEW T \in SUBSET Nat, T # {}
  PROVE  \E x \in T : \A y \in T : x <= y
<1> DEFINE R == OpToRel(<, Nat)
<1>1. IsWellFoundedOn(R, Nat)
  BY NatLessThanWellFounded, Zenon
<1>2. PICK x \in T : \A y \in T : ~(<<y, x>> \in R)
  <2> HIDE DEF R
  <2> QED BY <1>1, WFMin
<1>3. \A y \in T : ~(y < x)
  BY <1>2 DEF OpToRel
<1> QED BY <1>3

\* A queue without one of its messages.
LEMMA RemoveAtFacts ==
  ASSUME NEW X, NEW q \in Seq(X), NEW p \in 1 .. Len(q)
  PROVE  /\ RemoveAt(q, p) \in Seq(X) /\ Len(RemoveAt(q, p)) = Len(q) - 1
         /\ \A j \in 1 .. Len(q) - 1 : RemoveAt(q, p)[j] = IF j < p THEN q[j] ELSE q[j + 1]
<1>1. Len(q) \in Nat /\ p \in Nat /\ p >= 1 /\ p <= Len(q)
  BY LenProperties
<1> DEFINE a == SubSeq(q, 1, p - 1)
           b == SubSeq(q, p + 1, Len(q))
<1>2. /\ a \in Seq(X) /\ Len(a) = p - 1
      /\ \A j \in 1 .. p - 1 : a[j] = q[j]
  <2>1. /\ 1 .. (p - 1) \subseteq 1 .. Len(q)
    BY <1>1
  <2> QED BY <1>1, <2>1, SubSeqProperties
<1>3. /\ b \in Seq(X) /\ Len(b) = Len(q) - p
      /\ \A j \in 1 .. Len(q) - p : b[j] = q[j + p]
  <2>1. (p + 1) .. Len(q) \subseteq 1 .. Len(q)
    BY <1>1
  <2> QED BY <1>1, <2>1, SubSeqProperties
<1>4. RemoveAt(q, p) = a \o b
  BY DEF RemoveAt
<1> HIDE DEF a, b
<1>5. /\ a \o b \in Seq(X) /\ Len(a \o b) = Len(a) + Len(b)
      /\ \A j \in 1 .. Len(a) + Len(b) :
           (a \o b)[j] = IF j <= Len(a) THEN a[j] ELSE b[j - Len(a)]
  BY <1>2, <1>3, ConcatProperties
<1> QED BY <1>1, <1>2, <1>3, <1>4, <1>5

\* It holds one message less of every set that the message belongs to.
LEMMA CountRemoveAt ==
  ASSUME NEW X, NEW q \in Seq(X), NEW p \in 1 .. Len(q), NEW S
  PROVE  CountOf(q, S) = CountOf(RemoveAt(q, p), S) + Unit(q[p] \in S)
<1> DEFINE r == RemoveAt(q, p)
           R == PositionsOf(r, S)
           Q == {i \in (1 .. Len(q)) \ {p} : q[i] \in S}
           f == [i \in R |-> IF i < p THEN i ELSE i + 1]
<1>1. /\ Len(q) \in Nat /\ p \in Nat /\ p >= 1 /\ p <= Len(q) /\ DOMAIN q = 1 .. Len(q)
      /\ r \in Seq(X) /\ Len(r) = Len(q) - 1 /\ DOMAIN r = 1 .. (Len(q) - 1)
  BY RemoveAtFacts, LenProperties
<1>2. R = {i \in 1 .. (Len(q) - 1) : (IF i < p THEN q[i] ELSE q[i + 1]) \in S}
  BY <1>1, RemoveAtFacts DEF PositionsOf
<1>3. IsFiniteSet(R) /\ CountOf(r, S) \in Nat
  BY <1>1, CountType
<1>4. IsFiniteSet(Q) /\ Cardinality(Q) = Cardinality(R)
  <2> HIDE DEF r
  <2>1. \A i \in R : i \in Int /\ (IF i < p THEN i ELSE i + 1) \in Q
    BY <1>1, <1>2
  <2>2. f \in [R -> Q]
    BY <2>1
  <2>3. \A i, j \in R : f[i] = f[j] => i = j
    BY <1>1, <2>1
  <2>4. \A k \in Q : \E i \in R : f[i] = k
    <3> SUFFICES ASSUME NEW k \in Q PROVE \E i \in R : f[i] = k
      OBVIOUS
    <3>1. CASE k < p
      <4>1. k \in R
        BY <1>1, <1>2, <3>1
      <4> QED BY <3>1, <4>1
    <3>2. CASE k > p
      <4>1. k - 1 \in R
        BY <1>1, <1>2, <3>2
      <4>2. f[k - 1] = k
        BY <1>1, <3>2, <4>1
      <4> QED BY <4>1, <4>2
    <3> QED BY <1>1, <3>1, <3>2
  <2>5. f \in Bijection(R, Q)
    <3> HIDE DEF f, R, Q
    <3> QED BY <2>2, <2>3, <2>4 DEF Bijection, Injection, Surjection, IsInjective
  <2>6. ExistsBijection(R, Q)
    BY <2>5 DEF ExistsBijection
  <2> QED
    BY <1>3, <2>6, FS_Bijection
<1>5. CASE q[p] \in S
  <2>1. PositionsOf(q, S) = Q \cup {p} /\ p \notin Q
    BY <1>1, <1>5 DEF PositionsOf
  <2>2. Cardinality(Q \cup {p}) = Cardinality(Q) + 1
    BY <1>4, <2>1, FS_AddElement
  <2> QED BY <1>4, <1>5, <2>1, <2>2 DEF CountOf, Unit
<1>6. CASE q[p] \notin S
  <2>1. PositionsOf(q, S) = Q
    BY <1>1, <1>6 DEF PositionsOf
  <2> QED BY <1>3, <1>4, <1>6, <2>1 DEF CountOf, Unit
<1> QED BY <1>5, <1>6

\* Taking out the first of the messages equal to e.
LEMMA RemoveFirstFacts ==
  ASSUME NEW X, NEW q \in Seq(X), NEW e
  PROVE  /\ RemoveFirst(q, e) \in Seq(X) /\ Len(RemoveFirst(q, e)) <= Len(q)
         /\ Contains(q, e) => \A S : CountOf(q, S) = CountOf(RemoveFirst(q, e), S) + Unit(e \in S)
         /\ ~Contains(q, e) => RemoveFirst(q, e) = q
<1>1. Len(q) \in Nat
  BY LenProperties
<1>2. CASE ~Contains(q, e)
  BY <1>1, <1>2 DEF RemoveFirst, Contains
<1>3. CASE Contains(q, e)
  <2> DEFINE I == {i \in 1 .. Len(q) : q[i] = e}
             p == SelectInSeq(q, LAMBDA v : v = e)
  <2>1. I # {} /\ I \in SUBSET Nat
    BY <1>1, <1>3 DEF Contains
  <2>2. \E x \in I : \A y \in I : x <= y
    <3> HIDE DEF I
    <3> QED BY <2>1, LeastNatural
  <2>3. p = Min(I)
    BY <2>1 DEF SelectInSeq
  <2>4. p \in I
    <3> HIDE DEF I, p
    <3> QED BY <2>2, <2>3 DEF Min
  <2>5. RemoveFirst(q, e) = RemoveAt(q, p)
    BY <1>3 DEF RemoveFirst, Contains
  <2>6. p \in 1 .. Len(q) /\ q[p] = e
    <3> HIDE DEF p
    <3> QED BY <2>4
  <2> HIDE DEF p, I
  <2> QED BY <1>1, <1>3, <2>5, <2>6, RemoveAtFacts, CountRemoveAt
<1> QED BY <1>2, <1>3

-----------------------------------------------------------------------------
(* The ledger of expected edits.  ProvenanceInv is not inductive: that an    *)
(* update finds its entry needs to know that updates are what their edits    *)
(* wrote, and that there is an entry for every edit still to come back, even *)
(* where the menu ring leaves some over.                                     *)

Open == {"sent", "late", "lost"}
OpenOf(f, k) == {o \in Ops : KeyOf(o) = k /\ f[o] \in Open}

\* An update says what its edit wrote.
TrueUpdates ==
  {u \in Updates :
     /\ u.from = User => u.text = UserText
     /\ u.from \in Ops => /\ u.msg = Target[u.from] /\ u.text = Text[u.from]
                          /\ u.edited = (Kind[u.from] # "form")}
UpdatesOf(k) == {u \in TrueUpdates : u.from \in Ops /\ KeyOf(u.from) = k}

MenuMsgs == {m \in Msgs : \E o \in Ops : Kind[o] = "form" /\ Target[o] = m}

\* What is still to come back of the edits that write k.
Owed(k) == Cardinality(OpenOf(op, k)) + CountOf(stream, UpdatesOf(k))

AwaitedInv == loop # NoOp => op[loop] \in {"sent", "applied"}

LedgerCovers == \A k \in Keys : ArmedKey(k) => CountOf(ledger, {k}) >= Owed(k)

LedgerBalanced ==
  \A k \in Keys : ArmedKey(k) /\ k[1] \notin MenuMsgs => CountOf(ledger, {k}) = Owed(k)

ProvenanceStrong ==
  /\ TypeOK /\ stream \in Seq(TrueUpdates) /\ forms \in Seq(MenuMsgs)
  /\ AwaitedInv /\ LedgerCovers /\ LedgerBalanced /\ OwnEditNeverRouted

\* An edit that changes the ledger and what is owed by the same number.
Balanced(k) == CountOf(ledger', {k}) + Owed(k) = CountOf(ledger, {k}) + Owed(k)'

EditKeeps ==
  /\ TypeOK' /\ stream' \in Seq(TrueUpdates) /\ forms' \in Seq(MenuMsgs) /\ AwaitedInv'
  /\ \A k \in Keys : ArmedKey(k) => Balanced(k)

\* The key of an edit, and what is known of the keys.
LEMMA KeyFacts ==
  ASSUME NEW o \in Ops
  PROVE  KeyOf(o) \in Keys /\ Target[o] \in Msgs /\ Text[o] \in Texts /\ Kind[o] \in OpKinds
BY ProvenanceAssumption DEF KeyOf, Keys

\* The numbers are natural.
LEMMA OpenType ==
  ASSUME NEW f, NEW k
  PROVE  IsFiniteSet(OpenOf(f, k)) /\ Cardinality(OpenOf(f, k)) \in Nat
<1>1. OpenOf(f, k) \subseteq Ops
  BY DEF OpenOf
<1> QED BY <1>1, FS_Subset, FS_CardinalityType, ProvenanceAssumption

LEMMA OwedType ==
  ASSUME ProvenanceStrong, NEW k
  PROVE  Owed(k) \in Nat /\ CountOf(ledger, {k}) \in Nat /\ CountOf(stream, UpdatesOf(k)) \in Nat
         /\ Cardinality(OpenOf(op, k)) \in Nat
<1>1. CountOf(stream, UpdatesOf(k)) \in Nat /\ CountOf(ledger, {k}) \in Nat
  BY CountType DEF ProvenanceStrong, TypeOK
<1>2. Cardinality(OpenOf(op, k)) \in Nat
  BY OpenType
<1> QED BY <1>1, <1>2 DEF Owed

\* One edit changes its state.
LEMMA OpStep ==
  ASSUME op \in [Ops -> OpStates], NEW o \in Ops, NEW s \in OpStates,
         op' = [op EXCEPT ![o] = s], NEW k
  PROVE  /\ op' \in [Ops -> OpStates] /\ op'[o] = s
         /\ KeyOf(o) # k => Cardinality(OpenOf(op', k)) = Cardinality(OpenOf(op, k))
         /\ (op[o] \in Open <=> s \in Open) => Cardinality(OpenOf(op', k)) = Cardinality(OpenOf(op, k))
         /\ KeyOf(o) = k /\ op[o] \in Open /\ s \notin Open =>
              Cardinality(OpenOf(op, k)) = Cardinality(OpenOf(op', k)) + 1
         /\ KeyOf(o) = k /\ op[o] \notin Open /\ s \in Open =>
              Cardinality(OpenOf(op', k)) = Cardinality(OpenOf(op, k)) + 1
<1> DEFINE A == OpenOf(op, k) \ {o}
<1>1. IsFiniteSet(A) /\ Cardinality(A) \in Nat /\ o \notin A
  <2>1. A \subseteq OpenOf(op, k)
    OBVIOUS
  <2> QED BY <2>1, OpenType, FS_Subset, FS_CardinalityType
<1>2. op' \in [Ops -> OpStates] /\ op'[o] = s
  OBVIOUS
<1>3. /\ OpenOf(op, k) = IF KeyOf(o) = k /\ op[o] \in Open THEN A \cup {o} ELSE A
      /\ OpenOf(op', k) = IF KeyOf(o) = k /\ s \in Open THEN A \cup {o} ELSE A
  BY DEF OpenOf
<1>4. Cardinality(A \cup {o}) = Cardinality(A) + 1
  BY <1>1, FS_AddElement
<1> HIDE DEF A
<1> QED BY <1>1, <1>2, <1>3, <1>4

\* An entry is made.
LEMMA Entered ==
  ASSUME NEW led \in Seq(Keys), ~LedgerFull(led), Len(led) <= MaxEntries, NEW key \in Keys
  PROVE  /\ Append(led, key) \in Seq(Keys) /\ Len(Append(led, key)) <= MaxEntries
         /\ CountOf(Append(led, key), {key}) = CountOf(led, {key}) + 1
         /\ \A k : k # key => CountOf(Append(led, key), {k}) = CountOf(led, {k})
<1>1. Append(led, key) \in Seq(Keys) /\ Len(Append(led, key)) = Len(led) + 1 /\ Len(led) \in Nat
  BY AppendProperties, LenProperties
<1>2. \A k : CountOf(Append(led, key), {k}) = CountOf(led, {k}) + Unit(key \in {k})
  BY CountAppend
<1>3. \A k : k # key => CountOf(Append(led, key), {k}) = CountOf(led, {k})
  <2> SUFFICES ASSUME NEW k, k # key
               PROVE  CountOf(Append(led, key), {k}) = CountOf(led, {k})
    OBVIOUS
  <2>1. CountOf(led, {k}) \in Nat /\ key \notin {k}
    BY CountType
  <2>2. Unit(key \in {k}) = 0
    BY <2>1 DEF Unit
  <2>3. CountOf(Append(led, key), {k}) = CountOf(led, {k}) + Unit(key \in {k})
    BY <1>2
  <2> QED BY <2>1, <2>2, <2>3
<1>5. CountOf(Append(led, key), {key}) = CountOf(led, {key}) + 1
  BY <1>2 DEF Unit
<1>4. Len(Append(led, key)) <= MaxEntries
  <2>1. MaxEntries \in Nat /\ Len(led) < MaxEntries
    BY <1>1, ProvenanceAssumption DEF LedgerFull
  <2> QED BY <1>1, <2>1
<1> QED BY <1>1, <1>3, <1>4, <1>5

\* An entry is taken out.
LEMMA Taken ==
  ASSUME NEW led \in Seq(Keys), Len(led) <= MaxEntries, NEW key
  PROVE  /\ Without(led, key) \in Seq(Keys) /\ Len(Without(led, key)) <= MaxEntries
         /\ \A k : k # key => CountOf(Without(led, key), {k}) = CountOf(led, {k})
         /\ CountOf(led, {key}) > 0 => CountOf(led, {key}) = CountOf(Without(led, key), {key}) + 1
<1>1. Len(led) \in Nat /\ Len(Without(led, key)) \in Nat /\ Without(led, key) \in Seq(Keys)
      /\ Len(Without(led, key)) <= Len(led)
  BY RemoveFirstFacts, LenProperties DEF Without
<1>2. CountOf(led, {key}) > 0 => Contains(led, key)
  <2>1. CountOf(led, {key}) = 0 <=> \A i \in DOMAIN led : led[i] \notin {key}
    BY CountZero
  <2>2. DOMAIN led = 1 .. Len(led)
    BY LenProperties
  <2> QED BY <2>1, <2>2 DEF Contains
<1>3. CASE Contains(led, key)
  <2>1. \A S : CountOf(led, S) = CountOf(Without(led, key), S) + Unit(key \in S)
    BY <1>3, RemoveFirstFacts DEF Without, Unit
  <2>2. \A S : CountOf(Without(led, key), S) \in Nat
    BY <1>1, CountType
  <2>3. \A k : k # key => Unit(key \in {k}) = 0
    BY DEF Unit
  <2>4. Unit(key \in {key}) = 1
    BY DEF Unit
  <2> QED BY <1>1, <2>1, <2>2, <2>3, <2>4, ProvenanceAssumption DEF Unit
<1>4. CASE ~Contains(led, key)
  <2>1. Without(led, key) = led
    BY <1>4, RemoveFirstFacts DEF Without
  <2> QED BY <1>2, <1>4, <2>1
<1> QED BY <1>3, <1>4

\* What stays as it is.
LEMMA SameStream ==
  ASSUME ProvenanceStrong, stream' = stream, NEW k
  PROVE  CountOf(stream, UpdatesOf(k))' = CountOf(stream, UpdatesOf(k))
BY DEF CountOf, PositionsOf, UpdatesOf, TrueUpdates, Updates, KeyOf

\* An edit is registered and sent, if the ledger has room.
LEMMA RegisterBalances ==
  ASSUME ProvenanceStrong, NEW o \in Ops, op[o] = "idle", Register(o, ledger)
  PROVE  /\ ledger' \in Seq(Keys) /\ Len(ledger') <= MaxEntries /\ op' \in [Ops -> OpStates]
         /\ \A k \in Keys : CountOf(ledger', {k}) + Cardinality(OpenOf(op, k))
                              = CountOf(ledger, {k}) + Cardinality(OpenOf(op', k))
<1>1. /\ ledger \in Seq(Keys) /\ Len(ledger) <= MaxEntries /\ op \in [Ops -> OpStates]
      /\ KeyOf(o) \in Keys
  BY KeyFacts DEF ProvenanceStrong, TypeOK
<1>2. op' \in [Ops -> OpStates]
  BY <1>1 DEF Register, OpStates
<1>3. CASE LedgerFull(ledger)
  <2>1. ledger' = ledger /\ op' = [op EXCEPT ![o] = "done"]
    BY <1>3 DEF Register
  <2>2. ASSUME NEW k \in Keys
        PROVE  Cardinality(OpenOf(op', k)) = Cardinality(OpenOf(op, k))
    BY <1>1, <2>1, OpStep DEF Open, OpStates
  <2> QED BY <1>1, <1>2, <2>1, <2>2
<1>4. CASE ~LedgerFull(ledger)
  <2>1. ledger' = Append(ledger, KeyOf(o)) /\ op' = [op EXCEPT ![o] = "sent"]
    BY <1>4 DEF Register
  <2>2. ASSUME NEW k \in Keys
        PROVE  CountOf(ledger', {k}) + Cardinality(OpenOf(op, k))
                 = CountOf(ledger, {k}) + Cardinality(OpenOf(op', k))
    <3>1. op[o] \notin Open /\ "sent" \in Open /\ "sent" \in OpStates
      BY DEF Open, OpStates
    <3>2. /\ CountOf(ledger, {k}) \in Nat /\ CountOf(ledger, {KeyOf(o)}) \in Nat
          /\ Cardinality(OpenOf(op, k)) \in Nat
      BY OwedType
    <3>3. CASE KeyOf(o) = k
      <4>1. Cardinality(OpenOf(op', k)) = Cardinality(OpenOf(op, k)) + 1
        BY <1>1, <2>1, <3>1, <3>3, OpStep
      <4>2. CountOf(ledger', {k}) = CountOf(ledger, {k}) + 1
        BY <1>1, <1>4, <2>1, <3>3, Entered
      <4> QED BY <3>2, <4>1, <4>2
    <3>4. CASE KeyOf(o) # k
      <4>1. Cardinality(OpenOf(op', k)) = Cardinality(OpenOf(op, k))
        BY <1>1, <2>1, <3>1, <3>4, OpStep
      <4>2. CountOf(ledger', {k}) = CountOf(ledger, {k})
        BY <1>1, <1>4, <2>1, <3>4, Entered
      <4> QED BY <4>1, <4>2
    <3> QED BY <3>3, <3>4
  <2>3. ledger' \in Seq(Keys) /\ Len(ledger') <= MaxEntries
    BY <1>1, <1>4, <2>1, Entered
  <2> QED BY <1>2, <2>2, <2>3
<1> QED BY <1>3, <1>4

\* A step that balances the ledger with the edits and leaves the stream alone.
LEMMA BalanceLeft ==
  ASSUME ProvenanceStrong, stream' = stream, NEW k \in Keys,
         CountOf(ledger', {k}) + Cardinality(OpenOf(op, k))
           = CountOf(ledger, {k}) + Cardinality(OpenOf(op', k)),
         CountOf(ledger', {k}) \in Nat
  PROVE  Balanced(k)
<1>1. CountOf(stream, UpdatesOf(k))' = CountOf(stream, UpdatesOf(k))
  BY SameStream
<1>2. Owed(k)' = Cardinality(OpenOf(op', k)) + CountOf(stream, UpdatesOf(k))
  BY <1>1 DEF Owed, OpenOf, KeyOf
<1>3. Cardinality(OpenOf(op', k)) \in Nat
  BY OpenType
<1> QED BY <1>2, <1>3, OwedType DEF Balanced, Owed

LEMMA HostBeginKept ==
  ASSUME ProvenanceStrong, NEW o \in Ops, HostBegin(o)
  PROVE  EditKeeps
<1>1. /\ ledger' \in Seq(Keys) /\ Len(ledger') <= MaxEntries /\ op' \in [Ops -> OpStates]
      /\ \A k \in Keys : CountOf(ledger', {k}) + Cardinality(OpenOf(op, k))
                           = CountOf(ledger, {k}) + Cardinality(OpenOf(op', k))
  BY RegisterBalances DEF HostBegin
<1>2. UNCHANGED <<server, stream, forms, loop, routed, typed>>
  BY DEF HostBegin
<1>3. \A k \in Keys : Balanced(k)
  BY <1>1, <1>2, BalanceLeft, CountType
<1>4. AwaitedInv'
  BY <1>2 DEF HostBegin, Register, AwaitedInv, ProvenanceStrong, TypeOK, OpStates
<1>5. TypeOK' /\ stream' \in Seq(TrueUpdates) /\ forms' \in Seq(MenuMsgs)
  BY <1>1, <1>2 DEF ProvenanceStrong, TypeOK
<1> QED BY <1>3, <1>4, <1>5 DEF EditKeeps

LEMMA BotBeginKept ==
  ASSUME ProvenanceStrong, NEW o \in Ops, BotBegin(o)
  PROVE  EditKeeps
<1>1. /\ ledger \in Seq(Keys) /\ Len(ledger) <= MaxEntries /\ op \in [Ops -> OpStates]
      /\ KeyOf(o) \in Keys
  BY KeyFacts DEF ProvenanceStrong, TypeOK
<1>2. UNCHANGED <<server, stream, forms, loop, routed, typed>> /\ op' = [op EXCEPT ![o] = "sent"]
      /\ Kind[o] \in {"bot", "inline"} /\ op[o] = "idle"
  BY DEF BotBegin
<1>3. /\ ledger' \in Seq(Keys) /\ Len(ledger') <= MaxEntries
      /\ \A k : k # KeyOf(o) => CountOf(ledger', {k}) = CountOf(ledger, {k})
  <2>1. CASE ledger' = ledger
    BY <1>1, <2>1
  <2>2. CASE ~LedgerFull(ledger) /\ ledger' = Append(ledger, KeyOf(o))
    BY <1>1, <2>2, Entered
  <2> QED BY <2>1, <2>2 DEF BotBegin
<1>4. ASSUME NEW k \in Keys, ArmedKey(k)
      PROVE  Balanced(k)
  <2>1. k # KeyOf(o)
    BY <1>2, <1>4 DEF ArmedKey, Armed
  <2>2. Cardinality(OpenOf(op', k)) = Cardinality(OpenOf(op, k))
    BY <1>1, <1>2, <2>1, OpStep DEF Open, OpStates
  <2> QED BY <1>2, <1>3, <2>1, <2>2, BalanceLeft, CountType
<1>5. AwaitedInv'
  BY <1>1, <1>2 DEF AwaitedInv, ProvenanceStrong, TypeOK, OpStates
<1>6. TypeOK' /\ stream' \in Seq(TrueUpdates) /\ forms' \in Seq(MenuMsgs)
  BY <1>1, <1>2, <1>3 DEF ProvenanceStrong, TypeOK, OpStates
<1> QED BY <1>4, <1>5, <1>6 DEF EditKeeps

LEMMA FormBeginKept ==
  ASSUME ProvenanceStrong, NEW o \in Ops, FormBegin(o)
  PROVE  EditKeeps
<1>1. /\ ledger \in Seq(Keys) /\ Len(ledger) <= MaxEntries /\ op \in [Ops -> OpStates]
  BY DEF ProvenanceStrong, TypeOK
<1>2. UNCHANGED <<server, stream, ledger, forms, loop, routed, typed>> /\ op' = [op EXCEPT ![o] = "sent"]
      /\ Kind[o] = "form" /\ op[o] = "idle"
  BY DEF FormBegin
<1>4. ASSUME NEW k \in Keys, ArmedKey(k)
      PROVE  Balanced(k)
  <2>1. k # KeyOf(o)
    BY <1>2, <1>4 DEF ArmedKey, Armed
  <2>2. Cardinality(OpenOf(op', k)) = Cardinality(OpenOf(op, k))
    BY <1>1, <1>2, <2>1, OpStep DEF Open, OpStates
  <2> QED BY <1>1, <1>2, <2>2, BalanceLeft, CountType
<1>5. AwaitedInv'
  BY <1>1, <1>2 DEF AwaitedInv, ProvenanceStrong, TypeOK, OpStates
<1>6. TypeOK' /\ stream' \in Seq(TrueUpdates) /\ forms' \in Seq(MenuMsgs)
  BY <1>1, <1>2 DEF ProvenanceStrong, TypeOK, OpStates
<1> QED BY <1>4, <1>5, <1>6 DEF EditKeeps

\* Telegram applies an edit: what was pending is now an update.
LEMMA ApplyKept ==
  ASSUME ProvenanceStrong, NEW o \in Ops, Apply(o)
  PROVE  EditKeeps
<1> DEFINE u == Update(Target[o], Text[o], Kind[o] # "form", o)
           s == IF op[o] = "sent" THEN "applied" ELSE "done"
<1>1. /\ stream \in Seq(TrueUpdates) /\ stream \in Seq(Updates) /\ ledger \in Seq(Keys)
      /\ op \in [Ops -> OpStates] /\ op[o] \in {"sent", "late"}
  BY DEF ProvenanceStrong, TypeOK, Apply
<1>2. UNCHANGED <<ledger, forms, loop, routed, typed>> /\ op' = [op EXCEPT ![o] = s]
      /\ stream' = Append(stream, u) /\ server' = [server EXCEPT ![Target[o]] = Text[o]]
  BY <1>1 DEF Apply
<1>3. u \in TrueUpdates /\ u \in Updates /\ u.from = o
  BY KeyFacts, ProvenanceAssumption DEF TrueUpdates, Updates, Update
<1>4. stream' \in Seq(TrueUpdates) /\ stream' \in Seq(Updates)
  <2> HIDE DEF u
  <2> QED BY <1>1, <1>2, <1>3, AppendProperties
<1>5. ASSUME NEW k \in Keys
      PROVE  Balanced(k)
  <2>1. CountOf(Append(stream, u), UpdatesOf(k)) = CountOf(stream, UpdatesOf(k)) + Unit(u \in UpdatesOf(k))
    <3> HIDE DEF u
    <3> QED BY <1>1, <1>3, CountAppend
  <2>2. u \in UpdatesOf(k) <=> KeyOf(o) = k
    <3> HIDE DEF u
    <3> QED BY <1>3 DEF UpdatesOf
  <2>3. CountOf(stream, UpdatesOf(k))' = CountOf(stream', UpdatesOf(k))
    BY DEF CountOf, PositionsOf, UpdatesOf, TrueUpdates, Updates, KeyOf
  <2>7. Owed(k)' = Cardinality(OpenOf(op', k)) + CountOf(stream', UpdatesOf(k))
    BY <2>3 DEF Owed, OpenOf, KeyOf
  <2>10. Owed(k) = Cardinality(OpenOf(op, k)) + CountOf(stream, UpdatesOf(k)) /\ ledger' = ledger
    BY <1>2 DEF Owed
  <2>11. Owed(k)' = Owed(k)
    <3>1. op[o] \in Open /\ s \notin Open /\ s \in OpStates
      BY <1>1 DEF Open, OpStates
    <3>2. Cardinality(OpenOf(op, k)) \in Nat /\ CountOf(stream, UpdatesOf(k)) \in Nat
          /\ Cardinality(OpenOf(op', k)) \in Nat
      BY OwedType, OpenType
    <3>3. CASE KeyOf(o) = k
      <4>1. Cardinality(OpenOf(op, k)) = Cardinality(OpenOf(op', k)) + 1
        BY <1>1, <1>2, <3>1, <3>3, OpStep
      <4>2. CountOf(stream', UpdatesOf(k)) = CountOf(stream, UpdatesOf(k)) + 1
        <5> HIDE DEF u
        <5> QED BY <1>2, <2>1, <2>2, <3>3 DEF Unit
      <4> QED BY <2>7, <2>10, <3>2, <4>1, <4>2
    <3>4. CASE KeyOf(o) # k
      <4>1. Cardinality(OpenOf(op', k)) = Cardinality(OpenOf(op, k))
        BY <1>1, <1>2, <3>1, <3>4, OpStep
      <4>2. CountOf(stream', UpdatesOf(k)) = CountOf(stream, UpdatesOf(k))
        <5> HIDE DEF u
        <5> QED BY <1>2, <2>1, <2>2, <3>2, <3>4 DEF Unit
      <4> QED BY <2>7, <2>10, <4>1, <4>2
    <3> QED BY <3>3, <3>4
  <2> QED BY <2>10, <2>11 DEF Balanced
<1>6. AwaitedInv'
  BY <1>1, <1>2, ProvenanceAssumption DEF AwaitedInv, ProvenanceStrong, TypeOK, OpStates
<1>7. TypeOK'
  <2>1. server' \in [Msgs -> Texts \cup {UserText, Absent}]
    BY <1>2, KeyFacts DEF ProvenanceStrong, TypeOK
  <2>2. op' \in [Ops -> OpStates]
    BY <1>1, <1>2 DEF OpStates
  <2> QED BY <1>2, <1>4, <2>1, <2>2 DEF ProvenanceStrong, TypeOK
<1>8. forms' \in Seq(MenuMsgs)
  BY <1>2 DEF ProvenanceStrong
<1> QED BY <1>4, <1>5, <1>6, <1>7, <1>8 DEF EditKeeps

LEMMA LoseKept ==
  ASSUME ProvenanceStrong, NEW o \in Ops, Lose(o)
  PROVE  EditKeeps
<1>1. /\ ledger \in Seq(Keys) /\ op \in [Ops -> OpStates] /\ op[o] = "late"
  BY DEF ProvenanceStrong, TypeOK, Lose
<1>2. UNCHANGED <<server, stream, ledger, forms, loop, routed, typed>> /\ op' = [op EXCEPT ![o] = "lost"]
  BY DEF Lose
<1>3. ASSUME NEW k \in Keys
      PROVE  Balanced(k)
  <2>2. Cardinality(OpenOf(op', k)) = Cardinality(OpenOf(op, k))
    BY <1>1, <1>2, OpStep DEF Open, OpStates
  <2> QED BY <1>1, <1>2, <2>2, BalanceLeft, CountType
<1>4. AwaitedInv'
  BY <1>1, <1>2, ProvenanceAssumption DEF AwaitedInv, ProvenanceStrong, TypeOK
<1>5. TypeOK' /\ stream' \in Seq(TrueUpdates) /\ forms' \in Seq(MenuMsgs)
  BY <1>1, <1>2 DEF ProvenanceStrong, TypeOK, OpStates
<1> QED BY <1>3, <1>4, <1>5 DEF EditKeeps

\* An armed edit that is still open has its entry.
LEMMA EntryHeld ==
  ASSUME ProvenanceStrong, NEW o \in Ops, op[o] \in Open, ArmedKey(KeyOf(o))
  PROVE  CountOf(ledger, {KeyOf(o)}) > 0
<1>1. o \in OpenOf(op, KeyOf(o))
  BY DEF OpenOf
<1>2. Cardinality(OpenOf(op, KeyOf(o))) > 0
  BY <1>1, OpenType, FS_EmptySet
<1>3. CountOf(ledger, {KeyOf(o)}) >= Owed(KeyOf(o))
  BY KeyFacts DEF ProvenanceStrong, LedgerCovers
<1> QED BY <1>2, <1>3, OwedType DEF Owed

\* An edit of the state s that leaves the ledger led is in balance.
EndBalanced(o, s, led) ==
  \A k \in Keys : ArmedKey(k) =>
    /\ k # KeyOf(o) => CountOf(led, {k}) = CountOf(ledger, {k})
    /\ KeyOf(o) = k =>
         /\ op[o] \in Open /\ s \notin Open => CountOf(ledger, {k}) = CountOf(led, {k}) + 1
         /\ (op[o] \in Open <=> s \in Open) => CountOf(led, {k}) = CountOf(ledger, {k})

LEMMA EndKept ==
  ASSUME ProvenanceStrong, NEW o \in Ops, NEW s \in OpStates, NEW led \in Seq(Keys),
         Len(led) <= MaxEntries, EndBalanced(o, s, led), s \in Open => op[o] \in Open,
         End(o, s, led), UNCHANGED <<server, stream, routed, typed>>, forms' \in Seq(MenuMsgs),
         forms' \in Seq(Msgs), Len(forms') <= MaxEntries
  PROVE  EditKeeps
<1>1. op \in [Ops -> OpStates] /\ ledger \in Seq(Keys)
  BY DEF ProvenanceStrong, TypeOK
<1>2. op' = [op EXCEPT ![o] = s] /\ ledger' = led /\ loop' = IF loop = o THEN NoOp ELSE loop
  BY DEF End
<1>3. ASSUME NEW k \in Keys, ArmedKey(k)
      PROVE  Balanced(k)
  <2>1. /\ CountOf(ledger, {k}) \in Nat /\ CountOf(led, {k}) \in Nat
        /\ Cardinality(OpenOf(op, k)) \in Nat /\ Cardinality(OpenOf(op', k)) \in Nat
    BY OwedType, OpenType, CountType
  <2>2. CASE KeyOf(o) = k /\ op[o] \in Open /\ s \notin Open
    <3>1. Cardinality(OpenOf(op, k)) = Cardinality(OpenOf(op', k)) + 1
      BY <1>1, <1>2, <2>2, OpStep
    <3>2. CountOf(ledger, {k}) = CountOf(led, {k}) + 1
      BY <1>3, <2>2 DEF EndBalanced
    <3>3. /\ CountOf(ledger', {k}) = CountOf(led, {k})
          /\ CountOf(ledger', {k}) + Cardinality(OpenOf(op, k))
               = CountOf(ledger, {k}) + Cardinality(OpenOf(op', k))
      BY <1>2, <2>1, <3>1, <3>2
    <3> QED BY <2>1, <3>3, BalanceLeft
  <2>3. CASE KeyOf(o) # k \/ (op[o] \in Open <=> s \in Open)
    <3>1. Cardinality(OpenOf(op, k)) = Cardinality(OpenOf(op', k))
      BY <1>1, <1>2, <2>3, OpStep
    <3>2. CountOf(ledger, {k}) = CountOf(led, {k})
      BY <1>3, <2>3 DEF EndBalanced
    <3>3. CountOf(ledger', {k}) = CountOf(ledger, {k})
      BY <1>2, <3>2
    <3> QED BY <2>1, <3>1, <3>3, BalanceLeft
  <2> QED BY <2>2, <2>3
<1>4. AwaitedInv'
  <2>1. op' \in [Ops -> OpStates]
    BY <1>1, <1>2
  <2>2. loop \in Ops \cup {NoOp} /\ NoOp \notin Ops
    BY ProvenanceAssumption DEF ProvenanceStrong, TypeOK
  <2> QED BY <1>1, <1>2, <2>1, <2>2 DEF AwaitedInv, ProvenanceStrong
<1>5. TypeOK'
  BY <1>1, <1>2 DEF ProvenanceStrong, TypeOK
<1> QED BY <1>3, <1>4, <1>5 DEF EditKeeps, ProvenanceStrong

\* A photo edit has failed and the text edit follows it.
LEMMA FallbackKept ==
  ASSUME ProvenanceStrong, NEW o \in Ops, NEW s \in OpStates, NEW led \in Seq(Keys),
         Len(led) <= MaxEntries, EndBalanced(o, s, led), s \in Open => op[o] \in Open,
         NEW t \in Fallback(o), Kind[o] = "photo", loop = o, op[o] # "idle",
         op' = [op EXCEPT ![o] = s, ![t] = IF LedgerFull(led) THEN "done" ELSE "sent"],
         ledger' = IF LedgerFull(led) THEN led ELSE Append(led, KeyOf(t)),
         loop' = IF LedgerFull(led) THEN NoOp ELSE t,
         UNCHANGED <<server, stream, routed, typed, forms>>
  PROVE  EditKeeps
<1> DEFINE s2 == IF LedgerFull(led) THEN "done" ELSE "sent"
<1>1. /\ op \in [Ops -> OpStates] /\ ledger \in Seq(Keys) /\ t \in Ops /\ t # o /\ op[t] = "idle"
      /\ KeyOf(t) = KeyOf(o) /\ Kind[t] = "text" /\ KeyOf(t) \in Keys
  BY KeyFacts DEF ProvenanceStrong, TypeOK, Fallback
<1>2. s2 \in OpStates /\ op' = [op EXCEPT ![o] = s, ![t] = s2] /\ (s2 \in Open <=> ~LedgerFull(led))
  BY DEF Open, OpStates
<1> HIDE DEF s2
<1>3. op' \in [Ops -> OpStates] /\ op'[t] = s2
  BY <1>1, <1>2
<1>4. ledger' \in Seq(Keys) /\ Len(ledger') <= MaxEntries
  BY <1>1, Entered
<1>5. ASSUME NEW k \in Keys, ArmedKey(k)
      PROVE  Balanced(k)
  <2> DEFINE A == OpenOf(op, k) \ {o}
             B == A \cup {t}
  <2>1. /\ CountOf(ledger, {k}) \in Nat /\ CountOf(led, {k}) \in Nat /\ CountOf(ledger', {k}) \in Nat
        /\ Cardinality(OpenOf(op, k)) \in Nat /\ Cardinality(OpenOf(op', k)) \in Nat
    BY <1>4, OwedType, OpenType, CountType
  <2>2. CASE KeyOf(o) # k
    <3>1. OpenOf(op', k) = OpenOf(op, k)
      BY <1>1, <1>2, <2>2 DEF OpenOf
    <3>2. CountOf(led, {k}) = CountOf(ledger, {k})
      BY <1>5, <2>2 DEF EndBalanced
    <3>3. CountOf(ledger', {k}) = CountOf(led, {k})
      BY <1>1, <2>2, Entered
    <3> QED BY <2>1, <3>1, <3>2, <3>3, BalanceLeft
  <2>3. CASE KeyOf(o) = k
    <3>1. IsFiniteSet(A) /\ Cardinality(A) \in Nat /\ t \notin A /\ o \notin A /\ o \notin B
          /\ IsFiniteSet(B) /\ Cardinality(B) = Cardinality(A) + 1
      <4>1. A \subseteq OpenOf(op, k)
        OBVIOUS
      <4>2. IsFiniteSet(A) /\ Cardinality(A) \in Nat
        BY <4>1, OpenType, FS_Subset, FS_CardinalityType
      <4>3. t \notin A /\ o \notin A /\ o \notin B
        BY <1>1 DEF OpenOf, Open
      <4> QED BY <4>2, <4>3, FS_AddElement
    <3>2. Cardinality(A \cup {o}) = Cardinality(A) + 1 /\ Cardinality(B \cup {o}) = Cardinality(B) + 1
      BY <3>1, FS_AddElement
    <3>3. /\ OpenOf(op, k) = IF op[o] \in Open THEN A \cup {o} ELSE A
          /\ OpenOf(op', k) = IF LedgerFull(led) THEN (IF s \in Open THEN A \cup {o} ELSE A)
                              ELSE (IF s \in Open THEN B \cup {o} ELSE B)
      BY <1>1, <1>2, <2>3 DEF OpenOf, Open
    <3> HIDE DEF A, B
    <3>4. /\ op[o] \in Open /\ s \notin Open => CountOf(ledger, {k}) = CountOf(led, {k}) + 1
          /\ (op[o] \in Open <=> s \in Open) => CountOf(led, {k}) = CountOf(ledger, {k})
      BY <1>5, <2>3 DEF EndBalanced
    <3>5. CASE LedgerFull(led)
      <4>1. CountOf(ledger', {k}) + Cardinality(OpenOf(op, k))
              = CountOf(ledger, {k}) + Cardinality(OpenOf(op', k))
        BY <2>1, <3>1, <3>2, <3>3, <3>4, <3>5
      <4> QED BY <2>1, <4>1, BalanceLeft
    <3>6. CASE ~LedgerFull(led)
      <4>1. CountOf(ledger', {k}) = CountOf(led, {k}) + 1
        BY <1>1, <2>3, <3>6, Entered
      <4>2. CountOf(ledger', {k}) + Cardinality(OpenOf(op, k))
              = CountOf(ledger, {k}) + Cardinality(OpenOf(op', k))
        <5>1. CASE op[o] \in Open /\ s \in Open
          <6>1. CountOf(ledger, {k}) = CountOf(led, {k})
            BY <3>4, <5>1
          <6>2. /\ Cardinality(OpenOf(op, k)) = Cardinality(A) + 1
                /\ Cardinality(OpenOf(op', k)) = Cardinality(A) + 1 + 1
            BY <3>1, <3>2, <3>3, <3>6, <5>1
          <6> QED BY <2>1, <3>1, <4>1, <6>1, <6>2
        <5>2. CASE op[o] \in Open /\ s \notin Open
          <6>1. CountOf(ledger, {k}) = CountOf(led, {k}) + 1
            BY <3>4, <5>2
          <6>2. /\ Cardinality(OpenOf(op, k)) = Cardinality(A) + 1
                /\ Cardinality(OpenOf(op', k)) = Cardinality(A) + 1
            BY <3>1, <3>2, <3>3, <3>6, <5>2
          <6> QED BY <2>1, <3>1, <4>1, <6>1, <6>2
        <5>3. CASE op[o] \notin Open /\ s \notin Open
          BY <2>1, <3>1, <3>2, <3>3, <3>4, <3>6, <4>1, <5>3
        <5> QED BY <5>1, <5>2, <5>3
      <4> QED BY <2>1, <4>2, BalanceLeft
    <3> QED BY <3>5, <3>6
  <2> QED BY <2>2, <2>3
<1>6. AwaitedInv'
  BY <1>3, <1>1 DEF AwaitedInv, s2
<1>7. TypeOK'
  BY <1>1, <1>3, <1>4 DEF ProvenanceStrong, TypeOK
<1> QED BY <1>5, <1>6, <1>7 DEF EditKeeps, ProvenanceStrong

\* The edit fails, with or without a fallback.
LEMMA FailEditKept ==
  ASSUME ProvenanceStrong, NEW o \in Ops, NEW s \in OpStates, NEW led \in Seq(Keys),
         Len(led) <= MaxEntries, EndBalanced(o, s, led), s \in Open => op[o] \in Open,
         op[o] # "idle", FailEdit(o, s, led), UNCHANGED <<server, stream, forms, routed, typed>>
  PROVE  EditKeeps
<1>1. CASE loop = o /\ Kind[o] = "photo" /\ Fallback(o) # {}
  <2>1. PICK t \in Fallback(o) :
         /\ op' = [op EXCEPT ![o] = s, ![t] = IF LedgerFull(led) THEN "done" ELSE "sent"]
         /\ ledger' = IF LedgerFull(led) THEN led ELSE Append(led, KeyOf(t))
         /\ loop' = IF LedgerFull(led) THEN NoOp ELSE t
    BY <1>1 DEF FailEdit
  <2> QED BY <1>1, <2>1, FallbackKept
<1>2. CASE ~(loop = o /\ Kind[o] = "photo" /\ Fallback(o) # {})
  <2>1. End(o, s, led)
    BY <1>2 DEF FailEdit
  <2>2. forms' \in Seq(MenuMsgs) /\ forms' \in Seq(Msgs) /\ Len(forms') <= MaxEntries
    BY DEF ProvenanceStrong, TypeOK
  <2> QED BY <2>1, <2>2, EndKept
<1> QED BY <1>1, <1>2

LEMMA RejectKept ==
  ASSUME ProvenanceStrong, NEW o \in Ops, Reject(o)
  PROVE  EditKeeps
<1> DEFINE led == AfterReject(o)
<1>1. ledger \in Seq(Keys) /\ Len(ledger) <= MaxEntries /\ op[o] = "sent" /\ FailEdit(o, "done", led)
      /\ UNCHANGED <<server, stream, forms, routed, typed>> /\ KeyOf(o) \in Keys
  BY KeyFacts DEF Reject, ProvenanceStrong, TypeOK
<1>2. led \in Seq(Keys) /\ Len(led) <= MaxEntries
  BY <1>1, Taken DEF AfterReject
<1>3. EndBalanced(o, "done", led)
  <2> SUFFICES ASSUME NEW k \in Keys, ArmedKey(k)
               PROVE  /\ k # KeyOf(o) => CountOf(led, {k}) = CountOf(ledger, {k})
                      /\ KeyOf(o) = k => CountOf(ledger, {k}) = CountOf(led, {k}) + 1
    BY <1>1 DEF EndBalanced, Open
  <2>1. CASE k # KeyOf(o)
    <3>1. CountOf(Without(ledger, KeyOf(o)), {k}) = CountOf(ledger, {k})
      <4>1. \A j : j # KeyOf(o) => CountOf(Without(ledger, KeyOf(o)), {j}) = CountOf(ledger, {j})
        BY <1>1, Taken
      <4> QED BY <2>1, <4>1
    <3>2. led = ledger \/ led = Without(ledger, KeyOf(o))
      BY DEF AfterReject
    <3> HIDE DEF led
    <3> QED BY <2>1, <3>1, <3>2
  <2>2. CASE k = KeyOf(o)
    <3>1. Kind[o] \in Armed /\ led = Without(ledger, KeyOf(o))
      BY <2>2 DEF ArmedKey, AfterReject, Armed
    <3>2. CountOf(ledger, {KeyOf(o)}) > 0
      BY <1>1, <2>2, EntryHeld DEF Open
    <3> QED BY <1>1, <2>2, <3>1, <3>2, Taken
  <2> QED BY <2>1, <2>2
<1> HIDE DEF led
<1> QED BY <1>1, <1>2, <1>3, FailEditKept DEF OpStates, Open

LEMMA GiveUpKept ==
  ASSUME ProvenanceStrong, NEW o \in Ops, GiveUp(o)
  PROVE  EditKeeps
<1> DEFINE led == AfterAmbiguity(o)
           s == IF op[o] = "sent" THEN "late" ELSE "done"
<1>1. /\ ledger \in Seq(Keys) /\ Len(ledger) <= MaxEntries /\ op[o] \in {"sent", "applied"}
      /\ FailEdit(o, s, led)
      /\ UNCHANGED <<server, stream, forms, routed, typed>> /\ KeyOf(o) \in Keys
  BY KeyFacts DEF GiveUp, ProvenanceStrong, TypeOK
<1>2. led \in Seq(Keys) /\ Len(led) <= MaxEntries
  BY <1>1, Taken DEF AfterAmbiguity
<1>3. s \in OpStates /\ (s \in Open <=> op[o] \in Open) /\ op[o] # "idle"
  BY <1>1 DEF OpStates, Open
<1>4. EndBalanced(o, s, led)
  <2> SUFFICES ASSUME NEW k \in Keys, ArmedKey(k)
               PROVE  CountOf(led, {k}) = CountOf(ledger, {k})
    BY <1>3 DEF EndBalanced
  <2>1. CASE k # KeyOf(o)
    BY <1>1, <2>1, Taken DEF AfterAmbiguity
  <2>2. CASE k = KeyOf(o)
    BY <2>2 DEF ArmedKey, AfterAmbiguity, Armed
  <2> QED BY <2>1, <2>2
<1> HIDE DEF led, s
<1> QED BY <1>1, <1>2, <1>3, <1>4, FailEditKept

LEMMA SucceedKept ==
  ASSUME ProvenanceStrong, NEW o \in Ops, Succeed(o)
  PROVE  EditKeeps
<1>1. /\ ledger \in Seq(Keys) /\ Len(ledger) <= MaxEntries /\ op[o] = "applied"
      /\ End(o, "done", ledger) /\ UNCHANGED <<server, stream, routed, typed>>
      /\ "done" \in OpStates /\ "done" \notin Open /\ op[o] \notin Open
      /\ forms \in Seq(MenuMsgs) /\ forms \in Seq(Msgs) /\ Len(forms) <= MaxEntries
      /\ MaxEntries \in Nat \ {0}
  BY ProvenanceAssumption DEF Succeed, ProvenanceStrong, TypeOK, OpStates, Open
<1>2. EndBalanced(o, "done", ledger)
  BY <1>1 DEF EndBalanced
<1>3. forms' \in Seq(MenuMsgs) /\ forms' \in Seq(Msgs) /\ Len(forms') <= MaxEntries
  <2>1. CASE Kind[o] = "form"
    <3>1. forms' = FormsWith(Target[o]) /\ Target[o] \in MenuMsgs /\ Target[o] \in Msgs
      BY <2>1, KeyFacts DEF Succeed, MenuMsgs
    <3>2. CASE Len(forms) >= MaxEntries
      <4>1. Len(forms) \in Nat /\ forms # <<>>
        BY <1>1, <3>2, EmptySeq, LenProperties
      <4>2. Tail(forms) \in Seq(MenuMsgs) /\ Tail(forms) \in Seq(Msgs) /\ Len(Tail(forms)) = Len(forms) - 1
        BY <1>1, <4>1, HeadTailProperties
      <4>3. forms' = Append(Tail(forms), Target[o])
        BY <3>1, <3>2 DEF FormsWith
      <4>4. forms' \in Seq(MenuMsgs) /\ forms' \in Seq(Msgs) /\ Len(forms') = Len(Tail(forms)) + 1
        BY <3>1, <4>2, <4>3, AppendProperties
      <4> QED BY <1>1, <4>1, <4>2, <4>4
    <3>3. CASE ~(Len(forms) >= MaxEntries)
      <4>1. forms' = Append(forms, Target[o]) /\ Len(forms) \in Nat
        BY <1>1, <3>1, <3>3, LenProperties DEF FormsWith
      <4>2. forms' \in Seq(MenuMsgs) /\ forms' \in Seq(Msgs) /\ Len(forms') = Len(forms) + 1
        BY <1>1, <3>1, <4>1, AppendProperties
      <4> QED BY <1>1, <3>3, <4>1, <4>2
    <3> QED BY <3>2, <3>3
  <2>2. CASE Kind[o] # "form"
    <3>1. forms' = forms
      BY <2>2 DEF Succeed
    <3> QED BY <1>1, <3>1
  <2> QED BY <2>1, <2>2
<1> QED BY <1>1, <1>2, <1>3, EndKept

LEMMA CancelKept ==
  ASSUME ProvenanceStrong, Cancel
  PROVE  EditKeeps
<1> DEFINE s == IF op[loop] = "sent" THEN "late" ELSE "done"
<1>1. /\ loop \in Ops /\ op[loop] \in {"sent", "applied"} /\ End(loop, s, ledger)
      /\ ledger \in Seq(Keys) /\ Len(ledger) <= MaxEntries
      /\ UNCHANGED <<server, stream, forms, routed, typed>>
      /\ forms' \in Seq(MenuMsgs) /\ forms' \in Seq(Msgs) /\ Len(forms') <= MaxEntries
  BY DEF Cancel, ProvenanceStrong, TypeOK, AwaitedInv
<1>2. s \in OpStates /\ (s \in Open <=> op[loop] \in Open)
  BY <1>1 DEF OpStates, Open
<1>3. EndBalanced(loop, s, ledger)
  BY <1>2 DEF EndBalanced
<1> HIDE DEF s
<1> QED BY <1>1, <1>2, <1>3, EndKept

LEMMA UserWritesKept ==
  ASSUME ProvenanceStrong, NEW m \in Msgs, UserWrites(m)
  PROVE  EditKeeps
<1> DEFINE u == Update(m, UserText, server[m] # Absent, User)
<1>1. /\ UNCHANGED <<ledger, forms, op, loop, routed>>
      /\ stream' = Append(stream, u) /\ server' = [server EXCEPT ![m] = UserText]
      /\ typed' = typed + 1 /\ typed < MaxUserEdits
  BY DEF UserWrites
<1>2. /\ stream \in Seq(TrueUpdates) /\ stream \in Seq(Updates) /\ typed \in 0 .. MaxUserEdits
      /\ MaxUserEdits \in Nat
  BY ProvenanceAssumption DEF ProvenanceStrong, TypeOK
<1>3. u \in TrueUpdates /\ u \in Updates /\ u.from = User
  BY ProvenanceAssumption DEF TrueUpdates, Updates, Update
<1> HIDE DEF u
<1>4. stream' \in Seq(TrueUpdates) /\ stream' \in Seq(Updates)
  BY <1>1, <1>2, <1>3, AppendProperties
<1>5. ASSUME NEW k \in Keys
      PROVE  Balanced(k)
  <2>1. CountOf(Append(stream, u), UpdatesOf(k)) = CountOf(stream, UpdatesOf(k)) + Unit(u \in UpdatesOf(k))
    BY <1>2, <1>3, CountAppend
  <2>2. u \notin UpdatesOf(k)
    BY <1>3, ProvenanceAssumption DEF UpdatesOf
  <2>3. CountOf(stream', UpdatesOf(k)) = CountOf(stream, UpdatesOf(k))
    <3>1. Unit(u \in UpdatesOf(k)) = 0
      BY <2>2 DEF Unit
    <3>2. CountOf(stream, UpdatesOf(k)) \in Nat
      BY OwedType
    <3>3. CountOf(stream', UpdatesOf(k)) = CountOf(stream, UpdatesOf(k)) + 0
      BY <1>1, <2>1, <3>1
    <3> QED BY <3>2, <3>3
  <2>4. CountOf(stream, UpdatesOf(k))' = CountOf(stream', UpdatesOf(k))
    BY DEF CountOf, PositionsOf, UpdatesOf, TrueUpdates, Updates, KeyOf
  <2>5. OpenOf(op, k)' = OpenOf(op, k)
    BY <1>1 DEF OpenOf, KeyOf
  <2>6. Owed(k)' = Owed(k)
    BY <2>3, <2>4, <2>5 DEF Owed
  <2> QED BY <1>1, <2>6 DEF Balanced
<1>6. TypeOK'
  <2>1. typed' \in 0 .. MaxUserEdits
    BY <1>1, <1>2
  <2>2. server' \in [Msgs -> Texts \cup {UserText, Absent}]
    BY <1>1 DEF ProvenanceStrong, TypeOK
  <2> QED BY <1>1, <1>4, <2>1, <2>2 DEF ProvenanceStrong, TypeOK
<1>7. AwaitedInv' /\ forms' \in Seq(MenuMsgs)
  BY <1>1 DEF AwaitedInv, ProvenanceStrong
<1> QED BY <1>4, <1>5, <1>6, <1>7 DEF EditKeeps

\* The update of an armed edit is expected.
LEMMA ArmedExpected ==
  ASSUME ProvenanceStrong, stream # <<>>, Head(stream).from \in Ops,
         ArmedKey(KeyOf(Head(stream).from))
  PROVE  Expected(Head(stream))
<1> DEFINE u == Head(stream)
           k == KeyOf(u.from)
<1>1. stream \in Seq(TrueUpdates) /\ u \in TrueUpdates /\ Len(stream) \in Nat \ {0}
      /\ 1 \in DOMAIN stream /\ stream[1] = u
  BY EmptySeq, LenProperties, HeadTailProperties DEF ProvenanceStrong
<1>2. k \in Keys /\ u.msg = Target[u.from] /\ u.text = Text[u.from]
      /\ u.edited = (Kind[u.from] # "form") /\ Kind[u.from] \in Armed
  BY <1>1, KeyFacts DEF TrueUpdates, ArmedKey
<1>3. k = <<u.msg, u.text>> /\ u.edited
  BY <1>2 DEF KeyOf, Armed
<1>4. CountOf(stream, UpdatesOf(k)) # 0
  <2>1. u \in UpdatesOf(k)
    BY <1>1 DEF UpdatesOf
  <2> HIDE DEF u, k
  <2> QED BY <1>1, <2>1, CountZero
<1>5. CountOf(ledger, {k}) # 0
  <2>1. CountOf(ledger, {k}) >= Owed(k)
    BY <1>2 DEF ProvenanceStrong, LedgerCovers
  <2> HIDE DEF k
  <2> QED BY <1>4, <2>1, OwedType DEF Owed
<1>6. ledger \in Seq(Keys) /\ DOMAIN ledger = 1 .. Len(ledger)
  BY LenProperties DEF ProvenanceStrong, TypeOK
<1>7. \E i \in DOMAIN ledger : ledger[i] = k
  <2> HIDE DEF k
  <2> QED BY <1>5, <1>6, CountZero
<1> QED BY <1>3, <1>6, <1>7 DEF Expected, Contains

\* What the head of process_update does to the stream and the ledger.
LEMMA ProcessStream ==
  ASSUME ProvenanceStrong, stream # <<>>, stream' = Tail(stream)
  PROVE  /\ stream' \in Seq(TrueUpdates) /\ stream' \in Seq(Updates)
         /\ Head(stream) \in TrueUpdates /\ Head(stream) \in Updates
         /\ \A k : /\ CountOf(stream, UpdatesOf(k))' = CountOf(stream', UpdatesOf(k))
                   /\ CountOf(stream', UpdatesOf(k)) \in Nat
                   /\ Head(stream) \in UpdatesOf(k) =>
                        CountOf(stream, UpdatesOf(k)) = CountOf(stream', UpdatesOf(k)) + 1
                   /\ Head(stream) \notin UpdatesOf(k) =>
                        CountOf(stream, UpdatesOf(k)) = CountOf(stream', UpdatesOf(k))
<1>1. stream \in Seq(TrueUpdates) /\ stream \in Seq(Updates)
  BY DEF ProvenanceStrong, TypeOK
<1>2. /\ stream' \in Seq(TrueUpdates) /\ stream' \in Seq(Updates)
      /\ Head(stream) \in TrueUpdates /\ Head(stream) \in Updates
  BY <1>1, HeadTailProperties
<1>3. ASSUME NEW k
      PROVE  /\ CountOf(stream', UpdatesOf(k)) \in Nat
             /\ Head(stream) \in UpdatesOf(k) =>
                  CountOf(stream, UpdatesOf(k)) = CountOf(stream', UpdatesOf(k)) + 1
             /\ Head(stream) \notin UpdatesOf(k) =>
                  CountOf(stream, UpdatesOf(k)) = CountOf(stream', UpdatesOf(k))
  <2>1. CountOf(stream', UpdatesOf(k)) \in Nat
    BY <1>2, CountType
  <2>2. CountOf(stream, UpdatesOf(k)) = CountOf(stream', UpdatesOf(k)) + Unit(Head(stream) \in UpdatesOf(k))
    BY <1>1, CountTail
  <2>3. CASE Head(stream) \in UpdatesOf(k)
    BY <2>1, <2>2, <2>3 DEF Unit
  <2>4. CASE Head(stream) \notin UpdatesOf(k)
    <3>1. Unit(Head(stream) \in UpdatesOf(k)) = 0
      BY <2>4 DEF Unit
    <3> QED BY <2>1, <2>2, <2>4, <3>1
  <2> QED BY <2>1, <2>3, <2>4
<1>4. \A k : CountOf(stream, UpdatesOf(k))' = CountOf(stream', UpdatesOf(k))
  BY DEF CountOf, PositionsOf, UpdatesOf, TrueUpdates, Updates, KeyOf
<1> QED BY <1>2, <1>3, <1>4

\* The menu ring claims an update: the ledger keeps its entry.
LEMMA SuppressKept ==
  ASSUME ProvenanceStrong, stream # <<>>, stream' = Tail(stream), Suppressed(Head(stream)),
         UNCHANGED <<server, ledger, forms, op, loop, routed, typed>>
  PROVE  ProvenanceStrong'
<1> DEFINE u == Head(stream)
<1>1. u.msg \in MenuMsgs
  BY LenProperties, ElementOfSeq DEF Suppressed, FormSuppresses, ProvenanceStrong
<1>2. \A k : OpenOf(op, k)' = OpenOf(op, k)
  BY DEF OpenOf, KeyOf
<1>3. \A k : Owed(k)' = Cardinality(OpenOf(op, k)) + CountOf(stream', UpdatesOf(k))
  BY <1>2, ProcessStream DEF Owed
<1>4. \A k : CountOf(ledger, {k})' = CountOf(ledger, {k})
  BY DEF CountOf, PositionsOf
<1>5. LedgerCovers'
  <2> SUFFICES ASSUME NEW k \in Keys, ArmedKey(k)'
               PROVE  CountOf(ledger, {k})' >= Owed(k)'
    BY DEF LedgerCovers, Keys
  <2>1. CountOf(ledger, {k}) >= Owed(k)
    BY DEF ProvenanceStrong, LedgerCovers, ArmedKey, KeyOf
  <2>2. Owed(k)' <= Owed(k) /\ Owed(k)' \in Nat
    <3>1. Cardinality(OpenOf(op, k)) \in Nat
      BY OpenType
    <3>2. CountOf(stream', UpdatesOf(k)) \in Nat /\ CountOf(stream', UpdatesOf(k)) <= CountOf(stream, UpdatesOf(k))
      <4>1. CASE u \in UpdatesOf(k)
        BY <4>1, ProcessStream
      <4>2. CASE u \notin UpdatesOf(k)
        BY <4>2, ProcessStream
      <4> QED BY <4>1, <4>2
    <3>3. Owed(k)' = Cardinality(OpenOf(op, k)) + CountOf(stream', UpdatesOf(k))
      BY <1>3
    <3>4. Owed(k) = Cardinality(OpenOf(op, k)) + CountOf(stream, UpdatesOf(k))
          /\ CountOf(stream, UpdatesOf(k)) \in Nat
      BY OwedType DEF Owed
    <3> QED BY <3>1, <3>2, <3>3, <3>4
  <2> QED BY <1>4, <2>1, <2>2, OwedType
<1>6. LedgerBalanced'
  <2> SUFFICES ASSUME NEW k \in Keys, ArmedKey(k)', k[1] \notin MenuMsgs
               PROVE  CountOf(ledger, {k})' = Owed(k)'
    BY DEF LedgerBalanced, Keys, MenuMsgs
  <2>1. CountOf(ledger, {k}) = Owed(k)
    BY DEF ProvenanceStrong, LedgerBalanced, ArmedKey, KeyOf
  <2>2. u \notin UpdatesOf(k)
    BY <1>1, ProcessStream DEF UpdatesOf, TrueUpdates, KeyOf
  <2>3. CountOf(stream', UpdatesOf(k)) = CountOf(stream, UpdatesOf(k))
    BY <2>2, ProcessStream
  <2> QED BY <1>3, <1>4, <2>1, <2>3 DEF Owed
<1>7. TypeOK'
  BY ProcessStream DEF ProvenanceStrong, TypeOK, Keys, Updates
<1>8. AwaitedInv' /\ OwnEditNeverRouted'
  BY DEF ProvenanceStrong, AwaitedInv, OwnEditNeverRouted, ArmedKey, KeyOf
<1>9. stream' \in Seq(TrueUpdates) /\ forms' \in Seq(MenuMsgs)
  BY ProcessStream DEF ProvenanceStrong
<1> QED BY <1>5, <1>6, <1>7, <1>8, <1>9 DEF ProvenanceStrong, TrueUpdates, MenuMsgs, Updates

\* A step that is in balance and routes nothing keeps the invariant.
LEMMA KeptIsStrong ==
  ASSUME ProvenanceStrong, EditKeeps, OwnEditNeverRouted'
  PROVE  ProvenanceStrong'
<1>1. ASSUME NEW k \in Keys, ArmedKey(k)
      PROVE  CountOf(ledger, {k})' + Owed(k) = CountOf(ledger, {k}) + Owed(k)'
  <2>1. Balanced(k)
    BY <1>1 DEF EditKeeps
  <2>2. CountOf(ledger, {k})' = CountOf(ledger', {k})
    BY DEF CountOf, PositionsOf
  <2> QED BY <2>1, <2>2 DEF Balanced
<1>2. \A k : Owed(k)' \in Int /\ Owed(k) \in Int /\ CountOf(ledger, {k}) \in Int /\ CountOf(ledger, {k})' \in Int
  <2> SUFFICES ASSUME NEW k
               PROVE  Owed(k)' \in Int /\ Owed(k) \in Int
                      /\ CountOf(ledger, {k}) \in Int /\ CountOf(ledger, {k})' \in Int
    OBVIOUS
  <2>1. Owed(k) \in Int /\ CountOf(ledger, {k}) \in Int
    BY OwedType
  <2>2. CountOf(ledger, {k})' \in Int
    <3>1. CountOf(ledger', {k}) \in Nat
      BY CountType DEF EditKeeps, TypeOK, Keys
    <3> QED BY <3>1 DEF CountOf, PositionsOf
  <2>3. Owed(k)' \in Int
    <3>1. CountOf(stream', UpdatesOf(k)) \in Nat
      BY CountType DEF EditKeeps
    <3>2. CountOf(stream, UpdatesOf(k))' = CountOf(stream', UpdatesOf(k))
      BY DEF CountOf, PositionsOf, UpdatesOf, TrueUpdates, Updates, KeyOf
    <3>3. Cardinality(OpenOf(op', k)) \in Nat
      BY OpenType
    <3>4. Cardinality(OpenOf(op, k))' = Cardinality(OpenOf(op', k))
      BY DEF OpenOf, KeyOf
    <3> QED BY <3>1, <3>2, <3>3, <3>4 DEF Owed
  <2> QED BY <2>1, <2>2, <2>3
<1>3. LedgerCovers'
  <2> SUFFICES ASSUME NEW k \in Keys, ArmedKey(k)
               PROVE  CountOf(ledger, {k})' >= Owed(k)'
    BY DEF LedgerCovers, Keys, ArmedKey, KeyOf
  <2>1. CountOf(ledger, {k}) >= Owed(k)
    BY DEF ProvenanceStrong, LedgerCovers
  <2>2. CountOf(ledger, {k})' + Owed(k) = CountOf(ledger, {k}) + Owed(k)'
    BY <1>1
  <2>3. /\ Owed(k)' \in Int /\ Owed(k) \in Int
        /\ CountOf(ledger, {k}) \in Int /\ CountOf(ledger, {k})' \in Int
    BY <1>2
  <2> QED BY <2>1, <2>2, <2>3
<1>4. LedgerBalanced'
  <2> SUFFICES ASSUME NEW k \in Keys, ArmedKey(k), k[1] \notin MenuMsgs
               PROVE  CountOf(ledger, {k})' = Owed(k)'
    BY DEF LedgerBalanced, Keys, ArmedKey, KeyOf, MenuMsgs
  <2>1. CountOf(ledger, {k}) = Owed(k)
    BY DEF ProvenanceStrong, LedgerBalanced
  <2>2. CountOf(ledger, {k})' + Owed(k) = CountOf(ledger, {k}) + Owed(k)'
    BY <1>1
  <2>3. Owed(k)' \in Int /\ Owed(k) \in Int /\ CountOf(ledger, {k})' \in Int
    BY <1>2
  <2> QED BY <2>1, <2>2, <2>3
<1> QED BY <1>3, <1>4 DEF EditKeeps, ProvenanceStrong, TrueUpdates, MenuMsgs, Updates

\* The ledger claims an update and gives up its entry.
LEMMA ConsumeKept ==
  ASSUME ProvenanceStrong, stream # <<>>, stream' = Tail(stream), Expected(Head(stream)),
         ledger' = Without(ledger, <<Head(stream).msg, Head(stream).text>>),
         UNCHANGED <<server, forms, op, loop, routed, typed>>
  PROVE  EditKeeps
<1> DEFINE u == Head(stream)
           key == <<u.msg, u.text>>
<1>1. ledger \in Seq(Keys) /\ Len(ledger) <= MaxEntries /\ u \in TrueUpdates
  BY ProcessStream DEF ProvenanceStrong, TypeOK
<1>2. key \in Keys /\ CountOf(ledger, {key}) > 0
  <2>1. DOMAIN ledger = 1 .. Len(ledger) /\ \E i \in DOMAIN ledger : ledger[i] = key
    BY <1>1, LenProperties DEF Expected, Contains
  <2>2. key \in Keys
    BY <1>1, <2>1, ElementOfSeq, LenProperties
  <2> HIDE DEF key
  <2>3. CountOf(ledger, {key}) # 0
    BY <1>1, <2>1, CountZero
  <2>4. CountOf(ledger, {key}) \in Nat
    BY OwedType
  <2> QED BY <2>2, <2>3, <2>4
<1>3. u.from \in Ops /\ KeyOf(u.from) = key
  <2>1. u.from # User
    BY <1>1, <1>2, ProvenanceAssumption DEF TrueUpdates, Keys
  <2>2. u.from \in Ops
    BY <1>1, <2>1 DEF TrueUpdates, Updates
  <2> QED BY <1>1, <2>2 DEF TrueUpdates, KeyOf
<1>4. /\ ledger' \in Seq(Keys) /\ Len(ledger') <= MaxEntries
      /\ \A k : k # key => CountOf(ledger', {k}) = CountOf(ledger, {k})
      /\ CountOf(ledger, {key}) = CountOf(ledger', {key}) + 1
  <2> HIDE DEF key
  <2>1. ledger' = Without(ledger, key)
    BY DEF key
  <2>2. ledger' \in Seq(Keys) /\ Len(ledger') <= MaxEntries
    BY <1>1, <2>1, Taken
  <2>3. ASSUME NEW k, k # key PROVE CountOf(ledger', {k}) = CountOf(ledger, {k})
    <3>1. \A j : j # key => CountOf(Without(ledger, key), {j}) = CountOf(ledger, {j})
      BY <1>1, Taken
    <3> QED BY <2>1, <2>3, <3>1
  <2>4. CountOf(ledger, {key}) = CountOf(ledger', {key}) + 1
    BY <1>1, <1>2, <2>1, Taken
  <2> QED BY <2>2, <2>3, <2>4
<1>5. \A k : u \in UpdatesOf(k) <=> k = key
  BY <1>1, <1>3 DEF UpdatesOf
<1> HIDE DEF key
<1>6. ASSUME NEW k \in Keys
      PROVE  Balanced(k)
  <2>1. OpenOf(op, k)' = OpenOf(op, k)
    BY DEF OpenOf, KeyOf
  <2>2. Owed(k)' = Cardinality(OpenOf(op, k)) + CountOf(stream', UpdatesOf(k))
    BY <2>1, ProcessStream DEF Owed
  <2>3. /\ CountOf(stream', UpdatesOf(k)) \in Nat /\ Cardinality(OpenOf(op, k)) \in Nat
        /\ CountOf(ledger', {k}) \in Nat /\ CountOf(ledger, {k}) \in Nat
    BY <1>4, ProcessStream, OwedType, CountType
  <2>4. CASE k = key
    <3>1. CountOf(stream, UpdatesOf(k)) = CountOf(stream', UpdatesOf(k)) + 1
      BY <1>5, <2>4, ProcessStream
    <3>2. CountOf(ledger, {k}) = CountOf(ledger', {k}) + 1
      BY <1>4, <2>4
    <3> QED BY <2>2, <2>3, <3>1, <3>2 DEF Balanced, Owed
  <2>5. CASE k # key
    <3>1. CountOf(stream, UpdatesOf(k)) = CountOf(stream', UpdatesOf(k))
      BY <1>5, <2>5, ProcessStream
    <3>2. CountOf(ledger, {k}) = CountOf(ledger', {k})
      BY <1>4, <2>5
    <3> QED BY <2>2, <3>1, <3>2 DEF Balanced, Owed
  <2> QED BY <2>4, <2>5
<1>7. TypeOK'
  BY <1>4, ProcessStream DEF ProvenanceStrong, TypeOK, Keys, Updates
<1>8. AwaitedInv' /\ stream' \in Seq(TrueUpdates) /\ forms' \in Seq(MenuMsgs)
  BY ProcessStream DEF ProvenanceStrong, AwaitedInv
<1> QED BY <1>6, <1>7, <1>8 DEF EditKeeps

\* An update is routed, and may be answered by an edit.
LEMMA RouteKept ==
  ASSUME ProvenanceStrong, stream # <<>>, stream' = Tail(stream), ~Expected(Head(stream)), loop = NoOp,
         routed' = routed \cup {Head(stream).from}, UNCHANGED <<server, forms, typed>>,
         \/ UNCHANGED <<ledger, op, loop>>
         \/ \E o \in Ops :
              /\ Kind[o] \in {"text", "photo"} /\ Target[o] = Head(stream).msg /\ op[o] = "idle"
              /\ Register(o, ledger)
              /\ loop' = IF LedgerFull(ledger) THEN NoOp ELSE o
  PROVE  EditKeeps /\ OwnEditNeverRouted'
<1> DEFINE u == Head(stream)
<1>1. u \in TrueUpdates /\ u \in Updates
  BY ProcessStream
<1>2. \A k : ArmedKey(k) => u \notin UpdatesOf(k)
  BY ArmedExpected DEF UpdatesOf
<1>3. OwnEditNeverRouted'
  <2> SUFFICES ASSUME NEW o \in Ops, ArmedKey(KeyOf(o))
               PROVE  o \notin routed'
    BY DEF OwnEditNeverRouted, ArmedKey, KeyOf
  <2>1. o \notin routed
    BY DEF ProvenanceStrong, OwnEditNeverRouted
  <2>2. u.from # o
    BY <1>1, <1>2 DEF UpdatesOf
  <2> QED BY <2>1, <2>2
<1>4. \A k : ArmedKey(k) => CountOf(stream', UpdatesOf(k)) = CountOf(stream, UpdatesOf(k))
  BY <1>2, ProcessStream
<1>5. /\ ledger' \in Seq(Keys) /\ Len(ledger') <= MaxEntries /\ op' \in [Ops -> OpStates]
      /\ \A k \in Keys : CountOf(ledger', {k}) + Cardinality(OpenOf(op, k))
                           = CountOf(ledger, {k}) + Cardinality(OpenOf(op', k))
      /\ loop' \in {o \in Ops : Kind[o] \in {"text", "photo"}} \cup {NoOp}
      /\ AwaitedInv'
  <2>1. CASE UNCHANGED <<ledger, op, loop>>
    BY <2>1 DEF ProvenanceStrong, TypeOK, AwaitedInv
  <2>2. CASE \E o \in Ops :
              /\ Kind[o] \in {"text", "photo"} /\ Target[o] = u.msg /\ op[o] = "idle"
              /\ Register(o, ledger)
              /\ loop' = IF LedgerFull(ledger) THEN NoOp ELSE o
    <3>1. PICK o \in Ops :
              /\ Kind[o] \in {"text", "photo"} /\ op[o] = "idle" /\ Register(o, ledger)
              /\ loop' = IF LedgerFull(ledger) THEN NoOp ELSE o
      BY <2>2
    <3>2. /\ ledger' \in Seq(Keys) /\ Len(ledger') <= MaxEntries /\ op' \in [Ops -> OpStates]
          /\ \A k \in Keys : CountOf(ledger', {k}) + Cardinality(OpenOf(op, k))
                               = CountOf(ledger, {k}) + Cardinality(OpenOf(op', k))
      BY <3>1, RegisterBalances
    <3>3. AwaitedInv'
      BY <3>1, <3>2 DEF AwaitedInv, Register, ProvenanceStrong, TypeOK
    <3>4. loop' \in {x \in Ops : Kind[x] \in {"text", "photo"}} \cup {NoOp}
      BY <3>1
    <3> QED BY <3>2, <3>3, <3>4
  <2> QED BY <2>1, <2>2
<1>6. ASSUME NEW k \in Keys, ArmedKey(k)
      PROVE  Balanced(k)
  <2>1. Owed(k)' = Cardinality(OpenOf(op', k)) + CountOf(stream', UpdatesOf(k))
    <3>1. OpenOf(op, k)' = OpenOf(op', k)
      BY DEF OpenOf, KeyOf
    <3> QED BY <3>1, ProcessStream DEF Owed
  <2>2. /\ CountOf(stream', UpdatesOf(k)) \in Nat /\ Cardinality(OpenOf(op, k)) \in Nat
        /\ CountOf(ledger', {k}) \in Nat /\ CountOf(ledger, {k}) \in Nat /\ Cardinality(OpenOf(op', k)) \in Nat
    BY <1>5, ProcessStream, OwedType, CountType, OpenType
  <2>3. CountOf(stream', UpdatesOf(k)) = CountOf(stream, UpdatesOf(k))
    BY <1>4, <1>6
  <2>4. CountOf(ledger', {k}) + Cardinality(OpenOf(op, k)) = CountOf(ledger, {k}) + Cardinality(OpenOf(op', k))
    BY <1>5
  <2>5. Owed(k) = Cardinality(OpenOf(op, k)) + CountOf(stream', UpdatesOf(k))
    BY <2>3 DEF Owed
  <2>6. CountOf(ledger', {k}) + Owed(k) = CountOf(ledger, {k}) + Owed(k)'
    <3> DEFINE e1 == CountOf(ledger', {k})
               e == CountOf(ledger, {k})
               a1 == Cardinality(OpenOf(op', k))
               a == Cardinality(OpenOf(op, k))
               x == CountOf(stream', UpdatesOf(k))
    <3>1. e1 \in Nat /\ e \in Nat /\ a1 \in Nat /\ a \in Nat /\ x \in Nat /\ e1 + a = e + a1
      BY <2>2, <2>4
    <3>2. Owed(k) = a + x /\ Owed(k)' = a1 + x
      BY <2>1, <2>5
    <3> HIDE DEF e1, e, a1, a, x
    <3>3. e1 + (a + x) = e + (a1 + x)
      BY <3>1
    <3> QED BY <3>2, <3>3 DEF e1, e
  <2> QED BY <2>6 DEF Balanced
<1>7. TypeOK'
  <2>1. routed' \subseteq Ops \cup {User}
    BY <1>1 DEF ProvenanceStrong, TypeOK, Updates
  <2> QED BY <1>5, <2>1, ProcessStream DEF ProvenanceStrong, TypeOK, Keys, Updates
<1>8. stream' \in Seq(TrueUpdates) /\ forms' \in Seq(MenuMsgs)
  BY ProcessStream DEF ProvenanceStrong
<1> QED BY <1>3, <1>5, <1>6, <1>7, <1>8 DEF EditKeeps

LEMMA ProvenanceStep == ProvenanceStrong /\ [Next]_vars => ProvenanceStrong'
<1> SUFFICES ASSUME ProvenanceStrong, [Next]_vars
             PROVE  ProvenanceStrong'
  OBVIOUS
<1>0. ASSUME UNCHANGED routed PROVE OwnEditNeverRouted'
  BY <1>0 DEF ProvenanceStrong, OwnEditNeverRouted, ArmedKey, KeyOf
<1>1. CASE Process
  <2> DEFINE u == Head(stream)
  <2>1. loop = NoOp /\ stream # <<>> /\ stream' = Tail(stream) /\ UNCHANGED <<server, forms, typed>>
    BY <1>1 DEF Process
  <2>2. CASE Suppressed(u) /\ UNCHANGED <<ledger, op, loop, routed>>
    BY <2>1, <2>2, SuppressKept
  <2>3. CASE Expected(u) /\ ledger' = Without(ledger, <<u.msg, u.text>>) /\ UNCHANGED <<op, loop, routed>>
    <3>1. EditKeeps
      BY <2>1, <2>3, ConsumeKept
    <3> QED BY <1>0, <2>3, <3>1, KeptIsStrong
  <2>4. CASE /\ ~Expected(u) /\ routed' = routed \cup {u.from}
             /\ \/ UNCHANGED <<ledger, op, loop>>
                \/ \E o \in Ops :
                     /\ Kind[o] \in {"text", "photo"} /\ Target[o] = u.msg /\ op[o] = "idle"
                     /\ Register(o, ledger)
                     /\ loop' = IF LedgerFull(ledger) THEN NoOp ELSE o
    <3>1. EditKeeps /\ OwnEditNeverRouted'
      BY <2>1, <2>4, RouteKept
    <3> QED BY <3>1, KeptIsStrong
  <2> QED BY <1>1, <2>2, <2>3, <2>4 DEF Process
<1>2. CASE Cancel
  BY <1>0, <1>2, CancelKept, KeptIsStrong DEF Cancel
<1>3. ASSUME NEW m \in Msgs, UserWrites(m) PROVE ProvenanceStrong'
  BY <1>0, <1>3, UserWritesKept, KeptIsStrong DEF UserWrites
<1>4. ASSUME NEW o \in Ops,
             \/ HostBegin(o) \/ BotBegin(o) \/ FormBegin(o)
             \/ Apply(o) \/ Lose(o) \/ Succeed(o) \/ Reject(o) \/ GiveUp(o)
      PROVE  ProvenanceStrong'
  <2>1. UNCHANGED routed
    BY <1>4 DEF HostBegin, BotBegin, FormBegin, Apply, Lose, Succeed, Reject, GiveUp
  <2>2. EditKeeps
    BY <1>4, HostBeginKept, BotBeginKept, FormBeginKept, ApplyKept, LoseKept, SucceedKept, RejectKept, GiveUpKept
  <2> QED BY <1>0, <2>1, <2>2, KeptIsStrong
<1>5. CASE UNCHANGED vars
  <2>1. UNCHANGED routed /\ UNCHANGED <<server, stream, ledger, forms, op, loop, routed, typed>>
    BY <1>5 DEF vars
  <2>2. ASSUME NEW k \in Keys PROVE Balanced(k)
    <3>1. CountOf(ledger', {k}) \in Nat /\ ledger' = ledger /\ op' = op
      BY <2>1, OwedType
    <3> QED BY <2>1, <3>1, BalanceLeft
  <2>3. EditKeeps
    BY <2>1, <2>2 DEF EditKeeps, ProvenanceStrong, TypeOK, AwaitedInv
  <2> QED BY <1>0, <2>1, <2>3, KeptIsStrong
<1> QED BY <1>1, <1>2, <1>3, <1>4, <1>5 DEF Next

LEMMA ProvenanceInit == Init => ProvenanceStrong
<1> SUFFICES ASSUME Init PROVE ProvenanceStrong
  OBVIOUS
<1>1. TypeOK
  BY ProvenanceAssumption DEF Init, TypeOK, OpStates
<1>2. stream \in Seq(TrueUpdates) /\ forms \in Seq(MenuMsgs) /\ AwaitedInv /\ OwnEditNeverRouted
  BY DEF Init, AwaitedInv, OwnEditNeverRouted
<1>3. ASSUME NEW k PROVE CountOf(ledger, {k}) = 0 /\ Owed(k) = 0
  <2>1. CountOf(ledger, {k}) = 0 /\ CountOf(stream, UpdatesOf(k)) = 0
    BY CountEmpty DEF Init
  <2>2. OpenOf(op, k) = {}
    BY DEF Init, OpenOf, Open
  <2> QED BY <2>1, <2>2, FS_EmptySet DEF Owed
<1> QED BY <1>1, <1>2, <1>3 DEF ProvenanceStrong, LedgerCovers, LedgerBalanced

LEMMA StrongGivesProvenance == ProvenanceStrong => ProvenanceInv
<1> SUFFICES ASSUME ProvenanceStrong, NEW k \in Keys, ArmedKey(k),
                    \A o \in Ops : Kind[o] = "form" => Target[o] # k[1]
             PROVE  Cardinality(EntriesOf(k)) = Cardinality(Unsettled(k)) + Cardinality(Unseen(k))
  BY DEF ProvenanceInv, LedgerExact, ProvenanceStrong
<1>1. k[1] \notin MenuMsgs
  BY DEF MenuMsgs
<1>2. CountOf(ledger, {k}) = Owed(k)
  BY <1>1 DEF ProvenanceStrong, LedgerBalanced
<1>3. EntriesOf(k) = PositionsOf(ledger, {k}) /\ Unsettled(k) = OpenOf(op, k)
  BY DEF EntriesOf, PositionsOf, Unsettled, OpenOf, Open
<1>4. Unseen(k) = PositionsOf(stream, UpdatesOf(k))
  BY ElementOfSeq, LenProperties DEF Unseen, PositionsOf, UpdatesOf, ProvenanceStrong
<1> QED BY <1>2, <1>3, <1>4 DEF CountOf, Owed

LEMMA ProvenanceAlways == Spec => []ProvenanceStrong
BY ProvenanceInit, ProvenanceStep, PTL DEF Spec

\* No edit that the run loop or message.edit makes is ever routed as the user's
\* input (process_update and the ledger of message_provenance.rs).
THEOREM OwnEditsNeverRouted == Spec => []OwnEditNeverRouted
<1>1. ProvenanceStrong => OwnEditNeverRouted
  BY DEF ProvenanceStrong
<1> QED BY <1>1, ProvenanceAlways, PTL

\* The ledger stays bounded and holds exactly one entry for every edit that may
\* still come back.
THEOREM LedgerStaysExact == Spec => []ProvenanceInv
BY StrongGivesProvenance, ProvenanceAlways, PTL

-----------------------------------------------------------------------------
(* The handle registry.  CallsInv is not inductive.  That a new handle is    *)
(* none of the old ones needs a bound on all handles in use; that there are  *)
(* at most three for each invocation needs to know which handles an          *)
(* invocation has at each stage; that a peer handle names its chat needs the *)
(* cache to name it too.                                                     *)

HasMessage == {c \in Invocations : invocation[c].message # NoHandle}
HasPeer == {c \in Invocations : invocation[c].peer # NoHandle}
HasReply == {c \in Invocations : invocation[c].reply # NoHandle}

MintedPerInvocation ==
  minted <= Cardinality(HasMessage) + Cardinality(HasPeer) + Cardinality(HasReply)

StageInv ==
  \A c \in Invocations :
    /\ invocation[c].at = "idle" => invocation[c].message = NoHandle
    /\ invocation[c].at = "peer" => invocation[c].message # NoHandle
    /\ invocation[c].at \in {"idle", "peer"} => invocation[c].peer = NoHandle
    /\ invocation[c].at \in {"idle", "peer", "reply"} => invocation[c].reply = NoHandle

MintedInv ==
  /\ \A e \in entries : e.handle <= minted
  /\ \A p \in Chats : cache[p] <= minted
  /\ \A c \in Invocations : invocation[c].peer <= minted

EditableInv == \A e \in entries : e.kind = "message" /\ e.editable => Authored(e.target)

CacheInv == \A p \in Chats : \A e \in entries : cache[p] = e.handle => e.target = p

CallsStrong ==
  /\ CallsTypeOK /\ IsFiniteSet(entries) /\ MintedPerInvocation /\ StageInv /\ MintedInv
  /\ EditableInv /\ CacheInv /\ AuthorityEnds /\ PeerHandleTrue

\* One more member of a part of a finite set.
LEMMA OneMore ==
  ASSUME NEW S, IsFiniteSet(S), NEW T, T \subseteq S, NEW c \in S, c \notin T
  PROVE  /\ Cardinality(T \cup {c}) = Cardinality(T) + 1
         /\ Cardinality(T) \in Nat /\ Cardinality(S) \in Nat
         /\ Cardinality(T) + 1 <= Cardinality(S)
<1>1. IsFiniteSet(T) /\ Cardinality(T) \in Nat /\ Cardinality(S) \in Nat
  BY FS_Subset, FS_CardinalityType
<1>2. Cardinality(T \cup {c}) = Cardinality(T) + 1
  BY <1>1, FS_AddElement
<1>3. Cardinality(T \cup {c}) <= Cardinality(S)
  BY FS_Subset
<1> QED BY <1>1, <1>2, <1>3

\* Part of a finite set.
LEMMA NoMore ==
  ASSUME NEW S, IsFiniteSet(S), NEW T, T \subseteq S
  PROVE  /\ IsFiniteSet(T) /\ Cardinality(T) \in Nat /\ Cardinality(S) \in Nat
         /\ Cardinality(T) <= Cardinality(S)
BY FS_Subset, FS_CardinalityType

\* The registry without its expired entries.
LEMMA PurgeFacts ==
  ASSUME CallsStrong
  PROVE  /\ PurgeExpired \subseteq entries /\ IsFiniteSet(PurgeExpired)
         /\ Cardinality(PurgeExpired) \in Nat /\ Cardinality(PurgeExpired) <= HandleCap
<1>1. PurgeExpired \subseteq entries
  BY DEF PurgeExpired
<1>2. Cardinality(PurgeExpired) \in Nat /\ Cardinality(entries) \in Nat /\ IsFiniteSet(PurgeExpired)
      /\ Cardinality(PurgeExpired) <= Cardinality(entries)
  BY <1>1, NoMore DEF CallsStrong
<1> QED BY <1>1, <1>2, HostCallsAssumption DEF CallsStrong, CallsTypeOK

\* While an invocation lacks a handle there is room for a new one.
LEMMA RoomToMint ==
  ASSUME CallsStrong, NEW c \in Invocations,
         c \notin HasMessage \/ c \notin HasPeer \/ c \notin HasReply
  PROVE  /\ minted \in Nat /\ minted + 1 \in Handles /\ minted + 1 # NoHandle
         /\ Cardinality(HasMessage) \in Nat /\ Cardinality(HasPeer) \in Nat
         /\ Cardinality(HasReply) \in Nat
         /\ c \notin HasMessage => Cardinality(HasMessage \cup {c}) = Cardinality(HasMessage) + 1
         /\ c \notin HasPeer => Cardinality(HasPeer \cup {c}) = Cardinality(HasPeer) + 1
         /\ c \notin HasReply => Cardinality(HasReply \cup {c}) = Cardinality(HasReply) + 1
<1>1. HasMessage \subseteq Invocations /\ HasPeer \subseteq Invocations /\ HasReply \subseteq Invocations
      /\ IsFiniteSet(Invocations)
  BY HostCallsAssumption DEF HasMessage, HasPeer, HasReply
<1>2. /\ Cardinality(HasMessage) \in Nat /\ Cardinality(HasMessage) <= Cardinality(Invocations)
      /\ Cardinality(HasPeer) \in Nat /\ Cardinality(HasPeer) <= Cardinality(Invocations)
      /\ Cardinality(HasReply) \in Nat /\ Cardinality(HasReply) <= Cardinality(Invocations)
      /\ Cardinality(Invocations) \in Nat
  BY <1>1, NoMore
<1>3. /\ c \notin HasMessage => /\ Cardinality(HasMessage \cup {c}) = Cardinality(HasMessage) + 1
                                /\ Cardinality(HasMessage) + 1 <= Cardinality(Invocations)
      /\ c \notin HasPeer => /\ Cardinality(HasPeer \cup {c}) = Cardinality(HasPeer) + 1
                             /\ Cardinality(HasPeer) + 1 <= Cardinality(Invocations)
      /\ c \notin HasReply => /\ Cardinality(HasReply \cup {c}) = Cardinality(HasReply) + 1
                              /\ Cardinality(HasReply) + 1 <= Cardinality(Invocations)
  BY <1>1, OneMore
<1>4. minted \in Nat /\ minted <= Cardinality(HasMessage) + Cardinality(HasPeer) + Cardinality(HasReply)
  BY <1>2 DEF CallsStrong, CallsTypeOK, MintedPerInvocation
<1>5. minted + 1 \in 1 .. 3 * Cardinality(Invocations)
  BY <1>2, <1>3, <1>4
<1> QED BY <1>2, <1>3, <1>4, <1>5 DEF Handles, NoHandle

\* Insert keeps the registry well-formed and bounded.
LEMMA InsertFacts ==
  ASSUME CallsStrong, minted \in Nat, minted + 1 \in Handles, ~IssueRefused,
         NEW kind \in {"peer", "message"}, NEW target, NEW editable \in BOOLEAN,
         kind = "peer" => target \in Chats /\ ~editable,
         kind = "message" => target \in Messages,
         Insert(kind, target, editable)
  PROVE  /\ entries' \subseteq Entries /\ IsFiniteSet(entries') /\ Cardinality(entries') <= HandleCap
         /\ minted' = minted + 1
         /\ \E n \in Entries : /\ entries' = PurgeExpired \cup {n}
                               /\ n.handle = minted + 1 /\ n.kind = kind
                               /\ n.target = target /\ n.editable = editable
<1> DEFINE n == [handle |-> minted + 1, kind |-> kind, target |-> target,
                 expires |-> clock + HandleTtl, editable |-> editable]
<1>1. clock + HandleTtl \in Nat
  BY HostCallsAssumption DEF CallsStrong, CallsTypeOK
<1>2. n \in Entries
  <2>1. CASE kind = "peer"
    BY <2>1, <1>1 DEF Entries
  <2>2. CASE kind = "message"
    BY <2>2, <1>1 DEF Entries
  <2> QED BY <2>1, <2>2
<1>3. entries' = PurgeExpired \cup {n} /\ minted' = minted + 1
  BY DEF Insert
<1>4. n.handle = minted + 1 /\ n.kind = kind /\ n.target = target /\ n.editable = editable
  OBVIOUS
<1> HIDE DEF n
<1>5. PurgeExpired \subseteq Entries /\ IsFiniteSet(PurgeExpired) /\ Cardinality(PurgeExpired) \in Nat
  BY PurgeFacts DEF CallsStrong, CallsTypeOK
<1>6. IsFiniteSet(entries') /\ Cardinality(entries') <= Cardinality(PurgeExpired) + 1
  <2>1. n \in PurgeExpired => entries' = PurgeExpired
    BY <1>3
  <2>2. IsFiniteSet(PurgeExpired \cup {n})
        /\ (n \notin PurgeExpired => Cardinality(PurgeExpired \cup {n}) = Cardinality(PurgeExpired) + 1)
    BY <1>5, FS_AddElement
  <2>3. CASE n \in PurgeExpired
    BY <2>1, <2>3, <1>5
  <2>4. CASE n \notin PurgeExpired
    BY <2>2, <2>4, <1>3, <1>5
  <2> QED BY <2>3, <2>4
<1>7. Cardinality(PurgeExpired) + 1 <= HandleCap
  BY <1>5, HostCallsAssumption DEF IssueRefused
<1>8. Cardinality(entries') <= HandleCap
  <2>1. Cardinality(entries') \in Nat
    BY <1>6, FS_CardinalityType
  <2> QED BY <2>1, <1>5, <1>6, <1>7, HostCallsAssumption
<1> QED BY <1>2, <1>3, <1>4, <1>5, <1>6, <1>8

CallRecords == [at : Stages, message : Handles \cup {NoHandle},
                peer : Handles \cup {NoHandle}, reply : Handles \cup {NoHandle}]

StageOK(r) ==
  /\ r.at = "idle" => r.message = NoHandle
  /\ r.at = "peer" => r.message # NoHandle
  /\ r.at \in {"idle", "peer"} => r.peer = NoHandle
  /\ r.at \in {"idle", "peer", "reply"} => r.reply = NoHandle

\* A step of one invocation that makes no handle: the registry may be purged, the
\* chat's handle used again, and what the invocation held may go to be released.
LEMMA StepWithoutMint ==
  ASSUME CallsStrong, NEW c \in Invocations, NEW r \in CallRecords, StageOK(r),
         entries' = entries \/ entries' = PurgeExpired,
         invocation' = [invocation EXCEPT ![c] = r],
         r.message = invocation[c].message, r.reply = invocation[c].reply,
         \/ r.peer = invocation[c].peer
         \/ invocation[c].peer = NoHandle /\ \E e \in entries : r.peer = e.handle /\ r.peer = cache[PeerOf[c]],
         releasing \subseteq releasing', releasing' \subseteq Handles,
         InProgress(c) => r.at \in {"peer", "reply", "running", "dropped"} \/ HeldBy(c) \subseteq releasing',
         UNCHANGED <<grant, cache, minted, clock, alive>>
  PROVE  CallsStrong'
<1>1. /\ invocation \in [Invocations -> CallRecords]
      /\ invocation'[c] = r /\ \A d \in Invocations \ {c} : invocation'[d] = invocation[d]
      /\ invocation' \in [Invocations -> CallRecords]
  BY DEF CallsStrong, CallsTypeOK, CallRecords
<1>2. entries' \subseteq entries /\ IsFiniteSet(entries') /\ Cardinality(entries') <= HandleCap
  <2>1. CASE entries' = entries
    BY <2>1 DEF CallsStrong, CallsTypeOK
  <2>2. CASE entries' = PurgeExpired
    BY <2>2, PurgeFacts
  <2> QED BY <2>1, <2>2
<1>3. CallsTypeOK'
  BY <1>1, <1>2 DEF CallsStrong, CallsTypeOK, CallRecords
<1>4. StageInv'
  BY <1>1 DEF CallsStrong, StageInv, StageOK
<1>5. PeerOf[c] \in Chats
  BY DEF Chats
<1>6. MintedInv'
  BY <1>1, <1>2, <1>5 DEF CallsStrong, MintedInv
<1>7. EditableInv' /\ CacheInv'
  BY <1>2 DEF CallsStrong, EditableInv, CacheInv
<1>8. PeerHandleTrue'
  BY <1>1, <1>2, <1>5 DEF CallsStrong, PeerHandleTrue, CacheInv
<1>9. MintedPerInvocation'
  <2>1. HasMessage' = HasMessage /\ HasReply' = HasReply
    BY <1>1 DEF HasMessage, HasReply
  <2>2. HasPeer \subseteq HasPeer' /\ HasPeer' \subseteq Invocations
    BY <1>1 DEF HasPeer
  <2>3. Cardinality(HasPeer) <= Cardinality(HasPeer') /\ Cardinality(HasPeer) \in Nat /\ Cardinality(HasPeer') \in Nat
    <3>1. IsFiniteSet(HasPeer')
      BY <2>2, NoMore, HostCallsAssumption
    <3> QED BY <3>1, <2>2, NoMore
  <2>4. Cardinality(HasMessage) \in Nat /\ Cardinality(HasReply) \in Nat
    <3>1. HasMessage \subseteq Invocations /\ HasReply \subseteq Invocations
      BY DEF HasMessage, HasReply
    <3> QED BY <3>1, NoMore, HostCallsAssumption
  <2>5. minted \in Nat /\ minted <= Cardinality(HasMessage) + Cardinality(HasPeer) + Cardinality(HasReply)
    BY <1>3 DEF CallsStrong, MintedPerInvocation, CallsTypeOK
  <2>6. minted' <= Cardinality(HasMessage) + Cardinality(HasPeer') + Cardinality(HasReply)
    BY <2>3, <2>4, <2>5
  <2> QED BY <2>1, <2>6 DEF MintedPerInvocation
<1>10. AuthorityEnds'
  <2>1. PurgeExpired' \subseteq PurgeExpired
    BY <1>2 DEF PurgeExpired
  <2>2. ASSUME NEW d \in Invocations, InProgress(d), NEW h \in HeldBy(d)
        PROVE  h \in releasing' \/ (InProgress(d)' /\ h \in HeldBy(d)')
    <3>1. CASE d # c
      BY <2>2, <3>1, <1>1 DEF InProgress, HeldBy
    <3>2. CASE d = c
      <4>1. HeldBy(c) \subseteq HeldBy(c)'
        BY <1>1 DEF HeldBy
      <4>2. InProgress(c)' \/ HeldBy(c) \subseteq releasing'
        BY <2>2, <3>2, <1>1 DEF InProgress
      <4> QED BY <2>2, <3>2, <4>1, <4>2
    <3> QED BY <3>1, <3>2
  <2> QED BY <2>1, <2>2 DEF CallsStrong, AuthorityEnds
<1> QED BY <1>2, <1>3, <1>4, <1>6, <1>7, <1>8, <1>9, <1>10 DEF CallsStrong

\* A step of one invocation that makes a handle, which the invocation now holds.
LEMMA StepWithMint ==
  ASSUME CallsStrong, NEW c \in Invocations, NEW r \in CallRecords, StageOK(r),
         minted \in Nat, minted + 1 \in Handles, ~IssueRefused,
         NEW kind \in {"peer", "message"}, NEW target, NEW editable \in BOOLEAN,
         kind = "peer" => target = PeerOf[c] /\ ~editable,
         kind = "message" => target \in Messages /\ (editable => Authored(target)),
         Insert(kind, target, editable),
         invocation' = [invocation EXCEPT ![c] = r],
         r.at \in {"peer", "reply", "running", "dropped"},
         kind = "peer" => r.peer = minted + 1, kind = "message" => r.peer = invocation[c].peer,
         HeldBy(c) \cup {minted + 1} \subseteq {r.message, r.peer, r.reply} \ {NoHandle},
         cache' = IF kind = "peer" THEN [cache EXCEPT ![PeerOf[c]] = minted + 1] ELSE cache,
         MintedPerInvocation',
         UNCHANGED <<grant, releasing, clock, alive>>
  PROVE  CallsStrong'
<1>1. /\ invocation \in [Invocations -> CallRecords]
      /\ invocation'[c] = r /\ \A d \in Invocations \ {c} : invocation'[d] = invocation[d]
      /\ invocation' \in [Invocations -> CallRecords]
  BY DEF CallsStrong, CallsTypeOK, CallRecords
<1>2. PeerOf[c] \in Chats
  BY DEF Chats
<1>3. /\ entries' \subseteq Entries /\ IsFiniteSet(entries') /\ Cardinality(entries') <= HandleCap
      /\ minted' = minted + 1
      /\ \E n \in Entries : /\ entries' = PurgeExpired \cup {n}
                            /\ n.handle = minted + 1 /\ n.kind = kind
                            /\ n.target = target /\ n.editable = editable
  BY <1>2, InsertFacts
<1>4. PICK n \in Entries : /\ entries' = PurgeExpired \cup {n}
                           /\ n.handle = minted + 1 /\ n.kind = kind
                           /\ n.target = target /\ n.editable = editable
  BY <1>3
<1>5. \A e \in entries' : e \in entries \/ e = n
  BY <1>4 DEF PurgeExpired
<1>6. /\ cache \in [Chats -> Handles \cup {NoHandle}] /\ cache' \in [Chats -> Handles \cup {NoHandle}]
      /\ \A p \in Chats : cache'[p] = cache[p] \/ (kind = "peer" /\ p = target /\ cache'[p] = minted + 1)
  BY <1>2 DEF CallsStrong, CallsTypeOK
<1>7. CallsTypeOK'
  <2>1. minted + 1 \in 0 .. 3 * Cardinality(Invocations)
    BY DEF Handles, CallsStrong, CallsTypeOK
  <2> QED BY <2>1, <1>1, <1>3, <1>6 DEF CallsStrong, CallsTypeOK, CallRecords
<1>8. StageInv'
  BY <1>1 DEF CallsStrong, StageInv, StageOK
<1>9. /\ \A e \in entries : e.handle \in Nat /\ e.handle <= minted
      /\ \A p \in Chats : cache[p] \in Nat /\ cache[p] <= minted
      /\ \A d \in Invocations : invocation[d].peer \in Nat /\ invocation[d].peer <= minted
  <2>1. \A e \in entries : e.handle \in Nat
    <3>1. entries \subseteq Entries
      BY DEF CallsStrong, CallsTypeOK
    <3>2. \A e \in Entries : e.handle \in Handles
      BY DEF Entries
    <3>3. \A h \in Handles : h \in Nat
      BY DEF Handles
    <3> QED BY <3>1, <3>2, <3>3
  <2>2. \A p \in Chats : cache[p] \in Nat
    BY <1>6 DEF Handles, NoHandle
  <2>3. \A d \in Invocations : invocation[d].peer \in Nat
    BY <1>1 DEF CallRecords, Handles, NoHandle
  <2> QED BY <2>1, <2>2, <2>3 DEF CallsStrong, MintedInv
<1>10. MintedInv'
  BY <1>1, <1>3, <1>4, <1>5, <1>6, <1>9 DEF MintedInv
<1>11. EditableInv'
  BY <1>4, <1>5 DEF CallsStrong, EditableInv
<1>12. CacheInv'
  <2> SUFFICES ASSUME NEW p \in Chats, NEW e \in entries', cache'[p] = e.handle
               PROVE  e.target = p
    BY DEF CacheInv
  <2>1. CASE e \in entries /\ cache'[p] = cache[p]
    BY <2>1 DEF CallsStrong, CacheInv
  <2>2. CASE e \in entries /\ cache'[p] = minted + 1
    <3>1. e.handle <= minted /\ e.handle = minted + 1
      BY <2>2, <1>9
    <3> QED BY <3>1
  <2>3. CASE e = n /\ cache'[p] = cache[p]
    BY <2>3, <1>4, <1>9
  <2>4. CASE e = n /\ p = target
    BY <2>4, <1>4
  <2> QED BY <2>1, <2>2, <2>3, <2>4, <1>5, <1>6
<1>13. PeerHandleTrue'
  <2> SUFFICES ASSUME NEW d \in Invocations, NEW e \in entries', invocation'[d].peer = e.handle
               PROVE  e.target = PeerOf[d]
    BY DEF PeerHandleTrue
  <2>1. invocation'[d].peer = invocation[d].peer \/ (d = c /\ kind = "peer" /\ invocation'[d].peer = minted + 1)
    BY <1>1
  <2>2. CASE e \in entries /\ invocation'[d].peer = invocation[d].peer
    BY <2>2 DEF CallsStrong, PeerHandleTrue
  <2>3. CASE e \in entries /\ invocation'[d].peer = minted + 1
    <3>1. e.handle <= minted /\ e.handle = minted + 1
      BY <2>3, <1>9
    <3> QED BY <3>1
  <2>4. CASE e = n /\ invocation'[d].peer = invocation[d].peer
    BY <2>4, <1>4, <1>9
  <2>5. CASE e = n /\ d = c /\ kind = "peer"
    BY <2>5, <1>4
  <2> QED BY <2>1, <2>2, <2>3, <2>4, <2>5, <1>5
<1>14. AuthorityEnds'
  <2>1. \A e \in PurgeExpired' : e \in PurgeExpired \/ e = n
    BY <1>4 DEF PurgeExpired
  <2>2. InProgress(c)' /\ HeldBy(c) \subseteq HeldBy(c)' /\ n.handle \in HeldBy(c)'
    BY <1>1, <1>4 DEF InProgress, HeldBy
  <2>3. \A d \in Invocations : InProgress(d) => InProgress(d)' /\ HeldBy(d) \subseteq HeldBy(d)'
    BY <1>1, <2>2 DEF InProgress, HeldBy
  <2> QED BY <2>1, <2>2, <2>3 DEF CallsStrong, AuthorityEnds
<1> QED BY <1>3, <1>7, <1>8, <1>10, <1>11, <1>12, <1>13, <1>14 DEF CallsStrong

\* The message of a command.
LEMMA CurrentMessageKeeps ==
  ASSUME CallsStrong, NEW c \in Invocations, RegisterCurrentMessage(c)
  PROVE  CallsStrong'
<1>1. /\ invocation \in [Invocations -> CallRecords] /\ invocation[c] \in CallRecords
      /\ invocation[c].at = "idle" /\ StageOK(invocation[c])
      /\ UNCHANGED <<grant, cache, releasing, clock, alive>>
  BY DEF RegisterCurrentMessage, At, CallsStrong, CallsTypeOK, CallRecords, StageInv, StageOK
<1>2. CASE IssueRefused
  <2> DEFINE r == [invocation[c] EXCEPT !.at = "ended"]
  <2>1. /\ r \in CallRecords /\ r.at = "ended" /\ r.message = invocation[c].message
        /\ r.peer = invocation[c].peer /\ r.reply = invocation[c].reply
    BY <1>1 DEF CallRecords, Stages
  <2>2. entries' = PurgeExpired /\ invocation' = [invocation EXCEPT ![c] = r] /\ UNCHANGED minted
    BY <1>2 DEF RegisterCurrentMessage
  <2> HIDE DEF r
  <2>3. StageOK(r) /\ ~InProgress(c)
    BY <2>1, <1>1 DEF StageOK, InProgress
  <2>4. releasing \subseteq releasing' /\ releasing' \subseteq Handles
    BY <1>1 DEF CallsStrong, CallsTypeOK
  <2> QED BY <1>1, <2>1, <2>2, <2>3, <2>4, StepWithoutMint
<1>3. CASE ~IssueRefused
  <2> DEFINE r == [invocation[c] EXCEPT !.at = "peer", !.message = minted + 1]
  <2>0. c \notin HasMessage
    BY <1>1 DEF StageOK, HasMessage
  <2>1. /\ minted \in Nat /\ minted + 1 \in Handles /\ minted + 1 # NoHandle
        /\ Cardinality(HasMessage) \in Nat /\ Cardinality(HasPeer) \in Nat /\ Cardinality(HasReply) \in Nat
        /\ Cardinality(HasMessage \cup {c}) = Cardinality(HasMessage) + 1
    BY <2>0, RoomToMint
  <2>2. /\ r \in CallRecords /\ r.at = "peer" /\ r.message = minted + 1
        /\ r.peer = invocation[c].peer /\ r.reply = invocation[c].reply
    BY <1>1, <2>1 DEF CallRecords, Stages
  <2>3. /\ Insert("message", <<"command", c>>, c \in Own)
        /\ invocation' = [invocation EXCEPT ![c] = r]
    BY <1>3 DEF RegisterCurrentMessage
  <2> HIDE DEF r
  <2>4. StageOK(r)
    BY <1>1, <2>1, <2>2 DEF StageOK
  <2>5. HeldBy(c) \cup {minted + 1} \subseteq {r.message, r.peer, r.reply} \ {NoHandle}
    BY <1>1, <2>1, <2>2 DEF HeldBy, StageOK
  <2>6. MintedPerInvocation'
    <3>1. HasMessage' = HasMessage \cup {c} /\ HasPeer' = HasPeer /\ HasReply' = HasReply
      BY <1>1, <2>1, <2>2, <2>3 DEF HasMessage, HasPeer, HasReply
    <3>2. minted <= Cardinality(HasMessage) + Cardinality(HasPeer) + Cardinality(HasReply)
      BY DEF CallsStrong, MintedPerInvocation
    <3>3. minted' = minted + 1
      BY <2>3 DEF Insert
    <3>4. minted' <= Cardinality(HasMessage \cup {c}) + Cardinality(HasPeer) + Cardinality(HasReply)
      BY <2>1, <3>2, <3>3
    <3> QED BY <3>1, <3>4 DEF MintedPerInvocation
  <2>7. <<"command", c>> \in Messages /\ (c \in Own) \in BOOLEAN
        /\ ((c \in Own) => Authored(<<"command", c>>))
    BY DEF Messages, Authored
  <2> QED BY <1>1, <1>3, <2>1, <2>2, <2>3, <2>4, <2>5, <2>6, <2>7, StepWithMint
<1> QED BY <1>2, <1>3

\* The chat of a command.
LEMMA PeerHandleKeeps ==
  ASSUME CallsStrong, NEW c \in Invocations, RegisterPeerHandle(c)
  PROVE  CallsStrong'
<1>1. /\ invocation \in [Invocations -> CallRecords] /\ invocation[c] \in CallRecords
      /\ invocation[c].at = "peer" /\ StageOK(invocation[c])
      /\ UNCHANGED <<grant, clock, alive>>
  BY DEF RegisterPeerHandle, At, CallsStrong, CallsTypeOK, CallRecords, StageInv, StageOK
<1>0. releasing \subseteq Handles
  BY DEF CallsStrong, CallsTypeOK
<1>2. CASE CachedPeer(PeerOf[c]) # {}
  <2>0. PICK e \in CachedPeer(PeerOf[c]) :
          invocation' = [invocation EXCEPT ![c].at = "reply", ![c].peer = e.handle]
    BY <1>2 DEF RegisterPeerHandle
  <2> DEFINE r == [invocation[c] EXCEPT !.at = "reply", !.peer = e.handle]
  <2>1. e \in entries /\ e.handle = cache[PeerOf[c]]
    BY DEF CachedPeer, PurgeExpired
  <2>2. e.handle \in Handles
    <3>1. e \in Entries
      BY <2>1 DEF CallsStrong, CallsTypeOK
    <3> QED BY <3>1 DEF Entries
  <2>3. /\ r \in CallRecords /\ r.at = "reply" /\ r.message = invocation[c].message
        /\ r.peer = e.handle /\ r.reply = invocation[c].reply
    BY <1>1, <2>2 DEF CallRecords, Stages
  <2>4. entries' = PurgeExpired /\ invocation' = [invocation EXCEPT ![c] = r]
        /\ UNCHANGED <<cache, minted, releasing>>
    BY <1>2, <2>0 DEF RegisterPeerHandle
  <2> HIDE DEF r
  <2>5. StageOK(r) /\ invocation[c].peer = NoHandle
    BY <2>3, <1>1 DEF StageOK
  <2>6. \E x \in entries : r.peer = x.handle /\ r.peer = cache[PeerOf[c]]
    BY <2>1, <2>3
  <2>7. releasing \subseteq releasing' /\ releasing' \subseteq Handles
    BY <1>0, <2>4
  <2> QED BY <1>1, <2>3, <2>4, <2>5, <2>6, <2>7, StepWithoutMint
<1>3. CASE CachedPeer(PeerOf[c]) = {} /\ IssueRefused
  <2> DEFINE r == [invocation[c] EXCEPT !.at = "ended"]
  <2>1. /\ r \in CallRecords /\ r.at = "ended" /\ r.message = invocation[c].message
        /\ r.peer = invocation[c].peer /\ r.reply = invocation[c].reply
    BY <1>1 DEF CallRecords, Stages
  <2>2. entries' = PurgeExpired /\ invocation' = [invocation EXCEPT ![c] = r]
        /\ releasing' = releasing \cup {invocation[c].message} /\ UNCHANGED <<cache, minted>>
    BY <1>3 DEF RegisterPeerHandle
  <2> HIDE DEF r
  <2>3. StageOK(r) /\ HeldBy(c) \subseteq releasing'
    BY <2>1, <2>2, <1>1 DEF StageOK, HeldBy
  <2>4. releasing \subseteq releasing' /\ releasing' \subseteq Handles
    <3>1. invocation[c].message \in Handles
      BY <1>1 DEF StageOK, CallRecords
    <3> QED BY <3>1, <2>2, <1>0
  <2> QED BY <1>1, <2>1, <2>2, <2>3, <2>4, StepWithoutMint
<1>4. CASE CachedPeer(PeerOf[c]) = {} /\ ~IssueRefused
  <2> DEFINE r == [invocation[c] EXCEPT !.at = "reply", !.peer = minted + 1]
  <2>0. c \notin HasPeer
    BY <1>1 DEF StageOK, HasPeer
  <2>1. /\ minted \in Nat /\ minted + 1 \in Handles /\ minted + 1 # NoHandle
        /\ Cardinality(HasMessage) \in Nat /\ Cardinality(HasPeer) \in Nat /\ Cardinality(HasReply) \in Nat
        /\ Cardinality(HasPeer \cup {c}) = Cardinality(HasPeer) + 1
    BY <2>0, RoomToMint
  <2>2. /\ r \in CallRecords /\ r.at = "reply" /\ r.message = invocation[c].message
        /\ r.peer = minted + 1 /\ r.reply = invocation[c].reply
    BY <1>1, <2>1 DEF CallRecords, Stages
  <2>3. /\ Insert("peer", PeerOf[c], FALSE)
        /\ invocation' = [invocation EXCEPT ![c] = r]
        /\ cache' = [cache EXCEPT ![PeerOf[c]] = minted + 1] /\ UNCHANGED releasing
    BY <1>4 DEF RegisterPeerHandle
  <2> HIDE DEF r
  <2>4. StageOK(r)
    BY <1>1, <2>1, <2>2 DEF StageOK
  <2>5. HeldBy(c) \cup {minted + 1} \subseteq {r.message, r.peer, r.reply} \ {NoHandle}
    BY <1>1, <2>1, <2>2 DEF HeldBy, StageOK
  <2>6. MintedPerInvocation'
    <3>1. HasMessage' = HasMessage /\ HasPeer' = HasPeer \cup {c} /\ HasReply' = HasReply
      BY <1>1, <2>1, <2>2, <2>3 DEF HasMessage, HasPeer, HasReply
    <3>2. minted <= Cardinality(HasMessage) + Cardinality(HasPeer) + Cardinality(HasReply)
      BY DEF CallsStrong, MintedPerInvocation
    <3>3. minted' = minted + 1
      BY <2>3 DEF Insert
    <3>4. minted' <= Cardinality(HasMessage) + Cardinality(HasPeer \cup {c}) + Cardinality(HasReply)
      BY <2>1, <3>2, <3>3
    <3> QED BY <3>1, <3>4 DEF MintedPerInvocation
  <2> QED BY <1>1, <1>4, <2>1, <2>2, <2>3, <2>4, <2>5, <2>6, StepWithMint
<1> QED BY <1>2, <1>3, <1>4

\* The replied message: a handle without authority, or none.
LEMMA ReplyMessageKeeps ==
  ASSUME CallsStrong, NEW c \in Invocations, RegisterReplyMessage(c)
  PROVE  CallsStrong'
<1>1. /\ invocation \in [Invocations -> CallRecords] /\ invocation[c] \in CallRecords
      /\ invocation[c].at = "reply" /\ StageOK(invocation[c])
      /\ UNCHANGED <<grant, cache, releasing, clock, alive>>
  BY DEF RegisterReplyMessage, At, CallsStrong, CallsTypeOK, CallRecords, StageInv, StageOK
<1>2. CASE ~(c \in Replied /\ grant.read /\ ~IssueRefused)
  <2> DEFINE r == [invocation[c] EXCEPT !.at = "running"]
  <2>1. /\ r \in CallRecords /\ r.at = "running" /\ r.message = invocation[c].message
        /\ r.peer = invocation[c].peer /\ r.reply = invocation[c].reply
    BY <1>1 DEF CallRecords, Stages
  <2>2. (entries' = entries \/ entries' = PurgeExpired)
        /\ invocation' = [invocation EXCEPT ![c] = r] /\ UNCHANGED minted
    BY <1>2 DEF RegisterReplyMessage
  <2> HIDE DEF r
  <2>3. StageOK(r)
    BY <2>1, <1>1 DEF StageOK
  <2>4. releasing \subseteq releasing' /\ releasing' \subseteq Handles
    BY <1>1 DEF CallsStrong, CallsTypeOK
  <2> QED BY <1>1, <2>1, <2>2, <2>3, <2>4, StepWithoutMint
<1>3. CASE c \in Replied /\ grant.read /\ ~IssueRefused
  <2> DEFINE r == [invocation[c] EXCEPT !.at = "running", !.reply = minted + 1]
  <2>0. c \notin HasReply
    BY <1>1 DEF StageOK, HasReply
  <2>1. /\ minted \in Nat /\ minted + 1 \in Handles /\ minted + 1 # NoHandle
        /\ Cardinality(HasMessage) \in Nat /\ Cardinality(HasPeer) \in Nat /\ Cardinality(HasReply) \in Nat
        /\ Cardinality(HasReply \cup {c}) = Cardinality(HasReply) + 1
    BY <2>0, RoomToMint
  <2>2. /\ r \in CallRecords /\ r.at = "running" /\ r.message = invocation[c].message
        /\ r.peer = invocation[c].peer /\ r.reply = minted + 1
    BY <1>1, <2>1 DEF CallRecords, Stages
  <2>3. /\ Insert("message", <<"reply", c>>, FALSE)
        /\ invocation' = [invocation EXCEPT ![c] = r]
    BY <1>3 DEF RegisterReplyMessage, ReplyEditable
  <2> HIDE DEF r
  <2>4. StageOK(r)
    BY <1>1, <2>1, <2>2 DEF StageOK
  <2>5. HeldBy(c) \cup {minted + 1} \subseteq {r.message, r.peer, r.reply} \ {NoHandle}
    BY <1>1, <2>1, <2>2 DEF HeldBy, StageOK
  <2>6. MintedPerInvocation'
    <3>1. HasMessage' = HasMessage /\ HasPeer' = HasPeer /\ HasReply' = HasReply \cup {c}
      BY <1>1, <2>1, <2>2, <2>3 DEF HasMessage, HasPeer, HasReply
    <3>2. minted <= Cardinality(HasMessage) + Cardinality(HasPeer) + Cardinality(HasReply)
      BY DEF CallsStrong, MintedPerInvocation
    <3>3. minted' = minted + 1
      BY <2>3 DEF Insert
    <3>4. minted' <= Cardinality(HasMessage) + Cardinality(HasPeer) + Cardinality(HasReply \cup {c})
      BY <2>1, <3>2, <3>3
    <3> QED BY <3>1, <3>4 DEF MintedPerInvocation
  <2>7. <<"reply", c>> \in Messages
    BY DEF Messages
  <2> QED BY <1>1, <1>3, <2>1, <2>2, <2>3, <2>4, <2>5, <2>6, <2>7, StepWithMint
<1> QED BY <1>2, <1>3

\* An event: authority over an outgoing message, for a module that may delete.
LEMMA DispatchEventKeeps ==
  ASSUME CallsStrong, NEW c \in Invocations, DispatchEvent(c)
  PROVE  CallsStrong'
<1>1. /\ invocation \in [Invocations -> CallRecords] /\ invocation[c] \in CallRecords
      /\ invocation[c].at = "idle" /\ StageOK(invocation[c])
      /\ UNCHANGED <<grant, cache, releasing, clock, alive>>
  BY DEF DispatchEvent, At, CallsStrong, CallsTypeOK, CallRecords, StageInv, StageOK
<1>2. CASE ~(c \in Own /\ grant.delete /\ ~IssueRefused)
  <2> DEFINE r == [invocation[c] EXCEPT !.at = "running"]
  <2>1. /\ r \in CallRecords /\ r.at = "running" /\ r.message = invocation[c].message
        /\ r.peer = invocation[c].peer /\ r.reply = invocation[c].reply
    BY <1>1 DEF CallRecords, Stages
  <2>2. (entries' = entries \/ entries' = PurgeExpired)
        /\ invocation' = [invocation EXCEPT ![c] = r] /\ UNCHANGED minted
    BY <1>2 DEF DispatchEvent
  <2> HIDE DEF r
  <2>3. StageOK(r)
    BY <2>1, <1>1 DEF StageOK
  <2>4. releasing \subseteq releasing' /\ releasing' \subseteq Handles
    BY <1>1 DEF CallsStrong, CallsTypeOK
  <2> QED BY <1>1, <2>1, <2>2, <2>3, <2>4, StepWithoutMint
<1>3. CASE c \in Own /\ grant.delete /\ ~IssueRefused
  <2> DEFINE r == [invocation[c] EXCEPT !.at = "running", !.message = minted + 1]
  <2>0. c \notin HasMessage
    BY <1>1 DEF StageOK, HasMessage
  <2>1. /\ minted \in Nat /\ minted + 1 \in Handles /\ minted + 1 # NoHandle
        /\ Cardinality(HasMessage) \in Nat /\ Cardinality(HasPeer) \in Nat /\ Cardinality(HasReply) \in Nat
        /\ Cardinality(HasMessage \cup {c}) = Cardinality(HasMessage) + 1
    BY <2>0, RoomToMint
  <2>2. /\ r \in CallRecords /\ r.at = "running" /\ r.message = minted + 1
        /\ r.peer = invocation[c].peer /\ r.reply = invocation[c].reply
    BY <1>1, <2>1 DEF CallRecords, Stages
  <2>3. /\ Insert("message", <<"command", c>>, TRUE)
        /\ invocation' = [invocation EXCEPT ![c] = r]
    BY <1>3 DEF DispatchEvent
  <2> HIDE DEF r
  <2>4. StageOK(r)
    BY <1>1, <2>1, <2>2 DEF StageOK
  <2>5. HeldBy(c) \cup {minted + 1} \subseteq {r.message, r.peer, r.reply} \ {NoHandle}
    BY <1>1, <2>1, <2>2 DEF HeldBy, StageOK
  <2>6. MintedPerInvocation'
    <3>1. HasMessage' = HasMessage \cup {c} /\ HasPeer' = HasPeer /\ HasReply' = HasReply
      BY <1>1, <2>1, <2>2, <2>3 DEF HasMessage, HasPeer, HasReply
    <3>2. minted <= Cardinality(HasMessage) + Cardinality(HasPeer) + Cardinality(HasReply)
      BY DEF CallsStrong, MintedPerInvocation
    <3>3. minted' = minted + 1
      BY <2>3 DEF Insert
    <3>4. minted' <= Cardinality(HasMessage \cup {c}) + Cardinality(HasPeer) + Cardinality(HasReply)
      BY <2>1, <3>2, <3>3
    <3> QED BY <3>1, <3>4 DEF MintedPerInvocation
  <2>7. <<"command", c>> \in Messages /\ Authored(<<"command", c>>)
    BY <1>3 DEF Messages, Authored
  <2> QED BY <1>1, <1>3, <2>1, <2>2, <2>3, <2>4, <2>5, <2>6, <2>7, StepWithMint
<1> QED BY <1>2, <1>3

\* The end of an invocation gives up what it held; a dropped one keeps it.
LEMMA EndKeeps ==
  ASSUME CallsStrong, NEW c \in Invocations, InvocationEnds(c) \/ InvocationDropped(c)
  PROVE  CallsStrong'
<1>1. /\ invocation \in [Invocations -> CallRecords] /\ invocation[c] \in CallRecords
      /\ invocation[c].at = "running" /\ StageOK(invocation[c])
      /\ UNCHANGED <<grant, entries, cache, minted, clock, alive>>
  BY DEF InvocationEnds, InvocationDropped, CallsStrong, CallsTypeOK, CallRecords, StageInv, StageOK
<1>0. releasing \subseteq Handles
  BY DEF CallsStrong, CallsTypeOK
<1>2. PICK at \in {"ended", "dropped"} :
        /\ invocation' = [invocation EXCEPT ![c].at = at]
        /\ at = "ended" => releasing' = releasing \cup HeldBy(c)
        /\ at = "dropped" => releasing' = releasing
  BY DEF InvocationEnds, InvocationDropped, Released
<1> DEFINE r == [invocation[c] EXCEPT !.at = at]
<1>3. /\ r \in CallRecords /\ r.at = at /\ r.message = invocation[c].message
      /\ r.peer = invocation[c].peer /\ r.reply = invocation[c].reply
  BY <1>1 DEF CallRecords, Stages
<1>4. invocation' = [invocation EXCEPT ![c] = r]
  BY <1>2
<1> HIDE DEF r
<1>5. StageOK(r)
  BY <1>3, <1>1 DEF StageOK
<1>6. HeldBy(c) \subseteq Handles
  BY <1>1 DEF HeldBy, CallRecords
<1>7. releasing \subseteq releasing' /\ releasing' \subseteq Handles
  BY <1>0, <1>2, <1>6
<1>8. r.at \in {"peer", "reply", "running", "dropped"} \/ HeldBy(c) \subseteq releasing'
  BY <1>2, <1>3
<1> QED BY <1>1, <1>3, <1>4, <1>5, <1>7, <1>8, StepWithoutMint

\* The registry loses entries, and no invocation changes.
LEMMA RegistryShrinks ==
  ASSUME CallsStrong, entries' \subseteq entries,
         cache' \in [Chats -> Handles \cup {NoHandle}],
         \A p \in Chats : cache'[p] \in {cache[p], NoHandle},
         releasing' \subseteq releasing, \A e \in entries' : e.handle \in releasing => e.handle \in releasing',
         clock' \in 0 .. MaxClock, clock <= clock', alive' \in BOOLEAN,
         UNCHANGED <<grant, minted, invocation>>
  PROVE  CallsStrong'
<1>1. IsFiniteSet(entries') /\ Cardinality(entries') <= HandleCap
  <2>1. IsFiniteSet(entries') /\ Cardinality(entries') \in Nat /\ Cardinality(entries) \in Nat
        /\ Cardinality(entries') <= Cardinality(entries)
    BY NoMore DEF CallsStrong
  <2> QED BY <2>1, HostCallsAssumption DEF CallsStrong, CallsTypeOK
<1>2. CallsTypeOK'
  BY <1>1 DEF CallsStrong, CallsTypeOK
<1>3. StageInv' /\ MintedPerInvocation' /\ EditableInv' /\ PeerHandleTrue'
  BY DEF CallsStrong, StageInv, MintedPerInvocation, HasMessage, HasPeer, HasReply, EditableInv, PeerHandleTrue
<1>4. \A e \in entries : e.handle \in Handles /\ e.handle # NoHandle
  <2>1. \A e \in Entries : e.handle \in Handles
    BY DEF Entries
  <2>2. \A h \in Handles : h # NoHandle
    BY DEF Handles, NoHandle
  <2> QED BY <2>1, <2>2 DEF CallsStrong, CallsTypeOK
<1>5. CacheInv'
  BY <1>4 DEF CallsStrong, CacheInv
<1>6. MintedInv'
  <2>1. NoHandle <= minted
    BY DEF NoHandle, CallsStrong, CallsTypeOK
  <2> QED BY <2>1 DEF CallsStrong, MintedInv
<1>7. AuthorityEnds'
  <2>1. PurgeExpired' \subseteq PurgeExpired
    <3>1. \A e \in entries : e.expires \in Nat
      <4>1. \A e \in Entries : e.expires \in Nat
        BY DEF Entries
      <4> QED BY <4>1 DEF CallsStrong, CallsTypeOK
    <3>2. clock \in Nat /\ clock' \in Nat
      BY HostCallsAssumption DEF CallsStrong, CallsTypeOK
    <3>3. \A e \in entries : e.expires > clock' => e.expires > clock
      BY <3>1, <3>2
    <3> QED BY <3>3 DEF PurgeExpired
  <2>2. PurgeExpired' \subseteq entries'
    BY DEF PurgeExpired
  <2> QED BY <2>1, <2>2 DEF CallsStrong, AuthorityEnds, InProgress, HeldBy
<1> QED BY <1>1, <1>2, <1>3, <1>5, <1>6, <1>7 DEF CallsStrong

\* Releases, the end of the process, time and host calls.
LEMMA RegistryKeeps ==
  ASSUME CallsStrong, ReleaseHandle \/ ProcessEnds \/ Tick \/ HostCall
  PROVE  CallsStrong'
<1>t. /\ cache \in [Chats -> Handles \cup {NoHandle}] /\ clock \in 0 .. MaxClock /\ MaxClock \in Nat
      /\ alive \in BOOLEAN /\ clock <= clock
  BY HostCallsAssumption DEF CallsStrong, CallsTypeOK
<1>1. CASE ReleaseHandle
  <2>1. PICK h \in releasing : Release(h) /\ releasing' = releasing \ {h}
                               /\ UNCHANGED <<grant, minted, invocation, clock, alive>>
    BY <1>1 DEF ReleaseHandle
  <2>2. entries' \subseteq entries /\ \A e \in entries' : e.handle # h
    BY <2>1 DEF Release
  <2>3. cache' \in [Chats -> Handles \cup {NoHandle}] /\ \A p \in Chats : cache'[p] \in {cache[p], NoHandle}
    BY <2>1, <1>t DEF Release
  <2> QED BY <1>t, <2>1, <2>2, <2>3, RegistryShrinks
<1>2. CASE ProcessEnds
  <2>1. cache' \in [Chats -> Handles \cup {NoHandle}] /\ \A p \in Chats : cache'[p] \in {cache[p], NoHandle}
    BY <1>2 DEF ProcessEnds
  <2> QED BY <1>t, <1>2, <2>1, RegistryShrinks DEF ProcessEnds
<1>3. CASE Tick
  <2>1. clock' \in 0 .. MaxClock /\ clock <= clock'
    BY <1>3, <1>t DEF Tick
  <2> QED BY <1>t, <1>3, <2>1, RegistryShrinks DEF Tick
<1>4. CASE HostCall
  <2>1. entries' \subseteq entries
    BY <1>4 DEF HostCall, PurgeExpired
  <2> QED BY <1>t, <1>4, <2>1, RegistryShrinks DEF HostCall
<1> QED BY <1>1, <1>2, <1>3, <1>4

\* The first state.
LEMMA CallsInitially ==
  ASSUME CallsInit
  PROVE  CallsStrong
<1>1. IsFiniteSet({}) /\ Cardinality({}) = 0
  BY FS_EmptySet
<1>2. Cardinality(Invocations) \in Nat
  BY FS_CardinalityType, HostCallsAssumption
<1>3. invocation \in [Invocations -> CallRecords] /\ \A c \in Invocations : StageOK(invocation[c])
  BY DEF CallsInit, CallRecords, StageOK, Stages
<1>4. CallsTypeOK
  BY <1>1, <1>2, <1>3, HostCallsAssumption DEF CallsInit, CallsTypeOK, CallRecords
<1>5. StageInv
  BY <1>3 DEF StageInv, StageOK
<1>6. MintedPerInvocation
  <2>1. HasMessage = {} /\ HasPeer = {} /\ HasReply = {}
    BY DEF CallsInit, HasMessage, HasPeer, HasReply
  <2> QED BY <1>1, <2>1 DEF CallsInit, MintedPerInvocation
<1>7. MintedInv
  BY DEF CallsInit, MintedInv, NoHandle
<1> QED BY <1>1, <1>4, <1>5, <1>6, <1>7 DEF CallsInit, CallsStrong, EditableInv, CacheInv,
           AuthorityEnds, PurgeExpired, PeerHandleTrue

\* What an invocation may act on follows from what is editable.
LEMMA CallsImplied ==
  ASSUME CallsStrong
  PROVE  CallsInv
<1>1. \A h : \A e \in ResolveMessage(h) : Authored(e.target)
  BY DEF ResolveMessage, PurgeExpired, CallsStrong, EditableInv
<1>2. \A h : HostExecute(h) \subseteq ResolveMessage(h)
  BY DEF HostExecute, ExecuteEdit, ExecuteDelete, ExecuteDeleteInvoker, ExecuteInlineForm
<1> QED BY <1>1, <1>2 DEF CallsStrong, CallsInv, OwnMessagesOnly

\* Whatever invocations run concurrently, are dropped, end or meet a full registry,
\* a handle gives authority over the owner's messages only, ends with its
\* invocation and names the chat it was issued for (V6HandleRegistry, V6HostExecutor).
THEOREM HandlesCarryTheirAuthority == CallsSpec => []CallsInv
<1>1. CallsInit => CallsStrong
  BY CallsInitially
<1>2. CallsStrong /\ [CallsNext]_callVars => CallsStrong'
  <2> SUFFICES ASSUME CallsStrong, [CallsNext]_callVars
               PROVE  CallsStrong'
    OBVIOUS
  <2>1. CASE UNCHANGED callVars
    BY <2>1 DEF callVars, CallsStrong, CallsTypeOK, MintedPerInvocation, HasMessage, HasPeer, HasReply,
       StageInv, MintedInv, EditableInv, CacheInv, AuthorityEnds, PurgeExpired, InProgress, HeldBy,
       PeerHandleTrue
  <2>2. CASE CallsNext
    BY <2>2, CurrentMessageKeeps, PeerHandleKeeps, ReplyMessageKeeps, DispatchEventKeeps, EndKeeps,
       RegistryKeeps DEF CallsNext
  <2> QED BY <2>1, <2>2
<1>3. CallsStrong => CallsInv
  BY CallsImplied
<1> QED BY <1>1, <1>2, <1>3, PTL DEF CallsSpec

-----------------------------------------------------------------------------
(* The companion bot.  BotInv is not inductive: that the updates handled are *)
(* consecutive needs Telegram to have kept every update that the offset does *)
(* not confirm, and that no menu outlives its call needs to know that an     *)
(* answer, which lets a call succeed, has unstaged its menu.                 *)

\* Telegram's queue ends with the newest update, and holds all that was not confirmed.
QueueInv ==
  /\ Len(queue) <= sent
  /\ \A i \in DOMAIN queue : queue[i].id = sent - Len(queue) + i
  /\ offset # FirstOffset => sent - Len(queue) < offset

\* The updates handled and the batch in hand lead up to the offset, from the newest at the start on.
PollInv ==
  /\ \A i \in DOMAIN batch : batch[i].id = offset - Len(batch) + i - 1
  /\ \A i \in DOMAIN handled : handled[i] = offset - Len(batch) - Len(handled) + i - 1
  /\ offset = FirstOffset => handled = <<>> /\ batch = <<>>
  /\ offset # FirstOffset => offset - Len(batch) - Len(handled) >= born.sent

\* Only a call that was made has queries, answers and a staged menu; an answer unstages it.
CallInv ==
  /\ \A i \in DOMAIN queue : form[queue[i].form].at # "idle"
  /\ \A i \in DOMAIN batch : form[batch[i].form].at # "idle"
  /\ \A f \in Forms : menu[f] = "shown" => form[f].at # "idle"
  /\ \A a \in answers : form[a.form].at # "idle" /\ \A e \in staged : e.form # a.form
  /\ \A e \in staged : form[e.form].at # "sending"

\* A ring holds menus of its own module.
RingInv == \A m \in Mods : \A i \in DOMAIN pubs[m] : ownerOf[pubs[m][i]] = m

BotStrong == BotTypeOK /\ StagedIsAwaited /\ QueueInv /\ PollInv /\ CallInv /\ RingInv

\* A set with one more element.
LEMMA WithOneMore ==
  ASSUME NEW S, IsFiniteSet(S), NEW x
  PROVE  IsFiniteSet(S \cup {x}) /\ Cardinality(S \cup {x}) \in Nat /\ Cardinality(S \cup {x}) <= Cardinality(S) + 1
<1>1. Cardinality(S) \in Nat
  BY FS_CardinalityType
<1>2. CASE x \in S
  <2>1. S \cup {x} = S
    BY <1>2
  <2>2. IsFiniteSet(S \cup {x}) /\ Cardinality(S \cup {x}) = Cardinality(S)
    BY <2>1, Zenon
  <2> QED BY <1>1, <2>2
<1>3. CASE x \notin S
  <2>1. IsFiniteSet(S \cup {x}) /\ Cardinality(S \cup {x}) = Cardinality(S) + 1
    BY <1>3, FS_AddElement
  <2> QED BY <1>1, <2>1
<1> QED BY <1>2, <1>3

\* InlineMenuRegistry::insert keeps the registry within its bound, and adds one menu to some of the
\* old ones.
LEMMA StagingFacts ==
  ASSUME BotTypeOK, NEW f \in Forms
  PROVE  /\ RegistryInsert(f) \subseteq staged \cup {[form |-> f, fresh |-> TRUE, inserted |-> Instant]}
         /\ RegistryInsert(f) \subseteq [form : Forms, fresh : BOOLEAN, inserted : Nat]
         /\ IsFiniteSet(RegistryInsert(f)) /\ Cardinality(RegistryInsert(f)) <= MenuCap
<1> DEFINE new == [form |-> f, fresh |-> TRUE, inserted |-> Instant]
           kept == EvictOldest(Fresh)
<1>1. MenuCap \in Nat \ {0} /\ IsFiniteSet(Forms)
  BY BotAssumption
<1>2. Instant \in Nat
  <2>1. {g \in Forms : form[g].at # "idle"} \subseteq Forms
    OBVIOUS
  <2> QED BY <1>1, <2>1, FS_Subset, FS_CardinalityType DEF Instant
<1>3. staged \subseteq [form : Forms, fresh : BOOLEAN, inserted : Nat] /\ IsFiniteSet(staged)
      /\ Cardinality(staged) <= MenuCap
  BY DEF BotTypeOK
<1>4. Fresh \subseteq staged /\ IsFiniteSet(Fresh) /\ Cardinality(Fresh) \in Nat /\ Cardinality(Fresh) <= MenuCap
  <2>1. Fresh \subseteq staged
    BY DEF Fresh
  <2> QED BY <1>1, <1>3, <2>1, FS_Subset, FS_CardinalityType
<1>5. kept \subseteq Fresh /\ IsFiniteSet(kept) /\ Cardinality(kept) \in Nat /\ Cardinality(kept) < MenuCap
  <2>1. CASE Cardinality(Fresh) >= MenuCap
    <3>1. Fresh # {}
      BY <1>1, <2>1, FS_EmptySet
    <3> DEFINE T == {e.inserted : e \in Fresh}
    <3>2. T \in SUBSET Nat /\ T # {}
      BY <1>3, <1>4, <3>1
    <3>3. PICK x \in T : \A y \in T : x <= y
      <4> HIDE DEF T
      <4> QED BY <3>2, LeastNatural
    <3>4. \E e \in Fresh : \A d \in Fresh : e.inserted <= d.inserted
      BY <3>3
    <3>5. Oldest(Fresh) \in Fresh
      BY <3>4 DEF Oldest
    <3>6. kept = Fresh \ {Oldest(Fresh)}
      BY <2>1 DEF EvictOldest
    <3>7. IsFiniteSet(kept) /\ Cardinality(kept) = Cardinality(Fresh) - 1
      BY <1>4, <3>5, <3>6, FS_RemoveElement
    <3> HIDE DEF kept, T
    <3> QED BY <1>1, <1>4, <3>1, <3>6, <3>7, FS_CardinalityType, <2>1
  <2>2. CASE ~(Cardinality(Fresh) >= MenuCap)
    BY <1>1, <1>4, <2>2 DEF EvictOldest
  <2> QED BY <2>1, <2>2
<1>6. RegistryInsert(f) = kept \cup {new}
  BY DEF RegistryInsert
<1>7. new \in [form : Forms, fresh : BOOLEAN, inserted : Nat]
  BY <1>2
<1> HIDE DEF kept, new
<1>8. IsFiniteSet(kept \cup {new}) /\ Cardinality(kept \cup {new}) <= Cardinality(kept) + 1
  BY <1>5, WithOneMore
<1>9. Cardinality(kept \cup {new}) \in Nat
  BY <1>8, FS_CardinalityType
<1>10. IsFiniteSet(kept \cup {new}) /\ Cardinality(kept \cup {new}) <= MenuCap
  BY <1>1, <1>5, <1>8, <1>9
<1> QED BY <1>3, <1>4, <1>5, <1>6, <1>7, <1>10 DEF new

\* InlineMenuRegistry::take removes at most.
LEMMA UnstagingFacts ==
  ASSUME BotTypeOK, NEW f
  PROVE  /\ RegistryTake(f) \subseteq staged /\ \A e \in RegistryTake(f) : e.form # f
         /\ RegistryTake(f) \subseteq [form : Forms, fresh : BOOLEAN, inserted : Nat]
         /\ IsFiniteSet(RegistryTake(f)) /\ Cardinality(RegistryTake(f)) <= MenuCap
<1>1. RegistryTake(f) \subseteq staged /\ \A e \in RegistryTake(f) : e.form # f
  BY DEF RegistryTake
<1>2. /\ IsFiniteSet(staged) /\ Cardinality(staged) <= MenuCap /\ MenuCap \in Nat
      /\ staged \subseteq [form : Forms, fresh : BOOLEAN, inserted : Nat]
  BY BotAssumption DEF BotTypeOK
<1>3. IsFiniteSet(RegistryTake(f)) /\ Cardinality(RegistryTake(f)) <= Cardinality(staged)
  BY <1>1, <1>2, FS_Subset
<1>4. Cardinality(RegistryTake(f)) \in Nat /\ Cardinality(staged) \in Nat
  BY <1>2, <1>3, FS_CardinalityType
<1> QED BY <1>1, <1>2, <1>3, <1>4

\* An update for the bot joins Telegram's queue.
LEMMA EnqueueFacts ==
  ASSUME BotStrong, NEW u, Enqueue(u), [u EXCEPT !.id = sent + 1] \in BotUpdates,
         [u EXCEPT !.id = sent + 1].id = sent + 1,
         form[[u EXCEPT !.id = sent + 1].form].at # "idle" \/ form'[[u EXCEPT !.id = sent + 1].form].at # "idle",
         \A f \in Forms : form[f].at # "idle" => form'[f].at # "idle",
         UNCHANGED <<offset, batch, handled, born>>
  PROVE  /\ queue' \in Seq(BotUpdates) /\ sent' \in Nat /\ sent' = sent + 1 /\ offset' \in -1 .. sent' + 1
         /\ born' \in [life : 1 .. MaxLives, sent : 0 .. sent']
         /\ QueueInv' /\ PollInv'
         /\ \A i \in DOMAIN queue' : form'[queue'[i].form].at # "idle"
<1> DEFINE v == [u EXCEPT !.id = sent + 1]
           n == Len(queue)
<1>1. queue \in Seq(BotUpdates) /\ sent \in Nat /\ offset \in -1 .. sent + 1 /\ born \in [life : 1 .. MaxLives, sent : 0 .. sent]
  BY DEF BotStrong, BotTypeOK
<1>2. queue' = Append(queue, v) /\ sent' = sent + 1
  BY DEF Enqueue
<1> HIDE DEF v
<1>3. v \in BotUpdates /\ v.id = sent + 1
  BY DEF v
<1>4. /\ n \in Nat /\ DOMAIN queue = 1 .. n /\ queue' \in Seq(BotUpdates) /\ Len(queue') = n + 1 /\ DOMAIN queue' = 1 .. n + 1
      /\ queue'[n + 1] = v /\ \A i \in 1 .. n : queue'[i] = queue[i]
  BY <1>1, <1>2, <1>3, AppendProperties, LenProperties
<1>5. n <= sent /\ (\A i \in DOMAIN queue : queue[i].id = sent - n + i) /\ (offset # FirstOffset => sent - n < offset)
  BY DEF BotStrong, QueueInv
<1> HIDE DEF n
<1>6. QueueInv'
  <2>1. ASSUME NEW i \in DOMAIN queue'
        PROVE  queue'[i].id = sent' - Len(queue') + i
    <3>1. CASE i = n + 1
      BY <1>1, <1>2, <1>3, <1>4, <3>1
    <3>2. CASE i # n + 1
      BY <1>1, <1>2, <1>4, <1>5, <3>2
    <3> QED BY <3>1, <3>2
  <2> QED BY <1>1, <1>2, <1>4, <1>5, <2>1 DEF QueueInv
<1>7. PollInv'
  BY DEF BotStrong, PollInv
<1>8. ASSUME NEW i \in DOMAIN queue'
      PROVE  form'[queue'[i].form].at # "idle"
  <2>1. CASE i = n + 1
    <3>1. queue'[i] = v /\ v.form \in Forms
      BY <1>3, <1>4, <2>1 DEF BotUpdates
    <3> QED BY <3>1 DEF v
  <2>2. CASE i # n + 1
    <3>1. i \in DOMAIN queue /\ queue'[i] = queue[i]
      BY <1>4, <2>2
    <3>2. queue[i] \in BotUpdates
      BY <1>1, <3>1, ElementOfSeq
    <3>3. queue[i].form \in Forms
      BY <3>2 DEF BotUpdates
    <3>4. form[queue[i].form].at # "idle"
      BY <3>1 DEF BotStrong, CallInv
    <3> QED BY <3>1, <3>3, <3>4
  <2> QED BY <2>1, <2>2
<1>9. offset' \in -1 .. sent' + 1 /\ born' \in [life : 1 .. MaxLives, sent : 0 .. sent']
  BY <1>1, <1>2
<1> QED BY <1>1, <1>2, <1>4, <1>6, <1>7, <1>8, <1>9

\* Updates of calls that were made stay such updates.
LEMMA KnownStay ==
  ASSUME NEW s \in Seq(BotUpdates), \A i \in DOMAIN s : form[s[i].form].at # "idle",
         \A f \in Forms : form[f].at # "idle" => form'[f].at # "idle"
  PROVE  \A i \in DOMAIN s : form'[s[i].form].at # "idle"
<1> SUFFICES ASSUME NEW i \in DOMAIN s PROVE form'[s[i].form].at # "idle"
  OBVIOUS
<1>1. s[i] \in BotUpdates
  BY ElementOfSeq
<1>2. s[i].form \in Forms
  BY <1>1 DEF BotUpdates
<1> QED BY <1>2

\* What a poll leaves Telegram with: a tail of its queue.
LEMMA KeptFacts ==
  ASSUME BotStrong
  PROVE  /\ Kept \in Seq(BotUpdates) /\ Len(Kept) <= Len(queue)
         /\ \A i \in DOMAIN Kept : Kept[i].id = sent - Len(Kept) + i
         /\ \A i \in DOMAIN Kept : \E j \in DOMAIN queue : Kept[i] = queue[j]
         /\ offset # FirstOffset => Len(Kept) = sent - offset + 1
         /\ offset = FirstOffset => Len(Kept) <= 1
<1> DEFINE n == Len(queue)
<1>1. queue \in Seq(BotUpdates) /\ sent \in Nat /\ offset \in -1 .. sent + 1
  BY DEF BotStrong, BotTypeOK
<1>2. n \in Nat /\ DOMAIN queue = 1 .. n
  BY <1>1, LenProperties
<1>3. n <= sent /\ (\A i \in 1 .. n : queue[i].id = sent - n + i) /\ (offset # -1 => sent - n < offset)
  BY <1>2 DEF BotStrong, QueueInv, FirstOffset
<1>4. CASE offset = -1 /\ queue = <<>>
  <2>1. Kept = <<>>
    BY <1>4 DEF Kept
  <2>2. Len(Kept) = 0 /\ DOMAIN Kept = {} /\ Kept \in Seq(BotUpdates)
    BY <2>1
  <2>3. offset = FirstOffset /\ 0 <= Len(queue)
    BY <1>2, <1>4 DEF FirstOffset
  <2>4. \A i \in DOMAIN Kept : FALSE
    BY <2>2, Zenon
  <2> QED BY <2>2, <2>3, <2>4
<1>5. CASE offset = -1 /\ queue # <<>>
  <2>1. n # 0
    BY <1>1, <1>5, EmptySeq
  <2>2. Kept = <<queue[n]>> /\ Len(Kept) = 1 /\ DOMAIN Kept = {1} /\ Kept[1] = queue[n]
    BY <1>5 DEF Kept, Last
  <2>3. queue[n] \in BotUpdates /\ n \in DOMAIN queue
    BY <1>1, <1>2, <2>1, ElementOfSeq
  <2>4. Kept \in Seq(BotUpdates)
    BY <2>2, <2>3
  <2>5. queue[n].id = sent
    BY <1>1, <1>2, <1>3, <2>1
  <2>6. \A i \in DOMAIN Kept : i = 1 /\ Kept[i] = queue[n]
    BY <2>2
  <2> HIDE DEF n
  <2>7. \A i \in DOMAIN Kept : Kept[i].id = sent - Len(Kept) + i
    BY <1>1, <2>2, <2>5, <2>6
  <2>8. \A i \in DOMAIN Kept : \E j \in DOMAIN queue : Kept[i] = queue[j]
    BY <2>3, <2>6
  <2>9. offset = FirstOffset /\ Len(Kept) <= n
    BY <1>2, <1>5, <2>1, <2>2 DEF FirstOffset
  <2> QED BY <2>2, <2>4, <2>7, <2>8, <2>9 DEF n
<1>6. CASE offset # -1
  <2> DEFINE c == offset - 1 - (sent - n)
  <2>1. c \in 0 .. n
    BY <1>1, <1>2, <1>3, <1>6
  <2>2. {i \in DOMAIN queue : queue[i].id < offset} = 1 .. c
    BY <1>1, <1>2, <1>3, <1>6, <2>1
  <2>3. Cardinality(1 .. c) = c
    BY <2>1, FS_Interval
  <2>4. Confirmed = c
    BY <2>2, <2>3 DEF Confirmed
  <2>5. Kept = SubSeq(queue, c + 1, n)
    BY <1>6, <2>4 DEF Kept
  <2>6. Kept = [i \in 1 .. n - c |-> queue[c + i]]
    <3> HIDE DEF c, n
    <3>1. n - (c + 1) + 1 = n - c /\ \A i \in 1 .. n - c : i + (c + 1) - 1 = c + i
      BY <1>2, <2>1
    <3> QED BY <2>5, <3>1, <1>2, <2>1 DEF SubSeq
  <2>7. Kept \in Seq(BotUpdates)
    <3>1. \A i \in 1 .. n - c : queue[c + i] \in BotUpdates
      BY <1>1, <1>2, <2>1, ElementOfSeq
    <3> HIDE DEF c, n
    <3> QED BY <1>2, <2>1, <2>6, <3>1
  <2>8. Len(Kept) = n - c /\ DOMAIN Kept = 1 .. n - c /\ \A i \in 1 .. n - c : Kept[i] = queue[c + i]
    <3> HIDE DEF c, n
    <3>1. n - c \in Nat
      BY <1>2, <2>1
    <3> QED BY <2>6, <3>1
  <2>9. ASSUME NEW i \in DOMAIN Kept
        PROVE  Kept[i].id = sent - Len(Kept) + i /\ \E j \in DOMAIN queue : Kept[i] = queue[j]
    <3>1. i \in 1 .. n - c /\ c + i \in 1 .. n /\ Kept[i] = queue[c + i]
      BY <1>2, <2>1, <2>8
    <3>2. queue[c + i].id = sent - n + (c + i)
      BY <1>3, <3>1
    <3> HIDE DEF c, n
    <3> QED BY <1>1, <1>2, <2>1, <2>8, <3>1, <3>2
  <2>10. n - c = sent - offset + 1 /\ n - c <= n
    BY <1>1, <1>2, <2>1
  <2> HIDE DEF c
  <2> QED BY <1>6, <2>7, <2>8, <2>9, <2>10 DEF FirstOffset
<1> QED BY <1>4, <1>5, <1>6

\* What the poll loop has in hand stays right when a call moves on.
LEMMA StillPolling ==
  ASSUME BotStrong, UNCHANGED <<queue, sent, offset, batch, handled, born>>,
         \A f \in Forms : form[f].at # "idle" => form'[f].at # "idle"
  PROVE  /\ QueueInv' /\ PollInv'
         /\ queue' \in Seq(BotUpdates) /\ batch' \in Seq(BotUpdates) /\ handled' \in Seq(Nat)
         /\ sent' \in Nat /\ offset' \in -1 .. sent' + 1 /\ born' \in [life : 1 .. MaxLives, sent : 0 .. sent']
         /\ \A i \in DOMAIN queue' : form'[queue'[i].form].at # "idle"
         /\ \A i \in DOMAIN batch' : form'[batch'[i].form].at # "idle"
<1>1. queue \in Seq(BotUpdates) /\ batch \in Seq(BotUpdates)
  BY DEF BotStrong, BotTypeOK
<1>2. /\ \A i \in DOMAIN queue : form'[queue[i].form].at # "idle"
      /\ \A i \in DOMAIN batch : form'[batch[i].form].at # "idle"
  BY <1>1, KnownStay DEF BotStrong, CallInv
<1> QED BY <1>2 DEF BotStrong, BotTypeOK, QueueInv, PollInv

\* A call is made: its menu is staged, perhaps in place of the oldest one.
LEMMA FormKeeps ==
  ASSUME BotStrong, NEW f \in Forms, Form(f)
  PROVE  BotStrong'
<1>1. /\ form[f].at = "idle" /\ staged' = RegistryInsert(f)
      /\ form' = [form EXCEPT ![f] = [at |-> "resolving", n |-> 0]]
      /\ UNCHANGED <<answers, menu, pubs, queue, sent, offset, batch, handled, callbacks, born, ownerOf, presses>>
  BY DEF Form, pollVars, lifeVars
<1>2. /\ form \in [Forms -> [at : {"idle", "ok", "failed", "dropped"} \cup Pending, n : 0 .. 2]]
      /\ form' \in [Forms -> [at : {"idle", "ok", "failed", "dropped"} \cup Pending, n : 0 .. 2]]
  BY <1>1 DEF BotStrong, BotTypeOK, Pending
<1>3. \A g \in Forms : IF g = f THEN form'[g] = [at |-> "resolving", n |-> 0] ELSE form'[g] = form[g]
  BY <1>1, <1>2
<1>4. \A g \in Forms : form[g].at # "idle" => form'[g].at # "idle"
  BY <1>1, <1>3
<1>5. /\ staged' \subseteq staged \cup {[form |-> f, fresh |-> TRUE, inserted |-> Instant]}
      /\ staged' \subseteq [form : Forms, fresh : BOOLEAN, inserted : Nat]
      /\ IsFiniteSet(staged') /\ Cardinality(staged') <= MenuCap
  BY <1>1, StagingFacts DEF BotStrong
<1>6. BotTypeOK'
  BY <1>1, <1>2, <1>4, <1>5, StillPolling DEF BotStrong, BotTypeOK
<1>7. \A e \in staged' : (e \in staged /\ e.form # f) \/ e.form = f
  BY <1>5
<1>8. \A e \in staged : e.form \in Forms
  BY DEF BotStrong, BotTypeOK
<1>9. StagedIsAwaited'
  BY <1>3, <1>7, <1>8 DEF BotStrong, StagedIsAwaited, Pending
<1>10. CallInv'
  <2>1. \A g \in Forms : menu'[g] = "shown" => form'[g].at # "idle"
    BY <1>1, <1>4 DEF BotStrong, CallInv
  <2>2. \A a \in answers' : form'[a.form].at # "idle" /\ \A e \in staged' : e.form # a.form
    <3> SUFFICES ASSUME NEW a \in answers' PROVE form'[a.form].at # "idle" /\ \A e \in staged' : e.form # a.form
      OBVIOUS
    <3>1. a.form \in Forms /\ form[a.form].at # "idle" /\ \A e \in staged : e.form # a.form
      BY <1>1 DEF BotStrong, BotTypeOK, CallInv
    <3> QED BY <1>1, <1>4, <1>7, <3>1
  <2>3. \A e \in staged' : form'[e.form].at # "sending"
    BY <1>3, <1>7, <1>8 DEF BotStrong, CallInv
  <2> QED BY <1>1, <1>4, <2>1, <2>2, <2>3, StillPolling DEF CallInv
<1>11. RingInv'
  BY <1>1 DEF BotStrong, RingInv
<1> QED BY <1>1, <1>4, <1>6, <1>9, <1>10, <1>11, StillPolling DEF BotStrong

\* The query of a call is put to the bot.
LEMMA AskKeeps ==
  ASSUME BotStrong, NEW f \in Forms, NEW n \in 1 .. 2, form[f].at # "idle", Ask(f, n), answers' \subseteq answers,
         UNCHANGED <<staged, menu, pubs, offset, batch, handled, callbacks, born, ownerOf, presses>>
  PROVE  BotStrong'
<1>1. form' = [form EXCEPT ![f] = [at |-> "asking", n |-> n]] /\ Enqueue(Query(f, n))
  BY DEF Ask
<1>2. /\ form \in [Forms -> [at : {"idle", "ok", "failed", "dropped"} \cup Pending, n : 0 .. 2]]
      /\ form' \in [Forms -> [at : {"idle", "ok", "failed", "dropped"} \cup Pending, n : 0 .. 2]]
  BY <1>1 DEF BotStrong, BotTypeOK, Pending
<1>3. \A g \in Forms : IF g = f THEN form'[g] = [at |-> "asking", n |-> n] ELSE form'[g] = form[g]
  BY <1>1, <1>2
<1>4. \A g \in Forms : form[g].at # "idle" => form'[g].at # "idle"
  BY <1>3
<1>5. /\ queue' \in Seq(BotUpdates) /\ sent' \in Nat /\ offset' \in -1 .. sent' + 1
      /\ born' \in [life : 1 .. MaxLives, sent : 0 .. sent'] /\ QueueInv' /\ PollInv'
      /\ \A i \in DOMAIN queue' : form'[queue'[i].form].at # "idle"
  <2> DEFINE u == Query(f, n)
             v == [u EXCEPT !.id = sent + 1]
  <2>1. v = [id |-> sent + 1, kind |-> "query", form |-> f, n |-> n, from |-> "self"]
    BY DEF Query
  <2>2. sent + 1 \in Nat
    BY DEF BotStrong, BotTypeOK
  <2>3. v \in [id : Nat, kind : {"query"}, form : Forms, n : 1 .. 2, from : {"self"}]
    BY <2>1, <2>2
  <2>4. v.id = sent + 1 /\ form'[v.form].at # "idle"
    BY <1>3, <2>1
  <2>5. v \in BotUpdates
    BY <2>3 DEF BotUpdates
  <2>6. Enqueue(u)
    BY <1>1
  <2> HIDE DEF u
  <2> QED BY <1>4, <2>4, <2>5, <2>6, EnqueueFacts
<1>6. batch \in Seq(BotUpdates) /\ \A i \in DOMAIN batch : form'[batch[i].form].at # "idle"
  BY <1>4, KnownStay DEF BotStrong, BotTypeOK, CallInv
<1>7. \A e \in staged : e.form \in Forms
  BY DEF BotStrong, BotTypeOK
<1>8. \A a \in answers' : a.form \in Forms
  BY DEF BotStrong, BotTypeOK
<1>9. BotTypeOK'
  BY <1>2, <1>5 DEF BotStrong, BotTypeOK
<1>10. StagedIsAwaited'
  BY <1>3, <1>7 DEF BotStrong, StagedIsAwaited, Pending
<1>11. CallInv'
  <2>1. \A g \in Forms : menu'[g] = "shown" => form'[g].at # "idle"
    BY <1>4 DEF BotStrong, CallInv
  <2>2. \A a \in answers' : form'[a.form].at # "idle" /\ \A e \in staged' : e.form # a.form
    BY <1>4, <1>8 DEF BotStrong, CallInv
  <2>3. \A e \in staged' : form'[e.form].at # "sending"
    BY <1>3, <1>7 DEF BotStrong, CallInv
  <2> QED BY <1>5, <1>6, <2>1, <2>2, <2>3 DEF CallInv
<1>12. RingInv'
  BY DEF BotStrong, RingInv
<1> QED BY <1>5, <1>9, <1>10, <1>11, <1>12 DEF BotStrong

\* A call moves on to another stage.
LEMMA StageFacts ==
  ASSUME form \in [Forms -> [at : {"idle", "ok", "failed", "dropped"} \cup Pending, n : 0 .. 2]],
         NEW f \in Forms, NEW stage \in {"ok", "failed", "dropped", "sending"}, form' = [form EXCEPT ![f].at = stage]
  PROVE  /\ form' \in [Forms -> [at : {"idle", "ok", "failed", "dropped"} \cup Pending, n : 0 .. 2]]
         /\ form'[f].at = stage /\ \A g \in Forms : g # f => form'[g] = form[g]
<1> DEFINE S == [at : {"idle", "ok", "failed", "dropped"} \cup Pending, n : 0 .. 2]
           r == [form[f] EXCEPT !.at = stage]
<1>1. form[f] \in S /\ stage \in {"idle", "ok", "failed", "dropped"} \cup Pending
  BY DEF Pending
<1>2. r \in S /\ r.at = stage
  BY <1>1
<1>3. form' = [form EXCEPT ![f] = r] /\ form \in [Forms -> S]
  OBVIOUS
<1> HIDE DEF r, S
<1>4. form' \in [Forms -> S] /\ form'[f] = r /\ \A g \in Forms : g # f => form'[g] = form[g]
  BY <1>2, <1>3
<1> QED BY <1>2, <1>4 DEF S

\* A call fails while it waits: its menu is unstaged, though it may yet be shown.
LEMMA FailKeeps ==
  ASSUME BotStrong, NEW f \in Forms, form[f].at \in Pending, FormFails(f), answers' \subseteq answers,
         menu' = menu \/ menu' = [menu EXCEPT ![f] = "shown"],
         UNCHANGED <<pubs, queue, sent, offset, batch, handled, callbacks, born, ownerOf, presses>>
  PROVE  BotStrong'
<1>1. staged' = RegistryTake(f) /\ form' = [form EXCEPT ![f].at = "failed"]
  BY DEF FormFails
<1>2. /\ form \in [Forms -> [at : {"idle", "ok", "failed", "dropped"} \cup Pending, n : 0 .. 2]]
      /\ form' \in [Forms -> [at : {"idle", "ok", "failed", "dropped"} \cup Pending, n : 0 .. 2]]
      /\ form'[f].at = "failed" /\ \A g \in Forms : g # f => form'[g] = form[g]
  <2>1. form \in [Forms -> [at : {"idle", "ok", "failed", "dropped"} \cup Pending, n : 0 .. 2]]
    BY DEF BotStrong, BotTypeOK
  <2> QED BY <1>1, <2>1, StageFacts
<1>3. \A g \in Forms : IF g = f THEN form'[g].at = "failed" ELSE form'[g] = form[g]
  BY <1>2
<1>4. \A g \in Forms : form[g].at # "idle" => form'[g].at # "idle"
  BY <1>3
<1>5. /\ staged' \subseteq staged /\ \A e \in staged' : e.form # f
      /\ staged' \subseteq [form : Forms, fresh : BOOLEAN, inserted : Nat]
      /\ IsFiniteSet(staged') /\ Cardinality(staged') <= MenuCap
  BY <1>1, UnstagingFacts DEF BotStrong
<1>6. menu' \in [Forms -> {"none", "shown", "deleted"}]
  BY DEF BotStrong, BotTypeOK
<1>7. BotTypeOK'
  BY <1>2, <1>4, <1>5, <1>6, StillPolling DEF BotStrong, BotTypeOK
<1>8. \A e \in staged' : e \in staged /\ e.form \in Forms /\ form'[e.form] = form[e.form]
  BY <1>3, <1>5
<1>9. StagedIsAwaited'
  BY <1>8 DEF BotStrong, StagedIsAwaited
<1>10. CallInv'
  <2>1. \A g \in Forms : menu'[g] = "shown" => form'[g].at # "idle"
    <3> SUFFICES ASSUME NEW g \in Forms, menu'[g] = "shown" PROVE form'[g].at # "idle"
      OBVIOUS
    <3>1. CASE g = f
      BY <1>3, <3>1
    <3>2. CASE g # f
      <4>1. menu'[g] = menu[g]
        BY <3>2 DEF BotStrong, BotTypeOK
      <4> QED BY <1>4, <4>1 DEF BotStrong, CallInv
    <3> QED BY <3>1, <3>2
  <2>2. \A a \in answers' : form'[a.form].at # "idle" /\ \A e \in staged' : e.form # a.form
    <3>1. \A a \in answers' : a.form \in Forms
      BY DEF BotStrong, BotTypeOK
    <3> QED BY <1>4, <1>5, <3>1 DEF BotStrong, CallInv
  <2>3. \A e \in staged' : form'[e.form].at # "sending"
    BY <1>8 DEF BotStrong, CallInv
  <2> QED BY <1>4, <2>1, <2>2, <2>3, StillPolling DEF CallInv
<1>11. RingInv'
  BY DEF BotStrong, RingInv
<1> QED BY <1>4, <1>7, <1>9, <1>10, <1>11, StillPolling DEF BotStrong

\* An attempt that brings no result is repeated once, or ends the call.
LEMMA AttemptKeeps ==
  ASSUME BotStrong, NEW f \in Forms, form[f].at = "asking", AttemptFails(f), answers' \subseteq answers,
         UNCHANGED <<menu, pubs, offset, batch, handled, callbacks, born, ownerOf, presses>>
  PROVE  BotStrong'
<1>1. form[f].at # "idle" /\ form[f].at \in Pending
  BY DEF Pending
<1>2. CASE form[f].n = 1
  <2>1. Ask(f, 2) /\ UNCHANGED staged
    BY <1>2 DEF AttemptFails
  <2> QED BY <1>1, <2>1, AskKeeps
<1>3. CASE form[f].n # 1
  <2>1. FormFails(f) /\ UNCHANGED <<queue, sent>>
    BY <1>3 DEF AttemptFails
  <2> QED BY <1>1, <2>1, FailKeeps
<1> QED BY <1>2, <1>3

\* A record goes to the ring of the owner's module, which keeps its bound.
LEMMA RecordFacts ==
  ASSUME BotStrong, NEW f \in Forms, pubs' = Record(f), UNCHANGED ownerOf
  PROVE  /\ DOMAIN pubs' = Mods /\ \A m \in Mods : pubs'[m] \in Seq(Forms) /\ Len(pubs'[m]) <= PubCap
         /\ RingInv'
<1> DEFINE m == ownerOf[f]
           base == IF Len(pubs[m]) >= PubCap THEN Tail(pubs[m]) ELSE pubs[m]
<1>1. /\ DOMAIN pubs = Mods /\ PubCap \in Nat \ {0} /\ m \in Mods
      /\ \A k \in Mods : pubs[k] \in Seq(Forms) /\ Len(pubs[k]) <= PubCap
  BY BotAssumption DEF BotStrong, BotTypeOK
<1>2. DOMAIN pubs' = Mods /\ \A k \in Mods : IF k = m THEN pubs'[k] = Append(base, f) ELSE pubs'[k] = pubs[k]
  BY <1>1 DEF Record
<1>3. base \in Seq(Forms) /\ Len(base) < PubCap /\ \A i \in DOMAIN base : ownerOf[base[i]] = m
  <2>1. CASE Len(pubs[m]) >= PubCap
    <3>1. pubs[m] # <<>> /\ pubs[m] \in Seq(Forms) /\ Len(pubs[m]) = PubCap
      BY <1>1, <2>1, EmptySeq, LenProperties
    <3>2. /\ Tail(pubs[m]) \in Seq(Forms) /\ Len(Tail(pubs[m])) = Len(pubs[m]) - 1
          /\ \A i \in 1 .. Len(Tail(pubs[m])) : Tail(pubs[m])[i] = pubs[m][i + 1]
      BY <3>1, HeadTailProperties
    <3>3. \A i \in DOMAIN Tail(pubs[m]) : i + 1 \in DOMAIN pubs[m] /\ Tail(pubs[m])[i] = pubs[m][i + 1]
      BY <3>1, <3>2, LenProperties
    <3>4. \A i \in DOMAIN pubs[m] : ownerOf[pubs[m][i]] = m
      BY <1>1 DEF BotStrong, RingInv
    <3>5. base = Tail(pubs[m])
      BY <2>1
    <3> HIDE DEF base, m
    <3> QED BY <1>1, <3>1, <3>2, <3>3, <3>4, <3>5
  <2>2. CASE ~(Len(pubs[m]) >= PubCap)
    <3>1. base = pubs[m]
      BY <2>2
    <3>2. Len(pubs[m]) \in Nat
      BY <1>1, LenProperties
    <3>3. \A i \in DOMAIN pubs[m] : ownerOf[pubs[m][i]] = m
      BY <1>1 DEF BotStrong, RingInv
    <3> HIDE DEF base, m
    <3> QED BY <1>1, <2>2, <3>1, <3>2, <3>3
  <2> QED BY <2>1, <2>2
<1>4. ownerOf[f] = m
  OBVIOUS
<1> HIDE DEF base, m
<1>5. /\ Append(base, f) \in Seq(Forms) /\ Len(Append(base, f)) <= PubCap
      /\ \A i \in DOMAIN Append(base, f) : ownerOf[Append(base, f)[i]] = m
  <2>1. /\ Append(base, f) \in Seq(Forms) /\ Len(Append(base, f)) = Len(base) + 1 /\ Append(base, f)[Len(base) + 1] = f
        /\ \A i \in 1 .. Len(base) : Append(base, f)[i] = base[i]
    BY <1>3, AppendProperties
  <2>2. Len(base) \in Nat /\ DOMAIN base = 1 .. Len(base) /\ DOMAIN Append(base, f) = 1 .. Len(base) + 1
    BY <1>3, <2>1, LenProperties
  <2> QED BY <1>1, <1>3, <1>4, <2>1, <2>2
<1>6. RingInv'
  <2> SUFFICES ASSUME NEW k \in Mods PROVE \A i \in DOMAIN pubs'[k] : ownerOf[pubs'[k][i]] = k
    BY DEF RingInv
  <2>1. CASE k = m
    BY <1>2, <1>5, <2>1
  <2>2. CASE k # m
    <3>1. pubs'[k] = pubs[k]
      BY <1>2, <2>2
    <3> QED BY <3>1 DEF BotStrong, RingInv
  <2> QED BY <2>1, <2>2
<1> QED BY <1>1, <1>2, <1>5, <1>6

\* The bot's answer arrives: the call sends it, tries again, gives up, or is not waiting any more.
LEMMA AnswerKeeps ==
  ASSUME BotStrong, AnswerArrives
  PROVE  BotStrong'
<1>1. PICK a \in answers :
        /\ answers' = answers \ {a}
        /\ IF form[a.form] # [at |-> "asking", n |-> a.n] THEN UNCHANGED <<form, staged, queue, sent>>
           ELSE IF a.full THEN form' = [form EXCEPT ![a.form].at = "sending"] /\ UNCHANGED <<staged, queue, sent>>
           ELSE AttemptFails(a.form)
        /\ UNCHANGED <<menu, pubs, offset, batch, handled, callbacks, born, ownerOf, presses>>
  BY DEF AnswerArrives, pollVars, lifeVars
<1>2. a.form \in Forms /\ form[a.form].at # "idle" /\ \A e \in staged : e.form # a.form
  BY DEF BotStrong, BotTypeOK, CallInv
<1>3. CASE form[a.form] # [at |-> "asking", n |-> a.n]
  <2>1. UNCHANGED <<form, staged, queue, sent>>
    BY <1>1, <1>3
  <2>2. \A g \in Forms : form[g].at # "idle" => form'[g].at # "idle"
    BY <2>1
  <2>3. BotTypeOK'
    BY <1>1, <2>1 DEF BotStrong, BotTypeOK
  <2>4. CallInv'
    BY <1>1, <2>1 DEF BotStrong, CallInv
  <2> QED BY <1>1, <2>1, <2>2, <2>3, <2>4, StillPolling DEF BotStrong, StagedIsAwaited, RingInv
<1>4. CASE form[a.form] = [at |-> "asking", n |-> a.n] /\ a.full
  <2>1. form' = [form EXCEPT ![a.form].at = "sending"] /\ UNCHANGED <<staged, queue, sent>>
    BY <1>1, <1>4
  <2>2. /\ form' \in [Forms -> [at : {"idle", "ok", "failed", "dropped"} \cup Pending, n : 0 .. 2]]
        /\ form'[a.form].at = "sending" /\ \A g \in Forms : g # a.form => form'[g] = form[g]
    <3>1. form \in [Forms -> [at : {"idle", "ok", "failed", "dropped"} \cup Pending, n : 0 .. 2]]
      BY DEF BotStrong, BotTypeOK
    <3> QED BY <1>2, <2>1, <3>1, StageFacts
  <2>3. \A g \in Forms : form[g].at # "idle" => form'[g].at # "idle"
    BY <2>2
  <2>4. BotTypeOK'
    BY <1>1, <2>1, <2>2 DEF BotStrong, BotTypeOK
  <2>5. \A e \in staged' : e \in staged /\ e.form \in Forms /\ form'[e.form] = form[e.form]
    BY <1>2, <2>1, <2>2 DEF BotStrong, BotTypeOK
  <2>6. CallInv'
    <3>1. \A g \in Forms : menu'[g] = "shown" => form'[g].at # "idle"
      BY <1>1, <2>3 DEF BotStrong, CallInv
    <3>2. \A c \in answers' : c.form \in Forms
      BY <1>1 DEF BotStrong, BotTypeOK
    <3>3. \A c \in answers' : form'[c.form].at # "idle" /\ \A e \in staged' : e.form # c.form
      BY <1>1, <2>1, <2>3, <3>2 DEF BotStrong, CallInv
    <3>4. \A e \in staged' : form'[e.form].at # "sending"
      BY <2>5 DEF BotStrong, CallInv
    <3> QED BY <1>1, <2>1, <2>3, <3>1, <3>3, <3>4, StillPolling DEF CallInv
  <2>7. StagedIsAwaited'
    BY <2>5 DEF BotStrong, StagedIsAwaited
  <2> QED BY <1>1, <2>1, <2>3, <2>4, <2>6, <2>7, StillPolling DEF BotStrong, RingInv
<1>5. CASE form[a.form] = [at |-> "asking", n |-> a.n] /\ ~a.full
  <2>1. AttemptFails(a.form) /\ form[a.form].at = "asking" /\ answers' \subseteq answers
    BY <1>1, <1>5
  <2> QED BY <1>1, <1>2, <2>1, AttemptKeeps
<1> QED BY <1>3, <1>4, <1>5

\* The menu is sent: the call succeeds and may leave a record, or fails although it may be shown.
LEMMA SendKeeps ==
  ASSUME BotStrong, NEW f \in Forms, SendReturns(f)
  PROVE  BotStrong'
<1>1. /\ form[f].at = "sending"
      /\ UNCHANGED <<answers, queue, sent, offset, batch, handled, callbacks, born, ownerOf, presses>>
  BY DEF SendReturns, pollVars, lifeVars
<1>2. CASE FormFails(f)
  <2>1. UNCHANGED pubs /\ (menu' = menu \/ menu' = [menu EXCEPT ![f] = "shown"])
    <3>1. form'[f].at = "failed"
      <4>1. form \in [Forms -> [at : {"idle", "ok", "failed", "dropped"} \cup Pending, n : 0 .. 2]]
        BY DEF BotStrong, BotTypeOK
      <4> QED BY <1>2, <4>1, StageFacts DEF FormFails
    <3>2. form' = [form EXCEPT ![f].at = "ok"] => form'[f].at = "ok"
      <4>1. form \in [Forms -> [at : {"idle", "ok", "failed", "dropped"} \cup Pending, n : 0 .. 2]]
        BY DEF BotStrong, BotTypeOK
      <4> QED BY <4>1, StageFacts
    <3> QED BY <3>1, <3>2 DEF SendReturns
  <2> QED BY <1>1, <1>2, <2>1, FailKeeps DEF Pending
<1>3. CASE ~FormFails(f)
  <2>1. /\ menu' = [menu EXCEPT ![f] = "shown"] /\ form' = [form EXCEPT ![f].at = "ok"] /\ UNCHANGED staged
        /\ pubs' = Record(f) \/ UNCHANGED pubs
    BY <1>3 DEF SendReturns
  <2>2. /\ form' \in [Forms -> [at : {"idle", "ok", "failed", "dropped"} \cup Pending, n : 0 .. 2]]
        /\ form'[f].at = "ok" /\ \A g \in Forms : g # f => form'[g] = form[g]
    <3>1. form \in [Forms -> [at : {"idle", "ok", "failed", "dropped"} \cup Pending, n : 0 .. 2]]
      BY DEF BotStrong, BotTypeOK
    <3> QED BY <2>1, <3>1, StageFacts
  <2>3. \A g \in Forms : form[g].at # "idle" => form'[g].at # "idle"
    BY <2>2
  <2>4. /\ DOMAIN pubs' = Mods /\ \A m \in Mods : pubs'[m] \in Seq(Forms) /\ Len(pubs'[m]) <= PubCap
        /\ RingInv'
    <3>1. CASE pubs' = Record(f)
      BY <1>1, <3>1, RecordFacts
    <3>2. CASE UNCHANGED pubs
      BY <1>1, <3>2 DEF BotStrong, BotTypeOK, RingInv
    <3> QED BY <2>1, <3>1, <3>2
  <2>5. menu' \in [Forms -> {"none", "shown", "deleted"}] /\ \A g \in Forms : g # f => menu'[g] = menu[g]
    BY <2>1 DEF BotStrong, BotTypeOK
  <2>6. BotTypeOK'
    BY <1>1, <2>1, <2>2, <2>4, <2>5 DEF BotStrong, BotTypeOK
  <2>7. \A e \in staged' : e \in staged /\ e.form \in Forms /\ form'[e.form] = form[e.form]
    BY <1>1, <2>1, <2>2 DEF BotStrong, BotTypeOK, CallInv
  <2>8. CallInv'
    <3>1. \A g \in Forms : menu'[g] = "shown" => form'[g].at # "idle"
      BY <2>2, <2>3, <2>5 DEF BotStrong, CallInv
    <3>2. \A c \in answers' : c.form \in Forms
      BY <1>1 DEF BotStrong, BotTypeOK
    <3>3. \A c \in answers' : form'[c.form].at # "idle" /\ \A e \in staged' : e.form # c.form
      BY <1>1, <2>1, <2>3, <3>2 DEF BotStrong, CallInv
    <3>4. \A e \in staged' : form'[e.form].at # "sending"
      BY <2>7 DEF BotStrong, CallInv
    <3> QED BY <1>1, <2>3, <3>1, <3>3, <3>4, StillPolling DEF CallInv
  <2>9. StagedIsAwaited'
    BY <2>7 DEF BotStrong, StagedIsAwaited
  <2> QED BY <1>1, <2>3, <2>4, <2>6, <2>8, <2>9, StillPolling DEF BotStrong
<1> QED BY <1>2, <1>3

\* A call is dropped, and leaves its menu staged.
LEMMA DropKeeps ==
  ASSUME BotStrong, NEW f \in Forms, FormDropped(f)
  PROVE  BotStrong'
<1>1. /\ form[f].at \in Pending /\ form' = [form EXCEPT ![f].at = "dropped"]
      /\ UNCHANGED <<staged, answers, menu, pubs, queue, sent, offset, batch, handled, callbacks, born, ownerOf, presses>>
  BY DEF FormDropped, pollVars, lifeVars
<1>2. /\ form' \in [Forms -> [at : {"idle", "ok", "failed", "dropped"} \cup Pending, n : 0 .. 2]]
      /\ form'[f].at = "dropped" /\ \A g \in Forms : g # f => form'[g] = form[g]
  <2>1. form \in [Forms -> [at : {"idle", "ok", "failed", "dropped"} \cup Pending, n : 0 .. 2]]
    BY DEF BotStrong, BotTypeOK
  <2> QED BY <1>1, <2>1, StageFacts
<1>3. \A g \in Forms : form[g].at # "idle" => form'[g].at # "idle"
  BY <1>2
<1>4. BotTypeOK'
  BY <1>1, <1>2 DEF BotStrong, BotTypeOK
<1>5. \A e \in staged' : e \in staged /\ e.form \in Forms
  BY <1>1 DEF BotStrong, BotTypeOK
<1>6. CallInv'
  <2>1. \A g \in Forms : menu'[g] = "shown" => form'[g].at # "idle"
    BY <1>1, <1>3 DEF BotStrong, CallInv
  <2>2. \A c \in answers' : c.form \in Forms
    BY <1>1 DEF BotStrong, BotTypeOK
  <2>3. \A c \in answers' : form'[c.form].at # "idle" /\ \A e \in staged' : e.form # c.form
    BY <1>1, <1>3, <2>2 DEF BotStrong, CallInv
  <2>4. \A e \in staged' : form'[e.form].at # "sending"
    BY <1>2, <1>5 DEF BotStrong, CallInv
  <2> QED BY <1>1, <1>3, <2>1, <2>3, <2>4, StillPolling DEF CallInv
<1>7. StagedIsAwaited'
  BY <1>2, <1>5 DEF BotStrong, StagedIsAwaited
<1> QED BY <1>1, <1>3, <1>4, <1>6, <1>7, StillPolling DEF BotStrong, RingInv

\* A poll takes what it left in Telegram's queue as its batch and moves the offset past it.
LEMMA PollKeeps ==
  ASSUME BotStrong, Poll
  PROVE  BotStrong'
<1>1. /\ batch = <<>> /\ queue' = Kept /\ batch' = Kept
      /\ offset' = IF Kept = <<>> THEN offset ELSE NextOffset(Kept)
      /\ UNCHANGED <<form, staged, answers, menu, pubs, sent, handled, callbacks, born, ownerOf, presses>>
  BY DEF Poll, lifeVars
<1>2. /\ Kept \in Seq(BotUpdates) /\ Len(Kept) <= Len(queue)
      /\ \A i \in DOMAIN Kept : Kept[i].id = sent - Len(Kept) + i
      /\ \A i \in DOMAIN Kept : \E j \in DOMAIN queue : Kept[i] = queue[j]
      /\ offset # FirstOffset => Len(Kept) = sent - offset + 1
      /\ offset = FirstOffset => Len(Kept) <= 1
  BY KeptFacts
<1>3. /\ sent \in Nat /\ offset \in -1 .. sent + 1 /\ Len(queue) <= sent
      /\ born.sent \in 0 .. sent /\ handled \in Seq(Nat)
  BY DEF BotStrong, BotTypeOK, QueueInv
<1>4. /\ (\A i \in DOMAIN handled : handled[i] = offset - Len(handled) + i - 1)
      /\ (offset = FirstOffset => handled = <<>>) /\ (offset # FirstOffset => offset - Len(handled) >= born.sent)
  <2>1. Len(batch) = 0
    BY <1>1
  <2>2. Len(handled) \in Nat /\ DOMAIN handled = 1 .. Len(handled)
    BY <1>3, LenProperties
  <2> QED BY <1>3, <2>1, <2>2 DEF BotStrong, PollInv
<1>5. /\ Len(Kept) \in Nat /\ DOMAIN Kept = 1 .. Len(Kept) /\ (Kept = <<>> <=> Len(Kept) = 0)
      /\ Len(handled) \in Nat /\ DOMAIN handled = 1 .. Len(handled) /\ (handled = <<>> <=> Len(handled) = 0)
  BY <1>2, <1>3, LenProperties, EmptySeq
<1>6. /\ Kept = <<>> => offset' = offset
      /\ Kept # <<>> => offset' = sent + 1
  <2>1. ASSUME Kept # <<>>
        PROVE  Last(Kept).id = sent
    <3>1. Len(Kept) \in DOMAIN Kept /\ Last(Kept) = Kept[Len(Kept)]
      BY <1>5, <2>1 DEF Last
    <3>2. Kept[Len(Kept)].id = sent - Len(Kept) + Len(Kept)
      BY <1>2, <3>1
    <3> QED BY <1>3, <1>5, <3>1, <3>2
  <2> QED BY <1>1, <2>1 DEF NextOffset
<1>7. QueueInv'
  BY <1>1, <1>2, <1>3, <1>5, <1>6 DEF QueueInv, FirstOffset
<1>8. offset # FirstOffset => offset = sent - Len(Kept) + 1
  BY <1>2, <1>3, <1>5 DEF FirstOffset
<1>9. offset' \in -1 .. sent + 1
  BY <1>3, <1>6
<1>10. PollInv'
  <2>1. CASE Kept = <<>>
    BY <1>1, <1>3, <1>4, <1>5, <1>6, <2>1 DEF PollInv
  <2>2. CASE Kept # <<>> /\ offset = FirstOffset
    <3>1. Len(Kept) = 1 /\ Len(handled) = 0 /\ offset' = sent + 1
      BY <1>2, <1>4, <1>5, <1>6, <2>2
    <3> QED BY <1>1, <1>2, <1>3, <1>5, <3>1 DEF PollInv, FirstOffset
  <2>3. CASE Kept # <<>> /\ offset # FirstOffset
    <3>1. offset' = offset + Len(Kept) /\ offset' = sent + 1
      BY <1>3, <1>5, <1>6, <1>8, <2>3
    <3>2. ASSUME NEW i \in DOMAIN batch'
          PROVE  batch'[i].id = offset' - Len(batch') + i - 1
      <4>1. i \in 1 .. Len(Kept) /\ batch'[i] = Kept[i] /\ Len(batch') = Len(Kept)
        BY <1>1, <1>5
      <4>2. Kept[i].id = sent - Len(Kept) + i
        BY <1>2, <1>5, <4>1
      <4>3. sent - Len(Kept) + i = offset' - Len(Kept) + i - 1
        <5>1. offset' = sent + 1 /\ i \in Nat /\ Len(Kept) \in Nat /\ sent \in Nat
          BY <1>3, <1>5, <3>1, <4>1
        <5> QED BY <5>1
      <4> QED BY <4>1, <4>2, <4>3
    <3>3. \A i \in DOMAIN handled' : handled'[i] = offset' - Len(batch') - Len(handled') + i - 1
      BY <1>1, <1>3, <1>4, <1>5, <3>1
    <3>4. offset' # FirstOffset /\ offset' - Len(batch') - Len(handled') >= born'.sent
      BY <1>1, <1>3, <1>4, <1>5, <2>3, <3>1 DEF FirstOffset
    <3> QED BY <3>2, <3>3, <3>4 DEF PollInv
  <2> QED BY <2>1, <2>2, <2>3
<1>11. BotTypeOK'
  BY <1>1, <1>2, <1>9 DEF BotStrong, BotTypeOK
<1>12. CallInv'
  <2>1. \A i \in DOMAIN Kept : form[Kept[i].form].at # "idle"
    BY <1>2 DEF BotStrong, CallInv
  <2> QED BY <1>1, <2>1 DEF BotStrong, CallInv
<1> QED BY <1>1, <1>7, <1>10, <1>11, <1>12 DEF BotStrong, StagedIsAwaited, RingInv

\* A poll fails after Telegram took it.
LEMMA PollFailsKeeps ==
  ASSUME BotStrong, PollFails
  PROVE  BotStrong'
<1>1. /\ queue' = Kept
      /\ UNCHANGED <<form, staged, answers, menu, pubs, sent, offset, batch, handled, callbacks, born, ownerOf, presses>>
  BY DEF PollFails, pollVars, lifeVars
<1>2. /\ Kept \in Seq(BotUpdates) /\ Len(Kept) <= Len(queue)
      /\ \A i \in DOMAIN Kept : Kept[i].id = sent - Len(Kept) + i
      /\ \A i \in DOMAIN Kept : \E j \in DOMAIN queue : Kept[i] = queue[j]
      /\ offset # FirstOffset => Len(Kept) = sent - offset + 1
  BY KeptFacts
<1>3. sent \in Nat /\ offset \in -1 .. sent + 1 /\ Len(queue) <= sent /\ Len(Kept) \in Nat /\ Len(queue) \in Nat
  BY <1>2, LenProperties DEF BotStrong, BotTypeOK, QueueInv
<1>4. QueueInv'
  BY <1>1, <1>2, <1>3 DEF QueueInv
<1>5. BotTypeOK'
  BY <1>1, <1>2 DEF BotStrong, BotTypeOK
<1>6. CallInv'
  <2>1. \A i \in DOMAIN Kept : form[Kept[i].form].at # "idle"
    BY <1>2 DEF BotStrong, CallInv
  <2> QED BY <1>1, <2>1 DEF BotStrong, CallInv
<1> QED BY <1>1, <1>4, <1>5, <1>6 DEF BotStrong, PollInv, StagedIsAwaited, RingInv

\* An update of the batch is handled.
LEMMA HandleKeeps ==
  ASSUME BotStrong, HandleUpdate
  PROVE  BotStrong'
<1> DEFINE u == Head(batch)
<1>1. /\ batch # <<>> /\ batch' = Tail(batch) /\ handled' = Append(handled, u.id)
      /\ IF u.kind = "query" THEN AnswerInlineQuery(u) ELSE HandleCallback(u)
      /\ UNCHANGED <<form, menu, pubs, queue, sent, offset, born, ownerOf, presses>>
  BY DEF HandleUpdate, lifeVars
<1>2. batch \in Seq(BotUpdates) /\ handled \in Seq(Nat) /\ sent \in Nat /\ offset \in -1 .. sent + 1 /\ born.sent \in Nat
  BY DEF BotStrong, BotTypeOK
<1>3. /\ Len(batch) \in Nat /\ Len(batch) > 0 /\ DOMAIN batch = 1 .. Len(batch) /\ u \in BotUpdates /\ u = batch[1]
      /\ batch' \in Seq(BotUpdates) /\ Len(batch') = Len(batch) - 1 /\ DOMAIN batch' = 1 .. Len(batch) - 1
      /\ \A i \in DOMAIN batch' : batch'[i] = batch[i + 1] /\ i + 1 \in DOMAIN batch
  <2>1. Len(batch) \in Nat /\ DOMAIN batch = 1 .. Len(batch) /\ Len(batch) > 0
    BY <1>1, <1>2, LenProperties, EmptySeq
  <2>2. /\ u \in BotUpdates /\ batch' \in Seq(BotUpdates) /\ Len(batch') = Len(batch) - 1
        /\ \A i \in 1 .. Len(batch') : batch'[i] = batch[i + 1]
    BY <1>1, <1>2, HeadTailProperties
  <2>3. DOMAIN batch' = 1 .. Len(batch) - 1
    BY <2>2, LenProperties
  <2>4. u = batch[1]
    BY <1>1, <1>2
  <2> QED BY <2>1, <2>2, <2>3, <2>4
<1>4. u.id \in Nat /\ u.form \in Forms /\ u.kind \in {"query", "press"} /\ (u.kind = "query" => u.n \in 1 .. 2)
  BY <1>3 DEF BotUpdates
<1> HIDE DEF u
<1>5. /\ Len(handled) \in Nat /\ DOMAIN handled = 1 .. Len(handled) /\ handled' \in Seq(Nat)
      /\ Len(handled') = Len(handled) + 1 /\ DOMAIN handled' = 1 .. Len(handled) + 1
      /\ handled'[Len(handled) + 1] = u.id /\ \A i \in DOMAIN handled : handled'[i] = handled[i]
  BY <1>1, <1>2, <1>4, AppendProperties, LenProperties
<1>6. PollInv'
  <2>1. /\ \A i \in DOMAIN batch : batch[i].id = offset - Len(batch) + i - 1
        /\ \A i \in DOMAIN handled : handled[i] = offset - Len(batch) - Len(handled) + i - 1
        /\ offset # FirstOffset /\ offset - Len(batch) - Len(handled) >= born.sent
    BY <1>1 DEF BotStrong, PollInv
  <2>2. \A i \in DOMAIN batch' : batch'[i].id = offset' - Len(batch') + i - 1
    BY <1>1, <1>2, <1>3, <2>1
  <2>3. ASSUME NEW i \in DOMAIN handled'
        PROVE  handled'[i] = offset' - Len(batch') - Len(handled') + i - 1
    <3>1. u.id = offset - Len(batch)
      <4>1. 1 \in DOMAIN batch
        BY <1>3
      <4>2. batch[1].id = offset - Len(batch) + 1 - 1
        BY <2>1, <4>1
      <4>3. offset \in Int /\ Len(batch) \in Int
        BY <1>2, <1>3
      <4> QED BY <1>3, <4>2, <4>3
    <3>2. CASE i = Len(handled) + 1
      BY <1>1, <1>2, <1>3, <1>5, <3>1, <3>2
    <3>3. CASE i # Len(handled) + 1
      BY <1>1, <1>2, <1>3, <1>5, <2>1, <3>3
    <3> QED BY <3>2, <3>3
  <2>4. offset' # FirstOffset /\ offset' - Len(batch') - Len(handled') >= born'.sent
    BY <1>1, <1>2, <1>3, <1>5, <2>1 DEF FirstOffset
  <2> QED BY <2>2, <2>3, <2>4 DEF PollInv
<1>7. form[u.form].at # "idle" /\ \A i \in DOMAIN batch' : form'[batch'[i].form].at # "idle"
  BY <1>1, <1>3 DEF BotStrong, CallInv
<1>8. CASE u.kind = "query"
  <2>1. /\ answers' = answers \cup {[form |-> u.form, n |-> u.n, full |-> Answerable(u.form)]}
        /\ staged' = RegistryTake(u.form) /\ UNCHANGED callbacks
    BY <1>1, <1>8 DEF AnswerInlineQuery
  <2>2. /\ staged' \subseteq staged /\ \A e \in staged' : e.form # u.form
        /\ staged' \subseteq [form : Forms, fresh : BOOLEAN, inserted : Nat]
        /\ IsFiniteSet(staged') /\ Cardinality(staged') <= MenuCap
    BY <2>1, UnstagingFacts DEF BotStrong
  <2>3. answers' \subseteq [form : Forms, n : 1 .. 2, full : BOOLEAN]
    <3>1. Answerable(u.form) \in BOOLEAN
      BY DEF Answerable
    <3>2. [form |-> u.form, n |-> u.n, full |-> Answerable(u.form)] \in [form : Forms, n : 1 .. 2, full : BOOLEAN]
      BY <1>4, <1>8, <3>1
    <3> QED BY <2>1, <3>2 DEF BotStrong, BotTypeOK
  <2>4. BotTypeOK'
    BY <1>1, <1>3, <1>5, <2>1, <2>2, <2>3 DEF BotStrong, BotTypeOK
  <2>5. CallInv'
    <3>1. ASSUME NEW a \in answers'
          PROVE  form'[a.form].at # "idle" /\ \A e \in staged' : e.form # a.form
      <4>1. CASE a \in answers
        BY <1>1, <2>2, <4>1 DEF BotStrong, CallInv
      <4>2. CASE a \notin answers
        <5>1. a.form = u.form
          BY <2>1, <4>2
        <5> QED BY <1>1, <1>7, <2>2, <5>1
      <4> QED BY <4>1, <4>2
    <3> QED BY <1>1, <1>7, <2>2, <3>1 DEF BotStrong, CallInv
  <2> QED BY <1>1, <1>6, <2>2, <2>4, <2>5 DEF BotStrong, QueueInv, StagedIsAwaited, RingInv
<1>9. CASE u.kind # "query"
  <2>1. /\ callbacks' = IF u.from = "self" THEN callbacks \cup {[id |-> u.id, mod |-> ownerOf[u.form]]} ELSE callbacks
        /\ UNCHANGED <<answers, staged>>
    BY <1>1, <1>9 DEF HandleCallback
  <2>2. [id |-> u.id, mod |-> ownerOf[u.form]] \in [id : Nat, mod : Mods]
    BY <1>4, BotAssumption DEF BotStrong, BotTypeOK
  <2>3. callbacks' \subseteq [id : Nat, mod : Mods]
    BY <2>1, <2>2 DEF BotStrong, BotTypeOK
  <2>4. BotTypeOK'
    BY <1>1, <1>3, <1>5, <2>1, <2>3 DEF BotStrong, BotTypeOK
  <2>5. CallInv'
    BY <1>1, <1>7, <2>1 DEF BotStrong, CallInv
  <2> QED BY <1>1, <1>6, <2>1, <2>4, <2>5 DEF BotStrong, QueueInv, StagedIsAwaited, RingInv
<1> QED BY <1>8, <1>9

\* A menu is pressed.
LEMMA PressKeeps ==
  ASSUME BotStrong, NEW f \in Forms, Press(f)
  PROVE  BotStrong'
<1>1. /\ presses < MaxPresses /\ menu[f] = "shown" /\ presses' = presses + 1
      /\ UNCHANGED <<form, staged, answers, menu, pubs, offset, batch, handled, callbacks, born, ownerOf>>
  BY DEF Press, pollVars, lifeVars
<1>2. PICK who \in {"self", "other"} : Enqueue([id |-> 0, kind |-> "press", form |-> f, n |-> 0, from |-> who])
  BY DEF Press
<1> DEFINE u == [id |-> 0, kind |-> "press", form |-> f, n |-> 0, from |-> who]
           v == [u EXCEPT !.id = sent + 1]
<1>3. v = [id |-> sent + 1, kind |-> "press", form |-> f, n |-> 0, from |-> who]
  OBVIOUS
<1>4. v \in [id : Nat, kind : {"press"}, form : Forms, n : {0}, from : {"self", "other"}]
  <2>1. sent + 1 \in Nat
    BY DEF BotStrong, BotTypeOK
  <2> QED BY <1>3, <2>1
<1>5. v.id = sent + 1 /\ form[v.form].at # "idle"
  BY <1>1, <1>3 DEF BotStrong, CallInv
<1>6. v \in BotUpdates
  BY <1>4 DEF BotUpdates
<1>7. Enqueue(u)
  BY <1>2
<1> HIDE DEF u
<1>8. /\ queue' \in Seq(BotUpdates) /\ sent' \in Nat /\ offset' \in -1 .. sent' + 1
      /\ born' \in [life : 1 .. MaxLives, sent : 0 .. sent'] /\ QueueInv' /\ PollInv'
      /\ \A i \in DOMAIN queue' : form'[queue'[i].form].at # "idle"
  BY <1>1, <1>5, <1>6, <1>7, EnqueueFacts
<1>9. presses' \in 0 .. MaxPresses
  BY <1>1, BotAssumption DEF BotStrong, BotTypeOK
<1>10. BotTypeOK'
  BY <1>1, <1>8, <1>9 DEF BotStrong, BotTypeOK
<1>11. CallInv'
  BY <1>1, <1>8 DEF BotStrong, CallInv
<1> QED BY <1>1, <1>8, <1>10, <1>11 DEF BotStrong, StagedIsAwaited, RingInv

\* A message is deleted by its address: menus change, and nothing else does.
LEMMA DeleteAddressedKeeps ==
  ASSUME BotStrong, DeleteAddressed
  PROVE  BotStrong' /\ pubs' = pubs
<1>1. PICK f \in Forms : menu' = [menu EXCEPT ![f] = "deleted"] \/ UNCHANGED menu
  BY DEF DeleteAddressed, DeleteByPeer
<1>2. UNCHANGED <<form, staged, answers, pubs, queue, sent, offset, batch, handled, callbacks, born, ownerOf, presses>>
  BY DEF DeleteAddressed, pollVars, lifeVars
<1>3. menu \in [Forms -> {"none", "shown", "deleted"}]
  BY DEF BotStrong, BotTypeOK
<1>4. /\ menu' \in [Forms -> {"none", "shown", "deleted"}]
      /\ \A g \in Forms : menu'[g] = "shown" => menu[g] = "shown"
  BY <1>1, <1>3
<1>5. BotTypeOK'
  BY <1>2, <1>4 DEF BotStrong, BotTypeOK
<1>6. CallInv'
  BY <1>2, <1>4 DEF BotStrong, CallInv
<1> QED BY <1>2, <1>5, <1>6 DEF BotStrong, StagedIsAwaited, QueueInv, PollInv, RingInv

\* The latest menu on a module's record is taken and closed: it is one of its own.
LEMMA DeleteKeeps ==
  ASSUME BotStrong, DeleteCorrelated
  PROVE  /\ BotStrong'
         /\ \A k \in Mods, f \in Forms :
              Len(pubs'[k]) < Len(pubs[k]) /\ menu'[f] # menu[f] => ownerOf[f] = k
<1>1. PICK c \in callbacks :
        /\ pubs[c.mod] # <<>> /\ pubs' = [pubs EXCEPT ![c.mod] = Front(@)]
        /\ \/ menu' = [menu EXCEPT ![Last(pubs[c.mod])] = "deleted"]
           \/ UNCHANGED menu
  BY DEF DeleteCorrelated, DeleteByPeer, TakeLatest
<1>2. UNCHANGED <<form, staged, answers, queue, sent, offset, batch, handled, callbacks, born, ownerOf, presses>>
  BY DEF DeleteCorrelated, pollVars, lifeVars
<1> DEFINE m == c.mod
           ring == pubs[m]
<1>3. /\ m \in Mods /\ DOMAIN pubs = Mods /\ \A k \in Mods : pubs[k] \in Seq(Forms) /\ Len(pubs[k]) <= PubCap
      /\ menu \in [Forms -> {"none", "shown", "deleted"}] /\ PubCap \in Nat
  BY BotAssumption DEF BotStrong, BotTypeOK
<1>4. \A i \in DOMAIN ring : ownerOf[ring[i]] = m
  BY <1>3 DEF BotStrong, RingInv
<1>5. /\ ring # <<>> /\ pubs' = [pubs EXCEPT ![m] = Front(@)]
      /\ menu' = [menu EXCEPT ![Last(ring)] = "deleted"] \/ UNCHANGED menu
  BY <1>1
<1>6. ring \in Seq(Forms) /\ Len(ring) \in Nat /\ Len(ring) > 0 /\ DOMAIN ring = 1 .. Len(ring) /\ Len(ring) <= PubCap
  BY <1>3, <1>5, LenProperties, EmptySeq
<1>7. Last(ring) \in Forms /\ ownerOf[Last(ring)] = m
  <2> HIDE DEF ring, m
  <2>1. Len(ring) \in DOMAIN ring /\ Last(ring) = ring[Len(ring)]
    BY <1>6 DEF Last
  <2> QED BY <1>4, <1>6, <2>1, ElementOfSeq
<1>8. /\ Front(ring) \in Seq(Forms) /\ Len(Front(ring)) = Len(ring) - 1
      /\ \A i \in DOMAIN Front(ring) : Front(ring)[i] = ring[i] /\ i \in DOMAIN ring
  <2> HIDE DEF ring, m
  <2>1. \A i \in 1 .. Len(ring) - 1 : ring[i] \in Forms
    BY <1>6, ElementOfSeq
  <2>2. Front(ring) = SubSeq(ring, 1, Len(ring) - 1)
    BY DEF Front
  <2>3. /\ Front(ring) \in Seq(Forms) /\ Len(Front(ring)) = Len(ring) - 1
        /\ \A i \in 1 .. Len(ring) - 1 : Front(ring)[i] = ring[i]
    <3>1. Len(ring) - 1 \in Nat /\ (Len(ring) - 1) - 1 + 1 = Len(ring) - 1
      BY <1>6
    <3>2. /\ SubSeq(ring, 1, Len(ring) - 1) \in Seq(Forms)
          /\ Len(SubSeq(ring, 1, Len(ring) - 1)) = IF 1 <= Len(ring) - 1 THEN (Len(ring) - 1) - 1 + 1 ELSE 0
          /\ \A i \in 1 .. (Len(ring) - 1) - 1 + 1 : SubSeq(ring, 1, Len(ring) - 1)[i] = ring[1 + i - 1]
      BY <2>1, <3>1, SubSeqProperties
    <3> QED BY <1>6, <2>2, <3>1, <3>2
  <2> QED BY <1>6, <2>3, LenProperties
<1>9. DOMAIN pubs' = Mods /\ \A k \in Mods : IF k = m THEN pubs'[k] = Front(ring) ELSE pubs'[k] = pubs[k]
  BY <1>3, <1>5
<1>10. menu' \in [Forms -> {"none", "shown", "deleted"}] /\ \A f \in Forms : f # Last(ring) => menu'[f] = menu[f]
  BY <1>3, <1>5
<1>11. \A f \in Forms : menu'[f] = "shown" => menu[f] = "shown"
  BY <1>3, <1>5, <1>7
<1> HIDE DEF ring
<1>12. \A k \in Mods : pubs'[k] \in Seq(Forms) /\ Len(pubs'[k]) <= PubCap
  BY <1>3, <1>6, <1>8, <1>9
<1>13. BotTypeOK'
  BY <1>2, <1>9, <1>10, <1>12 DEF BotStrong, BotTypeOK
<1>14. CallInv'
  BY <1>2, <1>11 DEF BotStrong, CallInv
<1>15. RingInv'
  <2> SUFFICES ASSUME NEW k \in Mods PROVE \A i \in DOMAIN pubs'[k] : ownerOf[pubs'[k][i]] = k
    BY <1>2 DEF RingInv
  <2>1. CASE k = m
    BY <1>4, <1>8, <1>9, <2>1
  <2>2. CASE k # m
    <3>1. pubs'[k] = pubs[k]
      BY <1>9, <2>2
    <3> QED BY <3>1 DEF BotStrong, RingInv
  <2> QED BY <2>1, <2>2
<1>16. BotStrong'
  BY <1>2, <1>13, <1>14, <1>15 DEF BotStrong, StagedIsAwaited, QueueInv, PollInv
<1>17. ASSUME NEW k \in Mods, NEW f \in Forms, Len(pubs'[k]) < Len(pubs[k]), menu'[f] # menu[f]
       PROVE  ownerOf[f] = k
  <2>1. f = Last(ring)
    BY <1>10, <1>17
  <2>2. k = m
    <3>1. CASE k # m
      <4>1. pubs'[k] = pubs[k]
        BY <1>9, <3>1
      <4>2. Len(pubs[k]) \in Nat
        BY <1>3, LenProperties
      <4> QED BY <1>17, <4>1, <4>2
    <3> QED BY <3>1
  <2> QED BY <1>7, <2>1, <2>2
<1> QED BY <1>16, <1>17

\* The menu of a dropped call expires.
LEMMA ExpiresKeeps ==
  ASSUME BotStrong, MenuExpires
  PROVE  BotStrong'
<1>1. PICK e \in staged : staged' = (staged \ {e}) \cup {[e EXCEPT !.fresh = FALSE]}
  BY DEF MenuExpires
<1>2. UNCHANGED <<form, answers, menu, pubs, queue, sent, offset, batch, handled, callbacks, born, ownerOf, presses>>
  BY DEF MenuExpires, pollVars, lifeVars
<1> DEFINE old == [e EXCEPT !.fresh = FALSE]
<1>3. /\ staged \subseteq [form : Forms, fresh : BOOLEAN, inserted : Nat] /\ IsFiniteSet(staged)
      /\ Cardinality(staged) <= MenuCap /\ MenuCap \in Nat
  BY BotAssumption DEF BotStrong, BotTypeOK
<1>4. old \in [form : Forms, fresh : BOOLEAN, inserted : Nat] /\ old.form = e.form
  BY <1>3
<1> HIDE DEF old
<1>5. IsFiniteSet(staged') /\ Cardinality(staged') <= MenuCap
  <2>1. /\ IsFiniteSet(staged \ {e}) /\ Cardinality(staged \ {e}) = Cardinality(staged) - 1
        /\ Cardinality(staged) \in Nat
    BY <1>3, FS_RemoveElement, FS_CardinalityType
  <2>2. /\ IsFiniteSet((staged \ {e}) \cup {old}) /\ Cardinality((staged \ {e}) \cup {old}) \in Nat
        /\ Cardinality((staged \ {e}) \cup {old}) <= Cardinality(staged \ {e}) + 1
    BY <2>1, WithOneMore
  <2>3. staged' = (staged \ {e}) \cup {old}
    BY <1>1 DEF old
  <2>4. /\ IsFiniteSet(staged') /\ Cardinality(staged') \in Nat
        /\ Cardinality(staged') <= Cardinality(staged \ {e}) + 1
    BY <2>2, <2>3, Zenon
  <2> QED BY <1>3, <2>1, <2>4
<1>6. \A d \in staged' : \E x \in staged : d.form = x.form
  BY <1>1, <1>4 DEF old
<1>7. staged' \subseteq [form : Forms, fresh : BOOLEAN, inserted : Nat]
  BY <1>1, <1>3, <1>4 DEF old
<1>8. BotTypeOK'
  BY <1>2, <1>5, <1>7 DEF BotStrong, BotTypeOK
<1>9. StagedIsAwaited'
  BY <1>2, <1>6 DEF BotStrong, StagedIsAwaited
<1>10. CallInv'
  BY <1>2, <1>6 DEF BotStrong, CallInv
<1> QED BY <1>2, <1>8, <1>9, <1>10 DEF BotStrong, QueueInv, PollInv, RingInv

\* The program is restarted: calls under way are dropped, and polling starts anew.
LEMMA RestartKeeps ==
  ASSUME BotStrong, Restart
  PROVE  BotStrong'
<1>1. /\ born.life < MaxLives /\ born' = [life |-> born.life + 1, sent |-> sent]
      /\ form' = [f \in Forms |-> IF form[f].at \in Pending THEN [form[f] EXCEPT !.at = "dropped"] ELSE form[f]]
      /\ staged' = {} /\ answers' = {} /\ pubs' = [m \in Mods |-> <<>>] /\ callbacks' = {}
      /\ offset' = FirstOffset /\ batch' = <<>> /\ handled' = <<>>
      /\ UNCHANGED <<ownerOf, menu, queue, sent, presses>>
  BY DEF Restart
<1> DEFINE S == [at : {"idle", "ok", "failed", "dropped"} \cup Pending, n : 0 .. 2]
<1>2. form \in [Forms -> S] /\ queue \in Seq(BotUpdates) /\ sent \in Nat
  BY DEF BotStrong, BotTypeOK
<1>3. \A f \in Forms : form'[f] \in S /\ (form[f].at # "idle" => form'[f].at # "idle")
  <2> SUFFICES ASSUME NEW f \in Forms PROVE form'[f] \in S /\ (form[f].at # "idle" => form'[f].at # "idle")
    OBVIOUS
  <2>1. form[f] \in S
    BY <1>2
  <2>2. [form[f] EXCEPT !.at = "dropped"] \in S /\ [form[f] EXCEPT !.at = "dropped"].at = "dropped"
    BY <2>1
  <2> HIDE DEF S
  <2> QED BY <1>1, <2>1, <2>2
<1>4. form' \in [Forms -> S]
  <2>1. DOMAIN form' = Forms /\ form' = [f \in Forms |-> form'[f]]
    BY <1>1
  <2> HIDE DEF S
  <2> QED BY <1>3, <2>1
<1>5. \A i \in DOMAIN queue : form'[queue[i].form].at # "idle"
  BY <1>2, <1>3, KnownStay DEF BotStrong, CallInv
<1>6. born' \in [life : 1 .. MaxLives, sent : 0 .. sent']
  BY <1>1, <1>2, BotAssumption DEF BotStrong, BotTypeOK
<1>7. BotTypeOK'
  <2>1. IsFiniteSet(staged') /\ Cardinality(staged') <= MenuCap
    BY <1>1, FS_EmptySet, BotAssumption
  <2>2. DOMAIN pubs' = Mods /\ \A m \in Mods : pubs'[m] \in Seq(Forms) /\ Len(pubs'[m]) <= PubCap
    BY <1>1, BotAssumption
  <2>3. offset' \in -1 .. sent' + 1 /\ batch' \in Seq(BotUpdates) /\ handled' \in Seq(Nat)
    BY <1>1, <1>2 DEF FirstOffset
  <2> QED BY <1>1, <1>2, <1>4, <1>6, <2>1, <2>2, <2>3 DEF BotStrong, BotTypeOK
<1>8. QueueInv'
  BY <1>1 DEF BotStrong, QueueInv
<1>9. PollInv'
  BY <1>1 DEF PollInv
<1>10. CallInv'
  <2>1. \A f \in Forms : menu'[f] = "shown" => form'[f].at # "idle"
    BY <1>1, <1>3 DEF BotStrong, CallInv
  <2>2. \A i \in DOMAIN batch' : form'[batch'[i].form].at # "idle"
    BY <1>1
  <2> QED BY <1>1, <1>5, <2>1, <2>2 DEF CallInv
<1>11. StagedIsAwaited' /\ RingInv'
  BY <1>1 DEF StagedIsAwaited, RingInv
<1> QED BY <1>7, <1>8, <1>9, <1>10, <1>11 DEF BotStrong

\* The program starts for the first time.
LEMMA BotInitially ==
  ASSUME BotInit
  PROVE  BotStrong
<1>1. BotTypeOK
  <2>1. IsFiniteSet(staged) /\ Cardinality(staged) <= MenuCap
    BY FS_EmptySet, BotAssumption DEF BotInit
  <2>2. DOMAIN pubs = Mods /\ \A m \in Mods : pubs[m] \in Seq(Forms) /\ Len(pubs[m]) <= PubCap
    BY BotAssumption DEF BotInit
  <2>3. born \in [life : 1 .. MaxLives, sent : 0 .. sent] /\ presses \in 0 .. MaxPresses /\ offset \in -1 .. sent + 1
    BY BotAssumption DEF BotInit, FirstOffset
  <2> QED BY <2>1, <2>2, <2>3 DEF BotInit, BotTypeOK
<1>2. QueueInv
  BY DEF BotInit, QueueInv
<1>3. PollInv
  BY DEF BotInit, PollInv
<1>4. CallInv
  BY DEF BotInit, CallInv
<1>5. StagedIsAwaited /\ RingInv
  BY DEF BotInit, StagedIsAwaited, RingInv
<1> QED BY <1>1, <1>2, <1>3, <1>4, <1>5 DEF BotStrong

LEMMA BotKeeps ==
  ASSUME BotStrong, [BotNext]_botVars
  PROVE  BotStrong'
<1>1. CASE UNCHANGED botVars
  <2>1. /\ BotTypeOK' /\ StagedIsAwaited' /\ QueueInv' /\ PollInv'
    BY <1>1 DEF botVars, pollVars, BotStrong, BotTypeOK, StagedIsAwaited, QueueInv, PollInv
  <2> QED BY <1>1, <2>1 DEF botVars, pollVars, BotStrong, CallInv, RingInv
<1>2. ASSUME NEW f \in Forms, Form(f) \/ FormStep(f) \/ FormDropped(f) \/ Press(f)
      PROVE  BotStrong'
  <2>1. CASE Form(f)
    BY <2>1, FormKeeps
  <2>2. CASE ResolveBot(f)
    BY <2>2, AskKeeps DEF ResolveBot, pollVars, lifeVars
  <2>3. CASE ResolveFails(f)
    BY <2>3, FailKeeps DEF ResolveFails, pollVars, lifeVars, Pending
  <2>4. CASE AskTimesOut(f)
    BY <2>4, AttemptKeeps DEF AskTimesOut, pollVars, lifeVars
  <2>5. CASE SendReturns(f)
    BY <2>5, SendKeeps
  <2>6. CASE FormDropped(f)
    BY <2>6, DropKeeps
  <2>7. CASE Press(f)
    BY <2>7, PressKeeps
  <2> QED BY <1>2, <2>1, <2>2, <2>3, <2>4, <2>5, <2>6, <2>7 DEF FormStep
<1>3. CASE MenuExpires \/ AnswerArrives \/ Poll \/ PollFails \/ HandleUpdate
          \/ DeleteAddressed \/ DeleteCorrelated \/ Restart
  BY <1>3, ExpiresKeeps, AnswerKeeps, PollKeeps, PollFailsKeeps, HandleKeeps, DeleteAddressedKeeps, DeleteKeeps,
     RestartKeeps
<1> QED BY <1>1, <1>2, <1>3 DEF BotNext

\* What BotStrong says of the updates handled: consecutive ones, at most the first from before the start.
LEMMA BotImplied ==
  ASSUME BotStrong
  PROVE  BotInv
<1> DEFINE ids == Ids(batch)
           all == handled \o ids
           h == Len(handled)
           b == Len(batch)
<1>1. batch \in Seq(BotUpdates) /\ handled \in Seq(Nat) /\ sent \in Nat /\ offset \in -1 .. sent + 1 /\ born.sent \in Nat
  BY DEF BotStrong, BotTypeOK
<1>2. h \in Nat /\ DOMAIN handled = 1 .. h /\ b \in Nat /\ DOMAIN batch = 1 .. b
  BY <1>1, LenProperties
<1>3. ids \in Seq(Nat) /\ Len(ids) = b /\ \A i \in 1 .. b : ids[i] = batch[i].id
  <2>1. \A i \in 1 .. b : batch[i].id \in Nat
    <3>1. \A i \in 1 .. b : batch[i] \in BotUpdates
      BY <1>1, <1>2, ElementOfSeq
    <3> QED BY <3>1 DEF BotUpdates
  <2>2. ids = [i \in 1 .. b |-> batch[i].id]
    BY <1>2 DEF Ids
  <2> HIDE DEF ids, b
  <2> QED BY <1>2, <2>1, <2>2
<1>4. /\ \A i \in 1 .. b : batch[i].id = offset - b + i - 1
      /\ \A i \in 1 .. h : handled[i] = offset - b - h + i - 1
      /\ offset = FirstOffset => handled = <<>> /\ batch = <<>>
      /\ offset # FirstOffset => offset - b - h >= born.sent
  BY <1>2 DEF BotStrong, PollInv
<1> HIDE DEF ids
<1>5. Len(all) = h + b /\ \A i \in 1 .. h + b : all[i] = IF i <= h THEN handled[i] ELSE ids[i - h]
  <2>1. /\ Len(handled \o ids) = Len(handled) + Len(ids)
        /\ \A i \in 1 .. Len(handled) + Len(ids) :
             (handled \o ids)[i] = IF i <= Len(handled) THEN handled[i] ELSE ids[i - Len(handled)]
    BY <1>1, <1>3, ConcatProperties
  <2>2. Len(handled) = h /\ Len(ids) = b /\ all = handled \o ids
    BY <1>3
  <2> HIDE DEF all, h, b
  <2> QED BY <2>1, <2>2
<1>6. all \in Seq(Nat)
  BY <1>1, <1>3, ConcatProperties
<1> HIDE DEF all, h, b
<1>7. ASSUME NEW i \in 1 .. h + b
      PROVE  all[i] = offset - b - h + i - 1
  <2>1. CASE i <= h
    BY <1>2, <1>4, <1>5, <2>1
  <2>2. CASE ~(i <= h)
    <3>1. i - h \in 1 .. b /\ all[i] = ids[i - h]
      BY <1>2, <1>5, <2>2
    <3>2. all[i] = offset - b + (i - h) - 1
      BY <1>3, <1>4, <3>1
    <3> QED BY <1>1, <1>2, <3>1, <3>2
  <2> QED BY <2>1, <2>2
<1>8. HandledInOrder
  <2>1. \A i \in 1 .. Len(all) - 1 : all[i + 1] = all[i] + 1
    BY <1>1, <1>2, <1>5, <1>7
  <2>2. ASSUME all # <<>>
        PROVE  offset = Last(all) + 1
    <3>1. h + b > 0
      BY <1>2, <1>5, <1>6, <2>2, EmptySeq
    <3>2. Last(all) = all[h + b]
      BY <1>5 DEF Last
    <3>3. all[h + b] = offset - b - h + (h + b) - 1
      BY <1>2, <1>7, <3>1
    <3> QED BY <1>1, <1>2, <3>2, <3>3
  <2> QED BY <2>1, <2>2 DEF HandledInOrder, all, ids
<1>9. BacklogSkipped
  <2> DEFINE T == {i \in DOMAIN handled : handled[i] <= born.sent}
  <2>1. T \subseteq {1}
    <3> SUFFICES ASSUME NEW i \in 1 .. h, handled[i] <= born.sent PROVE i = 1
      BY <1>2
    <3>1. offset # FirstOffset
      BY <1>1, <1>2, <1>4, EmptySeq DEF h
    <3> QED BY <1>1, <1>2, <1>4, <3>1
  <2>2. IsFiniteSet({1}) /\ Cardinality({1}) = 1
    BY FS_Singleton
  <2> HIDE DEF T
  <2>3. Cardinality(T) <= 1
    BY <2>1, <2>2, FS_Subset
  <2> QED BY <2>3 DEF BacklogSkipped, T
<1> QED BY <1>8, <1>9 DEF BotInv, BotStrong

\* Whatever polls fail, answers come late and restarts intervene, the bot's updates are handled
\* in order, each once, the backlog of an earlier life is skipped, and a staged menu has a call
\* that waits for it or was dropped.
THEOREM UpdatesHandledOnce == BotSpec => []BotInv
<1>1. BotInit => BotStrong
  BY BotInitially
<1>2. BotStrong /\ [BotNext]_botVars => BotStrong'
  BY BotKeeps
<1>3. BotStrong => BotInv
  BY BotImplied
<1> QED BY <1>1, <1>2, <1>3, PTL DEF BotSpec

\* A form records its menu with the module it belongs to: no record becomes shorter.
LEMMA RecordNeverShorter ==
  ASSUME BotStrong, NEW f \in Forms, SendReturns(f), NEW k \in Mods
  PROVE  ~(Len(pubs'[k]) < Len(pubs[k]))
<1> DEFINE m == ownerOf[f]
           ring == pubs[m]
<1>1. pubs' = Record(f) \/ pubs' = pubs
  BY DEF SendReturns
<1>2. /\ m \in Mods /\ DOMAIN pubs = Mods /\ pubs[k] \in Seq(Forms) /\ ring \in Seq(Forms) /\ Len(ring) <= PubCap
      /\ PubCap \in Nat \ {0}
  BY BotAssumption DEF BotStrong, BotTypeOK
<1>3. Len(pubs[k]) \in Nat /\ Len(ring) \in Nat
  BY <1>2, LenProperties
<1>4. CASE pubs' = Record(f) /\ k = m
  <2>1. pubs'[k] = Append(IF Len(ring) >= PubCap THEN Tail(ring) ELSE ring, f)
    BY <1>2, <1>4 DEF Record
  <2>2. CASE Len(ring) >= PubCap
    <3>1. ring # <<>>
      BY <1>2, <1>3, <2>2, EmptySeq
    <3>2. Tail(ring) \in Seq(Forms) /\ Len(Tail(ring)) = Len(ring) - 1
      BY <1>2, <3>1, HeadTailProperties
    <3>3. Len(pubs'[k]) = Len(Tail(ring)) + 1
      BY <2>1, <2>2, <3>2, AppendProperties
    <3> QED BY <1>3, <1>4, <3>2, <3>3
  <2>3. CASE ~(Len(ring) >= PubCap)
    <3>1. Len(pubs'[k]) = Len(ring) + 1
      BY <1>2, <2>1, <2>3, AppendProperties
    <3> QED BY <1>3, <1>4, <3>1
  <2> QED BY <2>2, <2>3
<1>5. CASE pubs' = pubs \/ k # m
  <2>1. pubs'[k] = pubs[k]
    BY <1>1, <1>2, <1>5 DEF Record
  <2> QED BY <1>3, <2>1
<1> QED BY <1>1, <1>4, <1>5

\* Which menu a close that names none takes is guessed from the record of the module that asked:
\* whatever was published, pressed, lost or restarted before, it is a menu of that module.
THEOREM GuessedClosesAreOwn == BotSpec => GuessesOwnMenu
<1> DEFINE Guessed == \A m \in Mods, f \in Forms :
                    Len(pubs'[m]) < Len(pubs[m]) /\ menu'[f] # menu[f] => ownerOf[f] = m
<1>1. ASSUME BotStrong, BotNext
      PROVE  Guessed
  <2>1. \A m \in Mods : Len(pubs[m]) \in Nat
    <3>1. \A m \in Mods : pubs[m] \in Seq(Forms)
      BY <1>1 DEF BotStrong, BotTypeOK
    <3> QED BY <3>1, LenProperties
  <2>2. CASE pubs' = pubs
    BY <2>1, <2>2
  <2>3. CASE menu' = menu
    BY <2>3
  <2>4. ASSUME NEW f \in Forms, Form(f) \/ FormStep(f) \/ FormDropped(f) \/ Press(f)
        PROVE  Guessed
    <3>1. CASE SendReturns(f)
      BY <1>1, <3>1, RecordNeverShorter
    <3>2. CASE ~ SendReturns(f)
      <4>1. menu' = menu
        BY <2>4, <3>2 DEF Form, FormStep, FormDropped, Press, ResolveBot, ResolveFails, AskTimesOut
      <4> QED BY <2>3, <4>1
    <3> QED BY <3>1, <3>2
  <2>5. CASE MenuExpires \/ AnswerArrives \/ Poll \/ PollFails \/ HandleUpdate \/ Restart
    <3>1. menu' = menu
      BY <2>5 DEF MenuExpires, AnswerArrives, Poll, PollFails, HandleUpdate, Restart
    <3> QED BY <2>3, <3>1
  <2>6. CASE DeleteAddressed
    BY <1>1, <2>2, <2>6, DeleteAddressedKeeps
  <2>7. CASE DeleteCorrelated
    BY <1>1, <2>7, DeleteKeeps
  <2> QED BY <1>1, <2>4, <2>5, <2>6, <2>7 DEF BotNext
<1> HIDE DEF Guessed
<1>2. BotStrong /\ [BotNext]_botVars => [Guessed]_botVars
  BY <1>1
<1>3. BotInit => BotStrong
  BY BotInitially
<1>4. BotStrong /\ [BotNext]_botVars => BotStrong'
  BY BotKeeps
<1>5. BotInit /\ [][BotNext]_botVars => [][Guessed]_botVars
  BY <1>2, <1>3, <1>4, PTL
<1> QED BY <1>5 DEF BotSpec, GuessesOwnMenu, Guessed

-----------------------------------------------------------------------------
(* The run, which shows one of the three models in each behaviour.         *)

\* A behaviour of the run is one of each model: the models that rest take no step.
LEMMA MessagesShowEachModel == MessagesSpec => Spec /\ CallsSpec /\ BotSpec
<1>1. MessagesInit => Init /\ CallsInit /\ BotInit
  BY DEF MessagesInit
<1>2. [MessagesNext]_<<which, vars, callVars, botVars>>
        => [Next]_vars /\ [CallsNext]_callVars /\ [BotNext]_botVars
  BY DEF MessagesNext
<1> QED BY <1>1, <1>2, PTL DEF MessagesSpec, Spec, CallsSpec, BotSpec

\* In every behaviour of the run: an edit of Lavis is never routed as a command, a handle carries the
\* authority of its invocation, the bot's updates are handled once, and the menu that a close naming
\* none takes belongs to the module that asked.
THEOREM MessagesAreSafe ==
  MessagesSpec => [](OwnEditNeverRouted /\ ProvenanceInv /\ CallsInv /\ BotInv) /\ GuessesOwnMenu
BY MessagesShowEachModel, OwnEditsNeverRouted, LedgerStaysExact, HandlesCarryTheirAuthority, UpdatesHandledOnce,
   GuessedClosesAreOwn, PTL

=============================================================================
