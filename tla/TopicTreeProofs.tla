-------------------------- MODULE TopicTreeProofs --------------------------
(***************************************************************************)
(* TopicTree, for any names, filters and trees: the types, what a walk     *)
(* finds, and that an UNSUBSCRIBE takes back what a SUBSCRIBE gave.        *)
(***************************************************************************)
EXTENDS TopicTree, SequenceTheorems, FiniteSetTheorems, WellFoundedInduction, TLAPS

-----------------------------------------------------------------------------
(***************************************************************************)
(* Loops.                                                                  *)
(***************************************************************************)
LEMMA LeastNumber ==
    ASSUME NEW T, T \subseteq Nat, T # {}
    PROVE  \E x \in T : \A y \in T : x <= y
<1>1. IsWellFoundedOn(OpToRel(<, Nat), Nat)
  BY NatLessThanWellFounded
<1>2. PICK x \in T : \A y \in T : ~(<<y, x>> \in OpToRel(<, Nat))
  BY <1>1, WFMin
<1>3. \A y \in T : ~(y < x)
  BY <1>2 DEF OpToRel
<1>. QED
  BY <1>3

\* Induction up to n.
LEMMA UpTo ==
    ASSUME NEW n \in Nat, NEW I, 0 \in I, \A k \in 1 .. n : k - 1 \in I => k \in I
    PROVE  \A k \in 0 .. n : k \in I
<1>. DEFINE T == {k \in Nat : k <= n /\ k \notin I}
<1>1. T = {}
  <2>. SUFFICES ASSUME T # {} PROVE FALSE
    OBVIOUS
  <2>1. PICK x \in T : \A y \in T : x <= y
    <3>1. T \subseteq Nat
      OBVIOUS
    <3>. HIDE DEF T
    <3>. QED
      BY <3>1, LeastNumber
  <2>2. x \in 1 .. n /\ x - 1 \in Nat /\ x - 1 <= n /\ ~(x <= x - 1)
    BY <2>1
  <2>. QED
    BY <2>1, <2>2
<1>. QED
  BY <1>1

\* A run of a loop of n turns, of which the k-th makes step[k][x] of x.
IsRun(h, n, D, first, step) ==
    h \in [0 .. n -> D] /\ h[0] = first /\ \A k \in 1 .. n : h[k] = step[k][h[k - 1]]

LEMMA LoopRuns ==
    ASSUME NEW n \in Nat, NEW D, NEW first \in D, NEW step, step \in [1 .. n -> [D -> D]]
    PROVE  \E h : IsRun(h, n, D, first, step)
<1>. DEFINE IsPart(h, k) == /\ h \in [0 .. n -> D] /\ h[0] = first
                           /\ \A j \in 1 .. k : h[j] = step[j][h[j - 1]]
            I == {k \in 0 .. n : \E h : IsPart(h, k)}
<1>1. 0 \in I
  <2>1. 0 \in 0 .. n
    OBVIOUS
  <2>2. IsPart([k \in 0 .. n |-> first], 0)
    BY <2>1
  <2>. QED
    BY <2>1, <2>2
<1>2. ASSUME NEW k \in 1 .. n, k - 1 \in I PROVE k \in I
  <2>1. PICK h : IsPart(h, k - 1)
    BY <1>2
  <2>. DEFINE g == [h EXCEPT ![k] = step[k][h[k - 1]]]
  <2>2. /\ k \in 0 .. n /\ k - 1 \in 0 .. n /\ k # 0 /\ k - 1 # k
        /\ \A j \in 1 .. k - 1 : j \in 0 .. n /\ j - 1 \in 0 .. n /\ j # k /\ j - 1 # k
        /\ \A j \in 1 .. k : j = k \/ j \in 1 .. k - 1
    OBVIOUS
  <2>3. step[k][h[k - 1]] \in D
    BY <2>1, <2>2
  <2>4. g \in [0 .. n -> D] /\ g[k] = step[k][h[k - 1]] /\ \A j \in 0 .. n : j # k => g[j] = h[j]
    BY <2>1, <2>2, <2>3
  <2>. HIDE DEF g
  <2>5. IsPart(g, k)
    BY <2>1, <2>2, <2>4
  <2>. HIDE DEF IsPart
  <2>. QED
    BY <2>2, <2>5
<1>3. n \in I
  <2>1. n \in 0 .. n
    OBVIOUS
  <2>. HIDE DEF I
  <2>. QED
    BY <1>1, <1>2, <2>1, UpTo
<1>. QED
  BY <1>3 DEF IsRun

-----------------------------------------------------------------------------
(***************************************************************************)
(* The loops of the walk are what their equations say.                     *)
(***************************************************************************)
LEMMA Constant == MaxName \in Nat /\ Names = 1 .. MaxName /\ Dollar \subseteq Names
BY TopicTreeAssumption DEF Names

LEMMA BelowSteps ==
    ASSUME NEW tree \in SUBSET Nodes, NEW p \in tree, NEW called \in [tree -> Seq(tree)]
    PROVE  \E h \in [0 .. MaxName -> Seq(tree)] :
             /\ h[0] = <<p>>
             /\ \A n \in Names : h[n] = IF Visited(tree, p, n)
                                       THEN h[n - 1] \o called[Append(p, n)] ELSE h[n - 1]
             /\ Below(tree, p, called) = h[MaxName]
<1>. DEFINE D == Seq(tree)
            first == <<p>>
            N(n, found) == IF Visited(tree, p, n) THEN found \o called[Append(p, n)] ELSE found
            step == [n \in 1 .. MaxName |-> [found \in D |-> N(n, found)]]
            IsFound(f) == f = [n \in 0 .. MaxName |-> IF n = 0 THEN first ELSE N(n, f[n - 1])]
            found == CHOOSE f : IsFound(f)
<1>1. first \in D
  OBVIOUS
<1>2. ASSUME NEW n \in Names, NEW s \in D PROVE N(n, s) \in D
  <2>1. CASE Visited(tree, p, n)
    <3>1. called[Append(p, n)] \in Seq(tree)
      BY <2>1 DEF Visited, HasChild
    <3>. QED
      BY <2>1, <3>1, ConcatProperties
  <2>. QED
    BY <2>1
<1>. HIDE DEF D, N, first
<1>3. step \in [1 .. MaxName -> [D -> D]]
  BY <1>2, Constant
<1>4. PICK h : IsRun(h, MaxName, D, first, step)
  <2>1. MaxName \in Nat
    BY Constant
  <2>. HIDE DEF step
  <2>. QED
    BY <1>1, <1>3, <2>1, LoopRuns, Zenon
<1>5. \A n \in 1 .. MaxName : h[n] = N(n, h[n - 1])
  <2>1. \A n \in 1 .. MaxName : n - 1 \in 0 .. MaxName
    BY Constant
  <2>. QED
    BY <1>4, <2>1 DEF IsRun
<1>. HIDE DEF step
<1>6. IsFound(h)
  <2>1. \A n \in 0 .. MaxName : n = 0 \/ n \in 1 .. MaxName
    BY Constant
  <2>. QED
    BY <1>4, <1>5, <2>1 DEF IsRun
<1>7. IsFound(found)
  <2>. HIDE DEF IsFound
  <2>. QED
    BY <1>6
<1>8. Below(tree, p, called) = found[MaxName]
  BY DEF Below, N, first
<1>. HIDE DEF found
<1>9. found[0] = first /\ \A n \in 1 .. MaxName : found[n] = N(n, found[n - 1])
  <2>1. 0 \in 0 .. MaxName /\ \A n \in 1 .. MaxName : n # 0 /\ n \in 0 .. MaxName
    BY Constant
  <2>. QED
    BY <1>7, <2>1
<1>10. \A n \in 0 .. MaxName : found[n] \in D
  <2>. DEFINE I == {n \in 0 .. MaxName : found[n] \in D}
  <2>1. 0 \in I
    BY <1>1, <1>9, Constant
  <2>2. ASSUME NEW n \in 1 .. MaxName, n - 1 \in I PROVE n \in I
    <3>1. n \in Names /\ n \in 0 .. MaxName /\ found[n - 1] \in D
      BY <2>2, Constant
    <3>. QED
      BY <1>2, <1>9, <3>1
  <2>. HIDE DEF I
  <2>3. \A n \in 0 .. MaxName : n \in I
    BY <2>1, <2>2, Constant, UpTo
  <2>. QED
    BY <2>3 DEF I
<1>11. found \in [0 .. MaxName -> D]
  BY <1>7, <1>10
<1>. QED
  BY <1>8, <1>9, <1>11, Constant DEF D, N, first

LEMMA TreeFacts ==
    ASSUME NEW tree \in Trees
    PROVE  /\ tree \subseteq Nodes /\ IsFiniteSet(tree) /\ Root \in tree
           /\ Cardinality(tree) \in Nat /\ tree \in SUBSET Nodes
           /\ \A p \in tree : p \in Seq(Names) /\ Len(p) \in Nat
           /\ \A p \in tree \ {Root} : Front(p) \in tree
<1>1. tree \subseteq Nodes /\ IsFiniteSet(tree) /\ Root \in tree
      /\ \A p \in tree \ {Root} : Front(p) \in tree
  BY DEF Trees
<1>2. Cardinality(tree) \in Nat
  BY <1>1, FS_CardinalityType
<1>3. \A p \in tree : p \in Seq(Names) /\ Len(p) \in Nat
  BY <1>1, LenProperties DEF Nodes
<1>. QED
  BY <1>1, <1>2, <1>3

LEMMA FrontOfAppend ==
    ASSUME NEW p \in Nodes, NEW n \in Names
    PROVE  /\ Append(p, n) \in Nodes /\ Append(p, n) # Root /\ Front(Append(p, n)) = p
           /\ Len(Append(p, n)) = Len(p) + 1 /\ Append(p, n)[Len(p) + 1] = n
           /\ \A i \in 1 .. Len(p) : Append(p, n)[i] = p[i]
<1>1. /\ p \in Seq(Names) /\ Len(p) \in Nat
      /\ Append(p, n) \in Seq(Names) /\ Append(p, n) # <<>>
      /\ Len(Append(p, n)) = Len(p) + 1 /\ Append(p, n)[Len(p) + 1] = n
      /\ \A i \in 1 .. Len(p) : Append(p, n)[i] = p[i]
  BY AppendProperties, LenProperties DEF Nodes
<1>2. Front(Append(p, n)) = p
  <2>. DEFINE s == Append(p, n)
  <2>1. \A i \in 1 .. Len(p) : s[i] \in Names
    BY <1>1, ElementOfSeq
  <2>2. Front(s) = SubSeq(s, 1, Len(p))
    BY <1>1 DEF Front
  <2>. HIDE DEF s
  <2>3. /\ SubSeq(s, 1, Len(p)) \in Seq(Names)
        /\ Len(SubSeq(s, 1, Len(p))) = IF 1 <= Len(p) THEN Len(p) - 1 + 1 ELSE 0
        /\ \A i \in 1 .. Len(p) - 1 + 1 : SubSeq(s, 1, Len(p))[i] = s[1 + i - 1]
    BY <1>1, <2>1, SubSeqProperties
  <2>4. Len(SubSeq(s, 1, Len(p))) = Len(p)
    BY <1>1, <2>3
  <2>5. \A i \in 1 .. Len(p) : SubSeq(s, 1, Len(p))[i] = p[i]
    <3>1. \A i \in 1 .. Len(p) : i \in 1 .. Len(p) - 1 + 1 /\ 1 + i - 1 = i
      BY <1>1
    <3>. QED
      BY <1>1, <2>3, <3>1 DEF s
  <2>6. SubSeq(s, 1, Len(p)) = p
    BY <1>1, <2>3, <2>4, <2>5, SeqEqual
  <2>. QED
    BY <2>2, <2>6 DEF s
<1>. QED
  BY <1>1, <1>2 DEF Nodes, Root

LEMMA TreeGrows ==
    ASSUME NEW tree \in Trees, NEW p \in tree, NEW n \in Names
    PROVE  tree \cup {Append(p, n)} \in Trees
<1>. DEFINE q == Append(p, n)
<1>1. q \in Nodes /\ q # Root /\ Front(q) = p
  BY TreeFacts, FrontOfAppend
<1>2. IsFiniteSet(tree \cup {q})
  BY TreeFacts, FS_AddElement
<1>. HIDE DEF q
<1>3. tree \cup {q} \in SUBSET Nodes /\ Root \in tree \cup {q}
  BY <1>1, TreeFacts
<1>4. \A r \in (tree \cup {q}) \ {Root} : Front(r) \in tree \cup {q}
  BY <1>1, TreeFacts
<1>5. tree \cup {q} \in Trees
  BY <1>2, <1>3, <1>4 DEF Trees
<1>. QED
  BY <1>5 DEF q

LEMMA NumberSignSteps ==
    ASSUME NEW tree \in Trees, NEW p \in tree
    PROVE  \E h \in [0 .. Cardinality(tree) -> [tree -> Seq(tree)]] :
             /\ \A q \in tree : h[0][q] = <<>>
             /\ \A k \in 1 .. Cardinality(tree) : \A q \in tree : h[k][q] = Below(tree, q, h[k - 1])
             /\ NodesByNumberSign(tree, p) = h[Cardinality(tree)][p]
<1>. DEFINE c == Cardinality(tree)
            D == [tree -> Seq(tree)]
            first == [q \in tree |-> <<>>]
            N(f) == [q \in tree |-> Below(tree, q, f)]
            step == [k \in 1 .. c |-> [f \in D |-> N(f)]]
            IsNested(f) == f = [k \in 0 .. c |-> [q \in tree |->
                                   IF k = 0 THEN <<>> ELSE Below(tree, q, f[k - 1])]]
            nested == CHOOSE f : IsNested(f)
<1>0. c \in Nat /\ tree \in SUBSET Nodes
  BY TreeFacts
<1>1. first \in D
  BY EmptySeq
<1>2. ASSUME NEW f \in D PROVE N(f) \in D
  <2>1. ASSUME NEW q \in tree PROVE Below(tree, q, f) \in Seq(tree)
    <3>1. MaxName \in 0 .. MaxName
      BY Constant
    <3>2. PICK g \in [0 .. MaxName -> Seq(tree)] : Below(tree, q, f) = g[MaxName]
      BY <1>0, BelowSteps
    <3>. QED
      BY <3>1, <3>2
  <2>. QED
    BY <2>1
<1>. HIDE DEF D, c
<1>3. step \in [1 .. c -> [D -> D]]
  BY <1>2
<1>4. PICK h : IsRun(h, c, D, first, step)
  <2>. HIDE DEF step, first
  <2>. QED
    BY <1>0, <1>1, <1>3, LoopRuns, Zenon
<1>5. h \in [0 .. c -> D] /\ h[0] = first /\ \A k \in 1 .. c : h[k] = N(h[k - 1])
  <2>1. \A k \in 1 .. c : k - 1 \in 0 .. c
    BY <1>0
  <2>. QED
    BY <1>4, <2>1 DEF IsRun
<1>. HIDE DEF step
<1>6. IsNested(h)
  <2>1. ASSUME NEW k \in 0 .. c
        PROVE  h[k] = [q \in tree |-> IF k = 0 THEN <<>> ELSE Below(tree, q, h[k - 1])]
    <3>1. CASE k = 0
      BY <1>5, <3>1
    <3>2. CASE k # 0
      <4>1. k \in 1 .. c
        BY <1>0, <3>2
      <4>. QED
        BY <1>5, <3>2, <4>1
    <3>. QED
      BY <3>1, <3>2
  <2>. QED
    BY <1>5, <2>1
<1>7. IsNested(nested)
  <2>. HIDE DEF IsNested
  <2>. QED
    BY <1>6
<1>8. NodesByNumberSign(tree, p) = nested[c][p]
  BY DEF NodesByNumberSign, c
<1>. HIDE DEF nested
<1>9. /\ nested[0] = first /\ \A k \in 1 .. c : nested[k] = N(nested[k - 1])
  <2>1. 0 \in 0 .. c /\ \A k \in 1 .. c : k # 0 /\ k \in 0 .. c
    BY <1>0
  <2>2. nested[0] = first
    BY <1>7, <2>1
  <2>3. ASSUME NEW k \in 1 .. c PROVE nested[k] = N(nested[k - 1])
    BY <1>7, <2>1
  <2>. QED
    BY <2>2, <2>3
<1>10. \A k \in 0 .. c : nested[k] \in D
  <2>. DEFINE I == {k \in 0 .. c : nested[k] \in D}
  <2>1. 0 \in I
    BY <1>0, <1>1, <1>9
  <2>2. ASSUME NEW k \in 1 .. c, k - 1 \in I PROVE k \in I
    <3>1. k \in 0 .. c /\ nested[k - 1] \in D
      BY <1>0, <2>2
    <3>2. N(nested[k - 1]) \in D
      BY <1>2, <3>1
    <3>. QED
      BY <1>9, <3>1, <3>2
  <2>. HIDE DEF I
  <2>3. \A k \in 0 .. c : k \in I
    BY <1>0, <2>1, <2>2, UpTo
  <2>. QED
    BY <2>3 DEF I
<1>11. nested \in [0 .. c -> D]
  BY <1>7, <1>10
<1>12. /\ \A q \in tree : nested[0][q] = <<>>
       /\ \A k \in 1 .. c : \A q \in tree : nested[k][q] = Below(tree, q, nested[k - 1])
  BY <1>9
<1>. QED
  BY <1>8, <1>11, <1>12 DEF D, c

-----------------------------------------------------------------------------
(***************************************************************************)
(* What "#" finds.                                                         *)
(***************************************************************************)
\* p is q, or below it without a '$' name in between.
Beneath(p, q) ==
    /\ Len(q) <= Len(p) /\ \A i \in 1 .. Len(q) : p[i] = q[i]
    /\ \A i \in Len(q) + 1 .. Len(p) : p[i] \notin Dollar

LEMMA RangeOf ==
    ASSUME NEW S, NEW s \in Seq(S)
    PROVE  Range(s) = {s[i] : i \in 1 .. Len(s)} /\ Range(s) \subseteq S
BY LenProperties DEF Range

LEMMA RangeConcat ==
    ASSUME NEW S, NEW s \in Seq(S), NEW t \in Seq(S)
    PROVE  Range(s \o t) = Range(s) \cup Range(t)
<1>. DEFINE u == s \o t
<1>1. /\ u \in Seq(S) /\ Len(s) \in Nat /\ Len(t) \in Nat /\ Len(u) = Len(s) + Len(t)
      /\ \A i \in 1 .. Len(s) + Len(t) : u[i] = IF i <= Len(s) THEN s[i] ELSE t[i - Len(s)]
  BY ConcatProperties, LenProperties
<1>2. /\ Range(u) = {u[i] : i \in 1 .. Len(u)} /\ Range(s) = {s[i] : i \in 1 .. Len(s)}
      /\ Range(t) = {t[i] : i \in 1 .. Len(t)}
  BY <1>1, RangeOf
<1>. HIDE DEF u
<1>3. ASSUME NEW x \in Range(u) PROVE x \in Range(s) \cup Range(t)
  <2>1. PICK i \in 1 .. Len(u) : x = u[i]
    BY <1>2, <1>3
  <2>2. i \in 1 .. Len(s) \/ (i - Len(s) \in 1 .. Len(t) /\ ~(i <= Len(s)))
    BY <1>1, <2>1
  <2>. QED
    BY <1>1, <1>2, <2>1, <2>2
<1>4. ASSUME NEW x \in Range(s) PROVE x \in Range(u)
  <2>1. PICK i \in 1 .. Len(s) : x = s[i]
    BY <1>2, <1>4
  <2>2. i \in 1 .. Len(u) /\ i \in 1 .. Len(s) + Len(t) /\ i <= Len(s)
    BY <1>1, <2>1
  <2>. QED
    BY <1>1, <1>2, <2>1, <2>2
<1>5. ASSUME NEW x \in Range(t) PROVE x \in Range(u)
  <2>1. PICK i \in 1 .. Len(t) : x = t[i]
    BY <1>2, <1>5
  <2>2. /\ i + Len(s) \in 1 .. Len(u) /\ i + Len(s) \in 1 .. Len(s) + Len(t)
        /\ ~(i + Len(s) <= Len(s)) /\ (i + Len(s)) - Len(s) = i
    BY <1>1, <2>1
  <2>. QED
    BY <1>1, <1>2, <2>1, <2>2
<1>. QED
  BY <1>3, <1>4, <1>5 DEF u

\* What SubSeq of a path is.
LEMMA Beginning ==
    ASSUME NEW S, NEW p \in Seq(S), NEW k \in 0 .. Len(p)
    PROVE  /\ SubSeq(p, 1, k) \in Seq(S) /\ Len(SubSeq(p, 1, k)) = k
           /\ \A i \in 1 .. k : SubSeq(p, 1, k)[i] = p[i]
<1>1. Len(p) \in Nat /\ k \in Int /\ k \in Nat
  BY LenProperties
<1>2. \A i \in 1 .. k : p[i] \in S
  BY <1>1, ElementOfSeq
<1>3. /\ SubSeq(p, 1, k) \in Seq(S)
      /\ Len(SubSeq(p, 1, k)) = IF 1 <= k THEN k - 1 + 1 ELSE 0
      /\ \A i \in 1 .. k - 1 + 1 : SubSeq(p, 1, k)[i] = p[1 + i - 1]
  BY <1>1, <1>2, SubSeqProperties
<1>4. \A i \in 1 .. k : i \in 1 .. k - 1 + 1 /\ 1 + i - 1 = i
  BY <1>1
<1>5. Len(SubSeq(p, 1, k)) = k
  BY <1>1, <1>3
<1>. QED
  BY <1>3, <1>4, <1>5

\* A path is in its tree with all its beginnings.
LEMMA Beginnings ==
    ASSUME NEW tree \in Trees, NEW p \in tree
    PROVE  \A k \in 0 .. Len(p) : SubSeq(p, 1, k) \in tree
<1>. DEFINE n == Len(p)
            Part(k) == SubSeq(p, 1, k)
            I == {k \in 0 .. n : Part(n - k) \in tree}
<1>1. n \in Nat /\ p \in Seq(Names) /\ Part(n) = p
  BY TreeFacts, SubSeqFull
<1>2. ASSUME NEW k \in 0 .. n
      PROVE  Part(k) \in Seq(Names) /\ Len(Part(k)) = k /\ \A i \in 1 .. k : Part(k)[i] = p[i]
  BY <1>1, Beginning
<1>3. ASSUME NEW k \in 1 .. n, Part(k) \in tree PROVE Part(k - 1) \in tree
  <2>1. k \in 0 .. n /\ k - 1 \in 0 .. n /\ k - 1 \in 0 .. k /\ k # 0
    BY <1>1
  <2>2. Part(k) \in Seq(Names) /\ Len(Part(k)) = k /\ \A i \in 1 .. k : Part(k)[i] = p[i]
    BY <1>2, <2>1
  <2>3. Part(k) # Root
    BY <2>1, <2>2, EmptySeq DEF Root
  <2>4. Front(Part(k)) \in tree /\ Front(Part(k)) = SubSeq(Part(k), 1, k - 1)
    BY <1>3, <2>2, <2>3, TreeFacts DEF Front
  <2>. HIDE DEF Part
  <2>5. /\ SubSeq(Part(k), 1, k - 1) \in Seq(Names) /\ Len(SubSeq(Part(k), 1, k - 1)) = k - 1
        /\ \A i \in 1 .. k - 1 : SubSeq(Part(k), 1, k - 1)[i] = Part(k)[i]
    BY <2>1, <2>2, Beginning
  <2>6. /\ Part(k - 1) \in Seq(Names) /\ Len(Part(k - 1)) = k - 1
        /\ \A i \in 1 .. k - 1 : Part(k - 1)[i] = p[i]
    BY <1>2, <2>1
  <2>7. \A i \in 1 .. k - 1 : i \in 1 .. k
    BY <2>1
  <2>8. \A i \in 1 .. k - 1 : SubSeq(Part(k), 1, k - 1)[i] = Part(k - 1)[i]
    BY <2>2, <2>5, <2>6, <2>7
  <2>9. SubSeq(Part(k), 1, k - 1) = Part(k - 1)
    BY <2>5, <2>6, <2>8, SeqEqual
  <2>. QED
    BY <2>4, <2>9
<1>. HIDE DEF n, Part
<1>4. 0 \in I
  <2>1. 0 \in 0 .. n /\ n - 0 = n
    BY <1>1
  <2>. QED
    BY <1>1, <2>1
<1>5. ASSUME NEW k \in 1 .. n, k - 1 \in I PROVE k \in I
  <2>1. n - (k - 1) \in 1 .. n /\ n - k = (n - (k - 1)) - 1 /\ k \in 0 .. n
    BY <1>1
  <2>. QED
    BY <1>3, <1>5, <2>1
<1>. HIDE DEF I
<1>6. \A k \in 0 .. n : k \in I
  BY <1>1, <1>4, <1>5, UpTo
<1>7. ASSUME NEW k \in 0 .. n PROVE Part(k) \in tree
  <2>1. n - k \in 0 .. n /\ n - (n - k) = k
    BY <1>1
  <2>. QED
    BY <1>6, <2>1 DEF I
<1>. QED
  BY <1>7 DEF n, Part

LEMMA BelowFinds ==
    ASSUME NEW tree \in Trees, NEW p \in tree, NEW called \in [tree -> Seq(tree)]
    PROVE  \A q : q \in Range(Below(tree, p, called)) <=>
             q = p \/ \E n \in Names : Visited(tree, p, n) /\ q \in Range(called[Append(p, n)])
<1>1. tree \in SUBSET Nodes
  BY TreeFacts
<1>2. PICK h \in [0 .. MaxName -> Seq(tree)] :
        /\ h[0] = <<p>>
        /\ \A n \in Names : h[n] = IF Visited(tree, p, n)
                                  THEN h[n - 1] \o called[Append(p, n)] ELSE h[n - 1]
        /\ Below(tree, p, called) = h[MaxName]
  BY <1>1, BelowSteps
<1>. DEFINE Found(k, q) == q = p \/ \E n \in 1 .. k : /\ Visited(tree, p, n)
                                                 /\ q \in Range(called[Append(p, n)])
            I == {k \in 0 .. MaxName : \A q : q \in Range(h[k]) <=> Found(k, q)}
<1>3. 0 \in I
  <2>1. Range(<<p>>) = {p} /\ 0 \in 0 .. MaxName /\ 1 .. 0 = {}
    BY Constant DEF Range
  <2>. QED
    BY <1>2, <2>1
<1>4. ASSUME NEW k \in 1 .. MaxName, k - 1 \in I PROVE k \in I
  <2>1. /\ k \in Names /\ k \in 0 .. MaxName /\ k - 1 \in 0 .. MaxName
        /\ \A n : n \in 1 .. k <=> n \in 1 .. k - 1 \/ n = k
    BY Constant
  <2>2. \A q : q \in Range(h[k - 1]) <=> Found(k - 1, q)
    BY <1>4
  <2>3. CASE Visited(tree, p, k)
    <3>1. /\ h[k - 1] \in Seq(tree) /\ called[Append(p, k)] \in Seq(tree)
          /\ h[k] = h[k - 1] \o called[Append(p, k)]
      BY <1>2, <2>1, <2>3 DEF Visited, HasChild
    <3>2. Range(h[k]) = Range(h[k - 1]) \cup Range(called[Append(p, k)])
      BY <3>1, RangeConcat
    <3>. QED
      BY <2>1, <2>2, <2>3, <3>2
  <2>4. CASE ~Visited(tree, p, k)
    <3>1. h[k] = h[k - 1]
      BY <1>2, <2>1, <2>4
    <3>. QED
      BY <2>1, <2>2, <2>4, <3>1
  <2>. QED
    BY <2>3, <2>4
<1>. HIDE DEF I
<1>5. \A k \in 0 .. MaxName : k \in I
  BY <1>3, <1>4, Constant, UpTo
<1>6. MaxName \in 0 .. MaxName /\ Names = 1 .. MaxName
  BY Constant
<1>7. \A q : q \in Range(h[MaxName]) <=> Found(MaxName, q)
  BY <1>5, <1>6 DEF I
<1>. QED
  BY <1>2, <1>6, <1>7

LEMMA BeneathChild ==
    ASSUME NEW tree \in Trees, NEW q \in tree, NEW p \in tree
    PROVE  /\ Beneath(p, q) /\ p # q =>
                \E n \in Names : Visited(tree, q, n) /\ Beneath(p, Append(q, n))
           /\ \A n \in Names : Visited(tree, q, n) /\ Beneath(p, Append(q, n)) => Beneath(p, q)
           /\ Beneath(q, q)
<1>1. /\ p \in Seq(Names) /\ q \in Seq(Names) /\ q \in Nodes /\ Len(p) \in Nat /\ Len(q) \in Nat
      /\ \A i \in 1 .. Len(p) : p[i] \in Names
  BY TreeFacts, ElementOfSeq
<1>2. ASSUME NEW n \in Names
      PROVE  /\ Append(q, n) \in Seq(Names) /\ Len(Append(q, n)) = Len(q) + 1
             /\ Append(q, n)[Len(q) + 1] = n /\ \A i \in 1 .. Len(q) : Append(q, n)[i] = q[i]
  BY <1>1, FrontOfAppend DEF Nodes
<1>3. ASSUME Beneath(p, q), p # q
      PROVE  \E n \in Names : Visited(tree, q, n) /\ Beneath(p, Append(q, n))
  <2>. DEFINE n == p[Len(q) + 1]
  <2>1. Len(q) <= Len(p) /\ \A i \in 1 .. Len(q) : p[i] = q[i]
    BY <1>3 DEF Beneath
  <2>2. Len(q) # Len(p)
    BY <1>1, <1>3, <2>1, SeqEqual
  <2>3. /\ Len(q) + 1 \in 1 .. Len(p) /\ Len(q) + 1 \in 0 .. Len(p)
        /\ Len(q) + 1 \in Len(q) + 1 .. Len(p)
        /\ \A i \in 1 .. Len(q) + 1 : i \in 1 .. Len(q) \/ i = Len(q) + 1
    BY <1>1, <2>1, <2>2
  <2>4. n \in Names /\ n \notin Dollar
    BY <1>1, <1>3, <2>3 DEF Beneath
  <2>. HIDE DEF n
  <2>5. /\ SubSeq(p, 1, Len(q) + 1) \in Seq(Names) /\ Len(SubSeq(p, 1, Len(q) + 1)) = Len(q) + 1
        /\ \A i \in 1 .. Len(q) + 1 : SubSeq(p, 1, Len(q) + 1)[i] = p[i]
    BY <1>1, <2>3, Beginning
  <2>6. \A i \in 1 .. Len(q) + 1 : Append(q, n)[i] = p[i]
    BY <1>2, <2>1, <2>3, <2>4 DEF n
  <2>7. Append(q, n) = SubSeq(p, 1, Len(q) + 1)
    BY <1>2, <2>4, <2>5, <2>6, SeqEqual
  <2>8. Append(q, n) \in tree
    BY <2>3, <2>7, Beginnings
  <2>9. Beneath(p, Append(q, n))
    <3>1. Len(Append(q, n)) = Len(q) + 1 /\ Len(q) + 1 <= Len(p)
          /\ \A i \in (Len(q) + 1) + 1 .. Len(p) : i \in Len(q) + 1 .. Len(p)
      BY <1>1, <1>2, <2>3, <2>4
    <3>. QED
      BY <1>3, <2>6, <3>1 DEF Beneath
  <2>. QED
    BY <2>4, <2>8, <2>9 DEF Visited, HasChild
<1>4. ASSUME NEW n \in Names, Visited(tree, q, n), Beneath(p, Append(q, n)) PROVE Beneath(p, q)
  <2>1. /\ Len(q) + 1 <= Len(p)
        /\ \A i \in 1 .. Len(q) + 1 : p[i] = Append(q, n)[i]
        /\ \A i \in (Len(q) + 1) + 1 .. Len(p) : p[i] \notin Dollar
    BY <1>2, <1>4 DEF Beneath
  <2>2. p[Len(q) + 1] = n /\ n \notin Dollar
    BY <1>1, <1>2, <1>4, <2>1 DEF Visited
  <2>3. \A i \in 1 .. Len(q) : p[i] = q[i]
    BY <1>1, <1>2, <2>1
  <2>4. \A i \in Len(q) + 1 .. Len(p) : i = Len(q) + 1 \/ i \in (Len(q) + 1) + 1 .. Len(p)
    BY <1>1
  <2>5. Len(q) <= Len(p)
    BY <1>1, <2>1
  <2>. QED
    BY <2>1, <2>2, <2>3, <2>4, <2>5 DEF Beneath
<1>5. Beneath(q, q)
  BY <1>1 DEF Beneath
<1>. QED
  BY <1>3, <1>4, <1>5

LEMMA PathsAreShort ==
    ASSUME NEW tree \in Trees, NEW p \in tree
    PROVE  Len(p) < Cardinality(tree)
<1>. DEFINE n == Len(p)
            f == [k \in 0 .. n |-> SubSeq(p, 1, k)]
<1>1. n \in Nat /\ IsFiniteSet(tree) /\ Cardinality(tree) \in Nat /\ p \in Seq(Names)
  BY TreeFacts
<1>2. f \in [0 .. n -> tree]
  BY Beginnings
<1>3. \A k \in 0 .. n : Len(f[k]) = k
  BY <1>1, Beginning
<1>. HIDE DEF f, n
<1>4. IsFiniteSet(0 .. n) /\ Cardinality(0 .. n) = n + 1
  <2>1. 0 \in Int /\ n \in Int
    BY <1>1
  <2>2. IsFiniteSet(0 .. n) /\ Cardinality(0 .. n) = IF 0 > n THEN 0 ELSE n - 0 + 1
    BY <2>1, FS_Interval
  <2>. QED
    BY <1>1, <2>2
<1>. SUFFICES ASSUME ~(n < Cardinality(tree)) PROVE FALSE
  BY DEF n
<1>5. Cardinality(tree) < Cardinality(0 .. n)
  BY <1>1, <1>4
<1>6. \E x, y \in 0 .. n : x # y /\ f[x] = f[y]
  BY <1>1, <1>2, <1>4, <1>5, FS_PigeonHole
<1>. QED
  BY <1>3, <1>6

\* "#" finds every node but those with a '$' name on their path.
LEMMA NumberSignFinds ==
    ASSUME NEW tree \in Trees
    PROVE  /\ NodesByNumberSign(tree, Root) \in Seq(tree)
           /\ Range(NodesByNumberSign(tree, Root)) = {p \in tree : Range(p) \cap Dollar = {}}
           /\ Root \in Range(NodesByNumberSign(tree, Root))
<1>. DEFINE c == Cardinality(tree)
<1>1. c \in Nat /\ Root \in tree
  BY TreeFacts
<1>2. PICK h \in [0 .. c -> [tree -> Seq(tree)]] :
        /\ \A q \in tree : h[0][q] = <<>>
        /\ \A k \in 1 .. c : \A q \in tree : h[k][q] = Below(tree, q, h[k - 1])
        /\ NodesByNumberSign(tree, Root) = h[c][Root]
  BY <1>1, NumberSignSteps
<1>. HIDE DEF c
<1>. DEFINE Reached(k, q, p) == p \in tree /\ Beneath(p, q) /\ Len(p) - Len(q) < k
            I == {k \in 0 .. c : \A q \in tree : \A p : p \in Range(h[k][q]) <=> Reached(k, q, p)}
<1>3. 0 \in I
  <2>1. 0 \in 0 .. c
    BY <1>1
  <2>2. ASSUME NEW q \in tree, NEW p PROVE p \notin Range(h[0][q]) /\ ~Reached(0, q, p)
    <3>1. p \notin Range(h[0][q])
      BY <1>2 DEF Range
    <3>2. p \in tree /\ Beneath(p, q) => Len(p) - Len(q) >= 0
      BY TreeFacts DEF Beneath
    <3>3. p \in tree => Len(p) - Len(q) \in Int
      BY TreeFacts
    <3>. QED
      BY <3>1, <3>2, <3>3
  <2>. QED
    BY <2>1, <2>2
<1>4. ASSUME NEW k \in 1 .. c, k - 1 \in I PROVE k \in I
  <2>1. k \in 0 .. c /\ k - 1 \in 0 .. c /\ k \in Nat /\ k >= 1
    BY <1>1
  <2>2. \A q \in tree : \A p : p \in Range(h[k - 1][q]) <=> Reached(k - 1, q, p)
    BY <1>4
  <2>. HIDE DEF I
  <2>3. ASSUME NEW q \in tree, NEW p PROVE p \in Range(h[k][q]) <=> Reached(k, q, p)
    <3>1. h[k - 1] \in [tree -> Seq(tree)] /\ h[k][q] = Below(tree, q, h[k - 1])
      BY <1>2, <2>1
    <3>2. p \in Range(h[k][q]) <=>
            p = q \/ \E n \in Names : Visited(tree, q, n) /\ p \in Range(h[k - 1][Append(q, n)])
      BY <3>1, BelowFinds
    <3>3. ASSUME NEW n \in Names, Visited(tree, q, n)
          PROVE  p \in Range(h[k - 1][Append(q, n)]) <=> Reached(k - 1, Append(q, n), p)
      BY <2>2, <3>3 DEF Visited, HasChild
    <3>4. ASSUME NEW n \in Names PROVE Len(Append(q, n)) = Len(q) + 1
      BY TreeFacts, FrontOfAppend
    <3>5. Len(q) \in Nat /\ Len(q) - Len(q) < k
      <4>1. Len(q) \in Nat
        BY TreeFacts
      <4>. QED
        BY <2>1, <4>1
    <3>6. CASE p \notin tree
      BY <3>2, <3>3, <3>6
    <3>7. CASE p \in tree
      <4>1. /\ Beneath(p, q) /\ p # q =>
                 \E n \in Names : Visited(tree, q, n) /\ Beneath(p, Append(q, n))
            /\ \A n \in Names : Visited(tree, q, n) /\ Beneath(p, Append(q, n)) => Beneath(p, q)
            /\ Beneath(q, q)
        BY <3>7, BeneathChild
      <4>2. Len(p) \in Nat
        BY <3>7, TreeFacts
      <4>3. ASSUME NEW n \in Names
            PROVE  Len(p) - Len(Append(q, n)) < k - 1 <=> Len(p) - Len(q) < k
        BY <2>1, <3>4, <3>5, <4>2
      <4>4. ASSUME NEW n \in Names, Visited(tree, q, n)
            PROVE  p \in Range(h[k - 1][Append(q, n)]) <=>
                     Beneath(p, Append(q, n)) /\ Len(p) - Len(q) < k
        BY <3>3, <3>7, <4>3, <4>4
      <4>. HIDE DEF Reached
      <4>5. p \in Range(h[k][q]) <=> Beneath(p, q) /\ Len(p) - Len(q) < k
        BY <3>2, <3>5, <4>1, <4>4
      <4>. QED
        BY <3>7, <4>5 DEF Reached
    <3>. QED
      BY <3>6, <3>7
  <2>. QED
    BY <2>1, <2>3 DEF I
<1>. HIDE DEF I
<1>5. c \in I /\ c \in 0 .. c
  <2>1. c \in 0 .. c
    BY <1>1
  <2>. QED
    BY <1>1, <1>3, <1>4, <2>1, UpTo
<1>6. \A p : p \in Range(h[c][Root]) <=> Reached(c, Root, p)
  BY <1>1, <1>5 DEF I
<1>7. ASSUME NEW p \in tree PROVE Reached(c, Root, p) <=> Range(p) \cap Dollar = {}
  <2>1. p \in Seq(Names) /\ Len(p) \in Nat /\ Len(Root) = 0 /\ Len(p) - 0 = Len(p) /\ Len(p) < c
    BY TreeFacts, PathsAreShort, EmptySeq DEF Root, c
  <2>2. Range(p) = {p[i] : i \in 1 .. Len(p)}
    BY <2>1, RangeOf
  <2>3. 0 + 1 .. Len(p) = 1 .. Len(p) /\ 0 <= Len(p) /\ 1 .. 0 = {}
    BY <2>1
  <2>4. Beneath(p, Root) <=> \A i \in 1 .. Len(p) : p[i] \notin Dollar
    BY <2>1, <2>3 DEF Beneath
  <2>. QED
    BY <2>1, <2>2, <2>4
<1>8. Range(Root) = {}
  BY DEF Root, Range
<1>9. h[c][Root] \in Seq(tree)
  BY <1>1, <1>5
<1>. HIDE DEF Reached
<1>10. Range(h[c][Root]) = {p \in tree : Range(p) \cap Dollar = {}}
  <2>1. \A p \in Range(h[c][Root]) : p \in tree
    BY <1>9, RangeOf
  <2>. QED
    BY <1>6, <1>7, <2>1
<1>. QED
  BY <1>1, <1>2, <1>8, <1>9, <1>10

-----------------------------------------------------------------------------
(***************************************************************************)
(* The states of a walk.                                                   *)
(***************************************************************************)
Errors == {"NO_ERROR", "MULTI_LEVEL_WILDCARD_MUST_BE_ON_TAIL",
           "WILDCARD_MUST_NOT_BE_ADJACENT_TO_NAME"}
Walks == {w \in [tree : Trees, at : Nodes, found : Seq(Nodes), err : Errors] :
            w.at \in w.tree /\ w.found \in Seq(w.tree)}

\* The topics that a walk ends on with an error.
Bad(topic) == \E i \in 1 .. Len(topic) :
    topic[i] = Adjacent \/ (topic[i] = Hash /\ i # Len(topic))

\* What a walk of the topic may make of the tree.
Runs(tree, topic, add) == {w \in Walks : /\ tree \subseteq w.tree
                                         /\ ~add => w.tree = tree
                                         /\ ~Bad(topic) => w.err = "NO_ERROR"}
Getters(add) == {g \in [Requests -> Walks] :
                   \A q \in Requests : g[q] \in Runs(q.tree, q.topic, add)}

\* w is v or comes after it.
Later(v, w) == /\ v.tree \subseteq w.tree /\ Range(v.found) \subseteq Range(w.found)
               /\ v.err # "NO_ERROR" => w.err # "NO_ERROR"

LEMMA WalkFacts ==
    ASSUME NEW w \in Walks
    PROVE  /\ w = [tree |-> w.tree, at |-> w.at, found |-> w.found, err |-> w.err]
           /\ w.tree \in Trees /\ w.at \in w.tree /\ w.at \in Nodes /\ w.found \in Seq(w.tree)
           /\ w.found \in Seq(Nodes) /\ w.err \in Errors
BY DEF Walks

LEMMA WiderSeq ==
    ASSUME NEW S, NEW T, S \subseteq T, NEW s \in Seq(S)
    PROVE  s \in Seq(T)
<1>1. Len(s) \in Nat /\ s \in [1 .. Len(s) -> S]
  BY LenProperties
<1>2. s \in [1 .. Len(s) -> T]
  BY <1>1
<1>. QED
  BY <1>1, <1>2, SeqDef

\* The state with these parts.
LEMMA WalkWith ==
    ASSUME NEW tree \in Trees, NEW at \in tree, NEW found \in Seq(tree), NEW err \in Errors
    PROVE  [tree |-> tree, at |-> at, found |-> found, err |-> err] \in Walks
<1>1. tree \subseteq Nodes
  BY TreeFacts
<1>2. found \in Seq(Nodes)
  BY <1>1, WiderSeq
<1>. QED
  BY <1>1, <1>2 DEF Walks

LEMMA StartRuns ==
    ASSUME NEW tree \in Trees, NEW topic, NEW add \in BOOLEAN
    PROVE  Start(tree) \in Runs(tree, topic, add)
<1>1. Root \in tree /\ <<>> \in Seq(tree) /\ "NO_ERROR" \in Errors
  BY TreeFacts, EmptySeq DEF Errors
<1>2. Start(tree) \in Walks
  BY <1>1, WalkWith DEF Start
<1>. QED
  BY <1>2 DEF Start, Runs

LEMMA RangeAppend ==
    ASSUME NEW S, NEW s \in Seq(S), NEW e \in S
    PROVE  Append(s, e) \in Seq(S) /\ Range(Append(s, e)) = Range(s) \cup {e}
<1>1. /\ Append(s, e) \in Seq(S) /\ Len(s) \in Nat /\ Len(Append(s, e)) = Len(s) + 1
      /\ \A i \in 1 .. Len(s) : Append(s, e)[i] = s[i]
      /\ Append(s, e)[Len(s) + 1] = e
  BY AppendProperties, LenProperties
<1>2. /\ Range(Append(s, e)) = {Append(s, e)[i] : i \in 1 .. Len(s) + 1}
      /\ Range(s) = {s[i] : i \in 1 .. Len(s)}
  BY <1>1, RangeOf
<1>3. \A i : i \in 1 .. Len(s) + 1 <=> i \in 1 .. Len(s) \/ i = Len(s) + 1
  BY <1>1
<1>. QED
  BY <1>1, <1>2, <1>3

-----------------------------------------------------------------------------
(***************************************************************************)
(* The parts of a topic, one at a time.                                    *)
(***************************************************************************)
NameIs(w, topic, i, add) ==
    LET next == Append(w.at, topic[i])
        v == WalkName(w, topic, i, add)
    IN  /\ v \in Walks /\ Later(w, v) /\ v.err = w.err /\ (~add => v.tree = w.tree)
        /\ (next \notin w.tree /\ ~add) => v = w
        /\ (next \in w.tree \/ add) =>
             /\ v.tree = w.tree \cup {next} /\ v.at = next
             /\ v.found = IF i = Len(topic) THEN Append(w.found, next) ELSE w.found

LEMMA NameStep ==
    ASSUME NEW w \in Walks, NEW topic \in Seq(Parts), NEW i \in 1 .. Len(topic),
           topic[i] \in Names, NEW add \in BOOLEAN
    PROVE  NameIs(w, topic, i, add)
<1>. DEFINE next == Append(w.at, topic[i])
            v == WalkName(w, topic, i, add)
<1>1. CASE next \notin w.tree /\ ~add
  <2>1. v = w
    BY <1>1 DEF WalkName
  <2>. QED
    BY <1>1, <2>1 DEF NameIs, Later
<1>2. CASE next \in w.tree \/ add
  <2>. DEFINE found == IF i = Len(topic) THEN Append(w.found, next) ELSE w.found
  <2>1. v = [w EXCEPT !.tree = @ \cup {next}, !.at = next,
                      !.found = IF i = Len(topic) THEN Append(@, next) ELSE @]
    BY <1>2 DEF WalkName
  <2>2. /\ w = [tree |-> w.tree, at |-> w.at, found |-> w.found, err |-> w.err]
        /\ w.tree \in Trees /\ w.at \in w.tree /\ w.found \in Seq(w.tree) /\ w.err \in Errors
    BY WalkFacts
  <2>3. v = [tree |-> w.tree \cup {next}, at |-> next, found |-> found, err |-> w.err]
    BY <2>1, <2>2
  <2>4. w.tree \cup {next} \in Trees
    BY <2>2, TreeGrows
  <2>. HIDE DEF next, v
  <2>5. w.found \in Seq(w.tree \cup {next})
    BY <2>2, WiderSeq
  <2>6. found \in Seq(w.tree \cup {next}) /\ Range(w.found) \subseteq Range(found)
    BY <2>5, RangeAppend
  <2>. HIDE DEF found
  <2>7. v \in Walks
    BY <2>2, <2>3, <2>4, <2>6, WalkWith
  <2>8. v.tree = w.tree \cup {next} /\ v.at = next /\ v.found = found /\ v.err = w.err
    BY <2>3
  <2>9. Later(w, v) /\ (~add => v.tree = w.tree)
    BY <1>2, <2>6, <2>8 DEF Later
  <2>. QED
    BY <1>2, <2>7, <2>8, <2>9 DEF NameIs, next, v, found
<1>. QED
  BY <1>1, <1>2 DEF NameIs

\* The first "+" of a topic, and the topic with a name for it.
LEMMA FirstPlusIs ==
    ASSUME NEW topic \in Seq(Parts), NEW i \in 1 .. Len(topic), topic[i] = Plus
    PROVE  /\ FirstPlus(topic) \in 1 .. Len(topic) /\ topic[FirstPlus(topic)] = Plus
           /\ \A j \in 1 .. FirstPlus(topic) - 1 : topic[j] # Plus
<1>. DEFINE T == {j \in 1 .. Len(topic) : topic[j] = Plus}
            IsFirst(j) == topic[j] = Plus /\ \A k \in 1 .. j - 1 : topic[k] # Plus
<1>1. Len(topic) \in Nat /\ DOMAIN topic = 1 .. Len(topic)
  BY LenProperties
<1>2. T \subseteq Nat /\ i \in T
  BY <1>1
<1>. HIDE DEF T
<1>3. PICK j \in T : \A k \in T : j <= k
  BY <1>2, LeastNumber
<1>4. j \in 1 .. Len(topic) /\ IsFirst(j)
  <2>1. j \in 1 .. Len(topic) /\ topic[j] = Plus
    BY DEF T
  <2>2. ASSUME NEW k \in 1 .. j - 1 PROVE topic[k] # Plus
    <3>1. k \in 1 .. Len(topic) /\ ~(j <= k)
      BY <1>1, <2>1
    <3>. QED
      BY <1>3, <3>1 DEF T
  <2>. QED
    BY <2>1, <2>2
<1>. HIDE DEF IsFirst
<1>5. FirstPlus(topic) = CHOOSE k \in DOMAIN topic : IsFirst(k)
  BY DEF FirstPlus, IsFirst
<1>6. FirstPlus(topic) \in 1 .. Len(topic) /\ IsFirst(FirstPlus(topic))
  BY <1>1, <1>4, <1>5
<1>. QED
  BY <1>6 DEF IsFirst

LEMMA FilledIs ==
    ASSUME NEW topic \in Seq(Parts), NEW i \in 1 .. Len(topic), topic[i] = Plus, NEW n \in Names
    PROVE  /\ Filled(topic, n) \in Seq(Parts) /\ Len(Filled(topic, n)) = Len(topic)
           /\ \A j \in 1 .. Len(topic) :
                Filled(topic, n)[j] = IF j = FirstPlus(topic) THEN n ELSE topic[j]
           /\ Bad(Filled(topic, n)) <=> Bad(topic)
<1>1. FirstPlus(topic) \in 1 .. Len(topic) /\ topic[FirstPlus(topic)] = Plus /\ n \in Parts
  BY FirstPlusIs DEF Parts
<1>2. /\ Filled(topic, n) \in Seq(Parts) /\ Len(Filled(topic, n)) = Len(topic)
      /\ \A j \in 1 .. Len(topic) :
           Filled(topic, n)[j] = IF j = FirstPlus(topic) THEN n ELSE topic[j]
  BY <1>1, ExceptSeq DEF Filled
<1>3. n # Adjacent /\ n # Hash /\ Plus # Adjacent /\ Plus # Hash
  BY Constant DEF Adjacent, Hash, Plus
<1>4. Bad(Filled(topic, n)) <=> Bad(topic)
  BY <1>1, <1>2, <1>3 DEF Bad
<1>. QED
  BY <1>2, <1>4

\* What WalkPlus does with the child n.
Visit(v, topic, n, again) ==
    LET r == again[[tree |-> v.tree, topic |-> Filled(topic, n)]]
    IN  IF v.err # "NO_ERROR" \/ ~Visited(v.tree, v.at, n) THEN v
        ELSE [v EXCEPT !.tree = r.tree, !.err = r.err, !.found = @ \o r.found]

VisitIs(tree, topic, v, n, add, g) ==
    LET q == [tree |-> v.tree, topic |-> Filled(topic, n)]
        x == Visit(v, topic, n, g)
    IN  /\ q \in Requests /\ g[q] \in Runs(v.tree, Filled(topic, n), add)
        /\ x \in Runs(tree, topic, add) /\ Later(v, x) /\ x.at = v.at
        /\ v.err # "NO_ERROR" \/ ~Visited(v.tree, v.at, n) => x = v
        /\ v.err = "NO_ERROR" /\ Visited(v.tree, v.at, n) =>
             /\ x.tree = g[q].tree /\ x.err = g[q].err
             /\ x.found = v.found \o g[q].found
             /\ Range(x.found) = Range(v.found) \cup Range(g[q].found)

LEMMA VisitStep ==
    ASSUME NEW add \in BOOLEAN, NEW g \in Getters(add), NEW tree \in Trees,
           NEW topic \in Seq(Parts), NEW i \in 1 .. Len(topic), topic[i] = Plus,
           NEW v \in Runs(tree, topic, add), NEW n \in Names
    PROVE  VisitIs(tree, topic, v, n, add, g)
<1>. DEFINE q == [tree |-> v.tree, topic |-> Filled(topic, n)]
            x == Visit(v, topic, n, g)
            r == g[q]
<1>1. /\ v \in Walks /\ tree \subseteq v.tree /\ (~add => v.tree = tree)
      /\ ~Bad(topic) => v.err = "NO_ERROR"
  BY DEF Runs
<1>2. /\ v = [tree |-> v.tree, at |-> v.at, found |-> v.found, err |-> v.err]
      /\ v.tree \in Trees /\ v.at \in v.tree /\ v.found \in Seq(v.tree) /\ v.err \in Errors
  BY <1>1, WalkFacts
<1>3. Filled(topic, n) \in Seq(Parts) /\ (Bad(Filled(topic, n)) <=> Bad(topic))
  BY FilledIs
<1>4. q \in Requests /\ q.tree = v.tree /\ q.topic = Filled(topic, n)
  BY <1>2, <1>3 DEF Requests
<1>. HIDE DEF q
<1>5. r \in Runs(v.tree, Filled(topic, n), add)
  BY <1>4 DEF Getters
<1>. HIDE DEF r
<1>6. /\ r \in Walks /\ v.tree \subseteq r.tree /\ (~add => r.tree = v.tree)
      /\ ~Bad(topic) => r.err = "NO_ERROR"
  BY <1>3, <1>5 DEF Runs
<1>7. CASE v.err # "NO_ERROR" \/ ~Visited(v.tree, v.at, n)
  <2>1. x = v
    BY <1>7 DEF Visit
  <2>. QED
    BY <1>4, <1>5, <1>7, <2>1 DEF VisitIs, Later, q, r
<1>8. CASE v.err = "NO_ERROR" /\ Visited(v.tree, v.at, n)
  <2>1. x = [v EXCEPT !.tree = r.tree, !.err = r.err, !.found = @ \o r.found]
    BY <1>8 DEF Visit, q, r
  <2>2. x = [tree |-> r.tree, at |-> v.at, found |-> v.found \o r.found, err |-> r.err]
    BY <1>2, <2>1
  <2>3. r.tree \in Trees /\ r.found \in Seq(r.tree) /\ r.err \in Errors
    BY <1>6, WalkFacts
  <2>4. v.found \in Seq(r.tree)
    BY <1>2, <1>6, WiderSeq
  <2>5. /\ v.found \o r.found \in Seq(r.tree)
        /\ Range(v.found \o r.found) = Range(v.found) \cup Range(r.found)
    <3>. DEFINE s == v.found
                t == r.found
                S == r.tree
    <3>1. s \in Seq(S) /\ t \in Seq(S)
      BY <2>3, <2>4
    <3>. HIDE DEF s, t, S
    <3>2. s \o t \in Seq(S)
      BY <3>1, ConcatProperties
    <3>3. Range(s \o t) = Range(s) \cup Range(t)
      BY <3>1, RangeConcat
    <3>. QED
      BY <3>2, <3>3 DEF s, t, S
  <2>6. v.at \in r.tree
    BY <1>2, <1>6
  <2>. HIDE DEF x
  <2>7. /\ x.tree = r.tree /\ x.at = v.at /\ x.found = v.found \o r.found /\ x.err = r.err
    BY <2>2
  <2>8. x \in Walks
    BY <2>2, <2>3, <2>5, <2>6, WalkWith
  <2>9. x \in Runs(tree, topic, add)
    BY <1>1, <1>6, <2>7, <2>8 DEF Runs
  <2>10. Later(v, x)
    BY <1>6, <1>8, <2>5, <2>7 DEF Later
  <2>. QED
    BY <1>4, <1>5, <1>8, <2>5, <2>7, <2>9, <2>10 DEF VisitIs, q, r, x
<1>. QED
  BY <1>7, <1>8 DEF VisitIs

PlusRuns(tree, topic, w, add, g) ==
    \E h \in [0 .. MaxName -> Runs(tree, topic, add)] :
      /\ h[0] = w
      /\ \A n \in Names : h[n] = Visit(h[n - 1], topic, n, g)
      /\ WalkPlus(w, topic, g) = h[MaxName]

LEMMA PlusSteps ==
    ASSUME NEW add \in BOOLEAN, NEW g \in Getters(add), NEW tree \in Trees,
           NEW topic \in Seq(Parts), NEW i \in 1 .. Len(topic), topic[i] = Plus,
           NEW w \in Runs(tree, topic, add)
    PROVE  PlusRuns(tree, topic, w, add, g)
<1>. DEFINE D == Runs(tree, topic, add)
            N(n, v) == Visit(v, topic, n, g)
            step == [n \in 1 .. MaxName |-> [v \in D |-> N(n, v)]]
            IsVisit(f) == f = [n \in 0 .. MaxName |-> IF n = 0 THEN w ELSE N(n, f[n - 1])]
            visit == CHOOSE f : IsVisit(f)
<1>1. ASSUME NEW n \in Names, NEW v \in D PROVE N(n, v) \in D
  BY VisitStep DEF VisitIs
<1>2. WalkPlus(w, topic, g) = visit[MaxName]
  BY DEF WalkPlus, Visit
<1>3. w \in D
  OBVIOUS
<1>. HIDE DEF D, N
<1>4. step \in [1 .. MaxName -> [D -> D]]
  BY <1>1, Constant
<1>5. PICK h : IsRun(h, MaxName, D, w, step)
  <2>1. MaxName \in Nat
    BY Constant
  <2>. HIDE DEF step
  <2>. QED
    BY <1>3, <1>4, <2>1, LoopRuns, Zenon
<1>6. \A n \in 1 .. MaxName : h[n] = N(n, h[n - 1])
  <2>1. \A n \in 1 .. MaxName : n - 1 \in 0 .. MaxName
    BY Constant
  <2>. QED
    BY <1>5, <2>1 DEF IsRun
<1>. HIDE DEF step
<1>7. IsVisit(h)
  <2>1. \A n \in 0 .. MaxName : n = 0 \/ n \in 1 .. MaxName
    BY Constant
  <2>. QED
    BY <1>5, <1>6, <2>1 DEF IsRun
<1>8. IsVisit(visit)
  <2>. HIDE DEF IsVisit
  <2>. QED
    BY <1>7
<1>. HIDE DEF visit
<1>9. visit[0] = w /\ \A n \in 1 .. MaxName : visit[n] = N(n, visit[n - 1])
  <2>1. 0 \in 0 .. MaxName /\ \A n \in 1 .. MaxName : n # 0 /\ n \in 0 .. MaxName
    BY Constant
  <2>. QED
    BY <1>8, <2>1
<1>10. \A n \in 0 .. MaxName : visit[n] \in D
  <2>. DEFINE I == {n \in 0 .. MaxName : visit[n] \in D}
  <2>1. 0 \in I
    BY <1>3, <1>9, Constant
  <2>2. ASSUME NEW n \in 1 .. MaxName, n - 1 \in I PROVE n \in I
    <3>1. n \in Names /\ n \in 0 .. MaxName /\ visit[n - 1] \in D
      BY <2>2, Constant
    <3>. QED
      BY <1>1, <1>9, <3>1
  <2>. HIDE DEF I
  <2>3. \A n \in 0 .. MaxName : n \in I
    BY <2>1, <2>2, Constant, UpTo
  <2>. QED
    BY <2>3 DEF I
<1>11. visit \in [0 .. MaxName -> D]
  BY <1>8, <1>10
<1>. QED
  BY <1>2, <1>9, <1>11, Constant DEF PlusRuns, D, N

\* A loop whose turns only add to a set.
LEMMA LoopGrows ==
    ASSUME NEW n \in Nat, NEW h, \A k \in 1 .. n : h[k - 1] \subseteq h[k]
    PROVE  \A i \in 0 .. n : \A j \in i .. n : h[i] \subseteq h[j]
<1>. SUFFICES ASSUME NEW i \in 0 .. n PROVE \A j \in i .. n : h[i] \subseteq h[j]
  OBVIOUS
<1>. DEFINE I == {j \in 0 .. n : i <= j => h[i] \subseteq h[j]}
<1>1. 0 \in I
  BY SMT
<1>2. ASSUME NEW k \in 1 .. n, k - 1 \in I PROVE k \in I
  <2>1. k \in 0 .. n /\ (i <= k => i = k \/ i <= k - 1)
    OBVIOUS
  <2>. QED
    BY <1>2, <2>1
<1>. HIDE DEF I
<1>3. \A k \in 0 .. n : k \in I
  BY <1>1, <1>2, UpTo
<1>4. \A j \in i .. n : j \in 0 .. n /\ i <= j
  OBVIOUS
<1>. QED
  BY <1>3, <1>4 DEF I

\* A loop through states of a walk that each come after the one before.
LEMMA LaterStays ==
    ASSUME NEW n \in Nat, NEW D, D \subseteq Walks, NEW h \in [0 .. n -> D],
           \A k \in 1 .. n : Later(h[k - 1], h[k])
    PROVE  \A i \in 0 .. n : \A j \in i .. n : Later(h[i], h[j])
<1>. DEFINE tree == [k \in 0 .. n |-> h[k].tree]
            found == [k \in 0 .. n |-> Range(h[k].found)]
            failed == [k \in 0 .. n |-> {e \in {1} : h[k].err # "NO_ERROR"}]
<1>1. \A k \in 1 .. n : k \in 0 .. n /\ k - 1 \in 0 .. n
  OBVIOUS
<1>2. \A i \in 0 .. n : \A j \in i .. n : j \in 0 .. n
  OBVIOUS
<1>3. \A k \in 1 .. n : tree[k - 1] \subseteq tree[k] /\ found[k - 1] \subseteq found[k]
                        /\ failed[k - 1] \subseteq failed[k]
  BY <1>1 DEF Later
<1>4. \A i, j \in 0 .. n : tree[i] \subseteq tree[j] /\ found[i] \subseteq found[j]
                           /\ failed[i] \subseteq failed[j] => Later(h[i], h[j])
  BY DEF Later
<1>. HIDE DEF tree, found, failed
<1>5. \A i \in 0 .. n : \A j \in i .. n : tree[i] \subseteq tree[j]
  BY <1>3, LoopGrows
<1>6. \A i \in 0 .. n : \A j \in i .. n : found[i] \subseteq found[j]
  BY <1>3, LoopGrows
<1>7. \A i \in 0 .. n : \A j \in i .. n : failed[i] \subseteq failed[j]
  BY <1>3, LoopGrows
<1>. QED
  BY <1>2, <1>4, <1>5, <1>6, <1>7

LEMMA PlusFacts ==
    ASSUME NEW add \in BOOLEAN, NEW g \in Getters(add), NEW tree \in Trees,
           NEW topic \in Seq(Parts), NEW i \in 1 .. Len(topic), topic[i] = Plus,
           NEW w \in Runs(tree, topic, add)
    PROVE  /\ WalkPlus(w, topic, g) \in Runs(tree, topic, add)
           /\ Later(w, WalkPlus(w, topic, g)) /\ WalkPlus(w, topic, g).at = w.at
<1>. DEFINE D == Runs(tree, topic, add)
<1>1. PICK h \in [0 .. MaxName -> D] :
        /\ h[0] = w
        /\ \A n \in Names : h[n] = Visit(h[n - 1], topic, n, g)
        /\ WalkPlus(w, topic, g) = h[MaxName]
  BY PlusSteps DEF PlusRuns
<1>2. /\ MaxName \in Nat /\ MaxName \in 0 .. MaxName /\ 0 \in 0 .. MaxName
      /\ \A n \in 1 .. MaxName : n \in Names /\ n - 1 \in 0 .. MaxName /\ n \in 0 .. MaxName
  BY Constant
<1>3. ASSUME NEW n \in 1 .. MaxName PROVE Later(h[n - 1], h[n]) /\ h[n].at = h[n - 1].at
  <2>. DEFINE v == h[n - 1]
  <2>1. v \in Runs(tree, topic, add) /\ n \in Names /\ h[n] = Visit(v, topic, n, g)
    BY <1>1, <1>2
  <2>. HIDE DEF v
  <2>2. n \in Names /\ v \in Runs(tree, topic, add)
    BY <2>1
  <2>3. Later(v, Visit(v, topic, n, g)) /\ Visit(v, topic, n, g).at = v.at
    BY <2>2, VisitStep DEF VisitIs
  <2>. QED
    BY <2>1, <2>3 DEF v
<1>4. D \subseteq Walks
  BY DEF Runs
<1>5. h[MaxName] \in D
  BY <1>2
<1>. HIDE DEF D
<1>6. Later(h[0], h[MaxName])
  <2>1. \A n \in 0 .. MaxName : \A m \in n .. MaxName : Later(h[n], h[m])
    BY <1>2, <1>3, <1>4, LaterStays
  <2>. QED
    BY <1>2, <2>1
<1>7. h[MaxName].at = w.at
  <2>. DEFINE I == {n \in 0 .. MaxName : h[n].at = w.at}
  <2>1. 0 \in I
    BY <1>1, <1>2
  <2>2. ASSUME NEW n \in 1 .. MaxName, n - 1 \in I PROVE n \in I
    BY <1>2, <1>3, <2>2
  <2>. HIDE DEF I
  <2>3. \A n \in 0 .. MaxName : n \in I
    BY <1>2, <2>1, <2>2, UpTo
  <2>. QED
    BY <1>2, <2>3 DEF I
<1>. QED
  BY <1>1, <1>5, <1>6, <1>7 DEF D

NumberSignIs(w, topic, i) ==
    LET v == WalkNumberSign(w, topic, i)
    IN  /\ v \in Walks /\ v.tree = w.tree /\ v.at = w.at
        /\ i # Len(topic) => v.err = "MULTI_LEVEL_WILDCARD_MUST_BE_ON_TAIL"
                             /\ v.found = w.found
        /\ i = Len(topic) => /\ v.err = w.err
                             /\ Range(v.found) = Range(w.found) \cup
                                  {p \in w.tree : Range(p) \cap Dollar = {}}
                             /\ Root \in Range(v.found)

LEMMA NumberSignStep ==
    ASSUME NEW w \in Walks, NEW topic \in Seq(Parts), NEW i \in 1 .. Len(topic)
    PROVE  NumberSignIs(w, topic, i)
<1>. DEFINE v == WalkNumberSign(w, topic, i)
<1>1. /\ w = [tree |-> w.tree, at |-> w.at, found |-> w.found, err |-> w.err]
      /\ w.tree \in Trees /\ w.at \in w.tree /\ w.found \in Seq(w.tree) /\ w.err \in Errors
  BY WalkFacts
<1>2. CASE i # Len(topic)
  <2>. DEFINE e == "MULTI_LEVEL_WILDCARD_MUST_BE_ON_TAIL"
  <2>1. v = [w EXCEPT !.err = e] /\ e \in Errors
    BY <1>2 DEF WalkNumberSign, Failed, Errors
  <2>. HIDE DEF v, e
  <2>2. v = [tree |-> w.tree, at |-> w.at, found |-> w.found, err |-> e]
    BY <1>1, <2>1
  <2>3. v \in Walks
    BY <1>1, <2>1, <2>2, WalkWith
  <2>. QED
    BY <1>2, <2>2, <2>3 DEF NumberSignIs, v, e
<1>3. CASE i = Len(topic)
  <2>. DEFINE s == w.found
              t == NodesByNumberSign(w.tree, Root)
              S == w.tree
  <2>1. v = [w EXCEPT !.found = @ \o t]
    BY <1>3 DEF WalkNumberSign
  <2>2. v = [tree |-> w.tree, at |-> w.at, found |-> s \o t, err |-> w.err]
    BY <1>1, <2>1
  <2>3. /\ s \in Seq(S) /\ t \in Seq(S)
        /\ Range(t) = {p \in S : Range(p) \cap Dollar = {}} /\ Root \in Range(t)
    BY <1>1, NumberSignFinds
  <2>. HIDE DEF s, t, S, v
  <2>4. s \o t \in Seq(S)
    BY <2>3, ConcatProperties
  <2>5. Range(s \o t) = Range(s) \cup Range(t)
    BY <2>3, RangeConcat
  <2>6. v \in Walks
    BY <1>1, <2>2, <2>4, WalkWith DEF S
  <2>7. v.tree = S /\ v.at = w.at /\ v.err = w.err /\ v.found = s \o t /\ S = w.tree /\ s = w.found
    BY <2>2 DEF S, s
  <2>. QED
    BY <1>3, <2>3, <2>5, <2>6, <2>7 DEF NumberSignIs, v
<1>. QED
  BY <1>2, <1>3 DEF NumberSignIs

LEMMA PartKinds ==
    ASSUME NEW topic \in Seq(Parts), NEW i \in 1 .. Len(topic)
    PROVE  /\ topic[i] \in Names \/ topic[i] = Plus \/ topic[i] = Hash \/ topic[i] = Adjacent
           /\ topic[i] \in Names => topic[i] # Plus /\ topic[i] # Hash /\ topic[i] # Adjacent
           /\ topic[i] = Plus => topic[i] # Hash /\ topic[i] # Adjacent
           /\ topic[i] = Hash => topic[i] # Adjacent
<1>1. topic[i] \in Parts
  BY ElementOfSeq
<1>. QED
  BY <1>1, Constant DEF Parts, Plus, Hash, Adjacent

\* One part of the walk.
PartIs(tree, topic, i, w, add, g) ==
    LET v == WalkPart(w, topic, i, add, g)
    IN  /\ v \in Runs(tree, topic, add) /\ Later(w, v)
        /\ v.err = "NO_ERROR" =>
             ~(topic[i] = Adjacent \/ (topic[i] = Hash /\ i # Len(topic)))
        /\ w.err # "NO_ERROR" => v = w
        /\ w.err = "NO_ERROR" =>
             /\ topic[i] \in Names => v = WalkName(w, topic, i, add)
             /\ topic[i] = Plus => v = WalkPlus(w, topic, g)
             /\ topic[i] = Hash => v = WalkNumberSign(w, topic, i)

LEMMA PartStep ==
    ASSUME NEW add \in BOOLEAN, NEW g \in Getters(add), NEW tree \in Trees,
           NEW topic \in Seq(Parts), NEW i \in 1 .. Len(topic), NEW w \in Runs(tree, topic, add)
    PROVE  PartIs(tree, topic, i, w, add, g)
<1>. DEFINE v == WalkPart(w, topic, i, add, g)
<1>1. /\ w \in Walks /\ tree \subseteq w.tree /\ (~add => w.tree = tree)
      /\ ~Bad(topic) => w.err = "NO_ERROR"
  BY DEF Runs
<1>2. CASE w.err # "NO_ERROR"
  <2>1. v = w
    BY <1>2 DEF WalkPart
  <2>. QED
    BY <1>2, <2>1 DEF PartIs, Later
<1>3. CASE w.err = "NO_ERROR" /\ topic[i] \in Names
  <2>1. v = WalkName(w, topic, i, add)
    BY <1>3, PartKinds DEF WalkPart
  <2>. HIDE DEF v
  <2>2. v \in Walks /\ Later(w, v) /\ v.err = w.err /\ (~add => v.tree = w.tree)
    BY <1>1, <1>3, <2>1, NameStep DEF NameIs
  <2>3. v \in Runs(tree, topic, add)
    BY <1>1, <2>2 DEF Runs, Later
  <2>. QED
    BY <1>3, <2>1, <2>2, <2>3, PartKinds DEF PartIs, v
<1>4. CASE w.err = "NO_ERROR" /\ topic[i] = Plus
  <2>1. v = WalkPlus(w, topic, g)
    BY <1>4, PartKinds DEF WalkPart
  <2>. HIDE DEF v
  <2>2. v \in Runs(tree, topic, add) /\ Later(w, v)
    BY <1>4, <2>1, PlusFacts
  <2>. QED
    BY <1>4, <2>1, <2>2, PartKinds DEF PartIs, v
<1>5. CASE w.err = "NO_ERROR" /\ topic[i] = Hash
  <2>1. v = WalkNumberSign(w, topic, i)
    BY <1>5, PartKinds DEF WalkPart
  <2>. HIDE DEF v
  <2>2. /\ v \in Walks /\ v.tree = w.tree
        /\ i # Len(topic) => v.err = "MULTI_LEVEL_WILDCARD_MUST_BE_ON_TAIL"
                             /\ v.found = w.found
        /\ i = Len(topic) => v.err = w.err /\ Range(w.found) \subseteq Range(v.found)
    BY <1>1, <2>1, NumberSignStep DEF NumberSignIs
  <2>3. i # Len(topic) => Bad(topic)
    BY <1>5 DEF Bad
  <2>4. /\ tree \subseteq v.tree /\ (~add => v.tree = tree)
        /\ ~Bad(topic) => v.err = "NO_ERROR"
    BY <1>1, <1>5, <2>2, <2>3
  <2>5. v \in Runs(tree, topic, add)
    BY <2>2, <2>4 DEF Runs
  <2>6. Later(w, v)
    BY <1>5, <2>2 DEF Later
  <2>7. v.err = "NO_ERROR" => i = Len(topic)
    BY <2>2
  <2>. QED
    BY <1>5, <2>1, <2>5, <2>6, <2>7, PartKinds DEF PartIs, v
<1>6. CASE w.err = "NO_ERROR" /\ topic[i] = Adjacent
  <2>. DEFINE e == "WILDCARD_MUST_NOT_BE_ADJACENT_TO_NAME"
  <2>1. v = [w EXCEPT !.err = e] /\ e \in Errors /\ e # "NO_ERROR"
    BY <1>6, PartKinds DEF WalkPart, Failed, Errors
  <2>2. /\ w = [tree |-> w.tree, at |-> w.at, found |-> w.found, err |-> w.err]
        /\ w.tree \in Trees /\ w.at \in w.tree /\ w.found \in Seq(w.tree)
    BY <1>1, WalkFacts
  <2>. HIDE DEF v, e
  <2>3. v = [tree |-> w.tree, at |-> w.at, found |-> w.found, err |-> e]
    BY <2>1, <2>2
  <2>4. v \in Walks
    BY <2>1, <2>2, <2>3, WalkWith
  <2>5. Bad(topic)
    BY <1>6 DEF Bad
  <2>6. v \in Runs(tree, topic, add) /\ Later(w, v)
    BY <1>1, <1>6, <2>1, <2>3, <2>4, <2>5 DEF Runs, Later
  <2>. QED
    BY <1>6, <2>1, <2>3, <2>6, PartKinds DEF PartIs, v
<1>. QED
  BY <1>2, <1>3, <1>4, <1>5, <1>6, PartKinds DEF PartIs

WalksBy(tree, topic, add, g) ==
    \E h \in [0 .. Len(topic) -> Runs(tree, topic, add)] :
      /\ h[0] = Start(tree)
      /\ \A i \in 1 .. Len(topic) : h[i] = WalkPart(h[i - 1], topic, i, add, g)
      /\ Walk(tree, topic, add, g) = h[Len(topic)]

LEMMA WalkSteps ==
    ASSUME NEW add \in BOOLEAN, NEW g \in Getters(add), NEW tree \in Trees,
           NEW topic \in Seq(Parts)
    PROVE  WalksBy(tree, topic, add, g)
<1>. DEFINE n == Len(topic)
            D == Runs(tree, topic, add)
            first == Start(tree)
            N(i, w) == WalkPart(w, topic, i, add, g)
            step == [i \in 1 .. n |-> [w \in D |-> N(i, w)]]
            IsAfter(f) == f = [i \in 0 .. n |-> IF i = 0 THEN first ELSE N(i, f[i - 1])]
            after == CHOOSE f : IsAfter(f)
<1>1. ASSUME NEW i \in 1 .. n, NEW w \in D PROVE N(i, w) \in D
  BY PartStep DEF PartIs
<1>2. Walk(tree, topic, add, g) = after[n]
  BY DEF Walk
<1>3. first \in D /\ n \in Nat
  BY StartRuns, LenProperties
<1>. HIDE DEF D, N, n, first
<1>4. step \in [1 .. n -> [D -> D]]
  BY <1>1
<1>5. PICK h : IsRun(h, n, D, first, step)
  <2>. HIDE DEF step
  <2>. QED
    BY <1>3, <1>4, LoopRuns, Zenon
<1>6. \A i \in 1 .. n : h[i] = N(i, h[i - 1])
  <2>1. \A i \in 1 .. n : i - 1 \in 0 .. n
    BY <1>3
  <2>. QED
    BY <1>5, <2>1 DEF IsRun
<1>. HIDE DEF step
<1>7. IsAfter(h)
  <2>1. \A i \in 0 .. n : i = 0 \/ i \in 1 .. n
    BY <1>3
  <2>. QED
    BY <1>5, <1>6, <2>1 DEF IsRun
<1>8. IsAfter(after)
  <2>. HIDE DEF IsAfter
  <2>. QED
    BY <1>7
<1>. HIDE DEF after
<1>9. after[0] = first /\ \A i \in 1 .. n : after[i] = N(i, after[i - 1])
  <2>1. 0 \in 0 .. n /\ \A i \in 1 .. n : i # 0 /\ i \in 0 .. n
    BY <1>3
  <2>. QED
    BY <1>8, <2>1
<1>10. \A i \in 0 .. n : after[i] \in D
  <2>. DEFINE I == {i \in 0 .. n : after[i] \in D}
  <2>1. 0 \in I
    BY <1>3, <1>9
  <2>2. ASSUME NEW i \in 1 .. n, i - 1 \in I PROVE i \in I
    <3>1. i \in 0 .. n /\ after[i - 1] \in D
      BY <1>3, <2>2
    <3>. QED
      BY <1>1, <1>9, <3>1
  <2>. HIDE DEF I
  <2>3. \A i \in 0 .. n : i \in I
    BY <1>3, <2>1, <2>2, UpTo
  <2>. QED
    BY <2>3 DEF I
<1>11. after \in [0 .. n -> D]
  BY <1>8, <1>10
<1>. QED
  BY <1>2, <1>9, <1>11 DEF WalksBy, D, N, n, first

\* What holds of every walk: the tree has grown, and, if there was no error,
\* the topic has none.
LEMMA WalkRuns ==
    ASSUME NEW add \in BOOLEAN, NEW g \in Getters(add), NEW tree \in Trees,
           NEW topic \in Seq(Parts)
    PROVE  LET w == Walk(tree, topic, add, g)
           IN  w \in Runs(tree, topic, add) /\ (w.err = "NO_ERROR" <=> ~Bad(topic))
<1>. DEFINE n == Len(topic)
            D == Runs(tree, topic, add)
<1>1. PICK h \in [0 .. n -> D] :
        /\ h[0] = Start(tree)
        /\ \A i \in 1 .. n : h[i] = WalkPart(h[i - 1], topic, i, add, g)
        /\ Walk(tree, topic, add, g) = h[n]
  BY WalkSteps DEF WalksBy
<1>2. n \in Nat /\ n \in 0 .. n /\ D \subseteq Walks
  BY LenProperties DEF Runs
<1>3. ASSUME NEW i \in 1 .. n
      PROVE  /\ Later(h[i - 1], h[i])
             /\ h[i].err = "NO_ERROR" =>
                    ~(topic[i] = Adjacent \/ (topic[i] = Hash /\ i # n))
  <2>. DEFINE w == h[i - 1]
              v == WalkPart(w, topic, i, add, g)
  <2>1. w \in Runs(tree, topic, add) /\ h[i] = v
    BY <1>1, <1>2
  <2>. HIDE DEF w
  <2>2. Later(w, v) /\ (v.err = "NO_ERROR" =>
                          ~(topic[i] = Adjacent \/ (topic[i] = Hash /\ i # Len(topic))))
    BY <2>1, PartStep DEF PartIs
  <2>. QED
    BY <2>1, <2>2 DEF w
<1>4. h[n] \in D
  BY <1>2
<1>. HIDE DEF D, n
<1>5. \A i \in 0 .. n : \A j \in i .. n : Later(h[i], h[j])
  BY <1>2, <1>3, LaterStays
<1>6. ASSUME h[n].err = "NO_ERROR" PROVE ~Bad(topic)
  <2>1. ASSUME NEW i \in 1 .. n PROVE ~(topic[i] = Adjacent \/ (topic[i] = Hash /\ i # n))
    <3>1. i \in 0 .. n /\ n \in i .. n
      BY <1>2
    <3>2. h[i].err = "NO_ERROR"
      BY <1>5, <1>6, <3>1 DEF Later
    <3>. QED
      BY <1>3, <3>2
  <2>. QED
    BY <2>1 DEF Bad, n
<1>. QED
  BY <1>1, <1>4, <1>6 DEF D, Runs

LEMMA TopicSteps ==
    ASSUME NEW add \in BOOLEAN, NEW tree \in Trees, NEW topic \in Seq(Parts)
    PROVE  \E h \in [0 .. Len(topic) + 1 -> Getters(add)] :
             /\ \A q \in Requests : h[0][q] = Start(q.tree)
             /\ \A k \in 1 .. Len(topic) + 1 : \A q \in Requests :
                  h[k][q] = Walk(q.tree, q.topic, add, h[k - 1])
             /\ GetTopicNode(tree, topic, add)
                  = Walk(tree, topic, add, h[Len(topic)])
<1>. DEFINE n == Len(topic) + 1
            D == Getters(add)
            first == [q \in Requests |-> Start(q.tree)]
            N(f) == [q \in Requests |-> Walk(q.tree, q.topic, add, f)]
            step == [k \in 1 .. n |-> [f \in D |-> N(f)]]
            IsNested(f) == f = [k \in 0 .. n |-> [q \in Requests |->
                                   IF k = 0 THEN Start(q.tree)
                                   ELSE Walk(q.tree, q.topic, add, f[k - 1])]]
            nested == CHOOSE f : IsNested(f)
            request == [tree |-> tree, topic |-> topic]
<1>1. n \in Nat /\ n - 1 = Len(topic) /\ n \in 1 .. n /\ request \in Requests
  BY LenProperties DEF Requests
<1>2. \A q \in Requests : q.tree \in Trees /\ q.topic \in Seq(Parts)
  BY DEF Requests
<1>3. first \in D
  <2>1. \A q \in Requests : Start(q.tree) \in Runs(q.tree, q.topic, add)
    BY <1>2, StartRuns
  <2>. QED
    BY <2>1 DEF Getters, Runs
<1>4. ASSUME NEW f \in D PROVE N(f) \in D
  <2>1. \A q \in Requests : Walk(q.tree, q.topic, add, f) \in Runs(q.tree, q.topic, add)
    BY <1>2, WalkRuns
  <2>. QED
    BY <2>1 DEF Getters, Runs
<1>5. GetTopicNode(tree, topic, add) = nested[n][request]
  BY DEF GetTopicNode
<1>. HIDE DEF D, n, request
<1>6. step \in [1 .. n -> [D -> D]]
  BY <1>4
<1>7. PICK h : IsRun(h, n, D, first, step)
  <2>. HIDE DEF step, first
  <2>. QED
    BY <1>1, <1>3, <1>6, LoopRuns, Zenon
<1>8. h \in [0 .. n -> D] /\ h[0] = first /\ \A k \in 1 .. n : h[k] = N(h[k - 1])
  <2>1. \A k \in 1 .. n : k - 1 \in 0 .. n
    BY <1>1
  <2>. QED
    BY <1>7, <2>1 DEF IsRun
<1>. HIDE DEF step
<1>9. IsNested(h)
  <2>1. ASSUME NEW k \in 0 .. n
        PROVE  h[k] = [q \in Requests |-> IF k = 0 THEN Start(q.tree)
                                         ELSE Walk(q.tree, q.topic, add, h[k - 1])]
    <3>1. CASE k = 0
      BY <1>8, <3>1
    <3>2. CASE k # 0
      <4>1. k \in 1 .. n
        BY <1>1, <3>2
      <4>. QED
        BY <1>8, <3>2, <4>1
    <3>. QED
      BY <3>1, <3>2
  <2>. QED
    BY <1>8, <2>1
<1>10. IsNested(nested)
  <2>. HIDE DEF IsNested
  <2>. QED
    BY <1>9
<1>. HIDE DEF nested
<1>11. nested[0] = first /\ \A k \in 1 .. n : nested[k] = N(nested[k - 1])
  <2>1. 0 \in 0 .. n /\ \A k \in 1 .. n : k # 0 /\ k \in 0 .. n
    BY <1>1
  <2>2. nested[0] = first
    BY <1>10, <2>1
  <2>3. ASSUME NEW k \in 1 .. n PROVE nested[k] = N(nested[k - 1])
    BY <1>10, <2>1
  <2>. QED
    BY <2>2, <2>3
<1>12. \A k \in 0 .. n : nested[k] \in D
  <2>. DEFINE I == {k \in 0 .. n : nested[k] \in D}
  <2>1. 0 \in I
    BY <1>1, <1>3, <1>11
  <2>2. ASSUME NEW k \in 1 .. n, k - 1 \in I PROVE k \in I
    <3>1. k \in 0 .. n /\ nested[k - 1] \in D
      BY <1>1, <2>2
    <3>2. N(nested[k - 1]) \in D
      BY <1>4, <3>1
    <3>. QED
      BY <1>11, <3>1, <3>2
  <2>. HIDE DEF I
  <2>3. \A k \in 0 .. n : k \in I
    BY <1>1, <2>1, <2>2, UpTo
  <2>. QED
    BY <2>3 DEF I
<1>13. nested \in [0 .. n -> D]
  BY <1>10, <1>12
<1>14. /\ \A q \in Requests : nested[0][q] = Start(q.tree)
       /\ \A k \in 1 .. n : \A q \in Requests :
            nested[k][q] = Walk(q.tree, q.topic, add, nested[k - 1])
  BY <1>11
<1>15. nested[n][request] = Walk(tree, topic, add, nested[Len(topic)])
  BY <1>1, <1>14 DEF request
<1>. QED
  BY <1>5, <1>13, <1>14, <1>15 DEF D, n

LEMMA TopicRuns ==
    ASSUME NEW add \in BOOLEAN, NEW tree \in Trees, NEW topic \in Seq(Parts)
    PROVE  LET r == GetTopicNode(tree, topic, add)
           IN  /\ r \in Runs(tree, topic, add) /\ (r.err = "NO_ERROR" <=> ~Bad(topic))
               /\ r.tree \in Trees /\ tree \subseteq r.tree /\ (~add => r.tree = tree)
               /\ r.found \in Seq(r.tree) /\ Range(r.found) \subseteq r.tree
<1>. DEFINE r == GetTopicNode(tree, topic, add)
<1>1. PICK h \in [0 .. Len(topic) + 1 -> Getters(add)] :
        r = Walk(tree, topic, add, h[Len(topic)])
  BY TopicSteps
<1>2. Len(topic) \in 0 .. Len(topic) + 1
  BY LenProperties
<1>. DEFINE g == h[Len(topic)]
<1>3. g \in Getters(add)
  BY <1>2
<1>4. r = Walk(tree, topic, add, g)
  BY <1>1
<1>. HIDE DEF g, r
<1>5. r \in Runs(tree, topic, add) /\ (r.err = "NO_ERROR" <=> ~Bad(topic))
  BY <1>3, <1>4, WalkRuns
<1>6. r \in Walks /\ tree \subseteq r.tree /\ (~add => r.tree = tree)
  BY <1>5 DEF Runs
<1>7. r.tree \in Trees /\ r.found \in Seq(r.tree)
  BY <1>6, WalkFacts
<1>8. Range(r.found) \subseteq r.tree
  BY <1>7, RangeOf
<1>. QED
  BY <1>5, <1>6, <1>7, <1>8 DEF r

-----------------------------------------------------------------------------
(***************************************************************************)
(* A walk that adds nothing finds, in a tree that has only grown since,    *)
(* what a walk that adds nodes found.                                      *)
(***************************************************************************)
FindsAgain(giving, taking) ==
    \A q \in Requests : ~Bad(q.topic) =>
        \A T \in Trees : giving[q].tree \subseteq T =>
            Range(giving[q].found) \subseteq Range(taking[[tree |-> T, topic |-> q.topic]].found)

\* The walk that ends in x is where the one that ends in w is, and finds its nodes.
KeepsUp(w, x) == x.at = w.at /\ Range(w.found) \subseteq Range(x.found)

LEMMA VisitFindsAgain ==
    ASSUME NEW yes \in BOOLEAN, yes, NEW no \in BOOLEAN, ~no,
           NEW f \in Getters(yes), NEW g \in Getters(no), FindsAgain(f, g),
           NEW tree \in Trees, NEW T \in Trees,
           NEW topic \in Seq(Parts), ~Bad(topic), NEW i \in 1 .. Len(topic), topic[i] = Plus,
           NEW w \in Runs(tree, topic, yes), NEW x \in Runs(T, topic, no), NEW n \in Names,
           KeepsUp(w, x),
           Visit(w, topic, n, f).tree \subseteq T
    PROVE  KeepsUp(Visit(w, topic, n, f), Visit(x, topic, n, g))
<1>. DEFINE W == Visit(w, topic, n, f)
            X == Visit(x, topic, n, g)
            p == [tree |-> w.tree, topic |-> Filled(topic, n)]
            q == [tree |-> x.tree, topic |-> Filled(topic, n)]
<1>1. /\ w.err = "NO_ERROR" /\ x.err = "NO_ERROR" /\ x.tree = T /\ w \in Walks /\ x \in Walks
      /\ x.at = w.at
  BY DEF Runs, KeepsUp
<1>2. /\ p \in Requests /\ f[p] \in Runs(w.tree, Filled(topic, n), yes)
      /\ Later(w, W) /\ W.at = w.at
      /\ ~Visited(w.tree, w.at, n) => W = w
      /\ Visited(w.tree, w.at, n) =>
           W.tree = f[p].tree /\ Range(W.found) = Range(w.found) \cup Range(f[p].found)
  <2>1. VisitIs(tree, topic, w, n, yes, f)
    BY VisitStep
  <2>. QED
    BY <1>1, <2>1 DEF VisitIs
<1>3. /\ Later(x, X) /\ X.at = x.at
      /\ ~Visited(x.tree, x.at, n) => X = x
      /\ Visited(x.tree, x.at, n) => Range(X.found) = Range(x.found) \cup Range(g[q].found)
  <2>1. VisitIs(T, topic, x, n, no, g)
    BY VisitStep
  <2>. QED
    BY <1>1, <2>1 DEF VisitIs
<1>4. p.topic = Filled(topic, n) /\ ~Bad(Filled(topic, n)) /\ q = [tree |-> T, topic |-> p.topic]
  BY <1>1, FilledIs
<1>. HIDE DEF W, X, p, q
<1>5. CASE ~Visited(w.tree, w.at, n)
  BY <1>2, <1>3, <1>5 DEF KeepsUp, W, X
<1>6. CASE Visited(w.tree, w.at, n)
  <2>1. w.tree \subseteq T
    BY <1>2 DEF Later, W
  <2>2. Visited(x.tree, x.at, n)
    BY <1>1, <1>6, <2>1 DEF Visited, HasChild
  <2>3. f[p].tree \subseteq T
    BY <1>2, <1>6 DEF W
  <2>4. Range(f[p].found) \subseteq Range(g[q].found)
    BY <1>2, <1>4, <2>3 DEF FindsAgain
  <2>. QED
    BY <1>2, <1>3, <1>6, <2>2, <2>4 DEF KeepsUp, W, X
<1>. QED
  BY <1>5, <1>6

LEMMA PlusFindsAgain ==
    ASSUME NEW yes \in BOOLEAN, yes, NEW no \in BOOLEAN, ~no,
           NEW f \in Getters(yes), NEW g \in Getters(no), FindsAgain(f, g),
           NEW tree \in Trees, NEW T \in Trees,
           NEW topic \in Seq(Parts), ~Bad(topic), NEW i \in 1 .. Len(topic), topic[i] = Plus,
           NEW w \in Runs(tree, topic, yes), NEW x \in Runs(T, topic, no),
           KeepsUp(w, x),
           WalkPlus(w, topic, f).tree \subseteq T
    PROVE  KeepsUp(WalkPlus(w, topic, f), WalkPlus(x, topic, g))
<1>. DEFINE C == Runs(tree, topic, yes)
            D == Runs(T, topic, no)
<1>1. PICK a \in [0 .. MaxName -> C] :
        /\ a[0] = w
        /\ \A n \in Names : a[n] = Visit(a[n - 1], topic, n, f)
        /\ WalkPlus(w, topic, f) = a[MaxName]
  <2>1. PlusRuns(tree, topic, w, yes, f)
    BY PlusSteps
  <2>. QED
    BY <2>1 DEF PlusRuns
<1>2. PICK b \in [0 .. MaxName -> D] :
        /\ b[0] = x
        /\ \A n \in Names : b[n] = Visit(b[n - 1], topic, n, g)
        /\ WalkPlus(x, topic, g) = b[MaxName]
  <2>1. PlusRuns(T, topic, x, no, g)
    BY PlusSteps
  <2>. QED
    BY <2>1 DEF PlusRuns
<1>3. /\ MaxName \in Nat /\ MaxName \in 0 .. MaxName /\ 0 \in 0 .. MaxName
      /\ \A n \in 1 .. MaxName : n \in Names /\ n - 1 \in 0 .. MaxName /\ n \in 0 .. MaxName
  BY Constant
<1>4. ASSUME NEW n \in 1 .. MaxName PROVE Later(a[n - 1], a[n])
  <2>. DEFINE v == a[n - 1]
  <2>1. v \in C /\ n \in Names /\ a[n] = Visit(v, topic, n, f)
    BY <1>1, <1>3
  <2>. HIDE DEF v
  <2>2. n \in Names /\ v \in Runs(tree, topic, yes)
    BY <2>1
  <2>3. Later(v, Visit(v, topic, n, f))
    BY <2>2, VisitStep DEF VisitIs
  <2>. QED
    BY <2>1, <2>3 DEF v
<1>5. ASSUME NEW n \in 0 .. MaxName PROVE a[n].tree \subseteq T
  <2>1. C \subseteq Walks
    BY DEF Runs
  <2>. HIDE DEF C
  <2>2. \A j \in 0 .. MaxName : \A k \in j .. MaxName : Later(a[j], a[k])
    BY <1>3, <1>4, <2>1, LaterStays
  <2>3. MaxName \in n .. MaxName
    BY <1>3
  <2>4. Later(a[n], a[MaxName])
    BY <2>2, <2>3
  <2>. QED
    BY <1>1, <2>4 DEF Later
<1>. DEFINE I == {n \in 0 .. MaxName : KeepsUp(a[n], b[n])}
<1>6. 0 \in I
  BY <1>1, <1>2, <1>3
<1>7. ASSUME NEW n \in 1 .. MaxName, n - 1 \in I PROVE n \in I
  <2>. DEFINE v == a[n - 1]
              y == b[n - 1]
  <2>1. /\ v \in C /\ y \in D /\ n \in Names /\ n \in 0 .. MaxName
        /\ a[n] = Visit(v, topic, n, f) /\ b[n] = Visit(y, topic, n, g)
        /\ KeepsUp(v, y) /\ a[n].tree \subseteq T
    BY <1>1, <1>2, <1>3, <1>5, <1>7
  <2>. HIDE DEF v, y, I
  <2>2. v \in Runs(tree, topic, yes) /\ y \in Runs(T, topic, no)
    BY <2>1
  <2>3. Visit(v, topic, n, f).tree \subseteq T
    BY <2>1
  <2>4. KeepsUp(Visit(v, topic, n, f), Visit(y, topic, n, g))
    BY <2>1, <2>2, <2>3, VisitFindsAgain
  <2>. QED
    BY <2>1, <2>4 DEF I
<1>. HIDE DEF I
<1>8. \A n \in 0 .. MaxName : n \in I
  BY <1>3, <1>6, <1>7, UpTo
<1>. QED
  BY <1>1, <1>2, <1>3, <1>8 DEF I

LEMMA PartFindsAgain ==
    ASSUME NEW yes \in BOOLEAN, yes, NEW no \in BOOLEAN, ~no,
           NEW f \in Getters(yes), NEW g \in Getters(no), FindsAgain(f, g),
           NEW tree \in Trees, NEW T \in Trees,
           NEW topic \in Seq(Parts), ~Bad(topic), NEW i \in 1 .. Len(topic),
           NEW w \in Runs(tree, topic, yes), NEW x \in Runs(T, topic, no),
           KeepsUp(w, x),
           WalkPart(w, topic, i, yes, f).tree \subseteq T
    PROVE  KeepsUp(WalkPart(w, topic, i, yes, f), WalkPart(x, topic, i, no, g))
<1>. DEFINE v == WalkPart(w, topic, i, yes, f)
            y == WalkPart(x, topic, i, no, g)
<1>1. /\ w.err = "NO_ERROR" /\ x.err = "NO_ERROR" /\ x.tree = T /\ w \in Walks /\ x \in Walks
      /\ x.at = w.at /\ Range(w.found) \subseteq Range(x.found)
  BY DEF Runs, KeepsUp
<1>2. /\ topic[i] \in Names => v = WalkName(w, topic, i, yes)
      /\ topic[i] = Plus => v = WalkPlus(w, topic, f)
      /\ topic[i] = Hash => v = WalkNumberSign(w, topic, i)
      /\ Later(w, v)
  <2>1. PartIs(tree, topic, i, w, yes, f)
    BY PartStep
  <2>. QED
    BY <1>1, <2>1 DEF PartIs
<1>3. /\ topic[i] \in Names => y = WalkName(x, topic, i, no)
      /\ topic[i] = Plus => y = WalkPlus(x, topic, g)
      /\ topic[i] = Hash => y = WalkNumberSign(x, topic, i)
  <2>1. PartIs(T, topic, i, x, no, g)
    BY PartStep
  <2>. QED
    BY <1>1, <2>1 DEF PartIs
<1>4. w.tree \subseteq T /\ v.tree \subseteq T
  BY <1>2 DEF Later
<1>. HIDE DEF v, y
<1>5. CASE topic[i] \in Names
  <2>. DEFINE next == Append(w.at, topic[i])
  <2>1. /\ v.tree = w.tree \cup {next} /\ v.at = next
        /\ v.found = IF i = Len(topic) THEN Append(w.found, next) ELSE w.found
    <3>1. NameIs(w, topic, i, yes)
      BY <1>1, <1>5, NameStep
    <3>. QED
      BY <1>2, <1>5, <3>1 DEF NameIs
  <2>2. next \in x.tree /\ next = Append(x.at, topic[i]) /\ next \in T
    BY <1>1, <1>4, <2>1
  <2>3. /\ y.at = next
        /\ y.found = IF i = Len(topic) THEN Append(x.found, next) ELSE x.found
    <3>1. NameIs(x, topic, i, no)
      BY <1>1, <1>5, NameStep
    <3>. QED
      BY <1>3, <1>5, <2>2, <3>1 DEF NameIs
  <2>4. w.found \in Seq(T) /\ x.found \in Seq(T)
    BY <1>1, <1>4, WalkFacts, WiderSeq
  <2>. HIDE DEF next
  <2>5. /\ Range(Append(w.found, next)) = Range(w.found) \cup {next}
        /\ Range(Append(x.found, next)) = Range(x.found) \cup {next}
    <3>. DEFINE r == w.found
                t == x.found
    <3>1. next \in T /\ r \in Seq(T) /\ t \in Seq(T)
      BY <2>2, <2>4
    <3>. HIDE DEF r, t
    <3>2. Range(Append(r, next)) = Range(r) \cup {next}
      BY <3>1, RangeAppend
    <3>3. Range(Append(t, next)) = Range(t) \cup {next}
      BY <3>1, RangeAppend
    <3>. QED
      BY <3>2, <3>3 DEF r, t
  <2>. QED
    BY <1>1, <2>1, <2>3, <2>5 DEF KeepsUp, v, y
<1>6. CASE topic[i] = Plus
  <2>1. WalkPlus(w, topic, f).tree \subseteq T
    BY <1>2, <1>4, <1>6
  <2>2. KeepsUp(WalkPlus(w, topic, f), WalkPlus(x, topic, g))
    BY <1>6, <2>1, PlusFindsAgain
  <2>. QED
    BY <1>2, <1>3, <1>6, <2>2 DEF v, y
<1>7. CASE topic[i] = Hash
  <2>1. i = Len(topic)
    BY <1>7 DEF Bad
  <2>2. v.at = w.at /\ Range(v.found) = Range(w.found) \cup
                                          {p \in w.tree : Range(p) \cap Dollar = {}}
    BY <1>1, <1>2, <1>7, <2>1, NumberSignStep DEF NumberSignIs
  <2>3. y.at = x.at /\ Range(y.found) = Range(x.found) \cup
                                          {p \in x.tree : Range(p) \cap Dollar = {}}
    BY <1>1, <1>3, <1>7, <2>1, NumberSignStep DEF NumberSignIs
  <2>. QED
    BY <1>1, <1>4, <2>2, <2>3 DEF KeepsUp, v, y
<1>8. topic[i] # Adjacent
  BY DEF Bad
<1>. QED
  BY <1>5, <1>6, <1>7, <1>8, PartKinds

LEMMA WalkFindsAgain ==
    ASSUME NEW yes \in BOOLEAN, yes, NEW no \in BOOLEAN, ~no,
           NEW f \in Getters(yes), NEW g \in Getters(no), FindsAgain(f, g),
           NEW tree \in Trees, NEW T \in Trees, NEW topic \in Seq(Parts), ~Bad(topic),
           Walk(tree, topic, yes, f).tree \subseteq T
    PROVE  Range(Walk(tree, topic, yes, f).found) \subseteq Range(Walk(T, topic, no, g).found)
<1>. DEFINE n == Len(topic)
            C == Runs(tree, topic, yes)
            D == Runs(T, topic, no)
<1>1. PICK a \in [0 .. n -> C] :
        /\ a[0] = Start(tree)
        /\ \A i \in 1 .. n : a[i] = WalkPart(a[i - 1], topic, i, yes, f)
        /\ Walk(tree, topic, yes, f) = a[n]
  BY WalkSteps DEF WalksBy
<1>2. PICK b \in [0 .. n -> D] :
        /\ b[0] = Start(T)
        /\ \A i \in 1 .. n : b[i] = WalkPart(b[i - 1], topic, i, no, g)
        /\ Walk(T, topic, no, g) = b[n]
  BY WalkSteps DEF WalksBy
<1>3. /\ n \in Nat /\ n \in 0 .. n /\ 0 \in 0 .. n
      /\ \A i \in 1 .. n : i - 1 \in 0 .. n /\ i \in 0 .. n /\ i \in 1 .. Len(topic)
  BY LenProperties
<1>. HIDE DEF n
<1>4. ASSUME NEW i \in 1 .. n PROVE Later(a[i - 1], a[i])
  <2>. DEFINE w == a[i - 1]
  <2>1. w \in C /\ i \in 1 .. Len(topic) /\ a[i] = WalkPart(w, topic, i, yes, f)
    BY <1>1, <1>3
  <2>. HIDE DEF w
  <2>2. Later(w, WalkPart(w, topic, i, yes, f))
    BY <2>1, PartStep DEF PartIs
  <2>. QED
    BY <2>1, <2>2 DEF w
<1>5. ASSUME NEW i \in 0 .. n PROVE a[i].tree \subseteq T
  <2>1. C \subseteq Walks
    BY DEF Runs
  <2>. HIDE DEF C
  <2>2. \A j \in 0 .. n : \A k \in j .. n : Later(a[j], a[k])
    BY <1>3, <1>4, <2>1, LaterStays
  <2>3. n \in i .. n
    BY <1>3
  <2>4. Later(a[i], a[n])
    BY <2>2, <2>3
  <2>. QED
    BY <1>1, <2>4 DEF Later
<1>. DEFINE I == {i \in 0 .. n : KeepsUp(a[i], b[i])}
<1>6. 0 \in I
  BY <1>1, <1>2, <1>3 DEF Start, KeepsUp
<1>7. ASSUME NEW i \in 1 .. n, i - 1 \in I PROVE i \in I
  <2>. DEFINE w == a[i - 1]
              x == b[i - 1]
  <2>1. /\ w \in C /\ x \in D /\ i \in 1 .. Len(topic) /\ i \in 0 .. n
        /\ a[i] = WalkPart(w, topic, i, yes, f) /\ b[i] = WalkPart(x, topic, i, no, g)
        /\ KeepsUp(w, x) /\ a[i].tree \subseteq T
    BY <1>1, <1>2, <1>3, <1>5, <1>7
  <2>. HIDE DEF w, x, I
  <2>2. w \in Runs(tree, topic, yes) /\ x \in Runs(T, topic, no)
    BY <2>1
  <2>3. WalkPart(w, topic, i, yes, f).tree \subseteq T
    BY <2>1
  <2>4. KeepsUp(WalkPart(w, topic, i, yes, f), WalkPart(x, topic, i, no, g))
    BY <2>1, <2>2, <2>3, PartFindsAgain
  <2>. QED
    BY <2>1, <2>4 DEF I
<1>. HIDE DEF I
<1>8. \A i \in 0 .. n : i \in I
  BY <1>3, <1>6, <1>7, UpTo
<1>. QED
  BY <1>1, <1>2, <1>3, <1>8 DEF I, KeepsUp

LEMMA TopicFindsAgain ==
    ASSUME NEW yes \in BOOLEAN, yes, NEW no \in BOOLEAN, ~no,
           NEW tree \in Trees, NEW T \in Trees, NEW topic \in Seq(Parts), ~Bad(topic),
           GetTopicNode(tree, topic, yes).tree \subseteq T
    PROVE  Range(GetTopicNode(tree, topic, yes).found)
             \subseteq Range(GetTopicNode(T, topic, no).found)
<1>. DEFINE n == Len(topic)
<1>1. PICK a \in [0 .. n + 1 -> Getters(yes)] :
        /\ \A q \in Requests : a[0][q] = Start(q.tree)
        /\ \A k \in 1 .. n + 1 : \A q \in Requests :
             a[k][q] = Walk(q.tree, q.topic, yes, a[k - 1])
        /\ GetTopicNode(tree, topic, yes) = Walk(tree, topic, yes, a[n])
  BY TopicSteps
<1>2. PICK b \in [0 .. n + 1 -> Getters(no)] :
        /\ \A q \in Requests : b[0][q] = Start(q.tree)
        /\ \A k \in 1 .. n + 1 : \A q \in Requests :
             b[k][q] = Walk(q.tree, q.topic, no, b[k - 1])
        /\ GetTopicNode(T, topic, no) = Walk(T, topic, no, b[n])
  BY TopicSteps
<1>3. n \in Nat /\ n \in 0 .. n /\ n \in 0 .. n + 1 /\ 0 \in 0 .. n
      /\ \A k \in 1 .. n : k \in 0 .. n /\ k \in 1 .. n + 1 /\ k - 1 \in 0 .. n + 1
  BY LenProperties
<1>. HIDE DEF n
<1>. DEFINE I == {k \in 0 .. n : FindsAgain(a[k], b[k])}
<1>4. 0 \in I
  <2>1. \A q \in Requests : Range(a[0][q].found) = {}
    <3>1. Range(<<>>) = {}
      BY DEF Range
    <3>. QED
      <4>1. ASSUME NEW q \in Requests PROVE a[0][q].found = <<>>
        <5>1. a[0][q] = Start(q.tree)
          BY <1>1
        <5>2. Start(q.tree).found = <<>>
          BY DEF Start
        <5>. QED
          BY <5>1, <5>2
      <4>. QED
        BY <3>1, <4>1
  <2>. QED
    BY <1>3, <2>1 DEF FindsAgain
<1>5. ASSUME NEW k \in 1 .. n, k - 1 \in I PROVE k \in I
  <2>. DEFINE f == a[k - 1]
              g == b[k - 1]
  <2>1. /\ f \in Getters(yes) /\ g \in Getters(no) /\ FindsAgain(f, g)
        /\ \A q \in Requests : a[k][q] = Walk(q.tree, q.topic, yes, f)
        /\ \A q \in Requests : b[k][q] = Walk(q.tree, q.topic, no, g)
    BY <1>1, <1>2, <1>3, <1>5
  <2>. HIDE DEF f, g, I
  <2>2. ASSUME NEW q \in Requests, ~Bad(q.topic), NEW U \in Trees, a[k][q].tree \subseteq U
        PROVE  Range(a[k][q].found) \subseteq Range(b[k][[tree |-> U, topic |-> q.topic]].found)
    <3>1. /\ q.tree \in Trees /\ q.topic \in Seq(Parts)
          /\ [tree |-> U, topic |-> q.topic] \in Requests
      BY DEF Requests
    <3>2. b[k][[tree |-> U, topic |-> q.topic]] = Walk(U, q.topic, no, g)
      BY <2>1, <3>1
    <3>3. a[k][q] = Walk(q.tree, q.topic, yes, f)
      BY <2>1
    <3>. QED
      <4>. DEFINE t == q.tree
                  u == q.topic
      <4>1. /\ t \in Trees /\ u \in Seq(Parts) /\ ~Bad(u)
            /\ Walk(t, u, yes, f).tree \subseteq U
        BY <2>2, <3>1, <3>3
      <4>. HIDE DEF t, u
      <4>2. Range(Walk(t, u, yes, f).found) \subseteq Range(Walk(U, u, no, g).found)
        BY <2>1, <2>2, <4>1, WalkFindsAgain, ZenonT(60)
      <4>. QED
        BY <3>2, <3>3, <4>2 DEF t, u
  <2>3. FindsAgain(a[k], b[k])
    BY <2>2 DEF FindsAgain
  <2>. QED
    BY <1>3, <2>3 DEF I
<1>. HIDE DEF I
<1>6. \A k \in 0 .. n : k \in I
  BY <1>3, <1>4, <1>5, UpTo
<1>. DEFINE f == a[n]
            g == b[n]
<1>7. f \in Getters(yes) /\ g \in Getters(no) /\ FindsAgain(f, g)
  BY <1>3, <1>6 DEF I
<1>8. /\ GetTopicNode(tree, topic, yes) = Walk(tree, topic, yes, f)
      /\ GetTopicNode(T, topic, no) = Walk(T, topic, no, g)
  BY <1>1, <1>2
<1>. HIDE DEF f, g
<1>9. Walk(tree, topic, yes, f).tree \subseteq T
  BY <1>8
<1>10. Range(Walk(tree, topic, yes, f).found) \subseteq Range(Walk(T, topic, no, g).found)
  BY <1>7, <1>9, WalkFindsAgain, ZenonT(60)
<1>. QED
  BY <1>8, <1>10

-----------------------------------------------------------------------------
(***************************************************************************)
(* What a walk that adds nodes finds.                                      *)
(***************************************************************************)
IsWalk(h, tree, topic, add, g) ==
    /\ h \in [0 .. Len(topic) -> Runs(tree, topic, add)]
    /\ h[0] = Start(tree)
    /\ \A i \in 1 .. Len(topic) : h[i] = WalkPart(h[i - 1], topic, i, add, g)

\* The walk h, what its steps are and what has become of its states at the end.
Grows(h, tree, topic, add, g) ==
    /\ IsWalk(h, tree, topic, add, g) /\ Walk(tree, topic, add, g) = h[Len(topic)]
    /\ \A i \in 0 .. Len(topic) : h[i] \in Runs(tree, topic, add) /\ Later(h[i], h[Len(topic)])
    /\ \A i \in 1 .. Len(topic) : PartIs(tree, topic, i, h[i - 1], add, g)

LEMMA WalkGrows ==
    ASSUME NEW add \in BOOLEAN, NEW g \in Getters(add), NEW tree \in Trees,
           NEW topic \in Seq(Parts)
    PROVE  \E h : Grows(h, tree, topic, add, g)
<1>. DEFINE n == Len(topic)
            D == Runs(tree, topic, add)
<1>1. PICK h \in [0 .. n -> D] :
        /\ h[0] = Start(tree)
        /\ \A i \in 1 .. n : h[i] = WalkPart(h[i - 1], topic, i, add, g)
        /\ Walk(tree, topic, add, g) = h[n]
  BY WalkSteps DEF WalksBy
<1>2. /\ n \in Nat /\ n \in 0 .. n /\ D \subseteq Walks
      /\ \A i \in 1 .. n : i - 1 \in 0 .. n /\ i \in 1 .. Len(topic)
      /\ \A i \in 0 .. n : n \in i .. n
  BY LenProperties DEF Runs
<1>3. ASSUME NEW i \in 1 .. n
      PROVE  /\ h[i - 1] \in D /\ PartIs(tree, topic, i, h[i - 1], add, g)
             /\ Later(h[i - 1], h[i])
  <2>. DEFINE w == h[i - 1]
  <2>1. w \in Runs(tree, topic, add) /\ h[i] = WalkPart(w, topic, i, add, g)
    BY <1>1, <1>2
  <2>. HIDE DEF w
  <2>2. PartIs(tree, topic, i, w, add, g)
    BY <2>1, PartStep
  <2>3. Later(w, WalkPart(w, topic, i, add, g))
    BY <2>2 DEF PartIs
  <2>. QED
    BY <2>1, <2>2, <2>3 DEF w
<1>. HIDE DEF n, D
<1>4. \A i \in 0 .. n : \A j \in i .. n : Later(h[i], h[j])
  BY <1>2, <1>3, LaterStays
<1>5. \A i \in 0 .. n : Later(h[i], h[n])
  BY <1>2, <1>4
<1>6. IsWalk(h, tree, topic, add, g)
  BY <1>1 DEF IsWalk, n, D
<1>. QED
  BY <1>1, <1>3, <1>5, <1>6 DEF Grows, n, D

LEMMA LongerBeginning ==
    ASSUME NEW S, NEW p \in Seq(S), NEW k \in 1 .. Len(p)
    PROVE  SubSeq(p, 1, k) = Append(SubSeq(p, 1, k - 1), p[k]) /\ SubSeq(p, 1, k - 1) \in Seq(S)
<1>1. Len(p) \in Nat /\ k \in 0 .. Len(p) /\ k - 1 \in 0 .. Len(p) /\ p[k] \in S
  BY LenProperties, ElementOfSeq
<1>. DEFINE s == SubSeq(p, 1, k)
            t == SubSeq(p, 1, k - 1)
<1>2. s \in Seq(S) /\ Len(s) = k /\ \A i \in 1 .. k : s[i] = p[i]
  BY <1>1, Beginning
<1>3. t \in Seq(S) /\ Len(t) = k - 1 /\ \A i \in 1 .. k - 1 : t[i] = p[i]
  BY <1>1, Beginning
<1>. HIDE DEF s, t
<1>4. /\ Append(t, p[k]) \in Seq(S) /\ Len(Append(t, p[k])) = (k - 1) + 1
      /\ \A i \in 1 .. k - 1 : Append(t, p[k])[i] = t[i]
      /\ Append(t, p[k])[(k - 1) + 1] = p[k]
  BY <1>1, <1>3, AppendProperties
<1>5. (k - 1) + 1 = k /\ \A i \in 1 .. k : i \in 1 .. k - 1 \/ i = k
  BY <1>1
<1>6. \A i \in 1 .. k : s[i] = Append(t, p[k])[i]
  BY <1>2, <1>3, <1>4, <1>5
<1>7. s = Append(t, p[k])
  BY <1>2, <1>4, <1>5, <1>6, SeqEqual
<1>. QED
  BY <1>3, <1>7 DEF s, t

\* The state after the first i parts, which are names.
Named(w, tree, topic, i) ==
    /\ w.at = SubSeq(topic, 1, i) /\ w.err = "NO_ERROR"
    /\ w.tree = tree \cup {SubSeq(topic, 1, j) : j \in 1 .. i}
    /\ w.found = IF i # 0 /\ i = Len(topic) THEN <<w.at>> ELSE <<>>

LEMMA NamesWalked ==
    ASSUME NEW yes \in BOOLEAN, yes, NEW g \in Getters(yes), NEW tree \in Trees,
           NEW topic \in Seq(Parts), NEW h, IsWalk(h, tree, topic, yes, g),
           NEW m \in 0 .. Len(topic), \A j \in 1 .. m : topic[j] \in Names
    PROVE  \A i \in 0 .. m : Named(h[i], tree, topic, i)
<1>1. /\ Len(topic) \in Nat /\ m \in Nat /\ 0 \in 0 .. m
      /\ \A i \in 1 .. m : /\ i \in 1 .. Len(topic) /\ i \in 0 .. m /\ i - 1 \in 0 .. Len(topic)
                           /\ i # 0 /\ i - 1 # Len(topic)
      /\ \A i \in 1 .. m : \A j : j \in 1 .. i <=> j \in 1 .. i - 1 \/ j = i
  BY LenProperties
<1>. DEFINE I == {i \in 0 .. m : Named(h[i], tree, topic, i)}
<1>2. 0 \in I
  <2>1. SubSeq(topic, 1, 0) = <<>>
    BY SubSeqEmpty
  <2>2. h[0] = [tree |-> tree, at |-> <<>>, found |-> <<>>, err |-> "NO_ERROR"] /\ 1 .. 0 = {}
    BY DEF IsWalk, Start, Root
  <2>. QED
    <3>1. h[0].at = <<>> /\ h[0].err = "NO_ERROR" /\ h[0].tree = tree /\ h[0].found = <<>>
      BY <2>2
    <3>2. {SubSeq(topic, 1, j) : j \in 1 .. 0} = {}
      BY <2>2
    <3>3. Named(h[0], tree, topic, 0)
      BY <2>1, <3>1, <3>2 DEF Named
    <3>. QED
      BY <1>1, <3>3
<1>3. ASSUME NEW i \in 1 .. m, i - 1 \in I PROVE i \in I
  <2>. DEFINE w == h[i - 1]
              v == h[i]
              next == Append(w.at, topic[i])
  <2>1. /\ w \in Runs(tree, topic, yes) /\ v = WalkPart(w, topic, i, yes, g)
        /\ topic[i] \in Names /\ i \in 1 .. Len(topic)
    BY <1>1 DEF IsWalk
  <2>2. Named(w, tree, topic, i - 1)
    BY <1>3
  <2>. HIDE DEF I, w, v
  <2>3. PartIs(tree, topic, i, w, yes, g) /\ w \in Walks
    BY <2>1, PartStep DEF Runs
  <2>4. v = WalkName(w, topic, i, yes)
    BY <2>1, <2>2, <2>3 DEF PartIs, Named
  <2>5. NameIs(w, topic, i, yes)
    BY <2>1, <2>3, NameStep
  <2>6. /\ v.tree = w.tree \cup {next} /\ v.at = next /\ v.err = w.err
        /\ v.found = IF i = Len(topic) THEN Append(w.found, next) ELSE w.found
    BY <2>4, <2>5 DEF NameIs
  <2>7. next = SubSeq(topic, 1, i)
    BY <2>1, <2>2, LongerBeginning DEF Named
  <2>8. w.found = <<>> /\ Append(<<>>, next) = <<next>>
    BY <1>1, <2>2 DEF Named
  <2>. HIDE DEF next
  <2>9. Named(v, tree, topic, i)
    <3>1. v.at = SubSeq(topic, 1, i) /\ v.err = "NO_ERROR"
      BY <2>2, <2>6, <2>7 DEF Named
    <3>2. v.tree = tree \cup {SubSeq(topic, 1, j) : j \in 1 .. i}
      <4>. DEFINE P(j) == SubSeq(topic, 1, j)
      <4>1. w.tree = tree \cup {P(j) : j \in 1 .. i - 1} /\ v.tree = w.tree \cup {P(i)}
        BY <2>2, <2>6, <2>7 DEF Named
      <4>2. \A j : j \in 1 .. i <=> j \in 1 .. i - 1 \/ j = i
        BY <1>1
      <4>. HIDE DEF P
      <4>3. {P(j) : j \in 1 .. i} = {P(j) : j \in 1 .. i - 1} \cup {P(i)}
        BY <4>2
      <4>4. v.tree = tree \cup {P(j) : j \in 1 .. i}
        BY <4>1, <4>3
      <4>. QED
        BY <4>4 DEF P
    <3>3. v.found = IF i # 0 /\ i = Len(topic) THEN <<v.at>> ELSE <<>>
      BY <1>1, <2>6, <2>8
    <3>. QED
      BY <3>1, <3>2, <3>3 DEF Named
  <2>. QED
    BY <1>1, <2>9 DEF I, v
<1>. HIDE DEF I
<1>4. \A i \in 0 .. m : i \in I
  BY <1>1, <1>2, <1>3, UpTo
<1>. QED
  BY <1>4 DEF I

\* A topic without wildcards.
Plain(topic) == topic # <<>> /\ \A i \in 1 .. Len(topic) : topic[i] \in Names

IsPlainWalk(w, tree, topic) ==
    /\ w.err = "NO_ERROR" /\ w.found = <<topic>> /\ topic \in w.tree
    /\ topic \in tree => w.tree = tree

LEMMA PlainWalk ==
    ASSUME NEW yes \in BOOLEAN, yes, NEW g \in Getters(yes), NEW tree \in Trees,
           NEW topic \in Seq(Parts), Plain(topic)
    PROVE  IsPlainWalk(Walk(tree, topic, yes, g), tree, topic)
<1>. DEFINE n == Len(topic)
<1>0. PICK h : Grows(h, tree, topic, yes, g)
  BY WalkGrows
<1>1. IsWalk(h, tree, topic, yes, g) /\ Walk(tree, topic, yes, g) = h[Len(topic)]
  BY <1>0 DEF Grows
<1>2. n \in Nat /\ n # 0 /\ n \in 0 .. n /\ n \in 0 .. Len(topic) /\ n \in 1 .. n
  BY LenProperties, EmptySeq DEF Plain
<1>3. SubSeq(topic, 1, n) = topic
  BY SubSeqFull
<1>4. \A i \in 0 .. n : Named(h[i], tree, topic, i)
  BY <1>1, <1>2, NamesWalked DEF Plain
<1>5. Named(h[n], tree, topic, n)
  BY <1>2, <1>4
<1>6. /\ h[n].err = "NO_ERROR" /\ h[n].found = <<topic>>
      /\ h[n].tree = tree \cup {SubSeq(topic, 1, j) : j \in 1 .. n}
  BY <1>2, <1>3, <1>5 DEF Named
<1>7. topic \in h[n].tree
  BY <1>2, <1>3, <1>6
<1>8. topic \in tree => h[n].tree = tree
  <2>1. topic \in tree => \A j \in 1 .. n : SubSeq(topic, 1, j) \in tree
    <3>1. \A j \in 1 .. n : j \in 0 .. Len(topic)
      BY <1>2
    <3>. QED
      BY <3>1, Beginnings
  <2>. QED
    BY <1>6, <2>1
<1>. QED
  BY <1>1, <1>6, <1>7, <1>8 DEF IsPlainWalk

\* The broker has a node to deliver at: only a "+" at the end may find none.
LEMMA WalkFindsSome ==
    ASSUME NEW yes \in BOOLEAN, yes, NEW g \in Getters(yes), NEW tree \in Trees,
           NEW topic \in Seq(Parts), topic # <<>>, ~Bad(topic), topic[Len(topic)] # Plus
    PROVE  Walk(tree, topic, yes, g).found # <<>>
<1>. DEFINE n == Len(topic)
<1>1. PICK h : Grows(h, tree, topic, yes, g)
  BY WalkGrows
<1>2. n \in Nat /\ n \in 1 .. Len(topic) /\ n - 1 \in 0 .. Len(topic)
  BY LenProperties, EmptySeq
<1>. DEFINE w == h[n - 1]
            v == h[n]
<1>3. /\ w \in Runs(tree, topic, yes) /\ PartIs(tree, topic, n, w, yes, g)
      /\ v = WalkPart(w, topic, n, yes, g) /\ Walk(tree, topic, yes, g) = v
  BY <1>1, <1>2 DEF Grows, IsWalk
<1>. HIDE DEF w, v
<1>4. w \in Walks /\ w.err = "NO_ERROR"
  BY <1>3 DEF Runs
<1>5. topic[n] # Adjacent
  BY <1>2 DEF Bad
<1>6. CASE topic[n] \in Names
  <2>1. v = WalkName(w, topic, n, yes) /\ NameIs(w, topic, n, yes)
    BY <1>2, <1>3, <1>4, <1>6, NameStep DEF PartIs
  <2>2. v.found = Append(w.found, Append(w.at, topic[n]))
    BY <2>1 DEF NameIs
  <2>3. w.found \in Seq(Nodes) /\ Append(w.at, topic[n]) \in Nodes
    BY <1>4, <1>6, WalkFacts, FrontOfAppend
  <2>4. Append(w.found, Append(w.at, topic[n])) # <<>>
    BY <2>3, AppendProperties
  <2>. QED
    BY <1>3, <2>2, <2>4
<1>7. CASE topic[n] = Hash
  <2>1. v = WalkNumberSign(w, topic, n) /\ NumberSignIs(w, topic, n)
    BY <1>2, <1>3, <1>4, <1>7, NumberSignStep DEF PartIs
  <2>2. Root \in Range(v.found) /\ Range(<<>>) = {}
    BY <2>1 DEF NumberSignIs, Range
  <2>. QED
    BY <1>3, <2>2
<1>. QED
  BY <1>2, <1>5, <1>6, <1>7, PartKinds

\* What WalkPlus makes of its children.
PlusGrows(h, tree, topic, w, add, g) ==
    /\ h[0] = w /\ WalkPlus(w, topic, g) = h[MaxName]
    /\ \A n \in 0 .. MaxName : /\ h[n] \in Runs(tree, topic, add) /\ h[n].at = w.at
                               /\ Later(w, h[n]) /\ Later(h[n], h[MaxName])
    /\ \A n \in Names : /\ h[n] = Visit(h[n - 1], topic, n, g)
                        /\ VisitIs(tree, topic, h[n - 1], n, add, g)

LEMMA PlusWalks ==
    ASSUME NEW add \in BOOLEAN, NEW g \in Getters(add), NEW tree \in Trees,
           NEW topic \in Seq(Parts), NEW i \in 1 .. Len(topic), topic[i] = Plus,
           NEW w \in Runs(tree, topic, add)
    PROVE  \E h : PlusGrows(h, tree, topic, w, add, g)
<1>. DEFINE D == Runs(tree, topic, add)
<1>1. PICK h \in [0 .. MaxName -> D] :
        /\ h[0] = w
        /\ \A n \in Names : h[n] = Visit(h[n - 1], topic, n, g)
        /\ WalkPlus(w, topic, g) = h[MaxName]
  BY PlusSteps DEF PlusRuns
<1>2. /\ MaxName \in Nat /\ 0 \in 0 .. MaxName /\ Names = 1 .. MaxName
      /\ \A n \in 1 .. MaxName : n \in Names /\ n - 1 \in 0 .. MaxName /\ n \in 0 .. MaxName
      /\ \A n \in 0 .. MaxName : MaxName \in n .. MaxName /\ n \in 0 .. MaxName
  BY Constant
<1>3. ASSUME NEW n \in 1 .. MaxName
      PROVE  /\ VisitIs(tree, topic, h[n - 1], n, add, g)
             /\ Later(h[n - 1], h[n]) /\ h[n].at = h[n - 1].at
  <2>. DEFINE v == h[n - 1]
  <2>1. v \in Runs(tree, topic, add) /\ n \in Names /\ h[n] = Visit(v, topic, n, g)
    BY <1>1, <1>2
  <2>. HIDE DEF v
  <2>2. n \in Names /\ v \in Runs(tree, topic, add)
    BY <2>1
  <2>3. VisitIs(tree, topic, v, n, add, g)
    BY <2>2, VisitStep
  <2>4. Later(v, Visit(v, topic, n, g)) /\ Visit(v, topic, n, g).at = v.at
    BY <2>3 DEF VisitIs
  <2>. QED
    BY <2>1, <2>3, <2>4 DEF v
<1>4. D \subseteq Walks /\ \A n \in 0 .. MaxName : h[n] \in Runs(tree, topic, add)
  BY DEF Runs
<1>. HIDE DEF D
<1>5. \A n \in 0 .. MaxName : \A m \in n .. MaxName : Later(h[n], h[m])
  BY <1>2, <1>3, <1>4, LaterStays
<1>6. \A n \in 0 .. MaxName : Later(h[0], h[n]) /\ Later(h[n], h[MaxName])
  BY <1>2, <1>5
<1>. DEFINE I == {n \in 0 .. MaxName : h[n].at = w.at}
<1>7. 0 \in I
  BY <1>1, <1>2
<1>8. ASSUME NEW n \in 1 .. MaxName, n - 1 \in I PROVE n \in I
  BY <1>2, <1>3, <1>8
<1>. HIDE DEF I
<1>9. \A n \in 0 .. MaxName : n \in I
  BY <1>2, <1>7, <1>8, UpTo
<1>10. \A n \in 0 .. MaxName : h[n].at = w.at
  BY <1>9 DEF I
<1>. QED
  BY <1>1, <1>2, <1>3, <1>4, <1>6, <1>10 DEF PlusGrows

\* "+" finds what the walk finds with a child's name for it.
LEMMA PlusFinds ==
    ASSUME NEW yes \in BOOLEAN, yes, NEW g \in Getters(yes), NEW tree \in Trees,
           NEW topic \in Seq(Parts), ~Bad(topic), NEW i \in 1 .. Len(topic), topic[i] = Plus,
           NEW w \in Runs(tree, topic, yes), NEW m \in Names, Visited(tree, w.at, m), NEW p,
           \A T \in Trees : tree \subseteq T =>
               p \in Range(g[[tree |-> T, topic |-> Filled(topic, m)]].found)
    PROVE  p \in Range(WalkPlus(w, topic, g).found)
<1>1. PICK h : PlusGrows(h, tree, topic, w, yes, g)
  BY PlusWalks
<1>2. m - 1 \in 0 .. MaxName /\ m \in 0 .. MaxName
  BY Constant
<1>. DEFINE v == h[m - 1]
            x == h[m]
            q == [tree |-> v.tree, topic |-> Filled(topic, m)]
<1>3. /\ v \in Runs(tree, topic, yes) /\ v.at = w.at /\ VisitIs(tree, topic, v, m, yes, g)
      /\ x = Visit(v, topic, m, g) /\ Later(x, WalkPlus(w, topic, g))
  BY <1>1, <1>2 DEF PlusGrows
<1>. HIDE DEF v, x
<1>4. v \in Walks /\ v.err = "NO_ERROR" /\ tree \subseteq v.tree /\ v.tree \in Trees
  BY <1>3, WalkFacts DEF Runs
<1>5. Visited(v.tree, v.at, m)
  BY <1>3, <1>4 DEF Visited, HasChild
<1>6. Range(x.found) = Range(v.found) \cup Range(g[q].found)
  BY <1>3, <1>4, <1>5 DEF VisitIs
<1>7. p \in Range(g[q].found)
  BY <1>4
<1>. QED
  BY <1>3, <1>6, <1>7 DEF Later

\* Calls that may nest k deep reach every "+" of the topic.
Within(k, topic) ==
    k > 0 /\ \A i \in 1 .. Len(topic) : topic[i] = Plus => Len(topic) + 1 - i < k

FindsMatches(g, k) ==
    \A q \in Requests :
        (q.topic # <<>> /\ ~Bad(q.topic) /\ ~BelowDollar(q.topic) /\ Within(k, q.topic)) =>
        \A p \in q.tree : Matches(q.topic, p) => p \in Range(g[q].found)

LEMMA FilledMatches ==
    ASSUME NEW topic \in Seq(Parts), topic # <<>>, ~Bad(topic), topic[Len(topic)] # Hash,
           NEW i \in 1 .. Len(topic), topic[i] = Plus, NEW k \in Nat, Within(k + 1, topic),
           NEW p \in Nodes, Matches(topic, p)
    PROVE  LET m == p[FirstPlus(topic)]
           IN  /\ m \in Names /\ m \notin Dollar /\ Matches(Filled(topic, m), p)
               /\ Filled(topic, m) \in Seq(Parts) /\ Filled(topic, m) # <<>>
               /\ ~Bad(Filled(topic, m)) /\ ~BelowDollar(Filled(topic, m))
               /\ Within(k, Filled(topic, m))
<1>. DEFINE f == FirstPlus(topic)
            m == p[f]
            t == Filled(topic, m)
            n == Len(topic)
<1>1. /\ f \in 1 .. n /\ topic[f] = Plus /\ \A j \in 1 .. f - 1 : topic[j] # Plus
  BY FirstPlusIs
<1>2. n \in Nat /\ n \in 1 .. n /\ DOMAIN topic = 1 .. n
  BY LenProperties, EmptySeq
<1>3. ASSUME NEW j \in 1 .. n PROVE topic[j] # Hash
  BY <1>3 DEF Bad
<1>4. /\ Len(p) = n /\ \A j \in 1 .. n : IF topic[j] = Plus THEN p[j] \notin Dollar
                                        ELSE p[j] = topic[j]
  BY <1>2, <1>3 DEF Matches, Last
<1>5. m \in Names /\ m \notin Dollar
  <2>1. p \in Seq(Names) /\ f \in 1 .. Len(p)
    BY <1>1, <1>4 DEF Nodes
  <2>2. p[f] \in Names
    BY <2>1, ElementOfSeq
  <2>. QED
    BY <1>1, <1>4, <2>2
<1>. HIDE DEF m, f
<1>6. /\ t \in Seq(Parts) /\ Len(t) = n /\ ~Bad(t) /\ DOMAIN t = 1 .. n
      /\ \A j \in 1 .. n : t[j] = IF j = f THEN m ELSE topic[j]
  <2>1. /\ t \in Seq(Parts) /\ Len(t) = n /\ ~Bad(t)
        /\ \A j \in 1 .. n : t[j] = IF j = f THEN m ELSE topic[j]
    BY <1>5, FilledIs DEF f
  <2>2. DOMAIN t = 1 .. Len(t)
    BY <2>1, LenProperties
  <2>. QED
    BY <2>1, <2>2
<1>. HIDE DEF t
<1>7. m # Plus /\ m # Hash
  BY <1>5, Constant DEF Plus, Hash
<1>8. \A j \in 1 .. n : /\ t[j] # Hash
                        /\ IF t[j] = Plus THEN p[j] \notin Dollar ELSE p[j] = t[j]
  BY <1>3, <1>4, <1>6, <1>7 DEF m
<1>9. Matches(t, p)
  BY <1>2, <1>4, <1>6, <1>8 DEF Matches, Last
<1>10. t # <<>>
  BY <1>2, <1>6, EmptySeq
<1>11. Within(k, t)
  <2>1. n + 1 - f < k + 1
    BY <1>1 DEF Within
  <2>2. k > 0
    BY <1>1, <1>2, <2>1
  <2>3. ASSUME NEW j \in 1 .. n, t[j] = Plus PROVE n + 1 - j < k
    <3>1. j # f /\ topic[j] = Plus
      BY <1>6, <1>7, <2>3
    <3>2. ~(j \in 1 .. f - 1)
      BY <1>1, <3>1
    <3>3. j >= f + 1
      BY <1>1, <1>2, <3>1, <3>2
    <3>. QED
      BY <1>1, <1>2, <2>1, <3>3
  <2>. QED
    BY <1>6, <2>2, <2>3 DEF Within
<1>12. ~BelowDollar(t)
  BY <1>2, <1>6, <1>8 DEF BelowDollar, Last
<1>. QED
  BY <1>5, <1>6, <1>9, <1>10, <1>11, <1>12 DEF t, m, f

LEMMA WalkFindsMatches ==
    ASSUME NEW yes \in BOOLEAN, yes, NEW g \in Getters(yes), NEW k \in Nat, FindsMatches(g, k),
           NEW tree \in Trees, NEW topic \in Seq(Parts), topic # <<>>, ~Bad(topic),
           ~BelowDollar(topic), Within(k + 1, topic), NEW p \in tree, Matches(topic, p)
    PROVE  p \in Range(Walk(tree, topic, yes, g).found)
<1>. DEFINE n == Len(topic)
<1>1. PICK h : Grows(h, tree, topic, yes, g)
  BY WalkGrows
<1>2. n \in Nat /\ n \in 1 .. Len(topic) /\ n - 1 \in 0 .. n /\ DOMAIN topic = 1 .. n /\ n # 0
  BY LenProperties, EmptySeq
<1>3. p \in Seq(Names) /\ p \in Nodes
  BY TreeFacts DEF Nodes
<1>4. ASSUME NEW i \in 0 .. n
      PROVE  /\ h[i] \in Runs(tree, topic, yes) /\ h[i] \in Walks /\ h[i].err = "NO_ERROR"
             /\ tree \subseteq h[i].tree /\ Later(h[i], h[n])
  BY <1>1 DEF Grows, Runs
<1>5. Walk(tree, topic, yes, g) = h[n]
  BY <1>1 DEF Grows
<1>6. CASE topic[n] = Hash
  <2>. DEFINE w == h[n - 1]
  <2>1. /\ w \in Walks /\ w.err = "NO_ERROR" /\ tree \subseteq w.tree
        /\ PartIs(tree, topic, n, w, yes, g) /\ h[n] = WalkPart(w, topic, n, yes, g)
    BY <1>1, <1>2, <1>4 DEF Grows, IsWalk
  <2>. HIDE DEF w
  <2>2. h[n] = WalkNumberSign(w, topic, n) /\ NumberSignIs(w, topic, n)
    BY <1>2, <1>6, <2>1, NumberSignStep DEF PartIs
  <2>3. Range(p) \cap Dollar = {}
    <3>1. /\ \A i \in n .. Len(p) : p[i] \notin Dollar
          /\ \A i \in 1 .. n : topic[i] # Hash =>
                IF topic[i] = Plus THEN p[i] \notin Dollar ELSE p[i] = topic[i]
      BY <1>2, <1>6 DEF Matches, Last
    <3>2. \A i \in 1 .. n : topic[i] \notin Dollar
      BY <1>2, <1>6, RangeOf DEF BelowDollar, Last
    <3>3. \A i \in 1 .. n : i # n => topic[i] # Hash
      BY DEF Bad
    <3>4. Len(p) \in Nat /\ \A i \in 1 .. Len(p) : i \in n .. Len(p) \/ (i \in 1 .. n /\ i # n)
      <4>1. Len(p) \in Nat /\ n \in Nat
        BY <1>2, <1>3, LenProperties
      <4>. HIDE DEF n
      <4>. QED
        BY <4>1
    <3>5. \A i \in 1 .. Len(p) : p[i] \notin Dollar
      BY <3>1, <3>2, <3>3, <3>4
    <3>. QED
      BY <1>3, <3>5, RangeOf
  <2>. QED
    BY <1>5, <2>1, <2>2, <2>3 DEF NumberSignIs
<1>7. CASE topic[n] # Hash /\ \A i \in 1 .. n : topic[i] # Plus
  <2>1. \A i \in 1 .. n : topic[i] # Hash /\ topic[i] # Adjacent
    BY <1>2, <1>7 DEF Bad
  <2>2. Plain(topic)
    BY <1>7, <2>1, PartKinds DEF Plain
  <2>3. Len(p) = n /\ \A i \in 1 .. n : p[i] = topic[i]
    BY <1>2, <1>7, <2>1 DEF Matches, Last
  <2>4. p \in Seq(Parts)
    BY <1>3, WiderSeq DEF Parts
  <2>5. p = topic
    BY <2>3, <2>4, SeqEqual
  <2>6. Walk(tree, topic, yes, g).found = <<topic>>
    <3>. DEFINE w == Walk(tree, topic, yes, g)
    <3>1. IsPlainWalk(w, tree, topic)
      BY <2>2, PlainWalk
    <3>. HIDE DEF w
    <3>2. w.found = <<topic>>
      BY <3>1 DEF IsPlainWalk
    <3>. QED
      BY <3>2 DEF w
  <2>7. Range(<<topic>>) = {topic}
    BY DEF Range
  <2>. QED
    BY <2>5, <2>6, <2>7
<1>8. CASE topic[n] # Hash /\ \E i \in 1 .. n : topic[i] = Plus
  <2>. DEFINE f == FirstPlus(topic)
              m == p[f]
              w == h[f - 1]
  <2>1. PICK i \in 1 .. n : topic[i] = Plus
    BY <1>8
  <2>2. f \in 1 .. n /\ topic[f] = Plus /\ \A j \in 1 .. f - 1 : topic[j] # Plus
    BY <2>1, FirstPlusIs
  <2>3. /\ m \in Names /\ m \notin Dollar /\ Matches(Filled(topic, m), p)
        /\ Filled(topic, m) \in Seq(Parts) /\ Filled(topic, m) # <<>>
        /\ ~Bad(Filled(topic, m)) /\ ~BelowDollar(Filled(topic, m))
        /\ Within(k, Filled(topic, m))
    BY <1>3, <1>8, <2>1, FilledMatches
  <2>4. /\ f - 1 \in 0 .. n /\ f \in 0 .. n /\ f - 1 \in 0 .. f - 1
        /\ \A j \in 1 .. f - 1 : j \in 1 .. n /\ j # n
    <3>1. f \in 1 .. n /\ n \in Nat
      BY <1>2, <2>2
    <3>. HIDE DEF f, n
    <3>. QED
      BY <3>1
  <2>5. \A j \in 1 .. n : topic[j] # Hash
    BY <1>8 DEF Bad
  <2>6. ASSUME NEW j \in 1 .. f - 1 PROVE topic[j] \in Names
    <3>1. topic[j] # Adjacent /\ topic[j] # Hash /\ topic[j] # Plus /\ j \in 1 .. n
      BY <2>2, <2>4, <2>5 DEF Bad
    <3>. QED
      BY <3>1, PartKinds
  <2>7. w.at = SubSeq(topic, 1, f - 1)
    <3>1. IsWalk(h, tree, topic, yes, g)
      BY <1>1 DEF Grows
    <3>. HIDE DEF f
    <3>2. \A j \in 0 .. f - 1 : Named(h[j], tree, topic, j)
      BY <2>4, <2>6, <3>1, NamesWalked
    <3>. QED
      BY <2>4, <3>2 DEF Named
  <2>8. Len(p) = n /\ \A j \in 1 .. n : topic[j] # Plus => p[j] = topic[j]
    BY <1>2, <1>8, <2>5 DEF Matches, Last
  <2>9. SubSeq(topic, 1, f - 1) = SubSeq(p, 1, f - 1)
    <3>. DEFINE s == SubSeq(topic, 1, f - 1)
                t == SubSeq(p, 1, f - 1)
    <3>. HIDE DEF f
    <3>1. p \in Seq(Parts)
      BY <1>3, WiderSeq DEF Parts
    <3>2. s \in Seq(Parts) /\ Len(s) = f - 1 /\ \A j \in 1 .. f - 1 : s[j] = topic[j]
      BY <2>4, Beginning
    <3>3. t \in Seq(Parts) /\ Len(t) = f - 1 /\ \A j \in 1 .. f - 1 : t[j] = p[j]
      BY <2>4, <2>8, <3>1, Beginning
    <3>4. \A j \in 1 .. f - 1 : s[j] = t[j]
      BY <2>2, <2>4, <2>8, <3>2, <3>3
    <3>. HIDE DEF s, t
    <3>5. s = t
      BY <3>2, <3>3, <3>4, SeqEqual
    <3>. QED
      BY <3>5 DEF s, t
  <2>10. Append(w.at, m) \in tree
    <3>1. f \in 1 .. Len(p) /\ f \in 0 .. Len(p)
      BY <2>2, <2>4, <2>8
    <3>. HIDE DEF f
    <3>2. SubSeq(p, 1, f) = Append(SubSeq(p, 1, f - 1), p[f])
      BY <1>3, <3>1, LongerBeginning
    <3>3. SubSeq(p, 1, f) \in tree
      BY <3>1, Beginnings
    <3>. QED
      BY <2>7, <2>9, <3>2, <3>3
  <2>. HIDE DEF m, f, w
  <2>11. ASSUME NEW T \in Trees, tree \subseteq T
         PROVE  p \in Range(g[[tree |-> T, topic |-> Filled(topic, m)]].found)
    <3>. DEFINE q == [tree |-> T, topic |-> Filled(topic, m)]
    <3>1. q \in Requests /\ q.topic = Filled(topic, m) /\ p \in q.tree
      BY <2>3, <2>11 DEF Requests
    <3>. HIDE DEF q
    <3>2. p \in Range(g[q].found)
      BY <2>3, <3>1 DEF FindsMatches
    <3>. QED
      BY <3>2 DEF q
  <2>12. /\ w \in Runs(tree, topic, yes) /\ w.err = "NO_ERROR"
         /\ PartIs(tree, topic, f, w, yes, g) /\ h[f] = WalkPart(w, topic, f, yes, g)
    BY <1>1, <1>4, <2>2, <2>4 DEF Grows, IsWalk, w
  <2>13. h[f] = WalkPlus(w, topic, g)
    BY <2>2, <2>12 DEF PartIs
  <2>14. Visited(tree, w.at, m)
    BY <2>3, <2>10 DEF Visited, HasChild
  <2>15. p \in Range(WalkPlus(w, topic, g).found)
    BY <2>2, <2>3, <2>11, <2>12, <2>14, PlusFinds
  <2>16. Later(h[f], h[n])
    BY <1>4, <2>4
  <2>. QED
    BY <1>5, <2>13, <2>15, <2>16 DEF Later
<1>. QED
  BY <1>6, <1>7, <1>8

\* A topic whose only wildcard is a "+" at its end.
LastPlus(topic) ==
    /\ topic # <<>> /\ topic[Len(topic)] = Plus
    /\ \A i \in 1 .. Len(topic) - 1 : topic[i] \in Names

LEMMA FilledLast ==
    ASSUME NEW topic \in Seq(Parts), LastPlus(topic), NEW m \in Names
    PROVE  /\ Filled(topic, m) = Append(SubSeq(topic, 1, Len(topic) - 1), m)
           /\ Plain(Filled(topic, m)) /\ Filled(topic, m) \in Seq(Parts)
           /\ SubSeq(topic, 1, Len(topic) - 1) \in Nodes
<1>. DEFINE n == Len(topic)
            s == SubSeq(topic, 1, n - 1)
            t == Filled(topic, m)
            f == FirstPlus(topic)
<1>1. n \in Nat /\ n \in 1 .. n /\ n - 1 \in 0 .. n /\ n # 0 /\ topic[n] = Plus
  BY LenProperties, EmptySeq DEF LastPlus
<1>2. f \in 1 .. n /\ topic[f] = Plus
  BY <1>1, FirstPlusIs
<1>3. ASSUME NEW i \in 1 .. n - 1 PROVE topic[i] \in Names /\ topic[i] # Plus
  BY <1>3, Constant DEF LastPlus, Plus
<1>. HIDE DEF f
<1>4. f = n
  <2>1. ~(f \in 1 .. n - 1)
    BY <1>2, <1>3
  <2>. QED
    BY <1>1, <1>2, <2>1
<1>5. /\ t \in Seq(Parts) /\ Len(t) = n
      /\ \A j \in 1 .. n : t[j] = IF j = n THEN m ELSE topic[j]
  BY <1>1, <1>4, FilledIs DEF f
<1>6. Len(s) = n - 1 /\ \A j \in 1 .. n - 1 : s[j] = topic[j]
  BY <1>1, Beginning
<1>7. s \in Seq(Names)
  <2>1. \A j \in 1 .. n - 1 : topic[j] \in Names
    BY <1>3
  <2>. QED
    BY <1>1, <2>1, SubSeqProperties
<1>. HIDE DEF t, s, n
<1>8. t \in Seq(Names)
  <2>1. \A j \in 1 .. n : j \in 1 .. n - 1 \/ j = n
    BY <1>1
  <2>2. \A j \in 1 .. n : t[j] \in Names
    BY <1>3, <1>5, <2>1
  <2>3. t \in [1 .. n -> Parts]
    BY <1>5, LenProperties
  <2>4. t \in [1 .. n -> Names]
    BY <2>2, <2>3
  <2>. QED
    BY <1>1, <2>4, SeqDef
<1>9. /\ Append(s, m) \in Seq(Names) /\ Len(Append(s, m)) = (n - 1) + 1
      /\ \A i \in 1 .. n - 1 : Append(s, m)[i] = s[i]
      /\ Append(s, m)[(n - 1) + 1] = m
  BY <1>6, <1>7, AppendProperties
<1>10. (n - 1) + 1 = n /\ \A j \in 1 .. n : j \in 1 .. n - 1 \/ j = n
  BY <1>1
<1>11. \A j \in 1 .. n : t[j] = Append(s, m)[j]
  BY <1>1, <1>5, <1>6, <1>9, <1>10
<1>12. t = Append(s, m)
  BY <1>5, <1>8, <1>9, <1>10, <1>11, SeqEqual
<1>13. Plain(t)
  <2>1. t # <<>>
    BY <1>1, <1>5, EmptySeq
  <2>. QED
    BY <1>8, <2>1, ElementOfSeq DEF Plain
<1>. QED
  BY <1>5, <1>7, <1>12, <1>13 DEF t, s, n, Nodes

LEMMA InjectiveAppend ==
    ASSUME NEW S, NEW s \in Seq(S), IsInjective(s), NEW e \in S, e \notin Range(s)
    PROVE  IsInjective(Append(s, e))
<1>. DEFINE t == Append(s, e)
<1>1. /\ t \in Seq(S) /\ Len(s) \in Nat /\ Len(t) = Len(s) + 1
      /\ \A i \in 1 .. Len(s) : t[i] = s[i]
      /\ t[Len(s) + 1] = e
  BY AppendProperties, LenProperties
<1>2. DOMAIN t = 1 .. Len(s) + 1 /\ DOMAIN s = 1 .. Len(s)
  BY <1>1, LenProperties
<1>3. \A i \in 1 .. Len(s) : s[i] # e
  BY RangeOf
<1>. HIDE DEF t
<1>4. \A a \in 1 .. Len(s) + 1 : a \in 1 .. Len(s) \/ a = Len(s) + 1
  BY <1>1
<1>5. ASSUME NEW a \in DOMAIN t, NEW b \in DOMAIN t, t[a] = t[b] PROVE a = b
  <2>1. CASE a \in 1 .. Len(s) /\ b \in 1 .. Len(s)
    BY <1>1, <1>2, <1>5, <2>1 DEF IsInjective
  <2>. QED
    BY <1>1, <1>2, <1>3, <1>4, <1>5, <2>1
<1>. QED
  BY <1>5 DEF IsInjective, t

PlainFound(g) ==
    \A q \in Requests : Plain(q.topic) => IsPlainWalk(g[q], q.tree, q.topic)

LEMMA ChildrenFound ==
    ASSUME NEW yes \in BOOLEAN, yes, NEW g \in Getters(yes), PlainFound(g), NEW tree \in Trees,
           NEW topic \in Seq(Parts), LastPlus(topic), ~Bad(topic),
           NEW w \in Runs(tree, topic, yes), w.found = <<>>,
           w.at = SubSeq(topic, 1, Len(topic) - 1)
    PROVE  LET x == WalkPlus(w, topic, g)
           IN  /\ x.tree = w.tree /\ IsInjective(x.found)
               /\ \A p : p \in Range(x.found) <=>
                    \E m \in Names : Visited(w.tree, w.at, m) /\ p = Append(w.at, m)
<1>. DEFINE n == Len(topic)
            Found(p, k) == \E m \in 1 .. k : Visited(w.tree, w.at, m) /\ p = Append(w.at, m)
            C(v, k) == /\ v.tree = w.tree /\ IsInjective(v.found)
                       /\ \A p : p \in Range(v.found) <=> Found(p, k)
<1>0. n \in Nat /\ n \in 1 .. Len(topic) /\ topic[n] = Plus
  BY LenProperties, EmptySeq DEF LastPlus
<1>1. PICK h : PlusGrows(h, tree, topic, w, yes, g)
  BY <1>0, PlusWalks
<1>2. /\ MaxName \in Nat /\ 0 \in 0 .. MaxName /\ Names = 1 .. MaxName /\ MaxName \in 0 .. MaxName
      /\ \A k \in 1 .. MaxName : k \in Names /\ k - 1 \in 0 .. MaxName /\ k \in 0 .. MaxName
      /\ \A k \in 1 .. MaxName : \A m : m \in 1 .. k <=> m \in 1 .. k - 1 \/ m = k
      /\ \A k \in 1 .. MaxName : \A m \in 1 .. k - 1 : m \in Names /\ m # k
  BY Constant
<1>3. w.tree \in Trees /\ w.at \in Nodes /\ w.at \in w.tree
  BY WalkFacts DEF Runs
<1>. DEFINE I == {k \in 0 .. MaxName : C(h[k], k)}
<1>4. 0 \in I
  <2>1. h[0] = w /\ Range(<<>>) = {} /\ IsInjective(<<>>) /\ 1 .. 0 = {}
    BY <1>1 DEF PlusGrows, Range, IsInjective
  <2>. QED
    BY <1>2, <2>1
<1>5. ASSUME NEW k \in 1 .. MaxName, k - 1 \in I PROVE k \in I
  <2>. DEFINE v == h[k - 1]
              x == h[k]
              t == Filled(topic, k)
              q == [tree |-> v.tree, topic |-> t]
              a == Append(w.at, k)
  <2>1. /\ v \in Runs(tree, topic, yes) /\ v.at = w.at /\ VisitIs(tree, topic, v, k, yes, g)
        /\ x = Visit(v, topic, k, g)
    BY <1>1, <1>2 DEF PlusGrows
  <2>2. C(v, k - 1) /\ k \in Names
    BY <1>2, <1>5
  <2>. HIDE DEF I, v, x
  <2>3. v.err = "NO_ERROR" /\ v \in Walks
    BY <2>1 DEF Runs
  <2>4. CASE ~Visited(w.tree, w.at, k)
    <3>1. x = v
      BY <2>1, <2>2, <2>4 DEF VisitIs
    <3>2. \A p : Found(p, k) <=> Found(p, k - 1)
      BY <1>2, <2>4
    <3>. HIDE DEF Found
    <3>. QED
      BY <1>2, <2>2, <3>1, <3>2 DEF I, x, v
  <2>5. CASE Visited(w.tree, w.at, k)
    <3>1. t = a /\ Plain(t) /\ t \in Seq(Parts)
      BY <2>2, FilledLast
    <3>2. a \in w.tree
      BY <2>5 DEF Visited, HasChild
    <3>3. q \in Requests /\ q.tree = w.tree /\ q.topic = t
      BY <1>3, <2>2, <3>1 DEF Requests
    <3>4. /\ x.tree = g[q].tree /\ x.found = v.found \o g[q].found
      BY <2>1, <2>2, <2>3, <2>5 DEF VisitIs
    <3>. HIDE DEF q, t
    <3>5. IsPlainWalk(g[q], w.tree, t)
      BY <3>1, <3>3 DEF PlainFound
    <3>6. g[q].found = <<a>> /\ g[q].tree = w.tree
      BY <3>1, <3>2, <3>5 DEF IsPlainWalk
    <3>. DEFINE s == v.found
                S == w.tree
    <3>7. s \in Seq(S) /\ a \in S
      BY <2>2, <2>3, <3>2, WalkFacts
    <3>8. ~Found(a, k - 1)
      <4>1. ASSUME NEW m \in 1 .. k - 1 PROVE a # Append(w.at, m)
        <5>1. m \in Names /\ m # k
          BY <1>2
        <5>2. a[Len(w.at) + 1] = k /\ Append(w.at, m)[Len(w.at) + 1] = m
          BY <1>3, <2>2, <5>1, FrontOfAppend
        <5>. QED
          BY <5>1, <5>2
      <4>. QED
        BY <4>1
    <3>9. a \notin Range(s) /\ IsInjective(s)
      BY <2>2, <3>8
    <3>10. x.found = Append(s, a)
      BY <3>4, <3>6, <3>7, AppendIsConcat
    <3>11. \A p : Found(p, k) <=> Found(p, k - 1) \/ p = a
      BY <1>2, <2>5
    <3>12. \A p : p \in Range(s) <=> Found(p, k - 1)
      BY <2>2
    <3>. HIDE DEF Found, a, s, S
    <3>13. Range(Append(s, a)) = Range(s) \cup {a}
      BY <3>7, RangeAppend
    <3>14. IsInjective(Append(s, a))
      BY <3>7, <3>9, InjectiveAppend
    <3>15. \A p : p \in Range(x.found) <=> Found(p, k)
      BY <3>10, <3>11, <3>12, <3>13
    <3>16. C(x, k)
      BY <3>4, <3>6, <3>10, <3>14, <3>15
    <3>. QED
      BY <1>2, <3>16 DEF I, x
  <2>. QED
    BY <2>4, <2>5
<1>. HIDE DEF I
<1>6. \A k \in 0 .. MaxName : k \in I
  BY <1>2, <1>4, <1>5, UpTo
<1>7. C(h[MaxName], MaxName)
  BY <1>2, <1>6 DEF I
<1>8. WalkPlus(w, topic, g) = h[MaxName]
  BY <1>1 DEF PlusGrows
<1>. QED
  BY <1>2, <1>7, <1>8

\* A walk that finds the nodes that match, in some order, and nothing else.
Exact(w, topic) ==
    /\ w.err = "NO_ERROR" /\ IsInjective(w.found)
    /\ \A p : p \in Range(w.found) <=> p \in w.tree /\ Matches(topic, p)

LEMMA PlainExact ==
    ASSUME NEW tree \in Trees, NEW topic \in Seq(Parts), Plain(topic), NEW w \in Walks,
           IsPlainWalk(w, tree, topic)
    PROVE  Exact(w, topic)
<1>. DEFINE n == Len(topic)
<1>1. n \in Nat /\ n \in 1 .. n /\ DOMAIN topic = 1 .. n
  BY LenProperties, EmptySeq DEF Plain
<1>2. \A i \in 1 .. n : topic[i] # Plus /\ topic[i] # Hash
  BY PartKinds DEF Plain
<1>3. w.found = <<topic>> /\ w.err = "NO_ERROR" /\ topic \in w.tree
  BY DEF IsPlainWalk
<1>4. Range(<<topic>>) = {topic} /\ IsInjective(<<topic>>)
  BY DEF Range, IsInjective
<1>5. Matches(topic, topic)
  BY <1>1, <1>2 DEF Matches, Last
<1>6. ASSUME NEW p \in w.tree, Matches(topic, p) PROVE p = topic
  <2>1. Len(p) = n /\ \A i \in 1 .. n : p[i] = topic[i]
    BY <1>1, <1>2, <1>6 DEF Matches, Last
  <2>2. p \in Seq(Names)
    BY WalkFacts, TreeFacts
  <2>3. p \in Seq(Parts)
    BY <2>2, WiderSeq DEF Parts
  <2>. QED
    BY <2>1, <2>3, SeqEqual
<1>. QED
  BY <1>3, <1>4, <1>5, <1>6 DEF Exact

LEMMA LastPlusExact ==
    ASSUME NEW yes \in BOOLEAN, yes, NEW g \in Getters(yes), PlainFound(g), NEW tree \in Trees,
           NEW topic \in Seq(Parts), LastPlus(topic)
    PROVE  Exact(Walk(tree, topic, yes, g), topic)
<1>. DEFINE n == Len(topic)
<1>1. PICK h : Grows(h, tree, topic, yes, g)
  BY WalkGrows
<1>2. /\ n \in Nat /\ n \in 1 .. Len(topic) /\ n - 1 \in 0 .. Len(topic) /\ n - 1 # n
      /\ DOMAIN topic = 1 .. n /\ topic[n] = Plus /\ n - 1 \in 0 .. n - 1
      /\ \A i \in 1 .. n : i \in 1 .. n - 1 \/ i = n
  BY LenProperties, EmptySeq DEF LastPlus
<1>3. \A i \in 1 .. n - 1 : topic[i] \in Names /\ topic[i] # Plus
  BY Constant DEF LastPlus, Plus
<1>4. \A i \in 1 .. n : topic[i] # Adjacent /\ topic[i] # Hash
  BY <1>2, <1>3, PartKinds
<1>5. ~Bad(topic)
  BY <1>4 DEF Bad
<1>. DEFINE w == h[n - 1]
            q == SubSeq(topic, 1, n - 1)
            x == WalkPlus(w, topic, g)
<1>6. Named(w, tree, topic, n - 1)
  <2>1. IsWalk(h, tree, topic, yes, g)
    BY <1>1 DEF Grows
  <2>2. \A i \in 0 .. n - 1 : Named(h[i], tree, topic, i)
    BY <1>2, <1>3, <2>1, NamesWalked
  <2>. QED
    BY <1>2, <2>2
<1>7. /\ w \in Runs(tree, topic, yes) /\ PartIs(tree, topic, n, w, yes, g)
      /\ h[n] = WalkPart(w, topic, n, yes, g) /\ Walk(tree, topic, yes, g) = h[n]
  BY <1>1, <1>2 DEF Grows, IsWalk
<1>8. w.at = q /\ w.found = <<>> /\ w.err = "NO_ERROR"
  BY <1>2, <1>6 DEF Named
<1>. HIDE DEF w
<1>9. Walk(tree, topic, yes, g) = x
  BY <1>2, <1>7, <1>8 DEF PartIs
<1>10. /\ x.tree = w.tree /\ IsInjective(x.found)
       /\ \A p : p \in Range(x.found) <=>
            \E m \in Names : Visited(w.tree, w.at, m) /\ p = Append(w.at, m)
  BY <1>5, <1>7, <1>8, ChildrenFound
<1>11. x.err = "NO_ERROR"
  <2>1. x \in Runs(tree, topic, yes)
    BY <1>2, <1>7, PlusFacts
  <2>. QED
    BY <1>5, <2>1 DEF Runs
<1>. HIDE DEF x
<1>12. w.tree \in Trees /\ q \in Seq(Names) /\ Len(q) = n - 1
       /\ \A i \in 1 .. n - 1 : q[i] = topic[i]
  <2>1. w.tree \in Trees
    BY <1>7, WalkFacts DEF Runs
  <2>2. q \in Nodes
    BY <1>7, <1>8, WalkFacts DEF Runs
  <2>3. Len(q) = n - 1 /\ \A i \in 1 .. n - 1 : q[i] = topic[i]
    BY <1>2, Beginning
  <2>. QED
    BY <2>1, <2>2, <2>3 DEF Nodes
<1>. HIDE DEF q
<1>13. ASSUME NEW m \in Names, Visited(w.tree, q, m)
       PROVE  Append(q, m) \in w.tree /\ Matches(topic, Append(q, m))
  <2>1. Append(q, m) \in w.tree /\ m \notin Dollar
    BY <1>13 DEF Visited, HasChild
  <2>2. /\ Len(Append(q, m)) = (n - 1) + 1 /\ (n - 1) + 1 = n
        /\ \A i \in 1 .. n - 1 : Append(q, m)[i] = q[i]
        /\ Append(q, m)[(n - 1) + 1] = m
    <3>1. /\ Len(Append(q, m)) = Len(q) + 1
          /\ \A i \in 1 .. Len(q) : Append(q, m)[i] = q[i]
          /\ Append(q, m)[Len(q) + 1] = m
      BY <1>12, AppendProperties
    <3>. HIDE DEF n
    <3>. QED
      BY <1>2, <1>12, <3>1
  <2>3. \A i \in 1 .. n : IF topic[i] = Plus THEN Append(q, m)[i] \notin Dollar
                         ELSE Append(q, m)[i] = topic[i]
    BY <1>2, <1>3, <1>12, <2>1, <2>2
  <2>. HIDE DEF n
  <2>. QED
    BY <1>2, <1>4, <2>1, <2>2, <2>3 DEF Matches, Last, n
<1>14. ASSUME NEW p \in w.tree, Matches(topic, p)
       PROVE  \E m \in Names : Visited(w.tree, q, m) /\ p = Append(q, m)
  <2>1. /\ Len(p) = n /\ p[n] \notin Dollar /\ \A i \in 1 .. n - 1 : p[i] = topic[i]
    <3>1. /\ Len(p) = n
          /\ \A i \in 1 .. n : IF topic[i] = Plus THEN p[i] \notin Dollar ELSE p[i] = topic[i]
      BY <1>2, <1>4, <1>14 DEF Matches, Last
    <3>. HIDE DEF n
    <3>2. n \in 1 .. n /\ topic[n] = Plus /\ \A i \in 1 .. n - 1 : i \in 1 .. n
      BY <1>2
    <3>. QED
      BY <1>3, <3>1, <3>2
  <2>2. p \in Seq(Names) /\ n \in 1 .. Len(p)
    BY <1>2, <1>12, <2>1, TreeFacts
  <2>3. p[n] \in Names
    BY <2>2, ElementOfSeq
  <2>4. p = SubSeq(p, 1, n)
    BY <2>1, <2>2, SubSeqFull
  <2>5. SubSeq(p, 1, n) = Append(SubSeq(p, 1, n - 1), p[n])
    BY <2>2, LongerBeginning
  <2>6. SubSeq(p, 1, n - 1) = q
    <3>. DEFINE s == SubSeq(p, 1, n - 1)
    <3>1. n - 1 \in 0 .. Len(p)
      BY <1>2, <2>1
    <3>2. s \in Seq(Names) /\ Len(s) = n - 1 /\ \A i \in 1 .. n - 1 : s[i] = p[i]
      BY <2>2, <3>1, Beginning
    <3>3. \A i \in 1 .. n - 1 : s[i] = q[i]
      BY <1>12, <2>1, <3>2
    <3>. HIDE DEF s
    <3>4. s = q
      BY <1>12, <3>2, <3>3, SeqEqual
    <3>. QED
      BY <3>4 DEF s
  <2>7. p = Append(q, p[n])
    BY <2>4, <2>5, <2>6
  <2>. QED
    BY <2>1, <2>3, <2>7 DEF Visited, HasChild
<1>15. \A p : p \in Range(x.found) <=> p \in x.tree /\ Matches(topic, p)
  <2>1. \A p : p \in Range(x.found) <=>
            \E m \in Names : Visited(w.tree, q, m) /\ p = Append(q, m)
    BY <1>8, <1>10
  <2>2. \A p : p \in Range(x.found) => p \in w.tree /\ Matches(topic, p)
    BY <1>13, <2>1
  <2>3. \A p \in w.tree : Matches(topic, p) => p \in Range(x.found)
    BY <1>14, <2>1
  <2>. QED
    BY <1>10, <2>2, <2>3
<1>. QED
  BY <1>9, <1>10, <1>11, <1>15 DEF Exact

-----------------------------------------------------------------------------
(***************************************************************************)
(* A topic that ends in "#" finds no node at or below a '$' name.          *)
(***************************************************************************)
Hidden(w) == \A p \in Range(w.found) : Range(p) \cap Dollar = {}

FindsHidden(g) ==
    \A q \in Requests : q.topic # <<>> /\ Last(q.topic) = Hash => Hidden(g[q])

LEMMA StartHidden ==
    ASSUME NEW tree
    PROVE  Hidden(Start(tree))
BY DEF Start, Hidden, Range

LEMMA PlusHidden ==
    ASSUME NEW add \in BOOLEAN, NEW g \in Getters(add), FindsHidden(g), NEW tree \in Trees,
           NEW topic \in Seq(Parts), topic # <<>>, Last(topic) = Hash,
           NEW i \in 1 .. Len(topic), topic[i] = Plus,
           NEW w \in Runs(tree, topic, add), Hidden(w)
    PROVE  Hidden(WalkPlus(w, topic, g))
<1>1. PICK h \in [0 .. MaxName -> Runs(tree, topic, add)] :
        /\ h[0] = w
        /\ \A n \in Names : h[n] = Visit(h[n - 1], topic, n, g)
        /\ WalkPlus(w, topic, g) = h[MaxName]
  BY PlusSteps DEF PlusRuns
<1>2. /\ MaxName \in Nat /\ 0 \in 0 .. MaxName /\ MaxName \in 0 .. MaxName
      /\ Names = 1 .. MaxName /\ \A n \in Names : n \in 0 .. MaxName /\ n - 1 \in 0 .. MaxName
  BY Constant
<1>3. ASSUME NEW n \in Names
      PROVE  Filled(topic, n) # <<>> /\ Last(Filled(topic, n)) = Hash
  <2>1. /\ Len(topic) \in Nat /\ Len(topic) \in 1 .. Len(topic) /\ topic[Len(topic)] = Hash
        /\ Plus # Hash
    BY LenProperties, EmptySeq DEF Last, Plus, Hash
  <2>2. FirstPlus(topic) # Len(topic)
    BY <2>1, FirstPlusIs
  <2>3. /\ Filled(topic, n) \in Seq(Parts) /\ Len(Filled(topic, n)) = Len(topic)
        /\ Filled(topic, n)[Len(topic)] = Hash
    BY <2>1, <2>2, FilledIs
  <2>. QED
    BY <2>1, <2>3, EmptySeq DEF Last
<1>. DEFINE I == {n \in 0 .. MaxName : Hidden(h[n])}
<1>4. 0 \in I
  BY <1>1, <1>2
<1>5. ASSUME NEW n \in Names, n - 1 \in I PROVE n \in I
  <2>. DEFINE v == h[n - 1]
              x == h[n]
  <2>1. v \in Runs(tree, topic, add) /\ Hidden(v) /\ x = Visit(v, topic, n, g)
    BY <1>1, <1>2, <1>5
  <2>. HIDE DEF v, x
  <2>. DEFINE q == [tree |-> v.tree, topic |-> Filled(topic, n)]
  <2>2. VisitIs(tree, topic, v, n, add, g)
    BY <2>1, VisitStep
  <2>3. /\ q \in Requests /\ q.topic = Filled(topic, n)
        /\ x = v \/ Range(x.found) = Range(v.found) \cup Range(g[q].found)
    BY <2>1, <2>2 DEF VisitIs
  <2>. HIDE DEF q
  <2>4. Hidden(g[q])
    BY <1>3, <2>3 DEF FindsHidden
  <2>5. Hidden(x)
    BY <2>1, <2>3, <2>4 DEF Hidden
  <2>. QED
    BY <1>2, <2>5 DEF x
<1>. HIDE DEF I
<1>6. \A n \in 0 .. MaxName : n \in I
  BY <1>2, <1>4, <1>5, UpTo
<1>. QED
  BY <1>1, <1>2, <1>6 DEF I

LEMMA PartHidden ==
    ASSUME NEW add \in BOOLEAN, NEW g \in Getters(add), FindsHidden(g), NEW tree \in Trees,
           NEW topic \in Seq(Parts), topic # <<>>, Last(topic) = Hash,
           NEW i \in 1 .. Len(topic), NEW w \in Runs(tree, topic, add), Hidden(w)
    PROVE  Hidden(WalkPart(w, topic, i, add, g))
<1>. DEFINE v == WalkPart(w, topic, i, add, g)
<1>1. /\ w \in Walks /\ w.found \in Seq(w.tree) /\ PartIs(tree, topic, i, w, add, g)
  BY PartStep, WalkFacts DEF Runs
<1>2. CASE w.err # "NO_ERROR"
  BY <1>1, <1>2 DEF PartIs
<1>3. CASE w.err = "NO_ERROR" /\ topic[i] \in Names
  <2>1. v = WalkName(w, topic, i, add) /\ NameIs(w, topic, i, add)
    BY <1>1, <1>3, NameStep DEF PartIs
  <2>2. i # Len(topic)
    BY <1>3, PartKinds DEF Last
  <2>. HIDE DEF v
  <2>3. v.found = w.found
    BY <2>1, <2>2 DEF NameIs
  <2>. QED
    BY <2>3 DEF Hidden, v
<1>4. CASE w.err = "NO_ERROR" /\ topic[i] = Plus
  <2>1. v = WalkPlus(w, topic, g)
    BY <1>1, <1>4 DEF PartIs
  <2>. QED
    BY <1>4, <2>1, PlusHidden
<1>5. CASE w.err = "NO_ERROR" /\ topic[i] = Hash
  <2>1. v = WalkNumberSign(w, topic, i) /\ NumberSignIs(w, topic, i)
    BY <1>1, <1>5, NumberSignStep DEF PartIs
  <2>. HIDE DEF v
  <2>2. \/ v.found = w.found
        \/ Range(v.found) = Range(w.found) \cup {p \in w.tree : Range(p) \cap Dollar = {}}
    BY <2>1 DEF NumberSignIs
  <2>. QED
    BY <2>2 DEF Hidden, v
<1>6. CASE w.err = "NO_ERROR" /\ topic[i] = Adjacent
  <2>1. v = [w EXCEPT !.err = "WILDCARD_MUST_NOT_BE_ADJACENT_TO_NAME"]
    BY <1>6, PartKinds DEF WalkPart, Failed
  <2>2. v.found = w.found
    BY <1>1, <2>1, WalkFacts
  <2>. QED
    BY <2>2 DEF Hidden
<1>. QED
  BY <1>2, <1>3, <1>4, <1>5, <1>6, PartKinds

LEMMA WalkHidden ==
    ASSUME NEW add \in BOOLEAN, NEW g \in Getters(add), FindsHidden(g), NEW tree \in Trees,
           NEW topic \in Seq(Parts), topic # <<>>, Last(topic) = Hash
    PROVE  Hidden(Walk(tree, topic, add, g))
<1>. DEFINE n == Len(topic)
<1>1. PICK h \in [0 .. n -> Runs(tree, topic, add)] :
        /\ h[0] = Start(tree)
        /\ \A i \in 1 .. n : h[i] = WalkPart(h[i - 1], topic, i, add, g)
        /\ Walk(tree, topic, add, g) = h[n]
  BY WalkSteps DEF WalksBy
<1>2. n \in Nat
  BY LenProperties
<1>3. /\ 0 \in 0 .. n /\ n \in 0 .. n
      /\ \A i \in 1 .. n : i \in 0 .. n /\ i - 1 \in 0 .. n /\ i \in 1 .. Len(topic)
  BY <1>2
<1>. DEFINE I == {i \in 0 .. n : Hidden(h[i])}
<1>4. 0 \in I
  BY <1>1, <1>3, StartHidden
<1>5. ASSUME NEW i \in 1 .. n, i - 1 \in I PROVE i \in I
  <2>. DEFINE w == h[i - 1]
  <2>1. w \in Runs(tree, topic, add) /\ Hidden(w) /\ h[i] = WalkPart(w, topic, i, add, g)
    BY <1>1, <1>3, <1>5
  <2>. HIDE DEF w
  <2>2. i \in 1 .. Len(topic)
    BY <1>3
  <2>3. Hidden(h[i])
    BY <2>1, <2>2, PartHidden
  <2>. QED
    BY <1>3, <2>3
<1>. HIDE DEF I
<1>6. \A i \in 0 .. n : i \in I
  <2>. HIDE DEF n
  <2>. QED
    BY <1>2, <1>4, <1>5, UpTo
<1>. QED
  BY <1>1, <1>3, <1>6 DEF I

-----------------------------------------------------------------------------
(***************************************************************************)
(* The calls the broker makes.                                             *)
(***************************************************************************)
\* What a walk that adds nodes makes of the tree, and what it finds.
Adds(r, tree, topic) ==
    /\ r.tree \in Trees /\ tree \subseteq r.tree
    /\ r.found \in Seq(r.tree) /\ Range(r.found) \subseteq r.tree
    /\ r.err = "NO_ERROR" <=> ~Bad(topic)
    /\ r.err = "NO_ERROR" /\ ~BelowDollar(topic) =>
         \A p \in tree : Matches(topic, p) => p \in Range(r.found)
    /\ Last(topic) = Hash => Hidden(r)
    /\ r.err = "NO_ERROR" /\ Last(topic) # Plus => r.found # <<>>
    /\ Plain(topic) \/ LastPlus(topic) => Exact(r, topic)

LEMMA AddingAny ==
    ASSUME NEW yes \in BOOLEAN, yes, NEW tree \in Trees, NEW topic \in Seq(Parts), topic # <<>>
    PROVE  Adds(GetTopicNode(tree, topic, yes), tree, topic)
<1>. DEFINE n == Len(topic)
            r == GetTopicNode(tree, topic, yes)
<1>1. /\ r \in Runs(tree, topic, yes) /\ (r.err = "NO_ERROR" <=> ~Bad(topic))
      /\ r.tree \in Trees /\ tree \subseteq r.tree
      /\ r.found \in Seq(r.tree) /\ Range(r.found) \subseteq r.tree
  BY TopicRuns
<1>2. PICK h \in [0 .. n + 1 -> Getters(yes)] :
        /\ \A q \in Requests : h[0][q] = Start(q.tree)
        /\ \A k \in 1 .. n + 1 : \A q \in Requests :
             h[k][q] = Walk(q.tree, q.topic, yes, h[k - 1])
        /\ r = Walk(tree, topic, yes, h[n])
  BY TopicSteps
<1>3. /\ n \in Nat /\ n # 0 /\ n \in 0 .. n /\ n \in 0 .. n + 1 /\ 0 \in 0 .. n
      /\ \A k \in 1 .. n : /\ k \in 0 .. n /\ k \in 1 .. n + 1 /\ k - 1 \in 0 .. n + 1
                           /\ k - 1 \in Nat /\ (k - 1) + 1 = k
      /\ n \in 1 .. n + 1 /\ n - 1 \in 0 .. n + 1
  BY LenProperties, EmptySeq
<1>. HIDE DEF n, r
<1>4. \A q \in Requests : q.tree \in Trees /\ q.topic \in Seq(Parts)
  BY DEF Requests
<1>5. FindsMatches(h[n], n)
  <2>. DEFINE I == {k \in 0 .. n : FindsMatches(h[k], k)}
  <2>1. 0 \in I
    BY <1>3 DEF FindsMatches, Within
  <2>2. ASSUME NEW k \in 1 .. n, k - 1 \in I PROVE k \in I
    <3>. DEFINE g == h[k - 1]
                j == k - 1
    <3>1. /\ g \in Getters(yes) /\ j \in Nat /\ FindsMatches(g, j) /\ j + 1 = k
          /\ \A q \in Requests : h[k][q] = Walk(q.tree, q.topic, yes, g)
      BY <1>2, <1>3, <2>2
    <3>. HIDE DEF g, j, I
    <3>2. ASSUME NEW q \in Requests, q.topic # <<>>, ~Bad(q.topic), ~BelowDollar(q.topic),
                 Within(k, q.topic), NEW p \in q.tree, Matches(q.topic, p)
          PROVE  p \in Range(h[k][q].found)
      <4>. DEFINE t == q.tree
                  u == q.topic
      <4>1. /\ t \in Trees /\ u \in Seq(Parts) /\ u # <<>> /\ ~Bad(u) /\ ~BelowDollar(u)
            /\ Within(j + 1, u) /\ p \in t /\ Matches(u, p) /\ h[k][q] = Walk(t, u, yes, g)
        BY <1>4, <3>1, <3>2
      <4>. HIDE DEF t, u
      <4>2. p \in Range(Walk(t, u, yes, g).found)
        BY <3>1, <4>1, WalkFindsMatches
      <4>. QED
        BY <4>1, <4>2
    <3>3. FindsMatches(h[k], k)
      BY <3>2 DEF FindsMatches
    <3>. QED
      BY <1>3, <3>3 DEF I
  <2>. HIDE DEF I
  <2>3. \A k \in 0 .. n : k \in I
    BY <1>3, <2>1, <2>2, UpTo
  <2>. QED
    BY <1>3, <2>3 DEF I
<1>6. PlainFound(h[n])
  <2>. DEFINE g == h[n - 1]
  <2>1. g \in Getters(yes) /\ \A q \in Requests : h[n][q] = Walk(q.tree, q.topic, yes, g)
    BY <1>2, <1>3
  <2>. HIDE DEF g
  <2>2. ASSUME NEW q \in Requests, Plain(q.topic) PROVE IsPlainWalk(h[n][q], q.tree, q.topic)
    <3>. DEFINE t == q.tree
                u == q.topic
    <3>1. t \in Trees /\ u \in Seq(Parts) /\ Plain(u) /\ h[n][q] = Walk(t, u, yes, g)
      BY <1>4, <2>1, <2>2
    <3>. HIDE DEF t, u
    <3>2. IsPlainWalk(Walk(t, u, yes, g), t, u)
      BY <2>1, <3>1, PlainWalk
    <3>. QED
      BY <3>1, <3>2 DEF t, u
  <2>. QED
    BY <2>2 DEF PlainFound
<1>. DEFINE g == h[n]
<1>7. g \in Getters(yes) /\ FindsMatches(g, n) /\ PlainFound(g) /\ r = Walk(tree, topic, yes, g)
  BY <1>2, <1>3, <1>5, <1>6
<1>. HIDE DEF g
<1>8. ASSUME ~Bad(topic), ~BelowDollar(topic), NEW p \in tree, Matches(topic, p) PROVE p \in Range(r.found)
  <2>1. Within(n + 1, topic)
    BY <1>3 DEF Within, n
  <2>. QED
    BY <1>3, <1>7, <1>8, <2>1, WalkFindsMatches
<1>9. ASSUME ~Bad(topic), Last(topic) # Plus PROVE r.found # <<>>
  BY <1>7, <1>9, WalkFindsSome DEF Last
<1>10. ASSUME Plain(topic) PROVE Exact(r, topic)
  <2>1. IsPlainWalk(r, tree, topic)
    BY <1>7, <1>10, PlainWalk
  <2>. QED
    BY <1>1, <1>10, <2>1, PlainExact DEF Runs
<1>11. ASSUME LastPlus(topic) PROVE Exact(r, topic)
  BY <1>7, <1>11, LastPlusExact
<1>12. ASSUME Last(topic) = Hash PROVE Hidden(r)
  <2>. DEFINE I == {k \in 0 .. n : FindsHidden(h[k])}
  <2>1. 0 \in I
    BY <1>2, <1>3, StartHidden DEF FindsHidden
  <2>2. ASSUME NEW k \in 1 .. n, k - 1 \in I PROVE k \in I
    <3>. DEFINE c == h[k - 1]
    <3>1. /\ c \in Getters(yes) /\ FindsHidden(c)
          /\ \A q \in Requests : h[k][q] = Walk(q.tree, q.topic, yes, c)
      BY <1>2, <1>3, <2>2
    <3>. HIDE DEF c, I
    <3>2. FindsHidden(h[k])
      BY <1>4, <3>1, WalkHidden DEF FindsHidden
    <3>. QED
      BY <1>3, <3>2 DEF I
  <2>. HIDE DEF I
  <2>3. \A k \in 0 .. n : k \in I
    BY <1>3, <2>1, <2>2, UpTo
  <2>4. FindsHidden(h[n])
    BY <1>3, <2>3 DEF I
  <2>. QED
    BY <1>2, <1>3, <1>12, <2>4, WalkHidden
<1>13. Adds(r, tree, topic)
  BY <1>1, <1>8, <1>9, <1>10, <1>11, <1>12 DEF Adds
<1>. QED
  BY <1>13 DEF r

LEMMA Adding ==
    ASSUME NEW tree \in Trees, NEW topic \in Seq(Parts), topic # <<>>
    PROVE  Adds(GetTopicNode(tree, topic, TRUE), tree, topic)
<1>1. \A yes \in BOOLEAN : yes => Adds(GetTopicNode(tree, topic, yes), tree, topic)
  BY AddingAny
<1>. QED
  BY <1>1, Zenon

LEMMA LookingUp ==
    ASSUME NEW tree \in Trees, NEW topic \in Seq(Parts), topic # <<>>
    PROVE  /\ GetTopicNode(tree, topic, FALSE).err = "NO_ERROR" <=> ~Bad(topic)
           /\ ~Bad(topic) => \A T \in Trees : GetTopicNode(T, topic, TRUE).tree \subseteq tree =>
                Range(GetTopicNode(T, topic, TRUE).found)
                  \subseteq Range(GetTopicNode(tree, topic, FALSE).found)
<1>1. \A no \in BOOLEAN : GetTopicNode(tree, topic, no).err = "NO_ERROR" <=> ~Bad(topic)
  BY TopicRuns
<1>2. ASSUME NEW T \in Trees, ~Bad(topic)
      PROVE  \A yes, no \in BOOLEAN : yes /\ ~no /\ GetTopicNode(T, topic, yes).tree \subseteq tree =>
                  Range(GetTopicNode(T, topic, yes).found)
                    \subseteq Range(GetTopicNode(tree, topic, no).found)
  BY <1>2, TopicFindsAgain
<1>3. GetTopicNode(tree, topic, FALSE).err = "NO_ERROR" <=> ~Bad(topic)
  BY <1>1, Zenon
<1>4. ASSUME NEW T \in Trees, ~Bad(topic), GetTopicNode(T, topic, TRUE).tree \subseteq tree
      PROVE  Range(GetTopicNode(T, topic, TRUE).found)
               \subseteq Range(GetTopicNode(tree, topic, FALSE).found)
  BY <1>2, <1>4, Zenon
<1>. QED
  BY <1>3, <1>4

-----------------------------------------------------------------------------
(***************************************************************************)
(* The invariant, and what it implies.                                     *)
(***************************************************************************)
\* Each node granted was found by a walk whose nodes are in the tree to this day.
Given ==
    \A p \in granted :
        /\ ~Bad(watched)
        /\ \E T \in Trees : LET r == GetTopicNode(T, watched, TRUE)
                            IN  r.tree \subseteq nodes /\ p \in Range(r.found)

IInv == TypeOK /\ Given

LEMMA FilterFacts ==
    ASSUME NEW f \in Filters
    PROVE  f \in Seq(Parts) /\ f # <<>>
BY TopicTreeAssumption

LEMMA AddingAFilter ==
    ASSUME TypeOK, NEW f \in Filters
    PROVE  Adds(GetTopicNode(nodes, f, TRUE), nodes, f)
BY FilterFacts, Adding DEF TypeOK

LEMMA InitInv == Init => IInv
<1>. SUFFICES ASSUME Init PROVE IInv
  OBVIOUS
<1>1. {Root} \in Trees
  <2>1. IsFiniteSet({Root})
    BY FS_Singleton
  <2>2. Root \in Nodes
    BY EmptySeq DEF Root, Nodes
  <2>. QED
    BY <2>1, <2>2 DEF Trees
<1>. QED
  BY <1>1 DEF Init, IInv, TypeOK, Given

\* A tree that grows keeps what it gave.
LEMMA GivenStays ==
    ASSUME Given, nodes \subseteq nodes', granted' \subseteq granted, UNCHANGED watched
    PROVE  Given'
BY DEF Given

LEMMA SubscribeInv ==
    ASSUME IInv, NEW f \in Filters, Subscribe(f)
    PROVE  IInv'
<1>. DEFINE r == GetTopicNode(nodes, f, TRUE)
<1>1. Adds(r, nodes, f)
  BY AddingAFilter DEF IInv
<1>2. PICK n \in Subscribes(r) :
        LET new == {r.found[i] : i \in 1 .. n}
        IN  /\ subscribed' = subscribed \cup new
            /\ granted' = IF f = watched THEN granted \cup new ELSE granted
  BY DEF Subscribe
<1>3. nodes' = r.tree /\ UNCHANGED <<status, retained, watched>>
  BY DEF Subscribe
<1>. DEFINE new == {r.found[i] : i \in 1 .. n}
<1>4. new \subseteq Range(r.found) /\ (r.err # "NO_ERROR" => new = {})
  <2>1. r.found \in Seq(r.tree)
    BY <1>1 DEF Adds
  <2>. DEFINE s == r.found
  <2>2. DOMAIN s = 1 .. Len(s) /\ Len(s) \in Nat /\ Range(s) = {s[i] : i \in 1 .. Len(s)}
    BY <2>1, LenProperties, RangeOf
  <2>. HIDE DEF s
  <2>3. CASE r.err # "NO_ERROR"
    <3>1. n = 0
      BY <1>2, <2>3 DEF Subscribes
    <3>. QED
      BY <3>1
  <2>4. CASE r.err = "NO_ERROR"
    <3>1. n = Len(s) \/ n \in DOMAIN s
      BY <1>2, <2>4 DEF Subscribes, s
    <3>2. \A i \in 1 .. n : i \in 1 .. Len(s)
      BY <2>2, <3>1
    <3>3. new = {s[i] : i \in 1 .. n}
      BY DEF s
    <3>4. new \subseteq Range(s)
      BY <2>2, <3>2, <3>3
    <3>. QED
      BY <2>4, <3>4 DEF s
  <2>. QED
    BY <2>3, <2>4
<1>. HIDE DEF new
<1>5. /\ subscribed' = subscribed \cup new
      /\ granted' = IF f = watched THEN granted \cup new ELSE granted
  BY <1>2 DEF new
<1>. HIDE DEF r
<1>6. /\ r.tree \in Trees /\ nodes \subseteq r.tree /\ new \subseteq r.tree
      /\ r.err = "NO_ERROR" => ~Bad(f)
  BY <1>1, <1>4 DEF Adds
<1>7. TypeOK'
  BY <1>3, <1>5, <1>6 DEF IInv, TypeOK
<1>8. Given'
  <2>. SUFFICES ASSUME NEW p \in granted'
                PROVE  /\ ~Bad(watched)
                       /\ \E T \in Trees : LET x == GetTopicNode(T, watched, TRUE)
                                           IN  x.tree \subseteq r.tree /\ p \in Range(x.found)
    BY <1>3 DEF Given
  <2>1. CASE p \in granted
    <3>1. PICK T \in Trees : LET x == GetTopicNode(T, watched, TRUE)
                             IN  x.tree \subseteq nodes /\ p \in Range(x.found)
      BY <2>1 DEF IInv, Given
    <3>. DEFINE x == GetTopicNode(T, watched, TRUE)
    <3>2. x.tree \subseteq r.tree /\ p \in Range(x.found)
      BY <1>6, <3>1
    <3>3. ~Bad(watched)
      BY <2>1 DEF IInv, Given
    <3>. QED
      BY <3>2, <3>3
  <2>2. CASE p \notin granted
    <3>1. f = watched /\ p \in new
      BY <1>5, <2>2
    <3>2. r = GetTopicNode(nodes, watched, TRUE) /\ nodes \in Trees
      BY <3>1 DEF r, IInv, TypeOK
    <3>3. p \in Range(r.found) /\ ~Bad(watched)
      BY <1>4, <1>6, <3>1
    <3>. QED
      BY <3>2, <3>3
  <2>. QED
    BY <2>1, <2>2
<1>. QED
  BY <1>7, <1>8 DEF IInv

LEMMA UnsubscribeInv ==
    ASSUME IInv, NEW f \in Filters, Unsubscribe(f)
    PROVE  IInv'
<1>1. /\ subscribed' \subseteq subscribed /\ granted' \subseteq granted
      /\ UNCHANGED <<status, nodes, retained, watched>>
  BY DEF Unsubscribe
<1>2. TypeOK'
  BY <1>1 DEF IInv, TypeOK
<1>3. Given'
  BY <1>1, GivenStays DEF IInv
<1>. QED
  BY <1>2, <1>3 DEF IInv

\* What a message does to the tree on its way to the subscribers.
LEMMA RouteGrows ==
    ASSUME NEW tree \in Trees, NEW t \in Filters, Route(tree, t)
    PROVE  nodes' \in Trees /\ tree \subseteq nodes' /\ status' \in {"up", "crashed"}
<1>1. Adds(GetTopicNode(tree, t, TRUE), tree, t)
  BY FilterFacts, Adding
<1>. QED
  BY <1>1 DEF Adds, Route

LEMMA PublishInv ==
    ASSUME IInv, NEW t \in Filters, Publish(t)
    PROVE  IInv'
<1>1. nodes' \in Trees /\ nodes \subseteq nodes' /\ status' \in {"up", "crashed"}
  BY RouteGrows DEF IInv, TypeOK, Publish
<1>2. UNCHANGED <<subscribed, retained, watched, granted>>
  BY DEF Publish, history
<1>3. TypeOK'
  BY <1>1, <1>2 DEF IInv, TypeOK
<1>4. Given'
  BY <1>1, <1>2, GivenStays DEF IInv
<1>. QED
  BY <1>3, <1>4 DEF IInv

LEMMA ApplyRetainInv ==
    ASSUME IInv, NEW t \in Filters, NEW empty \in BOOLEAN, ApplyRetain(t, empty)
    PROVE  IInv'
<1>. DEFINE r == GetTopicNode(nodes, t, TRUE)
<1>1. r.tree \in Trees /\ nodes \subseteq r.tree /\ Range(r.found) \subseteq r.tree
  BY AddingAFilter DEF IInv, Adds
<1>2. UNCHANGED <<subscribed, watched, granted>>
  BY DEF ApplyRetain, history
<1>3. /\ nodes' \in Trees /\ r.tree \subseteq nodes' /\ status' \in {"up", "crashed"}
      /\ retained' \subseteq retained \cup Range(r.found)
  <2>1. CASE r.err = "NO_ERROR"
    <3>1. Route(r.tree, t) /\ retained' \subseteq retained \cup Range(r.found)
      BY <2>1 DEF ApplyRetain
    <3>. HIDE DEF r
    <3>. QED
      BY <1>1, <3>1, RouteGrows
  <2>2. CASE r.err # "NO_ERROR"
    BY <1>1, <2>2 DEF ApplyRetain, IInv, TypeOK
  <2>. QED
    BY <2>1, <2>2
<1>. HIDE DEF r
<1>4. TypeOK'
  BY <1>1, <1>2, <1>3 DEF IInv, TypeOK
<1>5. nodes \subseteq nodes'
  BY <1>1, <1>3
<1>6. Given'
  BY <1>2, <1>5, GivenStays DEF IInv
<1>. QED
  BY <1>4, <1>6 DEF IInv

LEMMA NextInv == IInv /\ [Next]_vars => IInv'
<1>. SUFFICES ASSUME IInv, [Next]_vars PROVE IInv'
  OBVIOUS
<1>1. ASSUME NEW f \in Filters, Subscribe(f) PROVE IInv'
  BY <1>1, SubscribeInv
<1>2. ASSUME NEW f \in Filters, Unsubscribe(f) PROVE IInv'
  BY <1>2, UnsubscribeInv
<1>3. ASSUME NEW f \in Filters, Publish(f) PROVE IInv'
  BY <1>3, PublishInv
<1>4. ASSUME NEW f \in Filters, PublishRetained(f) PROVE IInv'
  <2>1. \E empty \in BOOLEAN : ApplyRetain(f, empty)
    BY <1>4, Zenon DEF PublishRetained
  <2>. QED
    BY <2>1, ApplyRetainInv
<1>5. ASSUME NEW f \in Filters, PublishWill(f) PROVE IInv'
  <2>1. \E empty \in BOOLEAN : ApplyRetain(f, empty)
    BY <1>5, Zenon DEF PublishWill
  <2>. QED
    BY <2>1, ApplyRetainInv
<1>6. ASSUME UNCHANGED vars PROVE IInv'
  <2>1. /\ nodes \subseteq nodes' /\ granted' \subseteq granted
        /\ UNCHANGED <<status, nodes, subscribed, retained, watched, granted>>
    BY <1>6 DEF vars, history
  <2>2. TypeOK'
    BY <2>1 DEF IInv, TypeOK
  <2>3. Given'
    BY <2>1, GivenStays DEF IInv
  <2>. QED
    BY <2>2, <2>3 DEF IInv
<1>. QED
  BY <1>1, <1>2, <1>3, <1>4, <1>5, <1>6 DEF Next

LEMMA Invariant == Spec => []IInv
BY InitInv, NextInv, PTL DEF Spec

\* The tree stays a finite tree of names, and what is kept is kept at its nodes
\* (topicTree.cc: every node but the root is in the map of its parent).
THEOREM TreeTyped == Spec => []TypeOK
<1>1. IInv => TypeOK
  BY DEF IInv
<1>. QED
  BY <1>1, Invariant, PTL

\* A node at or below a '$' name, which a filter names.
LEMMA BelowDollarMatches ==
    ASSUME NEW f \in Seq(Parts), f # <<>>, ~Bad(f), BelowDollar(f), NEW p \in Nodes,
           Matches(f, p)
    PROVE  Range(p) \cap Dollar # {}
<1>1. /\ Len(f) \in Nat /\ DOMAIN f = 1 .. Len(f) /\ f[Len(f)] = Hash
      /\ Range(f) = {f[i] : i \in 1 .. Len(f)}
  BY LenProperties, RangeOf DEF BelowDollar, Last
<1>2. PICK i \in 1 .. Len(f) : f[i] \in Dollar
  BY <1>1 DEF BelowDollar
<1>3. f[i] # Plus /\ f[i] # Hash
  BY <1>2, Constant DEF Plus, Hash
<1>4. Len(p) >= Len(f) - 1 /\ p[i] = f[i]
  BY <1>1, <1>3 DEF Matches, Last
<1>5. p \in Seq(Names) /\ Len(p) \in Nat
  BY LenProperties DEF Nodes
<1>6. i \in 1 .. Len(p)
  BY <1>1, <1>3, <1>4, <1>5
<1>7. p[i] \in Range(p)
  BY <1>5, <1>6, RangeOf
<1>. QED
  BY <1>2, <1>4, <1>7

\* Nobody is forgotten: getTopicNode finds every node that the filter is meant
\* to match, but for "#" below a '$' name, which finds none of them.
THEOREM EveryMatchFound == Spec => []FindsEveryMatch
<1>1. IInv => FindsEveryMatch
  <2>. SUFFICES ASSUME TypeOK, NEW f \in Filters,
                       GetTopicNode(nodes, f, TRUE).err = "NO_ERROR"
                PROVE  LET r == GetTopicNode(nodes, f, TRUE)
                           meant == {p \in nodes : Matches(f, p)}
                       IN  IF BelowDollar(f) THEN meant \cap Range(r.found) = {}
                           ELSE meant \subseteq Range(r.found)
    BY DEF IInv, FindsEveryMatch
  <2>. DEFINE r == GetTopicNode(nodes, f, TRUE)
  <2>1. Adds(r, nodes, f) /\ r.err = "NO_ERROR"
    BY AddingAFilter
  <2>2. f \in Seq(Parts) /\ f # <<>> /\ nodes \in Trees /\ nodes \subseteq Nodes
    BY FilterFacts, TreeFacts DEF TypeOK
  <2>. HIDE DEF r
  <2>3. CASE BelowDollar(f)
    <3>1. Hidden(r) /\ ~Bad(f)
      BY <2>1, <2>3 DEF Adds, BelowDollar
    <3>2. ASSUME NEW p \in nodes, Matches(f, p) PROVE p \notin Range(r.found)
      BY <2>2, <2>3, <3>1, <3>2, BelowDollarMatches DEF Hidden
    <3>. QED
      BY <2>3, <3>2 DEF r
  <2>4. CASE ~BelowDollar(f)
    BY <2>1, <2>4 DEF Adds, r
  <2>. QED
    BY <2>3, <2>4
<1>. QED
  BY <1>1, Invariant, PTL

\* A topic, or a filter with one "+" at its end, finds what it is meant to match,
\* in getTopicNode, and nothing twice.
THEOREM NothingElseFound == Spec => []FindsNothingElse
<1>1. IInv => FindsNothingElse
  <2>. SUFFICES ASSUME TypeOK, NEW f \in Filters,
                       \A i \in DOMAIN f : f[i] \in Names \/ (f[i] = Plus /\ i = Len(f))
                PROVE  LET r == GetTopicNode(nodes, f, TRUE)
                       IN  /\ r.err = "NO_ERROR"
                           /\ IsInjective(r.found)
                           /\ Range(r.found) = {p \in r.tree : Matches(f, p)}
    BY DEF IInv, FindsNothingElse
  <2>. DEFINE r == GetTopicNode(nodes, f, TRUE)
              n == Len(f)
  <2>1. Adds(r, nodes, f)
    BY AddingAFilter
  <2>2. f \in Seq(Parts) /\ f # <<>> /\ n \in Nat /\ n \in 1 .. n /\ DOMAIN f = 1 .. n
    BY FilterFacts, LenProperties, EmptySeq
  <2>3. /\ \A i \in 1 .. n : i \in 1 .. n - 1 \/ i = n
        /\ \A i \in 1 .. n - 1 : i \in 1 .. n /\ i # n
    <3>1. n \in Nat
      BY <2>2
    <3>. HIDE DEF n, r
    <3>. QED
      BY <3>1
  <2>4. Plain(f) \/ LastPlus(f)
    BY <2>2, <2>3 DEF Plain, LastPlus
  <2>5. Exact(r, f)
    BY <2>1, <2>4 DEF Adds
  <2>. HIDE DEF r
  <2>6. /\ r.err = "NO_ERROR" /\ IsInjective(r.found)
        /\ Range(r.found) = {p \in r.tree : Matches(f, p)}
    BY <2>5 DEF Exact
  <2>. QED
    BY <2>6 DEF r
<1>. QED
  BY <1>1, Invariant, PTL

\* An UNSUBSCRIBE takes back every node that the same filter was given
\* (deleteSubscriber after applySubscriber).
THEOREM NothingIsLeft == Spec => NothingLeft
<1>1. IInv => (Unsubscribe(watched) => granted \cap subscribed' = {})
  <2>. SUFFICES ASSUME IInv, Unsubscribe(watched), NEW p \in granted PROVE p \notin subscribed'
    OBVIOUS
  <2>. DEFINE r == GetTopicNode(nodes, watched, FALSE)
  <2>1. nodes \in Trees /\ watched \in Seq(Parts) /\ watched # <<>> /\ ~Bad(watched)
    BY FilterFacts DEF IInv, TypeOK, Given
  <2>2. PICK T \in Trees : LET x == GetTopicNode(T, watched, TRUE)
                           IN  x.tree \subseteq nodes /\ p \in Range(x.found)
    BY DEF IInv, Given
  <2>3. r.err = "NO_ERROR" /\ p \in Range(r.found)
    BY <2>1, <2>2, LookingUp
  <2>4. subscribed' = subscribed \ Range(r.found)
    BY <2>3 DEF Unsubscribe
  <2>. QED
    BY <2>3, <2>4
<1>. QED
  BY <1>1, Invariant, PTL DEF NothingLeft

\* recvPublishMessage finds a node at nodes[0], unless the topic ends in "+".
THEOREM PublishOutlived == Spec => OutlivesPublish
<1>1. IInv => \A t \in Filters : Publish(t) /\ Last(t) # Plus => status' = "up"
  <2>. SUFFICES ASSUME TypeOK, NEW t \in Filters, Publish(t), Last(t) # Plus
                PROVE  status' = "up"
    BY DEF IInv
  <2>1. Adds(GetTopicNode(nodes, t, TRUE), nodes, t)
    BY AddingAFilter
  <2>. QED
    BY <2>1 DEF Adds, Publish, Route
<1>. QED
  BY <1>1, Invariant, PTL DEF OutlivesPublish

=============================================================================
