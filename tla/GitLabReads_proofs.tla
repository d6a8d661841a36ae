--------------------------- MODULE GitLabReads_proofs ---------------------------
(***************************************************************************)
(* Proofs about GitLabReads.  For a walk the invariant says which          *)
(* pipelines are known and which of them have been expanded: the parent of *)
(* every known one has been, and no pipeline that was there has a parent   *)
(* that has been without being known.  For a listing it says of the items  *)
(* of the list up to a place which are taken, which have come forward and  *)
(* which are done without, and that what is taken lies before that place   *)
(* or has gone back.                                                       *)
(***************************************************************************)
EXTENDS GitLabReads, FunctionTheorems, FiniteSetTheorems, SequenceTheorems, WellFoundedInduction, TLAPS

\* The elements of a sequence.
LEMMA Elements ==
    ASSUME NEW S, NEW s \in Seq(S)
    PROVE  /\ \A x : x \in ToSet(s) <=> \E i \in 1..Len(s) : s[i] = x
           /\ ToSet(s) \subseteq S
  BY DEF ToSet

\* An element more at the end.
LEMMA Appended ==
    ASSUME NEW S, NEW s \in Seq(S), NEW x \in S
    PROVE  /\ Append(s, x) \in Seq(S)
           /\ Len(Append(s, x)) = Len(s) + 1
           /\ ToSet(Append(s, x)) = ToSet(s) \cup {x}
           /\ IsInjective(s) /\ x \notin ToSet(s) => IsInjective(Append(s, x))
           /\ Last(Append(s, x)) = x
  <1>1. PICK t : t = Append(s, x)
    OBVIOUS
  <1>2. /\ t \in Seq(S) /\ Len(t) = Len(s) + 1 /\ Len(s) \in Nat
        /\ \A i \in 1..Len(s) : t[i] = s[i]
        /\ t[Len(s) + 1] = x
    BY <1>1, AppendProperties, LenProperties
  <1>3. \A y : y \in ToSet(t) <=> \E i \in 1..Len(t) : t[i] = y
    BY <1>2, Elements
  <1>4. \A y : y \in ToSet(s) <=> \E i \in 1..Len(s) : s[i] = y
    BY Elements
  <1>5. ToSet(t) = ToSet(s) \cup {x}
    <2>1. ASSUME NEW y, y \in ToSet(t)
          PROVE  y \in ToSet(s) \cup {x}
      <3>1. PICK i \in 1..Len(t) : t[i] = y
        BY <1>3, <2>1
      <3>2. CASE i <= Len(s)
        BY <1>2, <1>4, <3>1, <3>2
      <3>3. CASE i = Len(s) + 1
        BY <1>2, <3>1, <3>3
      <3> QED
        BY <1>2, <3>2, <3>3
    <2>2. ASSUME NEW y, y \in ToSet(s) \cup {x}
          PROVE  y \in ToSet(t)
      <3>1. CASE y = x
        BY <1>2, <1>3, <3>1
      <3>2. CASE y \in ToSet(s)
        <4>1. PICK i \in 1..Len(s) : s[i] = y
          BY <1>4, <3>2
        <4>2. i \in 1..Len(t) /\ t[i] = y
          BY <1>2, <4>1
        <4> QED
          BY <1>3, <4>2
      <3> QED
        BY <2>2, <3>1, <3>2
    <2> QED
      BY <2>1, <2>2
  <1>6. ASSUME IsInjective(s), x \notin ToSet(s)
        PROVE  IsInjective(t)
    <2>1. \A i, j \in 1..Len(s) : s[i] = s[j] => i = j
      BY <1>6, LenProperties DEF IsInjective
    <2>2. \A i \in 1..Len(s) : s[i] # x
      BY <1>4, <1>6
    <2>3. \A i, j \in 1..Len(t) : t[i] = t[j] => i = j
      BY <1>2, <2>1, <2>2
    <2>4. DOMAIN t = 1..Len(t)
      BY <1>2, LenProperties
    <2> QED
      BY <2>3, <2>4 DEF IsInjective
  <1> QED
    BY <1>1, <1>2, <1>5, <1>6 DEF Last

\* The first element taken away.
LEMMA WithoutHead ==
    ASSUME NEW S, NEW s \in Seq(S), s # <<>>
    PROVE  /\ Head(s) \in S /\ Tail(s) \in Seq(S)
           /\ ToSet(s) = ToSet(Tail(s)) \cup {Head(s)}
           /\ IsInjective(s) => IsInjective(Tail(s)) /\ Head(s) \notin ToSet(Tail(s))
  <1>1. /\ Head(s) \in S /\ Tail(s) \in Seq(S) /\ Len(s) \in Nat /\ Len(s) > 0 /\ Len(Tail(s)) = Len(s) - 1
        /\ \A i \in 1..Len(Tail(s)) : Tail(s)[i] = s[i + 1]
        /\ Head(s) = s[1]
    BY HeadTailProperties, EmptySeq, LenProperties
  <1>2. ToSet(s) = ToSet(Tail(s)) \cup {Head(s)}
    <2>1. ASSUME NEW y, y \in ToSet(s)
          PROVE  y \in ToSet(Tail(s)) \cup {Head(s)}
      <3>1. PICK i \in 1..Len(s) : s[i] = y
        BY <2>1, Elements
      <3>2. CASE i = 1
        BY <1>1, <3>1, <3>2
      <3>3. CASE i > 1
        <4>1. PICK k \in 1..Len(Tail(s)) : k = i - 1
          BY <1>1, <3>1, <3>3
        <4>2. Tail(s)[k] = y
          BY <1>1, <3>1, <4>1
        <4>3. y \in ToSet(Tail(s))
          BY <1>1, <4>2, Elements
        <4> QED
          BY <4>3
      <3> QED
        BY <3>1, <3>2, <3>3
    <2>2. ASSUME NEW y, y \in ToSet(Tail(s)) \cup {Head(s)}
          PROVE  y \in ToSet(s)
      <3>1. CASE y = Head(s)
        BY <1>1, <3>1, Elements
      <3>2. CASE y \in ToSet(Tail(s))
        <4>1. PICK i \in 1..Len(Tail(s)) : Tail(s)[i] = y
          BY <1>1, <3>2, Elements
        <4> QED
          BY <1>1, <4>1, Elements
      <3> QED
        BY <2>2, <3>1, <3>2
    <2> QED
      BY <2>1, <2>2
  <1>3. ASSUME IsInjective(s)
        PROVE  IsInjective(Tail(s)) /\ Head(s) \notin ToSet(Tail(s))
    <2>1. \A i, j \in 1..Len(s) : s[i] = s[j] => i = j
      BY <1>3, LenProperties DEF IsInjective
    <2>2. IsInjective(Tail(s))
      <3>1. ASSUME NEW i \in 1..Len(Tail(s)), NEW j \in 1..Len(Tail(s)), Tail(s)[i] = Tail(s)[j]
            PROVE  i = j
        BY <1>1, <2>1, <3>1
      <3> QED
        BY <1>1, <3>1, LenProperties DEF IsInjective
    <2>3. ASSUME NEW i \in 1..Len(Tail(s)), Tail(s)[i] = Head(s)
          PROVE  FALSE
      BY <1>1, <2>1, <2>3
    <2> QED
      BY <1>1, <2>2, <2>3, Elements
  <1> QED
    BY <1>1, <1>2, <1>3

\* The last element taken away.
LEMMA WithoutLast ==
    ASSUME NEW S, NEW s \in Seq(S), s # <<>>
    PROVE  /\ Last(s) \in S /\ Front(s) \in Seq(S)
           /\ Last(s) \in ToSet(s)
           /\ IsInjective(s) => IsInjective(Front(s)) /\ ToSet(Front(s)) = ToSet(s) \ {Last(s)}
  <1>1. Len(s) \in Nat /\ Len(s) > 0
    BY EmptySeq, LenProperties
  <1>2. /\ Front(s) \in Seq(S) /\ Len(Front(s)) = Len(s) - 1
        /\ \A i \in 1..(Len(s) - 1) : Front(s)[i] = s[i]
    <2>1. \A i \in 1..(Len(s) - 1) : s[i] \in S
      BY <1>1, ElementOfSeq
    <2>2. PICK n \in Nat : n = Len(s) - 1
      BY <1>1
    <2>3. /\ SubSeq(s, 1, n) \in Seq(S)
          /\ Len(SubSeq(s, 1, n)) = IF 1 <= n THEN n - 1 + 1 ELSE 0
          /\ \A i \in 1..(n - 1 + 1) : SubSeq(s, 1, n)[i] = s[1 + i - 1]
      BY <2>1, <2>2, SubSeqProperties, Z3
    <2>4. \A i \in 1..n : i \in 1..(n - 1 + 1) /\ 1 + i - 1 = i
      BY <2>2
    <2>5. Len(SubSeq(s, 1, n)) = n
      BY <2>2, <2>3
    <2>6. \A i \in 1..n : SubSeq(s, 1, n)[i] = s[i]
      BY <2>3, <2>4
    <2> QED
      BY <2>2, <2>3, <2>5, <2>6 DEF Front
  <1>3. ASSUME IsInjective(s)
        PROVE  IsInjective(Front(s)) /\ ToSet(Front(s)) = ToSet(s) \ {Last(s)}
    <2>1. \A i, j \in 1..Len(s) : s[i] = s[j] => i = j
      BY <1>3, LenProperties DEF IsInjective
    <2>2. DOMAIN Front(s) = 1..(Len(s) - 1)
      BY <1>2, LenProperties
    <2>5. IsInjective(Front(s))
      BY <1>1, <1>2, <2>1, <2>2 DEF IsInjective
    <2>3. ASSUME NEW y, y \in ToSet(Front(s))
          PROVE  y \in ToSet(s) \ {Last(s)}
      <3>1. PICK i \in 1..(Len(s) - 1) : s[i] = y
        BY <1>2, <2>3, Elements
      <3> QED
        BY <1>1, <2>1, <3>1, Elements DEF Last
    <2>4. ASSUME NEW y, y \in ToSet(s) \ {Last(s)}
          PROVE  y \in ToSet(Front(s))
      <3>1. PICK i \in 1..Len(s) : s[i] = y
        BY <2>4, Elements
      <3>2. i \in 1..Len(Front(s)) /\ Front(s)[i] = y
        BY <1>1, <1>2, <2>4, <3>1 DEF Last
      <3> QED
        BY <1>2, <3>2, Elements
    <2> QED
      BY <2>5, <2>3, <2>4
  <1>4. Last(s) \in S /\ Last(s) \in ToSet(s)
    BY <1>1, ElementOfSeq, Elements DEF Last
  <1> QED
    BY <1>2, <1>3, <1>4

\* One sequence after another.
LEMMA Joined ==
    ASSUME NEW S, NEW s \in Seq(S), NEW t \in Seq(S)
    PROVE  /\ s \o t \in Seq(S)
           /\ ToSet(s \o t) = ToSet(s) \cup ToSet(t)
           /\ IsInjective(s) /\ IsInjective(t) /\ ToSet(s) \cap ToSet(t) = {} => IsInjective(s \o t)
  <1>1. /\ s \o t \in Seq(S) /\ Len(s \o t) = Len(s) + Len(t)
        /\ \A i \in 1..(Len(s) + Len(t)) : (s \o t)[i] = IF i <= Len(s) THEN s[i] ELSE t[i - Len(s)]
        /\ Len(s) \in Nat /\ Len(t) \in Nat
    BY ConcatProperties, LenProperties
  <1>2. ToSet(s \o t) = ToSet(s) \cup ToSet(t)
    <2>1. ASSUME NEW y, y \in ToSet(s \o t)
          PROVE  y \in ToSet(s) \cup ToSet(t)
      <3>1. PICK i \in 1..(Len(s) + Len(t)) : (s \o t)[i] = y
        BY <1>1, <2>1, Elements
      <3>2. CASE i <= Len(s)
        BY <1>1, <3>1, <3>2, Elements
      <3>3. CASE i > Len(s)
        <4>1. i - Len(s) \in 1..Len(t) /\ t[i - Len(s)] = y
          BY <1>1, <3>1, <3>3
        <4> QED
          BY <4>1, Elements
      <3> QED
        BY <1>1, <3>2, <3>3
    <2>2. ASSUME NEW y, y \in ToSet(s)
          PROVE  y \in ToSet(s \o t)
      <3>1. PICK i \in 1..Len(s) : s[i] = y
        BY <2>2, Elements
      <3>2. i \in 1..Len(s \o t) /\ (s \o t)[i] = y
        BY <1>1, <3>1
      <3> QED
        BY <1>1, <3>2, Elements
    <2>3. ASSUME NEW y, y \in ToSet(t)
          PROVE  y \in ToSet(s \o t)
      <3>1. PICK i \in 1..Len(t) : t[i] = y
        BY <2>3, Elements
      <3>2. Len(s) + i \in 1..Len(s \o t) /\ (s \o t)[Len(s) + i] = y
        BY <1>1, <3>1
      <3> QED
        BY <1>1, <3>2, Elements
    <2> QED
      BY <2>1, <2>2, <2>3
  <1>3. ASSUME IsInjective(s), IsInjective(t), ToSet(s) \cap ToSet(t) = {}
        PROVE  IsInjective(s \o t)
    <2>1. ASSUME NEW i \in 1..(Len(s) + Len(t)), NEW j \in 1..(Len(s) + Len(t)), (s \o t)[i] = (s \o t)[j]
          PROVE  i = j
      <3>1. CASE i <= Len(s) /\ j <= Len(s)
        <4>1. i \in 1..Len(s) /\ j \in 1..Len(s) /\ s[i] = s[j]
          BY <1>1, <2>1, <3>1
        <4> QED
          BY <1>3, <4>1, LenProperties DEF IsInjective
      <3>2. CASE i > Len(s) /\ j > Len(s)
        <4>1. i - Len(s) \in 1..Len(t) /\ j - Len(s) \in 1..Len(t) /\ t[i - Len(s)] = t[j - Len(s)]
          BY <1>1, <2>1, <3>2
        <4>2. i - Len(s) = j - Len(s)
          BY <1>3, <4>1, LenProperties DEF IsInjective
        <4> QED
          BY <1>1, <4>2
      <3>3. ASSUME NEW p \in 1..(Len(s) + Len(t)), NEW q \in 1..(Len(s) + Len(t)),
                   p <= Len(s), q > Len(s), (s \o t)[p] = (s \o t)[q]
            PROVE  FALSE
        <4>1. p \in 1..Len(s) /\ q - Len(s) \in 1..Len(t) /\ s[p] = t[q - Len(s)]
          BY <1>1, <3>3
        <4>2. s[p] \in ToSet(s) /\ s[p] \in ToSet(t)
          BY <4>1, Elements
        <4> QED
          BY <1>3, <4>2
      <3> QED
        BY <1>1, <2>1, <3>1, <3>2, <3>3
    <2> QED
      BY <1>1, <2>1, LenProperties DEF IsInjective
  <1> QED
    BY <1>1, <1>2, <1>3

\* The elements of a finite set in some order.
LEMMA SetInOrder ==
    ASSUME NEW S, IsFiniteSet(S)
    PROVE  SetToSeq(S) \in Seq(S) /\ IsInjective(SetToSeq(S)) /\ ToSet(SetToSeq(S)) = S
  <1>1. Cardinality(S) \in Nat /\ ExistsBijection(1..Cardinality(S), S)
    BY FS_CardinalityType
  <1>2. PICK f : f \in Bijection(1..Cardinality(S), S)
    BY <1>1 DEF ExistsBijection
  <1>3. f \in [1..Cardinality(S) -> S] /\ IsInjective(f)
    BY <1>2 DEF Bijection, Injection
  <1>4. PICK g : g = SetToSeq(S)
    OBVIOUS
  <1>5. g \in [1..Cardinality(S) -> S] /\ IsInjective(g)
    BY <1>3, <1>4 DEF SetToSeq
  <1>6. g \in Injection(1..Cardinality(S), S)
    BY <1>5 DEF Injection
  <1>7. IsFiniteSet(1..Cardinality(S)) /\ Cardinality(1..Cardinality(S)) = Cardinality(S)
    BY <1>1, FS_Interval
  <1>8. g \in Surjection(1..Cardinality(S), S)
    BY <1>6, <1>7, FS_Injection
  <1>9. \A y \in S : \E i \in 1..Cardinality(S) : g[i] = y
    BY <1>8 DEF Surjection
  <1> QED
    BY <1>1, <1>4, <1>5, <1>9 DEF ToSet

-----------------------------------------------------------------------------
\* Trees of pipelines.

CreatedIn(t) == {Root} \cup {p \in Pipeline : t[p] # 0}
ChildrenIn(t, p) == {q \in Pipeline : t[q] = p}

\* A walk that knows some pipelines and has expanded some of them: it knows the
\* children of those, as far as they were there, and of no other.
Walked(t, there, known, expanded) ==
    /\ Root \in known /\ known \subseteq CreatedIn(t) /\ expanded \subseteq known
    /\ \A q \in known \ {Root} : t[q] \in expanded
    /\ \A q \in there \ known : t[q] \notin expanded

\* What was there with each pipeline the one that triggered it.
Planted(t, there) ==
    there \subseteq CreatedIn(t) /\ \A q \in there \ {Root} : t[q] \in there

\* What the numbers of a tree are.
LEMMA TreeFacts ==
    ASSUME NEW t \in Trees
    PROVE  /\ t \in [Pipeline -> Nat]
           /\ Root \in Pipeline /\ t[Root] = 0
           /\ \A p \in Pipeline : p \in Nat /\ p > 0 /\ t[p] < p
           /\ CreatedIn(t) \subseteq Pipeline
           /\ \A p \in CreatedIn(t) \ {Root} : t[p] # 0 /\ t[p] \in CreatedIn(t) /\ t[p] < p /\ t[p] \in Nat
  <1>1. /\ t \in [Pipeline -> 0..MaxPipeline]
        /\ \A p \in Pipeline : t[p] < p /\ (t[p] # 0 => t[p] = Root \/ t[t[p]] # 0)
    BY DEF Trees
  <1>2. Pipeline \subseteq Nat \ {0} /\ Root \in Pipeline
    BY BoundAssumption DEF Pipeline, Root
  <1>3. \A p \in Pipeline : t[p] \in 0..MaxPipeline
    BY <1>1
  <1>4. \A p \in Pipeline : t[p] # 0 => t[p] \in Pipeline
    BY <1>3, BoundAssumption DEF Pipeline
  <1>5. t[Root] = 0
    BY <1>1, <1>2, <1>3, BoundAssumption DEF Root
  <1>6. ASSUME NEW p \in CreatedIn(t) \ {Root}
        PROVE  t[p] # 0 /\ t[p] \in CreatedIn(t) /\ t[p] < p /\ t[p] \in Nat
    <2>1. p \in Pipeline /\ t[p] # 0
      BY DEF CreatedIn
    <2>2. t[p] \in Pipeline /\ (t[p] = Root \/ t[t[p]] # 0)
      BY <1>1, <1>4, <2>1
    <2> QED
      BY <1>1, <1>2, <2>1, <2>2 DEF CreatedIn
  <1> QED
    BY <1>1, <1>2, <1>3, <1>5, <1>6, BoundAssumption DEF CreatedIn

\* A pipeline that is expanded has no child that is known already.
LEMMA ExpandOne ==
    ASSUME NEW t \in Trees, NEW there, NEW known, NEW expanded, Walked(t, there, known, expanded),
           NEW p \in known \ expanded, there \subseteq Pipeline
    PROVE  /\ ChildrenIn(t, p) \cap known = {}
           /\ Walked(t, there, known \cup ChildrenIn(t, p), expanded \cup {p})
           /\ ChildrenIn(t, p) \subseteq Pipeline
  <1>1. p \in Pipeline /\ p # 0
    BY TreeFacts DEF Walked
  <1>2. \A q \in ChildrenIn(t, p) : q \in Pipeline /\ t[q] = p /\ q # Root /\ q \in CreatedIn(t)
    BY <1>1, TreeFacts DEF ChildrenIn, CreatedIn
  <1>3. ChildrenIn(t, p) \cap known = {}
    BY <1>2 DEF Walked
  <1>4. \A q \in Pipeline : t[q] = p => q \in ChildrenIn(t, p)
    BY DEF ChildrenIn
  <1>5. \A q \in there \ (known \cup ChildrenIn(t, p)) : t[q] \notin expanded \cup {p}
    BY <1>4 DEF Walked
  <1> QED
    BY <1>1, <1>2, <1>3, <1>5 DEF Walked

\* A walk that has expanded all it knows knows all that was there: the smallest
\* pipeline it did not know would have been triggered by one it knows.
LEMMA WalksAll ==
    ASSUME NEW t \in Trees, NEW there, Planted(t, there), NEW known, Walked(t, there, known, known)
    PROVE  there \subseteq known
  <1> SUFFICES ASSUME there \ known # {}
               PROVE  FALSE
    OBVIOUS
  <1>1. there \ known \subseteq Nat
    BY TreeFacts DEF Planted
  <1>2. PICK least \in there \ known : \A q \in there \ known : ~(<<q, least>> \in OpToRel(<, Nat))
    BY <1>1, NatLessThanWellFounded, WFMin
  <1>3. \A q \in there \ known : ~(q < least)
    BY <1>1, <1>2 DEF OpToRel
  <1>4. least \in there \ {Root} /\ least \in CreatedIn(t) \ {Root}
    BY <1>2 DEF Planted, Walked
  <1>5. t[least] < least /\ t[least] \in there
    BY <1>4, TreeFacts DEF Planted
  <1>6. t[least] \in known
    BY <1>3, <1>5
  <1> QED
    BY <1>2, <1>6 DEF Walked

\* A pipeline that is triggered meanwhile changes nothing of that.
LEMMA TriggeredLater ==
    ASSUME NEW t \in Trees, NEW p \in CreatedIn(t), NEW q \in Pipeline \ CreatedIn(t), p < q,
           NEW u, u = [t EXCEPT ![q] = p]
    PROVE  /\ u \in Trees
           /\ CreatedIn(t) \subseteq CreatedIn(u)
           /\ \A there : Planted(t, there) => Planted(u, there)
           /\ \A there, known, expanded :
                 Planted(t, there) /\ Walked(t, there, known, expanded) => Walked(u, there, known, expanded)
  <1>1. /\ t \in [Pipeline -> 0..MaxPipeline]
        /\ \A r \in Pipeline : t[r] < r /\ (t[r] # 0 => t[r] = Root \/ t[t[r]] # 0)
    BY DEF Trees
  <1>2. p \in Pipeline /\ p \in 0..MaxPipeline /\ p # 0
    BY TreeFacts, BoundAssumption DEF Pipeline
  <1>3. u[q] = p /\ \A r \in Pipeline \ {q} : u[r] = t[r]
    BY <1>1
  <1>4. u \in [Pipeline -> 0..MaxPipeline]
    BY <1>1, <1>2
  <1>5. t[q] = 0 /\ q # Root
    BY DEF CreatedIn
  <1>6. \A r \in CreatedIn(t) : r \in Pipeline /\ r # q /\ u[r] = t[r]
    BY <1>3, TreeFacts
  <1>7. CreatedIn(t) \subseteq CreatedIn(u)
    BY <1>6 DEF CreatedIn
  <1>8. ASSUME NEW r \in Pipeline
        PROVE  u[r] < r /\ (u[r] # 0 => u[r] = Root \/ u[u[r]] # 0)
    <2>1. CASE r = q
      <3>1. u[r] = p /\ (p = Root \/ t[p] # 0)
        BY <1>3, <2>1 DEF CreatedIn
      <3>2. u[p] = t[p]
        BY <1>6
      <3> QED
        BY <2>1, <3>1, <3>2
    <2>2. CASE r # q
      <3>1. u[r] = t[r]
        BY <1>3, <2>2
      <3>2. t[r] # 0 => t[r] \in CreatedIn(t)
        BY <2>2, TreeFacts DEF CreatedIn
      <3>3. t[r] # 0 => u[t[r]] = t[t[r]]
        BY <1>6, <3>2
      <3> QED
        BY <1>1, <3>1, <3>3
    <2> QED
      BY <2>1, <2>2
  <1>9. u \in Trees
    BY <1>4, <1>8 DEF Trees
  <1>10. ASSUME NEW there, Planted(t, there)
         PROVE  Planted(u, there)
    BY <1>6, <1>7, <1>10 DEF Planted
  <1>11. ASSUME NEW there, NEW known, NEW expanded, Planted(t, there), Walked(t, there, known, expanded)
         PROVE  Walked(u, there, known, expanded)
    BY <1>6, <1>7, <1>11 DEF Planted, Walked
  <1> QED
    BY <1>7, <1>9, <1>10, <1>11

-----------------------------------------------------------------------------
\* Walks.

WalkCall ==
    [fn : Walking, stage : {"root", "reading", "popping", "fetching", "done"}, children : BOOLEAN,
     todo : Seq(Pipeline), bridges : Seq(Pipeline), got : Seq(Pipeline)]

Begun(c) == c.stage = "root" /\ c.got = <<>> /\ c.todo = <<Root>> /\ c.bridges = <<>>

\* Without children the root is all.
Alone(c) ==
    /\ ~c.children /\ c.got = <<Root>> /\ c.bridges = <<>>
    /\ c.fn = "ListRefPipelineJobs" => c.stage = "done"
    /\ c.fn = "GetRefPipelineTestReport" => c.stage \in {"reading", "done"} /\ c.todo = <<>>

\* The pipelines whose jobs are listed, or whose bridge is about to be followed, are known;
\* those that have left the stack are expanded.
JobsWalk(c, t, there) ==
    /\ c.fn = "ListRefPipelineJobs" /\ c.children
    /\ c.stage \in {"popping", "fetching", "done"}
    /\ c.stage # "fetching" => c.bridges = <<>>
    /\ c.stage = "done" => c.todo = <<>>
    /\ IsInjective(c.got) /\ IsInjective(c.todo) /\ IsInjective(c.bridges)
    /\ ToSet(c.todo) \subseteq ToSet(c.got) /\ ToSet(c.bridges) \cap ToSet(c.got) = {}
    /\ Walked(t, there, ToSet(c.got) \cup ToSet(c.bridges), ToSet(c.got) \ ToSet(c.todo))

\* The pipelines in the queue are known; those that have left it are expanded, but for
\* the last one until its children are queued.
ReportsWalk(c, t, there) ==
    /\ c.fn = "GetRefPipelineTestReport" /\ c.children
    /\ c.stage \in {"reading", "popping", "done"}
    /\ c.stage = "done" => c.todo = <<>>
    /\ c.got # <<>>
    /\ IsInjective(c.got) /\ IsInjective(c.todo) /\ ToSet(c.todo) \cap ToSet(c.got) = {}
    /\ Walked(t, there, ToSet(c.got) \cup ToSet(c.todo),
              IF c.stage = "popping" THEN ToSet(c.got) \ {Last(c.got)} ELSE ToSet(c.got))

WalkInv(c, t, there) ==
    /\ c \in WalkCall
    /\ Begun(c) \/ Alone(c) \/ JobsWalk(c, t, there) \/ ReportsWalk(c, t, there)

\* The sequence of the root.
LEMMA OnlyRoot ==
    /\ <<>> \in Seq(Pipeline) /\ ToSet(<<>>) = {} /\ IsInjective(<<>>)
    /\ <<Root>> \in Seq(Pipeline) /\ ToSet(<<Root>>) = {Root} /\ IsInjective(<<Root>>) /\ <<Root>> # <<>>
    /\ Head(<<Root>>) = Root /\ Tail(<<Root>>) = <<>> /\ Append(<<>>, Root) = <<Root>> /\ Last(<<Root>>) = Root
  <1>1. Root \in Pipeline
    BY BoundAssumption DEF Pipeline, Root
  <1>2. ToSet(<<>>) = {} /\ IsInjective(<<>>)
    BY DEF ToSet, IsInjective
  <1>3. /\ <<Root>> \in Seq(Pipeline) /\ Len(<<Root>>) = 1 /\ <<Root>>[1] = Root /\ DOMAIN <<Root>> = 1..1
    BY <1>1
  <1>4. ToSet(<<Root>>) = {Root}
    BY <1>3 DEF ToSet
  <1>5. IsInjective(<<Root>>)
    BY <1>3 DEF IsInjective
  <1>6. Head(<<Root>>) = Root /\ Tail(<<Root>>) = <<>> /\ Append(<<>>, Root) = <<Root>> /\ Last(<<Root>>) = Root
    BY <1>1, <1>3 DEF Last
  <1> QED
    BY <1>2, <1>3, <1>4, <1>5, <1>6

\* A walk that knows the root only, before it is expanded.
LEMMA WalksRoot ==
    ASSUME NEW t \in Trees, NEW there
    PROVE  Walked(t, there, {Root}, {})
  BY DEF Walked, CreatedIn

\* The children of a pipeline, in the order of their bridges.
LEMMA Bridges ==
    ASSUME NEW t \in Trees, NEW p
    PROVE  /\ SetToSeq(ChildrenIn(t, p)) \in Seq(Pipeline)
           /\ IsInjective(SetToSeq(ChildrenIn(t, p)))
           /\ ToSet(SetToSeq(ChildrenIn(t, p))) = ChildrenIn(t, p)
  <1>1. IsFiniteSet(Pipeline)
    BY BoundAssumption, FS_Interval DEF Pipeline
  <1>2. ChildrenIn(t, p) \in SUBSET Pipeline
    BY DEF ChildrenIn
  <1>3. IsFiniteSet(ChildrenIn(t, p))
    BY <1>1, <1>2, FS_Subset
  <1>4. PICK s : s = SetToSeq(ChildrenIn(t, p))
    OBVIOUS
  <1>5. s \in Seq(ChildrenIn(t, p)) /\ IsInjective(s) /\ ToSet(s) = ChildrenIn(t, p)
    BY <1>3, <1>4, SetInOrder
  <1>6. s \in Seq(Pipeline)
    BY <1>2, <1>5, SeqMonotonic
  <1> QED
    BY <1>4, <1>5, <1>6

\* The last pipeline of the stack is expanded.
LEMMA PopJobs ==
    ASSUME NEW t \in Trees, NEW there \in SUBSET Pipeline, NEW c \in WalkCall, JobsWalk(c, t, there),
           c.stage = "popping", c.todo # <<>>,
           NEW d, d = [c EXCEPT !.todo = Front(@), !.stage = "fetching",
                                !.bridges = SetToSeq(ChildrenIn(t, Last(c.todo)))]
    PROVE  d \in WalkCall /\ JobsWalk(d, t, there)
  <1>1. PICK p : p = Last(c.todo)
    OBVIOUS
  <1>2. PICK todo : todo = Front(c.todo)
    OBVIOUS
  <1>3. PICK bridges : bridges = SetToSeq(ChildrenIn(t, p))
    OBVIOUS
  <1>4. c.todo \in Seq(Pipeline) /\ c.got \in Seq(Pipeline)
    BY DEF WalkCall
  <1>5. /\ p \in ToSet(c.todo) /\ todo \in Seq(Pipeline) /\ IsInjective(todo)
        /\ ToSet(todo) = ToSet(c.todo) \ {p}
    BY <1>1, <1>2, <1>4, WithoutLast DEF JobsWalk
  <1>6. bridges \in Seq(Pipeline) /\ IsInjective(bridges) /\ ToSet(bridges) = ChildrenIn(t, p)
    BY <1>3, Bridges
  <1>7. /\ c.bridges = <<>> /\ ToSet(<<>>) = {}
        /\ ToSet(c.todo) \subseteq ToSet(c.got) /\ IsInjective(c.got)
    BY OnlyRoot DEF JobsWalk
  <1>8. Walked(t, there, ToSet(c.got), ToSet(c.got) \ ToSet(c.todo))
    BY <1>7 DEF JobsWalk
  <1>9. p \in ToSet(c.got) \ (ToSet(c.got) \ ToSet(c.todo))
    BY <1>5, <1>7
  <1>10. /\ ToSet(bridges) \cap ToSet(c.got) = {}
         /\ Walked(t, there, ToSet(c.got) \cup ToSet(bridges), (ToSet(c.got) \ ToSet(c.todo)) \cup {p})
    <2>1. PICK known, expanded : known = ToSet(c.got) /\ expanded = ToSet(c.got) \ ToSet(c.todo)
      OBVIOUS
    <2>2. Walked(t, there, known, expanded) /\ p \in known \ expanded
      BY <1>8, <1>9, <2>1
    <2>3. /\ ChildrenIn(t, p) \cap known = {}
          /\ Walked(t, there, known \cup ChildrenIn(t, p), expanded \cup {p})
      BY <2>2, ExpandOne
    <2> QED
      BY <1>6, <2>1, <2>3
  <1>11. (ToSet(c.got) \ ToSet(c.todo)) \cup {p} = ToSet(c.got) \ ToSet(todo)
    BY <1>5, <1>9
  <1>12. d = [c EXCEPT !.todo = todo, !.stage = "fetching", !.bridges = bridges]
    BY <1>1, <1>2, <1>3
  <1>13. /\ d \in WalkCall /\ d.fn = c.fn /\ d.children = c.children /\ d.got = c.got
         /\ d.todo = todo /\ d.bridges = bridges /\ d.stage = "fetching"
    BY <1>5, <1>6, <1>12 DEF WalkCall
  <1>14. ToSet(todo) \subseteq ToSet(c.got)
    BY <1>5, <1>7
  <1> QED
    BY <1>5, <1>6, <1>7, <1>10, <1>11, <1>13, <1>14 DEF JobsWalk

\* The jobs of a child are listed, and the child is put on the stack.
LEMMA FetchJobs ==
    ASSUME NEW t \in Trees, NEW there \in SUBSET Pipeline, NEW c \in WalkCall, JobsWalk(c, t, there),
           c.stage = "fetching", c.bridges # <<>>,
           NEW d, d = [c EXCEPT !.bridges = Tail(@), !.todo = Append(@, Head(c.bridges)),
                                !.got = Append(@, Head(c.bridges))]
    PROVE  d \in WalkCall /\ JobsWalk(d, t, there)
  <1>1. PICK b : b = Head(c.bridges)
    OBVIOUS
  <1>2. PICK bridges : bridges = Tail(c.bridges)
    OBVIOUS
  <1>3. PICK todo : todo = Append(c.todo, b)
    OBVIOUS
  <1>4. PICK got : got = Append(c.got, b)
    OBVIOUS
  <1>5. c.todo \in Seq(Pipeline) /\ c.got \in Seq(Pipeline) /\ c.bridges \in Seq(Pipeline)
    BY DEF WalkCall
  <1>6. /\ b \in Pipeline /\ bridges \in Seq(Pipeline) /\ ToSet(c.bridges) = ToSet(bridges) \cup {b}
        /\ IsInjective(bridges) /\ b \notin ToSet(bridges)
    BY <1>1, <1>2, <1>5, WithoutHead DEF JobsWalk
  <1>7. b \notin ToSet(c.got) /\ b \notin ToSet(c.todo)
    BY <1>6 DEF JobsWalk
  <1>8. todo \in Seq(Pipeline) /\ ToSet(todo) = ToSet(c.todo) \cup {b} /\ IsInjective(todo)
    BY <1>3, <1>5, <1>6, <1>7, Appended DEF JobsWalk
  <1>9. got \in Seq(Pipeline) /\ ToSet(got) = ToSet(c.got) \cup {b} /\ IsInjective(got)
    BY <1>4, <1>5, <1>6, <1>7, Appended DEF JobsWalk
  <1>10. d = [c EXCEPT !.bridges = bridges, !.todo = todo, !.got = got]
    BY <1>1, <1>2, <1>3, <1>4
  <1>11. /\ d \in WalkCall /\ d.fn = c.fn /\ d.children = c.children /\ d.got = got
         /\ d.todo = todo /\ d.bridges = bridges /\ d.stage = "fetching"
    BY <1>6, <1>8, <1>9, <1>10 DEF WalkCall
  <1>12. ToSet(got) \cup ToSet(bridges) = ToSet(c.got) \cup ToSet(c.bridges)
    BY <1>6, <1>9
  <1>13. ToSet(got) \ ToSet(todo) = ToSet(c.got) \ ToSet(c.todo)
    BY <1>7, <1>8, <1>9
  <1>14. ToSet(todo) \subseteq ToSet(got) /\ ToSet(bridges) \cap ToSet(got) = {}
    BY <1>6, <1>8, <1>9 DEF JobsWalk
  <1>15. Walked(t, there, ToSet(got) \cup ToSet(bridges), ToSet(got) \ ToSet(todo))
    BY <1>12, <1>13 DEF JobsWalk
  <1> QED
    BY <1>6, <1>8, <1>9, <1>11, <1>14, <1>15 DEF JobsWalk

\* The report of the first pipeline of the queue is added.
LEMMA AddReport ==
    ASSUME NEW t \in Trees, NEW there \in SUBSET Pipeline, NEW c \in WalkCall, ReportsWalk(c, t, there),
           c.stage = "reading", c.todo # <<>>,
           NEW d, d = [c EXCEPT !.todo = Tail(@), !.got = Append(@, Head(c.todo)), !.stage = "popping"]
    PROVE  d \in WalkCall /\ ReportsWalk(d, t, there)
  <1>1. PICK p : p = Head(c.todo)
    OBVIOUS
  <1>2. PICK todo : todo = Tail(c.todo)
    OBVIOUS
  <1>3. PICK got : got = Append(c.got, p)
    OBVIOUS
  <1>4. c.todo \in Seq(Pipeline) /\ c.got \in Seq(Pipeline)
    BY DEF WalkCall
  <1>5. /\ p \in Pipeline /\ todo \in Seq(Pipeline) /\ ToSet(c.todo) = ToSet(todo) \cup {p}
        /\ IsInjective(todo) /\ p \notin ToSet(todo)
    BY <1>1, <1>2, <1>4, WithoutHead DEF ReportsWalk
  <1>6. p \notin ToSet(c.got)
    BY <1>5 DEF ReportsWalk
  <1>7. got \in Seq(Pipeline) /\ ToSet(got) = ToSet(c.got) \cup {p} /\ IsInjective(got) /\ Last(got) = p
    BY <1>3, <1>4, <1>5, <1>6, Appended DEF ReportsWalk
  <1>8. got # <<>>
    BY <1>3, <1>4, <1>5, AppendProperties
  <1>9. d = [c EXCEPT !.todo = todo, !.got = got, !.stage = "popping"]
    BY <1>1, <1>2, <1>3
  <1>10. /\ d \in WalkCall /\ d.fn = c.fn /\ d.children = c.children /\ d.got = got
         /\ d.todo = todo /\ d.stage = "popping"
    BY <1>5, <1>7, <1>9 DEF WalkCall
  <1>11. ToSet(got) \cup ToSet(todo) = ToSet(c.got) \cup ToSet(c.todo) /\ ToSet(got) \ {Last(got)} = ToSet(c.got)
    BY <1>5, <1>6, <1>7
  <1>12. ToSet(todo) \cap ToSet(got) = {}
    BY <1>5, <1>7 DEF ReportsWalk
  <1>13. Walked(t, there, ToSet(got) \cup ToSet(todo), ToSet(got) \ {Last(got)})
    BY <1>11 DEF ReportsWalk
  <1> QED
    BY <1>5, <1>7, <1>8, <1>10, <1>12, <1>13 DEF ReportsWalk

\* Its children are queued.
LEMMA QueueReports ==
    ASSUME NEW t \in Trees, NEW there \in SUBSET Pipeline, NEW c \in WalkCall, ReportsWalk(c, t, there),
           c.stage = "popping",
           NEW d, d = [c EXCEPT !.todo = @ \o SetToSeq(ChildrenIn(t, Last(c.got))), !.stage = "reading"]
    PROVE  d \in WalkCall /\ ReportsWalk(d, t, there)
  <1>1. PICK p : p = Last(c.got)
    OBVIOUS
  <1>2. PICK bridges : bridges = SetToSeq(ChildrenIn(t, p))
    OBVIOUS
  <1>3. PICK todo : todo = c.todo \o bridges
    OBVIOUS
  <1>4. c.todo \in Seq(Pipeline) /\ c.got \in Seq(Pipeline)
    BY DEF WalkCall
  <1>5. p \in ToSet(c.got)
    BY <1>1, <1>4, WithoutLast DEF ReportsWalk
  <1>6. bridges \in Seq(Pipeline) /\ IsInjective(bridges) /\ ToSet(bridges) = ChildrenIn(t, p)
    BY <1>2, Bridges
  <1>7. Walked(t, there, ToSet(c.got) \cup ToSet(c.todo), ToSet(c.got) \ {p})
    BY <1>1 DEF ReportsWalk
  <1>8. p \in (ToSet(c.got) \cup ToSet(c.todo)) \ (ToSet(c.got) \ {p})
    BY <1>5
  <1>9. /\ ToSet(bridges) \cap (ToSet(c.got) \cup ToSet(c.todo)) = {}
        /\ Walked(t, there, (ToSet(c.got) \cup ToSet(c.todo)) \cup ToSet(bridges), (ToSet(c.got) \ {p}) \cup {p})
    <2>1. PICK known, expanded : known = ToSet(c.got) \cup ToSet(c.todo) /\ expanded = ToSet(c.got) \ {p}
      OBVIOUS
    <2>2. Walked(t, there, known, expanded) /\ p \in known \ expanded
      BY <1>7, <1>8, <2>1
    <2>3. /\ ChildrenIn(t, p) \cap known = {}
          /\ Walked(t, there, known \cup ChildrenIn(t, p), expanded \cup {p})
      BY <2>2, ExpandOne
    <2> QED
      BY <1>6, <2>1, <2>3
  <1>10. todo \in Seq(Pipeline) /\ ToSet(todo) = ToSet(c.todo) \cup ToSet(bridges) /\ IsInjective(todo)
    BY <1>3, <1>4, <1>6, <1>9, Joined DEF ReportsWalk
  <1>11. /\ (ToSet(c.got) \cup ToSet(c.todo)) \cup ToSet(bridges) = ToSet(c.got) \cup ToSet(todo)
         /\ (ToSet(c.got) \ {p}) \cup {p} = ToSet(c.got)
         /\ ToSet(todo) \cap ToSet(c.got) = {}
    BY <1>5, <1>9, <1>10 DEF ReportsWalk
  <1>12. Walked(t, there, ToSet(c.got) \cup ToSet(todo), ToSet(c.got))
    BY <1>9, <1>11
  <1>13. d = [c EXCEPT !.todo = todo, !.stage = "reading"]
    BY <1>1, <1>2, <1>3
  <1>14. /\ d \in WalkCall /\ d.fn = c.fn /\ d.children = c.children /\ d.got = c.got
         /\ d.todo = todo /\ d.stage = "reading"
    BY <1>10, <1>13 DEF WalkCall
  <1> QED
    BY <1>10, <1>11, <1>12, <1>14 DEF ReportsWalk

\* A step of a walk keeps what is said of it.
LEMMA WalkStepKeeps ==
    ASSUME WalkStep, parent \in Trees, planted \subseteq Pipeline, WalkInv(call, parent, planted)
    PROVE  WalkInv(call', parent, planted) /\ UNCHANGED <<gitlabVars, historyVars>>
  <1>1. PICK c : c = call
    OBVIOUS
  <1>2. PICK t \in Trees : t = parent
    OBVIOUS
  <1>3. PICK there \in SUBSET Pipeline : there = planted
    OBVIOUS
  <1>4. PICK d : d = call'
    OBVIOUS
  <1>5. /\ c \in WalkCall
        /\ Begun(c) \/ Alone(c) \/ JobsWalk(c, t, there) \/ ReportsWalk(c, t, there)
    BY <1>1, <1>2, <1>3 DEF WalkInv
  <1>6. \A p : Triggered(p) = ChildrenIn(t, p)
    BY <1>2 DEF Triggered, ChildrenIn
  <1>7. WalkInv(d, t, there)
    <2>1. CASE ListRefPipelineJobs
      <3>1. /\ c.fn = "ListRefPipelineJobs" /\ c.stage = "root"
            /\ d = [c EXCEPT !.got = <<Root>>, !.stage = IF c.children THEN "popping" ELSE "done"]
        BY <1>1, <1>4, <2>1 DEF ListRefPipelineJobs
      <3>2. Begun(c)
        BY <1>5, <3>1 DEF Alone, JobsWalk, ReportsWalk
      <3>3. CASE ~c.children
        <4>1. d = [c EXCEPT !.got = <<Root>>, !.stage = "done"]
          BY <3>1, <3>3
        <4>2. d \in WalkCall /\ d.fn = c.fn /\ ~d.children /\ d.got = <<Root>> /\ d.stage = "done" /\ d.bridges = <<>>
          BY <1>5, <3>2, <3>3, <4>1, OnlyRoot DEF WalkCall, Begun
        <4> QED
          BY <3>1, <4>2 DEF WalkInv, Alone
      <3>4. CASE c.children
        <4>1. d = [c EXCEPT !.got = <<Root>>, !.stage = "popping"]
          BY <3>1, <3>4
        <4>2. /\ d \in WalkCall /\ d.fn = c.fn /\ d.children /\ d.got = <<Root>> /\ d.stage = "popping"
              /\ d.bridges = <<>> /\ d.todo = <<Root>>
          BY <1>5, <3>2, <3>4, <4>1, OnlyRoot DEF WalkCall, Begun
        <4>3. {Root} \cup {} = {Root} /\ {Root} \ {Root} = {}
          OBVIOUS
        <4>4. Walked(t, there, ToSet(d.got) \cup ToSet(d.bridges), ToSet(d.got) \ ToSet(d.todo))
          BY <4>2, <4>3, OnlyRoot, WalksRoot
        <4> QED
          BY <3>1, <4>2, <4>4, OnlyRoot DEF WalkInv, JobsWalk
      <3> QED
        BY <3>3, <3>4
    <2>2. CASE ListPipelineChildJobs
      <3>1. c.fn = "ListRefPipelineJobs" /\ c.stage = "popping"
        BY <1>1, <2>2 DEF ListPipelineChildJobs
      <3>2. JobsWalk(c, t, there)
        BY <1>5, <3>1 DEF Begun, Alone, ReportsWalk
      <3>3. CASE c.todo = <<>>
        <4>1. d = [c EXCEPT !.stage = "done"]
          BY <1>1, <1>4, <2>2, <3>3 DEF ListPipelineChildJobs
        <4>2. /\ d \in WalkCall /\ d.fn = c.fn /\ d.children = c.children /\ d.got = c.got
              /\ d.todo = c.todo /\ d.bridges = c.bridges /\ d.stage = "done"
          BY <1>5, <4>1 DEF WalkCall
        <4>3. JobsWalk(d, t, there)
          BY <3>1, <3>2, <3>3, <4>2 DEF JobsWalk
        <4> QED
          BY <4>2, <4>3 DEF WalkInv
      <3>4. CASE c.todo # <<>>
        <4>1. d = [c EXCEPT !.todo = Front(@), !.stage = "fetching",
                            !.bridges = SetToSeq(ChildrenIn(t, Last(c.todo)))]
          BY <1>1, <1>4, <1>6, <2>2, <3>4 DEF ListPipelineChildJobs
        <4> QED
          BY <1>5, <3>1, <3>2, <3>4, <4>1, PopJobs DEF WalkInv
      <3> QED
        BY <3>3, <3>4
    <2>3. CASE FetchChildJobs
      <3>1. c.stage = "fetching"
        BY <1>1, <2>3 DEF FetchChildJobs
      <3>2. JobsWalk(c, t, there)
        BY <1>5, <3>1 DEF Begun, Alone, ReportsWalk, WalkCall, Walking
      <3>3. CASE c.bridges = <<>>
        <4>1. d = [c EXCEPT !.stage = "popping"]
          BY <1>1, <1>4, <2>3, <3>3 DEF FetchChildJobs
        <4>2. /\ d \in WalkCall /\ d.fn = c.fn /\ d.children = c.children /\ d.got = c.got
              /\ d.todo = c.todo /\ d.bridges = c.bridges /\ d.stage = "popping"
          BY <1>5, <4>1 DEF WalkCall
        <4>3. JobsWalk(d, t, there)
          BY <3>1, <3>2, <3>3, <4>2 DEF JobsWalk
        <4> QED
          BY <4>2, <4>3 DEF WalkInv
      <3>4. CASE c.bridges # <<>>
        <4>1. d = [c EXCEPT !.bridges = Tail(@), !.todo = Append(@, Head(c.bridges)),
                            !.got = Append(@, Head(c.bridges))]
          BY <1>1, <1>4, <2>3, <3>4 DEF FetchChildJobs
        <4> QED
          BY <1>5, <3>1, <3>2, <3>4, <4>1, FetchJobs DEF WalkInv
      <3> QED
        BY <3>3, <3>4
    <2>4. CASE GetRefPipelineTestReport
      <3>1. c.fn = "GetRefPipelineTestReport" /\ c.stage \in {"root", "reading"}
        BY <1>1, <2>4 DEF GetRefPipelineTestReport
      <3>2. CASE c.todo = <<>>
        <4>1. d = [c EXCEPT !.stage = "done"]
          BY <1>1, <1>4, <2>4, <3>2 DEF GetRefPipelineTestReport
        <4>2. /\ d \in WalkCall /\ d.fn = c.fn /\ d.children = c.children /\ d.got = c.got
              /\ d.todo = c.todo /\ d.bridges = c.bridges /\ d.stage = "done"
          BY <1>5, <4>1 DEF WalkCall
        <4>3. ~Begun(c)
          BY <3>2, OnlyRoot DEF Begun
        <4>4. CASE Alone(c)
          BY <3>1, <4>2, <4>4 DEF WalkInv, Alone
        <4>5. CASE ReportsWalk(c, t, there)
          <5>1. c.stage = "reading"
            BY <3>1, <4>5 DEF ReportsWalk
          <5>2. ReportsWalk(d, t, there)
            BY <3>2, <4>2, <4>5, <5>1 DEF ReportsWalk
          <5> QED
            BY <4>2, <5>2 DEF WalkInv
        <4> QED
          BY <1>5, <3>1, <4>3, <4>4, <4>5 DEF JobsWalk
      <3>3. CASE c.todo # <<>>
        <4>1. d = [c EXCEPT !.todo = Tail(@), !.got = Append(@, Head(c.todo)),
                            !.stage = IF c.children THEN "popping" ELSE "reading"]
          BY <1>1, <1>4, <2>4, <3>3 DEF GetRefPipelineTestReport
        <4>2. CASE Begun(c)
          <5>1. d = [c EXCEPT !.todo = <<>>, !.got = <<Root>>, !.stage = IF c.children THEN "popping" ELSE "reading"]
            BY <4>1, <4>2, OnlyRoot DEF Begun
          <5>2. /\ d \in WalkCall /\ d.fn = c.fn /\ d.children = c.children /\ d.got = <<Root>>
                /\ d.todo = <<>> /\ d.bridges = <<>>
                /\ d.stage = IF c.children THEN "popping" ELSE "reading"
            BY <1>5, <4>2, <5>1, OnlyRoot DEF WalkCall, Begun
          <5>3. CASE ~c.children
            BY <3>1, <5>2, <5>3 DEF WalkInv, Alone
          <5>4. CASE c.children
            <6>1. {Root} \cup {} = {Root} /\ {Root} \ {Root} = {} /\ {} \cap {Root} = {}
              OBVIOUS
            <6>2. Walked(t, there, ToSet(d.got) \cup ToSet(d.todo), ToSet(d.got) \ {Last(d.got)})
              BY <5>2, <6>1, OnlyRoot, WalksRoot
            <6>3. ReportsWalk(d, t, there)
              BY <3>1, <5>2, <5>4, <6>1, <6>2, OnlyRoot DEF ReportsWalk
            <6> QED
              BY <5>2, <6>3 DEF WalkInv
          <5> QED
            BY <5>3, <5>4
        <4>3. CASE ~Begun(c)
          <5>1. ReportsWalk(c, t, there)
            BY <1>5, <3>1, <3>3, <4>3 DEF Alone, JobsWalk
          <5>2. c.stage = "reading" /\ c.children
            BY <3>1, <5>1 DEF ReportsWalk
          <5>3. d = [c EXCEPT !.todo = Tail(@), !.got = Append(@, Head(c.todo)), !.stage = "popping"]
            BY <4>1, <5>2
          <5> QED
            BY <1>5, <3>3, <5>1, <5>2, <5>3, AddReport DEF WalkInv
        <4> QED
          BY <4>2, <4>3
      <3> QED
        BY <3>2, <3>3
    <2>5. CASE QueueChildren
      <3>1. /\ c.fn = "GetRefPipelineTestReport" /\ c.stage = "popping"
            /\ d = [c EXCEPT !.todo = @ \o SetToSeq(ChildrenIn(t, Last(c.got))), !.stage = "reading"]
        BY <1>1, <1>4, <1>6, <2>5 DEF QueueChildren
      <3>2. ReportsWalk(c, t, there)
        BY <1>5, <3>1 DEF Begun, Alone, JobsWalk
      <3> QED
        BY <1>5, <3>1, <3>2, QueueReports DEF WalkInv
    <2> QED
      BY <2>1, <2>2, <2>3, <2>4, <2>5 DEF WalkStep
  <1>8. UNCHANGED <<gitlabVars, historyVars>>
    BY DEF WalkStep, ListRefPipelineJobs, ListPipelineChildJobs, FetchChildJobs, GetRefPipelineTestReport, QueueChildren
  <1> QED
    BY <1>2, <1>3, <1>4, <1>7, <1>8

\* A walk keeps what is said of it when a pipeline triggers another.
LEMMA WalkGoesOn ==
    ASSUME NEW c, NEW t \in Trees, NEW there, Planted(t, there), WalkInv(c, t, there),
           NEW p \in CreatedIn(t), NEW q \in Pipeline \ CreatedIn(t), p < q,
           NEW u, u = [t EXCEPT ![q] = p]
    PROVE  WalkInv(c, u, there) /\ Planted(u, there) /\ u \in Trees
  <1>1. /\ u \in Trees /\ Planted(u, there)
        /\ \A known, expanded : Walked(t, there, known, expanded) => Walked(u, there, known, expanded)
    BY TriggeredLater
  <1>2. JobsWalk(c, t, there) => JobsWalk(c, u, there)
    BY <1>1 DEF JobsWalk
  <1>3. ReportsWalk(c, t, there) => ReportsWalk(c, u, there)
    BY <1>1 DEF ReportsWalk
  <1> QED
    BY <1>1, <1>2, <1>3 DEF WalkInv

\* A walk that is done has counted every pipeline once.
LEMMA WalkCountsOnce ==
    ASSUME parent \in Trees, Planted(parent, planted), WalkInv(call, parent, planted), call.stage = "done"
    PROVE  /\ IsInjective(call.got)
           /\ (IF call.children THEN planted ELSE {Root}) \subseteq ToSet(call.got)
           /\ ToSet(call.got) \subseteq (IF call.children THEN Created ELSE {Root})
  <1>1. Created = CreatedIn(parent)
    BY DEF Created, CreatedIn
  <1>2. CASE Alone(call)
    BY <1>2, OnlyRoot DEF Alone
  <1>3. CASE JobsWalk(call, parent, planted)
    <2>1. call.children /\ call.todo = <<>> /\ call.bridges = <<>> /\ IsInjective(call.got)
      BY <1>3 DEF JobsWalk
    <2>2. PICK known : known = ToSet(call.got)
      OBVIOUS
    <2>3. ToSet(call.got) \cup ToSet(<<>>) = known /\ ToSet(call.got) \ ToSet(<<>>) = known
      BY <2>2, OnlyRoot
    <2>4. Walked(parent, planted, known, known)
      BY <1>3, <2>1, <2>3 DEF JobsWalk
    <2>5. planted \subseteq known /\ known \subseteq CreatedIn(parent)
      BY <2>4, WalksAll DEF Walked
    <2> QED
      BY <1>1, <2>1, <2>2, <2>5
  <1>4. CASE ReportsWalk(call, parent, planted)
    <2>1. call.children /\ call.todo = <<>> /\ IsInjective(call.got)
      BY <1>4 DEF ReportsWalk
    <2>2. PICK known : known = ToSet(call.got)
      OBVIOUS
    <2>3. ToSet(call.got) \cup ToSet(<<>>) = known
      BY <2>2, OnlyRoot
    <2>4. Walked(parent, planted, known, known)
      BY <1>4, <2>1, <2>2, <2>3 DEF ReportsWalk
    <2>5. planted \subseteq known /\ known \subseteq CreatedIn(parent)
      BY <2>4, WalksAll DEF Walked
    <2> QED
      BY <1>1, <2>1, <2>2, <2>5
  <1> QED
    BY <1>2, <1>3, <1>4 DEF WalkInv, Begun

-----------------------------------------------------------------------------
\* Lists.

\* A list is a sequence of items, none twice, no longer than there are items.
LEMMA ListFacts ==
    ASSUME NEW l
    PROVE  l \in Lists <=> l \in Seq(Item) /\ \A i, j \in 1..Len(l) : l[i] = l[j] => i = j
  <1>1. ASSUME l \in Lists
        PROVE  l \in Seq(Item) /\ \A i, j \in 1..Len(l) : l[i] = l[j] => i = j
    <2>1. PICK n \in 0..Cardinality(Item) : l \in [1..n -> Item] /\ IsInjective(l)
      BY <1>1 DEF Lists
    <2>2. Cardinality(Item) \in Nat
      BY ItemAssumption, FS_CardinalityType
    <2>3. n \in Nat
      BY <2>2
    <2>4. l \in Seq(Item) /\ Len(l) = n /\ DOMAIN l = 1..n
      BY <2>1, <2>3
    <2> QED
      BY <2>1, <2>4 DEF IsInjective
  <1>2. ASSUME l \in Seq(Item), \A i, j \in 1..Len(l) : l[i] = l[j] => i = j
        PROVE  l \in Lists
    <2>1. Len(l) \in Nat /\ l \in [1..Len(l) -> Item] /\ DOMAIN l = 1..Len(l)
      BY <1>2, LenProperties
    <2>2. IsInjective(l)
      BY <1>2, <2>1 DEF IsInjective
    <2>3. l \in Injection(1..Len(l), Item)
      BY <2>1, <2>2 DEF Injection
    <2>4. Cardinality(1..Len(l)) <= Cardinality(Item)
      BY <2>3, ItemAssumption, FS_Injection
    <2>5. Cardinality(1..Len(l)) = Len(l)
      BY <2>1, FS_Interval
    <2>6. Cardinality(Item) \in Nat
      BY ItemAssumption, FS_CardinalityType
    <2>7. Len(l) \in 0..Cardinality(Item)
      BY <2>1, <2>4, <2>5, <2>6
    <2> QED
      BY <2>1, <2>2, <2>7 DEF Lists
  <1> QED
    BY <1>1, <1>2

\* No list is longer than there are items.
LEMMA ListIsShort ==
    ASSUME NEW l \in Lists
    PROVE  Len(l) \in Nat /\ Len(l) <= Cardinality(Item) /\ Cardinality(Item) \in Nat
  <1>1. PICK n \in 0..Cardinality(Item) : l \in [1..n -> Item]
    BY DEF Lists
  <1>2. Cardinality(Item) \in Nat
    BY ItemAssumption, FS_CardinalityType
  <1>3. n \in Nat
    BY <1>2
  <1>4. Len(l) = n
    BY <1>1, <1>3
  <1> QED
    BY <1>2, <1>3, <1>4

-----------------------------------------------------------------------------
\* Listings.

ListCall ==
    [fn : Collecting \cup Unfiltered \cup Choosing, stage : {"reading", "taking", "done"},
     page : Nat \ {0}, next : Nat, passed : Nat, items : Seq(Item), only : SUBSET Names,
     limit : Nat, keyset : BOOLEAN, got : Seq(Item)]

History == [steady : SUBSET Item, displaced : SUBSET Item, pushed : SUBSET Item, changes : 0..MaxChanges]

Full(c) == c.limit > 0 /\ Len(c.got) = c.limit

\* The last place of the list that the page shows.
Upto(c, l) == IF c.passed <= Len(l) THEN c.passed ELSE Len(l)

Wanted(c) == IF c.fn \in Unfiltered THEN Item ELSE Accepted

Fits(c, x) == x \in Accepted /\ Name[x] \in c.only

\* Why a listing that chooses does without an item.
Excused(c, x) ==
    /\ c.fn \in Choosing
    /\ Name[x] \notin c.only \/ Full(c) \/ \E j \in ToSet(c.got) : Name[j] = Name[x]

\* Of the first n items those that are wanted and were there all along are taken, have
\* come forward, or are done without.
Accounted(c, l, h, n) ==
    \A i \in 1..Len(l) :
        i <= n /\ l[i] \in h.steady \cap Wanted(c) =>
            l[i] \in ToSet(c.got) \/ (l[i] \in h.displaced /\ ~c.keyset) \/ Excused(c, l[i])

\* What is taken is among the first n items, unless it has gone back.
Placed(c, l, h, n) == \A i \in 1..Len(l) : l[i] \in ToSet(c.got) \ h.pushed => i <= n

TakenOnce(c, h) == \A a, b \in 1..Len(c.got) : a < b /\ c.got[a] = c.got[b] => c.got[a] \in h.pushed

\* Of two items of a name the second one is taken only if the first has come forward.
FirstTaken(c, l, h) ==
    c.fn \in Choosing =>
        \A i, j \in 1..Len(l) :
            i < j /\ {l[i], l[j]} \subseteq h.steady \cap Accepted
            /\ Name[l[i]] = Name[l[j]] /\ l[j] \in ToSet(c.got)
              => l[i] \in h.displaced

Places(l, n) == {i \in 1..Len(l) : i <= n}

\* The places, up to n, of the first item of each name.
Firsts(c, l, n) ==
    {i \in Places(l, n) : Fits(c, l[i]) /\ \A j \in 1..(i - 1) : Fits(c, l[j]) => Name[l[j]] # Name[l[i]]}

\* What is taken of the first n items of a list that has not changed.
AsOfOneState(c, l, n) ==
    /\ c.fn \in Unfiltered => ToSet(c.got) = {l[i] : i \in Places(l, n)}
    /\ c.fn \in Collecting => ToSet(c.got) = {l[i] : i \in Places(l, n)} \cap Accepted
    /\ c.fn \in Choosing =>
          /\ ToSet(c.got) = {l[i] : i \in Firsts(c, l, n)}
          /\ Len(c.got) = Cardinality(Firsts(c, l, n))
          /\ \A i \in Places(l, n) : Fits(c, l[i]) => \E j \in ToSet(c.got) : Name[j] = Name[l[i]]

GotInv(c, l, h, n) ==
    /\ Accounted(c, l, h, n) /\ Placed(c, l, h, n) /\ TakenOnce(c, h) /\ FirstTaken(c, l, h)
    /\ h.changes = 0 => AsOfOneState(c, l, n) /\ h.pushed = {}

\* Pages are full, but for the last one.
PagesPassed(c, n) == ~c.keyset => c.passed = n * PerPage

SkippedBy(c) == IF c.keyset THEN c.passed ELSE (c.page - 1) * PerPage

\* Of the page the items up to the last place are left.
Looking(c, l, h) ==
    /\ Len(c.items) <= Upto(c, l)
    /\ \A k \in 1..Len(c.items) : c.items[k] = l[Upto(c, l) - Len(c.items) + k]
    /\ PagesPassed(c, c.page)
    /\ c.page <= c.passed + h.changes
    /\ c.next = IF c.passed >= Len(l) THEN 0 ELSE c.page + 1
    /\ GotInv(c, l, h, Upto(c, l) - Len(c.items))

Reading(c, l, h) ==
    /\ c.stage = "reading" /\ c.items = <<>>
    /\ PagesPassed(c, c.page - 1)
    /\ c.page - 1 <= c.passed + h.changes
    /\ GotInv(c, l, h, c.passed)

\* What Chosen says of a call.
ChosenOf(c, l) ==
    {l[i] : i \in {k \in Firsts(c, l, Len(l)) : c.limit = 0 \/ Cardinality(Firsts(c, l, k)) <= c.limit}}

Finished(c, l, h) ==
    /\ c.stage = "done" /\ c.items = <<>>
    /\ Accounted(c, l, h, Len(l)) /\ TakenOnce(c, h) /\ FirstTaken(c, l, h)
    /\ h.changes = 0 =>
          /\ h.pushed = {}
          /\ c.fn \in Unfiltered => ToSet(c.got) = {l[i] : i \in Places(l, Len(l))}
          /\ c.fn \in Collecting => ToSet(c.got) = {l[i] : i \in Places(l, Len(l))} \cap Accepted
          /\ c.fn \in Choosing => ToSet(c.got) = ChosenOf(c, l)

\* What holds of a listing whatever it has read.
Shaped(c, l, h) ==
    /\ c \in ListCall /\ h \in History /\ l \in Lists
    /\ h.steady \subseteq ToSet(l)
    /\ c.limit > 0 => c.fn \in Choosing
    /\ c.keyset => c.fn = "ListRefMostRecentJobs"
    /\ c.page <= Cardinality(Item) + h.changes + 1

ListInv(c, l, h) ==
    /\ Shaped(c, l, h)
    /\ \/ Reading(c, l, h) /\ (c.limit > 0 => Len(c.got) < c.limit)
       \/ c.stage = "taking" /\ c.items # <<>> /\ Looking(c, l, h) /\ (c.limit > 0 => Len(c.got) < c.limit)
       \/ Finished(c, l, h)

\* The smaller of two numbers.
LEMMA MinOfTwo ==
    ASSUME NEW a \in Nat, NEW b \in Nat
    PROVE  Min({a, b}) = IF a <= b THEN a ELSE b
  <1>1. PICK m \in {a, b} : m <= a /\ m <= b
    OBVIOUS
  <1>2. \A y \in {a, b} : m <= y
    BY <1>1
  <1>3. Min({a, b}) \in {a, b} /\ \A y \in {a, b} : Min({a, b}) <= y
    BY <1>1, <1>2, Zenon DEF Min
  <1> QED
    BY <1>3

\* What has been taken does not depend on the page.
Same(c, e) ==
    e.fn = c.fn /\ e.only = c.only /\ e.limit = c.limit /\ e.keyset = c.keyset /\ e.got = c.got

\* What has been got is right for a call that differs in its page only.
LEMMA GotOfSame ==
    ASSUME NEW c, NEW e, NEW l, NEW h, NEW n, NEW m, Same(c, e), Places(l, n) = Places(l, m), GotInv(c, l, h, n)
    PROVE  GotInv(e, l, h, m)
  <1>1. \A i \in 1..Len(l) : i <= n <=> i <= m
    <2>1. \A i \in 1..Len(l) : (i <= n <=> i \in Places(l, n)) /\ (i <= m <=> i \in Places(l, m))
      BY DEF Places
    <2> QED
      BY <2>1
  <1>2. \A x : Fits(e, x) <=> Fits(c, x)
    BY DEF Fits, Same
  <1>3. Firsts(e, l, m) = Firsts(c, l, n)
    BY <1>2 DEF Firsts
  <1>4. Accounted(e, l, h, m)
    BY <1>1 DEF GotInv, Accounted, Same, Excused, Full, Wanted
  <1>5. Placed(e, l, h, m) /\ TakenOnce(e, h)
    BY <1>1 DEF GotInv, Placed, TakenOnce, Same
  <1>6. FirstTaken(e, l, h)
    BY DEF GotInv, FirstTaken, Same
  <1>7. h.changes = 0 => AsOfOneState(e, l, m) /\ h.pushed = {}
    BY <1>2, <1>3 DEF GotInv, AsOfOneState, Same
  <1> QED
    BY <1>4, <1>5, <1>6, <1>7 DEF GotInv

\* Reading a page.
LEMMA ReadLooks ==
    ASSUME NEW c, NEW l, NEW h, Shaped(c, l, h), Reading(c, l, h),
           NEW s, s = SkippedBy(c),
           NEW e,
           e = [c EXCEPT !.items = SubSeq(l, s + 1, Min({s + PerPage, Len(l)})),
                         !.next = IF s + PerPage >= Len(l) THEN 0 ELSE c.page + 1,
                         !.passed = s + PerPage]
    PROVE  Shaped(e, l, h) /\ Looking(e, l, h) /\ Same(c, e)
  <1>1. c \in ListCall /\ h \in History /\ l \in Lists /\ h.changes \in Nat /\ PerPage \in Nat /\ PerPage >= 1
    BY BoundAssumption DEF Shaped, History
  <1>2. /\ c.passed \in Nat /\ c.page \in Nat /\ c.page >= 1 /\ c.keyset \in BOOLEAN /\ c.limit \in Nat
        /\ c.got \in Seq(Item) /\ c.items \in Seq(Item)
    BY <1>1 DEF ListCall
  <1>3. s = c.passed
    BY <1>2 DEF Reading, SkippedBy, PagesPassed
  <1>4. Len(l) \in Nat /\ l \in Seq(Item)
    BY <1>1, ListIsShort, ListFacts
  <1>11. PICK t : t = s + PerPage /\ t \in Nat /\ s \in Nat
    <2>1. s \in Nat
      BY <1>2, <1>3
    <2>2. s + PerPage \in Nat
      BY <2>1, <1>1
    <2> QED
      BY <2>1, <2>2, Zenon
  <1>5. PICK u \in Nat : u = IF t <= Len(l) THEN t ELSE Len(l)
    BY <1>4, <1>11
  <1>6. Min({s + PerPage, Len(l)}) = u
    BY <1>4, <1>5, <1>11, MinOfTwo
  <1>7. PICK p : p = SubSeq(l, s + 1, u)
    OBVIOUS
  <1>8. /\ p \in Seq(Item)
        /\ Len(p) = IF s + 1 <= u THEN u - s ELSE 0
        /\ \A k \in 1..Len(p) : p[k] = l[s + k]
    <2>1. s \in Nat /\ u <= Len(l)
      BY <1>4, <1>5, <1>11
    <2>2. CASE s + 1 <= u
      <3>1. PICK v \in Nat : v = s + 1
        BY <2>1
      <3>2. v \in 1..(Len(l) + 1) /\ u \in (v - 1)..Len(l)
        BY <2>1, <2>2, <3>1, <1>4, <1>5
      <3>3. /\ p \in Seq(Item)
            /\ Len(p) = u - v + 1
            /\ \A i \in 1..(u - v + 1) : p[i] = l[v + i - 1]
        BY <3>1, <3>2, <1>4, <1>7, SubSeqProperties
      <3>4. Len(p) = u - s
        BY <3>3, <3>1, <2>1, <1>5
      <3>5. \A k \in 1..Len(p) : p[k] = l[s + k]
        <4> TAKE k \in 1..Len(p)
        <4>1. k \in Nat /\ k \in 1..(u - v + 1) /\ v + k - 1 = s + k
          BY <3>4, <3>1, <2>1, <1>5
        <4> QED
          BY <4>1, <3>3
      <3> QED
        BY <3>3, <3>4, <3>5, <2>2, <1>7
    <2>3. CASE ~(s + 1 <= u)
      <3>1. p = << >>
        BY <2>1, <2>3, <1>4, <1>5, <1>7
      <3> QED
        BY <3>1, <2>3
    <2> QED
      BY <2>2, <2>3
  <1>9. PICK x \in Nat : x = IF s + PerPage >= Len(l) THEN 0 ELSE c.page + 1
    BY <1>1, <1>2, <1>4
  <1>10. e = [c EXCEPT !.items = p, !.next = x, !.passed = s + PerPage]
    BY <1>6, <1>7, <1>9
  <1>12. e \in ListCall
    BY <1>1, <1>8, <1>9, <1>10, <1>11 DEF ListCall
  <1>13. /\ Same(c, e) /\ e.page = c.page /\ e.stage = c.stage
         /\ e.items = p /\ e.next = x /\ e.passed = s + PerPage
    BY <1>1, <1>10 DEF ListCall, Same
  <1>14. Shaped(e, l, h)
    BY <1>12, <1>13 DEF Shaped, Same
  <1>15. Upto(e, l) = u
    BY <1>13, <1>5, <1>11 DEF Upto
  <1>16. PICK n \in Nat : n = u - Len(p)
    BY <1>8, <1>5, <1>11
  <1>17. n = IF s <= Len(l) THEN s ELSE Len(l)
    BY <1>16, <1>8, <1>5, <1>11, <1>4, <1>1
  <1>18. GotInv(c, l, h, s)
    BY <1>3 DEF Reading
  <1>19. Places(l, s) = Places(l, n)
    BY <1>17, <1>3, <1>2, <1>4 DEF Places
  <1>20. GotInv(e, l, h, n)
    BY <1>13, <1>18, <1>19, GotOfSame
  <1>21. Len(e.items) <= Upto(e, l) /\ Upto(e, l) - Len(e.items) = n
    <2>1. Len(p) \in Nat /\ Len(p) <= u
      BY <1>8, <1>5, <1>11
    <2> QED
      BY <2>1, <1>13, <1>15, <1>16
  <1>22. \A k \in 1..Len(e.items) : e.items[k] = l[Upto(e, l) - Len(e.items) + k]
    <2> SUFFICES ASSUME NEW k \in 1..Len(p)
                 PROVE  p[k] = l[n + k]
      BY <1>13, <1>21
    <2>1. n = s
      BY <1>8, <1>16, <1>5, <1>11
    <2> QED
      BY <2>1, <1>8
  <1>23. PagesPassed(e, e.page)
    <2>1. ~c.keyset => s = (c.page - 1) * PerPage
      BY DEF SkippedBy
    <2>2. (c.page - 1) * PerPage + PerPage = c.page * PerPage
      BY <1>1, <1>2
    <2> QED
      BY <2>1, <2>2, <1>13 DEF Same, PagesPassed
  <1>24. e.page <= e.passed + h.changes
    BY <1>1, <1>2, <1>3, <1>13 DEF Reading
  <1>25. e.next = IF e.passed >= Len(l) THEN 0 ELSE e.page + 1
    BY <1>9, <1>13
  <1> QED
    BY <1>13, <1>14, <1>20, <1>21, <1>22, <1>23, <1>24, <1>25 DEF Looking

-----------------------------------------------------------------------------
\* Taking an item.

\* Nothing of its name has been taken.
IsFree(c, x) == Fits(c, x) /\ \A j \in ToSet(c.got) : Name[j] # Name[x]

\* What an item leaves of what is taken: it is taken, or it is left out.
TakenOr(c, x, got) ==
    \/ /\ got = Append(c.got, x)
       /\ c.fn \in Collecting => x \in Accepted
       /\ c.fn \in Choosing => IsFree(c, x)
    \/ /\ got = c.got
       /\ c.fn \notin Unfiltered
       /\ c.fn \in Collecting => x \notin Accepted \/ x \in ToSet(c.got)
       /\ c.fn \in Choosing => ~IsFree(c, x)

\* The call with other items left of the page and other items taken.
Holding(c, items, got) == [c EXCEPT !.items = items, !.got = got]

\* A listing is of one of the three sorts.
LEMMA FunctionsDiffer ==
    \A fn : /\ fn \in Choosing => fn \notin Collecting /\ fn \notin Unfiltered
            /\ fn \in Collecting => fn \notin Unfiltered
  BY DEF Choosing, Collecting, Unfiltered

\* One place more.
LEMMA NextPlace ==
    ASSUME NEW l \in Lists, NEW n \in Nat, n + 1 \in 1..Len(l)
    PROVE  /\ Places(l, n + 1) = Places(l, n) \cup {n + 1}
           /\ \A i \in Places(l, n) : i \in 1..Len(l) /\ i <= n /\ i # n + 1
           /\ \A i \in 1..Len(l) : l[i] = l[n + 1] => i = n + 1
           /\ \A i \in 1..Len(l) : i <= n + 1 <=> i <= n \/ i = n + 1
  <1>1. Len(l) \in Nat /\ \A i, j \in 1..Len(l) : l[i] = l[j] => i = j
    BY ListFacts, ListIsShort
  <1>2. \A i \in 1..Len(l) : i <= n + 1 <=> i <= n \/ i = n + 1
    BY <1>1
  <1>3. Places(l, n + 1) = Places(l, n) \cup {n + 1}
    BY <1>2 DEF Places
  <1>4. \A i \in Places(l, n) : i \in 1..Len(l) /\ i <= n /\ i # n + 1
    BY <1>1 DEF Places
  <1> QED
    BY <1>1, <1>2, <1>3, <1>4

\* The first of a name up to the next place: one more if nobody before it had its name.
LEMMA NextFirst ==
    ASSUME NEW c, NEW l \in Lists, NEW n \in Nat, n + 1 \in 1..Len(l),
           ToSet(c.got) = {l[i] : i \in Firsts(c, l, n)},
           \A i \in Places(l, n) : Fits(c, l[i]) => \E j \in ToSet(c.got) : Name[j] = Name[l[i]]
    PROVE  Firsts(c, l, n + 1) =
             IF IsFree(c, l[n + 1])
             THEN Firsts(c, l, n) \cup {n + 1} ELSE Firsts(c, l, n)
  <1> DEFINE New(i) == Fits(c, l[i]) /\ \A j \in 1..(i - 1) : Fits(c, l[j]) => Name[l[j]] # Name[l[i]]
             Free == Fits(c, l[n + 1]) /\ \A j \in ToSet(c.got) : Name[j] # Name[l[n + 1]]
  <1>1. \A m : Firsts(c, l, m) = {i \in Places(l, m) : New(i)}
    BY DEF Firsts
  <1>2. New(n + 1) <=> Free
    <2>1. ASSUME New(n + 1), NEW j \in ToSet(c.got), Name[j] = Name[l[n + 1]]
          PROVE  FALSE
      <3>1. PICK i \in Firsts(c, l, n) : j = l[i]
        BY <2>1
      <3>2. i \in Places(l, n) /\ Fits(c, l[i])
        BY <3>1 DEF Firsts
      <3>3. i \in 1..(n + 1 - 1)
        BY <3>2 DEF Places
      <3> QED
        BY <2>1, <3>1, <3>2, <3>3
    <2>2. ASSUME Free, NEW j \in 1..(n + 1 - 1), Fits(c, l[j]), Name[l[j]] = Name[l[n + 1]]
          PROVE  FALSE
      <3>1. j \in Places(l, n)
        BY <2>2, ListIsShort DEF Places
      <3> QED
        BY <3>1, <2>2
    <2> QED
      BY <2>1, <2>2
  <1>3. Places(l, n + 1) = Places(l, n) \cup {n + 1}
    BY NextPlace
  <1> HIDE DEF New, Free
  <1>4. Firsts(c, l, n + 1) = IF Free THEN Firsts(c, l, n) \cup {n + 1} ELSE Firsts(c, l, n)
    <2>1. PICK P : P = Places(l, n)
      OBVIOUS
    <2>2. Firsts(c, l, n) = {i \in P : New(i)} /\ Firsts(c, l, n + 1) = {i \in P \cup {n + 1} : New(i)}
      BY <1>1, <1>3, <2>1
    <2>3. CASE Free
      BY <2>2, <2>3, <1>2
    <2>4. CASE ~Free
      BY <2>2, <2>4, <1>2
    <2> QED
      BY <2>3, <2>4
  <1> QED
    BY <1>4 DEF Free, IsFree

\* The first items of each name are finitely many.
LEMMA FirstsAreFew ==
    ASSUME NEW c, NEW l \in Lists, NEW n
    PROVE  /\ IsFiniteSet(Firsts(c, l, n)) /\ Cardinality(Firsts(c, l, n)) \in Nat
           /\ Firsts(c, l, n) \subseteq Places(l, n) /\ Firsts(c, l, n) \subseteq 1..Len(l)
  <1>1. Firsts(c, l, n) \subseteq Places(l, n) /\ Firsts(c, l, n) \subseteq 1..Len(l)
    BY DEF Firsts, Places
  <1>2. IsFiniteSet(1..Len(l))
    BY ListIsShort, FS_Interval
  <1> QED
    BY <1>1, <1>2, FS_Subset, FS_CardinalityType

\* What Appended says, of the sequence itself.
LEMMA ToSetOfAppend ==
    ASSUME NEW S, NEW s \in Seq(S), NEW x \in S
    PROVE  /\ ToSet(Append(s, x)) = ToSet(s) \cup {x}
           /\ Append(s, x) \in Seq(S) /\ Len(Append(s, x)) = Len(s) + 1
           /\ \A i \in 1..Len(s) : Append(s, x)[i] = s[i]
           /\ Append(s, x)[Len(s) + 1] = x
  BY Appended

\* One item more is looked at.
LEMMA TakenIsRight ==
    ASSUME NEW c, NEW l, NEW h, Shaped(c, l, h), ~Full(c),
           NEW n \in Nat, n + 1 \in 1..Len(l), GotInv(c, l, h, n),
           NEW g, TakenOr(c, l[n + 1], g),
           NEW e, e.fn = c.fn, e.only = c.only, e.limit = c.limit, e.keyset = c.keyset, e.got = g
    PROVE  GotInv(e, l, h, n + 1)
  <1> DEFINE takes == g = Append(c.got, l[n + 1])
  <1>1. /\ c \in ListCall /\ c.got \in Seq(Item) /\ c.fn \in Collecting \cup Unfiltered \cup Choosing
        /\ l \in Lists
    BY DEF Shaped, ListCall
  <1>2. /\ l \in Seq(Item) /\ Len(l) \in Nat /\ \A i, j \in 1..Len(l) : l[i] = l[j] => i = j
        /\ n + 1 \in 1..Len(l)
    BY <1>1, ListFacts, ListIsShort
  <1>3. PICK x \in Item : x = l[n + 1]
    BY <1>2
  <1>4. e.got = g /\ (takes \/ g = c.got)
    BY DEF TakenOr
  <1>5. /\ ToSet(g) = IF takes THEN ToSet(c.got) \cup {x} ELSE ToSet(c.got)
        /\ Len(g) = IF takes THEN Len(c.got) + 1 ELSE Len(c.got)
        /\ \A i \in 1..Len(c.got) : g[i] = c.got[i]
        /\ takes => g[Len(c.got) + 1] = x
        /\ Len(c.got) \in Nat
    <2>1. Len(c.got) \in Nat
      BY <1>1
    <2>2. CASE takes
      <3>1. g = Append(c.got, x)
        BY <2>2, <1>3, <1>4
      <3> QED
        BY <2>1, <2>2, <3>1, <1>1, ToSetOfAppend
    <2>3. CASE ~takes
      <3>1. g = c.got
        BY <2>3, <1>4
      <3> QED
        BY <2>1, <2>3, <3>1
    <2> QED
      BY <2>2, <2>3, <1>1
  <1>6. /\ c.fn \in Unfiltered => takes
        /\ c.fn \in Collecting => (takes => x \in Accepted) /\ (x \in Accepted /\ ~takes => x \in ToSet(c.got))
        /\ c.fn \in Choosing => (takes <=> IsFree(c, x))
    <2>1. c.got # Append(c.got, x)
      BY <1>1, <1>3, ToSetOfAppend
    <2> QED
      BY <2>1, <1>3 DEF TakenOr
  <1>7. \A y : Fits(e, y) <=> Fits(c, y)
    BY DEF Fits
  <1>8. \A i \in 1..Len(l) : i <= n + 1 <=> i <= n \/ i = n + 1
    BY <1>2
  <1>9. \A i \in 1..Len(l) : l[i] = x => i = n + 1
    BY <1>2, <1>3
  <1>10. Accounted(c, l, h, n) /\ Placed(c, l, h, n) /\ TakenOnce(c, h) /\ FirstTaken(c, l, h)
    BY DEF GotInv
  <1>11. ToSet(c.got) \subseteq ToSet(g)
    BY <1>5
  <1>12. Accounted(e, l, h, n + 1)
    <2> SUFFICES ASSUME NEW i \in 1..Len(l), i <= n + 1, l[i] \in h.steady \cap Wanted(c)
                 PROVE  l[i] \in ToSet(g) \/ (l[i] \in h.displaced /\ ~c.keyset) \/ Excused(e, l[i])
      BY <1>4 DEF Accounted, Wanted
    <2>1. CASE i <= n
      <3>1. l[i] \in ToSet(c.got) \/ (l[i] \in h.displaced /\ ~c.keyset) \/ Excused(c, l[i])
        BY <2>1, <1>10 DEF Accounted
      <3>2. Excused(c, l[i]) => Excused(e, l[i])
        BY <1>4, <1>11 DEF Excused, Full
      <3> QED
        BY <3>1, <3>2, <1>11
    <2>2. CASE i = n + 1
      <3>1. l[i] = x
        BY <2>2, <1>3
      <3>2. CASE takes
        BY <3>1, <3>2, <1>5
      <3>3. CASE ~takes /\ c.fn \in Unfiltered
        BY <3>3, <1>6
      <3>4. CASE ~takes /\ c.fn \in Collecting
        <4>1. x \in Accepted
          BY <3>1, <3>4, FunctionsDiffer DEF Wanted
        <4> QED
          BY <4>1, <3>1, <3>4, <1>6, <1>5
      <3>5. CASE ~takes /\ c.fn \in Choosing
        <4>1. x \in Accepted
          BY <3>1, <3>5, FunctionsDiffer DEF Wanted
        <4>2. g = c.got
          BY <3>5, <1>4
        <4>3. Name[x] \notin c.only \/ \E j \in ToSet(c.got) : Name[j] = Name[x]
          BY <4>1, <3>5, <1>6 DEF Fits, IsFree
        <4> QED
          BY <4>2, <4>3, <3>1, <3>5, <1>4 DEF Excused
      <3> QED
        BY <3>2, <3>3, <3>4, <3>5, <1>1
    <2> QED
      BY <2>1, <2>2, <1>8
  <1>13. Placed(e, l, h, n + 1)
    <2> SUFFICES ASSUME NEW i \in 1..Len(l), l[i] \in ToSet(g) \ h.pushed
                 PROVE  i <= n + 1
      BY <1>4 DEF Placed
    <2>1. CASE l[i] = x
      BY <2>1, <1>9, <1>2
    <2>2. CASE l[i] # x
      <3>1. l[i] \in ToSet(c.got) \ h.pushed
        BY <2>2, <1>5
      <3>2. i <= n
        BY <3>1, <1>10 DEF Placed
      <3> QED
        BY <3>2, <1>8
    <2> QED
      BY <2>1, <2>2
  <1>14. TakenOnce(e, h)
    <2> SUFFICES ASSUME NEW a \in 1..Len(g), NEW b \in 1..Len(g), a < b, g[a] = g[b]
                 PROVE  g[a] \in h.pushed
      BY <1>4 DEF TakenOnce
    <2>1. CASE b \in 1..Len(c.got)
      <3>1. a \in 1..Len(c.got)
        BY <2>1, <1>2, <1>3, <1>5
      <3> QED
        BY <3>1, <2>1, <1>5, <1>10 DEF TakenOnce
    <2>2. CASE b \notin 1..Len(c.got)
      <3>1. takes /\ b = Len(c.got) + 1 /\ a \in 1..Len(c.got)
        BY <2>2, <1>5, <1>1
      <3>2. g[b] = x /\ c.got[a] = x
        BY <3>1, <1>5
      <3>3. x \in ToSet(c.got)
        BY <3>1, <3>2, <1>1, Elements
      <3>4. ~(n + 1 <= n)
        OBVIOUS
      <3>5. x \in h.pushed
        BY <3>3, <3>4, <1>10, <1>3 DEF Placed
      <3> QED
        BY <3>1, <3>2, <3>5, <1>5
    <2> QED
      BY <2>1, <2>2
  <1>15. FirstTaken(e, l, h)
    <2> SUFFICES ASSUME c.fn \in Choosing, NEW i \in 1..Len(l), NEW j \in 1..Len(l), i < j,
                        {l[i], l[j]} \subseteq h.steady \cap Accepted, Name[l[i]] = Name[l[j]],
                        l[j] \in ToSet(g)
                 PROVE  l[i] \in h.displaced
      BY <1>4 DEF FirstTaken
    <2>1. CASE l[j] \in ToSet(c.got)
      BY <2>1, <1>10 DEF FirstTaken
    <2>2. CASE l[j] \notin ToSet(c.got)
      <3>1. takes /\ l[j] = x /\ j = n + 1
        BY <2>2, <1>5, <1>9
      <3>2. i <= n
        BY <3>1
      <3>3. Fits(c, x) /\ \A k \in ToSet(c.got) : Name[k] # Name[x]
        BY <3>1, <1>6 DEF IsFree
      <3>4. l[i] \in h.steady \cap Wanted(c)
        BY FunctionsDiffer DEF Wanted
      <3>5. l[i] \in ToSet(c.got) \/ l[i] \in h.displaced \/ Excused(c, l[i])
        BY <3>2, <3>4, <1>10 DEF Accounted
      <3>6. l[i] \notin ToSet(c.got)
        BY <3>1, <3>3
      <3>7. ~Excused(c, l[i])
        BY <3>1, <3>3 DEF Excused, Fits
      <3> QED
        BY <3>5, <3>6, <3>7
    <2> QED
      BY <2>1, <2>2
  <1>16. ASSUME h.changes = 0
         PROVE  AsOfOneState(e, l, n + 1) /\ h.pushed = {}
    <2>1. AsOfOneState(c, l, n) /\ h.pushed = {}
      BY <1>16 DEF GotInv
    <2>2. Places(l, n + 1) = Places(l, n) \cup {n + 1}
      BY <1>1, NextPlace
    <2>3. {l[i] : i \in Places(l, n + 1)} = {l[i] : i \in Places(l, n)} \cup {x}
      BY <2>2, <1>3
    <2>4. c.fn \in Unfiltered => ToSet(g) = {l[i] : i \in Places(l, n + 1)}
      BY <2>1, <2>3, <1>5, <1>6 DEF AsOfOneState
    <2>5. c.fn \in Collecting => ToSet(g) = {l[i] : i \in Places(l, n + 1)} \cap Accepted
      <3> SUFFICES ASSUME c.fn \in Collecting
                   PROVE  ToSet(g) = {l[i] : i \in Places(l, n + 1)} \cap Accepted
        OBVIOUS
      <3>1. ToSet(c.got) = {l[i] : i \in Places(l, n)} \cap Accepted
        BY <2>1 DEF AsOfOneState
      <3>2. (takes => x \in Accepted) /\ (x \in Accepted /\ ~takes => x \in ToSet(c.got))
        BY <1>6
      <3>3. PICK A : A = {l[i] : i \in Places(l, n)}
        OBVIOUS
      <3> QED
        BY <3>1, <3>2, <3>3, <2>3, <1>5, <1>1
    <2>6. ASSUME c.fn \in Choosing
          PROVE  /\ ToSet(g) = {l[i] : i \in Firsts(c, l, n + 1)}
                 /\ Len(g) = Cardinality(Firsts(c, l, n + 1))
                 /\ \A i \in Places(l, n + 1) : Fits(c, l[i]) => \E j \in ToSet(g) : Name[j] = Name[l[i]]
      <3>1. /\ ToSet(c.got) = {l[i] : i \in Firsts(c, l, n)}
            /\ Len(c.got) = Cardinality(Firsts(c, l, n))
            /\ \A i \in Places(l, n) : Fits(c, l[i]) => \E j \in ToSet(c.got) : Name[j] = Name[l[i]]
        BY <2>1, <2>6 DEF AsOfOneState
      <3>2. takes <=> IsFree(c, x)
        BY <2>6, <1>6
      <3>3. Firsts(c, l, n + 1) = IF takes THEN Firsts(c, l, n) \cup {n + 1} ELSE Firsts(c, l, n)
        <4>1. Firsts(c, l, n + 1) =
                IF IsFree(c, l[n + 1])
                THEN Firsts(c, l, n) \cup {n + 1} ELSE Firsts(c, l, n)
          BY <3>1, <1>1, NextFirst
        <4> QED
          BY <4>1, <3>2, <1>3
      <3>4. PICK F : F = Firsts(c, l, n)
        OBVIOUS
      <3>5. IsFiniteSet(F) /\ F \subseteq Places(l, n) /\ n + 1 \notin F
        BY <3>4, <1>1, FirstsAreFew, NextPlace
      <3>6. CASE takes
        <4>1. Cardinality(F \cup {n + 1}) = Cardinality(F) + 1
          BY <3>5, FS_AddElement
        <4>2. ToSet(g) = {l[i] : i \in F \cup {n + 1}}
          BY <3>1, <3>4, <3>6, <1>5, <1>3
        <4>3. \A i \in Places(l, n + 1) : Fits(c, l[i]) => \E j \in ToSet(g) : Name[j] = Name[l[i]]
          BY <2>2, <3>1, <3>6, <1>5, <1>3, <1>11
        <4> QED
          BY <4>1, <4>2, <4>3, <3>1, <3>3, <3>4, <3>6, <1>5
      <3>7. CASE ~takes
        <4>1. \A i \in Places(l, n + 1) : Fits(c, l[i]) => \E j \in ToSet(g) : Name[j] = Name[l[i]]
          BY <2>2, <3>1, <3>2, <3>7, <1>5, <1>3 DEF IsFree
        <4> QED
          BY <4>1, <3>1, <3>3, <3>7, <1>5
      <3> QED
        BY <3>6, <3>7, <1>1
    <2>7. Firsts(e, l, n + 1) = Firsts(c, l, n + 1)
      BY <1>7 DEF Firsts
    <2> QED
      BY <2>1, <2>4, <2>5, <2>6, <2>7, <1>4, <1>7 DEF AsOfOneState
  <1> QED
    BY <1>12, <1>13, <1>14, <1>15, <1>16 DEF GotInv

\* The page with an item less.
LEMMA TakeLooks ==
    ASSUME NEW c, NEW l, NEW h, Shaped(c, l, h), Looking(c, l, h), c.items # <<>>,
           c.limit > 0 => Len(c.got) < c.limit,
           NEW got, TakenOr(c, Head(c.items), got),
           NEW e, e = Holding(c, Tail(c.items), got)
    PROVE  Shaped(e, l, h) /\ Looking(e, l, h) /\ (e.limit > 0 => Len(e.got) <= e.limit)
  <1>1. /\ c \in ListCall /\ c.got \in Seq(Item) /\ c.items \in Seq(Item) /\ l \in Lists
        /\ c.limit \in Nat /\ Len(c.got) \in Nat /\ Len(l) \in Nat /\ c.passed \in Nat
    BY ListIsShort DEF Shaped, ListCall
  <1>2. PICK u : u \in Nat /\ u = Upto(c, l) /\ u <= Len(l)
    <2>1. Upto(c, l) \in Nat /\ Upto(c, l) <= Len(l)
      BY <1>1 DEF Upto
    <2> QED
      BY <2>1, Zenon
  <1>3. PICK k : k \in Nat /\ k = Len(c.items) /\ k > 0
    BY <1>1, EmptySeq, LenProperties
  <1>4. k <= u /\ \A i \in 1..k : c.items[i] = l[u - k + i]
    BY <1>2, <1>3 DEF Looking
  <1>5. PICK n : n \in Nat /\ n = u - k
    <2>1. u - k \in Nat
      BY <1>2, <1>3, <1>4
    <2> QED
      BY <2>1, Zenon
  <1>6. n + 1 \in 1..Len(l)
    BY <1>1, <1>2, <1>3, <1>4, <1>5
  <1>7. PICK x \in Item : x = Head(c.items) /\ x = l[n + 1]
    <2>1. Head(c.items) = c.items[1] /\ Head(c.items) \in Item
      BY <1>1, <1>3, HeadTailProperties
    <2>2. c.items[1] = l[n + 1]
      BY <1>2, <1>3, <1>4, <1>5
    <2> QED
      BY <2>1, <2>2
  <1>8. PICK t : t = Tail(c.items) /\ t \in Seq(Item) /\ Len(t) = k - 1 /\ \A i \in 1..Len(t) : t[i] = c.items[i + 1]
    BY <1>1, <1>3, HeadTailProperties
  <1>9. got \in Seq(Item) /\ Len(got) \in Nat /\ Len(got) <= Len(c.got) + 1
    <2>1. Append(c.got, x) \in Seq(Item) /\ Len(Append(c.got, x)) \in Nat /\ Len(Append(c.got, x)) <= Len(c.got) + 1
      BY <1>1, ToSetOfAppend
    <2>2. c.got \in Seq(Item) /\ Len(c.got) \in Nat /\ Len(c.got) <= Len(c.got) + 1
      BY <1>1
    <2>3. got = Append(c.got, x) \/ got = c.got
      BY <1>7 DEF TakenOr
    <2> QED
      BY <2>1, <2>2, <2>3, Zenon
  <1>10. e = [c EXCEPT !.items = t, !.got = got]
    BY <1>8 DEF Holding
  <1>11. e \in ListCall
    BY <1>1, <1>8, <1>9, <1>10 DEF ListCall
  <1>12. /\ e.items = t /\ e.got = got /\ e.fn = c.fn /\ e.only = c.only /\ e.limit = c.limit
         /\ e.keyset = c.keyset /\ e.page = c.page /\ e.passed = c.passed /\ e.next = c.next
    BY <1>1, <1>10 DEF ListCall
  <1>13. Shaped(e, l, h)
    BY <1>11, <1>12 DEF Shaped
  <1>14. e.limit > 0 => Len(e.got) <= e.limit
    BY <1>1, <1>9, <1>12
  <1>15. ~Full(c)
    BY <1>1 DEF Full
  <1>16. GotInv(c, l, h, n)
    BY <1>2, <1>3, <1>5 DEF Looking
  <1>17. TakenOr(c, l[n + 1], got)
    BY <1>7
  <1>19. GotInv(e, l, h, n + 1)
    BY <1>5, <1>6, <1>12, <1>15, <1>16, <1>17, TakenIsRight
  <1>20. Upto(e, l) = u
    BY <1>2, <1>12 DEF Upto
  <1>21. Len(e.items) <= u /\ u - Len(e.items) = n + 1
    <2>1. Len(e.items) = k - 1
      BY <1>8, <1>12
    <2>2. k <= u
      BY <1>4
    <2>3. k - 1 <= u /\ u - (k - 1) = n + 1
      BY <2>2, <1>2, <1>3, <1>5
    <2> QED
      BY <2>1, <2>3
  <1>22. \A i \in 1..Len(e.items) : e.items[i] = l[u - Len(e.items) + i]
    <2> SUFFICES ASSUME NEW i \in 1..Len(t)
                 PROVE  t[i] = l[n + 1 + i]
      BY <1>12, <1>21
    <2>1. i \in 1..(k - 1)
      BY <1>8
    <2>2. i + 1 \in 1..k /\ u - k + (i + 1) = n + 1 + i
      BY <2>1, <1>2, <1>3, <1>5
    <2> QED
      BY <2>2, <1>4, <1>8
  <1>23. PagesPassed(e, e.page)
    BY <1>12 DEF Looking, PagesPassed
  <1> QED
    BY <1>12, <1>13, <1>14, <1>19, <1>20, <1>21, <1>22, <1>23 DEF Looking

-----------------------------------------------------------------------------
\* The end of a page.

\* The firsts up to a place are those of the list up to there.
LEMMA FirstsGrow ==
    ASSUME NEW c, NEW l \in Lists, NEW n
    PROVE  Firsts(c, l, n) = {i \in Firsts(c, l, Len(l)) : i <= n}
  <1>1. \A i \in 1..Len(l) : i <= Len(l)
    BY ListIsShort
  <1>2. Places(l, Len(l)) = 1..Len(l)
    BY <1>1 DEF Places
  <1>3. Places(l, n) = {i \in Places(l, Len(l)) : i <= n}
    BY <1>2 DEF Places
  <1> DEFINE New(i) == Fits(c, l[i]) /\ \A j \in 1..(i - 1) : Fits(c, l[j]) => Name[l[j]] # Name[l[i]]
  <1>4. \A m : Firsts(c, l, m) = {i \in Places(l, m) : New(i)}
    BY DEF Firsts
  <1> HIDE DEF New
  <1> QED
    BY <1>3, <1>4

\* As many as asked for: those of the first n items.
LEMMA ChosenIfFull ==
    ASSUME NEW c, NEW l \in Lists, NEW n \in Nat, c.limit \in Nat, c.limit > 0,
           ToSet(c.got) = {l[i] : i \in Firsts(c, l, n)},
           Cardinality(Firsts(c, l, n)) = c.limit
    PROVE  ToSet(c.got) = ChosenOf(c, l)
  <1>1. PICK A : A = Firsts(c, l, Len(l))
    OBVIOUS
  <1>2. \A m : Firsts(c, l, m) = {i \in A : i <= m}
    BY <1>1, FirstsGrow
  <1>3. A \subseteq 1..Len(l) /\ Len(l) \in Nat
    BY <1>1, FirstsAreFew, ListIsShort
  <1>4. \A m : IsFiniteSet(Firsts(c, l, m)) /\ Cardinality(Firsts(c, l, m)) \in Nat
    BY FirstsAreFew
  <1>5. ASSUME NEW k \in A
        PROVE  Cardinality(Firsts(c, l, k)) <= c.limit <=> k \in Firsts(c, l, n)
    <2>1. k \in Nat
      BY <1>3
    <2>2. CASE k <= n
      <3> \A i \in A : i <= k => i <= n
        BY <2>1, <2>2, <1>3
      <3>1. Firsts(c, l, k) \subseteq Firsts(c, l, n)
        BY <1>2
      <3>2. Cardinality(Firsts(c, l, k)) <= Cardinality(Firsts(c, l, n))
        BY <3>1, <1>4, FS_Subset
      <3>3. k \in Firsts(c, l, n)
        BY <2>2, <1>2
      <3> QED
        BY <3>2, <3>3
    <2>3. CASE ~(k <= n)
      <3>1. k \notin Firsts(c, l, n)
        BY <2>3, <1>2
      <3> \A i \in A : i <= n => i <= k
        BY <2>1, <2>3, <1>3
      <3> k <= k
        BY <2>1
      <3>2. Firsts(c, l, n) \cup {k} \subseteq Firsts(c, l, k)
        BY <1>2
      <3>3. Cardinality(Firsts(c, l, n) \cup {k}) = c.limit + 1
        BY <3>1, <1>4, FS_AddElement
      <3>4. Cardinality(Firsts(c, l, n) \cup {k}) <= Cardinality(Firsts(c, l, k))
        BY <3>2, <1>4, FS_Subset
      <3>5. Cardinality(Firsts(c, l, k)) \in Nat
        BY <1>4
      <3>6. ~(Cardinality(Firsts(c, l, k)) <= c.limit)
        BY <3>3, <3>4, <3>5
      <3> QED
        BY <3>1, <3>6
    <2> QED
      BY <2>2, <2>3
  <1>6. Firsts(c, l, n) \subseteq A
    BY <1>2
  <1>7. {k \in Firsts(c, l, Len(l)) : c.limit = 0 \/ Cardinality(Firsts(c, l, k)) <= c.limit} = Firsts(c, l, n)
    <2>1. \A k \in A : (c.limit = 0 \/ Cardinality(Firsts(c, l, k)) <= c.limit) <=> k \in Firsts(c, l, n)
      BY <1>5
    <2> QED
      BY <2>1, <1>1, <1>6
  <1>8. ChosenOf(c, l) = {l[i] : i \in Firsts(c, l, n)}
    BY <1>7, Zenon DEF ChosenOf
  <1> QED
    BY <1>8

\* No more than asked for: those of the whole list.
LEMMA ChosenAtEnd ==
    ASSUME NEW c, NEW l \in Lists, c.limit \in Nat,
           ToSet(c.got) = {l[i] : i \in Firsts(c, l, Len(l))},
           c.limit > 0 => Cardinality(Firsts(c, l, Len(l))) <= c.limit
    PROVE  ToSet(c.got) = ChosenOf(c, l)
  <1>1. PICK A : A = Firsts(c, l, Len(l))
    OBVIOUS
  <1>2. ASSUME NEW k \in A
        PROVE  c.limit = 0 \/ Cardinality(Firsts(c, l, k)) <= c.limit
    <2>1. Firsts(c, l, k) \subseteq A
      BY <1>1, FirstsGrow
    <2>2. IsFiniteSet(A) /\ Cardinality(A) \in Nat /\ Cardinality(Firsts(c, l, k)) \in Nat
      BY <1>1, FirstsAreFew
    <2>3. Cardinality(Firsts(c, l, k)) <= Cardinality(A)
      BY <2>1, <2>2, FS_Subset
    <2> QED
      BY <2>2, <2>3, <1>1
  <1>3. {k \in A : c.limit = 0 \/ Cardinality(Firsts(c, l, k)) <= c.limit} = A
    BY <1>2
  <1>4. ChosenOf(c, l) = {l[i] : i \in A}
    BY <1>1, <1>3, Zenon DEF ChosenOf
  <1> QED
    BY <1>1, <1>4

\* What is to be chosen does not depend on the page.
LEMMA ChosenOfSame ==
    ASSUME NEW c, NEW e, NEW l, Same(c, e)
    PROVE  ChosenOf(e, l) = ChosenOf(c, l)
  <1>1. \A x : Fits(e, x) <=> Fits(c, x)
    BY DEF Fits, Same
  <1>2. \A n : Firsts(e, l, n) = Firsts(c, l, n)
    BY <1>1 DEF Firsts
  <1> QED
    BY <1>2 DEF ChosenOf, Same

\* A listing that ends with as many items as asked for, or with the list.
LEMMA EndIsFinished ==
    ASSUME NEW c, NEW l, NEW h, Shaped(c, l, h),
           NEW n \in Nat, n <= Len(l), GotInv(c, l, h, n),
           Full(c) \/ (n = Len(l) /\ (c.limit > 0 => Len(c.got) <= c.limit)),
           NEW e, Same(c, e), e.stage = "done", e.items = <<>>
    PROVE  Finished(e, l, h)
  <1>1. c \in ListCall /\ l \in Lists /\ c.limit \in Nat /\ Len(c.got) \in Nat /\ Len(l) \in Nat
    BY ListIsShort DEF Shaped, ListCall
  <1>2. Accounted(c, l, h, n) /\ TakenOnce(c, h) /\ FirstTaken(c, l, h)
    BY DEF GotInv
  <1>3. Accounted(c, l, h, Len(l))
    <2>1. CASE Full(c)
      BY <2>1 DEF Accounted, Excused, Full, Shaped
    <2>2. CASE ~Full(c)
      BY <2>2, <1>2
    <2> QED
      BY <2>1, <2>2
  <1>4. Accounted(e, l, h, Len(l)) /\ TakenOnce(e, h) /\ FirstTaken(e, l, h)
    <2>1. Accounted(e, l, h, Len(l))
      BY <1>3 DEF Accounted, Same, Excused, Full, Wanted
    <2>2. TakenOnce(e, h) /\ FirstTaken(e, l, h)
      BY <1>2 DEF TakenOnce, FirstTaken, Same
    <2> QED
      BY <2>1, <2>2
  <1>5. ASSUME h.changes = 0
        PROVE  /\ h.pushed = {}
               /\ c.fn \in Unfiltered => ToSet(c.got) = {l[i] : i \in Places(l, Len(l))}
               /\ c.fn \in Collecting => ToSet(c.got) = {l[i] : i \in Places(l, Len(l))} \cap Accepted
               /\ c.fn \in Choosing => ToSet(c.got) = ChosenOf(c, l)
    <2>1. AsOfOneState(c, l, n) /\ h.pushed = {}
      BY <1>5 DEF GotInv
    <2>2. CASE c.fn \in Choosing
      <3>1. ToSet(c.got) = {l[i] : i \in Firsts(c, l, n)} /\ Len(c.got) = Cardinality(Firsts(c, l, n))
        BY <2>1, <2>2 DEF AsOfOneState
      <3>2. ToSet(c.got) = ChosenOf(c, l)
        <4>1. CASE Full(c)
          BY <4>1, <3>1, <1>1, ChosenIfFull DEF Full
        <4>2. CASE ~Full(c)
          <5>1. n = Len(l) /\ (c.limit > 0 => Len(c.got) <= c.limit)
            BY <4>2
          <5> QED
            BY <5>1, <3>1, <1>1, ChosenAtEnd
        <4> QED
          BY <4>1, <4>2
      <3> QED
        BY <2>1, <2>2, <3>2, FunctionsDiffer
    <2>3. CASE c.fn \notin Choosing
      <3>1. ~Full(c)
        BY <2>3 DEF Full, Shaped
      <3> QED
        BY <2>1, <2>3, <3>1 DEF AsOfOneState
    <2> QED
      BY <2>2, <2>3
  <1>6. ChosenOf(e, l) = ChosenOf(c, l)
    BY ChosenOfSame
  <1> QED
    BY <1>4, <1>5, <1>6 DEF Finished, Same

\* Having looked at an item, a listing ends as it should, asks for the next page, or
\* goes on with the page.
LEMMA TurnedKeeps ==
    ASSUME NEW c, NEW l, NEW h, Shaped(c, l, h), Looking(c, l, h),
           c.limit > 0 => Len(c.got) <= c.limit
    PROVE  ListInv(Turned(c), l, h)
  <1>1. /\ c \in ListCall /\ l \in Lists /\ c.limit \in Nat /\ Len(c.got) \in Nat /\ c.items \in Seq(Item)
        /\ Len(l) \in Nat /\ Len(l) <= Cardinality(Item) /\ Cardinality(Item) \in Nat
        /\ c.passed \in Nat /\ c.page \in Nat /\ c.page >= 1 /\ c.next \in Nat
    BY ListIsShort DEF Shaped, ListCall
  <1>2. h.changes \in Nat /\ h \in History
    BY BoundAssumption DEF Shaped, History
  <1>3. PICK n : n \in Nat /\ n <= Len(l) /\ n = Upto(c, l) - Len(c.items) /\ (c.items = <<>> => n = Upto(c, l))
    <2>1. Upto(c, l) \in Nat /\ Upto(c, l) <= Len(l)
      BY <1>1 DEF Upto
    <2>2. Len(c.items) \in Nat /\ (c.items = <<>> => Len(c.items) = 0) /\ Len(c.items) <= Upto(c, l)
      BY <1>1 DEF Looking
    <2>3. Upto(c, l) - Len(c.items) \in Nat /\ Upto(c, l) - Len(c.items) <= Len(l)
      BY <2>1, <2>2, <1>1
    <2>4. c.items = <<>> => Upto(c, l) - Len(c.items) = Upto(c, l)
      BY <2>1, <2>2
    <2> QED
      BY <2>3, <2>4, Zenon
  <1>4. GotInv(c, l, h, n)
    BY <1>3 DEF Looking
  <1>5. c.next = (IF c.passed >= Len(l) THEN 0 ELSE c.page + 1) /\ c.page <= c.passed + h.changes
    BY DEF Looking
  <1>6. <<>> \in Seq(Item)
    OBVIOUS
  <1>7. CASE Full(c) \/ (c.items = <<>> /\ c.page >= c.next)
    <2>1. PICK e : e = [c EXCEPT !.stage = "done", !.items = <<>>]
      OBVIOUS
    <2>2. Turned(c) = e
      BY <2>1, <1>7, Zenon DEF Turned, Full
    <2>3. e \in ListCall
      BY <2>1, <1>1, <1>6 DEF ListCall
    <2>4. Same(c, e) /\ e.stage = "done" /\ e.items = <<>> /\ e.page = c.page
      BY <2>1, <1>1 DEF ListCall, Same
    <2>5. Full(c) \/ n = Len(l)
      <3>1. CASE c.items = <<>> /\ c.page >= c.next
        <4>1. c.passed >= Len(l)
          BY <3>1, <1>5, <1>1
        <4>2. Upto(c, l) = Len(l)
          BY <4>1, <1>1 DEF Upto
        <4> QED
          BY <4>2, <3>1, <1>3
      <3> QED
        BY <3>1, <1>7
    <2>6. Finished(e, l, h)
      BY <2>4, <2>5, <1>3, <1>4, EndIsFinished
    <2>7. Shaped(e, l, h)
      BY <2>3, <2>4 DEF Shaped, Same
    <2> QED
      BY <2>2, <2>6, <2>7 DEF ListInv
  <1>8. CASE ~Full(c) /\ c.items = <<>> /\ ~(c.page >= c.next)
    <2>1. PICK e : e = [c EXCEPT !.stage = "reading", !.page = c.next]
      OBVIOUS
    <2>2. Turned(c) = e
      BY <2>1, <1>8, Zenon DEF Turned, Full
    <2>3. c.next = c.page + 1 /\ c.passed < Len(l)
      BY <1>1, <1>5, <1>8
    <2>4. c.next \in Nat \ {0}
      BY <2>3, <1>1
    <2>5. e \in ListCall
      BY <2>1, <2>4, <1>1 DEF ListCall
    <2>6. Same(c, e) /\ e.stage = "reading" /\ e.items = <<>> /\ e.page = c.page + 1 /\ e.passed = c.passed
      BY <2>1, <2>3, <1>1, <1>8 DEF ListCall, Same
    <2>7. e.page <= Cardinality(Item) + h.changes + 1 /\ e.page - 1 = c.page /\ e.page - 1 <= e.passed + h.changes
      BY <2>3, <2>6, <1>1, <1>2, <1>5
    <2>8. n = c.passed
      BY <2>3, <1>1, <1>3, <1>8 DEF Upto
    <2>9. GotInv(e, l, h, c.passed)
      BY <2>6, <2>8, <1>4, GotOfSame
    <2>10. PagesPassed(e, e.page - 1)
      BY <2>6, <2>7 DEF Looking, PagesPassed, Same
    <2>11. e.limit > 0 => Len(e.got) < e.limit
      BY <2>6, <1>1, <1>8 DEF Same, Full
    <2>12. Shaped(e, l, h)
      BY <2>5, <2>6, <2>7 DEF Shaped, Same
    <2>13. Reading(e, l, h)
      BY <2>6, <2>7, <2>9, <2>10 DEF Reading
    <2> QED
      BY <2>2, <2>11, <2>12, <2>13 DEF ListInv
  <1>9. CASE ~Full(c) /\ c.items # <<>>
    <2>1. PICK e : e = [c EXCEPT !.stage = "taking"]
      OBVIOUS
    <2>2. Turned(c) = e
      BY <2>1, <1>9, Zenon DEF Turned, Full
    <2>3. e \in ListCall
      BY <2>1, <1>1 DEF ListCall
    <2>4. /\ Same(c, e) /\ e.stage = "taking" /\ e.items = c.items /\ e.page = c.page
          /\ e.passed = c.passed /\ e.next = c.next
      BY <2>1, <1>1 DEF ListCall, Same
    <2>5. Shaped(e, l, h)
      BY <2>3, <2>4 DEF Shaped, Same
    <2>6. e.limit > 0 => Len(e.got) < e.limit
      BY <2>4, <1>1, <1>9 DEF Same, Full
    <2>7. Upto(e, l) = Upto(c, l)
      BY <2>4 DEF Upto
    <2>8. GotInv(e, l, h, n)
      BY <2>4, <1>4, GotOfSame
    <2>9. PagesPassed(e, e.page)
      BY <2>4 DEF Looking, PagesPassed, Same
    <2>10. Looking(e, l, h)
      BY <2>4, <2>7, <2>8, <2>9, <1>3 DEF Looking
    <2> QED
      BY <2>2, <2>4, <2>5, <2>6, <2>10, <1>9 DEF ListInv
  <1> QED
    BY <1>7, <1>8, <1>9

-----------------------------------------------------------------------------
\* GitLab changes the list.

\* What a change does to a list l, of which k is left, to the places in it, and to what
\* the next page of a call c begins with, in e.
Rearranged(c, l, h, e, k, g) ==
    /\ k \in Lists /\ e \in ListCall /\ g \in History
    /\ Same(c, e) /\ e.stage = c.stage /\ e.items = c.items /\ e.page = c.page
    /\ c.passed <= e.passed + 1 /\ (~c.keyset => e.passed = c.passed)
    /\ g.changes = h.changes + 1 /\ g.steady = h.steady \cap ToSet(k)
    /\ h.displaced \subseteq g.displaced /\ h.pushed \subseteq g.pushed
    /\ \A i \in 1..Len(l), j \in 1..Len(k) :
          l[i] = k[j] =>
            /\ j < i => l[i] \in g.displaced
            /\ j > i => l[i] \in g.pushed
            /\ c.keyset => (j <= e.passed <=> i <= c.passed)
    /\ \A j \in 1..Len(k) : k[j] \notin ToSet(l) => k[j] \notin ToSet(c.got)
    /\ \A i1, i2 \in 1..Len(l), j1, j2 \in 1..Len(k) :
          l[i1] = k[j1] /\ l[i2] = k[j2] /\ j1 < j2 => i1 < i2 \/ k[j1] \in g.displaced

\* A change of the list that is traced keeps what a listing between two pages has got.
LEMMA ChangeKeeps ==
    ASSUME NEW c, NEW l, NEW h, Shaped(c, l, h), Reading(c, l, h), c.limit > 0 => Len(c.got) < c.limit,
           NEW e, NEW k, NEW g, Rearranged(c, l, h, e, k, g)
    PROVE  ListInv(e, k, g)
  <1>1. /\ c \in ListCall /\ e \in ListCall /\ l \in Lists /\ k \in Lists
        /\ c.passed \in Nat /\ e.passed \in Nat /\ c.page \in Nat /\ c.keyset \in BOOLEAN
        /\ Len(l) \in Nat /\ Len(k) \in Nat /\ l \in Seq(Item) /\ k \in Seq(Item)
        /\ Cardinality(Item) \in Nat
    BY ListFacts, ListIsShort DEF Shaped, ListCall, Rearranged
  <1>2. h.changes \in Nat /\ g.changes = h.changes + 1
    BY BoundAssumption DEF Shaped, History, Rearranged
  <1>3. /\ e.fn = c.fn /\ e.only = c.only /\ e.limit = c.limit /\ e.keyset = c.keyset /\ e.got = c.got
        /\ e.stage = c.stage /\ e.items = c.items /\ e.page = c.page
        /\ c.passed <= e.passed + 1 /\ (~c.keyset => e.passed = c.passed)
    BY DEF Rearranged, Same
  <1>4. /\ g.steady = h.steady \cap ToSet(k) /\ h.steady \subseteq ToSet(l)
        /\ h.displaced \subseteq g.displaced /\ h.pushed \subseteq g.pushed
    BY DEF Rearranged, Shaped
  <1>5. \A i \in 1..Len(l), j \in 1..Len(k) :
          l[i] = k[j] =>
            /\ j < i => l[i] \in g.displaced
            /\ j > i => l[i] \in g.pushed
            /\ c.keyset => (j <= e.passed <=> i <= c.passed)
    BY DEF Rearranged
  <1>6. \A j \in 1..Len(k) : k[j] \notin ToSet(l) => k[j] \notin ToSet(c.got)
    BY DEF Rearranged
  <1>7. \A i1, i2 \in 1..Len(l), j1, j2 \in 1..Len(k) :
          l[i1] = k[j1] /\ l[i2] = k[j2] /\ j1 < j2 => i1 < i2 \/ k[j1] \in g.displaced
    BY DEF Rearranged
  <1>8. \A x : x \in ToSet(l) <=> \E i \in 1..Len(l) : l[i] = x
    BY <1>1, Elements
  <1>9. Accounted(c, l, h, c.passed) /\ Placed(c, l, h, c.passed) /\ TakenOnce(c, h) /\ FirstTaken(c, l, h)
    BY DEF Reading, GotInv
  <1>10. Accounted(e, k, g, e.passed)
    <2> SUFFICES ASSUME NEW j \in 1..Len(k), j <= e.passed, k[j] \in g.steady \cap Wanted(e)
                 PROVE  k[j] \in ToSet(e.got) \/ (k[j] \in g.displaced /\ ~e.keyset) \/ Excused(e, k[j])
      BY DEF Accounted
    <2>1. PICK i \in 1..Len(l) : l[i] = k[j]
      BY <1>4, <1>8
    <2>2. l[i] \in h.steady \cap Wanted(c)
      BY <2>1, <1>3, <1>4 DEF Wanted
    <2>3. CASE i <= c.passed
      <3>1. l[i] \in ToSet(c.got) \/ (l[i] \in h.displaced /\ ~c.keyset) \/ Excused(c, l[i])
        BY <2>2, <2>3, <1>9 DEF Accounted
      <3>2. Excused(c, l[i]) => Excused(e, l[i])
        BY <1>3 DEF Excused, Full
      <3> QED
        BY <3>1, <3>2, <2>1, <1>3, <1>4
    <2>4. CASE ~(i <= c.passed)
      <3>1. ~c.keyset
        BY <2>1, <2>4, <1>5
      <3>2. j < i
        BY <3>1, <2>4, <1>1, <1>3
      <3> QED
        BY <3>1, <3>2, <2>1, <1>3, <1>5
    <2> QED
      BY <2>3, <2>4
  <1>11. Placed(e, k, g, e.passed)
    <2> SUFFICES ASSUME NEW j \in 1..Len(k), k[j] \in ToSet(c.got) \ g.pushed
                 PROVE  j <= e.passed
      BY <1>3 DEF Placed
    <2>1. PICK i \in 1..Len(l) : l[i] = k[j]
      BY <1>6, <1>8
    <2>2. l[i] \in ToSet(c.got) \ h.pushed
      BY <2>1, <1>4
    <2>3. i <= c.passed
      BY <2>2, <1>9 DEF Placed
    <2>4. CASE c.keyset
      BY <2>1, <2>3, <2>4, <1>5
    <2>5. CASE ~c.keyset
      <3>1. ~(j > i)
        BY <2>1, <1>5
      <3> QED
        BY <3>1, <2>3, <2>5, <1>1, <1>3
    <2> QED
      BY <2>4, <2>5
  <1>12. TakenOnce(e, g)
    BY <1>3, <1>4, <1>9 DEF TakenOnce
  <1>13. FirstTaken(e, k, g)
    <2> SUFFICES ASSUME c.fn \in Choosing, NEW j1 \in 1..Len(k), NEW j2 \in 1..Len(k), j1 < j2,
                        {k[j1], k[j2]} \subseteq g.steady \cap Accepted, Name[k[j1]] = Name[k[j2]],
                        k[j2] \in ToSet(c.got)
                 PROVE  k[j1] \in g.displaced
      BY <1>3 DEF FirstTaken
    <2>1. PICK i1 \in 1..Len(l) : l[i1] = k[j1]
      BY <1>4, <1>8
    <2>2. PICK i2 \in 1..Len(l) : l[i2] = k[j2]
      BY <1>4, <1>8
    <2>3. CASE i1 < i2
      <3>1. {l[i1], l[i2]} \subseteq h.steady \cap Accepted
        BY <2>1, <2>2, <1>4
      <3>2. l[i1] \in h.displaced
        BY <2>1, <2>2, <2>3, <3>1, <1>9 DEF FirstTaken
      <3> QED
        BY <3>2, <2>1, <1>4
    <2>4. CASE ~(i1 < i2)
      BY <2>1, <2>2, <2>4, <1>7
    <2> QED
      BY <2>3, <2>4
  <1>14. g.changes # 0
    BY <1>2
  <1>15. GotInv(e, k, g, e.passed)
    BY <1>10, <1>11, <1>12, <1>13, <1>14 DEF GotInv
  <1>16. c.page - 1 <= c.passed + h.changes /\ c.page <= Cardinality(Item) + h.changes + 1
    BY DEF Reading, Shaped
  <1>17. e.page - 1 <= e.passed + g.changes
    <2>1. PICK p, q, r, y : p = c.page /\ q = c.passed /\ r = e.passed /\ y = h.changes
      OBVIOUS
    <2>2. p \in Nat /\ q \in Nat /\ r \in Nat /\ y \in Nat /\ p - 1 <= q + y /\ q <= r + 1
      BY <2>1, <1>1, <1>2, <1>3, <1>16
    <2>3. p - 1 <= r + (y + 1)
      BY <2>2
    <2> QED
      BY <2>1, <2>3, <1>2, <1>3
  <1>18. e.page <= Cardinality(Item) + g.changes + 1
    BY <1>1, <1>2, <1>3, <1>16
  <1>19. PagesPassed(e, e.page - 1)
    BY <1>3 DEF Reading, PagesPassed
  <1>20. Reading(e, k, g)
    BY <1>3, <1>15, <1>17, <1>19 DEF Reading
  <1>21. Shaped(e, k, g)
    BY <1>1, <1>3, <1>4, <1>18 DEF Shaped, Rearranged
  <1> QED
    BY <1>3, <1>20, <1>21 DEF ListInv

\* A part of a list.
LEMMA PartOf ==
    ASSUME NEW l \in Seq(Item), NEW a \in Nat, NEW b \in Nat, a >= 1, a <= b + 1, b <= Len(l)
    PROVE  /\ SubSeq(l, a, b) \in Seq(Item)
           /\ Len(SubSeq(l, a, b)) = b - a + 1
           /\ \A i \in 1..(b - a + 1) : SubSeq(l, a, b)[i] = l[a + i - 1]
  <1>1. Len(l) \in Nat
    OBVIOUS
  <1>2. \A i \in a..b : l[i] \in Item
    BY <1>1
  <1>3. /\ SubSeq(l, a, b) \in Seq(Item)
        /\ Len(SubSeq(l, a, b)) = IF a <= b THEN b - a + 1 ELSE 0
        /\ \A i \in 1..(b - a + 1) : SubSeq(l, a, b)[i] = l[a + i - 1]
    BY <1>2, SubSeqProperties
  <1> QED
    BY <1>3

\* A list with the item at a place removed.
LEMMA WithoutPlace ==
    ASSUME NEW l \in Seq(Item), NEW i \in 1..Len(l)
    PROVE  /\ RemoveAt(l, i) \in Seq(Item)
           /\ Len(RemoveAt(l, i)) = Len(l) - 1
           /\ \A j \in 1..(Len(l) - 1) : RemoveAt(l, i)[j] = IF j < i THEN l[j] ELSE l[j + 1]
  <1>1. Len(l) \in Nat /\ i \in Nat /\ i >= 1 /\ i <= Len(l)
    OBVIOUS
  <1>2. PICK s : s = SubSeq(l, 1, i - 1)
    OBVIOUS
  <1>3. s \in Seq(Item) /\ Len(s) = i - 1 /\ \A j \in 1..(i - 1) : s[j] = l[j]
    <2>1. PICK b \in Nat : b = i - 1
      BY <1>1
    <2>2. s \in Seq(Item) /\ Len(s) = b - 1 + 1 /\ \A j \in 1..(b - 1 + 1) : s[j] = l[1 + j - 1]
      BY <2>1, <1>1, <1>2, PartOf
    <2>3. b - 1 + 1 = i - 1 /\ \A j \in 1..(i - 1) : 1 + j - 1 = j
      BY <2>1
    <2> QED
      BY <2>2, <2>3
  <1>4. PICK t : t = SubSeq(l, i + 1, Len(l))
    OBVIOUS
  <1>5. t \in Seq(Item) /\ Len(t) = Len(l) - i /\ \A j \in 1..(Len(l) - i) : t[j] = l[i + j]
    <2>1. PICK a \in Nat : a = i + 1
      BY <1>1
    <2>2. t \in Seq(Item) /\ Len(t) = Len(l) - a + 1 /\ \A j \in 1..(Len(l) - a + 1) : t[j] = l[a + j - 1]
      BY <2>1, <1>1, <1>4, PartOf
    <2>3. Len(l) - a + 1 = Len(l) - i /\ \A j \in 1..(Len(l) - i) : a + j - 1 = i + j
      BY <2>1, <1>1
    <2> QED
      BY <2>2, <2>3
  <1>6. RemoveAt(l, i) = s \o t
    BY <1>2, <1>4 DEF RemoveAt
  <1> DEFINE r == s \o t
  <1>7. /\ r \in Seq(Item) /\ Len(r) = Len(s) + Len(t)
        /\ \A j \in 1..(Len(s) + Len(t)) : r[j] = IF j <= Len(s) THEN s[j] ELSE t[j - Len(s)]
    BY <1>3, <1>5, ConcatProperties
  <1>20. RemoveAt(l, i) = r
    BY <1>6
  <1> HIDE DEF r
  <1>8. Len(r) = Len(l) - 1
    BY <1>1, <1>3, <1>5, <1>7
  <1>9. \A j \in 1..(Len(l) - 1) : r[j] = IF j < i THEN l[j] ELSE l[j + 1]
    <2> SUFFICES ASSUME NEW j \in 1..(Len(l) - 1)
                 PROVE  r[j] = IF j < i THEN l[j] ELSE l[j + 1]
      OBVIOUS
    <2>1. r[j] = IF j <= Len(s) THEN s[j] ELSE t[j - Len(s)]
      BY <1>7, <1>8
    <2>2. CASE j < i
      <3>1. j <= Len(s) /\ j \in 1..(i - 1)
        BY <2>2, <1>1, <1>3
      <3> QED
        BY <2>1, <2>2, <3>1, <1>3
    <2>3. CASE ~(j < i)
      <3>1. ~(j <= Len(s)) /\ j - Len(s) \in 1..(Len(l) - i) /\ i + (j - Len(s)) = j + 1
        BY <2>3, <1>1, <1>3
      <3> QED
        BY <2>1, <2>3, <3>1, <1>5
    <2> QED
      BY <2>2, <2>3
  <1> QED
    BY <1>20, <1>7, <1>8, <1>9

\* k is l with x at place i.
IsWith(k, l, i, x) ==
    /\ k \in Seq(Item) /\ Len(k) = Len(l) + 1
    /\ \A j \in 1..(Len(l) + 1) :
          (j < i => k[j] = l[j]) /\ (j = i => k[j] = x) /\ (j > i => k[j] = l[j - 1])

\* A list with an item inserted at a place.
LEMMA WithPlace ==
    ASSUME NEW l \in Seq(Item), NEW i \in 1..(Len(l) + 1), NEW x \in Item
    PROVE  IsWith(InsertAt(l, i, x), l, i, x)
  <1>1. Len(l) \in Nat /\ i \in Nat /\ i >= 1 /\ i <= Len(l) + 1
    OBVIOUS
  <1>2. PICK s : s = SubSeq(l, 1, i - 1)
    OBVIOUS
  <1>3. s \in Seq(Item) /\ Len(s) = i - 1 /\ \A j \in 1..(i - 1) : s[j] = l[j]
    <2>1. PICK b \in Nat : b = i - 1
      BY <1>1
    <2>2. s \in Seq(Item) /\ Len(s) = b - 1 + 1 /\ \A j \in 1..(b - 1 + 1) : s[j] = l[1 + j - 1]
      BY <2>1, <1>1, <1>2, PartOf
    <2>3. b - 1 + 1 = i - 1 /\ \A j \in 1..(i - 1) : 1 + j - 1 = j
      BY <2>1
    <2> QED
      BY <2>2, <2>3
  <1>4. PICK t : t = SubSeq(l, i, Len(l))
    OBVIOUS
  <1>5. t \in Seq(Item) /\ Len(t) = Len(l) + 1 - i /\ \A j \in 1..(Len(l) + 1 - i) : t[j] = l[i + j - 1]
    <2>1. t \in Seq(Item) /\ Len(t) = Len(l) - i + 1 /\ \A j \in 1..(Len(l) - i + 1) : t[j] = l[i + j - 1]
      BY <1>1, <1>4, PartOf
    <2>2. Len(l) - i + 1 = Len(l) + 1 - i
      BY <1>1
    <2> QED
      BY <2>1, <2>2
  <1>6. PICK u : u = Append(s, x) /\ u \in Seq(Item) /\ Len(u) = i /\ (\A j \in 1..(i - 1) : u[j] = l[j]) /\ u[i] = x
    <2>1. Append(s, x) \in Seq(Item) /\ Len(Append(s, x)) = i
      BY <1>1, <1>3, ToSetOfAppend
    <2>2. \A j \in 1..(i - 1) : Append(s, x)[j] = l[j]
      BY <1>3, ToSetOfAppend
    <2>3. Append(s, x)[i] = x
      BY <1>1, <1>3, ToSetOfAppend
    <2> QED
      BY <2>1, <2>2, <2>3
  <1>7. InsertAt(l, i, x) = u \o t
    <2>1. s \o <<x>> = Append(s, x)
      BY <1>3, AppendIsConcat
    <2> QED
      BY <2>1, <1>2, <1>4, <1>6 DEF InsertAt
  <1> DEFINE r == u \o t
  <1>8. /\ r \in Seq(Item) /\ Len(r) = Len(u) + Len(t)
        /\ \A j \in 1..(Len(u) + Len(t)) : r[j] = IF j <= Len(u) THEN u[j] ELSE t[j - Len(u)]
    <2>1. u \in Seq(Item) /\ t \in Seq(Item)
      BY <1>5, <1>6
    <2> QED
      BY <2>1, ConcatProperties, Zenon
  <1>20. InsertAt(l, i, x) = r
    BY <1>7
  <1> HIDE DEF r
  <1>9. Len(r) = Len(l) + 1
    BY <1>1, <1>5, <1>6, <1>8
  <1>10. \A j \in 1..(Len(l) + 1) : r[j] = IF j < i THEN l[j] ELSE IF j = i THEN x ELSE l[j - 1]
    <2> SUFFICES ASSUME NEW j \in 1..(Len(l) + 1)
                 PROVE  r[j] = IF j < i THEN l[j] ELSE IF j = i THEN x ELSE l[j - 1]
      OBVIOUS
    <2>1. r[j] = IF j <= i THEN u[j] ELSE t[j - i]
      BY <1>6, <1>8, <1>9
    <2>2. CASE j < i
      BY <2>1, <2>2, <1>1, <1>6
    <2>3. CASE j = i
      BY <2>1, <2>3, <1>1, <1>6
    <2>4. CASE j > i
      <3>1. ~(j <= i) /\ ~(j < i) /\ j # i /\ j - i \in 1..(Len(l) + 1 - i) /\ i + (j - i) - 1 = j - 1
        BY <2>4, <1>1
      <3> QED
        BY <2>1, <3>1, <1>5
    <2> QED
      BY <2>2, <2>3, <2>4, <1>1
  <1> QED
    BY <1>20, <1>8, <1>9, <1>10, <1>1 DEF IsWith

\* A change by the place f[j] that what is at place j had before, 0 if it is new.
Traced(c, l, e, k, g, f) ==
    /\ f \in [1..Len(k) -> 0..Len(l)]
    /\ \A j \in 1..Len(k) : f[j] # 0 => k[j] = l[f[j]]
    /\ \A j \in 1..Len(k) : f[j] = 0 => k[j] \notin ToSet(l) \cup ToSet(c.got)
    /\ \A j1, j2 \in 1..Len(k) : f[j1] = f[j2] => j1 = j2
    /\ \A j \in 1..Len(k) : f[j] # 0 =>
          /\ j < f[j] => l[f[j]] \in g.displaced
          /\ j > f[j] => l[f[j]] \in g.pushed
          /\ c.keyset => (j <= e.passed <=> f[j] <= c.passed)
    /\ \A j1, j2 \in 1..Len(k) : f[j1] # 0 /\ f[j2] # 0 /\ j1 < j2 => f[j1] < f[j2] \/ k[j1] \in g.displaced

\* A change is what it should be if the place each item came from is known.
LEMMA RearrangedBy ==
    ASSUME NEW c, NEW l \in Lists, NEW h, NEW e \in ListCall, NEW k \in Seq(Item), NEW g \in History,
           Same(c, e), e.stage = c.stage, e.items = c.items, e.page = c.page,
           c.passed <= e.passed + 1, ~c.keyset => e.passed = c.passed,
           g.changes = h.changes + 1, g.steady = h.steady \cap ToSet(k),
           h.displaced \subseteq g.displaced, h.pushed \subseteq g.pushed,
           NEW f, Traced(c, l, e, k, g, f)
    PROVE  Rearranged(c, l, h, e, k, g)
  <1>0. /\ f \in [1..Len(k) -> 0..Len(l)]
        /\ \A j \in 1..Len(k) : f[j] # 0 => k[j] = l[f[j]]
        /\ \A j \in 1..Len(k) : f[j] = 0 => k[j] \notin ToSet(l) \cup ToSet(c.got)
        /\ \A j1, j2 \in 1..Len(k) : f[j1] = f[j2] => j1 = j2
        /\ \A j \in 1..Len(k) : f[j] # 0 =>
              /\ j < f[j] => l[f[j]] \in g.displaced
              /\ j > f[j] => l[f[j]] \in g.pushed
              /\ c.keyset => (j <= e.passed <=> f[j] <= c.passed)
        /\ \A j1, j2 \in 1..Len(k) : f[j1] # 0 /\ f[j2] # 0 /\ j1 < j2 => f[j1] < f[j2] \/ k[j1] \in g.displaced
    BY DEF Traced
  <1>1. /\ l \in Seq(Item) /\ Len(l) \in Nat /\ \A i1, i2 \in 1..Len(l) : l[i1] = l[i2] => i1 = i2
    BY ListFacts, ListIsShort
  <1>2. \A x : x \in ToSet(l) <=> \E i \in 1..Len(l) : l[i] = x
    BY <1>1, Elements
  <1>3. \A j \in 1..Len(k) : f[j] # 0 => f[j] \in 1..Len(l) /\ k[j] \in ToSet(l)
    <2> SUFFICES ASSUME NEW j \in 1..Len(k), f[j] # 0
                 PROVE  f[j] \in 1..Len(l) /\ k[j] \in ToSet(l)
      OBVIOUS
    <2>1. f[j] \in 1..Len(l)
      BY <1>0, <1>1
    <2> QED
      BY <2>1, <1>0, <1>2
  <1>4. \A i \in 1..Len(l), j \in 1..Len(k) : l[i] = k[j] => f[j] = i
    <2> SUFFICES ASSUME NEW i \in 1..Len(l), NEW j \in 1..Len(k), l[i] = k[j]
                 PROVE  f[j] = i
      OBVIOUS
    <2>1. f[j] # 0
      BY <1>0, <1>2
    <2> QED
      BY <2>1, <1>0, <1>1, <1>3
  <1>5. \A j1, j2 \in 1..Len(k) : k[j1] = k[j2] => j1 = j2
    <2> SUFFICES ASSUME NEW j1 \in 1..Len(k), NEW j2 \in 1..Len(k), k[j1] = k[j2]
                 PROVE  f[j1] = f[j2]
      BY <1>0
    <2>1. f[j1] # 0 <=> f[j2] # 0
      BY <1>0, <1>3
    <2>2. CASE f[j1] # 0
      BY <2>1, <2>2, <1>0, <1>1, <1>3
    <2>3. CASE f[j1] = 0
      BY <2>1, <2>3
    <2> QED
      BY <2>2, <2>3
  <1>6. k \in Lists
    BY <1>5, ListFacts
  <1>7. \A i \in 1..Len(l), j \in 1..Len(k) :
          l[i] = k[j] =>
            /\ j < i => l[i] \in g.displaced
            /\ j > i => l[i] \in g.pushed
            /\ c.keyset => (j <= e.passed <=> i <= c.passed)
    <2> SUFFICES ASSUME NEW i \in 1..Len(l), NEW j \in 1..Len(k), l[i] = k[j]
                 PROVE  /\ j < i => l[i] \in g.displaced
                        /\ j > i => l[i] \in g.pushed
                        /\ c.keyset => (j <= e.passed <=> i <= c.passed)
      OBVIOUS
    <2>1. f[j] = i /\ f[j] # 0
      BY <1>1, <1>4
    <2> QED
      BY <2>1, <1>0
  <1>8. \A j \in 1..Len(k) : k[j] \notin ToSet(l) => k[j] \notin ToSet(c.got)
    BY <1>0, <1>3
  <1>9. \A i1, i2 \in 1..Len(l), j1, j2 \in 1..Len(k) :
          l[i1] = k[j1] /\ l[i2] = k[j2] /\ j1 < j2 => i1 < i2 \/ k[j1] \in g.displaced
    <2> SUFFICES ASSUME NEW i1 \in 1..Len(l), NEW i2 \in 1..Len(l), NEW j1 \in 1..Len(k), NEW j2 \in 1..Len(k),
                        l[i1] = k[j1], l[i2] = k[j2], j1 < j2
                 PROVE  i1 < i2 \/ k[j1] \in g.displaced
      OBVIOUS
    <2>1. f[j1] = i1 /\ f[j2] = i2 /\ f[j1] # 0 /\ f[j2] # 0
      BY <1>1, <1>4
    <2> QED
      BY <2>1, <1>0
  <1> QED
    BY <1>6, <1>7, <1>8, <1>9 DEF Rearranged

\* What Shift makes of a call.
Shifted(c, e, at, by) ==
    e = IF c.keyset /\ at <= c.passed THEN [c EXCEPT !.passed = @ + by] ELSE c

\* What is passed with a keyset moves with what is before it.
LEMMA ShiftFacts ==
    ASSUME NEW c \in ListCall, NEW e, NEW at \in Nat, at >= 1, NEW by \in Int, by = 1 \/ by = -1, Shifted(c, e, at, by)
    PROVE  /\ e \in ListCall /\ Same(c, e) /\ e.stage = c.stage /\ e.items = c.items /\ e.page = c.page
           /\ c.passed \in Nat /\ e.passed \in Nat /\ c.keyset \in BOOLEAN
           /\ e.passed = IF c.keyset /\ at <= c.passed THEN c.passed + by ELSE c.passed
           /\ c.passed <= e.passed + 1 /\ (~c.keyset => e.passed = c.passed)
  <1>1. c.passed \in Nat /\ c.keyset \in BOOLEAN
    BY DEF ListCall
  <1>2. CASE c.keyset /\ at <= c.passed
    <2>1. PICK p : p = c.passed + by
      OBVIOUS
    <2>2. p \in Nat /\ c.passed <= p + 1
      BY <2>1, <1>1, <1>2
    <2>3. e = [c EXCEPT !.passed = p]
      BY <2>1, <1>2 DEF Shifted
    <2>4. e \in ListCall
      BY <2>2, <2>3 DEF ListCall
    <2>5. Same(c, e) /\ e.stage = c.stage /\ e.items = c.items /\ e.page = c.page /\ e.passed = p
      BY <2>3 DEF ListCall, Same
    <2> QED
      BY <2>1, <2>2, <2>4, <2>5, <1>1, <1>2
  <1>3. CASE ~(c.keyset /\ at <= c.passed)
    <2>1. e = c
      BY <1>3 DEF Shifted
    <2> QED
      BY <2>1, <1>1, <1>3 DEF Same
  <1> QED
    BY <1>2, <1>3

\* The items before, and after, a place.
BeforeIn(l, i) == {l[j] : j \in 1..(i - 1)}
AfterIn(l, i) == {l[j] : j \in (i + 1)..Len(l)}

\* The history after a change.
Later(h, g, k, forward, back) ==
    /\ g \in History
    /\ g.changes = h.changes + 1 /\ g.steady = h.steady \cap ToSet(k)
    /\ g.displaced = h.displaced \cup forward /\ g.pushed = h.pushed \cup back

\* A removal brings what is behind it forward.
LEMMA RemovalRearranges ==
    ASSUME NEW c, NEW l, NEW h, Shaped(c, l, h), NEW i \in 1..Len(l),
           NEW k, k = RemoveAt(l, i), NEW e, Shifted(c, e, i, -1),
           NEW g, Later(h, g, k, AfterIn(l, i), {})
    PROVE  Rearranged(c, l, h, e, k, g)
  <1>1. c \in ListCall /\ l \in Lists /\ l \in Seq(Item) /\ Len(l) \in Nat
    BY ListFacts, ListIsShort DEF Shaped
  <1>2. i \in Nat /\ i >= 1 /\ i <= Len(l)
    BY <1>1
  <1>3. /\ e \in ListCall /\ Same(c, e) /\ e.stage = c.stage /\ e.items = c.items /\ e.page = c.page
        /\ c.passed \in Nat /\ e.passed \in Nat /\ c.keyset \in BOOLEAN
        /\ e.passed = IF c.keyset /\ i <= c.passed THEN c.passed + (-1) ELSE c.passed
        /\ c.passed <= e.passed + 1 /\ (~c.keyset => e.passed = c.passed)
    BY <1>1, <1>2, ShiftFacts
  <1>4. /\ k \in Seq(Item) /\ Len(k) = Len(l) - 1
        /\ \A j \in 1..(Len(l) - 1) : k[j] = IF j < i THEN l[j] ELSE l[j + 1]
    BY <1>1, WithoutPlace
  <1>5. /\ g \in History /\ g.changes = h.changes + 1 /\ g.steady = h.steady \cap ToSet(k)
        /\ g.displaced = h.displaced \cup AfterIn(l, i) /\ g.pushed = h.pushed
    BY DEF Later
  <1>6. PICK f : f = [j \in 1..Len(k) |-> IF j < i THEN j ELSE j + 1]
    OBVIOUS
  <1>7. /\ f \in [1..Len(k) -> 0..Len(l)]
        /\ \A j \in 1..Len(k) : f[j] # 0 /\ f[j] = (IF j < i THEN j ELSE j + 1)
    <2>1. \A j \in 1..Len(k) : (IF j < i THEN j ELSE j + 1) \in 1..Len(l)
      BY <1>1, <1>2, <1>4
    <2>2. \A j \in 1..Len(k) : f[j] = (IF j < i THEN j ELSE j + 1)
      BY <1>6
    <2>3. \A j \in 1..Len(k) : f[j] \in 1..Len(l)
      BY <2>1, <2>2
    <2>4. \A y \in 1..Len(l) : y # 0 /\ y \in 0..Len(l)
      BY <1>1
    <2>5. f \in [1..Len(k) -> 0..Len(l)]
      BY <2>3, <2>4, <1>6
    <2> QED
      BY <2>2, <2>3, <2>4, <2>5
  <1>8. \A j \in 1..Len(k) : k[j] = l[f[j]]
    BY <1>4, <1>7
  <1>9. \A j1, j2 \in 1..Len(k) : j1 < j2 => f[j1] < f[j2]
    BY <1>1, <1>2, <1>4, <1>7
  <1>10. \A j1, j2 \in 1..Len(k) : f[j1] = f[j2] => j1 = j2
    BY <1>1, <1>2, <1>4, <1>7
  <1>11. \A j \in 1..Len(k) :
           /\ j < f[j] => l[f[j]] \in g.displaced
           /\ j > f[j] => l[f[j]] \in g.pushed
           /\ c.keyset => (j <= e.passed <=> f[j] <= c.passed)
    <2> SUFFICES ASSUME NEW j \in 1..Len(k)
                 PROVE  /\ j < f[j] => l[f[j]] \in g.displaced
                        /\ j > f[j] => l[f[j]] \in g.pushed
                        /\ c.keyset => (j <= e.passed <=> f[j] <= c.passed)
      OBVIOUS
    <2>1. PICK y : y = f[j]
      OBVIOUS
    <2>2. j \in Nat /\ j >= 1 /\ j < Len(l) /\ y = (IF j < i THEN j ELSE j + 1)
      BY <2>1, <1>1, <1>4, <1>7
    <2>3. ASSUME j < y
          PROVE  l[y] \in g.displaced
      <3>1. y \in (i + 1)..Len(l)
        BY <2>2, <2>3, <1>1, <1>2
      <3> QED
        BY <3>1, <1>5 DEF AfterIn
    <2>4. ~(j > y)
      BY <2>2
    <2>5. c.keyset => (j <= e.passed <=> y <= c.passed)
      BY <2>2, <1>2, <1>3
    <2> QED
      BY <2>1, <2>3, <2>4, <2>5
  <1>12. h.displaced \subseteq g.displaced /\ h.pushed \subseteq g.pushed
    BY <1>5
  <1>13. /\ \A j \in 1..Len(k) : f[j] # 0 => k[j] = l[f[j]]
         /\ \A j \in 1..Len(k) : f[j] = 0 => k[j] \notin ToSet(l) \cup ToSet(c.got)
    BY <1>7, <1>8
  <1>14. /\ \A j1, j2 \in 1..Len(k) : f[j1] # 0 /\ f[j2] # 0 /\ j1 < j2 => f[j1] < f[j2] \/ k[j1] \in g.displaced
         /\ \A j \in 1..Len(k) : f[j] # 0 =>
              /\ j < f[j] => l[f[j]] \in g.displaced
              /\ j > f[j] => l[f[j]] \in g.pushed
              /\ c.keyset => (j <= e.passed <=> f[j] <= c.passed)
    BY <1>9, <1>11
  <1> QED
    <2>1. Traced(c, l, e, k, g, f)
      BY <1>7, <1>10, <1>13, <1>14 DEF Traced
    <2> QED
      BY <2>1, <1>1, <1>3, <1>4, <1>5, <1>12, RearrangedBy

\* An insertion sends what is behind it back; with a keyset it is at the first place.
LEMMA InsertionRearranges ==
    ASSUME NEW c, NEW l, NEW h, Shaped(c, l, h), NEW i \in 1..(Len(l) + 1), NEW x \in Item,
           x \notin ToSet(l) \cup ToSet(c.got), c.keyset => i = 1,
           NEW k, k = InsertAt(l, i, x), NEW e, Shifted(c, e, i, 1),
           NEW g, Later(h, g, k, {}, AfterIn(l, i - 1))
    PROVE  Rearranged(c, l, h, e, k, g)
  <1>1. c \in ListCall /\ l \in Lists /\ l \in Seq(Item) /\ Len(l) \in Nat
    BY ListFacts, ListIsShort DEF Shaped
  <1>2. i \in Nat /\ i >= 1 /\ i <= Len(l) + 1
    BY <1>1
  <1>3. /\ e \in ListCall /\ Same(c, e) /\ e.stage = c.stage /\ e.items = c.items /\ e.page = c.page
        /\ c.passed \in Nat /\ e.passed \in Nat /\ c.keyset \in BOOLEAN
        /\ e.passed = IF c.keyset /\ i <= c.passed THEN c.passed + 1 ELSE c.passed
        /\ c.passed <= e.passed + 1 /\ (~c.keyset => e.passed = c.passed)
    BY <1>1, <1>2, ShiftFacts
  <1>4. /\ k \in Seq(Item) /\ Len(k) = Len(l) + 1
        /\ \A j \in 1..(Len(l) + 1) :
              (j < i => k[j] = l[j]) /\ (j = i => k[j] = x) /\ (j > i => k[j] = l[j - 1])
    <2>1. IsWith(k, l, i, x)
      BY <1>1, WithPlace
    <2> QED
      BY <2>1 DEF IsWith
  <1>5. /\ g \in History /\ g.changes = h.changes + 1 /\ g.steady = h.steady \cap ToSet(k)
        /\ g.displaced = h.displaced /\ g.pushed = h.pushed \cup AfterIn(l, i - 1)
    BY DEF Later
  <1>6. PICK f : f = [j \in 1..Len(k) |-> IF j < i THEN j ELSE IF j = i THEN 0 ELSE j - 1]
    OBVIOUS
  <1>7. /\ f \in [1..Len(k) -> 0..Len(l)]
        /\ \A j \in 1..Len(k) : f[j] = (IF j < i THEN j ELSE IF j = i THEN 0 ELSE j - 1)
    <2>1. \A j \in 1..Len(k) : (IF j < i THEN j ELSE IF j = i THEN 0 ELSE j - 1) \in 0..Len(l)
      BY <1>1, <1>2, <1>4
    <2>2. \A j \in 1..Len(k) : f[j] = (IF j < i THEN j ELSE IF j = i THEN 0 ELSE j - 1)
      BY <1>6
    <2>3. f \in [1..Len(k) -> 0..Len(l)]
      BY <2>1, <1>6
    <2> QED
      BY <2>2, <2>3
  <1>8. \A j \in 1..Len(k) : (f[j] # 0 => k[j] = l[f[j]]) /\ (f[j] = 0 => k[j] = x)
    BY <1>1, <1>2, <1>4, <1>7
  <1>9. \A j1, j2 \in 1..Len(k) : f[j1] # 0 /\ f[j2] # 0 /\ j1 < j2 => f[j1] < f[j2]
    BY <1>1, <1>2, <1>4, <1>7
  <1>10. \A j1, j2 \in 1..Len(k) : f[j1] = f[j2] => j1 = j2
    BY <1>1, <1>2, <1>4, <1>7
  <1>11. \A j \in 1..Len(k) :
           f[j] # 0 =>
             /\ j < f[j] => l[f[j]] \in g.displaced
             /\ j > f[j] => l[f[j]] \in g.pushed
             /\ c.keyset => (j <= e.passed <=> f[j] <= c.passed)
    <2> SUFFICES ASSUME NEW j \in 1..Len(k), f[j] # 0
                 PROVE  /\ j < f[j] => l[f[j]] \in g.displaced
                        /\ j > f[j] => l[f[j]] \in g.pushed
                        /\ c.keyset => (j <= e.passed <=> f[j] <= c.passed)
      OBVIOUS
    <2>1. PICK y : y = f[j]
      OBVIOUS
    <2>2. j \in Nat /\ j >= 1 /\ j <= Len(l) + 1 /\ j # i /\ y = (IF j < i THEN j ELSE j - 1)
      BY <2>1, <1>1, <1>2, <1>4, <1>7
    <2>3. ASSUME j > y
          PROVE  l[y] \in g.pushed
      <3>1. y \in ((i - 1) + 1)..Len(l)
        BY <2>2, <2>3, <1>1, <1>2
      <3> QED
        BY <3>1, <1>5 DEF AfterIn
    <2>4. ~(j < y)
      BY <2>2
    <2>5. c.keyset => (j <= e.passed <=> y <= c.passed)
      BY <2>2, <1>2, <1>3
    <2> QED
      BY <2>1, <2>3, <2>4, <2>5
  <1>12. h.displaced \subseteq g.displaced /\ h.pushed \subseteq g.pushed
    BY <1>5
  <1>13. \A j \in 1..Len(k) : f[j] = 0 => k[j] \notin ToSet(l) \cup ToSet(c.got)
    BY <1>8
  <1>15. \A j \in 1..Len(k) : f[j] # 0 => k[j] = l[f[j]]
    BY <1>8
  <1>14. /\ \A j1, j2 \in 1..Len(k) : f[j1] # 0 /\ f[j2] # 0 /\ j1 < j2 => f[j1] < f[j2] \/ k[j1] \in g.displaced
         /\ \A j \in 1..Len(k) : f[j] # 0 =>
              /\ j < f[j] => l[f[j]] \in g.displaced
              /\ j > f[j] => l[f[j]] \in g.pushed
              /\ c.keyset => (j <= e.passed <=> f[j] <= c.passed)
    BY <1>9, <1>11
  <1> QED
    <2>1. Traced(c, l, e, k, g, f)
      BY <1>7, <1>10, <1>13, <1>14, <1>15 DEF Traced
    <2> QED
      BY <2>1, <1>1, <1>3, <1>4, <1>5, <1>12, RearrangedBy

\* An updated pipeline comes forward and sends back those that were before it.
LEMMA MoveRearranges ==
    ASSUME NEW c, NEW l, NEW h, Shaped(c, l, h), NEW i \in 1..Len(l), ~c.keyset,
           NEW k, k = <<l[i]>> \o RemoveAt(l, i),
           NEW g, Later(h, g, k, {l[i]}, BeforeIn(l, i))
    PROVE  Rearranged(c, l, h, c, k, g)
  <1>1. c \in ListCall /\ l \in Lists /\ l \in Seq(Item) /\ Len(l) \in Nat /\ c.passed \in Nat
    BY ListFacts, ListIsShort DEF Shaped, ListCall
  <1>2. i \in Nat /\ i >= 1 /\ i <= Len(l) /\ l[i] \in Item
    BY <1>1
  <1>3. PICK r : /\ r = RemoveAt(l, i) /\ r \in Seq(Item) /\ Len(r) = Len(l) - 1
                 /\ \A j \in 1..(Len(l) - 1) : r[j] = IF j < i THEN l[j] ELSE l[j + 1]
    <2>1. /\ RemoveAt(l, i) \in Seq(Item) /\ Len(RemoveAt(l, i)) = Len(l) - 1
          /\ \A j \in 1..(Len(l) - 1) : RemoveAt(l, i)[j] = IF j < i THEN l[j] ELSE l[j + 1]
      BY <1>1, WithoutPlace
    <2> QED
      BY <2>1, Zenon
  <1>4. /\ k \in Seq(Item) /\ Len(k) = Len(l)
        /\ \A j \in 1..Len(l) : k[j] = IF j = 1 THEN l[i] ELSE IF j - 1 < i THEN l[j - 1] ELSE l[j]
    <2>1. PICK s : s = <<l[i]>> /\ s \in Seq(Item) /\ Len(s) = 1 /\ s[1] = l[i]
      <3>1. <<l[i]>> \in Seq(Item) /\ Len(<<l[i]>>) = 1 /\ <<l[i]>>[1] = l[i]
        BY <1>2
      <3> QED
        BY <3>1, Zenon
    <2>2. k = s \o r
      BY <2>1, <1>3
    <2>3. /\ k \in Seq(Item) /\ Len(k) = Len(s) + Len(r)
          /\ \A j \in 1..(Len(s) + Len(r)) : k[j] = IF j <= Len(s) THEN s[j] ELSE r[j - Len(s)]
      BY <2>1, <2>2, <1>3, ConcatProperties
    <2>4. Len(s) + Len(r) = Len(l)
      BY <2>1, <1>1, <1>2, <1>3
    <2>5. \A j \in 1..Len(l) : k[j] = IF j = 1 THEN l[i] ELSE IF j - 1 < i THEN l[j - 1] ELSE l[j]
      <3> SUFFICES ASSUME NEW j \in 1..Len(l)
                   PROVE  k[j] = IF j = 1 THEN l[i] ELSE IF j - 1 < i THEN l[j - 1] ELSE l[j]
        OBVIOUS
      <3>1. k[j] = IF j <= 1 THEN s[j] ELSE r[j - 1]
        BY <2>1, <2>3, <2>4
      <3>2. CASE j = 1
        BY <2>1, <3>1, <3>2
      <3>3. CASE j # 1
        <4>1. ~(j <= 1) /\ j - 1 \in 1..(Len(l) - 1) /\ (j - 1) + 1 = j
          BY <3>3, <1>1
        <4>2. r[j - 1] = IF j - 1 < i THEN l[j - 1] ELSE l[j]
          BY <4>1, <1>3
        <4> QED
          BY <4>1, <4>2, <3>1, <3>3
      <3> QED
        BY <3>2, <3>3
    <2> QED
      BY <2>3, <2>4, <2>5
  <1>5. /\ g \in History /\ g.changes = h.changes + 1 /\ g.steady = h.steady \cap ToSet(k)
        /\ g.displaced = h.displaced \cup {l[i]} /\ g.pushed = h.pushed \cup BeforeIn(l, i)
    BY DEF Later
  <1>6. PICK f : f = [j \in 1..Len(k) |-> IF j = 1 THEN i ELSE IF j - 1 < i THEN j - 1 ELSE j]
    OBVIOUS
  <1>7. /\ f \in [1..Len(k) -> 0..Len(l)]
        /\ \A j \in 1..Len(k) : f[j] # 0 /\ f[j] = (IF j = 1 THEN i ELSE IF j - 1 < i THEN j - 1 ELSE j)
    <2>1. \A j \in 1..Len(k) : (IF j = 1 THEN i ELSE IF j - 1 < i THEN j - 1 ELSE j) \in 1..Len(l)
      BY <1>1, <1>2, <1>4
    <2>2. \A j \in 1..Len(k) : f[j] = (IF j = 1 THEN i ELSE IF j - 1 < i THEN j - 1 ELSE j)
      BY <1>6
    <2>3. \A j \in 1..Len(k) : f[j] \in 1..Len(l)
      BY <2>1, <2>2
    <2>4. \A y \in 1..Len(l) : y # 0 /\ y \in 0..Len(l)
      BY <1>1
    <2>5. f \in [1..Len(k) -> 0..Len(l)]
      BY <2>3, <2>4, <1>6
    <2> QED
      BY <2>2, <2>3, <2>4, <2>5
  <1>8. \A j \in 1..Len(k) : k[j] = l[f[j]]
    BY <1>4, <1>7
  <1>9. \A j1, j2 \in 1..Len(k) : j1 < j2 => f[j1] < f[j2] \/ k[j1] \in g.displaced
    <2> SUFFICES ASSUME NEW j1 \in 1..Len(k), NEW j2 \in 1..Len(k), j1 < j2
                 PROVE  f[j1] < f[j2] \/ k[j1] \in g.displaced
      OBVIOUS
    <2>1. CASE j1 = 1
      BY <2>1, <1>4, <1>5
    <2>2. CASE j1 # 1
      <3>1. f[j1] < f[j2]
        BY <2>2, <1>1, <1>2, <1>4, <1>7
      <3> QED
        BY <3>1
    <2> QED
      BY <2>1, <2>2
  <1>10. \A j1, j2 \in 1..Len(k) : f[j1] = f[j2] => j1 = j2
    BY <1>1, <1>2, <1>4, <1>7
  <1>11. \A j \in 1..Len(k) :
           /\ j < f[j] => l[f[j]] \in g.displaced
           /\ j > f[j] => l[f[j]] \in g.pushed
    <2> SUFFICES ASSUME NEW j \in 1..Len(k)
                 PROVE  /\ j < f[j] => l[f[j]] \in g.displaced
                        /\ j > f[j] => l[f[j]] \in g.pushed
      OBVIOUS
    <2>1. PICK y : y = f[j]
      OBVIOUS
    <2>2. j \in Nat /\ j >= 1 /\ j <= Len(l) /\ y = (IF j = 1 THEN i ELSE IF j - 1 < i THEN j - 1 ELSE j)
      BY <2>1, <1>1, <1>4, <1>7
    <2>3. ASSUME j < y
          PROVE  l[y] \in g.displaced
      <3>1. y = i
        BY <2>2, <2>3
      <3> QED
        BY <3>1, <1>5
    <2>4. ASSUME j > y
          PROVE  l[y] \in g.pushed
      <3>1. y \in 1..(i - 1)
        BY <2>2, <2>4, <1>2
      <3> QED
        BY <3>1, <1>5 DEF BeforeIn
    <2> QED
      BY <2>1, <2>3, <2>4
  <1>12. Same(c, c) /\ c.passed <= c.passed + 1
    BY <1>1 DEF Same
  <1>13. Traced(c, l, c, k, g, f)
    BY <1>7, <1>8, <1>9, <1>10, <1>11 DEF Traced
  <1> QED
    BY <1>1, <1>4, <1>5, <1>12, <1>13, RearrangedBy

-----------------------------------------------------------------------------
\* A listing begins.
LEMMA ListingBegins ==
    ASSUME NEW fn \in Collecting \cup Unfiltered \cup Choosing, NEW only \in SUBSET Names,
           NEW limit \in Nat, NEW keyset \in BOOLEAN,
           limit > 0 => fn \in Choosing, keyset => fn = "ListRefMostRecentJobs",
           NEW c, c = Listing(fn, only, limit, keyset),
           NEW l \in Lists, NEW h \in History, h.changes = 0, h.pushed = {}, h.steady = ToSet(l)
    PROVE  ListInv(c, l, h)
  <1>1. Cardinality(Item) \in Nat /\ PerPage \in Nat /\ Len(l) \in Nat
    BY BoundAssumption, ListIsShort
  <1>2. /\ c.fn = fn /\ c.stage = "reading" /\ c.page = 1 /\ c.next = 0 /\ c.passed = 0 /\ c.items = <<>>
        /\ c.only = only /\ c.limit = limit /\ c.keyset = keyset /\ c.got = <<>>
    BY DEF Listing
  <1>3. c \in ListCall
    <2>1. <<>> \in Seq(Item)
      OBVIOUS
    <2>2. 1 \in Nat \ {0} /\ 0 \in Nat
      OBVIOUS
    <2> QED
      BY <2>1, <2>2 DEF Listing, ListCall
  <1>4. ToSet(c.got) = {} /\ Len(c.got) = 0
    BY <1>2, Elements DEF ToSet
  <1>5. Places(l, 0) = {}
    BY <1>1 DEF Places
  <1>6. Firsts(c, l, 0) = {}
    BY <1>5 DEF Firsts
  <1>7. Accounted(c, l, h, 0) /\ Placed(c, l, h, 0) /\ TakenOnce(c, h) /\ FirstTaken(c, l, h)
    <2>1. \A i \in 1..Len(l) : ~(i <= 0)
      BY <1>1
    <2>2. \A i \in 1..Len(c.got) : FALSE
      BY <1>4
    <2> QED
      BY <2>1, <2>2, <1>4 DEF Accounted, Placed, TakenOnce, FirstTaken
  <1>8. AsOfOneState(c, l, 0)
    BY <1>4, <1>5, <1>6, FS_EmptySet DEF AsOfOneState
  <1>9. GotInv(c, l, h, c.passed)
    BY <1>2, <1>7, <1>8 DEF GotInv
  <1>10. PagesPassed(c, c.page - 1)
    BY <1>1, <1>2 DEF PagesPassed
  <1>11. c.page - 1 <= c.passed + h.changes /\ c.page <= Cardinality(Item) + h.changes + 1
    BY <1>1, <1>2
  <1>12. Reading(c, l, h)
    BY <1>2, <1>9, <1>10, <1>11 DEF Reading
  <1>13. Shaped(c, l, h)
    BY <1>2, <1>3, <1>11 DEF Shaped
  <1>14. c.limit > 0 => Len(c.got) < c.limit
    BY <1>2, <1>4
  <1> QED
    BY <1>12, <1>13, <1>14 DEF ListInv

\* The names are finitely many.
LEMMA NamesAreFew == IsFiniteSet(Names) /\ \A s \in SUBSET Names : Cardinality(s) \in Nat
  <1>1. IsFiniteSet(Names)
    <2>1. PICK f : f = [i \in Item |-> Name[i]]
      OBVIOUS
    <2>2. f \in Surjection(Item, Names)
      BY <2>1 DEF Surjection, Names
    <2> QED
      BY <2>2, ItemAssumption, FS_Surjection
  <1> QED
    BY <1>1, FS_Subset, FS_CardinalityType

\* A listing begins with nothing passed and nothing got.
LEMMA ListingsBegin ==
    ASSUME NEW c \in Listings,
           NEW l \in Lists, NEW h \in History, h.changes = 0, h.pushed = {}, h.steady = ToSet(l)
    PROVE  ListInv(c, l, h)
  <1>1. CASE \E fn \in Collecting \cup Unfiltered : c = Listing(fn, Names, 0, FALSE)
    <2>1. PICK fn \in Collecting \cup Unfiltered : c = Listing(fn, Names, 0, FALSE)
      BY <1>1
    <2>2. 0 \in Nat /\ ~(0 > 0) /\ Names \in SUBSET Names
      OBVIOUS
    <2> QED
      BY <2>1, <2>2, ListingBegins
  <1>2. CASE c = Listing("GetProjectMostRecentTagCommit", Names, 1, FALSE)
    <2>1. "GetProjectMostRecentTagCommit" \in Choosing
      BY DEF Choosing
    <2> QED
      BY <1>2, <2>1, ListingBegins
  <1>3. CASE \E existing \in SUBSET Names, n \in 0..MaxLimit : c = Listing("GetRefsFromPipelines", existing, n, FALSE)
    <2>1. PICK existing \in SUBSET Names, n \in 0..MaxLimit : c = Listing("GetRefsFromPipelines", existing, n, FALSE)
      BY <1>3
    <2>2. n \in Nat /\ "GetRefsFromPipelines" \in Choosing
      BY BoundAssumption DEF Choosing
    <2> QED
      BY <2>1, <2>2, ListingBegins
  <1>4. CASE \E names \in SUBSET Names \ {{}}, keyset \in BOOLEAN :
               c = Listing("ListRefMostRecentJobs", names, Cardinality(names), keyset)
    <2>1. PICK names \in SUBSET Names \ {{}}, keyset \in BOOLEAN :
                 c = Listing("ListRefMostRecentJobs", names, Cardinality(names), keyset)
      BY <1>4
    <2>2. Cardinality(names) \in Nat /\ names \in SUBSET Names /\ "ListRefMostRecentJobs" \in Choosing
      BY NamesAreFew DEF Choosing
    <2> QED
      BY <2>1, <2>2, ListingBegins
  <1> QED
    <2>1. CASE \E existing \in SUBSET Names : c \in RefListings(existing)
      BY <1>3, <2>1, Zenon DEF RefListings
    <2>2. CASE c \in JobListings(FALSE) \/ c \in JobListings(TRUE)
      BY <1>4, <2>2, Zenon DEF JobListings
    <2> DEFINE A == {Listing(fn, Names, 0, FALSE) : fn \in Collecting \cup Unfiltered}
               B == {Listing("GetProjectMostRecentTagCommit", Names, 1, FALSE)}
               C == UNION {RefListings(existing) : existing \in SUBSET Names}
    <2>3. c \in A \/ c \in B \/ c \in C \/ c \in JobListings(FALSE) \/ c \in JobListings(TRUE)
      <3>1. Listings = A \cup B \cup C \cup JobListings(FALSE) \cup JobListings(TRUE)
        BY Zenon DEF Listings
      <3> HIDE DEF A, B, C
      <3> QED
        BY <3>1
    <2>4. c \in C => \E existing \in SUBSET Names : c \in RefListings(existing)
      OBVIOUS
    <2> QED
      BY <1>1, <1>2, <2>1, <2>2, <2>3, <2>4, Zenon

-----------------------------------------------------------------------------
\* The steps of a listing.

Hist == [steady |-> steady, displaced |-> displaced, pushed |-> pushed, changes |-> changes]

\* A page that is read are the next items of the list.
LEMMA ReadPageKeeps ==
    ASSUME ListInv(call, list, Hist), ReadPage
    PROVE  ListInv(call', list, Hist)
  <1>1. PICK c, l, h : c = call /\ l = list /\ h = Hist
    OBVIOUS
  <1>2. c.stage = "reading"
    BY <1>1 DEF ReadPage
  <1>3. Shaped(c, l, h) /\ Reading(c, l, h) /\ (c.limit > 0 => Len(c.got) < c.limit)
    BY <1>1, <1>2 DEF ListInv, Finished
  <1>4. PICK s : s = SkippedBy(c)
    OBVIOUS
  <1>5. Skipped = s
    BY <1>1, <1>4 DEF Skipped, SkippedBy
  <1>6. PICK e : e = [c EXCEPT !.items = SubSeq(l, s + 1, Min({s + PerPage, Len(l)})),
                               !.next = IF s + PerPage >= Len(l) THEN 0 ELSE c.page + 1,
                               !.passed = s + PerPage]
    OBVIOUS
  <1>7. call' = Turned(e)
    <2>1. [call EXCEPT !.items = Page, !.next = NextPage, !.passed = Skipped + PerPage] = e
      BY <1>1, <1>5, <1>6 DEF Page, NextPage
    <2> QED
      BY <2>1, Zenon DEF ReadPage
  <1>8. Shaped(e, l, h) /\ Looking(e, l, h) /\ Same(c, e)
    BY <1>3, <1>4, <1>6, ReadLooks
  <1>9. e.limit > 0 => Len(e.got) <= e.limit
    <2>1. c.limit \in Nat /\ Len(c.got) \in Nat
      BY <1>3 DEF Shaped, ListCall
    <2> QED
      BY <2>1, <1>3, <1>8 DEF Same
  <1>10. ListInv(Turned(e), l, h)
    BY <1>8, <1>9, TurnedKeeps
  <1> QED
    BY <1>1, <1>7, <1>10

\* Looking at an item of the page keeps the invariant if it is taken as its sort of
\* listing does.
LEMMA TakeKeeps ==
    ASSUME ListInv(call, list, Hist), call.stage = "taking",
           NEW got, TakenOr(call, Head(call.items), got),
           call' = Turned(Holding(call, Tail(call.items), got))
    PROVE  ListInv(call', list, Hist)
  <1>1. PICK c, l, h : c = call /\ l = list /\ h = Hist
    OBVIOUS
  <1>2. Shaped(c, l, h) /\ Looking(c, l, h) /\ c.items # <<>> /\ (c.limit > 0 => Len(c.got) < c.limit)
    BY <1>1 DEF ListInv, Finished, Reading
  <1>3. PICK e : e = Holding(c, Tail(c.items), got)
    OBVIOUS
  <1>4. TakenOr(c, Head(c.items), got)
    BY <1>1
  <1>5. Shaped(e, l, h) /\ Looking(e, l, h) /\ (e.limit > 0 => Len(e.got) <= e.limit)
    BY <1>2, <1>3, <1>4, TakeLooks
  <1>6. ListInv(Turned(e), l, h)
    BY <1>5, TurnedKeeps
  <1> QED
    BY <1>1, <1>3, <1>6

-----------------------------------------------------------------------------
\* The invariant.

\* Between two calls, or after one that has failed.
Resting ==
    /\ call.fn = "none" /\ call.stage \in {"idle", "failed"}
    /\ changes = 0 /\ steady = {} /\ displaced = {} /\ pushed = {} /\ planted = {}

WalkRuns == WalkInv(call, parent, planted) /\ Planted(parent, planted)

ListingRuns == ListInv(call, list, Hist) /\ planted = {}

ReadsInv ==
    /\ list \in Lists /\ parent \in Trees
    /\ changes \in 0..MaxChanges
    /\ steady \subseteq Item /\ displaced \subseteq Item /\ pushed \subseteq Item
    /\ Resting \/ WalkRuns \/ ListingRuns

\* The three kinds of calls have no function in common.
LEMMA Kinds ==
    /\ Resting => call.fn \notin Walking /\ call.fn \notin Collecting \cup Unfiltered \cup Choosing
    /\ WalkRuns => call \in WalkCall /\ call.fn \in Walking /\ call.fn \notin Collecting \cup Unfiltered \cup Choosing
    /\ ListingRuns => call \in ListCall /\ call.fn \notin Walking /\ call.fn \in Collecting \cup Unfiltered \cup Choosing
    /\ ListingRuns => call.stage \in {"reading", "taking", "done"}
    /\ WalkRuns => call.stage \in {"root", "reading", "popping", "fetching", "done"}
  <1>1. \A fn \in Collecting \cup Unfiltered \cup Choosing : fn \notin Walking /\ fn # "none"
    BY DEF Collecting, Unfiltered, Choosing, Walking
  <1>2. "none" \notin Walking
    BY DEF Walking
  <1>3. WalkRuns => call \in WalkCall /\ call.fn \in Walking /\ call.stage \in {"root", "reading", "popping", "fetching", "done"}
    BY DEF WalkRuns, WalkInv, WalkCall
  <1>4. ListingRuns =>
          /\ call \in ListCall /\ call.fn \in Collecting \cup Unfiltered \cup Choosing
          /\ call.stage \in {"reading", "taking", "done"}
    BY DEF ListingRuns, ListInv, Shaped, ListCall
  <1> QED
    BY <1>1, <1>2, <1>3, <1>4 DEF Resting

\* The empty list and the tree of the root alone are what GitLab may hold.
LEMMA NothingIsThere == <<>> \in Lists /\ [p \in Pipeline |-> 0] \in Trees
  <1>1. <<>> \in Lists
    <2>1. <<>> \in Seq(Item) /\ Len(<<>>) = 0
      OBVIOUS
    <2>2. \A i, j \in 1..Len(<<>>) : <<>>[i] = <<>>[j] => i = j
      BY <2>1
    <2> QED
      BY <2>1, <2>2, ListFacts
  <1>2. [p \in Pipeline |-> 0] \in Trees
    BY BoundAssumption DEF Trees, Pipeline
  <1> QED
    BY <1>1, <1>2

\* The invariant holds at first.
LEMMA InitReads == Init => ReadsInv
  <1> SUFFICES ASSUME Init
               PROVE  ReadsInv
    OBVIOUS
  <1>1. list \in Lists /\ parent \in Trees
    BY NothingIsThere DEF Init
  <1>2. Resting
    BY DEF Init, NoCall, Resting
  <1>3. changes \in 0..MaxChanges /\ steady \subseteq Item /\ displaced \subseteq Item /\ pushed \subseteq Item
    BY BoundAssumption DEF Init
  <1> QED
    BY <1>1, <1>2, <1>3 DEF ReadsInv

\* It holds when a call has returned or failed.
LEMMA ForgetRests ==
    ASSUME Forget, call'.fn = "none", call'.stage \in {"idle", "failed"}
    PROVE  ReadsInv'
  <1>1. list' \in Lists /\ parent' \in Trees
    BY NothingIsThere DEF Forget
  <1>2. Resting'
    BY DEF Forget, Resting
  <1>3. changes' \in 0..MaxChanges /\ steady' \subseteq Item /\ displaced' \subseteq Item /\ pushed' \subseteq Item
    BY BoundAssumption DEF Forget
  <1> QED
    BY <1>1, <1>2, <1>3 DEF ReadsInv

\* It holds when a call starts, whatever GitLab holds then.
LEMMA CallsStart ==
    ASSUME ReadsInv
    PROVE  /\ \A l \in Lists, c \in Listings : StartListing(l, c) => ReadsInv'
           /\ \A t \in Trees, c \in Walks : StartWalk(t, c) => ReadsInv'
  <1>1. ASSUME call = NoCall
        PROVE  Resting
    BY <1>1, Kinds DEF ReadsInv, NoCall, Walking, Collecting, Unfiltered, Choosing
  <1>2. ASSUME NEW l \in Lists, NEW c \in Listings, StartListing(l, c)
        PROVE  ReadsInv'
    <2>1. /\ list' = l /\ call' = c /\ steady' = ToSet(l) /\ Resting
          /\ parent' = parent /\ changes' = changes /\ displaced' = displaced /\ pushed' = pushed /\ planted' = planted
      BY <1>1, <1>2 DEF StartListing
    <2>2. changes = 0 /\ displaced = {} /\ pushed = {} /\ planted = {}
      BY <2>1 DEF Resting
    <2>3. ToSet(l) \subseteq Item
      BY ListFacts, Elements
    <2>4. PICK h : h = Hist'
      OBVIOUS
    <2>5. h \in History /\ h.changes = 0 /\ h.pushed = {} /\ h.steady = ToSet(l)
      <3>1. h = [steady |-> ToSet(l), displaced |-> {}, pushed |-> {}, changes |-> 0]
        BY <2>1, <2>2, <2>4 DEF Hist
      <3> QED
        BY <3>1, <2>3, BoundAssumption DEF History
    <2>6. ListInv(c, l, h)
      BY <2>5, ListingsBegin
    <2>7. ListingRuns'
      BY <2>1, <2>2, <2>4, <2>6 DEF ListingRuns
    <2> QED
      BY <2>1, <2>2, <2>3, <2>7, BoundAssumption DEF ReadsInv
  <1>3. ASSUME NEW t \in Trees, NEW c \in Walks, StartWalk(t, c)
        PROVE  ReadsInv'
    <2>1. /\ parent' = t /\ call' = c /\ planted' = CreatedIn(t) /\ Resting
          /\ list' = list /\ changes' = changes /\ steady' = steady /\ displaced' = displaced /\ pushed' = pushed
      BY <1>1, <1>3 DEF StartWalk, CreatedIn
    <2>2. PICK fn \in Walking, children \in BOOLEAN : c = Walk(fn, children)
      BY DEF Walks
    <2>3. /\ c.fn = fn /\ c.stage = "root" /\ c.children = children /\ c.todo = <<Root>>
          /\ c.bridges = <<>> /\ c.got = <<>>
      BY <2>2 DEF Walk
    <2>4. Root \in Pipeline
      BY TreeFacts
    <2>5. c \in WalkCall
      <3>1. <<Root>> \in Seq(Pipeline) /\ <<>> \in Seq(Pipeline)
        BY <2>4
      <3> QED
        BY <3>1, <2>2 DEF Walk, WalkCall
    <2>6. WalkInv(c, t, CreatedIn(t))
      BY <2>3, <2>5 DEF WalkInv, Begun
    <2>7. Planted(t, CreatedIn(t))
      BY TreeFacts DEF Planted
    <2>8. WalkRuns'
      BY <2>1, <2>6, <2>7 DEF WalkRuns
    <2> QED
      BY <2>1, <2>8 DEF ReadsInv
  <1> QED
    BY <1>2, <1>3

\* The item at hand, taken or not as the listing decides.
LEMMA ListKeeps ==
    ASSUME ReadsInv, NEW fn \in Collecting \cup Unfiltered \cup Choosing, call.fn = fn,
           UNCHANGED <<gitlabVars, historyVars>>,
           \/ ReadPage
           \/ /\ call.stage = "taking"
              /\ \E got : /\ TakenOr(call, Head(call.items), got)
                          /\ call' = Turned(Holding(call, Tail(call.items), got))
    PROVE  ReadsInv'
  <1>1. ListingRuns
    BY Kinds DEF ReadsInv
  <1>2. ListInv(call', list, Hist)
    BY <1>1, ReadPageKeeps, TakeKeeps DEF ListingRuns
  <1>3. /\ list' = list /\ parent' = parent /\ changes' = changes /\ steady' = steady
        /\ displaced' = displaced /\ pushed' = pushed /\ planted' = planted
    BY DEF gitlabVars, historyVars
  <1>4. Hist' = Hist
    BY <1>3 DEF Hist
  <1>5. ListingRuns'
    BY <1>1, <1>2, <1>3, <1>4 DEF ListingRuns
  <1> QED
    BY <1>3, <1>5 DEF ReadsInv

\* A listing of every matching item keeps the invariant.
LEMMA CollectingKeeps ==
    ASSUME ReadsInv, NEW fn \in Collecting, List(fn, NewOnes) \/ List(fn, Accepted)
    PROVE  ReadsInv'
  <1>1. call.fn = fn /\ UNCHANGED <<gitlabVars, historyVars>>
    BY DEF List
  <1>2. PICK x : x = Head(call.items)
    OBVIOUS
  <1>3. fn \notin Unfiltered /\ fn \notin Choosing
    BY FunctionsDiffer
  <1>4. CASE ReadPage
    BY <1>1, <1>4, ListKeeps
  <1>5. CASE TakeItem(NewOnes)
    <2>1. PICK got : got = IF x \in NewOnes THEN Append(call.got, x) ELSE call.got
      OBVIOUS
    <2>2. call' = Turned([call EXCEPT !.items = Tail(@), !.got = got])
      BY <1>5, <2>1, <1>2 DEF TakeItem
    <2>3. TakenOr(call, x, got)
      BY <2>1, <1>1, <1>3 DEF NewOnes, TakenOr
    <2>4. call.stage = "taking" /\ call' = Turned(Holding(call, Tail(call.items), got))
      BY <2>2, <1>5 DEF TakeItem, Holding
    <2> QED
      BY <2>3, <2>4, <1>1, <1>2, ListKeeps
  <1>6. CASE TakeItem(Accepted)
    <2>1. PICK got : got = IF x \in Accepted THEN Append(call.got, x) ELSE call.got
      OBVIOUS
    <2>2. call' = Turned([call EXCEPT !.items = Tail(@), !.got = got])
      BY <1>6, <2>1, <1>2 DEF TakeItem
    <2>3. TakenOr(call, x, got)
      BY <2>1, <1>1, <1>3 DEF TakenOr
    <2>4. call.stage = "taking" /\ call' = Turned(Holding(call, Tail(call.items), got))
      BY <2>2, <1>6 DEF TakeItem, Holding
    <2> QED
      BY <2>3, <2>4, <1>1, <1>2, ListKeeps
  <1> QED
    BY <1>4, <1>5, <1>6 DEF List

\* A listing of every item keeps it.
LEMMA UnfilteredKeeps ==
    ASSUME ReadsInv, NEW fn \in Unfiltered, List(fn, Item)
    PROVE  ReadsInv'
  <1>1. call.fn = fn /\ UNCHANGED <<gitlabVars, historyVars>>
    BY DEF List
  <1>2. PICK x : x = Head(call.items)
    OBVIOUS
  <1>3. fn \notin Collecting /\ fn \notin Choosing
    BY FunctionsDiffer
  <1>4. CASE ReadPage
    BY <1>1, <1>4, ListKeeps
  <1>5. CASE TakeItem(Item)
    <2>0. x \in Item
      <3>1. call \in ListCall /\ call.items # <<>>
        BY <1>1, <1>5, Kinds DEF ReadsInv, ListingRuns, ListInv, Reading, Finished, Shaped, TakeItem
      <3> QED
        BY <1>2, <3>1 DEF ListCall
    <2>1. PICK got : got = Append(call.got, x)
      OBVIOUS
    <2>2. call' = Turned([call EXCEPT !.items = Tail(@), !.got = got])
      BY <1>5, <2>0, <2>1, <1>2 DEF TakeItem
    <2>3. TakenOr(call, x, got)
      BY <2>1, <1>1, <1>3 DEF TakenOr
    <2>4. call.stage = "taking" /\ call' = Turned(Holding(call, Tail(call.items), got))
      BY <2>2, <1>5 DEF TakeItem, Holding
    <2> QED
      BY <2>3, <2>4, <1>1, <1>2, ListKeeps
  <1> QED
    BY <1>4, <1>5 DEF List

\* A listing of the first item of each name keeps it.
LEMMA ChoosingKeeps ==
    ASSUME ReadsInv, NEW fn \in Choosing, List(fn, FirstOfName)
    PROVE  ReadsInv'
  <1>1. call.fn = fn /\ UNCHANGED <<gitlabVars, historyVars>>
    BY DEF List
  <1>2. PICK x : x = Head(call.items)
    OBVIOUS
  <1>3. fn \notin Collecting /\ fn \notin Unfiltered
    BY FunctionsDiffer
  <1>4. CASE ReadPage
    BY <1>1, <1>4, ListKeeps
  <1>5. CASE TakeItem(FirstOfName)
    <2>1. PICK got : got = IF x \in FirstOfName THEN Append(call.got, x) ELSE call.got
      OBVIOUS
    <2>2. call' = Turned([call EXCEPT !.items = Tail(@), !.got = got])
      BY <1>5, <2>1, <1>2 DEF TakeItem
    <2>3. x \in FirstOfName <=> IsFree(call, x)
      BY DEF FirstOfName, IsFree, Fits
    <2>4. TakenOr(call, x, got)
      BY <2>1, <2>3, <1>1, <1>3 DEF TakenOr
    <2>5. call.stage = "taking" /\ call' = Turned(Holding(call, Tail(call.items), got))
      BY <2>2, <1>5 DEF TakeItem, Holding
    <2> QED
      BY <2>4, <2>5, <1>1, <1>2, ListKeeps
  <1> QED
    BY <1>4, <1>5 DEF List

\* So every step of a listing keeps it.
LEMMA ListingStepKeeps ==
    ASSUME ReadsInv, ListingStep
    PROVE  ReadsInv'
  <1>1. CASE \E fn \in Collecting : List(fn, NewOnes) \/ List(fn, Accepted)
    BY <1>1, CollectingKeeps
  <1>2. CASE \E fn \in Unfiltered : List(fn, Item)
    BY <1>2, UnfilteredKeeps
  <1>3. CASE \E fn \in Choosing : List(fn, FirstOfName)
    BY <1>3, ChoosingKeeps
  <1>4. GetProjectBranches \/ GetProjectTags \/ GetProjectEnvironments \/ GetProjectRunners \/ ListProjects
          => \E fn \in Collecting : List(fn, NewOnes) \/ List(fn, Accepted)
    BY Zenon DEF Collecting, GetProjectBranches, GetProjectTags, GetProjectEnvironments, GetProjectRunners, ListProjects
  <1>5. ListPipelineJobs \/ ListPipelineBridges => \E fn \in Unfiltered : List(fn, Item)
    BY Zenon DEF Unfiltered, ListPipelineJobs, ListPipelineBridges
  <1>6. GetProjectMostRecentTagCommit \/ GetRefsFromPipelines \/ ListRefMostRecentJobs
          => \E fn \in Choosing : List(fn, FirstOfName)
    BY Zenon DEF Choosing, GetProjectMostRecentTagCommit, GetRefsFromPipelines, ListRefMostRecentJobs
  <1> QED
    BY <1>1, <1>2, <1>3, <1>4, <1>5, <1>6, Zenon DEF ListingStep

\* Every step of a walk keeps it.
LEMMA WalkStepReads ==
    ASSUME ReadsInv, WalkStep
    PROVE  ReadsInv'
  <1>1. WalkRuns
    <2>1. \/ call.fn = "ListRefPipelineJobs" \/ call.fn = "GetRefPipelineTestReport" \/ call.stage = "fetching"
      BY DEF WalkStep, ListRefPipelineJobs, ListPipelineChildJobs, FetchChildJobs, GetRefPipelineTestReport, QueueChildren
    <2>2. ~Resting
      BY <2>1 DEF Resting
    <2>3. ~ListingRuns
      BY <2>1, Kinds DEF Walking
    <2> QED
      BY <2>2, <2>3 DEF ReadsInv
  <1>2. planted \subseteq Pipeline /\ parent \in Trees
    BY <1>1, TreeFacts DEF ReadsInv, WalkRuns, Planted
  <1>3. WalkInv(call', parent, planted) /\ UNCHANGED <<gitlabVars, historyVars>>
    BY <1>1, <1>2, WalkStepKeeps DEF WalkRuns
  <1>4. /\ list' = list /\ parent' = parent /\ changes' = changes /\ steady' = steady
        /\ displaced' = displaced /\ pushed' = pushed /\ planted' = planted
    BY <1>3 DEF gitlabVars, historyVars
  <1>5. WalkRuns'
    BY <1>1, <1>3, <1>4 DEF WalkRuns
  <1> QED
    BY <1>4, <1>5 DEF ReadsInv

\* GitLab changes the list that is being read.
LEMMA ChangeReads ==
    ASSUME ReadsInv, NEW k, NEW forward \in SUBSET Item, NEW back \in SUBSET Item, Change(k, forward, back),
           NEW e, call' = e,
           Later(Hist, Hist', k, forward, back) => Rearranged(call, list, Hist, e, k, Hist')
    PROVE  ReadsInv'
  <1>1. /\ call.stage = "reading" /\ call.fn \notin Walking /\ changes < MaxChanges
        /\ changes' = changes + 1 /\ list' = k /\ steady' = steady \cap ToSet(k)
        /\ displaced' = displaced \cup forward /\ pushed' = pushed \cup back
        /\ parent' = parent /\ planted' = planted
    BY DEF Change
  <1>2. ListingRuns
    <2>1. ~Resting
      BY <1>1 DEF Resting
    <2>2. ~WalkRuns
      BY <1>1, Kinds
    <2> QED
      BY <2>1, <2>2 DEF ReadsInv
  <1>3. changes \in Nat /\ steady \subseteq Item /\ displaced \subseteq Item /\ pushed \subseteq Item
    BY BoundAssumption DEF ReadsInv
  <1>4. changes' \in 0..MaxChanges /\ steady' \subseteq Item /\ displaced' \subseteq Item /\ pushed' \subseteq Item
    BY <1>1, <1>3, BoundAssumption
  <1>5. PICK h : h = Hist
    OBVIOUS
  <1>6. PICK g : g = Hist'
    OBVIOUS
  <1>7. h.steady = steady /\ h.displaced = displaced /\ h.pushed = pushed /\ h.changes = changes
    BY <1>5 DEF Hist
  <1>8. g = [steady |-> steady', displaced |-> displaced', pushed |-> pushed', changes |-> changes']
    BY <1>6 DEF Hist
  <1>9. /\ g \in History
        /\ g.steady = steady' /\ g.displaced = displaced' /\ g.pushed = pushed' /\ g.changes = changes'
    BY <1>4, <1>8 DEF History
  <1>10. Later(h, g, k, forward, back)
    BY <1>1, <1>7, <1>9 DEF Later
  <1>11. Rearranged(call, list, h, e, k, g)
    BY <1>5, <1>6, <1>10
  <1>12. Shaped(call, list, h) /\ Reading(call, list, h) /\ (call.limit > 0 => Len(call.got) < call.limit)
    BY <1>1, <1>2, <1>5 DEF ListingRuns, ListInv, Finished
  <1>13. ListInv(e, k, g)
    BY <1>11, <1>12, ChangeKeeps
  <1>14. k \in Lists
    BY <1>11 DEF Rearranged
  <1>15. ListingRuns'
    BY <1>1, <1>2, <1>6, <1>13 DEF ListingRuns
  <1> QED
    BY <1>1, <1>4, <1>14, <1>15 DEF ReadsInv

\* Whatever GitLab does between two steps keeps it.
LEMMA GitLabReadsOn ==
    ASSUME ReadsInv, GitLabStep
    PROVE  ReadsInv'
  <1>1. list \in Lists /\ list \in Seq(Item) /\ Len(list) \in Nat /\ DOMAIN list = 1..Len(list)
    BY ListFacts, ListIsShort DEF ReadsInv
  <1>2. ASSUME call.stage = "reading", call.fn \notin Walking
        PROVE  ListingRuns /\ Shaped(call, list, Hist)
    <2>1. ~Resting
      BY <1>2 DEF Resting
    <2>2. ~WalkRuns
      BY <1>2, Kinds
    <2>3. ListingRuns
      BY <2>1, <2>2 DEF ReadsInv
    <2> QED
      BY <2>3 DEF ListingRuns, ListInv
  <1>3. ASSUME NEW i \in DOMAIN list, RemoveItem(i)
        PROVE  ReadsInv'
    <2>1. PICK k : k = RemoveAt(list, i)
      OBVIOUS
    <2>2. PICK e : e = call'
      OBVIOUS
    <2>3. Change(k, AfterIn(list, i), {})
      BY <1>3, <2>1 DEF RemoveItem, After, AfterIn
    <2>4. Shifted(call, e, i, -1)
      BY <1>3, <2>2 DEF RemoveItem, Shift, Shifted
    <2>5. Shaped(call, list, Hist)
      BY <1>2, <2>3 DEF Change
    <2>6. i \in 1..Len(list)
      BY <1>1
    <2>7. Later(Hist, Hist', k, AfterIn(list, i), {}) => Rearranged(call, list, Hist, e, k, Hist')
      BY <2>1, <2>4, <2>5, <2>6, RemovalRearranges
    <2>8. AfterIn(list, i) \in SUBSET Item /\ {} \in SUBSET Item
      BY <1>1, <2>6 DEF AfterIn
    <2> QED
      BY <2>2, <2>3, <2>7, <2>8, ChangeReads
  <1>4. ASSUME NEW i \in DOMAIN list, MoveItemFirst(i)
        PROVE  ReadsInv'
    <2>1. PICK k : k = <<list[i]>> \o RemoveAt(list, i)
      OBVIOUS
    <2>2. call' = call /\ call.fn = "GetRefsFromPipelines"
      BY <1>4 DEF MoveItemFirst
    <2>3. Change(k, {list[i]}, BeforeIn(list, i))
      BY <1>4, <2>1 DEF MoveItemFirst, Before, BeforeIn
    <2>5. Shaped(call, list, Hist)
      BY <1>2, <2>3 DEF Change
    <2>6. i \in 1..Len(list)
      BY <1>1
    <2>7. ~call.keyset
      BY <2>2, <2>5 DEF Shaped
    <2>8. Later(Hist, Hist', k, {list[i]}, BeforeIn(list, i)) => Rearranged(call, list, Hist, call, k, Hist')
      BY <2>1, <2>5, <2>6, <2>7, MoveRearranges
    <2>9. {list[i]} \in SUBSET Item /\ BeforeIn(list, i) \in SUBSET Item
      BY <1>1, <2>6 DEF BeforeIn
    <2> QED
      BY <2>2, <2>3, <2>8, <2>9, ChangeReads
  <1>5. ASSUME NEW i \in 1..(Len(list) + 1), NEW item \in Item, InsertItem(i, item)
        PROVE  ReadsInv'
    <2>1. PICK k : k = InsertAt(list, i, item)
      OBVIOUS
    <2>2. PICK e : e = call'
      OBVIOUS
    <2>3. Change(k, {}, AfterIn(list, i - 1))
      BY <1>5, <2>1 DEF InsertItem, After, AfterIn
    <2>4. Shifted(call, e, i, 1)
      BY <1>5, <2>2 DEF InsertItem, Shift, Shifted
    <2>5. Shaped(call, list, Hist)
      BY <1>2, <2>3 DEF Change
    <2>6. /\ item \notin ToSet(list) \cup ToSet(call.got)
          /\ call.keyset => i = 1
      BY <1>5, <2>5 DEF InsertItem, Shaped
    <2>7. Later(Hist, Hist', k, {}, AfterIn(list, i - 1)) => Rearranged(call, list, Hist, e, k, Hist')
      BY <2>1, <2>4, <2>5, <2>6, InsertionRearranges
    <2>8. AfterIn(list, i - 1) \in SUBSET Item /\ {} \in SUBSET Item
      BY <1>1 DEF AfterIn
    <2> QED
      BY <2>2, <2>3, <2>7, <2>8, ChangeReads
  <1>6. ASSUME NEW p \in Pipeline, NEW q \in Pipeline, TriggerPipeline(p, q)
        PROVE  ReadsInv'
    <2>1. /\ call.fn \in Walking /\ p \in CreatedIn(parent) /\ q \in Pipeline \ CreatedIn(parent) /\ p < q
          /\ parent' = [parent EXCEPT ![q] = p] /\ list' = list /\ call' = call
          /\ changes' = changes /\ steady' = steady /\ displaced' = displaced /\ pushed' = pushed /\ planted' = planted
      BY <1>6 DEF TriggerPipeline, Created, CreatedIn, historyVars
    <2>2. WalkRuns
      BY <2>1, Kinds DEF ReadsInv
    <2>3. PICK t \in Trees : t = parent
      BY DEF ReadsInv
    <2>4. PICK u : u = [t EXCEPT ![q] = p]
      OBVIOUS
    <2>5. Planted(t, planted) /\ WalkInv(call, t, planted)
      BY <2>2, <2>3 DEF WalkRuns
    <2>6. WalkInv(call, u, planted) /\ Planted(u, planted) /\ u \in Trees
      BY <2>1, <2>3, <2>4, <2>5, WalkGoesOn
    <2>7. WalkRuns' /\ parent' \in Trees
      BY <2>1, <2>3, <2>4, <2>6 DEF WalkRuns
    <2> QED
      BY <2>1, <2>7 DEF ReadsInv
  <1> QED
    BY <1>3, <1>4, <1>5, <1>6 DEF GitLabStep

\* Every step keeps the invariant.
LEMMA NextReads == ReadsInv /\ [Next]_vars => ReadsInv'
  <1> SUFFICES ASSUME ReadsInv, [Next]_vars
               PROVE  ReadsInv'
    OBVIOUS
  <1>1. CASE \E l \in Lists, c \in Listings : StartListing(l, c)
    BY <1>1, CallsStart
  <1>2. CASE \E t \in Trees, c \in Walks : StartWalk(t, c)
    BY <1>2, CallsStart
  <1>3. CASE ListingStep
    BY <1>3, ListingStepKeeps
  <1>4. CASE WalkStep
    BY <1>4, WalkStepReads
  <1>5. CASE GitLabStep
    BY <1>5, GitLabReadsOn
  <1>6. CASE CallFails
    BY <1>6, ForgetRests DEF CallFails, NoCall
  <1>7. CASE Return
    BY <1>7, ForgetRests DEF Return, NoCall
  <1>8. CASE UNCHANGED vars
    <2>1. /\ list' = list /\ parent' = parent /\ call' = call /\ changes' = changes /\ steady' = steady
          /\ displaced' = displaced /\ pushed' = pushed /\ planted' = planted
      BY <1>8 DEF vars, gitlabVars, historyVars
    <2>2. Resting' <=> Resting
      BY <2>1 DEF Resting
    <2>3. WalkRuns' <=> WalkRuns
      BY <2>1 DEF WalkRuns
    <2>4. Hist' = Hist
      BY <2>1 DEF Hist
    <2>5. ListingRuns' <=> ListingRuns
      BY <2>1, <2>4 DEF ListingRuns
    <2> QED
      BY <2>1, <2>2, <2>3, <2>5 DEF ReadsInv
  <1> QED
    BY <1>1, <1>2, <1>3, <1>4, <1>5, <1>6, <1>7, <1>8, Zenon DEF Next

\* The invariant holds for ever.
LEMMA ReadsInvariant == Spec => []ReadsInv
  BY InitReads, NextReads, PTL DEF Spec

-----------------------------------------------------------------------------
\* What the invariant says.

\* When a listing is done, it is finished.
LEMMA DoneIsFinished ==
    ASSUME ReadsInv, Listed
    PROVE  /\ ListInv(call, list, Hist) /\ Finished(call, list, Hist)
           /\ call \in ListCall /\ list \in Lists /\ list \in Seq(Item) /\ Len(list) \in Nat /\ DOMAIN list = 1..Len(list)
           /\ Hist.steady = steady /\ Hist.displaced = displaced /\ Hist.pushed = pushed /\ Hist.changes = changes
  <1>1. call.stage = "done" /\ call.fn \notin Walking
    BY DEF Listed
  <1>2. ~Resting
    BY <1>1 DEF Resting
  <1>3. ~WalkRuns
    BY <1>1, Kinds
  <1>4. ListInv(call, list, Hist)
    BY <1>2, <1>3 DEF ReadsInv, ListingRuns
  <1>5. Finished(call, list, Hist)
    BY <1>1, <1>4 DEF ListInv, Reading
  <1>6. call \in ListCall /\ list \in Lists
    BY <1>4 DEF ListInv, Shaped
  <1>7. list \in Seq(Item) /\ Len(list) \in Nat /\ DOMAIN list = 1..Len(list)
    BY <1>6, ListFacts
  <1> QED
    BY <1>4, <1>5, <1>6, <1>7 DEF Hist

\* The state of the client and of GitLab is what it should be: the page asked for is never
\* further than the items and the changes allow.
THEOREM ReadsAreTyped == Spec => []TypeOK
  <1>1. ASSUME ReadsInv
        PROVE  TypeOK
    <2>1. /\ list \in Lists /\ parent \in Trees /\ changes \in 0..MaxChanges
          /\ steady \subseteq Item /\ displaced \subseteq Item /\ pushed \subseteq Item
      BY <1>1 DEF ReadsInv
    <2>2. planted \subseteq Created
      BY <1>1 DEF ReadsInv, Resting, WalkRuns, ListingRuns, Planted, Created, CreatedIn
    <2>3. call.stage \in {"idle", "root", "reading", "taking", "popping", "fetching", "done", "failed"}
      BY <1>1, Kinds DEF ReadsInv, Resting
    <2>4. call.fn \in Collecting \cup Unfiltered \cup Choosing =>
            call.page \in 1..(Cardinality(Item) + changes + 1) /\ call.got \in Seq(Item) /\ call.items \in Seq(Item)
      <3> SUFFICES ASSUME call.fn \in Collecting \cup Unfiltered \cup Choosing
                   PROVE  call.page \in 1..(Cardinality(Item) + changes + 1) /\ call.got \in Seq(Item) /\ call.items \in Seq(Item)
        OBVIOUS
      <3>1. ListingRuns
        BY <1>1, Kinds DEF ReadsInv
      <3>2. Shaped(call, list, Hist)
        BY <3>1 DEF ListingRuns, ListInv
      <3>3. /\ call.page \in Nat /\ call.page >= 1 /\ call.got \in Seq(Item) /\ call.items \in Seq(Item)
            /\ call.page <= Cardinality(Item) + changes + 1
        BY <3>2 DEF Shaped, ListCall, Hist
      <3>4. Cardinality(Item) + changes + 1 \in Nat
        BY <2>1, BoundAssumption, ItemAssumption, FS_CardinalityType
      <3> QED
        BY <3>3, <3>4
    <2>5. call.fn \in Walking => call.got \in Seq(Pipeline) /\ call.todo \in Seq(Pipeline)
      BY <1>1, Kinds DEF ReadsInv, WalkCall
    <2> QED
      BY <2>1, <2>2, <2>3, <2>4, <2>5 DEF TypeOK
  <1> QED
    BY <1>1, ReadsInvariant, PTL

\* A listing of a list that does not change returns exactly what it should, once each:
\* the pages together are the list, and the first of each name is the latest.
THEOREM ListingsAreExact == Spec => []ListedAsOfOneState
  <1>1. ASSUME ReadsInv
        PROVE  ListedAsOfOneState
    <2> SUFFICES ASSUME Listed, changes = 0
                 PROVE  ToSet(call.got) = Expected(list) /\ IsInjective(call.got)
      BY DEF ListedAsOfOneState
    <2>1. PICK c, l, h : c = call /\ l = list /\ h = Hist
      OBVIOUS
    <2>2. /\ Finished(c, l, h) /\ c \in ListCall /\ l \in Lists /\ Len(l) \in Nat /\ DOMAIN l = 1..Len(l)
          /\ h.changes = 0
      BY <1>1, <2>1, DoneIsFinished
    <2>3. /\ h.pushed = {}
          /\ c.fn \in Unfiltered => ToSet(c.got) = {l[i] : i \in Places(l, Len(l))}
          /\ c.fn \in Collecting => ToSet(c.got) = {l[i] : i \in Places(l, Len(l))} \cap Accepted
          /\ c.fn \in Choosing => ToSet(c.got) = ChosenOf(c, l)
          /\ TakenOnce(c, h)
      BY <2>2 DEF Finished
    <2>4. Places(l, Len(l)) = 1..Len(l)
      <3>1. \A i \in 1..Len(l) : i <= Len(l)
        BY <2>2
      <3> QED
        BY <3>1 DEF Places
    <2>5. ToSet(l) = {l[i] : i \in Places(l, Len(l))}
      BY <2>2, <2>4 DEF ToSet
    <2>6. Chosen(l) = ChosenOf(c, l)
      <3> DEFINE FitsAt(i) == l[i] \in Accepted /\ Name[l[i]] \in call.only
                 firsts == {i \in DOMAIN l : FitsAt(i) /\ \A j \in 1..(i - 1) : FitsAt(j) => Name[l[j]] # Name[l[i]]}
      <3>1. Chosen(l) = {l[i] : i \in {k \in firsts : call.limit = 0 \/ Cardinality({j \in firsts : j <= k}) <= call.limit}}
        BY Zenon DEF Chosen
      <3>2. firsts = Firsts(c, l, Len(l))
        BY <2>1, <2>2, <2>4 DEF Firsts, Fits
      <3> HIDE DEF firsts
      <3>3. \A k : {j \in firsts : j <= k} = Firsts(c, l, k)
        BY <2>2, <3>2, FirstsGrow
      <3>4. \A k : Cardinality({j \in firsts : j <= k}) = Cardinality(Firsts(c, l, k))
        BY <3>3, Zenon
      <3>5. {k \in firsts : call.limit = 0 \/ Cardinality({j \in firsts : j <= k}) <= call.limit}
              = {k \in Firsts(c, l, Len(l)) : c.limit = 0 \/ Cardinality(Firsts(c, l, k)) <= c.limit}
        <4> DEFINE N(k) == Cardinality({j \in firsts : j <= k})
        <4>1. \A k : N(k) = Cardinality(Firsts(c, l, k))
          BY <3>4
        <4> HIDE DEF N
        <4>2. {k \in firsts : call.limit = 0 \/ N(k) <= call.limit}
                = {k \in Firsts(c, l, Len(l)) : c.limit = 0 \/ Cardinality(Firsts(c, l, k)) <= c.limit}
          BY <4>1, <2>1, <3>2
        <4> QED
          BY <4>2, Zenon DEF N
      <3> QED
        BY <3>1, <3>5, Zenon DEF ChosenOf
    <2>7. ToSet(c.got) = Expected(l)
      <3>1. CASE c.fn \in Unfiltered
        BY <3>1, <2>1, <2>3, <2>5, FunctionsDiffer DEF Expected
      <3>2. CASE c.fn \in Collecting
        BY <3>2, <2>1, <2>3, <2>5, FunctionsDiffer DEF Expected
      <3>3. CASE c.fn \in Choosing
        BY <3>3, <2>1, <2>3, <2>6, FunctionsDiffer DEF Expected
      <3> QED
        BY <3>1, <3>2, <3>3, <2>2 DEF ListCall
    <2>8. IsInjective(c.got)
      <3>1. c.got \in Seq(Item) /\ DOMAIN c.got = 1..Len(c.got) /\ Len(c.got) \in Nat
        BY <2>2 DEF ListCall
      <3>2. \A a, b \in 1..Len(c.got) : c.got[a] = c.got[b] => ~(a < b) /\ ~(b < a)
        BY <2>3 DEF TakenOnce
      <3>3. \A a, b \in 1..Len(c.got) : c.got[a] = c.got[b] => a = b
        BY <3>1, <3>2
      <3> QED
        BY <3>1, <3>3 DEF IsInjective
    <2> QED
      BY <2>1, <2>7, <2>8
  <1> QED
    BY <1>1, ReadsInvariant, PTL

\* An item that is there all along is missed only when the list moved it over the place
\* read next, and with keyset pagination never.
THEOREM OnlyTheDisplacedAreMissed == Spec => []MissedOnlyIfDisplaced
  <1>1. ASSUME ReadsInv
        PROVE  MissedOnlyIfDisplaced
    <2> SUFFICES ASSUME Listed, NEW item \in steady \cap (IF call.fn \in Unfiltered THEN Item ELSE Accepted)
                 PROVE  \/ item \in ToSet(call.got)
                        \/ item \in displaced /\ ~call.keyset
                        \/ /\ call.fn \in Choosing
                           /\ \/ Name[item] \notin call.only
                              \/ call.limit > 0 /\ Len(call.got) = call.limit
                              \/ \E j \in ToSet(call.got) : Name[j] = Name[item]
      BY DEF MissedOnlyIfDisplaced
    <2>1. PICK h : h = Hist
      OBVIOUS
    <2>2. /\ Accounted(call, list, h, Len(list)) /\ h.steady = steady /\ h.displaced = displaced
          /\ h.steady \subseteq ToSet(list) /\ list \in Seq(Item) /\ Len(list) \in Nat
      BY <1>1, <2>1, DoneIsFinished DEF Finished, ListInv, Shaped
    <2>3. PICK i \in 1..Len(list) : list[i] = item
      BY <2>2, Elements
    <2>4. i <= Len(list) /\ list[i] \in h.steady \cap Wanted(call)
      BY <2>2, <2>3 DEF Wanted
    <2>5. list[i] \in ToSet(call.got) \/ (list[i] \in h.displaced /\ ~call.keyset) \/ Excused(call, list[i])
      BY <2>2, <2>4 DEF Accounted
    <2> QED
      BY <2>2, <2>3, <2>5 DEF Excused, Full
  <1> QED
    BY <1>1, ReadsInvariant, PTL

\* Of two items of a name the one listed first is taken unless it came forward, and what is
\* returned twice went back in between.
THEOREM TheLatestIsTaken == Spec => []MostRecentOfName
  <1>1. ASSUME ReadsInv
        PROVE  MostRecentOfName
    <2> SUFFICES ASSUME Listed
                 PROVE  /\ \A i, j \in DOMAIN list :
                             call.fn \in Choosing /\ i < j /\ {list[i], list[j]} \subseteq steady \cap Accepted
                             /\ Name[list[i]] = Name[list[j]] /\ list[j] \in ToSet(call.got)
                               => list[i] \in displaced
                        /\ \A i, j \in DOMAIN call.got : i < j /\ call.got[i] = call.got[j] => call.got[i] \in pushed
      BY DEF MostRecentOfName
    <2>1. PICK h : h = Hist
      OBVIOUS
    <2>2. /\ FirstTaken(call, list, h) /\ TakenOnce(call, h) /\ DOMAIN list = 1..Len(list)
          /\ h.steady = steady /\ h.displaced = displaced /\ h.pushed = pushed /\ call \in ListCall
      BY <1>1, <2>1, DoneIsFinished DEF Finished
    <2>3. DOMAIN call.got = 1..Len(call.got)
      BY <2>2 DEF ListCall
    <2> QED
      BY <2>2, <2>3 DEF FirstTaken, TakenOnce
  <1> QED
    BY <1>1, ReadsInvariant, PTL

\* Every pipeline of a tree is counted once, whatever is triggered during the walk.
THEOREM TreesAreWalkedOnce == Spec => []WalkedOnce
  <1>1. ASSUME ReadsInv
        PROVE  WalkedOnce
    <2> SUFFICES ASSUME call.stage = "done", call.fn \in Walking
                 PROVE  /\ IsInjective(call.got)
                        /\ (IF call.children THEN planted ELSE {Root}) \subseteq ToSet(call.got)
                        /\ ToSet(call.got) \subseteq (IF call.children THEN Created ELSE {Root})
      BY DEF WalkedOnce
    <2>1. WalkRuns /\ parent \in Trees
      BY <1>1, Kinds DEF ReadsInv
    <2> QED
      BY <2>1, WalkCountsOnce DEF WalkRuns
  <1> QED
    BY <1>1, ReadsInvariant, PTL
=================================================================================
