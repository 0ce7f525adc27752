-------------------------- MODULE SolverGridProofs --------------------------
(***************************************************************************)
(* Several solver grids share a tree correctly, for every number of        *)
(* dimensions, every set of grids and all capacities: no operation of one  *)
(* grid takes a node from another or moves a value of another, the links   *)
(* between cells and nodes are inverse to each other between two sorts,    *)
(* a sort places every cell and keeps every value, and the search for the  *)
(* neighbours of a cell within a grid finds what touches it.               *)
(***************************************************************************)
EXTENDS SolverGrid, FiniteSetTheorems, FunctionTheorems, SequenceTheorems, TLAPS

-----------------------------------------------------------------------------
(* Nodes and their groups. *)

LEMMA ChildrenNumber ==
  /\ NC \in {2, 4, 8}
  /\ child_pos = 0 .. NC - 1
<1>1. Nd \in {1, 2, 3}
  BY NdAssumption
<1>2. 2^1 = 2 /\ 2^2 = 4 /\ 2^3 = 8
  OBVIOUS
<1> QED BY <1>1, <1>2 DEF NC, no_children, child_pos

LEMMA NodeOfGroup ==
  ASSUME NEW s \in Nat \ {0}, NEW p \in child_pos
  PROVE  /\ node(s, p) \in Nat \ {0}
         /\ group(node(s, p)) = s
         /\ (node(s, p) - 1) % NC = p
<1>1. p \in 0 .. NC - 1
  BY ChildrenNumber
<1>2. CASE NC = 2
  BY <1>1, <1>2 DEF node, group
<1>3. CASE NC = 4
  BY <1>1, <1>3 DEF node, group
<1>4. CASE NC = 8
  BY <1>1, <1>4 DEF node, group
<1> QED BY <1>2, <1>3, <1>4, ChildrenNumber

LEMMA GroupOfNode ==
  ASSUME NEW n \in Nat \ {0}
  PROVE  /\ group(n) \in Nat \ {0}
         /\ (n - 1) % NC \in child_pos
         /\ n = node(group(n), (n - 1) % NC)
<1>1. CASE NC = 2
  BY <1>1, ChildrenNumber DEF node, group
<1>2. CASE NC = 4
  BY <1>2, ChildrenNumber DEF node, group
<1>3. CASE NC = 8
  BY <1>3, ChildrenNumber DEF node, group
<1> QED BY <1>1, <1>2, <1>3, ChildrenNumber

-----------------------------------------------------------------------------
(* The order of a finite set of numbers. *)

LEMMA RankBounds ==
  ASSUME NEW S \in SUBSET Nat, IsFiniteSet(S), NEW n \in S
  PROVE  /\ Rank(S, n) \in 0 .. Cardinality(S) - 1
         /\ \A m \in S : m < n => Rank(S, m) < Rank(S, n)
<1>1. Cardinality(S) \in Nat
  BY FS_CardinalityType
<1>2. ASSUME NEW T \in SUBSET S, n \notin T
      PROVE  IsFiniteSet(T) /\ Cardinality(T) \in Nat /\ Cardinality(T) < Cardinality(S)
  <2>1. IsFiniteSet(T) /\ Cardinality(T) <= Cardinality(S)
        /\ (Cardinality(S) = Cardinality(T) => S = T)
    BY FS_Subset
  <2>2. S # T
    BY <1>2
  <2> QED BY <1>1, <2>1, <2>2, FS_CardinalityType
<1>3. Rank(S, n) \in 0 .. Cardinality(S) - 1
  <2>1. n \notin {m \in S : m < n}
    BY DEF Rank
  <2> QED BY <1>1, <1>2, <2>1 DEF Rank
<1>4. ASSUME NEW m \in S, m < n PROVE Rank(S, m) < Rank(S, n)
  <2> DEFINE A == {k \in S : k < m}
             B == {k \in S : k < n}
  <2>1. A \in SUBSET B /\ m \in B /\ m \notin A
    <3>1. \A k \in S : k < m => k < n
      BY <1>4
    <3>2. ~(m < m)
      OBVIOUS
    <3> QED BY <1>4, <3>1, <3>2
  <2>2. IsFiniteSet(B)
    BY <1>2
  <2>3. IsFiniteSet(A) /\ Cardinality(A) <= Cardinality(B)
        /\ (Cardinality(B) = Cardinality(A) => B = A)
    BY <2>1, <2>2, FS_Subset
  <2>4. Cardinality(A) \in Nat /\ Cardinality(B) \in Nat
    BY <2>2, <2>3, FS_CardinalityType
  <2>5. Cardinality(A) < Cardinality(B)
    BY <2>1, <2>3, <2>4
  <2> QED BY <2>5 DEF Rank
<1> QED BY <1>3, <1>4

LEMMA NthMember ==
  ASSUME NEW S \in SUBSET Nat, IsFiniteSet(S), NEW k \in 0 .. Cardinality(S) - 1
  PROVE  Nth(S, k) \in S /\ Rank(S, Nth(S, k)) = k
<1>1. Cardinality(S) \in Nat
  BY FS_CardinalityType
<1> DEFINE T == 0 .. Cardinality(S) - 1
           f == [n \in S |-> Rank(S, n)]
<1>2. f \in [S -> T]
  BY RankBounds
<1>3. \A m, n \in S : f[m] = f[n] => m = n
  <2> SUFFICES ASSUME NEW m \in S, NEW n \in S, m # n PROVE f[m] # f[n]
    OBVIOUS
  <2>1. m \in Nat /\ n \in Nat
    OBVIOUS
  <2>2. m < n \/ n < m
    BY <2>1
  <2>3. Rank(S, m) \in T /\ Rank(S, n) \in T
    BY RankBounds
  <2>4. Rank(S, m) < Rank(S, n) \/ Rank(S, n) < Rank(S, m)
    BY <2>2, RankBounds
  <2> QED BY <1>1, <2>3, <2>4
<1>4. f \in Injection(S, T)
  BY <1>2, <1>3, Fun_IsInj
<1>5. IsFiniteSet(T) /\ Cardinality(T) = Cardinality(S)
  BY <1>1, FS_Interval
<1>6. f \in Surjection(S, T)
  BY <1>4, <1>5, FS_Injection
<1>7. \E n \in S : f[n] = k
  BY <1>6 DEF Surjection
<1>8. \E n \in S : Rank(S, n) = k
  BY <1>7
<1> QED BY <1>8 DEF Nth

LEMMA NthOfRank ==
  ASSUME NEW S \in SUBSET Nat, IsFiniteSet(S), NEW n \in S
  PROVE  Nth(S, Rank(S, n)) = n
<1>1. Rank(S, n) \in 0 .. Cardinality(S) - 1
  BY RankBounds
<1>2. PICK m : m = Nth(S, Rank(S, n))
  OBVIOUS
<1>3. m \in S /\ Rank(S, m) = Rank(S, n)
  BY <1>1, <1>2, NthMember
<1>4. Rank(S, m) \in Int /\ Rank(S, n) \in Int
  BY <1>1, <1>3
<1>5. m \in Nat /\ n \in Nat
  BY <1>3
<1>6. ~(m < n) /\ ~(n < m)
  BY <1>3, <1>4, RankBounds
<1> QED BY <1>2, <1>5, <1>6

LEMMA MaxMember ==
  ASSUME NEW S \in SUBSET Nat, IsFiniteSet(S), S # {}
  PROVE  Max(S) \in S
<1>1. Cardinality(S) \in Nat /\ Cardinality(S) # 0
  BY FS_CardinalityType, FS_EmptySet
<1>2. PICK n : n = Nth(S, Cardinality(S) - 1)
  OBVIOUS
<1>3. Cardinality(S) - 1 \in 0 .. Cardinality(S) - 1
  BY <1>1
<1>4. n \in S /\ Rank(S, n) = Cardinality(S) - 1
  BY <1>2, <1>3, NthMember
<1>5. ASSUME NEW y \in S PROVE n >= y
  <2>1. Rank(S, y) \in 0 .. Cardinality(S) - 1
    BY RankBounds
  <2>2. ~(n < y)
    BY <1>1, <1>4, <2>1, RankBounds
  <2> QED BY <1>4, <2>2
<1>6. \E x \in S : \A y \in S : x >= y
  BY <1>4, <1>5
<1> QED BY <1>6 DEF Max

LEMMA MinMember ==
  ASSUME NEW S \in SUBSET Nat, IsFiniteSet(S), S # {}
  PROVE  Min(S) \in S /\ \A y \in S : Min(S) <= y
<1>1. Cardinality(S) \in Nat /\ Cardinality(S) # 0
  BY FS_CardinalityType, FS_EmptySet
<1>2. PICK n : n = Nth(S, 0)
  OBVIOUS
<1>3. n \in S /\ Rank(S, n) = 0
  BY <1>1, <1>2, NthMember
<1>4. ASSUME NEW y \in S PROVE n <= y
  <2>1. Rank(S, y) \in 0 .. Cardinality(S) - 1
    BY RankBounds
  <2>2. ~(y < n)
    BY <1>3, <2>1, RankBounds
  <2> QED BY <1>3, <2>2
<1>5. \E x \in S : \A y \in S : x =< y
  BY <1>3, <1>4
<1> QED BY <1>5 DEF Min

-----------------------------------------------------------------------------
(* Paths, and the values of cells, which are paths or the stale one. *)

Words == Seq(0 .. NC)
Paths == Seq(child_pos)

LEMMA PathsAreWords ==
  ASSUME NEW p \in Paths
  PROVE  p \in Words /\ Len(p) \in Nat /\ DOMAIN p = 1 .. Len(p)
<1>1. \A c \in child_pos : c \in 0 .. NC
  BY ChildrenNumber
<1> DEFINE S == child_pos
           T == 0 .. NC
<1>2. S \subseteq T
  BY <1>1
<1> HIDE DEF S, T
<1>3. \A q \in Seq(S) : q \in Seq(T)
  BY <1>2
<1> QED BY <1>3 DEF S, T, Paths, Words

LEMMA SameBeginning ==
  ASSUME NEW p \in Words, NEW q \in Words, NEW i \in Int,
         i <= Len(p), i <= Len(q)
  PROVE  SubSeq(p, 1, i) = SubSeq(q, 1, i) <=> \A j \in 1 .. i : p[j] = q[j]
<1> DEFINE S == 0 .. NC
           m == IF 1 <= i THEN i ELSE 0
<1>0. p \in Seq(S) /\ q \in Seq(S)
  BY DEF Words
<1> HIDE DEF S
<1>1. /\ Len(p) \in Nat /\ Len(q) \in Nat
      /\ \A j \in 1 .. i : p[j] \in S /\ q[j] \in S
  <2>1. Len(p) \in Nat /\ Len(q) \in Nat
    BY <1>0
  <2>2. \A j \in 1 .. i : j \in 1 .. Len(p) /\ j \in 1 .. Len(q)
    BY <2>1
  <2> QED BY <1>0, <2>1, <2>2
<1> DEFINE u == SubSeq(p, 1, i)
           v == SubSeq(q, 1, i)
<1>2. u \in Seq(S) /\ Len(u) = m /\ \A j \in 1 .. i : u[j] = p[j]
  BY <1>0, <1>1, SubSeqProperties
<1>3. v \in Seq(S) /\ Len(v) = m /\ \A j \in 1 .. i : v[j] = q[j]
  BY <1>0, <1>1, SubSeqProperties
<1>4. ASSUME \A j \in 1 .. i : p[j] = q[j] PROVE u = v
  <2>1. \A j \in 1 .. m : u[j] = v[j]
    BY <1>2, <1>3, <1>4
  <2> HIDE DEF u, v, m
  <2> QED BY <2>1, <1>2, <1>3, SeqEqual
<1> QED BY <1>2, <1>3, <1>4

(* a is b or lies over it. *)
Over(a, b) == Len(a) <= Len(b) /\ \A j \in 1 .. Len(a) : a[j] = b[j]

LEMMA PrefixIsOver ==
  ASSUME NEW a \in Words, NEW b \in Words
  PROVE  IsPrefix(a, b) <=> Over(a, b)
<1>1. Len(a) \in Nat /\ Len(b) \in Nat
  BY DEF Words
<1>2. Len(a) <= Len(b) =>
        (SubSeq(a, 1, Len(a)) = SubSeq(b, 1, Len(a))
           <=> \A j \in 1 .. Len(a) : a[j] = b[j])
  BY <1>1, SameBeginning
<1> QED BY <1>1, <1>2 DEF IsPrefix, Over

LEMMA OverItself ==
  ASSUME NEW a \in Words, NEW b \in Words
  PROVE  /\ Over(a, a)
         /\ Over(a, b) /\ Len(a) = Len(b) => a = b
<1>1. Len(a) \in Nat /\ Len(b) \in Nat
  BY DEF Words
<1>2. Over(a, b) /\ Len(a) = Len(b) => a = b
  BY SeqEqual DEF Over, Words
<1> QED BY <1>1, <1>2 DEF Over

LEMMA OverChain ==
  ASSUME NEW a \in Words, NEW b \in Words, NEW c \in Words
  PROVE  /\ Over(a, b) /\ Over(b, c) => Over(a, c)
         /\ Over(a, c) /\ Over(b, c) => Over(a, b) \/ Over(b, a)
<1>1. Len(a) \in Nat /\ Len(b) \in Nat /\ Len(c) \in Nat
  BY DEF Words
<1> QED BY <1>1 DEF Over

LEMMA PathAppend ==
  ASSUME NEW p \in Paths, NEW c \in child_pos
  PROVE  /\ Append(p, c) \in Paths
         /\ Len(Append(p, c)) = Len(p) + 1
         /\ \A j \in 1 .. Len(p) : Append(p, c)[j] = p[j]
         /\ Append(p, c)[Len(p) + 1] = c
         /\ Append(p, c) # <<>>
         /\ Over(p, Append(p, c))
         /\ Front(Append(p, c)) = p
         /\ Last(Append(p, c)) = c
<1>1. /\ Len(p) \in Nat
      /\ Append(p, c) \in Paths
      /\ Len(Append(p, c)) = Len(p) + 1
      /\ \A j \in 1 .. Len(p) : Append(p, c)[j] = p[j]
      /\ Append(p, c)[Len(p) + 1] = c
  BY DEF Paths
<1>2. Append(p, c) # <<>>
  BY <1>1
<1>3. Over(p, Append(p, c))
  BY <1>1 DEF Over
<1>4. Front(Append(p, c)) = p
  <2>1. Front(Append(p, c)) = SubSeq(Append(p, c), 1, Len(p))
    BY <1>1 DEF Front
  <2>2. SubSeq(p, 1, Len(p)) = p
    BY SubSeqFull DEF Paths
  <2>3. SubSeq(p, 1, Len(p)) = SubSeq(Append(p, c), 1, Len(p))
    <3>1. p \in Words /\ Append(p, c) \in Words /\ Len(p) \in Int
          /\ Len(p) <= Len(Append(p, c))
      BY <1>1, PathsAreWords
    <3> QED BY <1>1, <3>1, SameBeginning
  <2> QED BY <2>1, <2>2, <2>3
<1> QED BY <1>1, <1>2, <1>3, <1>4 DEF Last

(* Paths with the same end, below equal paths only. *)
LEMMA AppendOneToOne ==
  ASSUME NEW p \in Paths, NEW q \in Paths, NEW c \in child_pos, NEW d \in child_pos,
         Append(p, c) = Append(q, d)
  PROVE  p = q /\ c = d
<1>1. Front(Append(p, c)) = p /\ Last(Append(p, c)) = c
  BY PathAppend
<1>2. Front(Append(q, d)) = q /\ Last(Append(q, d)) = d
  BY PathAppend
<1> QED BY <1>1, <1>2

(* A path that is not empty is the path of a child. *)
LEMMA PathOfChild ==
  ASSUME NEW p \in Paths, p # <<>>
  PROVE  /\ Front(p) \in Paths /\ Last(p) \in child_pos
         /\ Len(p) >= 1 /\ Len(Front(p)) = Len(p) - 1
         /\ p = Append(Front(p), Last(p))
<1>1. Len(p) \in Nat /\ Len(p) >= 1
  BY DEF Paths
<1> DEFINE f == Front(p)
           S == child_pos
<1>2. p \in Seq(S) /\ Last(p) \in S
  BY <1>1 DEF Paths, Last
<1>3. /\ f \in Seq(S) /\ Len(f) = Len(p) - 1
      /\ \A j \in 1 .. Len(p) - 1 : f[j] = p[j]
  <2> HIDE DEF S
  <2>1. \A j \in 1 .. Len(p) - 1 : j \in 1 .. Len(p)
    BY <1>1
  <2>2. \A j \in 1 .. Len(p) - 1 : p[j] \in S
    BY <1>2, <2>1
  <2>3. PICK n : n = Len(p) - 1
    OBVIOUS
  <2>4. /\ SubSeq(p, 1, n) \in Seq(S)
        /\ Len(SubSeq(p, 1, n)) = IF 1 <= n THEN n - 1 + 1 ELSE 0
        /\ \A j \in 1 .. n - 1 + 1 : SubSeq(p, 1, n)[j] = p[1 + j - 1]
    BY <1>1, <2>2, <2>3, SubSeqProperties
  <2> HIDE DEF S
  <2> QED BY <1>1, <2>3, <2>4 DEF Front
<1> HIDE DEF f
<1>4. Append(f, Last(p)) = p
  <2>1. /\ Append(f, Last(p)) \in Seq(S)
        /\ Len(Append(f, Last(p))) = Len(p)
        /\ \A j \in 1 .. Len(p) - 1 : Append(f, Last(p))[j] = p[j]
        /\ Append(f, Last(p))[Len(p)] = p[Len(p)]
    <3> HIDE DEF S
    <3> QED BY <1>1, <1>2, <1>3 DEF Last
  <2>2. \A j \in 1 .. Len(p) : Append(f, Last(p))[j] = p[j]
    <3>1. \A j \in 1 .. Len(p) : j \in 1 .. Len(p) - 1 \/ j = Len(p)
      BY <1>1
    <3> QED BY <2>1, <3>1
  <2> HIDE DEF S
  <2> QED BY <1>2, <2>1, <2>2, SeqEqual
<1> QED BY <1>1, <1>2, <1>3, <1>4 DEF f, Paths

-----------------------------------------------------------------------------
(* The groups describe a tree: different nodes have their children in       *)
(* different groups, and what lies over a node with children has children.  *)

IsTree(gs) ==
  /\ DOMAIN gs \subseteq 1 .. NoGroups
  /\ \A s \in DOMAIN gs : gs[s] \in Paths
  /\ \A s, t \in DOMAIN gs : gs[s] = gs[t] => s = t
  /\ \A s \in DOMAIN gs : \A k \in 0 .. Len(gs[s]) - 1 :
       \E t \in DOMAIN gs : gs[t] = SubSeq(gs[s], 1, k)

UsedIn(gs) == {0} \cup {node(s, p) : s \in DOMAIN gs, p \in child_pos}
PathIn(gs, n) == IF n = 0 THEN <<>> ELSE Append(gs[group(n)], (n - 1) % NC)

LEMMA TheTree ==
  UsedNodes = UsedIn(groups) /\ \A n : Path(n) = PathIn(groups, n)
BY DEF UsedNodes, UsedIn, Path, PathIn

LEMMA EmptyTree == IsTree(<<>>) /\ 0 \in UsedIn(<<>>)
<1>1. DOMAIN <<>> = {}
  OBVIOUS
<1> QED BY <1>1 DEF IsTree, UsedIn

LEMMA UsedNode ==
  ASSUME NEW gs, IsTree(gs), NEW n \in UsedIn(gs), n # 0
  PROVE  /\ n \in Nat \ {0} /\ group(n) \in DOMAIN gs
         /\ (n - 1) % NC \in child_pos
         /\ n = node(group(n), (n - 1) % NC)
         /\ gs[group(n)] \in Paths
         /\ PathIn(gs, n) = Append(gs[group(n)], (n - 1) % NC)
         /\ PathIn(gs, n) \in Paths
<1>1. PICK s \in DOMAIN gs, p \in child_pos : n = node(s, p)
  BY DEF UsedIn
<1>2. s \in Nat \ {0}
  BY SizeAssumption DEF IsTree
<1>3. n \in Nat \ {0} /\ group(n) = s /\ (n - 1) % NC = p
  BY <1>1, <1>2, NodeOfGroup
<1>4. gs[s] \in Paths
  BY DEF IsTree
<1>5. PathIn(gs, n) = Append(gs[s], p)
  BY <1>3 DEF PathIn
<1>6. Append(gs[s], p) \in Paths
  BY <1>4, PathAppend
<1> QED BY <1>1, <1>3, <1>4, <1>5, <1>6

LEMMA NodeInUse ==
  ASSUME NEW gs, IsTree(gs), NEW s \in DOMAIN gs, NEW p \in child_pos
  PROVE  /\ node(s, p) \in UsedIn(gs) /\ node(s, p) # 0
         /\ group(node(s, p)) = s
         /\ (node(s, p) - 1) % NC = p
         /\ PathIn(gs, node(s, p)) = Append(gs[s], p)
<1>1. s \in Nat \ {0}
  BY SizeAssumption DEF IsTree
<1>2. node(s, p) \in Nat \ {0} /\ group(node(s, p)) = s /\ (node(s, p) - 1) % NC = p
  BY <1>1, NodeOfGroup
<1>3. node(s, p) \in UsedIn(gs)
  BY DEF UsedIn
<1> QED BY <1>2, <1>3 DEF PathIn

LEMMA PathType ==
  ASSUME NEW gs, IsTree(gs), NEW n \in UsedIn(gs)
  PROVE  n \in Nat /\ PathIn(gs, n) \in Paths
<1>1. CASE n = 0
  BY <1>1 DEF PathIn, Paths
<1>2. CASE n # 0
  BY <1>2, UsedNode
<1> QED BY <1>1, <1>2

LEMMA PathOneToOne ==
  ASSUME NEW gs, IsTree(gs), NEW m \in UsedIn(gs), NEW n \in UsedIn(gs),
         PathIn(gs, m) = PathIn(gs, n)
  PROVE  m = n
<1>1. ASSUME NEW k \in UsedIn(gs), k # 0 PROVE PathIn(gs, k) # <<>>
  BY <1>1, UsedNode, PathAppend
<1>2. PathIn(gs, 0) = <<>>
  BY DEF PathIn
<1>3. CASE m = 0 \/ n = 0
  BY <1>1, <1>2, <1>3
<1>4. CASE m # 0 /\ n # 0
  <2>1. /\ group(m) \in DOMAIN gs /\ (m - 1) % NC \in child_pos
        /\ m = node(group(m), (m - 1) % NC)
        /\ gs[group(m)] \in Paths
        /\ PathIn(gs, m) = Append(gs[group(m)], (m - 1) % NC)
    BY <1>4, UsedNode
  <2>2. /\ group(n) \in DOMAIN gs /\ (n - 1) % NC \in child_pos
        /\ n = node(group(n), (n - 1) % NC)
        /\ gs[group(n)] \in Paths
        /\ PathIn(gs, n) = Append(gs[group(n)], (n - 1) % NC)
    BY <1>4, UsedNode
  <2>3. gs[group(m)] = gs[group(n)] /\ (m - 1) % NC = (n - 1) % NC
    <3>1. PICK p, c : p = gs[group(m)] /\ c = (m - 1) % NC
      OBVIOUS
    <3>2. PICK q, d : q = gs[group(n)] /\ d = (n - 1) % NC
      OBVIOUS
    <3>3. p \in Paths /\ q \in Paths /\ c \in child_pos /\ d \in child_pos
      BY <2>1, <2>2, <3>1, <3>2
    <3>4. Append(p, c) = Append(q, d)
      BY <2>1, <2>2, <3>1, <3>2
    <3>5. p = q /\ c = d
      BY <3>3, <3>4, AppendOneToOne
    <3> QED BY <3>1, <3>2, <3>5
  <2>4. group(m) = group(n)
    BY <2>1, <2>2, <2>3 DEF IsTree
  <2> QED BY <2>1, <2>2, <2>3, <2>4
<1> QED BY <1>3, <1>4

(* The children of a node with children are in one group. *)
LEMMA ChildNodes ==
  ASSUME NEW gs, IsTree(gs), NEW s \in DOMAIN gs
  PROVE  /\ ChildrenIn(gs, gs[s]) = {node(s, p) : p \in child_pos}
         /\ ChildrenIn(gs, gs[s]) \subseteq UsedIn(gs)
         /\ IsFiniteSet(ChildrenIn(gs, gs[s]))
         /\ Cardinality(ChildrenIn(gs, gs[s])) = NC
         /\ \A m \in ChildrenIn(gs, gs[s]) :
              m # 0 /\ group(m) = s
              /\ \E p \in child_pos : PathIn(gs, m) = Append(gs[s], p)
<1>1. {t \in DOMAIN gs : gs[t] = gs[s]} = {s}
  BY DEF IsTree
<1>2. ChildrenIn(gs, gs[s]) = {node(s, p) : p \in child_pos}
  BY <1>1 DEF ChildrenIn
<1> DEFINE f == [p \in child_pos |-> node(s, p)]
           T == {node(s, p) : p \in child_pos}
<1>3. f \in [child_pos -> T]
  OBVIOUS
<1>4. \A p, q \in child_pos : f[p] = f[q] => p = q
  <2> SUFFICES ASSUME NEW p \in child_pos, NEW q \in child_pos, node(s, p) = node(s, q)
               PROVE  p = q
    OBVIOUS
  <2> QED BY NodeInUse
<1>5. \A t \in T : \E p \in child_pos : f[p] = t
  OBVIOUS
<1>6. f \in Bijection(child_pos, T)
  BY <1>3, <1>4, <1>5, Fun_IsBij
<1>7. IsFiniteSet(child_pos) /\ Cardinality(child_pos) = NC
  <2>1. NC - 1 \in Int /\ 0 \in Int /\ child_pos = 0 .. NC - 1 /\ 0 <= NC - 1
    BY ChildrenNumber
  <2>2. IsFiniteSet(0 .. NC - 1)
        /\ Cardinality(0 .. NC - 1) = IF 0 > NC - 1 THEN 0 ELSE NC - 1 - 0 + 1
    BY <2>1, FS_Interval
  <2> QED BY <2>1, <2>2, ChildrenNumber
<1>8. IsFiniteSet(T) /\ Cardinality(T) = NC
  BY <1>6, <1>7, FS_Bijection DEF ExistsBijection
<1>9. \A m \in T : /\ m \in UsedIn(gs) /\ m # 0 /\ group(m) = s
                   /\ \E p \in child_pos : PathIn(gs, m) = Append(gs[s], p)
  BY NodeInUse
<1> QED BY <1>2, <1>8, <1>9

LEMMA UsedFinite ==
  ASSUME NEW gs, IsTree(gs), NEW S \in SUBSET UsedIn(gs)
  PROVE  S \in SUBSET Nat /\ IsFiniteSet(S) /\ Cardinality(S) \in Nat
<1>1. ASSUME NEW n \in UsedIn(gs)
      PROVE  n \in Nat /\ n <= 8 * NoGroups
  <2>1. CASE n = 0
    BY <2>1, SizeAssumption
  <2>2. CASE n # 0
    <3>1. PICK s, p : s = group(n) /\ p = (n - 1) % NC
      OBVIOUS
    <3>2. s \in DOMAIN gs /\ p \in child_pos /\ n = node(s, p) /\ n \in Nat
      BY <2>2, <3>1, UsedNode
    <3>3. s \in 1 .. NoGroups /\ NoGroups \in Nat /\ p \in 0 .. NC - 1
      BY <3>2, SizeAssumption, ChildrenNumber DEF IsTree
    <3>4. n = 1 + NC * (s - 1) + p
      BY <3>2 DEF node
    <3>5. CASE NC = 2
      BY <3>2, <3>3, <3>4, <3>5
    <3>6. CASE NC = 4
      BY <3>2, <3>3, <3>4, <3>6
    <3>7. CASE NC = 8
      BY <3>2, <3>3, <3>4, <3>7
    <3> QED BY <3>5, <3>6, <3>7, ChildrenNumber
  <2> QED BY <2>1, <2>2
<1>2. 8 * NoGroups \in Nat
  BY SizeAssumption
<1>3. S \in SUBSET Nat /\ \A n \in S : n <= 8 * NoGroups
  BY <1>1
<1>4. IsFiniteSet(S)
  BY <1>2, <1>3, FS_BoundedSetOfNaturals
<1> QED BY <1>3, <1>4, FS_CardinalityType

-----------------------------------------------------------------------------
(* The memory of a grid with the cells C: a cell is free, with no value, or *)
(* it is the cell of one node.                                              *)

Fields == {"in_tree", "ids", "free", "size", "signed_distance"}

Memory(st, C) ==
  /\ DOMAIN st = Fields
  /\ DOMAIN st.in_tree \in SUBSET Nat /\ IsFiniteSet(DOMAIN st.in_tree)
  /\ st.in_tree \in [DOMAIN st.in_tree -> C]
  /\ \A m, n \in DOMAIN st.in_tree : st.in_tree[m] = st.in_tree[n] => m = n
  /\ st.free \in SUBSET C
  /\ Range(st.in_tree) = C \ st.free
  /\ st.size = Cardinality(DOMAIN st.in_tree)
  /\ DOMAIN st.ids = C \ st.free
  /\ st.signed_distance \in [C -> Words]
  /\ \A c \in st.free : st.signed_distance[c] = Stale

(* Its cells know their nodes. *)
LinkedBack(st) ==
  \A c \in DOMAIN st.ids :
    st.ids[c] \in DOMAIN st.in_tree /\ st.in_tree[st.ids[c]] = c

LEMMA LinksInvert ==
  ASSUME NEW C, NEW st, Memory(st, C), LinkedBack(st)
  PROVE  \A n \in DOMAIN st.in_tree :
           /\ st.in_tree[n] \in C /\ st.in_tree[n] \notin st.free
           /\ st.in_tree[n] \in DOMAIN st.ids
           /\ st.ids[st.in_tree[n]] = n
BY DEF Memory, LinkedBack, Range

LEMMA StaleWord == Stale \in Words
BY ChildrenNumber DEF Stale, Words

LEMMA FreshMemory ==
  ASSUME NEW g \in Grid
  PROVE  Memory(Fresh(g), Cell(g)) /\ LinkedBack(Fresh(g))
<1> DEFINE st == Fresh(g)
           C == Cell(g)
<1>1. DOMAIN <<>> = {} /\ <<>> \in [{} -> C] /\ Range(<<>>) = {}
  BY DEF Range
<1>2. IsFiniteSet({}) /\ Cardinality({}) = 0
  BY FS_EmptySet
<1>3. /\ DOMAIN st = Fields /\ st.in_tree = <<>> /\ st.ids = <<>>
      /\ st.free = C /\ st.size = 0
      /\ st.signed_distance = [c \in C |-> Stale]
  BY DEF Fresh, Fields
<1> HIDE DEF st, C
<1>4. Memory(st, C)
  BY <1>1, <1>2, <1>3, StaleWord DEF Memory
<1>5. LinkedBack(st)
  BY <1>1, <1>3 DEF LinkedBack
<1> QED BY <1>4, <1>5 DEF st, C

LEMMA NewCellsDiffer ==
  ASSUME NEW st, st.free \in SUBSET Nat, IsFiniteSet(st.free),
         NEW nodes \in SUBSET Nat, IsFiniteSet(nodes),
         Cardinality(nodes) <= Cardinality(st.free)
  PROVE  /\ NewCells(st, nodes) \in [nodes -> st.free]
         /\ \A m, n \in nodes :
              NewCells(st, nodes)[m] = NewCells(st, nodes)[n] => m = n
<1>1. Cardinality(nodes) \in Nat /\ Cardinality(st.free) \in Nat
  BY FS_CardinalityType
<1>2. ASSUME NEW n \in nodes
      PROVE  /\ Nth(st.free, Rank(nodes, n)) \in st.free
             /\ Rank(st.free, Nth(st.free, Rank(nodes, n))) = Rank(nodes, n)
  <2>1. Rank(nodes, n) \in 0 .. Cardinality(nodes) - 1
    BY RankBounds
  <2>2. Rank(nodes, n) \in 0 .. Cardinality(st.free) - 1
    BY <1>1, <2>1
  <2> QED BY <2>2, NthMember
<1>3. ASSUME NEW m \in nodes, NEW n \in nodes,
             Nth(st.free, Rank(nodes, m)) = Nth(st.free, Rank(nodes, n))
      PROVE  m = n
  <2>1. Rank(nodes, m) = Rank(nodes, n)
    BY <1>2, <1>3
  <2> QED BY <2>1, NthOfRank
<1> QED BY <1>2, <1>3 DEF NewCells

(* What push does to the memory, for nodes that have no cell. *)
LEMMA PushedMemory ==
  ASSUME NEW C \in SUBSET Nat, IsFiniteSet(C),
         NEW st, Memory(st, C), LinkedBack(st),
         NEW nodes \in SUBSET Nat, IsFiniteSet(nodes),
         nodes \cap DOMAIN st.in_tree = {},
         Cardinality(nodes) <= Cardinality(st.free)
  PROVE  LET after == Pushed(st, nodes)
         IN  /\ Memory(after, C)
             /\ LinkedBack(after)
             /\ DOMAIN after.in_tree = DOMAIN st.in_tree \cup nodes
             /\ \A n \in DOMAIN st.in_tree : after.in_tree[n] = st.in_tree[n]
             /\ \A n \in nodes : after.in_tree[n] \in st.free
             /\ after.signed_distance = st.signed_distance
<1>1. PICK new : new = NewCells(st, nodes)
  OBVIOUS
<1>2. IsFiniteSet(st.free) /\ st.free \in SUBSET Nat
  BY FS_Subset DEF Memory
<1>3. new \in [nodes -> st.free] /\ \A m, n \in nodes : new[m] = new[n] => m = n
  <2>1. /\ NewCells(st, nodes) \in [nodes -> st.free]
        /\ \A m, n \in nodes :
             NewCells(st, nodes)[m] = NewCells(st, nodes)[n] => m = n
    BY <1>2, NewCellsDiffer
  <2> QED BY <1>1, <2>1
<1>4. PICK back : back = Backwards(new)
  OBVIOUS
<1>5. /\ DOMAIN back = Range(new)
      /\ \A c \in Range(new) : back[c] \in nodes /\ new[back[c]] = c
      /\ Range(new) \subseteq st.free
  BY <1>3, <1>4 DEF Backwards, Range
<1>6. PICK after : after = Pushed(st, nodes)
  OBVIOUS
<1>7. /\ DOMAIN after = Fields
      /\ after.free = st.free \ Range(new)
      /\ after.size = st.size + Cardinality(nodes)
      /\ after.ids = Joined(back, st.ids)
      /\ after.in_tree = Joined(new, st.in_tree)
      /\ after.signed_distance = st.signed_distance
  BY <1>1, <1>4, <1>6 DEF Pushed, Memory, Fields
<1>8. /\ DOMAIN after.in_tree = DOMAIN st.in_tree \cup nodes
      /\ \A n \in DOMAIN st.in_tree : after.in_tree[n] = st.in_tree[n]
      /\ \A n \in nodes : after.in_tree[n] = new[n]
  BY <1>3, <1>7 DEF Joined
<1>9. after.in_tree \in [DOMAIN after.in_tree -> C]
  <2>1. \A n \in DOMAIN st.in_tree : st.in_tree[n] \in C
    BY DEF Memory
  <2>2. \A n \in nodes : new[n] \in C
    BY <1>3 DEF Memory
  <2>3. \A n \in DOMAIN after.in_tree : after.in_tree[n] \in C
    BY <2>1, <2>2, <1>8
  <2>4. after.in_tree = [n \in DOMAIN after.in_tree |-> after.in_tree[n]]
    BY <1>7 DEF Joined
  <2> QED BY <2>3, <2>4
<1>10. /\ DOMAIN after.ids = Range(new) \cup DOMAIN st.ids
       /\ \A c \in Range(new) : after.ids[c] = back[c]
       /\ \A c \in DOMAIN st.ids : after.ids[c] = st.ids[c]
  BY <1>5, <1>7 DEF Joined, Memory
<1>11. \A m, n \in DOMAIN after.in_tree : after.in_tree[m] = after.in_tree[n] => m = n
  <2>1. \A n \in DOMAIN st.in_tree : after.in_tree[n] \notin st.free
    BY <1>8 DEF Memory, Range
  <2>2. \A n \in nodes : after.in_tree[n] \in st.free
    BY <1>3, <1>8
  <2> SUFFICES ASSUME NEW m \in DOMAIN after.in_tree, NEW n \in DOMAIN after.in_tree,
                      after.in_tree[m] = after.in_tree[n]
               PROVE  m = n
    OBVIOUS
  <2>3. CASE m \in nodes /\ n \in nodes
    BY <2>3, <1>3, <1>8
  <2>4. CASE m \in DOMAIN st.in_tree /\ n \in DOMAIN st.in_tree
    BY <2>4, <1>8 DEF Memory
  <2> QED BY <2>1, <2>2, <2>3, <2>4, <1>8
<1>12. Range(after.in_tree) = C \ after.free
  <2>1. Range(after.in_tree) = Range(st.in_tree) \cup Range(new)
    <3>1. DOMAIN new = nodes
      BY <1>3
    <3>2. \A c : c \in Range(after.in_tree) <=>
                 \E n \in DOMAIN after.in_tree : after.in_tree[n] = c
      BY DEF Range
    <3>3. \A c : c \in Range(st.in_tree) <=>
                 \E n \in DOMAIN st.in_tree : st.in_tree[n] = c
      BY DEF Range
    <3>4. \A c : c \in Range(new) <=> \E n \in nodes : new[n] = c
      BY <3>1 DEF Range
    <3>5. ASSUME NEW c \in Range(after.in_tree) PROVE c \in Range(st.in_tree) \cup Range(new)
      <4>1. PICK n \in DOMAIN after.in_tree : after.in_tree[n] = c
        BY <3>2, <3>5
      <4>2. CASE n \in DOMAIN st.in_tree
        BY <3>3, <4>1, <4>2, <1>8
      <4>3. CASE n \in nodes
        BY <3>4, <4>1, <4>3, <1>8
      <4> QED BY <4>2, <4>3, <1>8
    <3>6. ASSUME NEW c \in Range(st.in_tree) PROVE c \in Range(after.in_tree)
      <4>1. PICK n \in DOMAIN st.in_tree : st.in_tree[n] = c
        BY <3>3, <3>6
      <4> QED BY <3>2, <4>1, <1>8
    <3>7. ASSUME NEW c \in Range(new) PROVE c \in Range(after.in_tree)
      <4>1. PICK n \in nodes : new[n] = c
        BY <3>4, <3>7
      <4> QED BY <3>2, <4>1, <1>8
    <3> QED BY <3>5, <3>6, <3>7
  <2> QED BY <2>1, <1>5, <1>7 DEF Memory
<1>13. IsFiniteSet(DOMAIN after.in_tree) /\ after.size = Cardinality(DOMAIN after.in_tree)
  <2>1. /\ IsFiniteSet(DOMAIN st.in_tree \cup nodes)
        /\ Cardinality(DOMAIN st.in_tree \cup nodes) =
             Cardinality(DOMAIN st.in_tree) + Cardinality(nodes)
               - Cardinality(DOMAIN st.in_tree \cap nodes)
    BY FS_Union DEF Memory
  <2>2. Cardinality(DOMAIN st.in_tree \cap nodes) = 0
    BY FS_EmptySet
  <2>3. Cardinality(DOMAIN st.in_tree) \in Nat /\ Cardinality(nodes) \in Nat
    BY FS_CardinalityType DEF Memory
  <2> QED BY <2>1, <2>2, <2>3, <1>7, <1>8 DEF Memory
<1>14. Memory(after, C)
  <2>1. DOMAIN after.in_tree \in SUBSET Nat
    BY <1>8 DEF Memory
  <2>2. after.free \in SUBSET C /\ DOMAIN after.ids = C \ after.free
    BY <1>5, <1>7, <1>10 DEF Memory
  <2>3. /\ after.signed_distance \in [C -> Words]
        /\ \A c \in after.free : after.signed_distance[c] = Stale
    BY <1>7 DEF Memory
  <2> QED BY <1>7, <1>9, <1>11, <1>12, <1>13, <2>1, <2>2, <2>3 DEF Memory
<1>15. LinkedBack(after)
  <2> SUFFICES ASSUME NEW c \in DOMAIN after.ids
               PROVE  after.ids[c] \in DOMAIN after.in_tree
                      /\ after.in_tree[after.ids[c]] = c
    BY DEF LinkedBack
  <2>1. CASE c \in Range(new)
    BY <2>1, <1>5, <1>8, <1>10
  <2>2. CASE c \in DOMAIN st.ids
    BY <2>2, <1>8, <1>10 DEF LinkedBack
  <2> QED BY <2>1, <2>2, <1>10
<1> QED BY <1>3, <1>6, <1>7, <1>8, <1>14, <1>15

(* What pop does to the memory. *)
LEMMA PoppedMemory ==
  ASSUME NEW C \in SUBSET Nat, IsFiniteSet(C),
         NEW st, Memory(st, C), LinkedBack(st), NEW cs \in SUBSET (C \ st.free)
  PROVE  LET after == Popped(st, cs)
         IN  /\ Memory(after, C)
             /\ LinkedBack(after)
             /\ DOMAIN after.in_tree = {n \in DOMAIN st.in_tree : st.in_tree[n] \notin cs}
             /\ \A n \in DOMAIN after.in_tree :
                  /\ after.in_tree[n] = st.in_tree[n]
                  /\ after.signed_distance[after.in_tree[n]]
                       = st.signed_distance[st.in_tree[n]]
<1>1. PICK after : after = Popped(st, cs)
  OBVIOUS
<1>2. /\ DOMAIN after = Fields
      /\ after.free = st.free \cup cs
      /\ after.size = st.size - Cardinality(cs)
      /\ after.ids = Restrict(st.ids, DOMAIN st.ids \ cs)
      /\ after.in_tree = Restrict(st.in_tree, DOMAIN st.in_tree \ {st.ids[c] : c \in cs})
      /\ after.signed_distance =
           [c \in DOMAIN st.signed_distance |->
              IF c \in cs THEN Stale ELSE st.signed_distance[c]]
  BY <1>1 DEF Popped, Memory, Fields
<1> DEFINE gone == {st.ids[c] : c \in cs}
<1>3. /\ gone \subseteq DOMAIN st.in_tree
      /\ \A n \in DOMAIN st.in_tree : n \in gone <=> st.in_tree[n] \in cs
  <2>1. cs \subseteq DOMAIN st.ids
    BY DEF Memory
  <2>2. \A c \in cs : st.ids[c] \in DOMAIN st.in_tree /\ st.in_tree[st.ids[c]] = c
    BY <2>1 DEF LinkedBack
  <2>3. \A n \in DOMAIN st.in_tree : st.ids[st.in_tree[n]] = n
    BY LinksInvert
  <2>4. gone \subseteq DOMAIN st.in_tree
    BY <2>2
  <2>5. ASSUME NEW n \in gone PROVE st.in_tree[n] \in cs
    <3>1. PICK c \in cs : n = st.ids[c]
      OBVIOUS
    <3> QED BY <3>1, <2>2
  <2>6. ASSUME NEW n \in DOMAIN st.in_tree, st.in_tree[n] \in cs PROVE n \in gone
    <3>1. st.ids[st.in_tree[n]] = n
      BY <2>3
    <3>2. PICK c : c = st.in_tree[n]
      OBVIOUS
    <3> QED BY <3>1, <3>2, <2>6
  <2> QED BY <2>4, <2>5, <2>6
<1>4. /\ DOMAIN after.in_tree = DOMAIN st.in_tree \ gone
      /\ \A n \in DOMAIN after.in_tree : after.in_tree[n] = st.in_tree[n]
      /\ after.in_tree \in [DOMAIN after.in_tree -> C]
  BY <1>2 DEF Restrict, Memory
<1>5. /\ DOMAIN after.ids = DOMAIN st.ids \ cs
      /\ \A c \in DOMAIN after.ids : after.ids[c] = st.ids[c]
  BY <1>2 DEF Restrict
<1>6. IsFiniteSet(gone) /\ Cardinality(gone) = Cardinality(cs) /\ IsFiniteSet(cs)
  <2> DEFINE f == [c \in cs |-> st.ids[c]]
  <2>1. f \in [cs -> gone]
    OBVIOUS
  <2>2. \A c, d \in cs : f[c] = f[d] => c = d
    BY DEF LinkedBack, Memory
  <2>3. \A n \in gone : \E c \in cs : f[c] = n
    OBVIOUS
  <2>4. f \in Bijection(cs, gone)
    BY <2>1, <2>2, <2>3, Fun_IsBij
  <2>5. IsFiniteSet(cs)
    BY FS_Subset
  <2> QED BY <2>4, <2>5, FS_Bijection DEF ExistsBijection
<1> HIDE DEF gone
<1>7. IsFiniteSet(DOMAIN after.in_tree) /\ after.size = Cardinality(DOMAIN after.in_tree)
  <2>1. /\ IsFiniteSet(DOMAIN st.in_tree \ gone)
        /\ Cardinality(DOMAIN st.in_tree \ gone)
             = Cardinality(DOMAIN st.in_tree) - Cardinality(DOMAIN st.in_tree \cap gone)
    BY FS_Difference DEF Memory
  <2>2. DOMAIN st.in_tree \cap gone = gone
    BY <1>3
  <2> QED BY <2>1, <2>2, <1>2, <1>4, <1>6 DEF Memory
<1>8. \A m, n \in DOMAIN after.in_tree : after.in_tree[m] = after.in_tree[n] => m = n
  BY <1>4 DEF Memory
<1>9. Range(after.in_tree) = C \ after.free
  <2>1. ASSUME NEW c \in C \ after.free PROVE c \in Range(after.in_tree)
    <3>1. c \in Range(st.in_tree) /\ c \notin cs
      BY <1>2, <2>1 DEF Memory
    <3>2. PICK n \in DOMAIN st.in_tree : st.in_tree[n] = c
      BY <3>1 DEF Range
    <3> QED BY <3>1, <3>2, <1>3, <1>4 DEF Range
  <2>2. ASSUME NEW n \in DOMAIN after.in_tree PROVE after.in_tree[n] \in C \ after.free
    <3>1. st.in_tree[n] \in C \ st.free
      BY <1>4 DEF Memory, Range
    <3> QED BY <3>1, <1>2, <1>3, <1>4
  <2> QED BY <2>1, <2>2 DEF Range
<1>10. after.free \in SUBSET C /\ DOMAIN after.ids = C \ after.free
  BY <1>2, <1>5 DEF Memory
<1>11. /\ after.signed_distance \in [C -> Words]
       /\ \A c \in after.free : after.signed_distance[c] = Stale
       /\ \A c \in C \ cs : after.signed_distance[c] = st.signed_distance[c]
  <2>1. DOMAIN st.signed_distance = C
        /\ \A c \in C : st.signed_distance[c] \in Words
    BY DEF Memory
  <2>2. after.signed_distance = [c \in C |-> IF c \in cs THEN Stale ELSE st.signed_distance[c]]
    BY <1>2, <2>1
  <2>3. \A c \in st.free \cup cs : c \in C /\ (c \notin cs => st.signed_distance[c] = Stale)
    BY DEF Memory
  <2>4. \A c \in st.free \cup cs : after.signed_distance[c] = Stale
    BY <2>2, <2>3
  <2>5. \A c \in C \ cs : after.signed_distance[c] = st.signed_distance[c]
    BY <2>2
  <2>6. after.signed_distance \in [C -> Words]
    BY <2>1, <2>2, StaleWord
  <2> QED BY <1>2, <2>4, <2>5, <2>6
<1>12. Memory(after, C)
  <2>1. DOMAIN after.in_tree \in SUBSET Nat
    BY <1>4 DEF Memory
  <2> QED BY <2>1, <1>2, <1>4, <1>7, <1>8, <1>9, <1>10, <1>11 DEF Memory
<1>13. LinkedBack(after)
  <2> SUFFICES ASSUME NEW c \in DOMAIN after.ids
               PROVE  after.ids[c] \in DOMAIN after.in_tree
                      /\ after.in_tree[after.ids[c]] = c
    BY DEF LinkedBack
  <2>1. c \in DOMAIN st.ids /\ c \notin cs /\ after.ids[c] = st.ids[c]
    BY <1>5
  <2>2. st.ids[c] \in DOMAIN st.in_tree /\ st.in_tree[st.ids[c]] = c
    BY <2>1 DEF LinkedBack
  <2> QED BY <2>1, <2>2, <1>3, <1>4
<1>14. DOMAIN after.in_tree = {n \in DOMAIN st.in_tree : st.in_tree[n] \notin cs}
  BY <1>3, <1>4
<1>15. \A n \in DOMAIN after.in_tree :
         after.signed_distance[after.in_tree[n]] = st.signed_distance[st.in_tree[n]]
  <2> SUFFICES ASSUME NEW n \in DOMAIN after.in_tree
               PROVE  after.signed_distance[after.in_tree[n]]
                        = st.signed_distance[st.in_tree[n]]
    OBVIOUS
  <2>1. after.in_tree[n] = st.in_tree[n] /\ st.in_tree[n] \in C \ cs
    BY <1>4, <1>14 DEF Memory
  <2> QED BY <2>1, <1>11
<1> QED BY <1>1, <1>4, <1>12, <1>13, <1>14, <1>15

(* New values for the cells in use. *)
LEMMA NewValues ==
  ASSUME NEW C, NEW st, Memory(st, C), LinkedBack(st),
         NEW values \in [C -> Words], \A c \in st.free : values[c] = Stale
  PROVE  LET after == [st EXCEPT !.signed_distance = values]
         IN  /\ Memory(after, C)
             /\ LinkedBack(after)
             /\ after.in_tree = st.in_tree
             /\ after.signed_distance = values
             /\ after.free = st.free
<1>1. PICK after : after = [st EXCEPT !.signed_distance = values]
  OBVIOUS
<1>2. /\ DOMAIN after = Fields
      /\ after.in_tree = st.in_tree /\ after.ids = st.ids
      /\ after.free = st.free /\ after.size = st.size
      /\ after.signed_distance = values
  BY <1>1 DEF Memory, Fields
<1>3. Memory(after, C)
  BY <1>2 DEF Memory
<1>4. LinkedBack(after)
  BY <1>2 DEF LinkedBack
<1> QED BY <1>1, <1>2, <1>3, <1>4

(* update_from_tree: the links anew. *)
LEMMA RelinkedMemory ==
  ASSUME NEW C, NEW st, Memory(st, C)
  PROVE  LET after == [st EXCEPT !.ids = Joined(Backwards(st.in_tree), @)]
         IN  /\ Memory(after, C)
             /\ LinkedBack(after)
             /\ after.in_tree = st.in_tree
             /\ after.signed_distance = st.signed_distance
<1>1. PICK after : after = [st EXCEPT !.ids = Joined(Backwards(st.in_tree), @)]
  OBVIOUS
<1>2. PICK back : back = Backwards(st.in_tree)
  OBVIOUS
<1>3. /\ DOMAIN after = Fields
      /\ after.in_tree = st.in_tree /\ after.ids = Joined(back, st.ids)
      /\ after.free = st.free /\ after.size = st.size
      /\ after.signed_distance = st.signed_distance
  BY <1>1, <1>2 DEF Memory, Fields
<1>4. /\ DOMAIN back = C \ st.free
      /\ \A c \in C \ st.free : /\ back[c] \in DOMAIN st.in_tree
                                /\ st.in_tree[back[c]] = c
  <2>1. DOMAIN back = Range(st.in_tree)
    BY <1>2 DEF Backwards
  <2>2. ASSUME NEW c \in Range(st.in_tree)
        PROVE  back[c] \in DOMAIN st.in_tree /\ st.in_tree[back[c]] = c
    <3>1. \E n \in DOMAIN st.in_tree : st.in_tree[n] = c
      BY <2>2 DEF Range
    <3>2. back[c] = CHOOSE n \in DOMAIN st.in_tree : st.in_tree[n] = c
      BY <1>2, <2>2 DEF Backwards
    <3> QED BY <3>1, <3>2
  <2> QED BY <2>1, <2>2 DEF Memory
<1>5. /\ DOMAIN after.ids = C \ st.free
      /\ \A c \in C \ st.free : after.ids[c] = back[c]
  BY <1>3, <1>4 DEF Joined, Memory
<1>6. Memory(after, C)
  BY <1>3, <1>5 DEF Memory
<1>7. LinkedBack(after)
  BY <1>3, <1>4, <1>5 DEF LinkedBack
<1> QED BY <1>1, <1>3, <1>6, <1>7

LEMMA OtherPlace ==
  ASSUME NEW C, NEW i \in C, NEW j \in C
  PROVE  /\ \A c \in C : Other(i, j, c) \in C
         /\ \A c : Other(i, j, Other(i, j, c)) = c
BY DEF Other

LEMMA ExchangedPlaces ==
  ASSUME NEW f, NEW i, NEW j
  PROVE  /\ DOMAIN Exchanged(f, i, j) = {Other(i, j, k) : k \in DOMAIN f}
         /\ \A k \in DOMAIN f : Exchanged(f, i, j)[Other(i, j, k)] = f[k]
<1>1. \A c : Other(i, j, Other(i, j, c)) = c
  BY DEF Other
<1>2. PICK h : h = Exchanged(f, i, j)
  OBVIOUS
<1>3. h = [c \in {Other(i, j, k) : k \in DOMAIN f} |-> f[Other(i, j, c)]]
  BY <1>2 DEF Exchanged
<1>4. ASSUME NEW k \in DOMAIN f PROVE h[Other(i, j, k)] = f[k]
  <2>1. PICK c : c = Other(i, j, k)
    OBVIOUS
  <2>2. c \in {Other(i, j, l) : l \in DOMAIN f} /\ Other(i, j, c) = k
    BY <1>1, <2>1
  <2>3. h[c] = f[Other(i, j, c)]
    BY <1>3, <2>2
  <2> QED BY <2>1, <2>2, <2>3
<1> QED BY <1>2, <1>3, <1>4

(* A swap of cells renames them: in the links too, of which it goes through  *)
(* the cases.                                                                *)
LEMMA SwappedLinks ==
  ASSUME NEW C, NEW st, Memory(st, C), LinkedBack(st), NEW i \in C, NEW j \in C
  PROVE  LET after == Swapped(st, i, j)
         IN  /\ DOMAIN after = Fields
             /\ after.free = {Other(i, j, c) : c \in st.free}
             /\ after.size = st.size
             /\ after.ids = Exchanged(st.ids, i, j)
             /\ after.signed_distance = Exchanged(st.signed_distance, i, j)
             /\ after.in_tree = [n \in DOMAIN st.in_tree |-> Other(i, j, st.in_tree[n])]
<1>1. PICK after : after = Swapped(st, i, j)
  OBVIOUS
<1> DEFINE ids == st.ids
           link(n) ==
             CASE {i, j} \subseteq DOMAIN ids /\ n = ids[i] -> st.in_tree[ids[j]]
               [] {i, j} \subseteq DOMAIN ids /\ n = ids[j] -> st.in_tree[ids[i]]
               [] j \notin DOMAIN ids /\ i \in DOMAIN ids /\ n = ids[i] -> j
               [] i \notin DOMAIN ids /\ j \in DOMAIN ids /\ n = ids[j] -> i
               [] OTHER -> st.in_tree[n]
<1>2. /\ DOMAIN after = Fields
      /\ after.free = {Other(i, j, c) : c \in st.free}
      /\ after.size = st.size
      /\ after.ids = Exchanged(st.ids, i, j)
      /\ after.signed_distance = Exchanged(st.signed_distance, i, j)
      /\ after.in_tree = [n \in DOMAIN st.in_tree |-> link(n)]
  BY <1>1 DEF Swapped, Memory, Fields
<1>3. ASSUME NEW n \in DOMAIN st.in_tree
      PROVE  link(n) = Other(i, j, st.in_tree[n])
  <2>1. PICK c : c = st.in_tree[n]
    OBVIOUS
  <2>2. c \in C /\ c \in DOMAIN ids /\ ids[c] = n
    BY <2>1, LinksInvert
  <2>3. \A k \in DOMAIN ids : st.in_tree[ids[k]] = k
    BY DEF LinkedBack
  <2>4. CASE c = i /\ j \in DOMAIN ids
    BY <2>1, <2>2, <2>3, <2>4 DEF Other
  <2>5. CASE c = i /\ j \notin DOMAIN ids
    BY <2>1, <2>2, <2>3, <2>5 DEF Other
  <2>6. CASE c = j /\ c # i /\ i \in DOMAIN ids
    <3>1. n # ids[i] /\ n = ids[j]
      BY <2>2, <2>3, <2>6
    <3>2. link(n) = st.in_tree[ids[i]]
      BY <2>2, <2>6, <3>1
    <3> QED BY <2>1, <2>3, <2>6, <3>2 DEF Other
  <2>7. CASE c = j /\ c # i /\ i \notin DOMAIN ids
    BY <2>1, <2>2, <2>3, <2>7 DEF Other
  <2>8. CASE c # i /\ c # j
    <3>1. (i \in DOMAIN ids => n # ids[i]) /\ (j \in DOMAIN ids => n # ids[j])
      BY <2>1, <2>3, <2>8
    <3>2. link(n) = st.in_tree[n]
      BY <3>1
    <3> QED BY <2>1, <2>8, <3>2 DEF Other
  <2> QED BY <2>4, <2>5, <2>6, <2>7, <2>8
<1>4. after.in_tree = [n \in DOMAIN st.in_tree |-> Other(i, j, st.in_tree[n])]
  <2> HIDE DEF link
  <2> QED BY <1>2, <1>3
<1> QED BY <1>1, <1>2, <1>4

LEMMA SwappedMemory ==
  ASSUME NEW C, NEW st, Memory(st, C), LinkedBack(st), NEW i \in C, NEW j \in C
  PROVE  LET after == Swapped(st, i, j)
         IN  /\ Memory(after, C)
             /\ LinkedBack(after)
             /\ DOMAIN after.in_tree = DOMAIN st.in_tree
             /\ \A n \in DOMAIN st.in_tree :
                  /\ after.in_tree[n] = Other(i, j, st.in_tree[n])
                  /\ after.signed_distance[after.in_tree[n]]
                       = st.signed_distance[st.in_tree[n]]
<1>1. PICK after : after = Swapped(st, i, j)
  OBVIOUS
<1>2. /\ DOMAIN after = Fields
      /\ after.free = {Other(i, j, c) : c \in st.free}
      /\ after.size = st.size
      /\ after.ids = Exchanged(st.ids, i, j)
      /\ after.signed_distance = Exchanged(st.signed_distance, i, j)
      /\ after.in_tree = [n \in DOMAIN st.in_tree |-> Other(i, j, st.in_tree[n])]
  BY <1>1, SwappedLinks
<1> DEFINE other(c) == Other(i, j, c)
<1>3. (\A c \in C : other(c) \in C) /\ (\A c : other(other(c)) = c)
  BY OtherPlace
<1>4. /\ DOMAIN after.ids = {other(k) : k \in DOMAIN st.ids}
      /\ \A k \in DOMAIN st.ids : after.ids[other(k)] = st.ids[k]
  <2>1. PICK f : f = st.ids
    OBVIOUS
  <2>2. /\ DOMAIN Exchanged(f, i, j) = {Other(i, j, k) : k \in DOMAIN f}
        /\ \A k \in DOMAIN f : Exchanged(f, i, j)[Other(i, j, k)] = f[k]
    BY ExchangedPlaces, Zenon
  <2> QED BY <1>2, <2>1, <2>2
<1>5. /\ DOMAIN after.signed_distance = {other(k) : k \in C}
      /\ \A k \in C : after.signed_distance[other(k)] = st.signed_distance[k]
  <2>1. DOMAIN st.signed_distance = C
    BY DEF Memory
  <2>2. PICK f : f = st.signed_distance
    OBVIOUS
  <2>3. /\ DOMAIN Exchanged(f, i, j) = {Other(i, j, k) : k \in DOMAIN f}
        /\ \A k \in DOMAIN f : Exchanged(f, i, j)[Other(i, j, k)] = f[k]
    BY ExchangedPlaces, Zenon
  <2> QED BY <1>2, <2>1, <2>2, <2>3
<1>6. /\ DOMAIN after.in_tree = DOMAIN st.in_tree
      /\ \A n \in DOMAIN st.in_tree : after.in_tree[n] = other(st.in_tree[n])
  BY <1>2
<1> HIDE DEF other
<1>7. \A D : {other(k) : k \in {other(l) : l \in D}} = D
  BY <1>3
<1>8. {other(k) : k \in C} = C
  BY <1>3
<1>9. \A D : {other(k) : k \in C \ D} = C \ {other(k) : k \in D}
  BY <1>3
<1>10. after.free \in SUBSET C /\ DOMAIN after.ids = C \ after.free
  <2>1. st.free \in SUBSET C /\ DOMAIN st.ids = C \ st.free
    BY DEF Memory
  <2>2. after.free = {other(c) : c \in st.free}
    BY <1>2 DEF other
  <2> QED BY <1>3, <1>4, <1>9, <2>1, <2>2
<1>11. Range(after.in_tree) = C \ after.free
  <2>1. Range(after.in_tree) = {other(c) : c \in Range(st.in_tree)}
    BY <1>6 DEF Range
  <2>2. Range(st.in_tree) = C \ st.free
    BY DEF Memory
  <2>3. after.free = {other(c) : c \in st.free}
    BY <1>2 DEF other
  <2> QED BY <2>1, <2>2, <2>3, <1>9
<1>12. after.in_tree \in [DOMAIN after.in_tree -> C]
  <2>1. \A n \in DOMAIN st.in_tree : st.in_tree[n] \in C
    BY DEF Memory
  <2>2. \A n \in DOMAIN after.in_tree : after.in_tree[n] \in C
    BY <1>3, <1>6, <2>1
  <2>3. after.in_tree = [n \in DOMAIN after.in_tree |-> after.in_tree[n]]
    BY <1>2
  <2> QED BY <2>2, <2>3
<1>13. \A m, n \in DOMAIN after.in_tree : after.in_tree[m] = after.in_tree[n] => m = n
  <2> SUFFICES ASSUME NEW m \in DOMAIN st.in_tree, NEW n \in DOMAIN st.in_tree,
                      other(st.in_tree[m]) = other(st.in_tree[n])
               PROVE  m = n
    BY <1>6
  <2>1. st.in_tree[m] = st.in_tree[n]
    BY <1>3
  <2> QED BY <2>1 DEF Memory
<1>14. after.signed_distance \in [C -> Words]
  <2>1. DOMAIN after.signed_distance = C
    BY <1>5, <1>8
  <2>2. \A c \in C : after.signed_distance[c] \in Words
    <3> SUFFICES ASSUME NEW c \in C PROVE after.signed_distance[c] \in Words
      OBVIOUS
    <3>1. PICK k : k = other(c)
      OBVIOUS
    <3>2. k \in C /\ other(k) = c
      BY <1>3, <3>1
    <3>3. after.signed_distance[c] = st.signed_distance[k]
      BY <1>5, <3>2
    <3> QED BY <3>2, <3>3 DEF Memory
  <2>3. after.signed_distance =
          [c \in DOMAIN after.signed_distance |-> after.signed_distance[c]]
    BY <1>2 DEF Exchanged
  <2> QED BY <2>1, <2>2, <2>3
<1>15. \A c \in after.free : after.signed_distance[c] = Stale
  <2> SUFFICES ASSUME NEW k \in st.free PROVE after.signed_distance[other(k)] = Stale
    BY <1>2 DEF other
  <2> QED BY <1>5 DEF Memory
<1>16. Memory(after, C)
  BY <1>2, <1>6, <1>10, <1>11, <1>12, <1>13, <1>14, <1>15 DEF Memory
<1>17. LinkedBack(after)
  <2> SUFFICES ASSUME NEW k \in DOMAIN st.ids
               PROVE  after.ids[other(k)] \in DOMAIN after.in_tree
                      /\ after.in_tree[after.ids[other(k)]] = other(k)
    BY <1>4 DEF LinkedBack
  <2>1. st.ids[k] \in DOMAIN st.in_tree /\ st.in_tree[st.ids[k]] = k
    BY DEF LinkedBack
  <2> QED BY <2>1, <1>4, <1>6
<1>18. \A n \in DOMAIN st.in_tree :
         after.signed_distance[after.in_tree[n]] = st.signed_distance[st.in_tree[n]]
  <2> SUFFICES ASSUME NEW n \in DOMAIN st.in_tree
               PROVE  after.signed_distance[other(st.in_tree[n])]
                        = st.signed_distance[st.in_tree[n]]
    BY <1>6
  <2>1. st.in_tree[n] \in C
    BY DEF Memory
  <2> QED BY <2>1, <1>5
<1> QED BY <1>1, <1>6, <1>16, <1>17, <1>18 DEF other

-----------------------------------------------------------------------------
(* Sorting the tree. *)

(* As many nodes have children as groups hold them. *)
LEMMA RefinedFinite ==
  ASSUME IsTree(groups)
  PROVE  /\ IsFiniteSet(Refined)
         /\ Cardinality(Refined) \in Nat /\ Cardinality(Refined) <= NoGroups
<1>0. \A r : r \in Refined <=> \E s \in DOMAIN groups : groups[s] = r
  BY DEF Refined, Range
<1>1. IsFiniteSet(1 .. NoGroups) /\ Cardinality(1 .. NoGroups) = NoGroups
  <2>1. NoGroups \in Nat /\ 1 \in Int /\ NoGroups \in Int
    BY SizeAssumption
  <2>2. IsFiniteSet(1 .. NoGroups)
        /\ Cardinality(1 .. NoGroups) = IF 1 > NoGroups THEN 0 ELSE NoGroups - 1 + 1
    BY <2>1, FS_Interval
  <2> QED BY <2>1, <2>2
<1>2. IsFiniteSet(DOMAIN groups) /\ Cardinality(DOMAIN groups) <= NoGroups
  <2>1. DOMAIN groups \in SUBSET (1 .. NoGroups)
    BY DEF IsTree
  <2> QED BY <1>1, <2>1, FS_Subset
<1> DEFINE f == [s \in DOMAIN groups |-> groups[s]]
<1>3. f \in Surjection(DOMAIN groups, Refined)
  <2>1. f \in [DOMAIN groups -> Refined]
    BY <1>0
  <2>2. \A r \in Refined : \E s \in DOMAIN groups : f[s] = r
    BY <1>0
  <2> QED BY <2>1, <2>2, Fun_IsSurj
<1>4. IsFiniteSet(Refined) /\ Cardinality(Refined) <= Cardinality(DOMAIN groups)
  BY <1>2, <1>3, FS_Surjection
<1>5. Cardinality(Refined) \in Nat /\ Cardinality(DOMAIN groups) \in Nat
  BY <1>2, <1>4, FS_CardinalityType
<1> QED BY <1>2, <1>4, <1>5, SizeAssumption

LEMMA SortedTree ==
  ASSUME IsTree(groups), NEW gs \in Bijection(1 .. Cardinality(Refined), Refined)
  PROVE  /\ IsTree(gs)
         /\ Cardinality(Refined) \in Nat
         /\ DOMAIN gs = 1 .. Cardinality(Refined)
         /\ \A n \in UsedIn(groups) :
              /\ MovedTo(gs, n) \in UsedIn(gs)
              /\ PathIn(gs, MovedTo(gs, n)) = PathIn(groups, n)
<1>1. \A r : r \in Refined <=> \E s \in DOMAIN groups : groups[s] = r
  BY DEF Refined, Range
<1>2. Cardinality(Refined) \in Nat /\ Cardinality(Refined) <= NoGroups
  BY RefinedFinite
<1>3. PICK k : k = Cardinality(Refined)
  OBVIOUS
<1>4. /\ gs \in [1 .. k -> Refined]
      /\ \A s, t \in 1 .. k : gs[s] = gs[t] => s = t
      /\ \A r \in Refined : \E s \in 1 .. k : gs[s] = r
  <2>1. gs \in Bijection(1 .. k, Refined)
    BY <1>3
  <2>2. gs \in [1 .. k -> Refined] /\ IsInjective(gs)
    BY <2>1 DEF Bijection, Injection
  <2>3. \A r \in Refined : \E s \in 1 .. k : gs[s] = r
    BY <2>1 DEF Bijection, Surjection
  <2> QED BY <2>2, <2>3 DEF IsInjective
<1>5. DOMAIN gs = 1 .. k
  BY <1>4
<1>6. IsTree(gs)
  <2>1. DOMAIN gs \subseteq 1 .. NoGroups
    BY <1>2, <1>3, <1>5, SizeAssumption
  <2>2. \A s \in DOMAIN gs : gs[s] \in Paths
    BY <1>1, <1>4, <1>5 DEF IsTree
  <2>3. ASSUME NEW s \in DOMAIN gs, NEW l \in 0 .. Len(gs[s]) - 1
        PROVE  \E t \in DOMAIN gs : gs[t] = SubSeq(gs[s], 1, l)
    <3>1. PICK u \in DOMAIN groups : groups[u] = gs[s]
      BY <1>1, <1>4, <1>5
    <3>2. PICK v \in DOMAIN groups : groups[v] = SubSeq(gs[s], 1, l)
      BY <3>1, <2>3 DEF IsTree
    <3>3. SubSeq(gs[s], 1, l) \in Refined
      BY <3>2, <1>1
    <3> QED BY <3>3, <1>4, <1>5
  <2> QED BY <2>1, <2>2, <2>3, <1>4, <1>5 DEF IsTree
<1>7. ASSUME NEW n \in UsedIn(groups)
      PROVE  /\ MovedTo(gs, n) \in UsedIn(gs)
             /\ PathIn(gs, MovedTo(gs, n)) = PathIn(groups, n)
  <2>1. CASE n = 0
    BY <2>1 DEF MovedTo, PathIn, UsedIn
  <2>2. CASE n # 0
    <3>1. PICK r, p : r = groups[group(n)] /\ p = (n - 1) % NC
      OBVIOUS
    <3>2. /\ group(n) \in DOMAIN groups /\ p \in child_pos
          /\ PathIn(groups, n) = Append(r, p)
      BY <2>2, <3>1, UsedNode
    <3>3. r \in Refined
      BY <1>1, <3>1, <3>2
    <3>4. \E s \in DOMAIN gs : gs[s] = r
      BY <1>4, <1>5, <3>3
    <3>5. PICK t : t = CHOOSE s \in DOMAIN gs : gs[s] = r
      OBVIOUS
    <3>6. t \in DOMAIN gs /\ gs[t] = r
      BY <3>4, <3>5
    <3>7. MovedTo(gs, n) = node(t, p)
      BY <2>2, <3>1, <3>5 DEF MovedTo
    <3>8. node(t, p) \in UsedIn(gs) /\ PathIn(gs, node(t, p)) = Append(gs[t], p)
      BY <1>6, <3>2, <3>6, NodeInUse
    <3> QED BY <3>2, <3>6, <3>7, <3>8
  <2> QED BY <2>1, <2>2
<1> QED BY <1>2, <1>3, <1>5, <1>6, <1>7

(* The rows of a grid move with the nodes. *)
LEMMA MovedMemory ==
  ASSUME IsTree(groups), NEW gs \in Bijection(1 .. Cardinality(Refined), Refined),
         NEW C, NEW st, Memory(st, C), DOMAIN st.in_tree \subseteq UsedIn(groups)
  PROVE  LET after == RowsMoved(st, gs)
         IN  /\ Memory(after, C)
             /\ DOMAIN after.in_tree = {MovedTo(gs, n) : n \in DOMAIN st.in_tree}
             /\ \A n \in DOMAIN st.in_tree :
                  after.in_tree[MovedTo(gs, n)] = st.in_tree[n]
             /\ after.signed_distance = st.signed_distance
<1>1. PICK after : after = RowsMoved(st, gs)
  OBVIOUS
<1> DEFINE D == DOMAIN st.in_tree
           to(n) == MovedTo(gs, n)
           T == {to(n) : n \in D}
<1>2. \A n \in D : to(n) \in UsedIn(gs) /\ PathIn(gs, to(n)) = PathIn(groups, n)
  BY SortedTree
<1>3. \A m, n \in D : to(m) = to(n) => m = n
  <2> SUFFICES ASSUME NEW m \in D, NEW n \in D, to(m) = to(n) PROVE m = n
    OBVIOUS
  <2>1. PathIn(groups, m) = PathIn(groups, n)
    BY <1>2
  <2> QED BY <2>1, PathOneToOne
<1>4. T \in SUBSET Nat /\ IsFiniteSet(T)
  <2>1. IsTree(gs)
    BY SortedTree
  <2>2. T \in SUBSET UsedIn(gs)
    BY <1>2
  <2> QED BY <2>1, <2>2, UsedFinite
<1>5. Cardinality(T) = Cardinality(D)
  <2> DEFINE f == [n \in D |-> to(n)]
  <2>1. f \in [D -> T]
    OBVIOUS
  <2>2. \A m, n \in D : f[m] = f[n] => m = n
    BY <1>3
  <2>3. \A t \in T : \E n \in D : f[n] = t
    OBVIOUS
  <2>4. f \in Bijection(D, T)
    BY <2>1, <2>2, <2>3, Fun_IsBij
  <2>5. IsFiniteSet(D)
    BY DEF Memory
  <2> QED BY <2>4, <2>5, FS_Bijection DEF ExistsBijection
<1>6. /\ DOMAIN after = Fields
      /\ after.in_tree = [k \in T |-> st.in_tree[CHOOSE n \in D : to(n) = k]]
      /\ after.ids = st.ids /\ after.free = st.free /\ after.size = st.size
      /\ after.signed_distance = st.signed_distance
  BY <1>1 DEF RowsMoved, Memory, Fields
<1> HIDE DEF to
<1>7. ASSUME NEW n \in D PROVE after.in_tree[to(n)] = st.in_tree[n]
  <2>1. PICK k : k = to(n)
    OBVIOUS
  <2>2. k \in T /\ after.in_tree[k] = st.in_tree[CHOOSE m \in D : to(m) = k]
    BY <1>6, <2>1
  <2>3. (CHOOSE m \in D : to(m) = k) = n
    BY <1>3, <2>1
  <2> QED BY <2>1, <2>2, <2>3
<1>8. DOMAIN after.in_tree = T
  BY <1>6
<1>9. after.in_tree \in [T -> C]
  <2>1. ASSUME NEW k \in T PROVE after.in_tree[k] \in C
    <3>1. PICK n \in D : k = to(n)
      OBVIOUS
    <3> QED BY <3>1, <1>7 DEF Memory
  <2> HIDE DEF T
  <2> QED BY <2>1, <1>6
<1>10. \A k, l \in T : after.in_tree[k] = after.in_tree[l] => k = l
  <2> SUFFICES ASSUME NEW m \in D, NEW n \in D, after.in_tree[to(m)] = after.in_tree[to(n)]
               PROVE  to(m) = to(n)
    OBVIOUS
  <2>1. st.in_tree[m] = st.in_tree[n]
    BY <1>7
  <2>2. m = n
    BY <2>1 DEF Memory
  <2> QED BY <2>2
<1>11. Range(after.in_tree) = Range(st.in_tree)
  <2>1. \A c : c \in Range(after.in_tree) <=> \E n \in D : after.in_tree[to(n)] = c
    BY <1>8 DEF Range
  <2>2. \A c : c \in Range(st.in_tree) <=> \E n \in D : st.in_tree[n] = c
    BY DEF Range
  <2> QED BY <2>1, <2>2, <1>7
<1> HIDE DEF T
<1>12. Memory(after, C)
  BY <1>4, <1>5, <1>6, <1>8, <1>9, <1>10, <1>11 DEF Memory
<1> QED BY <1>1, <1>6, <1>7, <1>8, <1>12 DEF T, to

(* Depth-first order, as the sort leaves the groups, passes dfs_sort.is. *)
InOrder(gs) ==
  \E k \in Nat :
    /\ DOMAIN gs = 1 .. k
    /\ \A s, t \in 1 .. k : s < t => Before(gs[s], gs[t])

LeftOf(a, b) ==
  \E i \in 1 .. Len(a) : /\ i <= Len(b)
                         /\ a[i] < b[i]
                         /\ \A j \in 1 .. i - 1 : a[j] = b[j]

LEMMA BeforeCases ==
  ASSUME NEW a \in Paths, NEW b \in Paths, Before(a, b)
  PROVE  a # b /\ (Over(a, b) \/ LeftOf(a, b))
<1>1. /\ a \in Words /\ b \in Words /\ Len(a) \in Nat /\ Len(b) \in Nat
      /\ DOMAIN a = 1 .. Len(a) /\ DOMAIN b = 1 .. Len(b)
  BY PathsAreWords
<1>2. CASE IsPrefix(a, b)
  BY <1>1, <1>2, PrefixIsOver DEF Before
<1>3. CASE ~IsPrefix(a, b)
  <2>1. PICK k \in DOMAIN a \cap DOMAIN b :
          SubSeq(a, 1, k - 1) = SubSeq(b, 1, k - 1) /\ a[k] < b[k]
    BY <1>3 DEF Before
  <2>2. k \in 1 .. Len(a) /\ k \in 1 .. Len(b)
    BY <1>1, <2>1
  <2>3. \A j \in 1 .. k - 1 : a[j] = b[j]
    <3>1. k - 1 \in Int /\ k - 1 <= Len(a) /\ k - 1 <= Len(b)
      BY <1>1, <2>2
    <3> QED BY <1>1, <2>1, <3>1, SameBeginning
  <2>4. LeftOf(a, b)
    BY <1>1, <2>1, <2>2, <2>3 DEF LeftOf
  <2> QED BY <2>4 DEF Before
<1> QED BY <1>2, <1>3

(* What lies over a path is not behind it. *)
LEMMA NotBehind ==
  ASSUME NEW a \in Paths, NEW b \in Paths, Over(a, b), Before(b, a)
  PROVE  FALSE
<1>1. a \in Words /\ b \in Words /\ Len(a) \in Nat /\ Len(b) \in Nat
  BY PathsAreWords
<1>2. b # a /\ (Over(b, a) \/ LeftOf(b, a))
  BY BeforeCases
<1>3. CASE Over(b, a)
  <2>1. Len(a) = Len(b)
    BY <1>1, <1>3 DEF Over
  <2> QED BY <2>1, <1>1, <1>2, OverItself
<1>4. CASE LeftOf(b, a)
  <2>1. PICK i \in 1 .. Len(b) : i <= Len(a) /\ b[i] < a[i]
    BY <1>4 DEF LeftOf
  <2>2. a[i] = b[i]
    BY <1>1, <2>1 DEF Over
  <2>3. b[i] \in child_pos
    BY <2>1 DEF Paths
  <2>4. b[i] \in Int
    BY <2>3, ChildrenNumber
  <2> QED BY <2>1, <2>2, <2>4
<1> QED BY <1>2, <1>3, <1>4

(* What comes between a path and one below it lies below it as well. *)
LEMMA BetweenIsBelow ==
  ASSUME NEW a \in Paths, NEW b \in Paths, NEW c \in Paths,
         Over(a, c), Before(a, b), Before(b, c)
  PROVE  Over(a, b)
<1>1. Len(a) \in Nat /\ Len(b) \in Nat /\ Len(c) \in Nat
  BY DEF Paths
<1>2. \A i \in 1 .. Len(b) : b[i] \in Int
  <2>1. \A i \in 1 .. Len(b) : b[i] \in child_pos
    BY DEF Paths
  <2> QED BY <2>1, ChildrenNumber
<1> SUFFICES ASSUME LeftOf(a, b) PROVE FALSE
  BY BeforeCases
<1>3. PICK j \in 1 .. Len(a) : /\ j <= Len(b)
                              /\ a[j] < b[j]
                              /\ \A i \in 1 .. j - 1 : a[i] = b[i]
  BY DEF LeftOf
<1>4. j \in 1 .. Len(b) /\ j \in 1 .. Len(c)
  BY <1>1, <1>3 DEF Over
<1>5. c[j] = a[j] /\ \A i \in 1 .. j - 1 : c[i] = b[i]
  BY <1>1, <1>3 DEF Over
<1>6. c[j] < b[j] /\ b[j] \in Int
  BY <1>2, <1>3, <1>4, <1>5
<1>7. CASE Over(b, c)
  <2>1. b[j] = c[j]
    BY <1>4, <1>7 DEF Over
  <2> QED BY <2>1, <1>6
<1>8. CASE LeftOf(b, c)
  <2>1. PICK i \in 1 .. Len(b) : /\ i <= Len(c)
                                /\ b[i] < c[i]
                                /\ \A l \in 1 .. i - 1 : b[l] = c[l]
    BY <1>8 DEF LeftOf
  <2>2. b[i] \in Int /\ i \in Nat /\ j \in Nat
    BY <1>1, <1>2, <1>3, <2>1
  <2>3. CASE i < j
    <3>1. c[i] = b[i]
      BY <1>5, <2>1, <2>2, <2>3
    <3> QED BY <3>1, <2>1, <2>2
  <2>4. CASE i = j
    <3>1. b[j] < c[j] /\ c[j] < b[j] /\ b[j] \in Int
      BY <2>1, <2>4, <1>6
    <3>2. c[j] \in child_pos
      BY <1>4 DEF Paths
    <3>3. c[j] \in Int
      BY <3>2, ChildrenNumber
    <3> QED BY <3>1, <3>3
  <2>5. CASE j < i
    <3>1. b[j] = c[j]
      BY <1>3, <2>1, <2>2, <2>5
    <3> QED BY <3>1, <1>6
  <2> QED BY <2>2, <2>3, <2>4, <2>5
<1> QED BY <1>7, <1>8, BeforeCases

(* The group after that of a node with children below is the first of them. *)
LEMMA NextGroup ==
  ASSUME IsTree(groups), NEW k \in Nat, DOMAIN groups = 1 .. k,
         \A s, t \in 1 .. k : s < t => Before(groups[s], groups[t]),
         NEW s \in 1 .. k, NEW t \in child_groups(s)
  PROVE  /\ s < t /\ t \in 1 .. k
         /\ s + 1 \in child_groups(s)
         /\ t # s + 1 => Last(groups[s + 1]) < Last(groups[t])
<1>1. /\ \A r \in 1 .. k : groups[r] \in Paths
      /\ \A r, u \in 1 .. k : groups[r] = groups[u] => r = u
      /\ \A r \in 1 .. k : \A l \in 0 .. Len(groups[r]) - 1 :
           \E u \in 1 .. k : groups[u] = SubSeq(groups[r], 1, l)
  BY DEF IsTree
<1>2. PICK a, c : a = groups[s] /\ c = groups[t]
  OBVIOUS
<1>3. t \in 1 .. k /\ c # <<>> /\ Front(c) = a /\ a \in Paths /\ c \in Paths
  BY <1>1, <1>2 DEF child_groups
<1>4. /\ c = Append(a, Last(c)) /\ Last(c) \in child_pos
      /\ Over(a, c) /\ Len(c) = Len(a) + 1 /\ Len(a) \in Nat
      /\ c[Len(a) + 1] = Last(c)
  <2>1. c = Append(a, Last(c)) /\ Last(c) \in child_pos
    BY <1>3, PathOfChild
  <2>2. PICK p \in child_pos : p = Last(c)
    BY <2>1
  <2>3. /\ Over(a, Append(a, p)) /\ Len(Append(a, p)) = Len(a) + 1
        /\ Append(a, p)[Len(a) + 1] = p
    BY <1>3, PathAppend
  <2> QED BY <1>3, <2>1, <2>2, <2>3, PathsAreWords
<1>5. s < t
  <2>1. s # t
    BY <1>2, <1>4
  <2>2. ~(t < s)
    <3> SUFFICES ASSUME t < s PROVE FALSE
      OBVIOUS
    <3>1. Before(c, a)
      BY <1>2, <1>3
    <3> QED BY <3>1, <1>3, <1>4, NotBehind
  <2> QED BY <1>3, <2>1, <2>2
<1>6. s + 1 \in 1 .. k
  BY <1>3, <1>5
<1>7. PICK b : b = groups[s + 1]
  OBVIOUS
<1>8. b \in Paths /\ Before(a, b)
  BY <1>1, <1>2, <1>6, <1>7
<1>9. t # s + 1 => Before(b, c)
  BY <1>2, <1>3, <1>5, <1>6, <1>7
<1>10. Over(a, b)
  <2>1. CASE t = s + 1
    BY <2>1, <1>2, <1>4, <1>7
  <2>2. CASE t # s + 1
    BY <2>2, <1>3, <1>4, <1>8, <1>9, BetweenIsBelow
  <2> QED BY <2>1, <2>2
<1>11. /\ a \in Words /\ b \in Words /\ c \in Words
       /\ Len(a) \in Nat /\ Len(b) \in Nat
  BY <1>3, <1>8, PathsAreWords
<1>12. a # b
  BY <1>8 DEF Before
<1>13. Len(b) > Len(a)
  <2>1. Len(b) # Len(a)
    BY <1>10, <1>11, <1>12, OverItself
  <2> QED BY <2>1, <1>10, <1>11 DEF Over
<1>14. Len(b) = Len(a) + 1
  <2> SUFFICES ASSUME Len(b) # Len(a) + 1 PROVE FALSE
    OBVIOUS
  <2>1. Len(a) + 1 \in 0 .. Len(b) - 1
    BY <1>11, <1>13
  <2>2. PICK l : l = Len(a) + 1
    OBVIOUS
  <2>3. PICK u \in 1 .. k : groups[u] = SubSeq(b, 1, l)
    BY <1>1, <1>6, <1>7, <2>1, <2>2
  <2>4. PICK d : d = groups[u]
    OBVIOUS
  <2>5. d \in Paths /\ d \in Words
    BY <1>1, <2>4, PathsAreWords
  <2>6. /\ Len(d) = l /\ \A j \in 1 .. l : d[j] = b[j]
    <3>1. \A j \in 1 .. l : b[j] \in child_pos
      <4>1. \A j \in 1 .. l : j \in 1 .. Len(b)
        BY <1>11, <2>1, <2>2
      <4> QED BY <4>1, <1>8 DEF Paths
    <3>2. /\ Len(SubSeq(b, 1, l)) = IF 1 <= l THEN l - 1 + 1 ELSE 0
          /\ \A j \in 1 .. l - 1 + 1 : SubSeq(b, 1, l)[j] = b[1 + j - 1]
      BY <1>11, <2>2, <3>1, SubSeqProperties
    <3> QED BY <1>11, <2>2, <2>3, <2>4, <3>2
  <2>7. Over(d, b) /\ Over(a, d) /\ Len(d) # Len(b) /\ Len(d) # Len(a)
    BY <1>10, <1>11, <1>13, <2>1, <2>2, <2>6 DEF Over
  <2>8. ~(s + 1 < u)
    <3> SUFFICES ASSUME s + 1 < u PROVE FALSE
      OBVIOUS
    <3>1. Before(b, d)
      BY <1>6, <1>7, <2>4
    <3> QED BY <3>1, <1>8, <2>5, <2>7, NotBehind
  <2>9. ~(u < s)
    <3> SUFFICES ASSUME u < s PROVE FALSE
      OBVIOUS
    <3>1. Before(d, a)
      BY <1>2, <2>4
    <3> QED BY <3>1, <1>3, <2>5, <2>7, NotBehind
  <2>10. u # s /\ u # s + 1
    BY <1>2, <1>7, <2>4, <2>7
  <2> QED BY <2>8, <2>9, <2>10
<1>15. s + 1 \in child_groups(s) /\ b[Len(a) + 1] = Last(b)
  <2>1. Len(b) - 1 = Len(a)
    BY <1>11, <1>14
  <2>2. Front(b) = SubSeq(b, 1, Len(a))
    BY <2>1 DEF Front
  <2>3. SubSeq(a, 1, Len(a)) = SubSeq(b, 1, Len(a))
    <3>1. Len(a) \in Int /\ Len(a) <= Len(a) /\ Len(a) <= Len(b)
          /\ \A j \in 1 .. Len(a) : a[j] = b[j]
      BY <1>10, <1>11, <1>13 DEF Over
    <3> QED BY <1>11, <3>1, SameBeginning
  <2>4. SubSeq(a, 1, Len(a)) = a
    BY <1>3, SubSeqFull DEF Paths
  <2>5. b # <<>>
    BY <1>11, <1>13
  <2>6. s # 0 /\ s + 1 \in DOMAIN groups
    BY <1>6
  <2> QED BY <1>2, <1>7, <1>14, <2>2, <2>3, <2>4, <2>5, <2>6 DEF child_groups, Last
<1>16. ASSUME t # s + 1 PROVE Last(b) < Last(c)
  <2>1. Before(b, c) /\ Len(b) = Len(c)
    BY <1>4, <1>9, <1>14, <1>16
  <2>2. b # c /\ (Over(b, c) \/ LeftOf(b, c))
    BY <1>3, <1>8, <2>1, BeforeCases
  <2>3. LeftOf(b, c)
    BY <1>11, <2>1, <2>2, OverItself
  <2>4. PICK i \in 1 .. Len(b) : b[i] < c[i]
    BY <2>3 DEF LeftOf
  <2>5. i = Len(a) + 1
    <3> SUFFICES ASSUME i \in 1 .. Len(a) PROVE FALSE
      BY <1>11, <1>14, <2>4
    <3>1. b[i] = a[i] /\ c[i] = a[i]
      BY <1>4, <1>10 DEF Over
    <3>2. a[i] \in child_pos
      BY <1>3 DEF Paths
    <3>3. a[i] \in Int
      BY <3>2, ChildrenNumber
    <3> QED BY <3>1, <3>3, <2>4
  <2> QED BY <2>4, <2>5, <1>4, <1>15
<1> QED BY <1>2, <1>3, <1>5, <1>7, <1>15, <1>16

LEMMA OrderedIsSorted ==
  ASSUME IsTree(groups), InOrder(groups)
  PROVE  is_sorted
<1>1. PICK k \in Nat :
        /\ DOMAIN groups = 1 .. k
        /\ \A s, t \in 1 .. k : s < t => Before(groups[s], groups[t])
  BY DEF InOrder
<1>2. /\ \A r \in 1 .. k : groups[r] \in Paths
      /\ \A r, u \in 1 .. k : groups[r] = groups[u] => r = u
  BY <1>1 DEF IsTree
<1> SUFFICES ASSUME NEW s \in 0 .. NoGroups,
                    \A t \in 0 .. s : child_groups(t) # {}
             PROVE  /\ s + 1 \in child_groups(s)
                    /\ \A o \in child_groups(s) \ {s + 1} :
                         Last(groups[s + 1]) < Last(groups[o])
  BY DEF is_sorted
<1>3. s \in Nat
  BY SizeAssumption
<1>4. CASE s = 0
  <2>1. PICK t \in 1 .. k : groups[t] = <<>>
    BY <1>1, <1>4 DEF child_groups
  <2>2. t = 1
    <3> SUFFICES ASSUME 1 < t PROVE FALSE
      BY <2>1
    <3>1. PICK a : a = groups[1]
      OBVIOUS
    <3>2. a \in Paths /\ <<>> \in Paths /\ Before(a, <<>>) /\ 1 \in 1 .. k
      BY <1>1, <1>2, <2>1, <3>1 DEF Paths
    <3>3. Over(<<>>, a)
      <4>1. Len(<<>>) = 0 /\ Len(a) \in Nat
        BY <3>2 DEF Paths
      <4> QED BY <4>1 DEF Over
    <3> QED BY <3>2, <3>3, NotBehind
  <2>3. child_groups(0) = {1}
    <3>1. 1 \in child_groups(0)
      BY <1>1, <2>1, <2>2 DEF child_groups
    <3>2. \A o \in child_groups(0) : o = 1
      BY <1>1, <1>2, <2>1, <2>2 DEF child_groups
    <3> QED BY <3>1, <3>2
  <2> QED BY <2>3, <1>4
<1>5. CASE s \in 1 .. k
  <2>1. ASSUME NEW t \in child_groups(s)
        PROVE  s + 1 \in child_groups(s)
               /\ (t # s + 1 => Last(groups[s + 1]) < Last(groups[t]))
    BY <1>1, <1>5, <2>1, NextGroup
  <2>2. child_groups(s) # {}
    BY <1>3
  <2> QED BY <2>1, <2>2
<1>6. CASE s > k
  <2>1. k \in 0 .. s
    BY <1>3, <1>6
  <2>2. child_groups(k) # {}
    BY <2>1
  <2>3. CASE k = 0
    BY <1>1, <2>2, <2>3 DEF child_groups
  <2>4. CASE k # 0
    <3>1. k \in 1 .. k
      BY <2>4
    <3>2. PICK t : t \in child_groups(k)
      BY <2>2
    <3>3. k < t /\ t \in 1 .. k
      BY <1>1, <3>1, <3>2, NextGroup
    <3> QED BY <3>3
  <2> QED BY <2>3, <2>4
<1> QED BY <1>3, <1>4, <1>5, <1>6

-----------------------------------------------------------------------------
(* A grid in the tree: its nodes are in use, none lies over another, and a   *)
(* value is that of the node of its cell or of a node over it.               *)

Apart(gs, st) ==
  \A m, n \in DOMAIN st.in_tree : m # n => ~Related(PathIn(gs, m), PathIn(gs, n))

Values(gs, st) ==
  \A n \in DOMAIN st.in_tree :
    \/ st.signed_distance[st.in_tree[n]] = Stale
    \/ IsPrefix(st.signed_distance[st.in_tree[n]], PathIn(gs, n))

GridInv(gs, st, C) ==
  /\ Memory(st, C)
  /\ DOMAIN st.in_tree \subseteq UsedIn(gs)
  /\ Apart(gs, st)
  /\ Values(gs, st)

ContentIn(gs, st) ==
  {<<PathIn(gs, n), st.signed_distance[st.in_tree[n]]>> : n \in DOMAIN st.in_tree}

LEMMA CellsFinite ==
  ASSUME NEW g \in Grid
  PROVE  /\ Cell(g) \in SUBSET Nat /\ IsFiniteSet(Cell(g))
         /\ NoCells[g] \in Nat \ {0} /\ Cardinality(Cell(g)) = NoCells[g]
<1>1. NoCells[g] \in Nat \ {0}
  BY SizeAssumption
<1>2. PICK k : k = NoCells[g]
  OBVIOUS
<1>3. 0 \in Int /\ k - 1 \in Int /\ k \in Nat \ {0}
  BY <1>1, <1>2
<1>4. IsFiniteSet(0 .. k - 1)
      /\ Cardinality(0 .. k - 1) = IF 0 > k - 1 THEN 0 ELSE k - 1 - 0 + 1
  BY <1>3, FS_Interval
<1> QED BY <1>1, <1>2, <1>3, <1>4 DEF Cell

(* Paths that are related, in terms of Over. *)
LEMMA RelatedPaths ==
  ASSUME NEW a \in Paths, NEW b \in Paths
  PROVE  /\ Related(a, b) <=> Over(a, b) \/ Over(b, a)
         /\ Related(a, a)
<1>1. a \in Words /\ b \in Words
  BY PathsAreWords
<1> QED BY <1>1, PrefixIsOver, OverItself DEF Related

(* What is apart from a path is apart from the paths of its children. *)
LEMMA ChildRelated ==
  ASSUME NEW a \in Paths, NEW b \in Paths, NEW p \in child_pos,
         Related(Append(a, p), b)
  PROVE  Related(a, b)
<1>1. PICK c : c = Append(a, p)
  OBVIOUS
<1>2. c \in Paths /\ Len(c) = Len(a) + 1 /\ Over(a, c)
  BY <1>1, PathAppend
<1>3. a \in Words /\ b \in Words /\ c \in Words
      /\ Len(a) \in Nat /\ Len(b) \in Nat
  BY <1>2, PathsAreWords
<1>4. CASE Over(c, b)
  BY <1>2, <1>3, <1>4, OverChain, RelatedPaths
<1>5. CASE Over(b, c)
  BY <1>2, <1>3, <1>5, OverChain, RelatedPaths
<1>6. Over(c, b) \/ Over(b, c)
  BY <1>1, <1>2, RelatedPaths
<1> QED BY <1>4, <1>5, <1>6

(* Siblings are apart. *)
LEMMA SiblingsApart ==
  ASSUME NEW a \in Paths, NEW p \in child_pos, NEW q \in child_pos, p # q
  PROVE  ~Related(Append(a, p), Append(a, q))
<1>1. PICK c, d : c = Append(a, p) /\ d = Append(a, q)
  OBVIOUS
<1>2. c \in Paths /\ Len(c) = Len(a) + 1 /\ c[Len(a) + 1] = p
  BY <1>1, PathAppend
<1>3. d \in Paths /\ Len(d) = Len(a) + 1 /\ d[Len(a) + 1] = q
  BY <1>1, PathAppend
<1>4. Len(a) \in Nat
  BY PathsAreWords
<1>5. Over(c, d) \/ Over(d, c) => c[Len(a) + 1] = d[Len(a) + 1]
  BY <1>2, <1>3, <1>4 DEF Over
<1> QED BY <1>1, <1>2, <1>3, <1>5, RelatedPaths

(* A value that goes with a path goes with those below it. *)
LEMMA ValueBelow ==
  ASSUME NEW a \in Paths, NEW p \in child_pos, NEW v \in Words, IsPrefix(v, a)
  PROVE  IsPrefix(v, Append(a, p))
<1>1. PICK c : c = Append(a, p)
  OBVIOUS
<1>2. c \in Paths /\ Over(a, c)
  BY <1>1, PathAppend
<1>3. a \in Words /\ c \in Words
  BY <1>2, PathsAreWords
<1> QED BY <1>1, <1>2, <1>3, PrefixIsOver, OverChain

(* A grid whose nodes keep their paths in another tree. *)
LEMMA KeptGrid ==
  ASSUME NEW gs, NEW hs, NEW C, NEW st, GridInv(gs, st, C),
         \A n \in DOMAIN st.in_tree : n \in UsedIn(hs) /\ PathIn(hs, n) = PathIn(gs, n)
  PROVE  GridInv(hs, st, C) /\ ContentIn(hs, st) = ContentIn(gs, st)
<1>1. GridInv(hs, st, C)
  BY DEF GridInv, Apart, Values
<1>2. ContentIn(hs, st) = ContentIn(gs, st)
  BY DEF ContentIn
<1> QED BY <1>1, <1>2

(* As many nodes have a cell as cells are in use. *)
LEMMA NodesAndCells ==
  ASSUME NEW C, IsFiniteSet(C), NEW st, Memory(st, C)
  PROVE  Cardinality(DOMAIN st.in_tree) + Cardinality(st.free) = Cardinality(C)
<1> DEFINE D == DOMAIN st.in_tree
           f == [n \in D |-> st.in_tree[n]]
<1>1. /\ f \in [D -> C \ st.free]
      /\ \A m, n \in D : f[m] = f[n] => m = n
      /\ \A c \in C \ st.free : \E n \in D : f[n] = c
  BY DEF Memory, Range
<1>2. f \in Bijection(D, C \ st.free)
  BY <1>1, Fun_IsBij
<1>3. Cardinality(C \ st.free) = Cardinality(D)
  BY <1>2, FS_Bijection DEF ExistsBijection, Memory
<1>4. Cardinality(C \ st.free) = Cardinality(C) - Cardinality(C \cap st.free)
  BY FS_Difference
<1>5. C \cap st.free = st.free /\ st.free \in SUBSET C
  BY DEF Memory
<1>6. Cardinality(C) \in Nat /\ Cardinality(st.free) \in Nat
  BY <1>5, FS_Subset, FS_CardinalityType
<1>7. PICK x, y, z : /\ x = Cardinality(D) /\ y = Cardinality(st.free)
                     /\ z = Cardinality(C)
  OBVIOUS
<1>8. x = z - y /\ y \in Nat /\ z \in Nat
  <2>1. x = z - Cardinality(C \cap st.free)
    BY <1>3, <1>4, <1>7
  <2>2. Cardinality(C \cap st.free) = y
    BY <1>5, <1>7
  <2> QED BY <1>6, <1>7, <2>1, <2>2
<1>9. x + y = z
  BY <1>8
<1> QED BY <1>7, <1>9

-----------------------------------------------------------------------------
(* Refining and coarsening the tree. *)

LEMMA RootPath ==
  ASSUME IsTree(groups), Refined # {}
  PROVE  <<>> \in Refined
<1>1. PICK s \in DOMAIN groups : TRUE
  BY DEF Refined, Range
<1>2. groups[s] \in Paths /\ Len(groups[s]) \in Nat
  BY PathsAreWords DEF IsTree
<1>3. CASE Len(groups[s]) = 0
  <2>1. groups[s] = <<>>
    BY <1>2, <1>3 DEF Paths
  <2> QED BY <2>1 DEF Refined, Range
<1>4. CASE Len(groups[s]) # 0
  <2>1. 0 \in 0 .. Len(groups[s]) - 1
    BY <1>2, <1>4
  <2>2. PICK t \in DOMAIN groups : groups[t] = SubSeq(groups[s], 1, 0)
    BY <2>1 DEF IsTree
  <2>3. SubSeq(groups[s], 1, 0) = <<>>
    <3>1. PICK a : a = groups[s]
      OBVIOUS
    <3>2. a \in Seq(child_pos)
      BY <1>2, <3>1 DEF Paths
    <3> QED BY <3>1, <3>2, SubSeqEmpty
  <2> QED BY <2>2, <2>3 DEF Refined, Range
<1> QED BY <1>3, <1>4

(* What lies over a node in use has children. *)
LEMMA OverNodes ==
  ASSUME IsTree(groups), NEW n \in UsedIn(groups),
         NEW k \in 0 .. Len(PathIn(groups, n)) - 1
  PROVE  \E t \in DOMAIN groups : groups[t] = SubSeq(PathIn(groups, n), 1, k)
<1>1. PathIn(groups, n) \in Paths /\ Len(PathIn(groups, n)) \in Nat
  BY PathType, PathsAreWords
<1>2. CASE n = 0
  BY <1>1, <1>2 DEF PathIn
<1>3. CASE n # 0
  <2>1. PICK s, p : s = group(n) /\ p = (n - 1) % NC
    OBVIOUS
  <2>2. PICK a : a = groups[s]
    OBVIOUS
  <2>3. /\ s \in DOMAIN groups /\ p \in child_pos /\ a \in Paths
        /\ PathIn(groups, n) = Append(a, p)
    BY <1>3, <2>1, <2>2, UsedNode
  <2>4. PICK c : c = Append(a, p)
    OBVIOUS
  <2>5. /\ c \in Paths /\ Len(c) = Len(a) + 1
        /\ \A j \in 1 .. Len(a) : c[j] = a[j]
    BY <2>3, <2>4, PathAppend
  <2>6. a \in Words /\ c \in Words /\ Len(a) \in Nat
    BY <2>3, <2>5, PathsAreWords
  <2>7. k \in Int /\ k <= Len(a) /\ k <= Len(c)
    BY <2>3, <2>4, <2>5, <2>6
  <2>8. \A j \in 1 .. k : a[j] = c[j]
    BY <2>5, <2>6, <2>7
  <2>9. SubSeq(a, 1, k) = SubSeq(c, 1, k)
    BY <2>6, <2>7, <2>8, SameBeginning
  <2>10. CASE k = Len(a)
    <3>1. SubSeq(a, 1, k) = a
      BY <2>3, <2>10, SubSeqFull DEF Paths
    <3> QED BY <2>2, <2>3, <2>4, <2>9, <3>1
  <2>11. CASE k # Len(a)
    <3>1. k \in 0 .. Len(a) - 1
      BY <2>6, <2>7, <2>11
    <3>2. \E t \in DOMAIN groups : groups[t] = SubSeq(a, 1, k)
      BY <2>2, <2>3, <3>1 DEF IsTree
    <3> QED BY <2>3, <2>4, <2>9, <3>2
  <2> QED BY <2>10, <2>11
<1> QED BY <1>2, <1>3

LEMMA LeafPaths ==
  ASSUME IsTree(groups)
  PROVE  /\ \A l \in Bal!Tree!Leaves :
              l \notin Refined /\ \E n \in UsedIn(groups) : l = PathIn(groups, n)
         /\ \A n \in UsedIn(groups) :
              PathIn(groups, n) \notin Refined => PathIn(groups, n) \in Bal!Tree!Leaves
<1>1. \A r : r \in Refined <=> \E s \in DOMAIN groups : groups[s] = r
  BY DEF Refined, Range
<1>2. \A l : l \in Bal!Tree!Leaves <=>
         \/ Refined = {} /\ l = <<>>
         \/ l \notin Refined /\ \E r \in Refined, c \in child_pos : l = Append(r, c)
  <2>1. Bal!child_pos = child_pos
    BY DEF Bal!child_pos, Bal!no_children, child_pos, no_children
  <2> HIDE DEF Refined
  <2>2. ASSUME NEW l
        PROVE  l \in {path \in {Append(r, c) : r \in Refined, c \in child_pos} :
                        path \notin Refined}
               <=> l \notin Refined /\ \E r \in Refined, c \in child_pos : l = Append(r, c)
    OBVIOUS
  <2>3. ASSUME NEW l
        PROVE  l \in (IF Refined = {} THEN {<<>>} ELSE {}) <=> Refined = {} /\ l = <<>>
    OBVIOUS
  <2> QED BY <2>1, <2>2, <2>3 DEF Bal!Tree!Leaves
<1>3. PathIn(groups, 0) = <<>> /\ 0 \in UsedIn(groups)
  BY DEF PathIn, UsedIn
<1>4. ASSUME NEW l \in Bal!Tree!Leaves
      PROVE  l \notin Refined /\ \E n \in UsedIn(groups) : l = PathIn(groups, n)
  <2>1. CASE Refined = {} /\ l = <<>>
    BY <2>1, <1>3
  <2>2. CASE l \notin Refined /\ \E r \in Refined, c \in child_pos : l = Append(r, c)
    <3>1. PICK r \in Refined, c \in child_pos : l = Append(r, c)
      BY <2>2
    <3>2. PICK s \in DOMAIN groups : groups[s] = r
      BY <1>1
    <3>3. node(s, c) \in UsedIn(groups) /\ PathIn(groups, node(s, c)) = Append(r, c)
      BY <3>2, NodeInUse
    <3> QED BY <2>2, <3>1, <3>3
  <2> QED BY <1>2, <1>4, <2>1, <2>2
<1>5. ASSUME NEW n \in UsedIn(groups), PathIn(groups, n) \notin Refined
      PROVE  PathIn(groups, n) \in Bal!Tree!Leaves
  <2>1. CASE n = 0
    BY <2>1, <1>2, <1>3, <1>5, RootPath
  <2>2. CASE n # 0
    <3>1. /\ group(n) \in DOMAIN groups /\ (n - 1) % NC \in child_pos
          /\ PathIn(groups, n) = Append(groups[group(n)], (n - 1) % NC)
      BY <2>2, UsedNode
    <3>2. groups[group(n)] \in Refined
      BY <1>1, <3>1
    <3> QED BY <1>2, <1>5, <3>1, <3>2
  <2> QED BY <2>1, <2>2
<1> QED BY <1>4, <1>5

(* balanced_refine leaves a tree, in which the nodes of before keep their     *)
(* places and the node it is called for has children.                         *)
LEMMA RefinedTree ==
  ASSUME IsTree(groups), NEW n \in UsedIn(groups), is_leaf(n),
         NEW new \in Refinements(PathIn(groups, n))
  PROVE  LET gs == Joined(new, groups)
         IN  /\ IsTree(gs)
             /\ \E s \in DOMAIN gs : gs[s] = PathIn(groups, n)
             /\ \A m \in UsedIn(groups) :
                  m \in UsedIn(gs) /\ PathIn(gs, m) = PathIn(groups, m)
<1>1. PICK path : path = PathIn(groups, n)
  OBVIOUS
<1>2. PICK gs : gs = Joined(new, groups)
  OBVIOUS
<1>3. PICK needed : needed = Needed(path)
  OBVIOUS
<1>4. PICK free : free = (1 .. NoGroups) \ DOMAIN groups
  OBVIOUS
<1>5. PICK lowest : lowest = {s \in free : Rank(free, s) < Cardinality(needed)}
  OBVIOUS
<1>6. new \in Bijection(lowest, needed)
  BY <1>1, <1>3, <1>4, <1>5 DEF Refinements
<1>7. /\ new \in [lowest -> needed]
      /\ \A s, t \in lowest : new[s] = new[t] => s = t
      /\ \A m \in needed : \E s \in lowest : new[s] = m
  <2>1. new \in [lowest -> needed] /\ IsInjective(new)
    BY <1>6 DEF Bijection, Injection
  <2>2. \A m \in needed : \E s \in lowest : new[s] = m
    BY <1>6 DEF Bijection, Surjection
  <2> QED BY <2>1, <2>2 DEF IsInjective
<1>8. needed \subseteq Bal!Tree!Leaves
  BY <1>3 DEF Needed
<1>9. \A r : r \in Refined <=> \E s \in DOMAIN groups : groups[s] = r
  BY DEF Refined, Range
<1>10. path \in Bal!Tree!Leaves
  <2>1. path \notin Refined
    BY <1>1, TheTree DEF is_leaf
  <2> QED BY <1>1, <2>1, LeafPaths
<1>11. path \in needed
  BY <1>3, <1>10 DEF Needed
<1>12. /\ DOMAIN gs = lowest \cup DOMAIN groups
       /\ lowest \cap DOMAIN groups = {}
       /\ \A s \in lowest : gs[s] = new[s]
       /\ \A s \in DOMAIN groups : gs[s] = groups[s]
  BY <1>2, <1>4, <1>5, <1>7 DEF Joined
<1>13. \A s \in lowest :
         /\ gs[s] \notin Refined
         /\ \E m \in UsedIn(groups) : gs[s] = PathIn(groups, m)
  <2>1. \A s \in lowest : new[s] \in Bal!Tree!Leaves
    BY <1>7, <1>8
  <2> QED BY <2>1, <1>12, LeafPaths
<1>14. IsTree(gs)
  <2>1. DOMAIN gs \subseteq 1 .. NoGroups
    BY <1>4, <1>5, <1>12 DEF IsTree
  <2>2. \A s \in DOMAIN gs : gs[s] \in Paths
    BY <1>12, <1>13, PathType DEF IsTree
  <2>3. ASSUME NEW s \in DOMAIN gs, NEW t \in DOMAIN gs, gs[s] = gs[t] PROVE s = t
    <3>1. CASE s \in lowest /\ t \in lowest
      BY <2>3, <3>1, <1>7, <1>12
    <3>2. CASE s \in DOMAIN groups /\ t \in DOMAIN groups
      BY <2>3, <3>2, <1>12 DEF IsTree
    <3>3. CASE s \in lowest /\ t \in DOMAIN groups
      BY <2>3, <3>3, <1>9, <1>12, <1>13
    <3>4. CASE s \in DOMAIN groups /\ t \in lowest
      BY <2>3, <3>4, <1>9, <1>12, <1>13
    <3> QED BY <3>1, <3>2, <3>3, <3>4, <1>12
  <2>4. ASSUME NEW s \in DOMAIN gs, NEW k \in 0 .. Len(gs[s]) - 1
        PROVE  \E t \in DOMAIN gs : gs[t] = SubSeq(gs[s], 1, k)
    <3>1. \E t \in DOMAIN groups : groups[t] = SubSeq(gs[s], 1, k)
      <4>1. CASE s \in lowest
        <5>1. PICK m \in UsedIn(groups) : gs[s] = PathIn(groups, m)
          BY <4>1, <1>13
        <5>2. k \in 0 .. Len(PathIn(groups, m)) - 1
          BY <5>1
        <5> QED BY <5>1, <5>2, OverNodes
      <4>2. CASE s \in DOMAIN groups
        <5>1. gs[s] = groups[s] /\ k \in 0 .. Len(groups[s]) - 1
          BY <4>2, <1>12
        <5> QED BY <4>2, <5>1 DEF IsTree
      <4> QED BY <4>1, <4>2, <1>12
    <3> QED BY <3>1, <1>12
  <2> QED BY <2>1, <2>2, <2>3, <2>4 DEF IsTree
<1>15. \E s \in DOMAIN gs : gs[s] = path
  BY <1>7, <1>11, <1>12
<1>16. ASSUME NEW m \in UsedIn(groups)
       PROVE  m \in UsedIn(gs) /\ PathIn(gs, m) = PathIn(groups, m)
  <2>1. CASE m = 0
    BY <2>1 DEF UsedIn, PathIn
  <2>2. CASE m # 0
    <3>1. /\ group(m) \in DOMAIN groups /\ (m - 1) % NC \in child_pos
          /\ m = node(group(m), (m - 1) % NC)
      BY <2>2, UsedNode
    <3>2. group(m) \in DOMAIN gs /\ gs[group(m)] = groups[group(m)]
      BY <1>12, <3>1
    <3> QED BY <3>1, <3>2 DEF UsedIn, PathIn
  <2> QED BY <2>1, <2>2
<1> QED BY <1>1, <1>2, <1>14, <1>15, <1>16

(* remove leaves a tree, with the nodes that grids have cells in.             *)
LEMMA RemovedTree ==
  ASSUME IsTree(groups), NEW n \in UsedIn(groups), NEW grids, NEW g \in Grid
  PROVE  LET gs == Removed(grids, g, n)
         IN  /\ IsTree(gs)
             /\ \A h \in Grid : \A m \in UsedIn(groups) \cap DOMAIN grids[h].in_tree :
                  m \in UsedIn(gs) /\ PathIn(gs, m) = PathIn(groups, m)
<1>1. PICK gs : gs = Removed(grids, g, n)
  OBVIOUS
<1>2. CASE gs = groups
  BY <1>1, <1>2
<1>3. CASE gs # groups
  <2>1. PICK path : path = groups[group(n)]
    OBVIOUS
  <2>2. /\ n # 0
        /\ \A h \in Grid : siblings(n) \cap DOMAIN grids[h].in_tree = {}
        /\ Bal!CanCoarsen(path)
        /\ gs = Without(path)
    BY <1>1, <1>3, <2>1 DEF Removed
  <2>3. PICK s : s = group(n)
    OBVIOUS
  <2>4. s \in DOMAIN groups /\ groups[s] = path
    BY <2>1, <2>2, <2>3, UsedNode
  <2>5. /\ DOMAIN gs = DOMAIN groups \ {s}
        /\ \A t \in DOMAIN gs : gs[t] = groups[t]
    <3>1. {t \in DOMAIN groups : groups[t] # path} = DOMAIN groups \ {s}
      BY <2>4 DEF IsTree
    <3> QED BY <2>2, <3>1 DEF Without, Restrict
  <2>6. \A p \in child_pos : \A t \in DOMAIN groups : groups[t] # Append(path, p)
    <3>1. \A p \in child_pos : Append(path, p) \notin Refined
      <4>1. Bal!child_pos = child_pos
        BY DEF Bal!child_pos, Bal!no_children, child_pos, no_children
      <4>2. \A c \in Bal!children(path) : c \notin Refined
        BY <2>2 DEF Bal!CanCoarsen, Bal!is_leaf
      <4> QED BY <4>1, <4>2 DEF Bal!children
    <3> QED BY <3>1 DEF Refined, Range
  <2>7. IsTree(gs)
    <3>1. ASSUME NEW t \in DOMAIN gs, NEW k \in 0 .. Len(gs[t]) - 1
          PROVE  \E u \in DOMAIN gs : gs[u] = SubSeq(gs[t], 1, k)
      <4>1. PICK b : b = groups[t]
        OBVIOUS
      <4>2. b \in Paths /\ b \in Words /\ Len(b) \in Nat /\ k \in 0 .. Len(b) - 1
            /\ gs[t] = b /\ path \in Paths /\ path \in Words
        BY <2>4, <2>5, <3>1, <4>1, PathsAreWords DEF IsTree
      <4>3. PICK u \in DOMAIN groups : groups[u] = SubSeq(b, 1, k)
        <5>1. t \in DOMAIN groups /\ k \in 0 .. Len(groups[t]) - 1
          BY <2>5, <4>1, <4>2
        <5> QED BY <4>1, <5>1 DEF IsTree
      <4>4. u # s
        <5> SUFFICES ASSUME path = SubSeq(b, 1, k) PROVE FALSE
          BY <2>4, <4>3
        <5>1. PICK i : i = k + 1
          OBVIOUS
        <5>2. \A j \in 1 .. i : b[j] \in child_pos
          <6>1. \A j \in 1 .. i : j \in 1 .. Len(b)
            BY <4>2, <5>1
          <6> QED BY <4>2, <6>1 DEF Paths
        <5>3. PICK d : d = SubSeq(b, 1, i)
          OBVIOUS
        <5>4. d \in Paths /\ Len(d) = i /\ \A j \in 1 .. i : d[j] = b[j]
          <6>1. /\ SubSeq(b, 1, i) \in Seq(child_pos)
                /\ Len(SubSeq(b, 1, i)) = IF 1 <= i THEN i - 1 + 1 ELSE 0
                /\ \A j \in 1 .. i - 1 + 1 : SubSeq(b, 1, i)[j] = b[1 + j - 1]
            BY <4>2, <5>1, <5>2, SubSeqProperties
          <6> QED BY <4>2, <5>1, <5>3, <6>1 DEF Paths
        <5>5. PICK e, p : e = Front(d) /\ p = Last(d)
          OBVIOUS
        <5>6. e \in Paths /\ p \in child_pos /\ Len(e) = i - 1 /\ d = Append(e, p)
          <6>1. d # <<>>
            BY <4>2, <5>1, <5>4
          <6> QED BY <5>4, <5>5, <6>1, PathOfChild
        <5>7. e = path
          <6>1. e = SubSeq(d, 1, k)
            BY <4>2, <5>1, <5>4, <5>5 DEF Front
          <6>2. k \in Int /\ k <= Len(b) /\ k <= Len(d) /\ \A j \in 1 .. k : d[j] = b[j]
            BY <4>2, <5>1, <5>4
          <6>3. d \in Words
            BY <5>4, PathsAreWords
          <6>4. SubSeq(d, 1, k) = SubSeq(b, 1, k)
            BY <4>2, <6>2, <6>3, SameBeginning
          <6> QED BY <6>1, <6>4
        <5>8. \E v \in DOMAIN groups : groups[v] = d
          <6>1. CASE i = Len(b)
            <7>1. d = b
              BY <4>2, <5>3, <6>1, SubSeqFull DEF Paths
            <7> QED BY <2>5, <4>1, <7>1
          <6>2. CASE i # Len(b)
            <7>1. i \in 0 .. Len(b) - 1
              BY <4>2, <5>1, <6>2
            <7> QED BY <2>5, <4>1, <5>3, <7>1 DEF IsTree
          <6> QED BY <6>1, <6>2
        <5> QED BY <2>6, <5>6, <5>7, <5>8
      <4> QED BY <2>5, <4>2, <4>3, <4>4
    <3> QED BY <2>5, <3>1 DEF IsTree
  <2>8. ASSUME NEW h \in Grid, NEW m \in UsedIn(groups) \cap DOMAIN grids[h].in_tree
        PROVE  m \in UsedIn(gs) /\ PathIn(gs, m) = PathIn(groups, m)
    <3>1. CASE m = 0
      BY <3>1 DEF UsedIn, PathIn
    <3>2. CASE m # 0
      <4>1. /\ group(m) \in DOMAIN groups /\ (m - 1) % NC \in child_pos
            /\ m = node(group(m), (m - 1) % NC)
        BY <3>2, UsedNode
      <4>2. m \notin siblings(n)
        BY <2>2
      <4>3. group(m) # s
        BY <2>3, <4>1, <4>2 DEF siblings
      <4>4. group(m) \in DOMAIN gs /\ gs[group(m)] = groups[group(m)]
        BY <2>5, <4>1, <4>3
      <4> QED BY <4>1, <4>4 DEF UsedIn, PathIn
    <3> QED BY <3>1, <3>2
  <2> QED BY <1>1, <2>7, <2>8
<1> QED BY <1>2, <1>3

LEMMA ParentNode ==
  ASSUME IsTree(groups), NEW n \in UsedIn(groups), n # 0
  PROVE  /\ parent(n) \in UsedIn(groups)
         /\ PathIn(groups, parent(n)) = groups[group(n)]
<1>1. PICK a : a = groups[group(n)]
  OBVIOUS
<1>2. group(n) \in DOMAIN groups /\ a \in Paths
  BY <1>1, UsedNode
<1>3. \E m \in UsedIn(groups) : PathIn(groups, m) = a
  <2>1. CASE a = <<>>
    BY <2>1 DEF UsedIn, PathIn
  <2>2. CASE a # <<>>
    <3>1. PICK e, p : e = Front(a) /\ p = Last(a)
      OBVIOUS
    <3>2. e \in Paths /\ p \in child_pos /\ Len(a) \in Nat /\ Len(a) >= 1
          /\ a = Append(e, p)
      BY <1>2, <2>2, <3>1, PathOfChild, PathsAreWords
    <3>3. e = SubSeq(a, 1, Len(a) - 1)
      BY <3>1 DEF Front
    <3>4. Len(a) - 1 \in 0 .. Len(a) - 1
      BY <3>2
    <3>5. PICK t \in DOMAIN groups : groups[t] = e
      BY <1>1, <1>2, <3>3, <3>4 DEF IsTree
    <3>6. node(t, p) \in UsedIn(groups) /\ PathIn(groups, node(t, p)) = Append(e, p)
      BY <3>2, <3>5, NodeInUse
    <3> QED BY <3>2, <3>6
  <2> QED BY <2>1, <2>2
<1>4. parent(n) = CHOOSE m \in UsedIn(groups) : PathIn(groups, m) = a
  BY <1>1, TheTree DEF parent
<1> QED BY <1>1, <1>3, <1>4

-----------------------------------------------------------------------------
(* The inductive invariant.                                                 *)

(* The assertions that can fail: the others, of a sort, cannot. *)
Stops == {"no", "push: invalid grid node", "refine: invalid child node",
          "coarsen: node is not in use"}

(* The first cells of the grid that is being sorted have their places. *)
InPlace ==
  \E g \in unsynced, i \in Nat :
    /\ sorting = <<g, i>>
    /\ i <= Cardinality(grid_nodes(g))
    /\ \A k \in 0 .. i - 1 : grid[g].in_tree[Nth(grid_nodes(g), k)] = k

Inv ==
  /\ IsTree(groups)
  /\ grid = [g \in Grid |-> grid[g]]
  /\ \A g \in Grid : GridInv(groups, grid[g], Cell(g))
  /\ unsynced \subseteq Grid
  /\ \A g \in Grid :
       g \notin unsynced \/ (sorting # <<>> /\ sorting[1] = g) => LinkedBack(grid[g])
  /\ unsynced # {} => InOrder(groups)
  /\ sorting # <<>> => InPlace
  /\ failed \in Stops

(* The content of a grid, which a step keeps. *)
Kept(h) == ContentIn(groups', grid'[h]) = ContentIn(groups, grid[h])

LEMMA FreshGrid ==
  ASSUME NEW gs, NEW g \in Grid
  PROVE  GridInv(gs, Fresh(g), Cell(g)) /\ LinkedBack(Fresh(g))
<1>1. Fresh(g).in_tree = <<>> /\ DOMAIN <<>> = {}
  BY DEF Fresh
<1> QED BY <1>1, FreshMemory DEF GridInv, Apart, Values

LEMMA Stopping ==
  ASSUME NEW a \in Stops, Stop(a)
  PROVE  Inv'
<1>1. /\ groups' = <<>> /\ grid' = [g \in Grid |-> Fresh(g)]
      /\ unsynced' = {} /\ sorting' = <<>> /\ failed' = a
  BY DEF Stop
<1>2. IsTree(groups')
  BY <1>1, EmptyTree
<1>3. ASSUME NEW g \in Grid
      PROVE  GridInv(groups', grid'[g], Cell(g)) /\ LinkedBack(grid'[g])
  BY <1>1, FreshGrid
<1>4. grid' = [g \in Grid |-> grid'[g]]
  BY <1>1
<1> QED BY <1>1, <1>2, <1>3, <1>4 DEF Inv

(* What is known of a grid between two operations. *)
LEMMA ReadyGrid ==
  ASSUME Inv, Ready, NEW g \in Grid
  PROVE  /\ IsTree(groups)
         /\ GridInv(groups, grid[g], Cell(g))
         /\ Memory(grid[g], Cell(g)) /\ LinkedBack(grid[g])
         /\ DOMAIN grid[g].in_tree \subseteq UsedIn(groups)
         /\ DOMAIN grid[g].in_tree \in SUBSET Nat
         /\ DOMAIN grid[g].ids = in_use(g)
         /\ \A c \in in_use(g) :
              /\ tree_node(g, c) \in UsedIn(groups) \cap DOMAIN grid[g].in_tree
              /\ grid[g].in_tree[tree_node(g, c)] = c
<1>1. /\ IsTree(groups) /\ GridInv(groups, grid[g], Cell(g)) /\ LinkedBack(grid[g])
      /\ Memory(grid[g], Cell(g)) /\ DOMAIN grid[g].in_tree \subseteq UsedIn(groups)
  BY DEF Inv, Ready, GridInv
<1>2. DOMAIN grid[g].ids = in_use(g) /\ DOMAIN grid[g].in_tree \in SUBSET Nat
  BY <1>1 DEF Memory, in_use
<1> QED BY <1>1, <1>2 DEF LinkedBack, tree_node

(* An operation changes one grid and leaves the nodes of the others alone. *)
LEMMA Operation ==
  ASSUME Inv, Ready, NEW g \in Grid, NEW gs, NEW st,
         groups' = gs, grid' = [grid EXCEPT ![g] = st],
         UNCHANGED <<unsynced, sorting, failed>>,
         IsTree(gs), GridInv(gs, st, Cell(g)), LinkedBack(st),
         \A h \in Grid \ {g} : \A n \in DOMAIN grid[h].in_tree :
           n \in UsedIn(gs) /\ PathIn(gs, n) = PathIn(groups, n)
  PROVE  Inv' /\ \A h \in Grid \ {g} : Kept(h)
<1>1. grid = [h \in Grid |-> grid[h]] /\ unsynced' = {} /\ sorting' = <<>>
      /\ failed' \in Stops
  BY DEF Inv, Ready
<1>2. grid'[g] = st /\ \A h \in Grid \ {g} : grid'[h] = grid[h]
  BY <1>1
<1>3. ASSUME NEW h \in Grid \ {g}
      PROVE  /\ GridInv(groups', grid'[h], Cell(h)) /\ LinkedBack(grid'[h])
             /\ Kept(h)
  <2>1. GridInv(groups, grid[h], Cell(h)) /\ LinkedBack(grid[h])
    BY ReadyGrid
  <2>2. GridInv(gs, grid[h], Cell(h)) /\ ContentIn(gs, grid[h]) = ContentIn(groups, grid[h])
    BY <2>1, KeptGrid
  <2> QED BY <1>2, <2>1, <2>2 DEF Kept
<1>4. \A h \in Grid : GridInv(groups', grid'[h], Cell(h)) /\ LinkedBack(grid'[h])
  BY <1>2, <1>3
<1>5. grid' = [h \in Grid |-> grid'[h]]
  BY <1>1
<1> QED BY <1>1, <1>3, <1>4, <1>5 DEF Inv

(* The operation that leaves the tree alone. *)
LEMMA OperationInGrid ==
  ASSUME Inv, Ready, NEW g \in Grid, NEW st, grid' = [grid EXCEPT ![g] = st],
         UNCHANGED <<groups, unsynced, sorting, failed>>,
         GridInv(groups, st, Cell(g)), LinkedBack(st)
  PROVE  Inv' /\ \A h \in Grid \ {g} : Kept(h)
<1>1. PICK gs : gs = groups
  OBVIOUS
<1>2. \A h \in Grid \ {g} : \A n \in DOMAIN grid[h].in_tree :
        n \in UsedIn(gs) /\ PathIn(gs, n) = PathIn(groups, n)
  BY <1>1, ReadyGrid
<1>3. IsTree(gs) /\ GridInv(gs, st, Cell(g)) /\ groups' = gs
  BY <1>1, ReadyGrid
<1>4. UNCHANGED <<unsynced, sorting, failed>>
  OBVIOUS
<1> QED BY <1>2, <1>3, <1>4, Operation

LEMMA ResetStep ==
  ASSUME Inv, NEW g \in Grid, reset(g)
  PROVE  Inv' /\ \A h \in Grid \ {g} : Kept(h)
<1>1. GridInv(groups, Fresh(g), Cell(g)) /\ LinkedBack(Fresh(g))
  BY FreshGrid
<1>2. Ready /\ grid' = [grid EXCEPT ![g] = Fresh(g)]
      /\ UNCHANGED <<groups, unsynced, sorting, failed>>
  BY DEF reset
<1> QED BY <1>1, <1>2, OperationInGrid

LEMMA SetValuesStep ==
  ASSUME Inv, NEW g \in Grid, set_node_values(g)
  PROVE  Inv' /\ \A h \in Grid \ {g} : Kept(h)
<1>1. Ready
  BY DEF set_node_values
<1>2. PICK st : st = grid[g]
  OBVIOUS
<1>3. PICK values : values = [c \in Cell(g) |->
                IF c \in in_use(g) THEN Path(tree_node(g, c)) ELSE st.signed_distance[c]]
  OBVIOUS
<1>4. PICK after : after = [st EXCEPT !.signed_distance = values]
  OBVIOUS
<1>5. grid' = [grid EXCEPT ![g] = after]
      /\ UNCHANGED <<groups, unsynced, sorting, failed>>
  <2>1. grid' = [grid EXCEPT ![g].signed_distance = values]
        /\ UNCHANGED <<groups, unsynced, sorting, failed>>
    BY <1>2, <1>3 DEF set_node_values, Inv
  <2> QED BY <1>2, <1>4, <2>1
<1>6. /\ Memory(st, Cell(g)) /\ LinkedBack(st) /\ IsTree(groups)
      /\ GridInv(groups, st, Cell(g))
      /\ \A c \in in_use(g) : tree_node(g, c) \in UsedIn(groups)
      /\ in_use(g) = Cell(g) \ st.free
      /\ \A n \in DOMAIN st.in_tree : st.in_tree[n] \in in_use(g)
                                      /\ tree_node(g, st.in_tree[n]) = n
  <2>1. /\ Memory(st, Cell(g)) /\ LinkedBack(st) /\ IsTree(groups)
        /\ GridInv(groups, st, Cell(g))
        /\ \A c \in in_use(g) : tree_node(g, c) \in UsedIn(groups)
        /\ in_use(g) = Cell(g) \ st.free
    BY <1>1, <1>2, ReadyGrid DEF in_use
  <2>2. \A n \in DOMAIN st.in_tree : st.in_tree[n] \in DOMAIN st.ids
                                     /\ st.ids[st.in_tree[n]] = n
    BY <2>1, LinksInvert
  <2>3. DOMAIN st.ids = in_use(g)
    BY <2>1 DEF Memory
  <2> QED BY <1>2, <2>1, <2>2, <2>3 DEF tree_node
<1>7. values \in [Cell(g) -> Words] /\ \A c \in st.free : values[c] = Stale
  <2>1. \A c \in Cell(g) : values[c] \in Words
    <3> SUFFICES ASSUME NEW c \in Cell(g) PROVE values[c] \in Words
      OBVIOUS
    <3>1. CASE c \in in_use(g)
      <4>1. PICK n : n = tree_node(g, c)
        OBVIOUS
      <4>2. n \in UsedIn(groups) /\ values[c] = PathIn(groups, n)
        BY <1>3, <1>6, <3>1, <4>1, TheTree
      <4> QED BY <1>6, <4>2, PathType, PathsAreWords
    <3>2. CASE c \notin in_use(g)
      BY <1>3, <1>6, <3>2 DEF Memory
    <3> QED BY <3>1, <3>2
  <2>2. \A c \in st.free : c \in Cell(g) /\ c \notin in_use(g)
    BY <1>6 DEF Memory
  <2> QED BY <1>3, <1>6, <2>1, <2>2 DEF Memory
<1>8. /\ Memory(after, Cell(g)) /\ LinkedBack(after)
      /\ after.in_tree = st.in_tree /\ after.signed_distance = values
  BY <1>4, <1>6, <1>7, NewValues
<1>9. GridInv(groups, after, Cell(g))
  <2>1. ASSUME NEW n \in DOMAIN after.in_tree
        PROVE  IsPrefix(after.signed_distance[after.in_tree[n]], PathIn(groups, n))
    <3>1. PICK c : c = st.in_tree[n]
      OBVIOUS
    <3>2. c \in Cell(g) /\ c \in in_use(g) /\ tree_node(g, c) = n
      BY <1>6, <1>8, <3>1
    <3>3. values[c] = PathIn(groups, n)
      BY <1>3, <3>2, TheTree
    <3>4. n \in UsedIn(groups)
      BY <1>6, <3>2
    <3>5. PathIn(groups, n) \in Paths /\ PathIn(groups, n) \in Words
      BY <1>6, <3>4, PathType, PathsAreWords
    <3>6. IsPrefix(PathIn(groups, n), PathIn(groups, n))
      BY <3>5, PrefixIsOver, OverItself
    <3> QED BY <1>8, <3>1, <3>3, <3>6
  <2> QED BY <1>6, <1>8, <2>1 DEF GridInv, Apart, Values
<1> QED BY <1>1, <1>5, <1>8, <1>9, OperationInGrid

LEMMA PushStep ==
  ASSUME Inv, NEW g \in Grid, NEW n \in UsedNodes, push(g, n)
  PROVE  Inv' /\ (failed' = "no" => \A h \in Grid \ {g} : Kept(h))
<1>1. Ready /\ \A m \in grid_nodes(g) : ~Related(Path(n), Path(m))
  BY DEF push
<1>2. CASE grid[g].free = {}
  <2>1. Stop("push: invalid grid node")
    BY <1>2 DEF push
  <2> QED BY <2>1, Stopping DEF Stop, Stops
<1>3. CASE grid[g].free # {}
  <2>1. PICK st : st = grid[g]
    OBVIOUS
  <2>2. PICK pushed : pushed = Pushed(st, {n})
    OBVIOUS
  <2>3. PICK path : path = PathIn(groups, n)
    OBVIOUS
  <2>4. PICK k : k = pushed.in_tree[n]
    OBVIOUS
  <2>5. PICK after : after = [pushed EXCEPT !.signed_distance[k] = path]
    OBVIOUS
  <2>6. grid' = [grid EXCEPT ![g] = after]
        /\ UNCHANGED <<groups, unsynced, sorting, failed>>
    BY <1>3, <2>1, <2>2, <2>3, <2>4, <2>5, TheTree DEF push
  <2>7. /\ IsTree(groups) /\ GridInv(groups, st, Cell(g)) /\ Memory(st, Cell(g))
        /\ LinkedBack(st)
        /\ \A m \in DOMAIN st.in_tree :
             m \in UsedIn(groups) /\ PathIn(groups, m) \in Paths
             /\ ~Related(path, PathIn(groups, m))
    BY <1>1, <2>1, <2>3, ReadyGrid, PathType, TheTree DEF grid_nodes
  <2>8. n \in UsedIn(groups) /\ n \in Nat /\ path \in Paths /\ path \in Words
    BY <2>3, <2>7, TheTree, PathType, PathsAreWords
  <2>9. n \notin DOMAIN st.in_tree
    BY <2>3, <2>7, <2>8, RelatedPaths
  <2>10. /\ Memory(pushed, Cell(g)) /\ LinkedBack(pushed)
         /\ DOMAIN pushed.in_tree = DOMAIN st.in_tree \cup {n}
         /\ \A m \in DOMAIN st.in_tree : pushed.in_tree[m] = st.in_tree[m]
         /\ k \in st.free
         /\ pushed.signed_distance = st.signed_distance
    <3>1. PICK nodes : nodes = {n}
      OBVIOUS
    <3>2. PICK C : C = Cell(g)
      OBVIOUS
    <3>3. nodes \in SUBSET Nat /\ IsFiniteSet(nodes) /\ Cardinality(nodes) = 1
      BY <2>8, <3>1, FS_Singleton
    <3>4. C \in SUBSET Nat /\ IsFiniteSet(C)
      BY <3>2, CellsFinite
    <3>5. IsFiniteSet(st.free) /\ Cardinality(st.free) \in Nat
      <4>1. st.free \in SUBSET C
        BY <2>7, <3>2 DEF Memory
      <4> QED BY <3>4, <4>1, FS_Subset, FS_CardinalityType
    <3>6. Cardinality(nodes) <= Cardinality(st.free)
      BY <1>3, <2>1, <3>3, <3>5, FS_EmptySet
    <3>7. nodes \cap DOMAIN st.in_tree = {} /\ Memory(st, C)
      BY <2>7, <2>9, <3>1, <3>2
    <3>8. /\ Memory(Pushed(st, nodes), C)
          /\ LinkedBack(Pushed(st, nodes))
          /\ DOMAIN Pushed(st, nodes).in_tree = DOMAIN st.in_tree \cup nodes
          /\ \A m \in DOMAIN st.in_tree : Pushed(st, nodes).in_tree[m] = st.in_tree[m]
          /\ \A m \in nodes : Pushed(st, nodes).in_tree[m] \in st.free
          /\ Pushed(st, nodes).signed_distance = st.signed_distance
      BY <2>7, <3>3, <3>4, <3>6, <3>7, PushedMemory
    <3> QED BY <2>2, <2>4, <3>1, <3>2, <3>8
  <2>11. PICK values : values = [pushed.signed_distance EXCEPT ![k] = path]
    OBVIOUS
  <2>12. /\ values \in [Cell(g) -> Words]
         /\ \A c \in pushed.free : values[c] = Stale
         /\ k \in Cell(g) /\ values[k] = path
         /\ \A c \in Cell(g) \ {k} : values[c] = st.signed_distance[c]
    <3>1. k \notin pushed.free
      BY <2>4, <2>10 DEF Memory, Range
    <3>2. k \in Cell(g)
      BY <2>7, <2>10 DEF Memory
    <3>3. pushed.signed_distance \in [Cell(g) -> Words]
      BY <2>10 DEF Memory
    <3>4. \A c \in pushed.free : c \in Cell(g) /\ pushed.signed_distance[c] = Stale
      BY <2>10 DEF Memory
    <3> QED BY <2>8, <2>10, <2>11, <3>1, <3>2, <3>3, <3>4
  <2>13. /\ Memory(after, Cell(g)) /\ LinkedBack(after)
         /\ after.in_tree = pushed.in_tree /\ after.signed_distance = values
    <3>1. after = [pushed EXCEPT !.signed_distance = values]
      BY <2>5, <2>11
    <3> QED BY <2>10, <2>12, <3>1, NewValues
  <2>14. Apart(groups, after)
    <3>1. \A m \in DOMAIN st.in_tree : ~Related(PathIn(groups, m), path)
      BY <2>7 DEF Related
    <3> QED BY <2>3, <2>7, <2>10, <2>13, <3>1 DEF GridInv, Apart
  <2>15. Values(groups, after)
    <3> SUFFICES ASSUME NEW m \in DOMAIN after.in_tree
                 PROVE  \/ after.signed_distance[after.in_tree[m]] = Stale
                        \/ IsPrefix(after.signed_distance[after.in_tree[m]], PathIn(groups, m))
      BY DEF Values
    <3>1. CASE m = n
      <4>1. after.signed_distance[after.in_tree[m]] = path
        <5>1. after.in_tree[m] = k
          BY <2>4, <2>13, <3>1
        <5>2. after.signed_distance[k] = path
          BY <2>12, <2>13
        <5> QED BY <5>1, <5>2
      <4>2. IsPrefix(path, path)
        BY <2>8, PrefixIsOver, OverItself
      <4> QED BY <2>3, <3>1, <4>1, <4>2
    <3>2. CASE m # n
      <4>1. m \in DOMAIN st.in_tree /\ after.in_tree[m] = st.in_tree[m]
        BY <2>10, <2>13, <3>2
      <4>2. st.in_tree[m] \in Cell(g) \ {k}
        BY <2>7, <2>10, <4>1 DEF Memory, Range
      <4>3. after.signed_distance[after.in_tree[m]] = st.signed_distance[st.in_tree[m]]
        <5>1. PICK j : j = st.in_tree[m]
          OBVIOUS
        <5>2. after.in_tree[m] = j /\ j \in Cell(g) \ {k}
          BY <4>1, <4>2, <5>1
        <5>3. after.signed_distance[j] = st.signed_distance[j]
          BY <2>12, <2>13, <5>2
        <5> QED BY <5>1, <5>2, <5>3
      <4> QED BY <2>7, <4>1, <4>3 DEF GridInv, Values
    <3> QED BY <3>1, <3>2
  <2>16. GridInv(groups, after, Cell(g))
    BY <2>7, <2>8, <2>10, <2>13, <2>14, <2>15 DEF GridInv
  <2> QED BY <1>1, <2>6, <2>13, <2>16, OperationInGrid
<1> QED BY <1>2, <1>3

LEMMA PopStep ==
  ASSUME Inv, NEW g \in Grid, NEW c \in in_use(g), pop(g, c)
  PROVE  Inv' /\ \A h \in Grid \ {g} : Kept(h)
<1>1. PICK n : n = tree_node(g, c)
  OBVIOUS
<1>2. PICK st : st = grid[g]
  OBVIOUS
<1>3. PICK after : after = Popped(st, {c})
  OBVIOUS
<1>4. PICK grids : grids = [grid EXCEPT ![g] = after]
  OBVIOUS
<1>5. PICK gs : gs = Removed(grids, g, n)
  OBVIOUS
<1>6. Ready /\ groups' = gs /\ grid' = [grid EXCEPT ![g] = after]
      /\ UNCHANGED <<unsynced, sorting, failed>>
  BY <1>1, <1>2, <1>3, <1>4, <1>5 DEF pop
<1>7. /\ IsTree(groups) /\ GridInv(groups, st, Cell(g)) /\ Memory(st, Cell(g))
      /\ LinkedBack(st) /\ n \in UsedIn(groups) /\ c \in Cell(g) \ st.free
  BY <1>1, <1>2, <1>6, ReadyGrid DEF in_use
<1>8. /\ Memory(after, Cell(g)) /\ LinkedBack(after)
      /\ DOMAIN after.in_tree \subseteq DOMAIN st.in_tree
      /\ \A m \in DOMAIN after.in_tree :
           after.signed_distance[after.in_tree[m]] = st.signed_distance[st.in_tree[m]]
  <2>1. PICK C : C = Cell(g)
    OBVIOUS
  <2>2. PICK cs : cs = {c}
    OBVIOUS
  <2>3. C \in SUBSET Nat /\ IsFiniteSet(C) /\ Memory(st, C) /\ cs \in SUBSET (C \ st.free)
    BY <1>7, <2>1, <2>2, CellsFinite
  <2>4. /\ Memory(Popped(st, cs), C)
        /\ LinkedBack(Popped(st, cs))
        /\ DOMAIN Popped(st, cs).in_tree = {m \in DOMAIN st.in_tree : st.in_tree[m] \notin cs}
        /\ \A m \in DOMAIN Popped(st, cs).in_tree :
              /\ Popped(st, cs).in_tree[m] = st.in_tree[m]
              /\ Popped(st, cs).signed_distance[Popped(st, cs).in_tree[m]]
                   = st.signed_distance[st.in_tree[m]]
    BY <1>7, <2>3, PoppedMemory
  <2> QED BY <1>3, <2>1, <2>2, <2>4
<1>9. GridInv(groups, after, Cell(g))
  BY <1>7, <1>8 DEF GridInv, Apart, Values
<1>10. /\ IsTree(gs)
       /\ \A h \in Grid : \A m \in UsedIn(groups) \cap DOMAIN grids[h].in_tree :
            m \in UsedIn(gs) /\ PathIn(gs, m) = PathIn(groups, m)
  BY <1>5, <1>7, RemovedTree
<1>11. grids[g] = after /\ \A h \in Grid \ {g} : grids[h] = grid[h]
  BY <1>4 DEF Inv
<1>12. GridInv(gs, after, Cell(g))
  <2>1. \A m \in DOMAIN after.in_tree : m \in UsedIn(gs) /\ PathIn(gs, m) = PathIn(groups, m)
    BY <1>9, <1>10, <1>11 DEF GridInv
  <2> QED BY <1>9, <2>1, KeptGrid
<1>13. \A h \in Grid \ {g} : \A m \in DOMAIN grid[h].in_tree :
         m \in UsedIn(gs) /\ PathIn(gs, m) = PathIn(groups, m)
  BY <1>6, <1>10, <1>11, ReadyGrid
<1> QED BY <1>6, <1>8, <1>10, <1>12, <1>13, Operation

(* The children get cells and the value of their parent, whose cell goes. *)
LEMMA RefineIntoStep ==
  ASSUME Inv, Ready, NEW g \in Grid, NEW c \in in_use(g), NEW gs, IsTree(gs),
         \E s \in DOMAIN gs : gs[s] = PathIn(groups, tree_node(g, c)),
         \A m \in UsedIn(groups) : m \in UsedIn(gs) /\ PathIn(gs, m) = PathIn(groups, m),
         RefineInto(g, c, gs)
  PROVE  Inv' /\ (failed' = "no" => \A h \in Grid \ {g} : Kept(h))
<1>1. PICK n : n = tree_node(g, c)
  OBVIOUS
<1>2. PICK st : st = grid[g]
  OBVIOUS
<1>3. PICK path : path = PathIn(groups, n)
  OBVIOUS
<1>4. PICK kids : kids = ChildrenIn(gs, path)
  OBVIOUS
<1>5. PICK C : C = Cell(g)
  OBVIOUS
<1>6. CASE Cardinality(st.free) < NC
  <2>1. Stop("push: invalid grid node")
    BY <1>2, <1>6 DEF RefineInto
  <2> QED BY <2>1, Stopping DEF Stop, Stops
<1>7. CASE ~(Cardinality(st.free) < NC)
  <2>1. PICK pushed : pushed = Pushed(st, kids)
    OBVIOUS
  <2>2. PICK inter : inter = Interpolated(pushed, c, kids)
    OBVIOUS
  <2>3. PICK after : after = Popped(inter, {c})
    OBVIOUS
  <2>4. /\ groups' = gs /\ grid' = [grid EXCEPT ![g] = after]
        /\ UNCHANGED <<unsynced, sorting, failed>>
    BY <1>1, <1>2, <1>3, <1>4, <1>7, <2>1, <2>2, <2>3, TheTree DEF RefineInto
  <2>5. /\ IsTree(groups) /\ GridInv(groups, st, C) /\ Memory(st, C)
        /\ LinkedBack(st) /\ n \in UsedIn(groups) /\ c \in C \ st.free
        /\ n \in DOMAIN st.in_tree /\ st.in_tree[n] = c
        /\ DOMAIN st.in_tree \subseteq UsedIn(groups)
    BY <1>1, <1>2, <1>5, ReadyGrid DEF in_use
  <2>6. C \in SUBSET Nat /\ IsFiniteSet(C)
    BY <1>5, CellsFinite
  <2>7. path \in Paths
    BY <1>3, <2>5, PathType
  <2>8. \A m \in DOMAIN st.in_tree :
          /\ PathIn(gs, m) = PathIn(groups, m) /\ PathIn(gs, m) \in Paths
          /\ m \in UsedIn(gs)
    BY <2>5, PathType
  <2>9. /\ kids \in SUBSET UsedIn(gs) /\ IsFiniteSet(kids) /\ Cardinality(kids) = NC
        /\ kids \in SUBSET Nat
        /\ \A m \in kids : \E p \in child_pos : PathIn(gs, m) = Append(path, p)
    <3>1. PICK s \in DOMAIN gs : gs[s] = path
      BY <1>1, <1>3
    <3>2. /\ ChildrenIn(gs, gs[s]) \subseteq UsedIn(gs)
          /\ IsFiniteSet(ChildrenIn(gs, gs[s]))
          /\ Cardinality(ChildrenIn(gs, gs[s])) = NC
          /\ \A m \in ChildrenIn(gs, gs[s]) :
               \E p \in child_pos : PathIn(gs, m) = Append(gs[s], p)
      BY <3>1, ChildNodes
    <3>3. kids \in SUBSET UsedIn(gs)
      BY <1>4, <3>1, <3>2
    <3>4. kids \in SUBSET Nat
      BY <3>3, UsedFinite
    <3> QED BY <1>4, <3>1, <3>2, <3>3, <3>4
  <2>10. \A m \in kids : \A d \in DOMAIN st.in_tree :
            d # n => ~Related(PathIn(gs, m), PathIn(gs, d))
    <3> SUFFICES ASSUME NEW m \in kids, NEW d \in DOMAIN st.in_tree, d # n,
                        Related(PathIn(gs, m), PathIn(gs, d))
                 PROVE  FALSE
      OBVIOUS
    <3>1. PICK b : b = PathIn(groups, d)
      OBVIOUS
    <3>2. b \in Paths /\ PathIn(gs, d) = b
      BY <2>8, <3>1
    <3>3. PICK p \in child_pos : PathIn(gs, m) = Append(path, p)
      BY <2>9
    <3>4. Related(Append(path, p), b)
      BY <3>2, <3>3
    <3>5. Related(path, b)
      BY <2>7, <3>2, <3>4, ChildRelated
    <3>6. ~Related(PathIn(groups, n), PathIn(groups, d))
      BY <2>5 DEF GridInv, Apart
    <3> QED BY <1>3, <3>1, <3>5, <3>6
  <2>11. kids \cap DOMAIN st.in_tree = {}
    <3> SUFFICES ASSUME NEW m \in kids, m \in DOMAIN st.in_tree PROVE FALSE
      OBVIOUS
    <3>1. PICK p \in child_pos : PathIn(gs, m) = Append(path, p)
      BY <2>9
    <3>2. CASE m = n
      <4>1. Append(path, p) = path
        BY <1>3, <2>8, <3>1, <3>2
      <4>2. Len(Append(path, p)) = Len(path) + 1 /\ Len(path) \in Nat
        BY <2>7, PathAppend, PathsAreWords
      <4> QED BY <4>1, <4>2
    <3>3. CASE m # n
      <4>1. Related(PathIn(gs, m), PathIn(gs, m))
        BY <2>8, RelatedPaths
      <4> QED BY <3>3, <4>1, <2>10
    <3> QED BY <3>2, <3>3
  <2>12. Cardinality(kids) <= Cardinality(st.free)
    <3>1. st.free \in SUBSET C
      BY <2>5 DEF Memory
    <3>2. Cardinality(st.free) \in Nat /\ NC \in Nat
      BY <2>6, <3>1, FS_Subset, FS_CardinalityType, ChildrenNumber
    <3> QED BY <1>7, <2>9, <3>2
  <2>13. /\ Memory(pushed, C) /\ LinkedBack(pushed)
         /\ DOMAIN pushed.in_tree = DOMAIN st.in_tree \cup kids
         /\ \A m \in DOMAIN st.in_tree : pushed.in_tree[m] = st.in_tree[m]
         /\ \A m \in kids : pushed.in_tree[m] \in st.free
         /\ pushed.signed_distance = st.signed_distance
    BY <2>1, <2>5, <2>6, <2>9, <2>11, <2>12, PushedMemory
  <2>14. PICK values : values = [k \in C |-> IF \E m \in kids : pushed.in_tree[m] = k
                                            THEN st.signed_distance[c]
                                            ELSE st.signed_distance[k]]
    OBVIOUS
  <2>15. inter = [pushed EXCEPT !.signed_distance = values]
    <3>1. DOMAIN pushed.signed_distance = C
      BY <2>13 DEF Memory
    <3> QED BY <2>2, <2>13, <2>14, <3>1 DEF Interpolated
  <2>16. values \in [C -> Words] /\ \A k \in pushed.free : values[k] = Stale
    <3>1. \A k \in C : st.signed_distance[k] \in Words
      BY <2>5 DEF Memory
    <3>2. \A k \in pushed.free : /\ k \in C
                                /\ st.signed_distance[k] = Stale
                                /\ \A m \in kids : pushed.in_tree[m] # k
      BY <2>13 DEF Memory, Range
    <3> QED BY <2>5, <2>14, <3>1, <3>2
  <2>17. /\ Memory(inter, C) /\ LinkedBack(inter)
         /\ inter.in_tree = pushed.in_tree /\ inter.signed_distance = values
         /\ inter.free = pushed.free
    BY <2>13, <2>15, <2>16, NewValues
  <2>18. inter.in_tree[n] = c /\ n \in DOMAIN inter.in_tree /\ c \in C \ inter.free
    BY <2>5, <2>13, <2>17 DEF Memory, Range
  <2>19. /\ Memory(after, C) /\ LinkedBack(after)
         /\ DOMAIN after.in_tree = {m \in DOMAIN inter.in_tree : inter.in_tree[m] # c}
         /\ \A m \in DOMAIN after.in_tree :
              after.signed_distance[after.in_tree[m]] = inter.signed_distance[inter.in_tree[m]]
    <3>1. PICK cs : cs = {c}
      OBVIOUS
    <3>2. cs \in SUBSET (C \ inter.free)
      BY <2>18, <3>1
    <3>3. /\ Memory(Popped(inter, cs), C)
          /\ LinkedBack(Popped(inter, cs))
          /\ DOMAIN Popped(inter, cs).in_tree
               = {m \in DOMAIN inter.in_tree : inter.in_tree[m] \notin cs}
          /\ \A m \in DOMAIN Popped(inter, cs).in_tree :
                Popped(inter, cs).signed_distance[Popped(inter, cs).in_tree[m]]
                  = inter.signed_distance[inter.in_tree[m]]
      BY <2>6, <2>17, <3>2, PoppedMemory
    <3> QED BY <2>3, <3>1, <3>3
  <2>20. DOMAIN after.in_tree = (DOMAIN st.in_tree \ {n}) \cup kids
    <3>1. \A m \in DOMAIN inter.in_tree : inter.in_tree[m] = c <=> m = n
      BY <2>17, <2>18 DEF Memory
    <3> QED BY <2>5, <2>11, <2>13, <2>17, <2>19, <3>1
  <2>21. Apart(gs, after)
    <3> SUFFICES ASSUME NEW a \in DOMAIN after.in_tree, NEW b \in DOMAIN after.in_tree,
                        a # b, Related(PathIn(gs, a), PathIn(gs, b))
                 PROVE  FALSE
      BY DEF Apart
    <3>1. Related(PathIn(gs, b), PathIn(gs, a))
      BY DEF Related
    <3>2. CASE a \in kids /\ b \in kids
      <4>1. PICK p \in child_pos : PathIn(gs, a) = Append(path, p)
        BY <2>9, <3>2
      <4>2. PICK q \in child_pos : PathIn(gs, b) = Append(path, q)
        BY <2>9, <3>2
      <4>3. p # q
        BY <2>9, <3>2, <4>1, <4>2, PathOneToOne
      <4> QED BY <2>7, <4>1, <4>2, <4>3, SiblingsApart
    <3>3. CASE a \in kids /\ b \in DOMAIN st.in_tree \ {n}
      BY <2>10, <3>3
    <3>4. CASE a \in DOMAIN st.in_tree \ {n} /\ b \in kids
      BY <2>10, <3>1, <3>4
    <3>5. CASE a \in DOMAIN st.in_tree /\ b \in DOMAIN st.in_tree
      BY <2>5, <2>8, <3>5 DEF GridInv, Apart
    <3> QED BY <2>20, <3>2, <3>3, <3>4, <3>5
  <2>22. Values(gs, after)
    <3> SUFFICES ASSUME NEW m \in DOMAIN after.in_tree
                 PROVE  \/ after.signed_distance[after.in_tree[m]] = Stale
                        \/ IsPrefix(after.signed_distance[after.in_tree[m]], PathIn(gs, m))
      BY DEF Values
    <3>1. PICK k : k = pushed.in_tree[m]
      OBVIOUS
    <3>2. m \in DOMAIN pushed.in_tree
      BY <2>17, <2>19
    <3>3. k \in C /\ after.signed_distance[after.in_tree[m]] = values[k]
      BY <2>13, <2>17, <2>19, <3>1, <3>2 DEF Memory
    <3>4. CASE m \in kids
      <4>1. PICK v : v = st.signed_distance[c]
        OBVIOUS
      <4>2. values[k] = v
        BY <2>14, <3>1, <3>3, <3>4, <4>1
      <4>3. v \in Words /\ (v = Stale \/ IsPrefix(v, path))
        BY <1>3, <2>5, <4>1 DEF Memory, GridInv, Values
      <4>4. PICK p \in child_pos : PathIn(gs, m) = Append(path, p)
        BY <2>9, <3>4
      <4>5. IsPrefix(v, path) => IsPrefix(v, Append(path, p))
        BY <2>7, <4>3, ValueBelow
      <4> QED BY <3>3, <4>2, <4>3, <4>4, <4>5
    <3>5. CASE m \in DOMAIN st.in_tree
      <4>1. k = st.in_tree[m]
        BY <2>13, <3>1, <3>5
      <4>2. \A j \in kids : pushed.in_tree[j] # k
        BY <2>11, <2>13, <3>1, <3>2, <3>5 DEF Memory
      <4>3. values[k] = st.signed_distance[k]
        BY <2>14, <3>3, <4>2
      <4>4. \/ st.signed_distance[st.in_tree[m]] = Stale
            \/ IsPrefix(st.signed_distance[st.in_tree[m]], PathIn(groups, m))
        BY <2>5, <3>5 DEF GridInv, Values
      <4> QED BY <2>8, <3>3, <3>5, <4>1, <4>3, <4>4
    <3> QED BY <2>20, <3>4, <3>5
  <2>23. GridInv(gs, after, Cell(g))
    BY <1>5, <2>8, <2>9, <2>19, <2>20, <2>21, <2>22 DEF GridInv
  <2>24. \A h \in Grid \ {g} : \A m \in DOMAIN grid[h].in_tree :
           m \in UsedIn(gs) /\ PathIn(gs, m) = PathIn(groups, m)
    BY ReadyGrid
  <2> QED BY <2>4, <2>19, <2>23, <2>24, Operation
<1> QED BY <1>6, <1>7

LEMMA RefineStep ==
  ASSUME Inv, NEW g \in Grid, NEW c \in in_use(g), refine(g, c)
  PROVE  Inv' /\ (failed' = "no" => \A h \in Grid \ {g} : Kept(h))
<1>1. PICK n : n = tree_node(g, c)
  OBVIOUS
<1>2. Ready
  BY DEF refine
<1>3. IsTree(groups) /\ n \in UsedIn(groups)
  BY <1>1, <1>2, ReadyGrid
<1>4. CASE ~is_leaf(n) /\ RefineInto(g, c, groups)
  <2>1. PICK gs : gs = groups
    OBVIOUS
  <2>2. \E s \in DOMAIN gs : gs[s] = PathIn(groups, n)
    BY <1>4, <2>1, TheTree DEF is_leaf, Refined, Range
  <2>3. /\ IsTree(gs) /\ RefineInto(g, c, gs)
        /\ \A m \in UsedIn(groups) : m \in UsedIn(gs) /\ PathIn(gs, m) = PathIn(groups, m)
    BY <1>3, <1>4, <2>1
  <2> QED BY <1>1, <1>2, <2>2, <2>3, RefineIntoStep
<1>5. ASSUME is_leaf(n), NEW new \in Refinements(PathIn(groups, n)),
             RefineInto(g, c, Joined(new, groups))
      PROVE  Inv' /\ (failed' = "no" => \A h \in Grid \ {g} : Kept(h))
  <2>1. PICK gs : gs = Joined(new, groups)
    OBVIOUS
  <2>2. /\ IsTree(gs) /\ \E s \in DOMAIN gs : gs[s] = PathIn(groups, n)
        /\ \A m \in UsedIn(groups) : m \in UsedIn(gs) /\ PathIn(gs, m) = PathIn(groups, m)
    BY <1>3, <1>5, <2>1, RefinedTree
  <2>3. RefineInto(g, c, gs)
    BY <1>5, <2>1
  <2> QED BY <1>1, <1>2, <2>2, <2>3, RefineIntoStep
<1>6. CASE Stop("refine: invalid child node")
  BY <1>6, Stopping DEF Stop, Stops
<1> QED BY <1>1, <1>4, <1>5, <1>6, TheTree DEF refine

(* The parent gets a cell, the children go, and the tree may be coarsened. *)
LEMMA CoarsenStep ==
  ASSUME Inv, NEW g \in Grid, NEW c \in in_use(g), coarsen(g, c)
  PROVE  Inv' /\ (failed' = "no" => \A h \in Grid \ {g} : Kept(h))
<1>1. PICK n : n = tree_node(g, c)
  OBVIOUS
<1>2. PICK p : p = parent(n)
  OBVIOUS
<1>3. PICK kids : kids = SiblingsIn(g, n)
  OBVIOUS
<1>4. PICK last : last = Max(kids)
  OBVIOUS
<1>5. PICK st : st = grid[g]
  OBVIOUS
<1>6. PICK pushed : pushed = Pushed(st, {p})
  OBVIOUS
<1>7. PICK cs : cs = {pushed.in_tree[m] : m \in kids}
  OBVIOUS
<1>8. PICK after : after = Popped(pushed, cs)
  OBVIOUS
<1>9. PICK grids : grids = [grid EXCEPT ![g] = after]
  OBVIOUS
<1>10. PICK gs : gs = Removed(grids, g, last)
  OBVIOUS
<1>11. PICK C : C = Cell(g)
  OBVIOUS
<1>12. after = Coarsened(g, p, kids)
  BY <1>5, <1>6, <1>7, <1>8 DEF Coarsened
<1>13. /\ Ready /\ n # 0
       /\ \A m \in grid_nodes(g) \ kids : ~Related(Path(m), Path(p))
       /\ \/ st.free = {} /\ Stop("push: invalid grid node")
          \/ Stop("coarsen: node is not in use")
          \/ /\ st.free # {}
             /\ grid' = grids /\ groups' = gs
             /\ UNCHANGED <<unsynced, sorting, failed>>
  BY <1>1, <1>2, <1>3, <1>4, <1>5, <1>9, <1>10, <1>12 DEF coarsen
<1>14. CASE Stop("push: invalid grid node") \/ Stop("coarsen: node is not in use")
  BY <1>14, Stopping DEF Stop, Stops
<1>15. CASE /\ st.free # {}
            /\ grid' = grids /\ groups' = gs
            /\ UNCHANGED <<unsynced, sorting, failed>>
  <2>1. /\ IsTree(groups) /\ GridInv(groups, st, C) /\ Memory(st, C)
        /\ LinkedBack(st) /\ n \in UsedIn(groups)
        /\ n \in DOMAIN st.in_tree /\ st.in_tree[n] = c
        /\ DOMAIN st.in_tree \subseteq UsedIn(groups)
    BY <1>1, <1>5, <1>11, <1>13, ReadyGrid
  <2>2. C \in SUBSET Nat /\ IsFiniteSet(C)
    BY <1>11, CellsFinite
  <2>3. PICK a : a = groups[group(n)]
    OBVIOUS
  <2>4. p \in UsedIn(groups) /\ PathIn(groups, p) = a
    BY <1>2, <1>13, <2>1, <2>3, ParentNode
  <2>5. p \in Nat /\ a \in Paths
    BY <2>1, <2>4, PathType
  <2>6. /\ group(n) \in DOMAIN groups /\ (n - 1) % NC \in child_pos
        /\ n = node(group(n), (n - 1) % NC)
    BY <1>13, <2>1, UsedNode
  <2>7. /\ kids \in SUBSET DOMAIN st.in_tree /\ n \in kids
        /\ \A m \in kids : \E q \in child_pos : PathIn(groups, m) = Append(a, q)
    <3>1. kids = siblings(n) \cap DOMAIN st.in_tree
      BY <1>3, <1>5 DEF SiblingsIn, grid_nodes
    <3>2. n \in siblings(n)
      BY <2>6 DEF siblings
    <3>3. ASSUME NEW m \in siblings(n)
          PROVE  \E q \in child_pos : PathIn(groups, m) = Append(a, q)
      <4>1. PICK q \in child_pos : m = node(group(n), q)
        BY DEF siblings
      <4> QED BY <2>1, <2>3, <2>6, <4>1, NodeInUse
    <3> QED BY <2>1, <3>1, <3>2, <3>3
  <2>8. p \notin kids
    <3> SUFFICES ASSUME p \in kids PROVE FALSE
      OBVIOUS
    <3>1. PICK q \in child_pos : a = Append(a, q)
      BY <2>4, <2>7
    <3>2. Len(Append(a, q)) = Len(a) + 1 /\ Len(a) \in Nat
      BY <2>5, PathAppend, PathsAreWords
    <3> QED BY <3>1, <3>2
  <2>9. \A m \in DOMAIN st.in_tree \ kids : ~Related(PathIn(groups, m), a)
    BY <1>5, <1>13, <2>4, TheTree DEF grid_nodes
  <2>10. p \notin DOMAIN st.in_tree
    BY <2>4, <2>5, <2>8, <2>9, RelatedPaths
  <2>11. /\ Memory(pushed, C) /\ LinkedBack(pushed)
         /\ DOMAIN pushed.in_tree = DOMAIN st.in_tree \cup {p}
         /\ \A m \in DOMAIN st.in_tree : pushed.in_tree[m] = st.in_tree[m]
         /\ pushed.in_tree[p] \in st.free
         /\ pushed.signed_distance = st.signed_distance
    <3>1. PICK nodes : nodes = {p}
      OBVIOUS
    <3>2. nodes \in SUBSET Nat /\ IsFiniteSet(nodes) /\ Cardinality(nodes) = 1
      BY <2>5, <3>1, FS_Singleton
    <3>3. IsFiniteSet(st.free) /\ Cardinality(st.free) \in Nat
      <4>1. st.free \in SUBSET C
        BY <2>1 DEF Memory
      <4> QED BY <2>2, <4>1, FS_Subset, FS_CardinalityType
    <3>4. Cardinality(nodes) <= Cardinality(st.free)
      BY <1>15, <3>2, <3>3, FS_EmptySet
    <3>5. nodes \cap DOMAIN st.in_tree = {}
      BY <2>10, <3>1
    <3>6. /\ Memory(Pushed(st, nodes), C)
          /\ LinkedBack(Pushed(st, nodes))
          /\ DOMAIN Pushed(st, nodes).in_tree = DOMAIN st.in_tree \cup nodes
          /\ \A m \in DOMAIN st.in_tree : Pushed(st, nodes).in_tree[m] = st.in_tree[m]
          /\ \A m \in nodes : Pushed(st, nodes).in_tree[m] \in st.free
          /\ Pushed(st, nodes).signed_distance = st.signed_distance
      BY <2>1, <2>2, <3>2, <3>4, <3>5, PushedMemory
    <3> QED BY <1>6, <3>1, <3>6
  <2>12. cs \in SUBSET (C \ pushed.free)
    <3>1. \A m \in kids : m \in DOMAIN pushed.in_tree
      BY <2>7, <2>11
    <3>2. \A m \in DOMAIN pushed.in_tree : pushed.in_tree[m] \in C \ pushed.free
      BY <2>11 DEF Memory, Range
    <3> QED BY <1>7, <3>1, <3>2
  <2>13. /\ Memory(after, C) /\ LinkedBack(after)
         /\ DOMAIN after.in_tree = {m \in DOMAIN pushed.in_tree : pushed.in_tree[m] \notin cs}
         /\ \A m \in DOMAIN after.in_tree :
              after.signed_distance[after.in_tree[m]] = pushed.signed_distance[pushed.in_tree[m]]
    <3>1. /\ Memory(Popped(pushed, cs), C)
          /\ LinkedBack(Popped(pushed, cs))
          /\ DOMAIN Popped(pushed, cs).in_tree
               = {m \in DOMAIN pushed.in_tree : pushed.in_tree[m] \notin cs}
          /\ \A m \in DOMAIN Popped(pushed, cs).in_tree :
                Popped(pushed, cs).signed_distance[Popped(pushed, cs).in_tree[m]]
                  = pushed.signed_distance[pushed.in_tree[m]]
      BY <2>2, <2>11, <2>12, PoppedMemory
    <3> QED BY <1>8, <3>1
  <2>14. DOMAIN after.in_tree = (DOMAIN st.in_tree \ kids) \cup {p}
    <3>1. \A m \in DOMAIN pushed.in_tree : pushed.in_tree[m] \in cs <=> m \in kids
      <4>1. \A m, k \in DOMAIN pushed.in_tree : pushed.in_tree[m] = pushed.in_tree[k] => m = k
        BY <2>11 DEF Memory
      <4>2. \A k \in kids : k \in DOMAIN pushed.in_tree
        BY <2>7, <2>11
      <4> QED BY <1>7, <4>1, <4>2
    <3> QED BY <2>8, <2>11, <2>13, <3>1
  <2>15. Apart(groups, after)
    <3> SUFFICES ASSUME NEW k \in DOMAIN after.in_tree, NEW m \in DOMAIN after.in_tree,
                        k # m, Related(PathIn(groups, k), PathIn(groups, m))
                 PROVE  FALSE
      BY DEF Apart
    <3>1. Related(PathIn(groups, m), PathIn(groups, k))
      BY DEF Related
    <3>2. CASE k = p
      BY <2>4, <2>9, <2>14, <3>1, <3>2
    <3>3. CASE m = p
      BY <2>4, <2>9, <2>14, <3>3
    <3>4. CASE k # p /\ m # p
      BY <2>1, <2>14, <3>4 DEF GridInv, Apart
    <3> QED BY <3>2, <3>3, <3>4
  <2>16. Values(groups, after)
    <3> SUFFICES ASSUME NEW m \in DOMAIN after.in_tree
                 PROVE  \/ after.signed_distance[after.in_tree[m]] = Stale
                        \/ IsPrefix(after.signed_distance[after.in_tree[m]], PathIn(groups, m))
      BY DEF Values
    <3>1. PICK k : k = pushed.in_tree[m]
      OBVIOUS
    <3>2. after.signed_distance[after.in_tree[m]] = st.signed_distance[k]
      BY <2>11, <2>13, <3>1
    <3>3. CASE m = p
      BY <2>1, <2>11, <3>1, <3>2, <3>3 DEF Memory
    <3>4. CASE m # p
      <4>1. m \in DOMAIN st.in_tree /\ k = st.in_tree[m]
        BY <2>11, <2>14, <3>1, <3>4
      <4>2. \/ st.signed_distance[st.in_tree[m]] = Stale
            \/ IsPrefix(st.signed_distance[st.in_tree[m]], PathIn(groups, m))
        BY <2>1, <4>1 DEF GridInv, Values
      <4> QED BY <3>2, <4>1, <4>2
    <3> QED BY <3>3, <3>4
  <2>17. GridInv(groups, after, C)
    BY <2>1, <2>4, <2>13, <2>14, <2>15, <2>16 DEF GridInv
  <2>18. last \in UsedIn(groups)
    <3>1. kids \in SUBSET UsedIn(groups)
      BY <2>1, <2>7
    <3>2. kids \in SUBSET Nat /\ IsFiniteSet(kids)
      BY <2>1, <3>1, UsedFinite
    <3>3. Max(kids) \in kids
      BY <2>7, <3>2, MaxMember
    <3> QED BY <1>4, <3>1, <3>3
  <2>19. /\ IsTree(gs)
         /\ \A h \in Grid : \A m \in UsedIn(groups) \cap DOMAIN grids[h].in_tree :
              m \in UsedIn(gs) /\ PathIn(gs, m) = PathIn(groups, m)
    BY <1>10, <2>1, <2>18, RemovedTree
  <2>20. grids[g] = after /\ \A h \in Grid \ {g} : grids[h] = grid[h]
    BY <1>9 DEF Inv
  <2>21. GridInv(gs, after, Cell(g))
    <3>1. \A m \in DOMAIN after.in_tree : m \in UsedIn(gs) /\ PathIn(gs, m) = PathIn(groups, m)
      BY <2>17, <2>19, <2>20 DEF GridInv
    <3> QED BY <1>11, <2>17, <3>1, KeptGrid
  <2>22. \A h \in Grid \ {g} : \A m \in DOMAIN grid[h].in_tree :
           m \in UsedIn(gs) /\ PathIn(gs, m) = PathIn(groups, m)
    BY <1>13, <2>19, <2>20, ReadyGrid
  <2> QED BY <1>9, <1>13, <1>15, <2>13, <2>19, <2>21, <2>22, Operation
<1> QED BY <1>13, <1>14, <1>15

(* The sort of the tree moves the nodes with the rows of all grids. *)
LEMMA TreeSortStep ==
  ASSUME Inv, TreeSort
  PROVE  Inv' /\ \A h \in Grid : Kept(h)
<1>1. Ready /\ unsynced' = Grid /\ UNCHANGED <<sorting, failed>>
  BY DEF TreeSort
<1>2. PICK gs \in Bijection(1 .. Cardinality(Refined), Refined) :
        /\ \A s, t \in DOMAIN gs : s < t => Before(gs[s], gs[t])
        /\ groups' = gs
        /\ grid' = [g \in Grid |-> RowsMoved(grid[g], gs)]
  BY DEF TreeSort
<1>3. IsTree(groups)
  BY DEF Inv
<1>4. /\ IsTree(gs)
      /\ Cardinality(Refined) \in Nat
      /\ DOMAIN gs = 1 .. Cardinality(Refined)
      /\ \A n \in UsedIn(groups) :
           /\ MovedTo(gs, n) \in UsedIn(gs)
           /\ PathIn(gs, MovedTo(gs, n)) = PathIn(groups, n)
  BY <1>3, SortedTree
<1>5. InOrder(gs)
  <2>1. PICK k \in Nat : k = Cardinality(Refined)
    BY <1>4
  <2> QED BY <1>2, <1>4, <2>1 DEF InOrder
<1>6. ASSUME NEW h \in Grid
      PROVE  GridInv(gs, grid'[h], Cell(h)) /\ ContentIn(gs, grid'[h]) = ContentIn(groups, grid[h])
  <2>1. PICK st, C : st = grid[h] /\ C = Cell(h)
    OBVIOUS
  <2>2. PICK after : after = RowsMoved(st, gs)
    OBVIOUS
  <2>3. grid'[h] = after
    BY <1>2, <2>1, <2>2
  <2>4. GridInv(groups, st, C) /\ Memory(st, C) /\ DOMAIN st.in_tree \subseteq UsedIn(groups)
    BY <2>1 DEF Inv, GridInv
  <2>5. /\ Memory(after, C)
        /\ DOMAIN after.in_tree = {MovedTo(gs, n) : n \in DOMAIN st.in_tree}
        /\ \A n \in DOMAIN st.in_tree : after.in_tree[MovedTo(gs, n)] = st.in_tree[n]
        /\ after.signed_distance = st.signed_distance
    <3>1. /\ Memory(RowsMoved(st, gs), C)
          /\ DOMAIN RowsMoved(st, gs).in_tree = {MovedTo(gs, n) : n \in DOMAIN st.in_tree}
          /\ \A n \in DOMAIN st.in_tree :
               RowsMoved(st, gs).in_tree[MovedTo(gs, n)] = st.in_tree[n]
          /\ RowsMoved(st, gs).signed_distance = st.signed_distance
      BY <1>3, <2>4, MovedMemory
    <3> QED BY <2>2, <3>1
  <2>6. ASSUME NEW k \in DOMAIN after.in_tree
        PROVE  \E n \in DOMAIN st.in_tree :
                 /\ k = MovedTo(gs, n) /\ k \in UsedIn(gs)
                 /\ PathIn(gs, k) = PathIn(groups, n)
                 /\ after.signed_distance[after.in_tree[k]] = st.signed_distance[st.in_tree[n]]
    <3>1. PICK n \in DOMAIN st.in_tree : k = MovedTo(gs, n)
      BY <2>5
    <3>2. k \in UsedIn(gs) /\ PathIn(gs, k) = PathIn(groups, n)
      BY <1>4, <2>4, <3>1
    <3>3. after.in_tree[k] = st.in_tree[n]
      BY <2>5, <3>1
    <3> QED BY <2>5, <3>1, <3>2, <3>3
  <2>7. GridInv(gs, after, C)
    <3>1. Apart(gs, after)
      <4> SUFFICES ASSUME NEW k \in DOMAIN after.in_tree, NEW l \in DOMAIN after.in_tree,
                          k # l
                   PROVE  ~Related(PathIn(gs, k), PathIn(gs, l))
        BY DEF Apart
      <4>1. PICK m \in DOMAIN st.in_tree :
              k = MovedTo(gs, m) /\ PathIn(gs, k) = PathIn(groups, m)
        BY <2>6
      <4>2. PICK n \in DOMAIN st.in_tree :
              l = MovedTo(gs, n) /\ PathIn(gs, l) = PathIn(groups, n)
        BY <2>6
      <4>3. m # n
        BY <4>1, <4>2
      <4> QED BY <2>4, <4>1, <4>2, <4>3 DEF GridInv, Apart
    <3>2. Values(gs, after)
      <4> SUFFICES ASSUME NEW k \in DOMAIN after.in_tree
                   PROVE  \/ after.signed_distance[after.in_tree[k]] = Stale
                          \/ IsPrefix(after.signed_distance[after.in_tree[k]], PathIn(gs, k))
        BY DEF Values
      <4>1. PICK n \in DOMAIN st.in_tree :
              /\ PathIn(gs, k) = PathIn(groups, n)
              /\ after.signed_distance[after.in_tree[k]] = st.signed_distance[st.in_tree[n]]
        BY <2>6
      <4> QED BY <2>4, <4>1 DEF GridInv, Values
    <3>3. DOMAIN after.in_tree \subseteq UsedIn(gs)
      BY <2>6
    <3> QED BY <2>5, <3>1, <3>2, <3>3 DEF GridInv
  <2>8. ContentIn(gs, after) = ContentIn(groups, st)
    <3>1. ASSUME NEW x \in ContentIn(gs, after) PROVE x \in ContentIn(groups, st)
      <4>1. PICK k \in DOMAIN after.in_tree :
              x = <<PathIn(gs, k), after.signed_distance[after.in_tree[k]]>>
        BY <3>1 DEF ContentIn
      <4>2. PICK n \in DOMAIN st.in_tree :
              /\ PathIn(gs, k) = PathIn(groups, n)
              /\ after.signed_distance[after.in_tree[k]] = st.signed_distance[st.in_tree[n]]
        BY <2>6
      <4> QED BY <4>1, <4>2 DEF ContentIn
    <3>2. ASSUME NEW x \in ContentIn(groups, st) PROVE x \in ContentIn(gs, after)
      <4>1. PICK n \in DOMAIN st.in_tree :
              x = <<PathIn(groups, n), st.signed_distance[st.in_tree[n]]>>
        BY <3>2 DEF ContentIn
      <4>2. PICK k : k = MovedTo(gs, n)
        OBVIOUS
      <4>3. k \in DOMAIN after.in_tree /\ after.in_tree[k] = st.in_tree[n]
        BY <2>5, <4>2
      <4>4. PathIn(gs, k) = PathIn(groups, n)
        BY <1>4, <2>4, <4>2
      <4>5. x = <<PathIn(gs, k), after.signed_distance[after.in_tree[k]]>>
        BY <2>5, <4>1, <4>3, <4>4
      <4> QED BY <4>3, <4>5 DEF ContentIn
    <3> QED BY <3>1, <3>2
  <2> QED BY <2>1, <2>3, <2>7, <2>8
<1>7. /\ grid' = [g \in Grid |-> grid'[g]]
      /\ sorting' = <<>> /\ failed' \in Stops
  BY <1>1, <1>2 DEF Inv, Ready
<1>8. Inv'
  BY <1>1, <1>2, <1>4, <1>5, <1>6, <1>7 DEF Inv
<1> QED BY <1>2, <1>6, <1>8 DEF Kept

(* A step of the sort of one grid. *)
LEMMA SortingStep ==
  ASSUME Inv, NEW g \in unsynced, NEW st, NEW i \in Nat,
         grid' = [grid EXCEPT ![g] = st], sorting' = <<g, i>>,
         UNCHANGED <<groups, unsynced, failed>>,
         Memory(st, Cell(g)), LinkedBack(st),
         DOMAIN st.in_tree = grid_nodes(g),
         \A n \in grid_nodes(g) : st.signed_distance[st.in_tree[n]]
                                    = grid[g].signed_distance[grid[g].in_tree[n]],
         i <= Cardinality(grid_nodes(g)),
         \A k \in 0 .. i - 1 : st.in_tree[Nth(grid_nodes(g), k)] = k,
         sorting = <<>> \/ sorting[1] = g
  PROVE  Inv' /\ \A h \in Grid : Kept(h)
<1>1. /\ grid = [h \in Grid |-> grid[h]] /\ g \in Grid
      /\ \A h \in Grid : GridInv(groups, grid[h], Cell(h))
  BY DEF Inv
<1>2. grid'[g] = st /\ \A h \in Grid \ {g} : grid'[h] = grid[h]
  BY <1>1
<1>3. GridInv(groups, st, Cell(g)) /\ ContentIn(groups, st) = ContentIn(groups, grid[g])
  BY <1>1 DEF GridInv, Apart, Values, ContentIn, grid_nodes
<1>4. \A h \in Grid : GridInv(groups', grid'[h], Cell(h)) /\ Kept(h)
  BY <1>1, <1>2, <1>3 DEF Kept
<1>5. sorting'[1] = g
  OBVIOUS
<1>6. ASSUME NEW h \in Grid, h \notin unsynced' \/ (sorting' # <<>> /\ sorting'[1] = h)
      PROVE  LinkedBack(grid'[h])
  <2>1. CASE h = g
    BY <1>2, <2>1
  <2>2. CASE h # g
    <3>1. h \notin unsynced
      BY <1>5, <1>6, <2>2
    <3> QED BY <1>2, <2>2, <3>1 DEF Inv
  <2> QED BY <2>1, <2>2
<1>7. InPlace'
  <2>1. grid_nodes(g)' = grid_nodes(g)
    BY <1>2 DEF grid_nodes
  <2>2. /\ sorting' = <<g, i>>
        /\ i <= Cardinality(grid_nodes(g)')
        /\ \A k \in 0 .. i - 1 : grid'[g].in_tree[Nth(grid_nodes(g)', k)] = k
    BY <1>2, <2>1
  <2> QED BY <2>2 DEF InPlace
<1>8. grid' = [h \in Grid |-> grid'[h]]
  BY <1>1
<1> QED BY <1>4, <1>6, <1>7, <1>8 DEF Inv

LEMMA StartSortStep ==
  ASSUME Inv, NEW g \in unsynced, StartSort(g)
  PROVE  Inv' /\ failed' = failed /\ \A h \in Grid : Kept(h)
<1>1. IsTree(groups) /\ InOrder(groups) /\ g \in Grid
  BY DEF Inv
<1>2. is_sorted
  BY <1>1, OrderedIsSorted
<1>3. PICK st : st = grid[g]
  OBVIOUS
<1>4. PICK after : after = [st EXCEPT !.ids = Joined(Backwards(st.in_tree), @)]
  OBVIOUS
<1>5. /\ sorting = <<>> /\ sorting' = <<g, 0>>
      /\ grid' = [grid EXCEPT ![g] = after]
      /\ UNCHANGED <<groups, unsynced, failed>>
  <2>1. /\ sorting = <<>> /\ sorting' = <<g, 0>>
        /\ grid' = [grid EXCEPT ![g].ids = Joined(Backwards(grid[g].in_tree), @)]
        /\ UNCHANGED <<groups, unsynced, failed>>
    BY <1>2 DEF StartSort
  <2> QED BY <1>1, <1>3, <1>4, <2>1
<1>6. Memory(st, Cell(g))
  BY <1>1, <1>3 DEF Inv, GridInv
<1>7. /\ Memory(after, Cell(g)) /\ LinkedBack(after)
      /\ after.in_tree = st.in_tree /\ after.signed_distance = st.signed_distance
  BY <1>4, <1>6, RelinkedMemory
<1>8. /\ DOMAIN after.in_tree = grid_nodes(g)
      /\ \A n \in grid_nodes(g) : after.signed_distance[after.in_tree[n]]
                                    = grid[g].signed_distance[grid[g].in_tree[n]]
  BY <1>3, <1>7 DEF grid_nodes
<1>9. 0 <= Cardinality(grid_nodes(g))
  <2>1. Cardinality(grid_nodes(g)) \in Nat
    BY <1>3, <1>6, FS_CardinalityType DEF Memory, grid_nodes
  <2> QED BY <2>1
<1>10. PICK i \in Nat : i = 0
  OBVIOUS
<1>11. /\ sorting' = <<g, i>> /\ i <= Cardinality(grid_nodes(g))
       /\ \A k \in 0 .. i - 1 : after.in_tree[Nth(grid_nodes(g), k)] = k
  BY <1>5, <1>9, <1>10
<1>12. Inv' /\ \A h \in Grid : Kept(h)
  BY <1>5, <1>7, <1>8, <1>11, SortingStep
<1> QED BY <1>5, <1>12

(* What is known while a grid is sorted. *)
LEMMA WhileSorting ==
  ASSUME Inv, sorting # <<>>
  PROVE  \E g \in unsynced, i \in Nat :
           /\ g \in Grid /\ sorting = <<g, i>> /\ sorting[1] = g /\ sorting[2] = i
           /\ i <= Cardinality(grid_nodes(g))
           /\ \A k \in 0 .. i - 1 : grid[g].in_tree[Nth(grid_nodes(g), k)] = k
           /\ Memory(grid[g], Cell(g)) /\ LinkedBack(grid[g])
           /\ grid_nodes(g) \in SUBSET Nat /\ IsFiniteSet(grid_nodes(g))
           /\ Cardinality(grid_nodes(g)) \in Nat
           /\ Cardinality(grid_nodes(g)) <= NoCells[g]
<1>1. PICK g \in unsynced, i \in Nat :
        /\ sorting = <<g, i>>
        /\ i <= Cardinality(grid_nodes(g))
        /\ \A k \in 0 .. i - 1 : grid[g].in_tree[Nth(grid_nodes(g), k)] = k
  BY DEF Inv, InPlace
<1>2. g \in Grid /\ sorting[1] = g /\ sorting[2] = i
  BY <1>1 DEF Inv
<1>3. Memory(grid[g], Cell(g)) /\ LinkedBack(grid[g])
  BY <1>2 DEF Inv, GridInv
<1>4. /\ grid_nodes(g) \in SUBSET Nat /\ IsFiniteSet(grid_nodes(g))
      /\ Cardinality(grid_nodes(g)) \in Nat
  BY <1>3, FS_CardinalityType DEF Memory, grid_nodes
<1>5. Cardinality(grid_nodes(g)) <= NoCells[g]
  <2>1. PICK st, C : st = grid[g] /\ C = Cell(g)
    OBVIOUS
  <2>2. IsFiniteSet(C) /\ Cardinality(C) = NoCells[g] /\ NoCells[g] \in Nat
    BY <1>2, <2>1, CellsFinite
  <2>3. Cardinality(DOMAIN st.in_tree) + Cardinality(st.free) = Cardinality(C)
    BY <1>3, <2>1, <2>2, NodesAndCells
  <2>4. Cardinality(st.free) \in Nat
    <3>1. st.free \in SUBSET C
      BY <1>3, <2>1 DEF Memory
    <3> QED BY <2>2, <3>1, FS_Subset, FS_CardinalityType
  <2> QED BY <1>4, <2>1, <2>2, <2>3, <2>4 DEF grid_nodes
<1> QED BY <1>1, <1>2, <1>3, <1>4, <1>5

LEMMA SortCellStep ==
  ASSUME Inv, SortCell
  PROVE  Inv' /\ failed' = failed /\ \A h \in Grid : Kept(h)
<1>1. PICK g \in unsynced, i \in Nat :
        /\ g \in Grid /\ sorting = <<g, i>> /\ sorting[1] = g /\ sorting[2] = i
        /\ i <= Cardinality(grid_nodes(g))
        /\ \A k \in 0 .. i - 1 : grid[g].in_tree[Nth(grid_nodes(g), k)] = k
        /\ Memory(grid[g], Cell(g)) /\ LinkedBack(grid[g])
        /\ grid_nodes(g) \in SUBSET Nat /\ IsFiniteSet(grid_nodes(g))
        /\ Cardinality(grid_nodes(g)) \in Nat
        /\ Cardinality(grid_nodes(g)) <= NoCells[g]
  BY WhileSorting DEF SortCell
<1>2. PICK st, D, C : st = grid[g] /\ D = grid_nodes(g) /\ C = Cell(g)
  OBVIOUS
<1>3. D = DOMAIN st.in_tree
  BY <1>2 DEF grid_nodes
<1>4. PICK n : n = Nth(D, i)
  OBVIOUS
<1>5. PICK c : c = st.in_tree[n]
  OBVIOUS
<1>3a. i \in Nat /\ Cardinality(D) \in Nat /\ Cardinality(D) <= NoCells[g]
       /\ D \in SUBSET Nat /\ IsFiniteSet(D)
  BY <1>1, <1>2
<1>3b. sorting[1] = g /\ sorting[2] = i
  BY <1>1
<1>6. /\ i < Cardinality(D)
      /\ IF \E k \in {i, c} : k \in st.free <=> k \in DOMAIN st.ids
         THEN Stop("swap: a cell is linked and free, or neither")
         ELSE /\ grid' = [grid EXCEPT ![g] = Swapped(@, i, c)]
              /\ sorting' = <<g, i + 1>>
              /\ UNCHANGED <<groups, unsynced, failed>>
  <2>1. c = grid[g].in_tree[Nth(grid_nodes(g), i)]
    BY <1>2, <1>4, <1>5
  <2>2. /\ i < Cardinality(grid_nodes(g))
        /\ IF \E k \in {i, c} : k \in grid[g].free <=> k \in DOMAIN grid[g].ids
           THEN Stop("swap: a cell is linked and free, or neither")
           ELSE /\ grid' = [grid EXCEPT ![g] = Swapped(@, i, c)]
                /\ sorting' = <<g, i + 1>>
                /\ UNCHANGED <<groups, unsynced, failed>>
    BY <1>3b, <2>1, Zenon DEF SortCell
  <2> QED BY <1>2, <2>2
<1>6a. PICK z \in Nat : z = Cardinality(D)
  BY <1>3a
<1>6b. i < z /\ z <= NoCells[g] /\ i \in Nat
  <2>1. i < Cardinality(D)
    BY <1>6, Zenon
  <2> QED BY <2>1, <1>3a, <1>6a
<1>7. n \in D /\ i \in C /\ c \in C
  <2>1. i \in 0 .. Cardinality(D) - 1
    BY <1>6a, <1>6b
  <2>2. n \in D
    BY <1>4, <1>3a, <2>1, NthMember
  <2>3. c \in C
    BY <1>1, <1>2, <1>3, <1>5, <2>2 DEF Memory
  <2>4. i \in C
    <3>1. NoCells[g] \in Nat
      BY <1>1, SizeAssumption
    <3>2. i < NoCells[g]
      BY <1>6b, <3>1
    <3> QED BY <1>2, <3>1, <3>2 DEF Cell
  <2> QED BY <2>2, <2>3, <2>4
<1>8. \A k \in C : ~(k \in st.free <=> k \in DOMAIN st.ids)
  BY <1>1, <1>2 DEF Memory
<1>9. PICK after : after = Swapped(st, i, c)
  OBVIOUS
<1>10. /\ grid' = [grid EXCEPT ![g] = after]
       /\ sorting' = <<g, i + 1>>
       /\ UNCHANGED <<groups, unsynced, failed>>
  BY <1>2, <1>6, <1>7, <1>8, <1>9
<1>11. /\ Memory(after, C) /\ LinkedBack(after)
       /\ DOMAIN after.in_tree = D
       /\ \A m \in D :
            /\ after.in_tree[m] = Other(i, c, st.in_tree[m])
            /\ after.signed_distance[after.in_tree[m]] = st.signed_distance[st.in_tree[m]]
  <2>1. /\ Memory(Swapped(st, i, c), C)
        /\ LinkedBack(Swapped(st, i, c))
        /\ DOMAIN Swapped(st, i, c).in_tree = DOMAIN st.in_tree
        /\ \A m \in DOMAIN st.in_tree :
             /\ Swapped(st, i, c).in_tree[m] = Other(i, c, st.in_tree[m])
             /\ Swapped(st, i, c).signed_distance[Swapped(st, i, c).in_tree[m]]
                  = st.signed_distance[st.in_tree[m]]
    <3>1. Memory(st, C) /\ LinkedBack(st)
      BY <1>1, <1>2
    <3> QED BY <1>7, <3>1, SwappedMemory
  <2> QED BY <1>3, <1>9, <2>1
<1>12. ASSUME NEW k \in 0 .. i PROVE after.in_tree[Nth(D, k)] = k
  <2>1. PICK m : m = Nth(D, k)
    OBVIOUS
  <2>2. k \in 0 .. Cardinality(D) - 1 /\ i \in 0 .. Cardinality(D) - 1
    BY <1>6a, <1>6b
  <2>3. m \in D /\ Rank(D, m) = k /\ Rank(D, n) = i
    BY <1>4, <1>3a, <2>1, <2>2, NthMember
  <2>4. CASE k = i
    <3>1. m = n
      BY <1>4, <2>1, <2>4
    <3> QED BY <1>5, <1>11, <2>1, <2>3, <2>4, <3>1 DEF Other
  <2>5. CASE k # i
    <3>1. k \in 0 .. i - 1
      BY <2>5
    <3>2. st.in_tree[m] = k
      BY <1>1, <1>2, <2>1, <3>1
    <3>3. k # c
      <4>1. m # n
        BY <2>3, <2>5
      <4> QED BY <1>1, <1>2, <1>3, <1>5, <1>7, <2>3, <3>2, <4>1 DEF Memory
    <3> QED BY <1>11, <2>1, <2>3, <2>5, <3>2, <3>3 DEF Other
  <2> QED BY <2>4, <2>5
<1>13. PICK j \in Nat : j = i + 1
  OBVIOUS
<1>14. /\ sorting' = <<g, j>> /\ j <= Cardinality(grid_nodes(g))
       /\ \A k \in 0 .. j - 1 : after.in_tree[Nth(grid_nodes(g), k)] = k
  <2>1. \A k \in 0 .. j - 1 : k \in 0 .. i
    BY <1>13
  <2>2. j <= Cardinality(D)
    BY <1>6a, <1>6b, <1>13
  <2> QED BY <1>2, <1>10, <1>12, <1>13, <2>1, <2>2
<1>15. /\ Memory(after, Cell(g)) /\ DOMAIN after.in_tree = grid_nodes(g)
       /\ \A m \in grid_nodes(g) : after.signed_distance[after.in_tree[m]]
                                     = grid[g].signed_distance[grid[g].in_tree[m]]
  BY <1>2, <1>11
<1>16. Inv' /\ \A h \in Grid : Kept(h)
  BY <1>1, <1>10, <1>11, <1>14, <1>15, SortingStep
<1> QED BY <1>10, <1>16

(* Every node of the grid has its place: the free cells come after those in *)
(* use, and the grid is compact.                                            *)
LEMMA FinishSortStep ==
  ASSUME Inv, FinishSort
  PROVE  Inv' /\ failed' = failed /\ \A h \in Grid : Kept(h)
<1>1. PICK g \in unsynced, i \in Nat :
        /\ g \in Grid /\ sorting = <<g, i>> /\ sorting[1] = g /\ sorting[2] = i
        /\ i <= Cardinality(grid_nodes(g))
        /\ \A k \in 0 .. i - 1 : grid[g].in_tree[Nth(grid_nodes(g), k)] = k
        /\ Memory(grid[g], Cell(g)) /\ LinkedBack(grid[g])
        /\ grid_nodes(g) \in SUBSET Nat /\ IsFiniteSet(grid_nodes(g))
        /\ Cardinality(grid_nodes(g)) \in Nat
        /\ Cardinality(grid_nodes(g)) <= NoCells[g]
  BY WhileSorting DEF FinishSort
<1>2. PICK st, D, C : st = grid[g] /\ D = grid_nodes(g) /\ C = Cell(g)
  OBVIOUS
<1>3. sorting[1] = g /\ sorting[2] = i
  BY <1>1
<1>4. i = Cardinality(D)
  BY <1>2, <1>3 DEF FinishSort
<1>5. /\ D = DOMAIN st.in_tree /\ D \in SUBSET Nat /\ IsFiniteSet(D)
      /\ Memory(st, C) /\ LinkedBack(st)
  BY <1>1, <1>2 DEF grid_nodes
<1>6. ASSUME NEW c \in in_use(g) PROVE Linked(g, c)
  <2>1. c \in DOMAIN st.ids
    BY <1>2, <1>5 DEF Memory, in_use
  <2> QED BY <1>2, <1>5, <2>1 DEF LinkedBack, Linked, tree_node
<1>7. IsCompact(g)
  <2>1. CASE st.free = {}
    BY <1>2, <2>1 DEF IsCompact
  <2>2. CASE st.free # {}
    <3>1. C \in SUBSET Nat /\ IsFiniteSet(C) /\ Cardinality(C) = NoCells[g]
          /\ NoCells[g] \in Nat
      BY <1>1, <1>2, CellsFinite
    <3>2. st.free \in SUBSET C
      BY <1>5 DEF Memory
    <3>3. st.free \in SUBSET Nat /\ IsFiniteSet(st.free)
      BY <3>1, <3>2, FS_Subset
    <3>4. Cardinality(st.free) \in Nat /\ Cardinality(st.free) # 0
      BY <2>2, <3>3, FS_CardinalityType, FS_EmptySet
    <3>5. Cardinality(D) + Cardinality(st.free) = Cardinality(C)
      BY <1>5, <3>1, NodesAndCells
    <3>6. i < NoCells[g]
      BY <1>4, <3>1, <3>4, <3>5
    <3>7. i \in C
      BY <1>2, <3>1, <3>6 DEF Cell
    <3>8. ASSUME NEW n \in D
          PROVE  st.in_tree[n] \in 0 .. i - 1
      <4>1. PICK k : k = Rank(D, n)
        OBVIOUS
      <4>2. k \in 0 .. i - 1 /\ Nth(D, k) = n
        BY <1>4, <1>5, <4>1, RankBounds, NthOfRank
      <4>3. st.in_tree[Nth(D, k)] = k
        BY <1>1, <1>2, <4>2
      <4> QED BY <4>2, <4>3
    <3>9. i \in st.free
      <4> SUFFICES ASSUME i \in C \ st.free PROVE FALSE
        BY <3>7
      <4>1. PICK n \in D : st.in_tree[n] = i
        BY <1>5 DEF Memory, Range
      <4>2. i \in 0 .. i - 1
        BY <3>8, <4>1
      <4> QED BY <4>2
    <3>10. ASSUME NEW c \in st.free PROVE i <= c
      <4> SUFFICES ASSUME c < i PROVE FALSE
        BY <3>3
      <4>1. c \in 0 .. i - 1 /\ c \in 0 .. Cardinality(D) - 1
        BY <1>4, <3>3
      <4>2. Nth(D, c) \in D /\ st.in_tree[Nth(D, c)] = c
        BY <1>1, <1>2, <1>5, <4>1, NthMember
      <4> QED BY <1>5, <4>2 DEF Memory, Range
    <3>11. Min(st.free) = i
      <4>1. PICK m : m = Min(st.free)
        OBVIOUS
      <4>2. m \in st.free /\ m <= i
        BY <2>2, <3>3, <3>9, <4>1, MinMember
      <4>3. m \in Nat /\ i <= m
        BY <3>3, <3>10, <4>2
      <4> QED BY <4>1, <4>2, <4>3
    <3>12. st.size = i
      BY <1>4, <1>5 DEF Memory
    <3> QED BY <1>2, <3>11, <3>12 DEF IsCompact, free_node
  <2> QED BY <2>1, <2>2
<1>8. /\ sorting' = <<>> /\ unsynced' = unsynced \ {g}
      /\ UNCHANGED <<groups, grid, failed>>
  BY <1>3, <1>6, <1>7 DEF FinishSort
<1>9. \A h \in Grid : Kept(h)
  BY <1>8 DEF Kept
<1>10. ASSUME NEW h \in Grid, h \notin unsynced' PROVE LinkedBack(grid'[h])
  <2>1. CASE h = g
    BY <1>2, <1>5, <1>8, <2>1
  <2>2. CASE h # g
    BY <1>8, <1>10, <2>2 DEF Inv
  <2> QED BY <2>1, <2>2
<1>11. Inv'
  BY <1>8, <1>10 DEF Inv
<1> QED BY <1>8, <1>9, <1>11

-----------------------------------------------------------------------------
(* All together. *)

LEMMA InitInv == Init => Inv
<1> SUFFICES ASSUME Init PROVE Inv
  OBVIOUS
<1>1. \A g \in Grid : GridInv(groups, grid[g], Cell(g)) /\ LinkedBack(grid[g])
  BY FreshGrid DEF Init
<1>2. IsTree(groups)
  BY EmptyTree DEF Init
<1>3. grid = [g \in Grid |-> grid[g]]
  BY DEF Init
<1> QED BY <1>1, <1>2, <1>3 DEF Init, Inv, Stops

(* A step keeps the invariant and the contents of all grids but one, those   *)
(* of all grids when it is one of a sort.                                    *)
LEMMA NextStep ==
  ASSUME Inv, Next
  PROVE  /\ Inv'
         /\ failed' = "no" =>
              /\ \E g : \A h \in Grid \ {g} : Kept(h)
              /\ sorting # <<>> \/ unsynced' \ unsynced # {} => \A h \in Grid : Kept(h)
<1>1. ASSUME NEW g \in Grid, NEW n \in UsedNodes, push(g, n)
      PROVE  /\ Inv' /\ Ready
             /\ failed' = "no" => unsynced' = unsynced /\ \A h \in Grid \ {g} : Kept(h)
  <2>1. Ready /\ (failed' = "no" => unsynced' = unsynced)
    BY <1>1 DEF push, Stop
  <2> QED BY <1>1, <2>1, PushStep
<1>2. ASSUME NEW g \in Grid, NEW c \in in_use(g), pop(g, c)
      PROVE  /\ Inv' /\ Ready
             /\ failed' = "no" => unsynced' = unsynced /\ \A h \in Grid \ {g} : Kept(h)
  <2>1. Ready /\ (failed' = "no" => unsynced' = unsynced)
    BY <1>2 DEF pop
  <2> QED BY <1>2, <2>1, PopStep
<1>3. ASSUME NEW g \in Grid, NEW c \in in_use(g), refine(g, c)
      PROVE  /\ Inv' /\ Ready
             /\ failed' = "no" => unsynced' = unsynced /\ \A h \in Grid \ {g} : Kept(h)
  <2>1. Ready /\ (failed' = "no" => unsynced' = unsynced)
    BY <1>3 DEF refine, RefineInto, Stop
  <2> QED BY <1>3, <2>1, RefineStep
<1>4. ASSUME NEW g \in Grid, NEW c \in in_use(g), coarsen(g, c)
      PROVE  /\ Inv' /\ Ready
             /\ failed' = "no" => unsynced' = unsynced /\ \A h \in Grid \ {g} : Kept(h)
  <2>1. Ready /\ (failed' = "no" => unsynced' = unsynced)
    BY <1>4 DEF coarsen, Stop
  <2> QED BY <1>4, <2>1, CoarsenStep
<1>5. ASSUME NEW g \in Grid, set_node_values(g)
      PROVE  /\ Inv' /\ Ready
             /\ failed' = "no" => unsynced' = unsynced /\ \A h \in Grid \ {g} : Kept(h)
  <2>1. Ready /\ (failed' = "no" => unsynced' = unsynced)
    BY <1>5 DEF set_node_values
  <2> QED BY <1>5, <2>1, SetValuesStep
<1>6. ASSUME NEW g \in Grid, reset(g)
      PROVE  /\ Inv' /\ Ready
             /\ failed' = "no" => unsynced' = unsynced /\ \A h \in Grid \ {g} : Kept(h)
  <2>1. Ready /\ (failed' = "no" => unsynced' = unsynced)
    BY <1>6 DEF reset
  <2> QED BY <1>6, <2>1, ResetStep
<1>8. ASSUME NEW g \in unsynced, StartSort(g)
      PROVE  Inv' /\ \A h \in Grid : Kept(h)
  BY <1>8, StartSortStep
<1>9. CASE SortCell
  BY <1>9, SortCellStep
<1>10. CASE FinishSort
  BY <1>10, FinishSortStep
<1> DEFINE Goal ==
      /\ Inv'
      /\ failed' = "no" =>
           /\ \E g : \A h \in Grid \ {g} : Kept(h)
           /\ sorting # <<>> \/ unsynced' \ unsynced # {} => \A h \in Grid : Kept(h)
<1>11. ASSUME NEW g \in Grid, Inv', Ready,
              failed' = "no" => unsynced' = unsynced /\ \A h \in Grid \ {g} : Kept(h)
       PROVE  Goal
  BY <1>11 DEF Ready
<1>12. ASSUME Inv', \A h \in Grid : Kept(h) PROVE Goal
  BY <1>12
<1>13. CASE \E g \in Grid : \E n \in UsedNodes : push(g, n)
  <2>1. PICK g \in Grid, n \in UsedNodes : push(g, n)
    BY <1>13
  <2> QED BY <1>1, <1>11, <2>1
<1>14. CASE \E g \in Grid : \E c \in in_use(g) : pop(g, c)
  <2>1. PICK g \in Grid : \E c \in in_use(g) : pop(g, c)
    BY <1>14
  <2> QED BY <1>2, <1>11, <2>1
<1>15. CASE \E g \in Grid : \E c \in in_use(g) : refine(g, c)
  <2>1. PICK g \in Grid : \E c \in in_use(g) : refine(g, c)
    BY <1>15
  <2> QED BY <1>3, <1>11, <2>1
<1>16. CASE \E g \in Grid : \E c \in in_use(g) : coarsen(g, c)
  <2>1. PICK g \in Grid : \E c \in in_use(g) : coarsen(g, c)
    BY <1>16
  <2> QED BY <1>4, <1>11, <2>1
<1>17. CASE \E g \in Grid : set_node_values(g) \/ reset(g)
  BY <1>5, <1>6, <1>11, <1>17
<1>18. CASE TreeSort \/ SortCell \/ FinishSort \/ \E g \in unsynced : StartSort(g)
  <2>1. CASE TreeSort
    BY <2>1, <1>12, TreeSortStep
  <2>2. CASE SortCell
    BY <2>2, <1>12, SortCellStep
  <2>3. CASE FinishSort
    BY <2>3, <1>12, FinishSortStep
  <2>4. CASE \E g \in unsynced : StartSort(g)
    BY <2>4, <1>8, <1>12
  <2> QED BY <1>18, <2>1, <2>2, <2>3, <2>4
<1>19. \/ \E g \in Grid : \E n \in UsedNodes : push(g, n)
       \/ \E g \in Grid : \E c \in in_use(g) : pop(g, c)
       \/ \E g \in Grid : \E c \in in_use(g) : refine(g, c)
       \/ \E g \in Grid : \E c \in in_use(g) : coarsen(g, c)
       \/ \E g \in Grid : set_node_values(g) \/ reset(g)
       \/ TreeSort \/ SortCell \/ FinishSort \/ \E g \in unsynced : StartSort(g)
  BY Zenon DEF Next
<1> QED BY <1>13, <1>14, <1>15, <1>16, <1>17, <1>18, <1>19, Zenon

LEMMA StepInv == Inv /\ [Next]_vars => Inv'
<1> SUFFICES ASSUME Inv, [Next]_vars PROVE Inv'
  OBVIOUS
<1>1. CASE Next
  BY <1>1, NextStep
<1>2. CASE UNCHANGED vars
  <2>1. /\ groups' = groups /\ grid' = grid /\ unsynced' = unsynced
        /\ sorting' = sorting /\ failed' = failed
    BY <1>2 DEF vars
  <2> QED BY <2>1 DEF Inv, InPlace, grid_nodes
<1> QED BY <1>1, <1>2

(* The invariant the properties follow from: the groups describe a tree, the *)
(* memory of a grid is consistent, its nodes are in use and apart, its values *)
(* are those of the nodes; and how far a sort has come.                       *)
THEOREM SolverInvariant == Spec => []Inv
BY InitInv, StepInv, PTL DEF Spec

-----------------------------------------------------------------------------
(* What follows. *)

(* No operation of one grid, above all no coarsening by multi::remove, takes *)
(* a node from the tree that another grid has a cell in, and no cell is lost. *)
THEOREM NodesAliveHolds == Spec => []NodesAlive
<1>1. ASSUME Inv PROVE NodesAlive
  <2> SUFFICES ASSUME NEW g \in Grid
               PROVE  /\ grid_nodes(g) \subseteq UsedNodes
                      /\ Cardinality(grid_nodes(g)) = grid[g].size
                      /\ Range(grid[g].in_tree) = in_use(g)
    BY DEF NodesAlive
  <2>1. GridInv(groups, grid[g], Cell(g)) /\ UsedNodes = UsedIn(groups)
    BY <1>1, TheTree DEF Inv
  <2> QED BY <2>1 DEF GridInv, Memory, grid_nodes, in_use
<1> QED BY <1>1, SolverInvariant, PTL

(* The links of a grid that is in step with the tree are inverse functions.   *)
THEOREM LinksInverseHolds == Spec => []LinksInverse
<1>1. ASSUME Inv PROVE LinksInverse
  <2> SUFFICES ASSUME NEW g \in Grid \ unsynced
               PROVE  /\ DOMAIN grid[g].ids = in_use(g)
                      /\ grid_nodes(g) = {tree_node(g, c) : c \in in_use(g)}
                      /\ \A c \in in_use(g) : Linked(g, c)
    BY DEF LinksInverse
  <2>1. PICK st, C : st = grid[g] /\ C = Cell(g)
    OBVIOUS
  <2>2. Memory(st, C) /\ LinkedBack(st)
    BY <1>1, <2>1 DEF Inv, GridInv
  <2>3. DOMAIN st.ids = in_use(g)
    BY <2>1, <2>2 DEF Memory, in_use
  <2>4. \A n \in DOMAIN st.in_tree : st.in_tree[n] \in DOMAIN st.ids
                                     /\ st.ids[st.in_tree[n]] = n
    BY <2>2, LinksInvert
  <2>5. \A c \in in_use(g) : /\ tree_node(g, c) \in DOMAIN st.in_tree
                            /\ st.in_tree[tree_node(g, c)] = c
    BY <2>1, <2>2, <2>3 DEF LinkedBack, tree_node
  <2>6. grid_nodes(g) = {tree_node(g, c) : c \in in_use(g)}
    <3>1. \A n \in DOMAIN st.in_tree : \E c \in in_use(g) : n = tree_node(g, c)
      BY <2>1, <2>3, <2>4 DEF tree_node
    <3> QED BY <2>1, <2>5, <3>1 DEF grid_nodes
  <2> QED BY <2>1, <2>3, <2>5, <2>6 DEF Linked
<1> QED BY <1>1, SolverInvariant, PTL

(* A value stays with its node, or with what was refined below it, through    *)
(* every operation and every step of a sort.                                  *)
THEOREM DataFollowsHolds == Spec => []DataFollows
<1>1. ASSUME Inv PROVE DataFollows
  BY <1>1, TheTree DEF Inv, GridInv, Values, DataFollows, grid_nodes
<1> QED BY <1>1, SolverInvariant, PTL

(* No assertion of a sort fails, and the cells come into the order of their   *)
(* nodes one after the other.                                                 *)
THEOREM SortPlacesHolds == Spec => []SortPlaces
<1>1. ASSUME Inv PROVE SortPlaces
  <2>1. failed \notin {"sort: tree is not sorted!",
                       "swap: a cell is linked and free, or neither",
                       "tree_node: links disagree", "sort: not compact"}
    BY <1>1 DEF Inv, Stops
  <2>2. ASSUME sorting # <<>>, NEW k \in 0 .. sorting[2] - 1
        PROVE  LET n == Nth(grid_nodes(sorting[1]), k)
               IN  grid[sorting[1]].in_tree[n] = k /\ grid[sorting[1]].ids[k] = n
    <3>1. PICK g \in unsynced, i \in Nat :
            /\ g \in Grid /\ sorting = <<g, i>> /\ sorting[1] = g /\ sorting[2] = i
            /\ i <= Cardinality(grid_nodes(g))
            /\ \A j \in 0 .. i - 1 : grid[g].in_tree[Nth(grid_nodes(g), j)] = j
            /\ Memory(grid[g], Cell(g)) /\ LinkedBack(grid[g])
            /\ grid_nodes(g) \in SUBSET Nat /\ IsFiniteSet(grid_nodes(g))
            /\ Cardinality(grid_nodes(g)) \in Nat
            /\ Cardinality(grid_nodes(g)) <= NoCells[g]
      BY <1>1, <2>2, WhileSorting
    <3>2. PICK st, C, D : st = grid[g] /\ C = Cell(g) /\ D = grid_nodes(g)
      OBVIOUS
    <3>3. k \in 0 .. i - 1 /\ k \in 0 .. Cardinality(D) - 1
      BY <3>1, <3>2
    <3>4. PICK n : n = Nth(D, k)
      OBVIOUS
    <3>5. n \in DOMAIN st.in_tree
      BY <3>1, <3>2, <3>3, <3>4, NthMember DEF grid_nodes
    <3>6. st.in_tree[n] = k
      BY <3>1, <3>2, <3>3, <3>4
    <3>7. st.ids[k] = n
      BY <3>1, <3>2, <3>5, <3>6, LinksInvert
    <3>8. sorting[1] = g
      BY <3>1
    <3> QED BY <3>2, <3>4, <3>6, <3>7, <3>8
  <2> QED BY <2>1, <2>2 DEF SortPlaces
<1> QED BY <1>1, SolverInvariant, PTL

(* A step changes what one grid holds at most, and a step of a sort nothing.  *)
THEOREM OthersUndisturbedHolds == Spec => OthersUndisturbed
<1>1. ASSUME Inv, Inv', Next, failed' = "no"
      PROVE  LET changed == {g \in Grid : Content(g)' # Content(g)}
             IN  /\ Cardinality(changed) <= 1
                 /\ sorting # <<>> \/ unsynced' \ unsynced # {} => changed = {}
  <2>1. ASSUME NEW g \in Grid
        PROVE  Content(g) = ContentIn(groups, grid[g])
    <3>1. grid_nodes(g) \cap UsedNodes = DOMAIN grid[g].in_tree
      BY <1>1, TheTree DEF Inv, GridInv, grid_nodes
    <3> QED BY <3>1, TheTree DEF Content, ContentIn
  <2>2. ASSUME NEW g \in Grid
        PROVE  Content(g)' = ContentIn(groups', grid'[g])
    <3>1. DOMAIN grid'[g].in_tree \subseteq UsedIn(groups')
      BY <1>1 DEF Inv, GridInv
    <3>2. UsedNodes' = UsedIn(groups') /\ \A n : Path(n)' = PathIn(groups', n)
      BY DEF UsedNodes, UsedIn, Path, PathIn
    <3> QED BY <3>1, <3>2 DEF Content, ContentIn, grid_nodes
  <2>3. PICK changed : changed = {g \in Grid : Content(g)' # Content(g)}
    OBVIOUS
  <2>4. \A h \in Grid : Kept(h) => h \notin changed
    BY <2>1, <2>2, <2>3 DEF Kept
  <2>5. /\ \E g : \A h \in Grid \ {g} : Kept(h)
        /\ sorting # <<>> \/ unsynced' \ unsynced # {} => \A h \in Grid : Kept(h)
    BY <1>1, NextStep
  <2>6. PICK g : \A h \in Grid \ {g} : Kept(h)
    BY <2>5
  <2>7. changed \in SUBSET {g}
    BY <2>3, <2>4, <2>6
  <2>8. Cardinality(changed) <= 1
    <3>1. IsFiniteSet({g}) /\ Cardinality({g}) = 1
      BY FS_Singleton
    <3> QED BY <2>7, <3>1, FS_Subset
  <2>9. sorting # <<>> \/ unsynced' \ unsynced # {} => changed = {}
    BY <2>3, <2>4, <2>5
  <2> QED BY <2>3, <2>8, <2>9
<1>2. Inv /\ Inv' /\ [Next]_vars =>
        [failed' = "no" =>
           LET changed == {g \in Grid : Content(g)' # Content(g)}
           IN  /\ Cardinality(changed) <= 1
               /\ sorting # <<>> \/ unsynced' \ unsynced # {} => changed = {}]_vars
  BY <1>1
<1> QED BY <1>2, SolverInvariant, PTL DEF Spec, OthersUndisturbed

-----------------------------------------------------------------------------
(* The balance of the tree, which the neighbour search relies on.  What is   *)
(* proved of the two is in BalancedProofs, here for the tree of the groups.  *)

BP == INSTANCE BalancedProofs WITH refined <- Refined, calls <- <<>>, before <- {},
                                   MaxRefined <- NoGroups

(* They speak of the same paths and positions. *)
LEMMA SamePaths ==
  BP!Path = Paths /\ BP!child_pos = child_pos /\ Bal!child_pos = child_pos
BY DEF BP!child_pos, BP!no_children, Bal!child_pos, Bal!no_children, child_pos,
       no_children, BP!Path, Paths

(* ... of the same contact of two nodes. *)
LEMMA SameTouch ==
  \A a, b : BP!Touch(a, b) <=> Bal!Touch(a, b)
BY DEF BP!Touch, Bal!Touch, BP!Lower, Bal!Lower, BP!Upper, Bal!Upper, BP!Coordinate,
       Bal!Coordinate, BP!bit, Bal!bit, BP!Dimension, Bal!Dimension, BP!node_level,
       Bal!node_level

(* ... of the same balance of a tree. *)
LEMMA SameBalanced ==
  \A nodes : BP!Balanced(nodes) <=> Bal!Balanced(nodes)
BY DEF BP!Balanced, Bal!Balanced, BP!node_level, Bal!node_level, BP!child_pos,
       Bal!child_pos, BP!no_children, Bal!no_children, BP!Touch, Bal!Touch, BP!Lower,
       Bal!Lower, BP!Upper, Bal!Upper, BP!Coordinate, Bal!Coordinate, BP!bit, Bal!bit,
       BP!Dimension, Bal!Dimension

(* ... of the same neighbour search (node_neighbors.hpp). *)
LEMMA SameSearch ==
  \A n : BP!node_neighbors(n) = Bal!node_neighbors(n)
BY DEF BP!node_neighbors, Bal!node_neighbors, BP!neighbors_at, Bal!neighbors_at,
       BP!Neighbor, Bal!Neighbor, BP!neighbor_idx, Bal!neighbor_idx, BP!Manifold,
       Bal!Manifold, BP!neighbor_lookup_table, Bal!neighbor_lookup_table, BP!offset,
       Bal!offset, BP!shift_location, Bal!shift_location, BP!Coordinate, Bal!Coordinate,
       BP!bit, Bal!bit, BP!Dimension, Bal!Dimension, BP!PathTo, Bal!PathTo, BP!child_pos,
       Bal!child_pos, BP!no_children, Bal!no_children, BP!is_leaf, Bal!is_leaf,
       BP!children_sharing_face, Bal!children_sharing_face,
       BP!neighbor_children_sharing_face, Bal!neighbor_children_sharing_face,
       BP!node_or_parent_at, Bal!node_or_parent_at, BP!Tree!Exists, Bal!Tree!Exists,
       BP!Max, Bal!Max

(* ... of the same search among the cells of a grid. *)
LEMMA SameSearchIn ==
  \A nodes, n : BP!node_neighbors_in(nodes, n) = Bal!node_neighbors_in(nodes, n)
BY DEF BP!node_neighbors_in, Bal!node_neighbors_in, BP!neighbors_at_in, Bal!neighbors_at_in,
       BP!Neighbor, Bal!Neighbor, BP!neighbor_idx, Bal!neighbor_idx, BP!Manifold,
       Bal!Manifold, BP!neighbor_lookup_table, Bal!neighbor_lookup_table, BP!offset,
       Bal!offset, BP!shift_location, Bal!shift_location, BP!Coordinate, Bal!Coordinate,
       BP!bit, Bal!bit, BP!Dimension, Bal!Dimension, BP!PathTo, Bal!PathTo, BP!child_pos,
       Bal!child_pos, BP!no_children, Bal!no_children, BP!is_leaf, Bal!is_leaf,
       BP!children_sharing_face, Bal!children_sharing_face,
       BP!neighbor_children_sharing_face, Bal!neighbor_children_sharing_face,
       BP!node_or_parent_at, Bal!node_or_parent_at, BP!Tree!Exists, Bal!Tree!Exists,
       BP!Max, Bal!Max

(* ... of the same test before coarsening (balanced_coarsen.hpp). *)
LEMMA SameCoarsening ==
  \A n : BP!CanCoarsen(n) <=> Bal!CanCoarsen(n)
BY SameSearch DEF BP!CanCoarsen, Bal!CanCoarsen, BP!is_leaf, Bal!is_leaf, BP!children,
       Bal!children, BP!child_pos, Bal!child_pos, BP!no_children, Bal!no_children,
       BP!node_level, Bal!node_level

(* ... of the same finite sets. *)
LEMMA SameFinite ==
  \A S : (BP!IsFiniteSet(S) <=> IsFiniteSet(S)) /\ BP!Cardinality(S) = Cardinality(S)
BY DEF BP!IsFiniteSet, IsFiniteSet, BP!Cardinality, Cardinality

(* ... of the same leaves. *)
LEMMA SameLeaves ==
  BP!LeavesIn(Refined) = Bal!Tree!Leaves /\ BP!Tree!Leaves = Bal!Tree!Leaves
BY DEF BP!LeavesIn, BP!LeavesOf, Bal!Tree!Leaves, BP!Tree!Leaves, BP!child_pos, Bal!child_pos,
       BP!no_children, Bal!no_children

(* The groups are of a finite tree, with no more nodes than the capacity. *)
LEMMA TreeOfGroups ==
  ASSUME IsTree(groups)
  PROVE  BP!TreeSet(Refined) /\ IsFiniteSet(Refined) /\ Cardinality(Refined) <= NoGroups
<1>1. \A r : r \in Refined <=> \E s \in DOMAIN groups : groups[s] = r
  BY DEF Refined, Range
<1>2. \A r \in Refined : r \in Paths
  BY <1>1 DEF IsTree
<1>3. ASSUME NEW r \in Refined, r # <<>>
      PROVE  SubSeq(r, 1, Len(r) - 1) \in Refined
  <2>1. PICK s \in DOMAIN groups : groups[s] = r
    BY <1>1
  <2>2. Len(r) \in Nat /\ Len(r) >= 1
    BY <1>2, <1>3, PathOfChild, PathsAreWords
  <2>3. Len(r) - 1 \in 0 .. Len(groups[s]) - 1
    BY <2>1, <2>2
  <2>4. PICK t \in DOMAIN groups : groups[t] = SubSeq(groups[s], 1, Len(r) - 1)
    BY <2>3 DEF IsTree
  <2> QED BY <1>1, <2>1, <2>4
<1>4. Refined # {} => <<>> \in Refined
  BY RootPath
<1>5. BP!TreeSet(Refined)
  BY <1>2, <1>3, <1>4, SamePaths DEF BP!TreeSet
<1> QED BY <1>5, RefinedFinite

(* The balance of a tree of groups; it says nothing of the other variables. *)
Even(gs) == Bal!Balanced(Range(gs))

(* It is a matter of the groups after a step, too. *)
LEMMA EvenNext ==
  ASSUME NEW gs, groups' = gs, Even(gs)
  PROVE  Even(groups)'
<1>1. (Bal!Balanced(Refined))' <=> Even(gs)
  BY DEF Even, Refined, Bal!Balanced, Bal!node_level, Bal!child_pos, Bal!no_children, Bal!Touch,
         Bal!Lower, Bal!Upper, Bal!Coordinate, Bal!bit, Bal!Dimension
<1> QED BY <1>1 DEF Even, Refined

(* A tree of a single node is balanced. *)
LEMMA EvenEmpty ==
  ASSUME NEW gs, Range(gs) = {}
  PROVE  Even(gs)
BY DEF Even, Bal!Balanced

(* multi::remove coarsens if the balance allows, which keeps it. *)
LEMMA EvenRemoved ==
  ASSUME IsTree(groups), Even(groups), NEW grids, NEW g \in Grid, NEW n \in UsedIn(groups)
  PROVE  Even(Removed(grids, g, n))
<1>1. CASE Removed(grids, g, n) = groups
  BY <1>1
<1>2. CASE Removed(grids, g, n) # groups
  <2>1. PICK path : path = groups[group(n)]
    OBVIOUS
  <2>2. n # 0 /\ Bal!CanCoarsen(path) /\ Removed(grids, g, n) = Without(path)
    BY <1>2, <2>1 DEF Removed
  <2>3. path \in Refined
    <3>1. group(n) \in DOMAIN groups
      BY <2>2, UsedNode
    <3> QED BY <2>1, <3>1 DEF Refined, Range
  <2>4. Range(Without(path)) = Refined \ {path}
    BY DEF Refined, Without, Range, Restrict
  <2>5. BP!TreeInv(Refined)
    <3>1. BP!Balanced(Refined)
      BY SameBalanced DEF Even, Refined
    <3> QED BY <3>1, TreeOfGroups, SameFinite DEF BP!TreeInv
  <2>6. BP!TreeInv(Refined \ {path})
    <3>1. BP!CanCoarsen(path)
      BY <2>2, SameCoarsening
    <3> QED BY <2>3, <2>5, <3>1, BP!CoarsenedTree, NdAssumption, SizeAssumption
  <2>7. BP!Balanced(Refined \ {path})
    BY <2>6 DEF BP!TreeInv
  <2> QED BY <2>2, <2>4, <2>7, SameBalanced DEF Even
<1> QED BY <1>1, <1>2

(* The nodes that balanced_refine refines have their coarser neighbours with *)
(* them, which keeps the balance.                                            *)
LEMMA EvenRefined ==
  ASSUME IsTree(groups), Even(groups), NEW path, NEW gs \in Refinements(path)
  PROVE  Even(Joined(gs, groups))
<1>1. PICK needed : needed = Needed(path)
  OBVIOUS
<1>2. PICK lowest : gs \in Bijection(lowest, needed) /\ lowest \cap DOMAIN groups = {}
  BY <1>1 DEF Refinements
<1>3. Range(Joined(gs, groups)) = Refined \cup needed
  <2>1. gs \in [lowest -> needed] /\ \A m \in needed : \E s \in lowest : gs[s] = m
    BY <1>2 DEF Bijection, Injection, Surjection
  <2>2. PICK all : all = Joined(gs, groups)
    OBVIOUS
  <2>3. /\ DOMAIN all = lowest \cup DOMAIN groups
        /\ \A s \in lowest : all[s] = gs[s]
        /\ \A s \in DOMAIN groups : all[s] = groups[s]
    BY <1>2, <2>1, <2>2 DEF Joined
  <2>4. \A m \in needed : \E s \in DOMAIN all : all[s] = m
    BY <2>1, <2>3
  <2>5. \A m \in Refined : \E s \in DOMAIN all : all[s] = m
    BY <2>3 DEF Refined, Range
  <2>6. \A s \in DOMAIN all : all[s] \in Refined \cup needed
    BY <2>1, <2>3 DEF Refined, Range
  <2>7. Range(all) = Refined \cup needed
    BY <2>4, <2>5, <2>6 DEF Range
  <2> QED BY <2>2, <2>7
<1>4. BP!TreeSet(Refined) /\ BP!IsFiniteSet(Refined) /\ BP!Balanced(Refined)
  BY TreeOfGroups, SameFinite, SameBalanced DEF Even, Refined
<1>5. PICK leaves : leaves = Bal!Tree!Leaves
  OBVIOUS
<1>6. PICK coarser : coarser = UNION {{m} \X {q \in Bal!Call(m).pending : Bal!is_leaf(q)} : m \in leaves}
  OBVIOUS
<1>7. PICK closed : closed = {S \in SUBSET leaves :
                   path \in S /\ \A e \in coarser : e[1] \in S => e[2] \in S}
  OBVIOUS
<1>8. needed = {m \in leaves : \A S \in closed : m \in S}
  BY <1>1, <1>5, <1>6, <1>7 DEF Needed
<1>9. ASSUME NEW m \in leaves, NEW k \in leaves, BP!Touch(m, k), Len(m) = Len(k) + 1
      PROVE  <<m, k>> \in coarser
  <2>1. BP!node_neighbors(m) = {j \in leaves \ {m} : BP!Touch(m, j)}
    <3>1. m \in BP!Tree!Leaves /\ BP!Tree!Leaves = leaves
      BY <1>5, SameLeaves
    <3> QED BY <1>4, <3>1, BP!SearchExact, NdAssumption, SizeAssumption
  <2>2. Len(k) \in Nat /\ k \notin Refined
    <3>1. k \in BP!LeavesIn(Refined)
      BY <1>5, SameLeaves
    <3> QED BY <1>4, <3>1, BP!LeafInTree, NdAssumption, SizeAssumption
  <2>3. k # m
    BY <1>9, <2>2
  <2>4. k \in Bal!node_neighbors(m)
    BY <1>9, <2>1, <2>3, SameSearch
  <2>5. Len(k) = Len(m) - 1
    BY <1>9, <2>2
  <2>6. k \in Bal!Call(m).pending /\ Bal!is_leaf(k)
    BY <2>2, <2>4, <2>5 DEF Bal!Call, Bal!node_level, Bal!is_leaf
  <2> QED BY <1>6, <2>6
<1>10. ASSUME NEW m \in needed, NEW k \in leaves, BP!Touch(m, k), Len(m) = Len(k) + 1
       PROVE  k \in needed
  <2>1. PICK e \in coarser : e = <<m, k>>
    BY <1>8, <1>9, <1>10
  <2>2. ASSUME NEW S \in closed PROVE k \in S
    <3>1. m \in S /\ e[1] = m /\ e[2] = k
      BY <1>8, <2>1
    <3> QED BY <1>7, <3>1
  <2> QED BY <1>8, <2>2
<1>11. BP!Balanced(Refined \cup needed)
  <2>1. leaves = BP!LeavesIn(Refined) /\ needed \in SUBSET leaves
    BY <1>5, <1>8, SameLeaves
  <2> QED BY <1>4, <1>10, <2>1, BP!RefineAllKeeps, NdAssumption, SizeAssumption
<1> QED BY <1>3, <1>11, SameBalanced DEF Even

(* The last sibling that level_set::coarsen takes from its grid is a node. *)
LEMMA LastSibling ==
  ASSUME Inv, Ready, NEW g \in Grid, NEW c \in in_use(g), tree_node(g, c) # 0
  PROVE  Max(SiblingsIn(g, tree_node(g, c))) \in UsedIn(groups)
<1>1. PICK n : n = tree_node(g, c)
  OBVIOUS
<1>2. PICK kids : kids = SiblingsIn(g, n)
  OBVIOUS
<1>3. /\ IsTree(groups) /\ n \in UsedIn(groups) /\ n \in grid_nodes(g)
      /\ grid_nodes(g) \subseteq UsedIn(groups)
  BY <1>1, ReadyGrid DEF grid_nodes
<1>4. n \in siblings(n)
  <2>1. (n - 1) % NC \in child_pos /\ n = node(group(n), (n - 1) % NC)
    BY <1>1, <1>3, UsedNode
  <2> QED BY <2>1 DEF siblings
<1>5. kids \in SUBSET UsedIn(groups) /\ n \in kids
  BY <1>2, <1>3, <1>4 DEF SiblingsIn
<1>6. kids \in SUBSET Nat /\ IsFiniteSet(kids)
  BY <1>3, <1>5, UsedFinite
<1>7. Max(kids) \in kids
  BY <1>5, <1>6, MaxMember
<1> QED BY <1>1, <1>2, <1>5, <1>7

(* Every step keeps the balance: most leave the nodes with children alone. *)
LEMMA EvenStep ==
  ASSUME Inv, Even(groups), Next
  PROVE  Even(groups)'
<1>1. CASE groups' = groups
  <2>1. PICK gs : gs = groups
    OBVIOUS
  <2> QED BY <1>1, <2>1, EvenNext
<1>2. CASE groups' = <<>>
  <2>1. Range(<<>>) = {}
    <3>1. DOMAIN <<>> = {}
      OBVIOUS
    <3> QED BY <3>1 DEF Range
  <2>2. PICK gs : gs = <<>>
    OBVIOUS
  <2> QED BY <1>2, <2>1, <2>2, EvenEmpty, EvenNext
<1>3. IsTree(groups)
  BY DEF Inv
<1>4. ASSUME NEW g \in Grid, NEW n \in UsedNodes, push(g, n)
      PROVE  Even(groups)'
  BY <1>1, <1>2, <1>4 DEF push, Stop
<1>5. ASSUME NEW g \in Grid, NEW c \in in_use(g), pop(g, c)
      PROVE  Even(groups)'
  <2>1. PICK grids, n : grids = grid' /\ n = tree_node(g, c)
    OBVIOUS
  <2>2. PICK gs : gs = Removed(grids, g, n)
    OBVIOUS
  <2>3. n \in UsedIn(groups)
    BY <1>5, <2>1, ReadyGrid DEF pop
  <2>4. Even(gs)
    BY <1>3, <2>2, <2>3, EvenRemoved
  <2>5. groups' = gs
    BY <1>5, <2>1, <2>2 DEF pop
  <2> QED BY <2>4, <2>5, EvenNext
<1>6. ASSUME NEW g \in Grid, NEW c \in in_use(g), refine(g, c)
      PROVE  Even(groups)'
  <2>1. PICK path : path = Path(tree_node(g, c))
    OBVIOUS
  <2>2. ASSUME NEW gs \in Refinements(path), groups' = Joined(gs, groups)
        PROVE  Even(groups)'
    <3>1. PICK hs : hs = Joined(gs, groups)
      OBVIOUS
    <3>2. Even(hs)
      BY <1>3, <3>1, EvenRefined
    <3> QED BY <2>2, <3>1, <3>2, EvenNext
  <2>3. ASSUME NEW gs, RefineInto(g, c, gs)
        PROVE  groups' = gs \/ groups' = <<>>
    BY <2>3 DEF RefineInto, Stop
  <2>4. \/ RefineInto(g, c, groups)
        \/ \E gs \in Refinements(path) : RefineInto(g, c, Joined(gs, groups))
        \/ Stop("refine: invalid child node")
    BY <1>6, <2>1 DEF refine
  <2>5. \/ groups' = groups \/ groups' = <<>>
        \/ \E gs \in Refinements(path) : groups' = Joined(gs, groups)
    <3>1. CASE RefineInto(g, c, groups)
      BY <2>3, <3>1
    <3>2. CASE \E gs \in Refinements(path) : RefineInto(g, c, Joined(gs, groups))
      BY <2>3, <3>2
    <3>3. CASE Stop("refine: invalid child node")
      BY <3>3 DEF Stop
    <3> QED BY <2>4, <3>1, <3>2, <3>3
  <2> QED BY <1>1, <1>2, <2>2, <2>5
<1>7. ASSUME NEW g \in Grid, NEW c \in in_use(g), coarsen(g, c)
      PROVE  Even(groups)'
  <2>1. PICK n : n = tree_node(g, c)
    OBVIOUS
  <2>2. PICK last : last = Max(SiblingsIn(g, n))
    OBVIOUS
  <2>3. PICK grids : grids = [grid EXCEPT ![g] = Coarsened(g, parent(n), SiblingsIn(g, n))]
    OBVIOUS
  <2>4. PICK gs : gs = Removed(grids, g, last)
    OBVIOUS
  <2>5. /\ Ready /\ n # 0
        /\ groups' = gs \/ groups' = <<>>
    BY <1>7, <2>1, <2>2, <2>3, <2>4 DEF coarsen, Stop
  <2>6. last \in UsedIn(groups)
    BY <2>1, <2>2, <2>5, LastSibling
  <2>7. Even(gs)
    BY <1>3, <2>4, <2>6, EvenRemoved
  <2> QED BY <1>2, <2>5, <2>7, EvenNext
<1>8. ASSUME NEW g \in Grid, set_node_values(g) \/ reset(g) \/ StartSort(g)
      PROVE  Even(groups)'
  BY <1>1, <1>2, <1>8 DEF set_node_values, reset, StartSort, Stop
<1>9. CASE SortCell \/ FinishSort
  BY <1>1, <1>2, <1>9 DEF SortCell, FinishSort, Stop
<1>10. CASE TreeSort
  <2>1. PICK gs \in Bijection(1 .. Cardinality(Refined), Refined) : groups' = gs
    BY <1>10 DEF TreeSort
  <2>2. Range(gs) = Refined
    <3>1. PICK S : S = 1 .. Cardinality(Refined)
      OBVIOUS
    <3>2. gs \in [S -> Refined] /\ \A r \in Refined : \E s \in S : gs[s] = r
      BY <3>1 DEF Bijection, Injection, Surjection
    <3>3. DOMAIN gs = S
      BY <3>2
    <3> QED BY <3>2, <3>3 DEF Range
  <2>3. Even(gs)
    BY <2>2 DEF Even, Refined
  <2> QED BY <2>1, <2>3, EvenNext
<1>11. \/ \E g \in Grid : \E n \in UsedNodes : push(g, n)
       \/ \E g \in Grid : \E c \in in_use(g) : pop(g, c)
       \/ \E g \in Grid : \E c \in in_use(g) : refine(g, c)
       \/ \E g \in Grid : \E c \in in_use(g) : coarsen(g, c)
       \/ \E g \in Grid : set_node_values(g) \/ reset(g)
       \/ TreeSort \/ SortCell \/ FinishSort \/ \E g \in unsynced : StartSort(g)
  BY Zenon DEF Next
<1>12. CASE \E g \in Grid : set_node_values(g) \/ reset(g)
  BY <1>8, <1>12
<1>13. CASE \E g \in unsynced : StartSort(g)
  BY <1>8, <1>13 DEF Inv
<1> QED BY <1>4, <1>5, <1>6, <1>7, <1>9, <1>10, <1>11, <1>12, <1>13, Zenon

(* In what the solvers make of the tree, nodes that touch differ by one level *)
(* at most.                                                                   *)
THEOREM TreeEven == Spec => []Even(groups)
<1>1. Init => Even(groups)
  <2>1. Range(<<>>) = {}
    <3>1. DOMAIN <<>> = {}
      OBVIOUS
    <3> QED BY <3>1 DEF Range
  <2> QED BY <2>1, EvenEmpty DEF Init
<1>2. Inv /\ Even(groups) /\ [Next]_vars => Even(groups)'
  <2> SUFFICES ASSUME Inv, Even(groups), [Next]_vars PROVE Even(groups)'
    OBVIOUS
  <2>1. CASE Next
    BY <2>1, EvenStep
  <2>2. CASE UNCHANGED vars
    <3>1. PICK gs : gs = groups
      OBVIOUS
    <3>2. groups' = gs
      BY <2>2, <3>1 DEF vars
    <3> QED BY <3>1, <3>2, EvenNext
  <2> QED BY <2>1, <2>2
<1> QED BY <1>1, <1>2, SolverInvariant, PTL DEF Spec

(* multi::neighbors finds the cells that touch a cell, and no others: all     *)
(* that are leaves of the tree as it is, or a level coarser and refined once  *)
(* for another grid.                                                          *)
THEOREM GridNeighborsHolds == Spec => []GridNeighbors
<1>1. ASSUME Inv, Even(groups) PROVE GridNeighbors
  <2> SUFFICES ASSUME Ready, NEW g \in Grid, NEW a \in cells(g)
               PROVE  /\ \A b \in neighbors(g, a) : b # a /\ Bal!Touch(a, b)
                      /\ a \notin Refined =>
                           \A b \in cells(g) \ {a} :
                             /\ \/ b \notin Refined
                                \/ /\ b \in Refined /\ Bal!children(b) \cap Refined = {}
                                   /\ Len(b) = Len(a) - 1
                             /\ Bal!Touch(a, b)
                             => b \in neighbors(g, a)
    BY DEF GridNeighbors, node_level
  <2>1. /\ IsTree(groups) /\ DOMAIN grid[g].in_tree \subseteq UsedIn(groups)
        /\ Apart(groups, grid[g])
    BY <1>1, ReadyGrid DEF GridInv
  <2>2. ASSUME NEW b \in cells(g)
        PROVE  \E n \in DOMAIN grid[g].in_tree :
                 b = PathIn(groups, n) /\ n \in UsedIn(groups) /\ b \in Paths
    BY <2>1, TheTree, PathType DEF cells, grid_nodes
  <2>3. ASSUME NEW b \in cells(g), NEW c \in cells(g), b # c
        PROVE  ~Related(b, c)
    BY <2>1, <2>2, <2>3 DEF Apart
  <2>4. PICK nodes : nodes = cells(g)
    OBVIOUS
  <2>5. neighbors(g, a) = BP!node_neighbors_in(nodes, a)
    BY <2>4, SameSearchIn DEF neighbors
  <2>6. a \in BP!Path /\ a \in Paths
    BY <2>2, SamePaths
  <2>7. ASSUME NEW b \in neighbors(g, a)
        PROVE  b # a /\ Bal!Touch(a, b)
    BY <2>5, <2>6, <2>7, BP!SoundIn, SameTouch, NdAssumption, SizeAssumption
  <2>8. ASSUME a \notin Refined, NEW b \in cells(g) \ {a},
               \/ b \notin Refined
               \/ /\ b \in Refined /\ Bal!children(b) \cap Refined = {}
                  /\ Len(b) = Len(a) - 1,
               Bal!Touch(a, b)
        PROVE  b \in neighbors(g, a)
    <3>1. BP!TreeSet(Refined) /\ BP!Balanced(Refined)
      BY <1>1, <2>1, TreeOfGroups, SameBalanced DEF Even, Refined
    <3>2. ASSUME NEW c \in cells(g), c \notin Refined
          PROVE  c \in BP!LeavesIn(Refined)
      BY <2>1, <2>2, <3>2, LeafPaths, SameLeaves
    <3>3. b \in Paths /\ Len(b) \in Nat /\ Len(a) \in Nat
      BY <2>2, <2>6, PathsAreWords
    <3>4. Refined # {}
      <4> SUFFICES ASSUME Refined = {} PROVE FALSE
        OBVIOUS
      <4>1. BP!LeavesOf(Refined) = {}
        BY DEF BP!LeavesOf
      <4>2. a = <<>> /\ b = <<>>
        BY <2>8, <3>2, <4>1 DEF BP!LeavesIn
      <4> QED BY <2>8, <4>2
    <3>5. ASSUME NEW c \in cells(g), c \notin Refined
          PROVE  c \in BP!LeavesOf(Refined)
      BY <3>2, <3>4, <3>5 DEF BP!LeavesIn
    <3>6. ASSUME b \in Refined, Bal!children(b) \cap Refined = {}, Len(b) = Len(a) - 1
          PROVE  /\ Len(a) = Len(b) + 1
                 /\ \A p \in BP!child_pos :
                      /\ Append(b, p) # a /\ Append(b, p) \notin Refined
                      /\ Append(b, p) \notin nodes
      <4>1. Len(a) = Len(b) + 1
        BY <3>3, <3>6
      <4>2. ASSUME NEW p \in child_pos
            PROVE  Append(b, p) \notin Refined
        BY <3>6, SamePaths DEF Bal!children
      <4>3. ASSUME NEW p \in child_pos
            PROVE  Append(b, p) \notin cells(g)
        <5>1. PICK c : c = Append(b, p)
          OBVIOUS
        <5>2. c \in Paths /\ Over(b, c) /\ Len(c) = Len(b) + 1
          BY <3>3, <5>1, PathAppend
        <5>3. Related(b, c) /\ b # c
          BY <3>3, <5>2, RelatedPaths
        <5> QED BY <2>3, <5>1, <5>3
      <4>4. \A p \in child_pos : Append(b, p) # a
        BY <4>3
      <4> QED BY <2>4, <4>1, <4>2, <4>3, <4>4, SamePaths
    <3>7. b \in BP!LeavesOf(Refined)
          \/ /\ b \in Refined /\ Len(a) = Len(b) + 1
             /\ \A p \in BP!child_pos :
                  Append(b, p) # a /\ Append(b, p) \notin Refined /\ Append(b, p) \notin nodes
      BY <2>8, <3>5, <3>6
    <3>8. a \in BP!LeavesOf(Refined) /\ b \in nodes /\ b # a /\ BP!Touch(a, b)
      BY <2>4, <2>8, <3>5, SameTouch
    <3>9. b \in BP!node_neighbors_in(nodes, a)
      BY <3>1, <3>7, <3>8, BP!CompleteIn, NdAssumption, SizeAssumption
    <3> QED BY <2>5, <3>9
  <2> QED BY <2>7, <2>8
<1> QED BY <1>1, SolverInvariant, TreeEven, PTL
=============================================================================
