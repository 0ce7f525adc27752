---------------------------- MODULE SessionProofs ----------------------------
(***************************************************************************)
(* The session is correct for any number of ranks, groups, files and runs. *)
(* What was saved stays listed and is never written again, a session file  *)
(* lists whole files whose dependencies are listed, and ranks at rest hold *)
(* the session that is on disk.                                            *)
(***************************************************************************)
EXTENDS Session, FiniteSetTheorems, SequenceTheorems, TLAPS

-----------------------------------------------------------------------------
(* Listings: the files of each group, as a session holds them. *)

IsListing(gs) ==
  /\ DOMAIN gs \subseteq Group
  /\ \A g \in DOMAIN gs : gs[g] \in Seq(Int) /\ Len(gs[g]) <= MaxFiles

(* Files depend on files that are listed, later ones not on older ones. *)
DependsOnListed(gs) ==
  \A g \in DOMAIN gs :
    Dependency[g] # NoGroup =>
      /\ Dependency[g] \in DOMAIN gs
      /\ \A k \in 1 .. Len(gs[g]) :
           /\ gs[g][k] \in 0 .. Len(gs[Dependency[g]]) - 1
           /\ \A j \in 1 .. Len(gs[g]) : j < k => gs[g][j] <= gs[g][k]

Good(gs) == IsListing(gs) /\ DependsOnListed(gs)

(* b has the files of a, and maybe more behind them. *)
Extends(a, b) ==
  /\ DOMAIN a \subseteq DOMAIN b
  /\ \A g \in DOMAIN a : /\ Len(a[g]) <= Len(b[g])
                         /\ \A k \in 1 .. Len(a[g]) : b[g][k] = a[g][k]

(* The file that write makes for a group, and the listing with it. *)
NextFile(gs, g) ==
  [group |-> g, index |-> Len(gs[g]),
   dependency |-> IF Dependency[g] = NoGroup THEN -1
                  ELSE Len(gs[Dependency[g]]) - 1]
Registered(gs, g) == With(gs, g, <<>>)
Pushed(gs, file) ==
  [gs EXCEPT ![file.group] = Append(@, file.dependency)]

LEMMA ListedFiles ==
  ASSUME NEW gs, IsListing(gs)
  PROVE  /\ \A f \in Listed(gs) :
              /\ f.group \in DOMAIN gs
              /\ f.index + 1 \in 1 .. Len(gs[f.group])
              /\ f.index \in Nat
              /\ f.dependency = gs[f.group][f.index + 1]
              /\ f = [group |-> f.group, index |-> f.index,
                      dependency |-> f.dependency]
         /\ \A g \in DOMAIN gs : \A k \in 1 .. Len(gs[g]) :
              [group |-> g, index |-> k - 1, dependency |-> gs[g][k]]
                 \in Listed(gs)
<1>1. \A g \in DOMAIN gs : DOMAIN gs[g] = 1 .. Len(gs[g]) /\ Len(gs[g]) \in Nat
  BY DEF IsListing
<1>2. ASSUME NEW f \in Listed(gs)
      PROVE  /\ f.group \in DOMAIN gs
             /\ f.index + 1 \in 1 .. Len(gs[f.group])
             /\ f.index \in Nat
             /\ f.dependency = gs[f.group][f.index + 1]
             /\ f = [group |-> f.group, index |-> f.index,
                     dependency |-> f.dependency]
  <2>0. PICK g \in DOMAIN gs :
          f \in {[group |-> g, index |-> k - 1, dependency |-> gs[g][k]] :
                  k \in DOMAIN gs[g]}
    BY DEF Listed
  <2>1. PICK k \in DOMAIN gs[g] :
          f = [group |-> g, index |-> k - 1, dependency |-> gs[g][k]]
    BY <2>0
  <2>2. k \in 1 .. Len(gs[g]) /\ k \in Nat /\ Len(gs[g]) \in Nat
    BY <1>1, <2>1
  <2>3. f.group = g /\ f.index = k - 1 /\ f.dependency = gs[g][k]
    BY <2>1
  <2>4. k - 1 + 1 = k /\ k - 1 \in Nat
    BY <2>2
  <2> QED BY <2>1, <2>2, <2>3, <2>4
<1>3. ASSUME NEW g \in DOMAIN gs, NEW k \in 1 .. Len(gs[g])
      PROVE  [group |-> g, index |-> k - 1, dependency |-> gs[g][k]]
                \in Listed(gs)
  BY <1>1 DEF Listed
<1> QED BY <1>2, <1>3

(* A file is found by its group and index. *)
LEMMA ListedOnce ==
  ASSUME NEW gs, IsListing(gs), NEW e \in Listed(gs), NEW f \in Listed(gs),
         e.group = f.group, e.index = f.index
  PROVE  e = f
<1>1. e.dependency = f.dependency
  BY ListedFiles
<1>2. e = [group |-> e.group, index |-> e.index, dependency |-> e.dependency]
  BY ListedFiles
<1>3. f = [group |-> f.group, index |-> f.index, dependency |-> f.dependency]
  BY ListedFiles
<1> QED BY <1>1, <1>2, <1>3

LEMMA ExtendsOrder ==
  /\ \A a : IsListing(a) => Extends(a, a)
  /\ \A a, b, c : IsListing(a) /\ IsListing(b) /\ IsListing(c)
                    /\ Extends(a, b) /\ Extends(b, c) => Extends(a, c)
<1>1. ASSUME NEW a, IsListing(a) PROVE Extends(a, a)
  <2>1. \A g \in DOMAIN a : Len(a[g]) \in Nat
    BY <1>1 DEF IsListing
  <2> QED BY <2>1 DEF Extends
<1>2. ASSUME NEW a, NEW b, NEW c, IsListing(a), IsListing(b), IsListing(c),
             Extends(a, b), Extends(b, c)
      PROVE  Extends(a, c)
  <2>1. ASSUME NEW g \in DOMAIN a
        PROVE  /\ g \in DOMAIN c
               /\ Len(a[g]) <= Len(c[g])
               /\ \A k \in 1 .. Len(a[g]) : c[g][k] = a[g][k]
    <3>1. g \in DOMAIN b /\ g \in DOMAIN c
      BY <1>2 DEF Extends
    <3>2. Len(a[g]) \in Nat /\ Len(b[g]) \in Nat /\ Len(c[g]) \in Nat
      BY <3>1, <1>2 DEF IsListing
    <3>3. Len(a[g]) <= Len(b[g]) /\ Len(b[g]) <= Len(c[g])
      BY <3>1, <1>2 DEF Extends
    <3>4. \A k \in 1 .. Len(a[g]) : k \in 1 .. Len(b[g])
      BY <3>2, <3>3
    <3>5. \A k \in 1 .. Len(a[g]) : b[g][k] = a[g][k] /\ c[g][k] = b[g][k]
      BY <3>1, <3>4, <1>2 DEF Extends
    <3> QED BY <3>1, <3>2, <3>3, <3>5
  <2> QED BY <2>1 DEF Extends
<1> QED BY <1>1, <1>2

(* A listing that goes on lists no fewer files. *)
LEMMA ExtendsListed ==
  ASSUME NEW a, NEW b, IsListing(a), IsListing(b), Extends(a, b)
  PROVE  /\ Listed(a) \subseteq Listed(b)
         /\ no_files(a) \in Nat /\ no_files(b) \in Nat
         /\ no_files(a) <= no_files(b)
<1>1. ASSUME NEW f \in Listed(a) PROVE f \in Listed(b)
  <2>1. /\ f.group \in DOMAIN a /\ f.index + 1 \in 1 .. Len(a[f.group])
        /\ f.index \in Nat
        /\ f.dependency = a[f.group][f.index + 1]
        /\ f = [group |-> f.group, index |-> f.index, dependency |-> f.dependency]
    BY <1>1, ListedFiles
  <2>2. /\ f.group \in DOMAIN b
        /\ Len(a[f.group]) <= Len(b[f.group])
        /\ b[f.group][f.index + 1] = a[f.group][f.index + 1]
    BY <2>1 DEF Extends
  <2>3. Len(a[f.group]) \in Nat /\ Len(b[f.group]) \in Nat
    BY <2>1, <2>2 DEF IsListing
  <2>4. f.index + 1 \in 1 .. Len(b[f.group])
    BY <2>1, <2>2, <2>3
  <2>5. PICK g, k : g = f.group /\ k = f.index + 1
    OBVIOUS
  <2>6. [group |-> g, index |-> k - 1, dependency |-> b[g][k]] \in Listed(b)
    BY <2>2, <2>4, <2>5, ListedFiles
  <2>7. k - 1 = f.index
    BY <2>1, <2>5
  <2> QED BY <2>1, <2>2, <2>5, <2>6, <2>7
<1>2. PICK A, B : /\ A = UNION {{g} \X DOMAIN a[g] : g \in DOMAIN a}
                  /\ B = UNION {{g} \X DOMAIN b[g] : g \in DOMAIN b}
  OBVIOUS
<1>3. IsFiniteSet(Group \X (1 .. MaxFiles))
  <2>1. IsFiniteSet(Group) /\ MaxFiles \in Int
    BY SessionAssumption
  <2>2. IsFiniteSet(1 .. MaxFiles)
    BY <2>1, FS_Interval
  <2> QED BY <2>1, <2>2, FS_Product
<1>4. ASSUME NEW gs, IsListing(gs)
      PROVE  UNION {{g} \X DOMAIN gs[g] : g \in DOMAIN gs}
               \subseteq Group \X (1 .. MaxFiles)
  <2>1. \A g \in DOMAIN gs : /\ g \in Group
                             /\ DOMAIN gs[g] = 1 .. Len(gs[g])
                             /\ Len(gs[g]) \in Nat /\ Len(gs[g]) <= MaxFiles
    BY <1>4 DEF IsListing
  <2>2. \A g \in DOMAIN gs : \A k \in DOMAIN gs[g] : k \in 1 .. MaxFiles
    BY <2>1, SessionAssumption
  <2> QED BY <2>1, <2>2
<1>5. A \subseteq B
  <2>1. \A g \in DOMAIN a : DOMAIN a[g] = 1 .. Len(a[g]) /\ Len(a[g]) \in Nat
    BY DEF IsListing
  <2>2. \A g \in DOMAIN b : DOMAIN b[g] = 1 .. Len(b[g]) /\ Len(b[g]) \in Nat
    BY DEF IsListing
  <2>3. \A g \in DOMAIN a : g \in DOMAIN b /\ Len(a[g]) <= Len(b[g])
    BY DEF Extends
  <2>4. \A g \in DOMAIN a : DOMAIN a[g] \subseteq DOMAIN b[g]
    BY <2>1, <2>2, <2>3
  <2> QED BY <1>2, <2>3, <2>4
<1>6. IsFiniteSet(A) /\ IsFiniteSet(B)
  BY <1>2, <1>3, <1>4, FS_Subset
<1>7. Cardinality(A) \in Nat /\ Cardinality(B) \in Nat
        /\ Cardinality(A) <= Cardinality(B)
  BY <1>5, <1>6, FS_Subset, FS_CardinalityType
<1> QED BY <1>1, <1>2, <1>7 DEF no_files

(* A group that registers has no file yet. *)
LEMMA RegisterFiles ==
  ASSUME NEW gs, Good(gs), NEW g \in Group, g \notin DOMAIN gs,
         Dependency[g] \in DOMAIN gs \cup {NoGroup}
  PROVE  /\ Good(Registered(gs, g))
         /\ Extends(gs, Registered(gs, g))
         /\ Listed(Registered(gs, g)) = Listed(gs)
<1>1. PICK ns : ns = Registered(gs, g)
  OBVIOUS
<1>2. /\ DOMAIN ns = DOMAIN gs \cup {g}
      /\ ns[g] = <<>>
      /\ \A x \in DOMAIN gs : ns[x] = gs[x]
  BY <1>1 DEF Registered, With
<1>3. IsListing(ns)
  <2>1. <<>> \in Seq(Int) /\ Len(<<>>) = 0 /\ 0 <= MaxFiles
    BY SessionAssumption
  <2> QED BY <1>2, <2>1 DEF Good, IsListing
<1>4. DependsOnListed(ns)
  <2> SUFFICES ASSUME NEW x \in DOMAIN ns, Dependency[x] # NoGroup
               PROVE  /\ Dependency[x] \in DOMAIN ns
                      /\ \A k \in 1 .. Len(ns[x]) :
                           /\ ns[x][k] \in 0 .. Len(ns[Dependency[x]]) - 1
                           /\ \A j \in 1 .. Len(ns[x]) : j < k => ns[x][j] <= ns[x][k]
    BY DEF DependsOnListed
  <2>1. CASE x = g
    <3>1. 1 .. Len(ns[x]) = {}
      BY <2>1, <1>2
    <3> QED BY <2>1, <1>2, <3>1
  <2>2. CASE x \in DOMAIN gs
    BY <2>2, <1>2 DEF Good, DependsOnListed
  <2> QED BY <2>1, <2>2, <1>2
<1>5. Extends(gs, ns)
  <2>1. \A x \in DOMAIN gs : Len(gs[x]) \in Nat
    BY DEF Good, IsListing
  <2> QED BY <1>2, <2>1 DEF Extends
<1>6. Listed(ns) \subseteq Listed(gs)
  <2> SUFFICES ASSUME NEW f \in Listed(ns) PROVE f \in Listed(gs)
    OBVIOUS
  <2>1. PICK x \in DOMAIN ns :
          f \in {[group |-> x, index |-> k - 1, dependency |-> ns[x][k]] :
                  k \in DOMAIN ns[x]}
    BY DEF Listed
  <2>2. x # g
    BY <2>1, <1>2
  <2> QED BY <2>1, <2>2, <1>2 DEF Listed
<1>7. Listed(gs) \subseteq Listed(ns)
  BY <1>3, <1>5, ExtendsListed DEF Good
<1> QED BY <1>1, <1>3, <1>4, <1>5, <1>6, <1>7 DEF Good

(* The file that is written goes behind the others of its group. *)
LEMMA PushFile ==
  ASSUME NEW gs, Good(gs), NEW g \in DOMAIN gs, Len(gs[g]) < MaxFiles,
         Dependency[g] # NoGroup => gs[Dependency[g]] # <<>>
  PROVE  LET file == NextFile(gs, g)
         IN  /\ Good(Pushed(gs, file))
             /\ Extends(gs, Pushed(gs, file))
             /\ Listed(Pushed(gs, file)) = Listed(gs) \cup {file}
             /\ \A f \in Listed(gs) : ~(f.group = g /\ f.index = file.index)
<1>1. PICK n, d, file, ns :
        /\ n = Len(gs[g])
        /\ d = IF Dependency[g] = NoGroup THEN -1
               ELSE Len(gs[Dependency[g]]) - 1
        /\ file = NextFile(gs, g)
        /\ ns = Pushed(gs, file)
  OBVIOUS
<1>2. /\ file = [group |-> g, index |-> n, dependency |-> d]
      /\ file.group = g /\ file.dependency = d
  BY <1>1 DEF NextFile
<1>3. \A x \in DOMAIN gs : gs[x] \in Seq(Int) /\ Len(gs[x]) \in Nat
  BY DEF Good, IsListing
<1>4. n \in Nat /\ n < MaxFiles /\ MaxFiles \in Nat /\ n = Len(gs[g])
  BY <1>1, <1>3, SessionAssumption
<1>5. d \in Int /\ (Dependency[g] # NoGroup =>
                      /\ d \in 0 .. Len(gs[Dependency[g]]) - 1
                      /\ d = Len(gs[Dependency[g]]) - 1
                      /\ Dependency[g] \in DOMAIN gs)
  <2>1. CASE Dependency[g] = NoGroup
    BY <2>1, <1>1
  <2>2. CASE Dependency[g] # NoGroup
    <3>1. PICK e : e = Dependency[g]
      OBVIOUS
    <3>2. e \in DOMAIN gs /\ gs[e] # <<>>
      BY <2>2, <3>1 DEF Good, DependsOnListed
    <3>3. Len(gs[e]) \in Nat /\ Len(gs[e]) # 0
      BY <3>2, <1>3
    <3>4. d = Len(gs[e]) - 1
      BY <2>2, <3>1, <1>1
    <3> QED BY <2>2, <3>1, <3>2, <3>3, <3>4
  <2> QED BY <2>1, <2>2
<1>6. /\ DOMAIN ns = DOMAIN gs
      /\ ns[g] = Append(gs[g], d)
      /\ \A x \in DOMAIN gs \ {g} : ns[x] = gs[x]
  BY <1>1, <1>2 DEF Pushed
<1>7. /\ ns[g] \in Seq(Int) /\ Len(ns[g]) = n + 1
      /\ \A k \in 1 .. n : ns[g][k] = gs[g][k]
      /\ ns[g][n + 1] = d
  BY <1>3, <1>4, <1>5, <1>6
<1>8. IsListing(ns)
  <2>1. Len(ns[g]) <= MaxFiles
    BY <1>4, <1>7
  <2>2. \A x \in DOMAIN gs \ {g} : ns[x] \in Seq(Int) /\ Len(ns[x]) <= MaxFiles
    BY <1>6 DEF Good, IsListing
  <2>3. DOMAIN gs \subseteq Group
    BY DEF Good, IsListing
  <2> QED BY <2>1, <2>2, <2>3, <1>6, <1>7 DEF IsListing
<1>9. Extends(gs, ns)
  <2>1. \A x \in DOMAIN gs : Len(gs[x]) <= Len(ns[x])
    BY <1>3, <1>4, <1>6, <1>7
  <2>2. \A x \in DOMAIN gs : \A k \in 1 .. Len(gs[x]) : ns[x][k] = gs[x][k]
    BY <1>4, <1>6, <1>7
  <2> QED BY <2>1, <2>2, <1>6 DEF Extends
<1>10. DependsOnListed(ns)
  <2> SUFFICES ASSUME NEW x \in DOMAIN gs, Dependency[x] # NoGroup
               PROVE  /\ Dependency[x] \in DOMAIN gs
                      /\ \A k \in 1 .. Len(ns[x]) :
                           /\ ns[x][k] \in 0 .. Len(ns[Dependency[x]]) - 1
                           /\ \A j \in 1 .. Len(ns[x]) : j < k => ns[x][j] <= ns[x][k]
    BY <1>6 DEF DependsOnListed
  <2>1. PICK e : e = Dependency[x]
    OBVIOUS
  <2>2. /\ e \in DOMAIN gs
        /\ \A k \in 1 .. Len(gs[x]) :
             /\ gs[x][k] \in 0 .. Len(gs[e]) - 1
             /\ \A j \in 1 .. Len(gs[x]) : j < k => gs[x][j] <= gs[x][k]
    BY <2>1 DEF Good, DependsOnListed
  <2>3. Len(gs[e]) \in Nat /\ Len(ns[e]) \in Nat /\ Len(gs[e]) <= Len(ns[e])
    <3>1. CASE e = g
      BY <3>1, <1>4, <1>7
    <3>2. CASE e # g
      BY <3>2, <2>2, <1>3, <1>6
    <3> QED BY <3>1, <3>2
  <2>4. CASE x # g
    <3>1. ns[x] = gs[x]
      BY <2>4, <1>6
    <3>2. \A v \in 0 .. Len(gs[e]) - 1 : v \in 0 .. Len(ns[e]) - 1
      BY <2>3
    <3> QED BY <3>1, <3>2, <2>1, <2>2
  <2>5. CASE x = g
    <3>1. d \in 0 .. Len(gs[e]) - 1 /\ d = Len(gs[e]) - 1
      BY <2>1, <2>5, <1>5
    <3>2. \A k \in 1 .. n + 1 : ns[g][k] \in 0 .. Len(gs[e]) - 1
      <4>1. \A k \in 1 .. n + 1 : k \in 1 .. n \/ k = n + 1
        BY <1>4
      <4>2. \A k \in 1 .. n : ns[g][k] \in 0 .. Len(gs[e]) - 1
        BY <2>2, <2>5, <1>4, <1>7
      <4> QED BY <4>1, <4>2, <3>1, <1>7
    <3>3. \A k \in 1 .. n + 1 : ns[g][k] \in 0 .. Len(ns[e]) - 1
      BY <3>2, <2>3
    <3>4. ASSUME NEW k \in 1 .. n + 1, NEW j \in 1 .. n + 1, j < k
          PROVE  ns[g][j] <= ns[g][k]
      <4>1. CASE k = n + 1
        <5>1. ns[g][k] = Len(gs[e]) - 1
          BY <4>1, <1>7, <3>1
        <5>2. ns[g][j] \in 0 .. Len(gs[e]) - 1
          BY <3>2
        <5> QED BY <5>1, <5>2, <2>3
      <4>2. CASE k # n + 1
        <5>1. k \in 1 .. n /\ j \in 1 .. n
          BY <4>2, <3>4, <1>4
        <5> QED BY <5>1, <3>4, <2>2, <2>5, <1>4, <1>7
      <4> QED BY <4>1, <4>2
    <3> QED BY <3>3, <3>4, <2>1, <2>2, <2>5, <1>7
  <2> QED BY <2>4, <2>5
<1>11. file \in Listed(ns)
  <2>1. n + 1 \in 1 .. Len(ns[g]) /\ n + 1 - 1 = n
    BY <1>4, <1>7
  <2>2. PICK k : k = n + 1
    OBVIOUS
  <2>3. [group |-> g, index |-> k - 1, dependency |-> ns[g][k]] \in Listed(ns)
    BY <2>1, <2>2, <1>6, <1>8, ListedFiles
  <2>4. k - 1 = n /\ ns[g][k] = d
    BY <2>1, <2>2, <1>4, <1>7
  <2> QED BY <2>3, <2>4, <1>2
<1>12. Listed(gs) \subseteq Listed(ns)
  BY <1>8, <1>9, ExtendsListed DEF Good
<1>13. ASSUME NEW f \in Listed(ns), f # file PROVE f \in Listed(gs)
  <2>1. /\ f.group \in DOMAIN gs /\ f.index + 1 \in 1 .. Len(ns[f.group])
        /\ f.index \in Nat
        /\ f.dependency = ns[f.group][f.index + 1]
        /\ f = [group |-> f.group, index |-> f.index, dependency |-> f.dependency]
    BY <1>6, <1>8, ListedFiles
  <2>2. ~(f.group = g /\ f.index = n)
    BY <2>1, <1>2, <1>7, <1>13
  <2>3. /\ f.index + 1 \in 1 .. Len(gs[f.group])
        /\ ns[f.group][f.index + 1] = gs[f.group][f.index + 1]
    <3>1. CASE f.group = g
      <4>1. f.index + 1 \in 1 .. n
        BY <3>1, <2>1, <2>2, <1>4, <1>7
      <4> QED BY <3>1, <4>1, <1>4, <1>7
    <3>2. CASE f.group # g
      BY <3>2, <2>1, <1>6
    <3> QED BY <3>1, <3>2
  <2>4. PICK x, k : x = f.group /\ k = f.index + 1
    OBVIOUS
  <2>5. [group |-> x, index |-> k - 1, dependency |-> gs[x][k]] \in Listed(gs)
    BY <2>1, <2>3, <2>4, ListedFiles DEF Good
  <2>6. k - 1 = f.index
    BY <2>1, <2>4
  <2> QED BY <2>1, <2>3, <2>4, <2>5, <2>6
<1>14. \A f \in Listed(gs) : ~(f.group = g /\ f.index = n)
  <2> SUFFICES ASSUME NEW f \in Listed(gs), f.group = g, f.index = n
               PROVE  FALSE
    OBVIOUS
  <2>1. n + 1 \in 1 .. Len(gs[g])
    BY ListedFiles DEF Good
  <2> QED BY <2>1, <1>4
<1> HIDE DEF NextFile, Pushed
<1> QED BY <1>1, <1>2, <1>8, <1>9, <1>10, <1>11, <1>12, <1>13, <1>14 DEF Good

-----------------------------------------------------------------------------
(* The invariant.  The listings that the program makes from one operation to *)
(* the next are the same on every rank: h, which has one for each prefix of  *)
(* the script.  A rank holds one of them.                                    *)

Fields == {"at", "groups", "position", "file", "results"}
Working == {"ready", "data", "push", "save"}
Writing == {"data", "push", "save"}
Items == {"register", "write"} \X Group

Effect(gs, what) ==
  IF what[1] = "register" THEN Registered(gs, what[2])
  ELSE Pushed(gs, NextFile(gs, what[2]))

History(h) ==
  /\ script \in Seq(Items)
  /\ \A k \in 0 .. Len(script) : Good(h[k])
  /\ \A k \in 1 .. Len(script) : h[k] = Effect(h[k - 1], script[k])
  /\ \A j, k \in 0 .. Len(script) : j <= k => Extends(h[j], h[k])

(* Where a rank is: p operations are done, with "save" the file of the next *)
(* one is in its listing.                                                   *)
RankAt(h, r) ==
  \E p \in 0 .. Len(script) :
    /\ rank[r].position = p
    /\ rank[r].at \in {"ready", "data", "push"} => rank[r].groups = h[p]
    /\ rank[r].at = "save" => rank[r].groups = h[p + 1]
    /\ rank[r].at \in Writing =>
         /\ p < Len(script)
         /\ rank[r].file.group \in DOMAIN h[p]
         /\ script[p + 1] = <<"write", rank[r].file.group>>
         /\ rank[r].file = NextFile(h[p], rank[r].file.group)
         /\ Listed(h[p + 1]) = Listed(h[p]) \cup {rank[r].file}
         /\ \A f \in Listed(h[p]) : ~(f.group = rank[r].file.group
                                        /\ f.index = rank[r].file.index)

(* A file that is whole, or about to be. *)
FilePath(f) == <<".", f.group, f.index>>
Whole(f) ==
  /\ FilePath(f) \in DOMAIN data
  /\ data[FilePath(f)].whole
  /\ data[FilePath(f)].dependency = f.dependency
Present(f) ==
  FilePath(f) \in DOMAIN data
    /\ (Whole(f) \/ \E q \in Ranks : rank[q].at = "data" /\ rank[q].file = f)

FilesOf(r) ==
  Listed(rank[r].groups)
    \cup IF rank[r].at = "push" THEN {rank[r].file} ELSE {}

(* A program that has got past the tests of its session. *)
Going == rank[root].at \in Working

LastWritten ==
  script # <<>> /\ script[Len(script)][1] = "write"
    /\ (\A r \in Ranks : rank[r].at = "ready" /\ rank[r].position = Len(script))
  => session.whole /\ session.groups = rank[root].groups

State(h) ==
  /\ History(h)
  /\ no_ranks # 1 => h[0] = <<>>
  /\ \A r \in Ranks : \/ rank[r].at = "exists" /\ r # root
                      \/ rank[r].at \in Working /\ RankAt(h, r)
  /\ \A r \in Ranks : saved \subseteq Listed(rank[r].groups)
  /\ session.whole => \E r \in Ranks : Extends(session.groups, rank[r].groups)
  /\ \A r \in Ranks : \A f \in FilesOf(r) : Present(f)
  /\ session.length <= no_files(h[Len(script)])
  /\ LastWritten

Ranked ==
  /\ no_ranks \in Nat \ {0}
  /\ DOMAIN rank = Ranks
  /\ \A r \in Ranks :
       /\ DOMAIN rank[r] = Fields
       /\ rank[r].at \in Working \cup {"down", "remove", "exists", "read"}
       /\ rank[r].at \in {"remove", "exists", "read"} =>
            rank[r].groups = <<>> /\ rank[r].position = 0
       /\ rank[r].at = "down" <=> rank[root].at = "down"
       /\ no_ranks # 1 => rank[r].at \notin {"remove", "read"}
       /\ r # root /\ rank[r].at \in Working => Going
       /\ r # root /\ rank[r].at = "exists" => rank[r].results = <<>>
  /\ no_ranks # 1 => mode = "create"
  /\ no_ranks # 1 /\ rank[root].at # "down" =>
       broadcasts = IF Going THEN <<FALSE>> ELSE <<>>
  /\ rank[root].at \in {"remove", "exists", "read"} => script = <<>>

OnDisk ==
  /\ DOMAIN session = {"exists", "whole", "length", "groups"}
  /\ session.exists \in BOOLEAN /\ session.whole \in BOOLEAN
  /\ session.length \in Nat
  /\ ~session.exists => saved = {} /\ ~session.whole /\ session.length = 0
  /\ session.whole =>
       /\ Good(session.groups)
       /\ session.length = no_files(session.groups)
       /\ saved \subseteq Listed(session.groups)
       /\ no_ranks = 1 => \A f \in Listed(session.groups) : Whole(f)

Inv ==
  Ranked /\ OnDisk /\ (Going => \E h : State(h))

-----------------------------------------------------------------------------
(* Starting and ending. *)

LEMMA RootIsRank ==
  ASSUME Ranked
  PROVE  /\ root \in Ranks
         /\ no_ranks = 1 => Ranks = {root}
         /\ \A r \in Ranks : r # root => no_ranks # 1
BY DEF Ranked, Ranks, root

(* The empty listing. *)
LEMMA NoFiles ==
  /\ Good(<<>>) /\ Listed(<<>>) = {} /\ Extends(<<>>, <<>>)
<1>1. DOMAIN <<>> = {}
  OBVIOUS
<1> QED BY <1>1 DEF Good, IsListing, DependsOnListed, Listed, Extends

LEMMA SessionInit == Init => Inv
<1> SUFFICES ASSUME Init PROVE Inv
  OBVIOUS
<1>1. no_ranks \in Nat \ {0}
  BY SessionAssumption DEF Init
<1>2. root \in Ranks
  BY <1>1 DEF Ranks, root
<1>3. Ranked
  BY <1>1, <1>2 DEF Init, Ranked, Down, Fields, Going, Working
<1>4. OnDisk
  BY DEF Init, OnDisk, Absent
<1>5. ~Going
  BY <1>2 DEF Init, Going, Working, Down
<1> QED BY <1>3, <1>4, <1>5 DEF Inv

LEMMA DiskKept ==
  ASSUME OnDisk, UNCHANGED <<session, saved, data, no_ranks>>
  PROVE  OnDisk'
BY DEF OnDisk, Whole

LEMMA LaunchStep ==
  ASSUME Inv, NEW m \in {"create", "restart", "remove"},
         m = "create" \/ no_ranks = 1, Launch(m)
  PROVE  Inv'
<1>1. root \in Ranks /\ Ranked /\ Ranks' = Ranks
  BY RootIsRank DEF Inv, Launch, Ranks
<1>2. \A r \in Ranks : rank'[r] = [Down EXCEPT !.at =
                                     IF m = "remove" THEN "remove" ELSE "exists"]
  BY DEF Launch
<1>3. \A r \in Ranks : /\ rank'[r].at = IF m = "remove" THEN "remove" ELSE "exists"
                       /\ rank'[r].groups = <<>> /\ rank'[r].position = 0
                       /\ rank'[r].results = <<>>
                       /\ DOMAIN rank'[r] = Fields
  BY <1>2 DEF Down, Fields
<1>4. ~Going'
  BY <1>1, <1>3 DEF Going, Working
<1>5. Ranked'
  BY <1>1, <1>3, <1>4, RootIsRank DEF Launch, Ranked, Working
<1>6. OnDisk'
  BY DiskKept DEF Inv, Launch
<1> QED BY <1>4, <1>5, <1>6 DEF Inv

(* Whatever ends the program leaves the disk as it is. *)
LEMMA EndStep ==
  ASSUME Inv, UNCHANGED <<no_ranks, session, saved, data, mode>>,
         DOMAIN rank' = Ranks,
         \A r \in Ranks : rank'[r].at = "down" /\ DOMAIN rank'[r] = Fields
  PROVE  Inv'
<1>1. root \in Ranks /\ Ranked /\ Ranks' = Ranks
  BY RootIsRank DEF Inv, Ranks
<1>2. ~Going'
  BY <1>1 DEF Going, Working
<1>3. Ranked'
  BY <1>1, <1>2 DEF Ranked, Working
<1>4. OnDisk'
  BY DiskKept DEF Inv
<1> QED BY <1>2, <1>3, <1>4 DEF Inv

LEMMA TerminatedDown ==
  ASSUME Ranked
  PROVE  /\ DOMAIN Terminated = Ranks
         /\ \A r \in Ranks : Terminated[r].at = "down"
                               /\ DOMAIN Terminated[r] = Fields
BY DEF Terminated, Ranked, Fields

LEMMA CrashStep ==
  ASSUME Inv, Crash
  PROVE  Inv'
BY EndStep, TerminatedDown DEF Crash, Inv

LEMMA RemoveStep ==
  ASSUME Inv, NEW r \in Ranks, remove(r)
  PROVE  Inv'
<1>1. Ranked /\ OnDisk /\ Ranks' = Ranks /\ no_ranks' = no_ranks
  BY DEF Inv, remove, Ranks
<1>2. no_ranks = 1 /\ r = root /\ Ranks = {root} /\ rank[root].at = "remove"
  BY <1>1, RootIsRank DEF remove, Ranked
<1>3. /\ rank'[root].at = "exists" /\ rank'[root].groups = <<>>
      /\ rank'[root].position = 0 /\ DOMAIN rank'[root] = Fields
      /\ DOMAIN rank' = Ranks /\ script' = <<>>
  BY <1>1, <1>2 DEF remove, Ranked, Fields
<1>4. ~Going'
  BY <1>3 DEF Going, Working
<1>5. Ranked'
  BY <1>1, <1>2, <1>3, <1>4 DEF Ranked
<1>6. session' = Absent /\ saved' = {}
  BY <1>2 DEF remove
<1>7. OnDisk'
  BY <1>6 DEF OnDisk, Absent
<1> QED BY <1>4, <1>5, <1>7 DEF Inv

(* A program that gets past its tests starts with one listing. *)
LEMMA GoingStarts ==
  ASSUME NEW gs, Good(gs), script' = <<>>
  PROVE  \E h : h[0] = gs /\ History(h)'
<1>1. PICK h : h = [i \in 0 .. 0 |-> gs]
  OBVIOUS
<1>2. h[0] = gs
  BY <1>1
<1>3. Len(script') = 0 /\ script' \in Seq(Items)
  OBVIOUS
<1>4. /\ \A k \in 0 .. Len(script') : k = 0
      /\ 1 .. Len(script') = {}
  BY <1>3
<1>5. Extends(gs, gs)
  BY ExtendsOrder DEF Good
<1>6. History(h)'
  BY <1>2, <1>3, <1>4, <1>5 DEF History
<1> QED BY <1>2, <1>6

LEMMA FilesCounted ==
  ASSUME NEW gs, Good(gs)
  PROVE  no_files(gs) \in Nat
BY ExtendsOrder, ExtendsListed DEF Good

(* The root starts with an empty listing or that of the session file. *)
LEMMA RootStarts ==
  ASSUME Ranked, OnDisk, Ranked', OnDisk',
         rank[root].at \in {"exists", "read"}, rank'[root].at = "ready",
         script' = <<>>, rank'[root].position = 0,
         UNCHANGED <<no_ranks, data>>,
         Good(rank'[root].groups), saved' \subseteq Listed(rank'[root].groups),
         no_ranks # 1 => rank'[root].groups = <<>>,
         session'.whole =>
           no_ranks = 1 /\ session'.groups = rank'[root].groups,
         session'.length <= no_files(rank'[root].groups),
         \A f \in Listed(rank'[root].groups) : Whole(f)',
         \A r \in Ranks \ {root} : rank'[r] = rank[r]
  PROVE  \E h : State(h)'
<1>1. PICK h : h[0] = rank'[root].groups /\ History(h)'
  BY GoingStarts
<1>2. root \in Ranks /\ Ranks' = Ranks
  BY RootIsRank DEF Ranks
<1>3. \A r \in Ranks \ {root} : rank[r].at = "exists" /\ rank[r].groups = <<>>
                                  /\ saved' = {}
  <2> TAKE r \in Ranks \ {root}
  <2>1. no_ranks # 1
    BY RootIsRank
  <2>2. rank[r].at = "exists"
    BY <2>1 DEF Ranked, Going, Working
  <2>3. rank[r].groups = <<>>
    BY <2>2 DEF Ranked
  <2> QED BY <2>1, <2>2, <2>3, NoFiles
<1>4. RankAt(h, root)'
  <2>1. Len(script') = 0 /\ 0 \in 0 .. Len(script')
    OBVIOUS
  <2> QED BY <1>1, <2>1 DEF RankAt, Writing
<1>5. /\ no_ranks' # 1 => h[0] = <<>>
      /\ \A r \in Ranks' : \/ rank'[r].at = "exists" /\ r # root
                           \/ rank'[r].at \in Working /\ RankAt(h, r)'
      /\ \A r \in Ranks' : saved' \subseteq Listed(rank'[r].groups)
  BY <1>1, <1>2, <1>3, <1>4, NoFiles DEF Working
<1>6. session'.whole => \E r \in Ranks' : Extends(session'.groups, rank'[r].groups)
  BY <1>2, ExtendsOrder DEF Good
<1>7. \A r \in Ranks' : \A f \in FilesOf(r)' : Present(f)'
  <2> TAKE r \in Ranks'
  <2>1. CASE r # root
    BY <2>1, <1>2, <1>3, NoFiles DEF FilesOf
  <2>2. CASE r = root
    <3> SUFFICES ASSUME NEW f \in FilesOf(root)' PROVE Present(f)'
      BY <2>2
    <3>1. f \in Listed(rank'[root].groups)
      BY DEF FilesOf
    <3>2. Whole(f)'
      BY <3>1
    <3> QED BY <3>2 DEF Present, Whole
  <2> QED BY <2>1, <2>2
<1>8. LastWritten'
  BY DEF LastWritten
<1>9. session'.length <= no_files(h[Len(script')])
  BY <1>1
<1> QED BY <1>1, <1>5, <1>6, <1>7, <1>8, <1>9 DEF State

LEMMA ExistsStep ==
  ASSUME Inv, NEW r \in Ranks, exists(r)
  PROVE  Inv'
<1>1. Ranked /\ OnDisk /\ Ranks' = Ranks /\ no_ranks' = no_ranks /\ root \in Ranks
  BY RootIsRank DEF Inv, exists, Ranks
<1>2. PICK result, got :
        /\ result = root_do(r, session.exists)
        /\ got = [rank EXCEPT ![r].results = Append(@, result)]
        /\ rank' = IF result # (mode = "restart") THEN [q \in Ranks |-> [got[q] EXCEPT !.at = "down"]]
                   ELSE [got EXCEPT ![r].at = IF mode = "restart" THEN "read" ELSE "ready"]
  BY DEF exists
<1>3. /\ DOMAIN got = Ranks
      /\ \A q \in Ranks : DOMAIN got[q] = Fields
      /\ got[r] = [rank[r] EXCEPT !.results = Append(@, result)]
      /\ \A q \in Ranks \ {r} : got[q] = rank[q]
  BY <1>1, <1>2 DEF Ranked, Fields
<1>4. CASE result # (mode = "restart")
  <2>1. rank' = [q \in Ranks |-> [got[q] EXCEPT !.at = "down"]]
    BY <1>2, <1>4
  <2>2. DOMAIN rank' = Ranks
    BY <2>1
  <2>3. \A q \in Ranks : rank'[q].at = "down" /\ DOMAIN rank'[q] = Fields
    BY <2>1, <1>3 DEF Fields
  <2> QED BY <2>2, <2>3, EndStep DEF exists
<1>5. CASE result = (mode = "restart")
  <2>1. rank' = [got EXCEPT ![r].at = IF mode = "restart" THEN "read" ELSE "ready"]
    BY <1>2, <1>5
  <2>2. /\ DOMAIN rank' = Ranks /\ DOMAIN rank'[r] = Fields
        /\ rank'[r].at = IF mode = "restart" THEN "read" ELSE "ready"
        /\ rank'[r].groups = <<>> /\ rank'[r].position = 0
        /\ \A q \in Ranks \ {r} : rank'[q] = rank[q]
    <3>1. rank[r].groups = <<>> /\ rank[r].position = 0 /\ DOMAIN rank[r] = Fields
      BY <1>1 DEF exists, Ranked
    <3> QED BY <2>1, <1>3, <3>1 DEF Fields
  <2>3. OnDisk'
    BY DiskKept, <1>1 DEF exists
  <2>4. rank[r].at = "exists"
    BY DEF exists
  <2>5. CASE mode = "restart"
    <3>1. r = root /\ no_ranks = 1 /\ Ranks = {root}
      BY <2>5, <1>1, RootIsRank DEF Ranked
    <3>2. ~Going'
      BY <3>1, <2>2, <2>5 DEF Going, Working
    <3>3. Ranked'
      BY <1>1, <2>2, <2>4, <2>5, <3>1, <3>2 DEF Ranked, exists
    <3> QED BY <2>3, <3>2, <3>3 DEF Inv
  <2>6. CASE mode # "restart" /\ r = root
    <3>1. ~session.exists
      BY <2>6, <1>2, <1>5, <1>1 DEF root_do, OnDisk
    <3>2. saved = {} /\ ~session.whole /\ session.length = 0
      BY <3>1, <1>1 DEF OnDisk
    <3>3. Going' /\ ~Going
      BY <2>2, <2>4, <2>6 DEF Going, Working
    <3>4. script = <<>> /\ script' = <<>>
      BY <1>1, <2>4, <2>6 DEF Ranked, exists
    <3>5. no_ranks # 1 => broadcasts' = <<FALSE>>
      <4> HAVE no_ranks # 1
      <4>1. broadcasts = <<>>
        BY <1>1, <2>4, <2>6, <3>3 DEF Ranked
      <4>2. session.exists = FALSE
        BY <3>1, <1>1 DEF OnDisk
      <4>3. broadcasts' = broadcasts \o <<session.exists>>
        BY <2>6 DEF exists, Send
      <4>4. <<>> \o <<FALSE>> = <<FALSE>>
        OBVIOUS
      <4> QED BY <4>1, <4>2, <4>3, <4>4
    <3>6. Ranked'
      <4>1. \A q \in Ranks \ {root} : rank'[q].at = "exists" /\ rank'[q].results = <<>>
        BY <1>1, <2>2, <2>4, <2>6, RootIsRank DEF Ranked, Going, Working
      <4>2. \A q \in Ranks :
               /\ DOMAIN rank'[q] = Fields
               /\ rank'[q].at \in Working \cup {"down", "remove", "exists", "read"}
               /\ rank'[q].at \in {"remove", "exists", "read"} =>
                    rank'[q].groups = <<>> /\ rank'[q].position = 0
               /\ rank'[q].at # "down" /\ rank'[root].at # "down"
               /\ rank'[q].at \notin {"remove", "read"}
               /\ q # root /\ rank'[q].at = "exists" => rank'[q].results = <<>>
        <5> TAKE q \in Ranks
        <5>1. CASE q = root
          BY <5>1, <2>2, <2>6 DEF Working
        <5>2. CASE q # root
          BY <5>2, <1>1, <2>2, <2>6, <4>1 DEF Ranked
        <5> QED BY <5>1, <5>2
      <4>3. no_ranks # 1 => mode' = "create"
        BY <1>1 DEF Ranked, exists
      <4>4. rank'[root].at = "ready"
        BY <2>2, <2>6
      <4>5. no_ranks # 1 => broadcasts' = IF Going' THEN <<FALSE>> ELSE <<>>
        BY <3>3, <3>5
      <4>6. no_ranks' \in Nat \ {0}
        BY <1>1 DEF Ranked
      <4> QED BY <1>1, <2>2, <3>3, <3>4, <4>2, <4>3, <4>4, <4>5, <4>6 DEF Ranked, Working
    <3>7. no_files(<<>>) \in Nat
      BY FilesCounted, NoFiles
    <3>8. \E h : State(h)'
      BY <1>1, <2>2, <2>3, <2>4, <2>6, <3>2, <3>4, <3>6, <3>7, NoFiles, RootStarts DEF exists
    <3> QED BY <2>3, <3>6, <3>8 DEF Inv
  <2>7. CASE mode # "restart" /\ r # root
    <3>1. no_ranks # 1 /\ mode = "create" /\ rank[root].at # "down"
      BY <1>1, <2>4, <2>7, RootIsRank DEF Ranked
    <3>2. Going /\ broadcasts = <<FALSE>> /\ broadcasts' = <<FALSE>>
      <4>1. Len(rank[r].results) = 0
        BY <1>1, <2>4, <2>7 DEF Ranked
      <4>2. broadcasts # <<>>
        BY <4>1, <2>7 DEF exists, Arrived
      <4> QED BY <4>2, <3>1, <1>1, <2>7 DEF Ranked, exists, Send
    <3>3. rank'[root] = rank[root] /\ rank'[r].at = "ready" /\ Going'
      BY <2>2, <2>7, <1>1, <3>2 DEF Going
    <3>4. Ranked'
      <4>1. \A q \in Ranks :
               /\ DOMAIN rank'[q] = Fields
               /\ rank'[q].at \in Working \cup {"down", "remove", "exists", "read"}
               /\ rank'[q].at \in {"remove", "exists", "read"} =>
                    rank'[q].groups = <<>> /\ rank'[q].position = 0
               /\ rank'[q].at # "down" /\ rank'[root].at # "down"
               /\ rank'[q].at \notin {"remove", "read"}
               /\ q # root /\ rank'[q].at = "exists" => rank'[q].results = <<>>
        <5> TAKE q \in Ranks
        <5>1. CASE q = r
          BY <5>1, <2>2, <2>7, <3>3, <3>1 DEF Working
        <5>2. CASE q # r
          BY <5>2, <1>1, <2>2, <3>1, <3>3 DEF Ranked
        <5> QED BY <5>1, <5>2
      <4>2. mode' = "create" /\ rank'[root].at \in Working
        BY <3>1, <3>3 DEF exists, Going
      <4> QED BY <1>1, <2>2, <3>1, <3>2, <3>3, <4>1, <4>2 DEF Ranked, Working
    <3>5. PICK h : State(h)
      BY <3>2 DEF Inv
    <3>6. h[0] = <<>> /\ Len(script) \in Nat
      BY <3>1, <3>5 DEF State, History
    <3>7. RankAt(h, r)'
      BY <2>2, <3>3, <3>6 DEF RankAt, Writing, exists
    <3>8. \A q \in Ranks \ {r} : RankAt(h, q) => RankAt(h, q)'
      BY <2>2 DEF RankAt, exists
    <3>9. saved = {}
      <4>1. saved \subseteq Listed(rank[r].groups)
        BY <3>5 DEF State
      <4> QED BY <4>1, <1>1, <2>4, NoFiles DEF Ranked
    <3>10. State(h)'
      <4>1. History(h)'
        BY <3>5 DEF State, History, exists
      <4>2. \A q \in Ranks : \/ rank'[q].at = "exists" /\ q # root
                             \/ rank'[q].at \in Working /\ RankAt(h, q)'
        BY <2>2, <3>3, <3>5, <3>7, <3>8 DEF State, Working
      <4>3. session'.whole => \E q \in Ranks' : Extends(session'.groups, rank'[q].groups)
        <5>1. rank'[r].groups = rank[r].groups
          BY <2>2, <2>4, <1>1 DEF Ranked
        <5> QED BY <1>1, <5>1, <2>2, <3>5 DEF State, exists
      <4>4. \A q \in Ranks' : \A f \in FilesOf(q)' : Present(f)'
        <5>1. FilesOf(r)' = {}
          BY <2>2, <3>3, NoFiles DEF FilesOf
        <5>2. \A q \in Ranks \ {r} : FilesOf(q)' = FilesOf(q)
          BY <2>2 DEF FilesOf
        <5>3. \A f : Present(f) => Present(f)'
          BY <1>1, <2>2, <2>4 DEF Present, Whole, exists
        <5> QED BY <1>1, <5>1, <5>2, <5>3, <3>5 DEF State
      <4>5. LastWritten'
        <5> SUFFICES ASSUME script' # <<>>,
                            \A q \in Ranks' : rank'[q].position = Len(script')
                     PROVE  FALSE
          BY DEF LastWritten
        <5>1. Len(script') = 0 /\ script' \in Seq(Items)
          BY <1>1, <2>2, <3>5 DEF State, History, exists
        <5> QED BY <5>1
      <4> QED BY <1>1, <3>5, <3>6, <3>9, <4>1, <4>2, <4>3, <4>4, <4>5 DEF State, exists
    <3> QED BY <2>3, <3>4, <3>10 DEF Inv
  <2> QED BY <2>5, <2>6, <2>7
<1> QED BY <1>4, <1>5

LEMMA ReadWholeStep ==
  ASSUME Inv, NEW r \in Ranks, read_whole(r)
  PROVE  Inv'
<1>1. Ranked /\ OnDisk /\ Ranks' = Ranks /\ no_ranks' = no_ranks
  BY DEF Inv, read_whole, Ranks
<1>2. no_ranks = 1 /\ r = root /\ Ranks = {root} /\ rank[root].at = "read"
        /\ root \in Ranks
  BY <1>1, RootIsRank DEF read_whole, Ranked
<1>3. CASE ~(root_do(r, session.exists) /\ session.whole)
  <2>1. rank' = Terminated
    BY <1>3 DEF read_whole
  <2> QED BY <2>1, <1>1, TerminatedDown, EndStep DEF read_whole
<1>4. CASE root_do(r, session.exists) /\ session.whole
  <2>1. rank' = [rank EXCEPT ![r].at = "ready", ![r].groups = session.groups,
                             ![r].results = Append(@, TRUE)]
    BY <1>4 DEF read_whole
  <2>2. /\ DOMAIN rank' = Ranks /\ DOMAIN rank'[root] = Fields
        /\ rank'[root].at = "ready" /\ rank'[root].groups = session.groups
        /\ rank'[root].position = 0
    BY <2>1, <1>1, <1>2 DEF Ranked, Fields
  <2>3. OnDisk'
    BY DiskKept, <1>1 DEF read_whole
  <2>4. Going' /\ script = <<>> /\ script' = <<>>
    BY <2>2, <1>1, <1>2 DEF Going, Working, read_whole, Ranked
  <2>5. Ranked'
    BY <1>1, <1>2, <2>2, <2>4 DEF Ranked, read_whole, Working
  <2>6. /\ Good(session.groups)
        /\ session.length = no_files(session.groups)
        /\ saved \subseteq Listed(session.groups)
        /\ \A f \in Listed(session.groups) : Whole(f)
    BY <1>1, <1>2, <1>4 DEF OnDisk
  <2>7. \A f : Whole(f) => Whole(f)'
    BY DEF Whole, read_whole
  <2>8. session.length \in Nat /\ no_files(session.groups) \in Nat
    BY <1>1, <2>6, FilesCounted DEF OnDisk
  <2>9. \E h : State(h)'
    BY <1>1, <1>2, <2>2, <2>3, <2>4, <2>5, <2>6, <2>7, <2>8, RootStarts DEF read_whole
  <2> QED BY <2>3, <2>5, <2>9 DEF Inv
<1> QED BY <1>3, <1>4

-----------------------------------------------------------------------------
(* Operations. *)

(* The history k is h, with the listings of what the script has got. *)
Grown(h, k) ==
  /\ Len(script') \in Nat /\ Len(script) <= Len(script')
  /\ \A i \in 1 .. Len(script) : script'[i] = script[i]
  /\ \A i \in 0 .. Len(script) : k[i] = h[i]

(* What a rank does next is in the script, or becomes its last item. *)
LEMMA HistoryGrows ==
  ASSUME NEW h, History(h), NEW r \in Ranks, NEW what \in Items, Does(r, what),
         NEW p \in 0 .. Len(script), rank[r].position = p,
         Good(Effect(h[p], what)), Extends(h[p], Effect(h[p], what))
  PROVE  \E k : /\ History(k)' /\ Grown(h, k)
                /\ p < Len(script') /\ script'[p + 1] = what
                /\ k[p + 1] = Effect(h[p], what)
<1>1. PICK n : n = Len(script)
  OBVIOUS
<1>2. n \in Nat /\ script \in Seq(Items) /\ p \in 0 .. n /\ n = Len(script)
  BY <1>1 DEF History
<1>3. CASE rank[r].position < Len(script) /\ script[rank[r].position + 1] = what
             /\ UNCHANGED script
  <2>1. p < n /\ script[p + 1] = what /\ script' = script /\ p + 1 \in 1 .. n
          /\ p + 1 - 1 = p
    BY <1>1, <1>2, <1>3
  <2>2. h[p + 1] = Effect(h[p], what)
    <3>1. PICK i : i = p + 1
      OBVIOUS
    <3>2. h[i] = Effect(h[i - 1], script[i]) /\ i - 1 = p
      BY <2>1, <3>1, <1>1 DEF History
    <3> QED BY <2>1, <3>1, <3>2
  <2>3. History(h)' /\ Grown(h, h)
    BY <2>1, <1>1, <1>2 DEF History, Grown
  <2> QED BY <2>1, <2>2, <2>3, <1>1
<1>4. CASE rank[r].position = Len(script) /\ script' = Append(script, what)
  <2>1. PICK k : k = [i \in 0 .. n + 1 |-> IF i = n + 1 THEN Effect(h[p], what) ELSE h[i]]
    OBVIOUS
  <2>2. /\ script' \in Seq(Items) /\ Len(script') = n + 1
        /\ script'[n + 1] = what
        /\ \A i \in 1 .. n : script'[i] = script[i]
        /\ p = n
    BY <1>2, <1>4
  <2>3. /\ k[n + 1] = Effect(h[p], what)
        /\ \A i \in 0 .. n : k[i] = h[i]
    BY <2>1, <1>2
  <2>4. \A i \in 0 .. n + 1 : i \in 0 .. n \/ i = n + 1
    BY <1>2
  <2>5. \A i \in 0 .. n + 1 : Good(k[i])
    BY <2>3, <2>4, <1>2 DEF History
  <2>6. ASSUME NEW i \in 1 .. n + 1 PROVE k[i] = Effect(k[i - 1], script'[i])
    <3>1. CASE i = n + 1
      <4>1. i - 1 = n /\ n \in 0 .. n
        BY <3>1, <1>2
      <4> QED BY <3>1, <4>1, <2>2, <2>3
    <3>2. CASE i # n + 1
      <4>1. i \in 1 .. n /\ i \in 0 .. n /\ i - 1 \in 0 .. n
        BY <3>2, <1>2
      <4>2. h[i] = Effect(h[i - 1], script[i])
        BY <4>1, <1>1 DEF History
      <4> QED BY <4>1, <4>2, <2>2, <2>3
    <3> QED BY <3>1, <3>2
  <2>7. ASSUME NEW i \in 0 .. n + 1, NEW j \in 0 .. n + 1, i <= j
        PROVE  Extends(k[i], k[j])
    <3>1. CASE j # n + 1
      <4>1. i \in 0 .. n /\ j \in 0 .. n
        BY <3>1, <2>7, <1>2
      <4> QED BY <4>1, <2>3, <2>7, <1>1 DEF History
    <3>2. CASE i = n + 1 /\ j = n + 1
      BY <3>2, <2>5, ExtendsOrder DEF Good
    <3>3. CASE i # n + 1 /\ j = n + 1
      <4>1. i \in 0 .. n /\ n \in 0 .. n /\ i <= n
        BY <3>3, <1>2
      <4>2. Extends(h[i], h[n]) /\ Good(h[i]) /\ Good(h[n])
        BY <4>1, <1>1 DEF History
      <4>3. Extends(h[n], k[j]) /\ Good(k[j])
        BY <3>3, <2>2, <2>3
      <4> QED BY <4>1, <4>2, <4>3, <2>3, ExtendsOrder DEF Good
    <3> QED BY <3>1, <3>2, <3>3
  <2>8. History(k)'
    BY <2>2, <2>5, <2>6, <2>7 DEF History
  <2>9. Grown(h, k)
    BY <2>2, <2>3, <1>1, <1>2 DEF Grown
  <2> QED BY <2>2, <2>3, <2>8, <2>9, <1>2
<1> QED BY <1>3, <1>4 DEF Does

(* The ranks that do not move stay where they are in the history. *)
LEMMA SameRank ==
  ASSUME NEW h, NEW k, NEW q, History(h), Grown(h, k), RankAt(h, q),
         rank'[q] = rank[q]
  PROVE  RankAt(k, q)'
<1>1. PICK p \in 0 .. Len(script) :
    /\ rank[q].position = p
    /\ rank[q].at \in {"ready", "data", "push"} => rank[q].groups = h[p]
    /\ rank[q].at = "save" => rank[q].groups = h[p + 1]
    /\ rank[q].at \in Writing =>
         /\ p < Len(script)
         /\ rank[q].file.group \in DOMAIN h[p]
         /\ script[p + 1] = <<"write", rank[q].file.group>>
         /\ rank[q].file = NextFile(h[p], rank[q].file.group)
         /\ Listed(h[p + 1]) = Listed(h[p]) \cup {rank[q].file}
         /\ \A f \in Listed(h[p]) : ~(f.group = rank[q].file.group
                                        /\ f.index = rank[q].file.index)
  BY DEF RankAt
<1>2. Len(script) \in Nat /\ Len(script') \in Nat /\ Len(script) <= Len(script')
  BY DEF History, Grown
<1>3. p \in 0 .. Len(script') /\ k[p] = h[p]
  BY <1>2 DEF Grown
<1>4. rank[q].at \in Writing =>
        p < Len(script') /\ k[p + 1] = h[p + 1] /\ script'[p + 1] = script[p + 1]
  <2> HAVE rank[q].at \in Writing
  <2>1. p + 1 \in 0 .. Len(script) /\ p + 1 \in 1 .. Len(script) /\ p < Len(script')
    BY <1>1, <1>2
  <2> QED BY <2>1 DEF Grown
<1> QED BY <1>1, <1>3, <1>4 DEF RankAt, Writing

(* When one rank goes on, the others stay. *)
LEMMA RanksMove ==
  ASSUME Ranked, Going, NEW h, NEW k, State(h), History(k)', Grown(h, k),
         NEW r \in Ranks, rank[r].at \in Working, rank'[r].at \in Working,
         RankAt(k, r)',
         DOMAIN rank' = Ranks, DOMAIN rank'[r] = Fields,
         \A q \in Ranks \ {r} : rank'[q] = rank[q],
         UNCHANGED <<no_ranks, mode, broadcasts>>
  PROVE  /\ Ranked' /\ Going' /\ Ranks' = Ranks
         /\ no_ranks' # 1 => k[0] = <<>>
         /\ \A q \in Ranks' : \/ rank'[q].at = "exists" /\ q # root
                              \/ rank'[q].at \in Working /\ RankAt(k, q)'
<1>1. root \in Ranks /\ Ranks' = Ranks
  BY RootIsRank DEF Ranks
<1>2. Going' /\ rank'[root].at \in Working
  <2>1. CASE r = root
    BY <2>1 DEF Going
  <2>2. CASE r # root
    BY <2>2, <1>1 DEF Going
  <2> QED BY <2>1, <2>2
<1>3. \A q \in Ranks :
        /\ DOMAIN rank'[q] = Fields
        /\ rank'[q].at \in Working \cup {"exists"}
        /\ rank'[q].at = "exists" => rank'[q].groups = <<>> /\ rank'[q].position = 0
        /\ q # root /\ rank'[q].at = "exists" => rank'[q].results = <<>>
  <2> TAKE q \in Ranks
  <2>1. CASE q = r
    BY <2>1 DEF Working
  <2>2. CASE q # r
    BY <2>2 DEF Ranked, State
  <2> QED BY <2>1, <2>2
<1>4. Ranked'
  BY <1>1, <1>2, <1>3 DEF Ranked, Working, Going
<1>5. no_ranks' # 1 => k[0] = <<>>
  <2>1. Len(script) \in Nat /\ 0 \in 0 .. Len(script)
    BY DEF State, History
  <2> QED BY <2>1 DEF State, Grown
<1>6. \A q \in Ranks : \/ rank'[q].at = "exists" /\ q # root
                       \/ rank'[q].at \in Working /\ RankAt(k, q)'
  <2> TAKE q \in Ranks
  <2>1. CASE q = r
    BY <2>1
  <2>2. CASE q # r
    <3>1. rank'[q] = rank[q] /\ History(h)
      BY <2>2 DEF State
    <3> QED BY <3>1, SameRank DEF State
  <2> QED BY <2>1, <2>2
<1> QED BY <1>1, <1>2, <1>4, <1>5, <1>6

(* What a rank lists, the last listing lists. *)
LEMMA FilesListed ==
  ASSUME NEW h, History(h), NEW q, rank[q].at \in Working, RankAt(h, q)
  PROVE  /\ Good(rank[q].groups)
         /\ Good(h[Len(script)])
         /\ FilesOf(q) \subseteq Listed(h[Len(script)])
         /\ rank[q].at \in Writing => rank[q].file \in Listed(h[Len(script)])
         /\ Extends(rank[q].groups, h[Len(script)])
<1>1. PICK p \in 0 .. Len(script) :
    /\ rank[q].position = p
    /\ rank[q].at \in {"ready", "data", "push"} => rank[q].groups = h[p]
    /\ rank[q].at = "save" => rank[q].groups = h[p + 1]
    /\ rank[q].at \in Writing =>
         /\ p < Len(script)
         /\ Listed(h[p + 1]) = Listed(h[p]) \cup {rank[q].file}
  BY DEF RankAt
<1>2. PICK n : n = Len(script)
  OBVIOUS
<1>3. n \in Nat /\ n \in 0 .. n /\ p \in 0 .. n /\ p <= n
  BY <1>2 DEF History
<1>4. rank[q].at \in Writing => p + 1 \in 0 .. n /\ p + 1 <= n
  BY <1>1, <1>2, <1>3
<1>5. \A i \in 0 .. n : Good(h[i]) /\ Extends(h[i], h[n])
  BY <1>2, <1>3 DEF History
<1>6. \A i \in 0 .. n : Listed(h[i]) \subseteq Listed(h[n])
  BY <1>3, <1>5, ExtendsListed DEF Good
<1>7. rank[q].at \in {"ready", "data", "push"} \/ rank[q].at = "save"
  BY DEF Working
<1>8. Good(rank[q].groups) /\ Extends(rank[q].groups, h[n])
        /\ Listed(rank[q].groups) \subseteq Listed(h[n])
  BY <1>1, <1>3, <1>4, <1>5, <1>6, <1>7 DEF Writing
<1>9. rank[q].at \in Writing => rank[q].file \in Listed(h[n])
  BY <1>1, <1>4, <1>6
<1> QED BY <1>2, <1>3, <1>5, <1>8, <1>9 DEF FilesOf, Writing

(* The last listing has the files that the last one had before. *)
LEMMA LastListing ==
  ASSUME NEW h, NEW k, History(h), History(k)', Grown(h, k)
  PROVE  /\ Good(h[Len(script)]) /\ Good(k[Len(script')])
         /\ Listed(h[Len(script)]) \subseteq Listed(k[Len(script')])
         /\ no_files(h[Len(script)]) \in Nat /\ no_files(k[Len(script')]) \in Nat
         /\ no_files(h[Len(script)]) <= no_files(k[Len(script')])
<1>1. PICK n, m : n = Len(script) /\ m = Len(script')
  OBVIOUS
<1>2. n \in Nat /\ m \in Nat /\ n <= m /\ n \in 0 .. n /\ n \in 0 .. m /\ m \in 0 .. m
  BY <1>1 DEF History, Grown
<1>3. k[n] = h[n] /\ Good(k[n]) /\ Good(k[m]) /\ Extends(k[n], k[m])
  BY <1>1, <1>2 DEF History, Grown
<1> QED BY <1>1, <1>3, ExtendsListed DEF Good

(* As long as the session file stays, its listing is one of some rank. *)
LEMMA SessionStays ==
  ASSUME Ranked, OnDisk, NEW h, NEW k, State(h), History(k)', Grown(h, k),
         NEW r \in Ranks, rank[r].at \in Working, rank'[r].at \in Working,
         RankAt(k, r)', Extends(rank[r].groups, rank'[r].groups),
         \A q \in Ranks \ {r} : rank'[q] = rank[q],
         UNCHANGED <<no_ranks, session, saved>>
  PROVE  /\ \A q \in Ranks' : saved' \subseteq Listed(rank'[q].groups)
         /\ session'.whole => \E q \in Ranks' : Extends(session'.groups, rank'[q].groups)
         /\ session'.length <= no_files(k[Len(script')])
<1>1. Ranks' = Ranks /\ RankAt(h, r)
  BY DEF Ranks, State, Working
<1>2. Good(rank[r].groups)
  BY <1>1, FilesListed DEF State
<1>3. Good(rank'[r].groups)
  <2>1. PICK p \in 0 .. Len(script') :
          /\ rank'[r].at \in {"ready", "data", "push"} => rank'[r].groups = k[p]
          /\ rank'[r].at = "save" => rank'[r].groups = k[p + 1]
          /\ rank'[r].at \in Writing => p < Len(script')
    BY DEF RankAt
  <2>2. Len(script') \in Nat
    BY DEF Grown
  <2>3. rank'[r].at = "save" => p + 1 \in 0 .. Len(script')
    BY <2>1, <2>2 DEF Writing
  <2> QED BY <2>1, <2>3 DEF History, Working
<1>4. Listed(rank[r].groups) \subseteq Listed(rank'[r].groups)
  BY <1>2, <1>3, ExtendsListed DEF Good
<1>5. \A q \in Ranks : saved \subseteq Listed(rank'[q].groups)
  <2> TAKE q \in Ranks
  <2>1. saved \subseteq Listed(rank[q].groups)
    BY DEF State
  <2> QED BY <2>1, <1>4
<1>6. session.whole => \E q \in Ranks : Extends(session.groups, rank'[q].groups)
  <2> HAVE session.whole
  <2>1. PICK q \in Ranks : Extends(session.groups, rank[q].groups)
    BY DEF State
  <2>2. CASE q # r
    BY <2>1, <2>2
  <2>3. CASE q = r
    <3>1. Good(session.groups)
      BY DEF OnDisk
    <3> QED BY <2>1, <2>3, <3>1, <1>2, <1>3, ExtendsOrder DEF Good
  <2> QED BY <2>2, <2>3
<1>7. session.length <= no_files(k[Len(script')])
  <2>1. session.length \in Nat /\ session.length <= no_files(h[Len(script)])
    BY DEF State, OnDisk
  <2>2. /\ no_files(h[Len(script)]) \in Nat /\ no_files(k[Len(script')]) \in Nat
        /\ no_files(h[Len(script)]) <= no_files(k[Len(script')])
    BY LastListing DEF State
  <2> QED BY <2>1, <2>2
<1> QED BY <1>1, <1>5, <1>6, <1>7

(* What the rank does next, in terms of the listing it has. *)
LEMMA AtReady ==
  ASSUME Inv, NEW r \in Ranks, rank[r].at = "ready"
  PROVE  /\ Ranked /\ OnDisk /\ Going /\ Ranks' = (0 .. no_ranks' - 1)
         /\ DOMAIN rank = Ranks /\ DOMAIN rank[r] = Fields
         /\ \E h : /\ State(h) /\ History(h) /\ RankAt(h, r)
                   /\ rank[r].position \in 0 .. Len(script)
                   /\ rank[r].groups = h[rank[r].position]
                   /\ Good(rank[r].groups)
<1>1. Ranked /\ OnDisk
  BY DEF Inv
<1>2. Going
  BY <1>1 DEF Ranked, Going, Working
<1>3. PICK h : State(h)
  BY <1>2 DEF Inv
<1>4. History(h) /\ RankAt(h, r)
  BY <1>3 DEF State
<1>5. rank[r].position \in 0 .. Len(script) /\ rank[r].groups = h[rank[r].position]
  BY <1>4 DEF RankAt
<1>6. Good(rank[r].groups)
  BY <1>4, <1>5 DEF History
<1> QED BY <1>1, <1>2, <1>3, <1>4, <1>5, <1>6 DEF Ranked, Ranks

LEMMA PushGroupStep ==
  ASSUME Inv, NEW r \in Ranks, NEW g \in Group, push_group(r, g)
  PROVE  Inv'
<1>1. rank[r].at = "ready" /\ Does(r, <<"register", g>>)
        /\ g \notin DOMAIN rank[r].groups
        /\ Dependency[g] \in DOMAIN rank[r].groups \cup {NoGroup}
  BY DEF push_group, Does
<1>2. Ranked /\ OnDisk /\ Going /\ DOMAIN rank = Ranks /\ DOMAIN rank[r] = Fields
  BY <1>1, AtReady
<1>3. PICK h : /\ State(h) /\ History(h) /\ RankAt(h, r)
               /\ rank[r].position \in 0 .. Len(script)
               /\ rank[r].groups = h[rank[r].position]
               /\ Good(rank[r].groups)
  BY <1>1, AtReady
<1>4. PICK p, gs, what : /\ p = rank[r].position /\ gs = rank[r].groups
                         /\ what = <<"register", g>>
  OBVIOUS
<1>5. /\ p \in 0 .. Len(script) /\ gs = h[p] /\ Good(gs)
      /\ what \in Items /\ Effect(gs, what) = Registered(gs, g)
  BY <1>3, <1>4 DEF Items, Effect
<1>6. /\ Good(Registered(gs, g)) /\ Extends(gs, Registered(gs, g))
      /\ Listed(Registered(gs, g)) = Listed(gs)
  BY <1>1, <1>4, <1>5, RegisterFiles
<1>7. PICK k : /\ History(k)' /\ Grown(h, k)
               /\ p < Len(script') /\ script'[p + 1] = what
               /\ k[p + 1] = Effect(gs, what)
  BY <1>1, <1>3, <1>4, <1>5, <1>6, HistoryGrows
<1>8. /\ rank'[r].at = "ready" /\ rank'[r].position = p + 1
      /\ rank'[r].groups = k[p + 1] /\ k[p + 1] = Registered(gs, g)
      /\ DOMAIN rank' = Ranks /\ DOMAIN rank'[r] = Fields
      /\ \A q \in Ranks \ {r} : rank'[q] = rank[q]
      /\ UNCHANGED <<no_ranks, session, data, mode, broadcasts, saved>>
  BY <1>1, <1>2, <1>4, <1>5, <1>7 DEF push_group, Registered, Fields
<1>9. RankAt(k, r)'
  <2>1. p + 1 \in 0 .. Len(script')
    BY <1>5, <1>7 DEF Grown, History
  <2> QED BY <2>1, <1>8 DEF RankAt, Writing
<1>10. /\ Ranked' /\ Going' /\ Ranks' = Ranks
       /\ no_ranks' # 1 => k[0] = <<>>
       /\ \A q \in Ranks' : \/ rank'[q].at = "exists" /\ q # root
                            \/ rank'[q].at \in Working /\ RankAt(k, q)'
  BY <1>1, <1>2, <1>3, <1>7, <1>8, <1>9, RanksMove DEF Working
<1>11. /\ \A q \in Ranks' : saved' \subseteq Listed(rank'[q].groups)
       /\ session'.whole => \E q \in Ranks' : Extends(session'.groups, rank'[q].groups)
       /\ session'.length <= no_files(k[Len(script')])
  <2>1. Extends(rank[r].groups, rank'[r].groups)
    BY <1>4, <1>6, <1>8
  <2> QED BY <2>1, <1>1, <1>2, <1>3, <1>7, <1>8, <1>9, SessionStays DEF Working
<1>12. \A q \in Ranks' : \A f \in FilesOf(q)' : Present(f)'
  <2>1. \A q \in Ranks : FilesOf(q)' = FilesOf(q)
    BY <1>1, <1>4, <1>6, <1>8 DEF FilesOf
  <2>2. \A f : Present(f) => Present(f)'
    BY <1>1, <1>8, <1>10 DEF Present, Whole
  <2> QED BY <2>1, <2>2, <1>3, <1>10 DEF State
<1>13. LastWritten'
  <2> SUFFICES ASSUME script'[Len(script')][1] = "write",
                      \A q \in Ranks' : rank'[q].position = Len(script')
               PROVE  FALSE
    BY DEF LastWritten
  <2>1. p + 1 = Len(script')
    BY <1>8, <1>10
  <2> QED BY <2>1, <1>4, <1>7
<1>14. OnDisk'
  BY <1>2, <1>8, DiskKept
<1>15. State(k)'
  BY <1>7, <1>10, <1>11, <1>12, <1>13 DEF State
<1> QED BY <1>10, <1>14, <1>15 DEF Inv

(* The files in use are those of the last listing, and its paths differ. *)
LEMMA FilesDiffer ==
  ASSUME NEW gs, IsListing(gs), NEW e \in Listed(gs), NEW f \in Listed(gs),
         FilePath(e) = FilePath(f)
  PROVE  e = f
<1>1. e.group = f.group /\ e.index = f.index
  BY DEF FilePath
<1> QED BY <1>1, ListedOnce

(* A session file of one rank keeps whole files while another is written. *)
LEMMA DiskWritten ==
  ASSUME OnDisk, Ranked, NEW h, State(h), NEW r \in Ranks, rank[r].at \in Working,
         NEW path, \A f \in Listed(rank[r].groups) : FilePath(f) # path,
         NEW value, data' = With(data, path, value),
         UNCHANGED <<no_ranks, session, saved>>
  PROVE  OnDisk'
<1>1. ASSUME no_ranks = 1, session.whole, NEW f \in Listed(session.groups)
      PROVE  Whole(f)'
  <2>1. PICK q \in Ranks : Extends(session.groups, rank[q].groups)
    BY <1>1 DEF State
  <2>2. q = r
    BY <1>1, <2>1, RootIsRank
  <2>3. Good(rank[r].groups)
    BY FilesListed DEF State, Working
  <2>4. f \in Listed(rank[r].groups)
    BY <1>1, <2>1, <2>2, <2>3, ExtendsListed DEF OnDisk, Good
  <2>5. FilePath(f) # path /\ Whole(f)
    BY <1>1, <2>4 DEF OnDisk
  <2> QED BY <2>5 DEF Whole, With, FilePath
<1> QED BY <1>1 DEF OnDisk

LEMMA WriteStep ==
  ASSUME Inv, NEW r \in Ranks, NEW g \in Group, write(r, g)
  PROVE  Inv'
<1>1. /\ rank[r].at = "ready" /\ Does(r, <<"write", g>>)
      /\ g \in DOMAIN rank[r].groups
      /\ Len(rank[r].groups[g]) < MaxFiles
      /\ Dependency[g] # NoGroup => rank[r].groups[Dependency[g]] # <<>>
  BY DEF write, Does, index
<1>2. Ranked /\ OnDisk /\ Going /\ DOMAIN rank = Ranks /\ DOMAIN rank[r] = Fields
  BY <1>1, AtReady
<1>3. PICK h : /\ State(h) /\ History(h) /\ RankAt(h, r)
               /\ rank[r].position \in 0 .. Len(script)
               /\ rank[r].groups = h[rank[r].position]
               /\ Good(rank[r].groups)
  BY <1>1, AtReady
<1>4. PICK p, gs, what, file :
        /\ p = rank[r].position /\ gs = rank[r].groups
        /\ what = <<"write", g>> /\ file = NextFile(gs, g)
  OBVIOUS
<1>5. /\ p \in 0 .. Len(script) /\ gs = h[p] /\ Good(gs)
      /\ what \in Items /\ Effect(gs, what) = Pushed(gs, file)
      /\ file.group = g
  BY <1>3, <1>4 DEF Items, Effect, NextFile
<1>6. /\ Good(Pushed(gs, file)) /\ Extends(gs, Pushed(gs, file))
      /\ Listed(Pushed(gs, file)) = Listed(gs) \cup {file}
      /\ \A f \in Listed(gs) : ~(f.group = g /\ f.index = file.index)
  BY <1>1, <1>4, <1>5, PushFile
<1>7. PICK k : /\ History(k)' /\ Grown(h, k)
               /\ p < Len(script') /\ script'[p + 1] = what
               /\ k[p + 1] = Effect(gs, what)
  BY <1>1, <1>3, <1>4, <1>5, <1>6, HistoryGrows
<1>8. /\ rank' = [rank EXCEPT ![r].at = "data", ![r].file = file]
      /\ data' = With(data, FilePath(file), [whole |-> FALSE])
  BY <1>4 DEF write, NextFile, FilePath, file_path, index, dependency_index
<1>9. /\ rank'[r].at = "data" /\ rank'[r].position = p
      /\ rank'[r].groups = gs /\ rank'[r].file = file
      /\ DOMAIN rank' = Ranks /\ DOMAIN rank'[r] = Fields
      /\ \A q \in Ranks \ {r} : rank'[q] = rank[q]
      /\ UNCHANGED <<no_ranks, session, mode, broadcasts, saved>>
  BY <1>2, <1>4, <1>8 DEF write, Fields
<1>10. k[p] = gs /\ p \in 0 .. Len(script') /\ p + 1 \in 0 .. Len(script')
  BY <1>5, <1>7 DEF Grown, History
<1>11. RankAt(k, r)'
  BY <1>1, <1>4, <1>5, <1>6, <1>7, <1>9, <1>10 DEF RankAt, Writing
<1>12. /\ Ranked' /\ Going' /\ Ranks' = Ranks
       /\ no_ranks' # 1 => k[0] = <<>>
       /\ \A q \in Ranks' : \/ rank'[q].at = "exists" /\ q # root
                            \/ rank'[q].at \in Working /\ RankAt(k, q)'
  BY <1>1, <1>2, <1>3, <1>7, <1>9, <1>11, RanksMove DEF Working
<1>13. /\ \A q \in Ranks' : saved' \subseteq Listed(rank'[q].groups)
       /\ session'.whole => \E q \in Ranks' : Extends(session'.groups, rank'[q].groups)
       /\ session'.length <= no_files(k[Len(script')])
  <2>1. Extends(rank[r].groups, rank'[r].groups)
    BY <1>4, <1>5, <1>9, ExtendsOrder DEF Good
  <2> QED BY <2>1, <1>1, <1>2, <1>3, <1>7, <1>9, <1>11, SessionStays DEF Working
<1>14. \A q \in Ranks' : \A f \in FilesOf(q)' : Present(f)'
  <2> SUFFICES ASSUME NEW q \in Ranks, NEW f \in FilesOf(q)'
               PROVE  Present(f)'
    BY <1>12
  <2>1. FilesOf(q)' = FilesOf(q)
    BY <1>1, <1>4, <1>9 DEF FilesOf
  <2>2. Present(f)
    BY <2>1, <1>3 DEF State
  <2>3. f \in Listed(k[Len(script')])
    <3>1. (rank[q].at \in Working /\ RankAt(h, q)) \/ FilesOf(q) = {}
      <4>1. CASE rank[q].at = "exists"
        BY <4>1, <1>2, NoFiles DEF FilesOf, Ranked
      <4>2. CASE rank[q].at # "exists"
        BY <4>2, <1>3 DEF State
      <4> QED BY <4>1, <4>2
    <3>2. f \in Listed(h[Len(script)])
      BY <3>1, <2>1, <1>3, FilesListed
    <3> QED BY <3>2, <1>3, <1>7, LastListing
  <2>4. file \in Listed(k[Len(script')])
    <3>1. PICK n : n = Len(script')
      OBVIOUS
    <3>2. n \in Nat /\ n \in 0 .. n /\ p + 1 \in 0 .. n /\ p + 1 <= n
      BY <3>1, <1>7, <1>10 DEF Grown
    <3>3. Good(k[p + 1]) /\ Good(k[n]) /\ Extends(k[p + 1], k[n])
      BY <3>1, <3>2, <1>7 DEF History
    <3>4. file \in Listed(k[p + 1])
      BY <1>5, <1>6, <1>7
    <3> QED BY <3>1, <3>3, <3>4, ExtendsListed DEF Good
  <2>5. IsListing(k[Len(script')])
    BY <1>3, <1>7, LastListing DEF Good
  <2>6. CASE f = file
    <3>1. FilePath(f) \in DOMAIN data'
      BY <2>6, <1>8 DEF With
    <3>2. r \in Ranks' /\ rank'[r].at = "data" /\ rank'[r].file = f
      BY <2>6, <1>9, <1>12
    <3> QED BY <3>1, <3>2 DEF Present, FilePath
  <2>7. CASE f # file
    <3>1. FilePath(f) # FilePath(file)
      BY <2>3, <2>4, <2>5, <2>7, FilesDiffer
    <3>2. FilePath(f) \in DOMAIN data' /\ data'[FilePath(f)] = data[FilePath(f)]
      BY <3>1, <2>2, <1>8 DEF Present, With
    <3>3. CASE Whole(f)
      BY <3>2, <3>3 DEF Present, Whole, FilePath
    <3>4. CASE \E x \in Ranks : rank[x].at = "data" /\ rank[x].file = f
      <4>1. PICK x \in Ranks : rank[x].at = "data" /\ rank[x].file = f
        BY <3>4
      <4>2. x \in Ranks' /\ rank'[x].at = "data" /\ rank'[x].file = f
        BY <4>1, <1>1, <1>9, <1>12
      <4> QED BY <4>2, <3>2 DEF Present, FilePath
    <3> QED BY <2>2, <3>3, <3>4 DEF Present
  <2> QED BY <2>6, <2>7
<1>15. LastWritten'
  <2>1. r \in Ranks' /\ rank'[r].at # "ready"
    BY <1>9, <1>12
  <2> QED BY <2>1 DEF LastWritten
<1>16. OnDisk'
  <2>1. \A f \in Listed(rank[r].groups) : FilePath(f) # FilePath(file)
    BY <1>4, <1>5, <1>6 DEF FilePath
  <2> QED BY <2>1, <1>1, <1>2, <1>3, <1>8, <1>9, DiskWritten DEF Working
<1>17. State(k)'
  BY <1>7, <1>12, <1>13, <1>14, <1>15 DEF State
<1> QED BY <1>12, <1>16, <1>17 DEF Inv

(* A rank that writes a file, and where that is in the history. *)
LEMMA AtWriting ==
  ASSUME Inv, NEW r \in Ranks, rank[r].at \in Writing
  PROVE  /\ Ranked /\ OnDisk /\ Going
         /\ DOMAIN rank = Ranks /\ DOMAIN rank[r] = Fields
         /\ \E h : \E p \in 0 .. Len(script) :
              /\ State(h) /\ History(h) /\ RankAt(h, r)
              /\ rank[r].position = p /\ p < Len(script)
              /\ p + 1 \in 0 .. Len(script)
              /\ rank[r].at \in {"data", "push"} => rank[r].groups = h[p]
              /\ rank[r].at = "save" => rank[r].groups = h[p + 1]
              /\ rank[r].file.group \in DOMAIN h[p]
              /\ script[p + 1] = <<"write", rank[r].file.group>>
              /\ rank[r].file = NextFile(h[p], rank[r].file.group)
              /\ Listed(h[p + 1]) = Listed(h[p]) \cup {rank[r].file}
              /\ \A f \in Listed(h[p]) : ~(f.group = rank[r].file.group
                                             /\ f.index = rank[r].file.index)
              /\ Good(h[p]) /\ Good(h[p + 1]) /\ Extends(h[p], h[p + 1])
              /\ h[p + 1] = Pushed(h[p], rank[r].file)
<1>1. Ranked /\ OnDisk
  BY DEF Inv
<1>2. Going
  BY <1>1 DEF Ranked, Going, Working, Writing
<1>3. PICK h : State(h)
  BY <1>2 DEF Inv
<1>4. History(h) /\ RankAt(h, r)
  BY <1>3 DEF State, Writing
<1>5. PICK p \in 0 .. Len(script) :
        /\ rank[r].position = p /\ p < Len(script)
        /\ rank[r].at \in {"data", "push"} => rank[r].groups = h[p]
        /\ rank[r].at = "save" => rank[r].groups = h[p + 1]
        /\ rank[r].file.group \in DOMAIN h[p]
        /\ script[p + 1] = <<"write", rank[r].file.group>>
        /\ rank[r].file = NextFile(h[p], rank[r].file.group)
        /\ Listed(h[p + 1]) = Listed(h[p]) \cup {rank[r].file}
        /\ \A f \in Listed(h[p]) : ~(f.group = rank[r].file.group
                                       /\ f.index = rank[r].file.index)
  BY <1>4 DEF RankAt
<1>6. /\ p + 1 \in 0 .. Len(script) /\ p + 1 \in 1 .. Len(script)
      /\ p + 1 - 1 = p /\ p <= p + 1
  BY <1>4, <1>5 DEF History
<1>7. Good(h[p]) /\ Good(h[p + 1]) /\ Extends(h[p], h[p + 1])
  BY <1>4, <1>5, <1>6 DEF History
<1>8. h[p + 1] = Pushed(h[p], rank[r].file)
  <2>1. PICK i : i = p + 1
    OBVIOUS
  <2>2. h[i] = Effect(h[i - 1], script[i]) /\ i - 1 = p
    BY <2>1, <1>4, <1>6 DEF History
  <2> QED BY <2>1, <2>2, <1>5 DEF Effect
<1> QED BY <1>1, <1>2, <1>3, <1>4, <1>5, <1>6, <1>7, <1>8 DEF Ranked

LEMMA WriteDataStep ==
  ASSUME Inv, NEW r \in Ranks, write_data(r)
  PROVE  Inv'
<1>1. rank[r].at = "data" /\ rank[r].at \in Writing
  BY DEF write_data, Writing
<1>2. Ranked /\ OnDisk /\ Going /\ DOMAIN rank = Ranks /\ DOMAIN rank[r] = Fields
  BY <1>1, AtWriting
<1>3. PICK h : \E p \in 0 .. Len(script) :
              /\ State(h) /\ History(h) /\ RankAt(h, r)
              /\ rank[r].position = p
              /\ rank[r].groups = h[p]
              /\ Good(rank[r].groups)
              /\ \A f \in Listed(h[p]) : ~(f.group = rank[r].file.group
                                             /\ f.index = rank[r].file.index)
  BY <1>1, AtWriting
<1>4. PICK file, value :
        /\ file = rank[r].file
        /\ value = [whole |-> TRUE, dependency |-> file.dependency, run |-> runs]
  OBVIOUS
<1>5. /\ rank' = [rank EXCEPT ![r].at = "push"]
      /\ data' = With(data, FilePath(file), value)
  BY <1>4 DEF write_data, FilePath, file_path
<1>6. /\ rank'[r].at = "push" /\ rank'[r].position = rank[r].position
      /\ rank'[r].groups = rank[r].groups /\ rank'[r].file = file
      /\ DOMAIN rank' = Ranks /\ DOMAIN rank'[r] = Fields
      /\ \A q \in Ranks \ {r} : rank'[q] = rank[q]
      /\ UNCHANGED <<no_ranks, session, mode, script, broadcasts, saved>>
  BY <1>2, <1>4, <1>5 DEF write_data, Fields
<1>7. History(h)' /\ Grown(h, h)
  BY <1>3, <1>6 DEF History, Grown
<1>8. RankAt(h, r)'
  BY <1>1, <1>3, <1>4, <1>6 DEF RankAt, Writing
<1>9. /\ Ranked' /\ Going' /\ Ranks' = Ranks
      /\ no_ranks' # 1 => h[0] = <<>>
      /\ \A q \in Ranks' : \/ rank'[q].at = "exists" /\ q # root
                           \/ rank'[q].at \in Working /\ RankAt(h, q)'
  BY <1>1, <1>2, <1>3, <1>6, <1>7, <1>8, RanksMove DEF Working
<1>10. /\ \A q \in Ranks' : saved' \subseteq Listed(rank'[q].groups)
       /\ session'.whole => \E q \in Ranks' : Extends(session'.groups, rank'[q].groups)
       /\ session'.length <= no_files(h[Len(script')])
  <2>1. Extends(rank[r].groups, rank'[r].groups)
    BY <1>3, <1>6, ExtendsOrder DEF Good
  <2> QED BY <2>1, <1>1, <1>2, <1>3, <1>6, <1>7, <1>8, SessionStays DEF Working
<1>11. \A q \in Ranks' : \A f \in FilesOf(q)' : Present(f)'
  <2> SUFFICES ASSUME NEW q \in Ranks, NEW f \in FilesOf(q)'
               PROVE  Present(f)'
    BY <1>9
  <2>1. f \in FilesOf(q) \/ f = file
    BY <1>1, <1>4, <1>6 DEF FilesOf
  <2>2. f \in Listed(h[Len(script)]) \/ f = file
    <3> SUFFICES ASSUME f \in FilesOf(q) PROVE f \in Listed(h[Len(script)])
      BY <2>1
    <3>1. (rank[q].at \in Working /\ RankAt(h, q)) \/ FilesOf(q) = {}
      <4>1. CASE rank[q].at = "exists"
        BY <4>1, <1>2, NoFiles DEF FilesOf, Ranked
      <4>2. CASE rank[q].at # "exists"
        BY <4>2, <1>3 DEF State
      <4> QED BY <4>1, <4>2
    <3> QED BY <3>1, <1>3, FilesListed
  <2>3. file \in Listed(h[Len(script)]) /\ IsListing(h[Len(script)])
    BY <1>1, <1>3, <1>4, FilesListed DEF Working, Good
  <2>4. CASE f = file
    BY <2>4, <1>4, <1>5 DEF Present, Whole, FilePath, With
  <2>5. CASE f # file
    <3>1. FilePath(f) # FilePath(file)
      BY <2>2, <2>3, <2>5, FilesDiffer
    <3>2. Present(f)
      BY <2>1, <2>5, <1>3 DEF State
    <3>3. FilePath(f) \in DOMAIN data' /\ data'[FilePath(f)] = data[FilePath(f)]
      BY <3>1, <3>2, <1>5 DEF Present, With
    <3>4. CASE Whole(f)
      BY <3>3, <3>4 DEF Present, Whole, FilePath
    <3>5. CASE \E x \in Ranks : rank[x].at = "data" /\ rank[x].file = f
      <4>1. PICK x \in Ranks : rank[x].at = "data" /\ rank[x].file = f
        BY <3>5
      <4>2. x # r
        BY <4>1, <2>5, <1>4
      <4>3. x \in Ranks' /\ rank'[x].at = "data" /\ rank'[x].file = f
        BY <4>1, <4>2, <1>6, <1>9
      <4> QED BY <4>3, <3>3 DEF Present, FilePath
    <3> QED BY <3>2, <3>4, <3>5 DEF Present
  <2> QED BY <2>4, <2>5
<1>12. LastWritten'
  <2>1. r \in Ranks' /\ rank'[r].at # "ready"
    BY <1>6, <1>9
  <2> QED BY <2>1 DEF LastWritten
<1>13. OnDisk'
  <2>1. \A f \in Listed(rank[r].groups) : FilePath(f) # FilePath(file)
    BY <1>3, <1>4 DEF FilePath
  <2> QED BY <2>1, <1>1, <1>2, <1>3, <1>5, <1>6, DiskWritten DEF Working
<1>14. State(h)'
  BY <1>7, <1>9, <1>10, <1>11, <1>12 DEF State
<1> QED BY <1>9, <1>13, <1>14 DEF Inv

LEMMA PushStep ==
  ASSUME Inv, NEW r \in Ranks, push(r)
  PROVE  Inv'
<1>1. rank[r].at = "push" /\ rank[r].at \in Writing
  BY DEF push, Writing
<1>2. Ranked /\ OnDisk /\ Going /\ DOMAIN rank = Ranks /\ DOMAIN rank[r] = Fields
  BY <1>1, AtWriting
<1>3. PICK h : \E p \in 0 .. Len(script) :
              /\ State(h) /\ History(h) /\ RankAt(h, r)
              /\ rank[r].position = p
              /\ rank[r].groups = h[p]
              /\ Listed(h[p + 1]) = Listed(h[p]) \cup {rank[r].file}
              /\ Good(h[p]) /\ Good(h[p + 1])
              /\ h[p + 1] = Pushed(h[p], rank[r].file)
              /\ rank[r].file.group \in DOMAIN h[p]
  BY <1>1, AtWriting
<1>4. PICK file, gs : /\ file = rank[r].file
                      /\ gs = Pushed(rank[r].groups, file)
  OBVIOUS
<1>5. /\ rank'[r].at = "save" /\ rank'[r].position = rank[r].position
      /\ rank'[r].groups = gs /\ rank'[r].file = file
      /\ DOMAIN rank' = Ranks /\ DOMAIN rank'[r] = Fields
      /\ \A q \in Ranks \ {r} : rank'[q] = rank[q]
      /\ UNCHANGED <<no_ranks, data, mode, script, broadcasts, saved>>
      /\ session' = Truncated
  BY <1>2, <1>4 DEF push, Fields, Pushed
<1>6. History(h)' /\ Grown(h, h)
  BY <1>3, <1>5 DEF History, Grown
<1>7. RankAt(h, r)'
  BY <1>1, <1>3, <1>4, <1>5 DEF RankAt, Writing
<1>8. /\ Ranked' /\ Going' /\ Ranks' = Ranks
      /\ no_ranks' # 1 => h[0] = <<>>
      /\ \A q \in Ranks' : \/ rank'[q].at = "exists" /\ q # root
                           \/ rank'[q].at \in Working /\ RankAt(h, q)'
  BY <1>1, <1>2, <1>3, <1>5, <1>6, <1>7, RanksMove DEF Working
<1>9. Listed(rank'[r].groups) = Listed(rank[r].groups) \cup {file}
  BY <1>3, <1>4, <1>5
<1>10. \A q \in Ranks' : saved' \subseteq Listed(rank'[q].groups)
  <2> SUFFICES ASSUME NEW q \in Ranks PROVE saved \subseteq Listed(rank'[q].groups)
    BY <1>5, <1>8
  <2>1. saved \subseteq Listed(rank[q].groups)
    BY <1>3 DEF State
  <2> QED BY <2>1, <1>5, <1>9
<1>11. /\ session'.exists /\ ~session'.whole /\ session'.length = 0
       /\ session'.exists \in BOOLEAN /\ session'.whole \in BOOLEAN
       /\ DOMAIN session' = {"exists", "whole", "length", "groups"}
  BY <1>5 DEF Truncated, Absent
<1>12. session'.length <= no_files(h[Len(script')])
  <2>1. no_files(h[Len(script')]) \in Nat
    BY <1>3, <1>6, LastListing
  <2> QED BY <2>1, <1>11
<1>13. \A q \in Ranks' : \A f \in FilesOf(q)' : Present(f)'
  <2> SUFFICES ASSUME NEW q \in Ranks, NEW f \in FilesOf(q)'
               PROVE  Present(f)'
    BY <1>8
  <2>1. f \in FilesOf(q)
    BY <1>1, <1>4, <1>5, <1>9 DEF FilesOf
  <2>2. Present(f)
    BY <2>1, <1>3 DEF State
  <2> QED BY <2>2, <1>1, <1>5, <1>8 DEF Present, Whole
<1>14. LastWritten'
  <2>1. r \in Ranks' /\ rank'[r].at # "ready"
    BY <1>5, <1>8
  <2> QED BY <2>1 DEF LastWritten
<1>15. OnDisk'
  BY <1>11 DEF OnDisk
<1>16. State(h)'
  BY <1>6, <1>8, <1>10, <1>11, <1>12, <1>13, <1>14 DEF State
<1> QED BY <1>8, <1>15, <1>16 DEF Inv

LEMMA SaveStep ==
  ASSUME Inv, NEW r \in Ranks, save(r)
  PROVE  Inv'
<1>1. rank[r].at = "save" /\ rank[r].at \in Writing
  BY DEF save, Writing
<1>2. Ranked /\ OnDisk /\ Going /\ DOMAIN rank = Ranks /\ DOMAIN rank[r] = Fields
  BY <1>1, AtWriting
<1>3. PICK h : \E p \in 0 .. Len(script) :
              /\ State(h) /\ History(h) /\ RankAt(h, r)
              /\ rank[r].position = p /\ p + 1 \in 0 .. Len(script)
              /\ rank[r].groups = h[p + 1]
              /\ Listed(h[p + 1]) = Listed(h[p]) \cup {rank[r].file}
              /\ Good(h[p + 1])
  BY <1>1, AtWriting
<1>4. PICK p, gs, file, length :
        /\ p = rank[r].position /\ gs = rank[r].groups /\ file = rank[r].file
        /\ length = no_files(gs)
  OBVIOUS
<1>5. /\ p \in 0 .. Len(script) /\ p + 1 \in 0 .. Len(script) /\ gs = h[p + 1]
      /\ Good(gs) /\ file \in Listed(gs)
  BY <1>3, <1>4
<1>6. /\ rank'[r].at = "ready" /\ rank'[r].position = p + 1
      /\ rank'[r].groups = gs
      /\ DOMAIN rank' = Ranks /\ DOMAIN rank'[r] = Fields
      /\ \A q \in Ranks \ {r} : rank'[q] = rank[q]
      /\ UNCHANGED <<no_ranks, data, mode, script, broadcasts>>
  BY <1>2, <1>4 DEF save, Fields
<1>7. History(h)' /\ Grown(h, h)
  BY <1>3, <1>6 DEF History, Grown
<1>8. RankAt(h, r)'
  BY <1>5, <1>6 DEF RankAt, Writing
<1>9. /\ Ranked' /\ Going' /\ Ranks' = Ranks
      /\ no_ranks' # 1 => h[0] = <<>>
      /\ \A q \in Ranks' : \/ rank'[q].at = "exists" /\ q # root
                           \/ rank'[q].at \in Working /\ RankAt(h, q)'
  BY <1>1, <1>2, <1>3, <1>6, <1>7, <1>8, RanksMove DEF Working
<1>10. length \in Nat /\ session.length \in Nat
  BY <1>2, <1>4, <1>5, FilesCounted DEF OnDisk
<1>11. /\ session'.exists = TRUE
       /\ session'.whole = (length >= session.length)
       /\ session'.length = Max({length, session.length})
       /\ session'.groups = gs
       /\ DOMAIN session' = {"exists", "whole", "length", "groups"}
  BY <1>4 DEF save
<1>12. /\ session'.length \in {length, session.length}
       /\ length >= session.length => session'.length = length
  BY <1>10, <1>11 DEF Max
<1>13. \A q \in Ranks : rank'[q].position >= p + 1 => file \in Listed(rank'[q].groups)
  <2> SUFFICES ASSUME NEW q \in Ranks, rank'[q].position >= p + 1
               PROVE  file \in Listed(rank'[q].groups)
    OBVIOUS
  <2>1. CASE q = r
    BY <2>1, <1>5, <1>6
  <2>2. CASE q # r
    <3>1. rank'[q] = rank[q] /\ p \in Nat
      BY <2>2, <1>5, <1>6
    <3>2. rank[q].at # "exists"
      BY <3>1, <1>2 DEF Ranked
    <3>3. rank[q].at \in Working /\ RankAt(h, q)
      BY <3>2, <1>3 DEF State
    <3>4. PICK j \in 0 .. Len(script) :
            /\ rank[q].position = j
            /\ rank[q].at \in {"ready", "data", "push"} => rank[q].groups = h[j]
            /\ rank[q].at = "save" => rank[q].groups = h[j + 1]
            /\ rank[q].at \in Writing => j < Len(script)
      BY <3>3 DEF RankAt
    <3>5. PICK i \in 0 .. Len(script) : rank[q].groups = h[i] /\ p + 1 <= i
      <4>1. CASE rank[q].at = "save"
        <5>1. j + 1 \in 0 .. Len(script) /\ p + 1 <= j + 1
          BY <4>1, <3>1, <3>4, <1>3 DEF Writing, History
        <5> QED BY <4>1, <5>1, <3>4
      <4>2. CASE rank[q].at # "save"
        BY <4>2, <3>1, <3>3, <3>4 DEF Working
      <4> QED BY <4>1, <4>2
    <3>6. Extends(gs, h[i]) /\ Good(h[i])
      BY <3>5, <1>3, <1>5 DEF History
    <3> QED BY <3>1, <3>5, <3>6, <1>5, ExtendsListed DEF Good
  <2> QED BY <2>1, <2>2
<1>14. \A q \in Ranks : saved \subseteq Listed(rank'[q].groups)
  <2> TAKE q \in Ranks
  <2>1. saved \subseteq Listed(rank[q].groups)
    BY <1>3 DEF State
  <2> QED BY <2>1, <1>4, <1>6
<1>15. \A q \in Ranks : saved' \subseteq Listed(rank'[q].groups)
  <2>1. saved' = IF \A q \in Ranks : rank'[q].position >= p + 1
                 THEN saved \cup {file} ELSE saved
    BY <1>4, <1>6 DEF save
  <2> QED BY <2>1, <1>13, <1>14
<1>16. \A f \in Listed(gs) : Present(f) /\ FilesOf(r) = Listed(gs) /\ FilesOf(r)' = Listed(gs)
  BY <1>1, <1>3, <1>4, <1>6 DEF State, FilesOf
<1>17. \A q \in Ranks' : \A f \in FilesOf(q)' : Present(f)'
  <2> SUFFICES ASSUME NEW q \in Ranks, NEW f \in FilesOf(q)'
               PROVE  Present(f)'
    BY <1>9
  <2>1. f \in FilesOf(q)
    BY <1>1, <1>4, <1>6 DEF FilesOf
  <2>2. Present(f)
    BY <2>1, <1>3 DEF State
  <2>3. ASSUME NEW x \in Ranks, rank[x].at = "data" /\ rank[x].file = f
        PROVE  rank'[x].at = "data" /\ rank'[x].file = f
    BY <2>3, <1>1, <1>6
  <2> QED BY <2>2, <2>3, <1>6, <1>9 DEF Present, Whole
<1>18. PICK n : n = Len(script) /\ n = Len(script')
  BY <1>6
<1>19. session'.length <= no_files(h[n])
  <2>1. n \in 0 .. n /\ n \in Nat /\ p + 1 \in 0 .. n /\ p + 1 <= n
    BY <1>3, <1>5, <1>18 DEF History
  <2>2. Good(h[n]) /\ Extends(gs, h[n])
    BY <2>1, <1>3, <1>5, <1>18 DEF History
  <2>3. length <= no_files(h[n]) /\ no_files(h[n]) \in Nat
    BY <2>2, <1>4, <1>5, ExtendsListed DEF Good
  <2>4. session.length <= no_files(h[n])
    BY <1>3, <1>18 DEF State
  <2> QED BY <2>3, <2>4, <1>12
<1>20. LastWritten'
  <2> SUFFICES ASSUME \A q \in Ranks : rank'[q].at = "ready" /\ rank'[q].position = n
               PROVE  session'.whole /\ session'.groups = rank'[root].groups
    BY <1>9, <1>18 DEF LastWritten
  <2>1. p + 1 = n /\ gs = h[n]
    BY <1>5, <1>6
  <2>2. session'.whole
    <3>1. session.length <= length
      BY <2>1, <1>3, <1>4, <1>18 DEF State
    <3> QED BY <3>1, <1>10, <1>11
  <2>3. rank'[root].groups = h[n]
    <3>1. root \in Ranks
      BY <1>2, RootIsRank
    <3>2. rank'[root].at = "ready" /\ rank'[root].position = n
      BY <3>1
    <3>3. RankAt(h, root)'
      BY <3>1, <1>9
    <3> QED BY <3>2, <3>3 DEF RankAt
  <2> QED BY <2>1, <2>2, <2>3, <1>11
<1>21. OnDisk'
  <2>1. session'.whole => session'.length = length
    BY <1>11, <1>12
  <2>2. saved' \subseteq Listed(gs)
    BY <1>6, <1>15
  <2>3. no_ranks = 1 => \A f \in Listed(gs) : Whole(f)'
    <3> SUFFICES ASSUME no_ranks = 1, NEW f \in Listed(gs) PROVE Whole(f)'
      OBVIOUS
    <3>1. Ranks = {r}
      BY <1>2, RootIsRank
    <3>2. Whole(f)
      BY <3>1, <1>1, <1>16 DEF Present
    <3> QED BY <3>2, <1>6 DEF Whole
  <2>4. session'.length \in Nat
    BY <1>10, <1>12
  <2>5. session'.exists \in BOOLEAN /\ session'.whole \in BOOLEAN
    <3>1. (length >= session.length) \in BOOLEAN
      OBVIOUS
    <3> QED BY <3>1, <1>11
  <2> QED BY <2>1, <2>2, <2>3, <2>4, <2>5, <1>4, <1>5, <1>6, <1>11 DEF OnDisk
<1>22. State(h)'
  <2>1. session'.whole => \E q \in Ranks' : Extends(session'.groups, rank'[q].groups)
    BY <1>5, <1>6, <1>9, <1>11, ExtendsOrder DEF Good
  <2> QED BY <2>1, <1>7, <1>9, <1>15, <1>17, <1>18, <1>19, <1>20 DEF State
<1> QED BY <1>9, <1>21, <1>22 DEF Inv

LEMMA SessionStutter ==
  ASSUME Inv, UNCHANGED vars
  PROVE  Inv'
<1>1. Ranks' = Ranks /\ Terminated' = Terminated
  BY DEF vars, Ranks, Terminated
<1>2. Ranked'
  BY <1>1 DEF Inv, Ranked, vars, Going
<1>3. OnDisk'
  BY DiskKept DEF Inv, vars
<1>4. ASSUME NEW h, State(h) PROVE State(h)'
  <2>1. \A q : RankAt(h, q) => RankAt(h, q)'
    BY DEF RankAt, vars
  <2>2. \A f : Present(f) => Present(f)'
    BY <1>1 DEF Present, Whole, vars
  <2>3. History(h)' /\ LastWritten'
    BY <1>1, <1>4 DEF State, History, LastWritten, vars
  <2> QED BY <1>1, <1>4, <2>1, <2>2, <2>3 DEF State, FilesOf, vars
<1> QED BY <1>2, <1>3, <1>4 DEF Inv, Going, vars

LEMMA SessionNext ==
  ASSUME Inv, [Next]_vars
  PROVE  Inv'
<1>1. CASE Start
  BY <1>1, LaunchStep DEF Start
<1>2. CASE \E r \in Ranks : Step(r)
  BY <1>2, RemoveStep, ExistsStep, ReadWholeStep, WriteDataStep, PushStep, SaveStep
    DEF Step
<1>3. CASE \E r \in Ranks : Operation(r)
  BY <1>3, PushGroupStep, WriteStep DEF Operation
<1>4. CASE Crash
  BY <1>4, CrashStep
<1>5. CASE UNCHANGED vars
  BY <1>5, SessionStutter
<1> QED BY <1>1, <1>2, <1>3, <1>4, <1>5 DEF Next

(* The invariant holds, for any number of ranks, groups, files and runs. *)
THEOREM SessionInvariant == Spec => []Inv
BY SessionInit, SessionNext, PTL DEF Spec

-----------------------------------------------------------------------------
(* The properties. *)

(* At rest, all ranks are at the end of the script. *)
LEMMA RestingRanks ==
  ASSUME Inv, AtRest
  PROVE  \E h : /\ State(h) /\ History(h)
                /\ \A q, r \in Ranks : rank[q].groups = rank[r].groups
                /\ \A r \in Ranks : Good(rank[r].groups)
<1>1. Ranked /\ root \in Ranks
  BY RootIsRank DEF Inv
<1>2. Going
  BY <1>1 DEF AtRest, Going, Working
<1>3. PICK h : State(h)
  BY <1>2 DEF Inv
<1>4. \A r \in Ranks : /\ rank[r].position \in 0 .. Len(script)
                       /\ rank[r].groups = h[rank[r].position]
  BY <1>3 DEF AtRest, State, RankAt
<1>5. \A q, r \in Ranks : rank[q].groups = rank[r].groups
  BY <1>4 DEF AtRest
<1>6. History(h) /\ \A r \in Ranks : Good(rank[r].groups)
  BY <1>3, <1>4 DEF State, History
<1> QED BY <1>3, <1>5, <1>6

(* Ranks that are between the same two operations hold the same session, and  *)
(* after a write the session file holds it too, whichever rank wrote it last. *)
THEOREM AgreeingRanks == Spec => []RanksAgree
<1>1. ASSUME Inv PROVE RanksAgree
  <2> SUFFICES ASSUME AtRest PROVE
        /\ \A q, r \in Ranks : rank[q].groups = rank[r].groups
        /\ script # <<>> /\ script[Len(script)][1] = "write"
             /\ rank[root].position = Len(script) =>
             session.whole /\ session.groups = rank[root].groups
    BY DEF RanksAgree
  <2>1. PICK h : /\ State(h) /\ History(h)
                 /\ \A q, r \in Ranks : rank[q].groups = rank[r].groups
    BY <1>1, RestingRanks
  <2>2. root \in Ranks
    BY <1>1, RootIsRank DEF Inv
  <2>3. ASSUME script # <<>>, script[Len(script)][1] = "write",
               rank[root].position = Len(script)
        PROVE  session.whole /\ session.groups = rank[root].groups
    BY <2>1, <2>2, <2>3 DEF State, LastWritten, AtRest
  <2> QED BY <2>1, <2>3
<1> QED BY <1>1, SessionInvariant, PTL

(* What a session file lists depends on what it lists, in order. *)
THEOREM ListedDependencies == Spec => []DependenciesListed
<1>1. ASSUME Inv PROVE DependenciesListed
  <2> SUFFICES ASSUME session.whole, NEW f \in Listed(session.groups),
                      Dependency[f.group] # NoGroup
               PROVE
        /\ f.dependency \in 0 .. Len(session.groups[Dependency[f.group]]) - 1
        /\ \A e \in Listed(session.groups) :
             e.group = f.group /\ e.index < f.index => e.dependency <= f.dependency
    BY DEF DependenciesListed
  <2>1. PICK gs : gs = session.groups
    OBVIOUS
  <2>2. Good(gs) /\ IsListing(gs)
    BY <1>1, <2>1 DEF Inv, OnDisk, Good
  <2>3. /\ f.group \in DOMAIN gs /\ f.index + 1 \in 1 .. Len(gs[f.group])
        /\ f.index \in Nat /\ f.dependency = gs[f.group][f.index + 1]
    BY <2>1, <2>2, ListedFiles
  <2>4. \A k \in 1 .. Len(gs[f.group]) :
          /\ gs[f.group][k] \in 0 .. Len(gs[Dependency[f.group]]) - 1
          /\ \A j \in 1 .. Len(gs[f.group]) : j < k => gs[f.group][j] <= gs[f.group][k]
    BY <2>2, <2>3 DEF Good, DependsOnListed
  <2>5. ASSUME NEW e \in Listed(gs), e.group = f.group, e.index < f.index
        PROVE  e.dependency <= f.dependency
    <3>1. /\ e.index + 1 \in 1 .. Len(gs[f.group])
          /\ e.index \in Nat /\ e.dependency = gs[f.group][e.index + 1]
      BY <2>2, <2>5, ListedFiles
    <3>2. e.index + 1 < f.index + 1
      BY <3>1, <2>3, <2>5
    <3> QED BY <3>1, <3>2, <2>3, <2>4
  <2> QED BY <2>1, <2>3, <2>4, <2>5
<1> QED BY <1>1, SessionInvariant, PTL

(* In a session that is in the directory of its program, what a session file  *)
(* lists is there, whole, and made for the dependency it lists.               *)
THEOREM ListedFilesWhole ==
  (directory = ".") /\ Spec => []ListedWhole
<1>1. ASSUME Inv, directory = "." PROVE ListedWhole
  <2> SUFFICES ASSUME session.whole, no_ranks = 1 \/ AtRest,
                      NEW f \in Listed(session.groups)
               PROVE  Whole(f)
    BY <1>1 DEF ListedWhole, Whole, FilePath
  <2>1. CASE no_ranks = 1
    BY <1>1, <2>1 DEF Inv, OnDisk
  <2>2. CASE AtRest
    <3>1. PICK h : State(h)
      BY <1>1, <2>2, RestingRanks
    <3>2. PICK r \in Ranks : Extends(session.groups, rank[r].groups)
      BY <3>1 DEF State
    <3>3. Good(rank[r].groups) /\ Good(session.groups)
      BY <1>1, <2>2, RestingRanks DEF Inv, OnDisk
    <3>4. f \in FilesOf(r)
      BY <3>2, <3>3, ExtendsListed DEF Good, FilesOf
    <3>5. Present(f)
      BY <3>1, <3>4 DEF State
    <3> QED BY <3>5, <2>2 DEF Present, AtRest
  <2> QED BY <2>1, <2>2
<1>2. directory = "." /\ [Next]_vars => (directory = ".")'
  BY DEF vars, Next, Start, Step, Operation, Launch, remove, exists, read_whole,
    write_data, push, save, push_group, write, Crash
<1> QED BY <1>1, <1>2, SessionInvariant, PTL DEF Spec

(* The data of a saved file are not written again: no rank writes to the path *)
(* of a file that its session lists.                                          *)
LEMMA SavedDataKept ==
  ASSUME Inv, [Next]_vars, NEW f \in saved
  PROVE  data'[FilePath(f)] = data[FilePath(f)]
<1>1. CASE data' = data
  BY <1>1
<1>2. ASSUME NEW r \in Ranks, NEW g \in Group, write(r, g)
      PROVE  data'[FilePath(f)] = data[FilePath(f)]
  <2>1. /\ rank[r].at = "ready" /\ g \in DOMAIN rank[r].groups
        /\ Len(rank[r].groups[g]) < MaxFiles
        /\ Dependency[g] # NoGroup => rank[r].groups[Dependency[g]] # <<>>
    BY <1>2 DEF write, Does, index
  <2>2. PICK h : State(h) /\ Good(rank[r].groups)
    BY <2>1, AtReady
  <2>3. f \in Listed(rank[r].groups) /\ Present(f)
    BY <2>2 DEF State, FilesOf
  <2>4. PICK path : path = <<".", g, Len(rank[r].groups[g])>>
    OBVIOUS
  <2>5. FilePath(f) # path
    <3>1. \A e \in Listed(rank[r].groups) :
            ~(e.group = g /\ e.index = Len(rank[r].groups[g]))
      BY <2>1, <2>2, PushFile DEF NextFile
    <3> QED BY <3>1, <2>3, <2>4 DEF FilePath
  <2>6. data' = With(data, path, [whole |-> FALSE])
    BY <1>2, <2>4 DEF write, file_path, index
  <2> QED BY <2>3, <2>5, <2>6 DEF With, Present
<1>3. ASSUME NEW r \in Ranks, write_data(r)
      PROVE  data'[FilePath(f)] = data[FilePath(f)]
  <2>1. rank[r].at = "data" /\ rank[r].at \in Writing
    BY <1>3 DEF write_data, Writing
  <2>2. PICK h : \E p \in 0 .. Len(script) :
          /\ State(h) /\ rank[r].groups = h[p]
          /\ \A e \in Listed(h[p]) : ~(e.group = rank[r].file.group
                                         /\ e.index = rank[r].file.index)
    BY <2>1, AtWriting
  <2>3. f \in Listed(rank[r].groups) /\ Present(f)
    BY <2>2 DEF State, FilesOf
  <2>4. PICK path, value :
          /\ path = <<".", rank[r].file.group, rank[r].file.index>>
          /\ value = [whole |-> TRUE, dependency |-> rank[r].file.dependency, run |-> runs]
    OBVIOUS
  <2>5. FilePath(f) # path
    BY <2>2, <2>3, <2>4 DEF FilePath
  <2>6. data' = With(data, path, value)
    BY <1>3, <2>4 DEF write_data, file_path
  <2> QED BY <2>3, <2>5, <2>6 DEF With, Present
<1> QED BY <1>1, <1>2, <1>3 DEF Next, Start, Step, Operation, Launch, remove,
  exists, read_whole, push, save, push_group, Crash, vars

(* What all ranks have saved stays listed through crashes and restarts, as    *)
(* long as the session file can be read, and its data are never written again. *)
THEOREM SavedFilesKept == Spec => SavedKept
<1>1. ASSUME Inv, Inv', [Next]_vars
      PROVE  /\ session'.whole => saved' \subseteq Listed(session.groups)'
             /\ \A f \in saved \cap saved' :
                  LET path == <<".", f.group, f.index>>
                  IN  data'[path] = data[path]
  <2>1. session'.whole => saved' \subseteq Listed(session.groups)'
    BY <1>1 DEF Inv, OnDisk
  <2>2. \A f \in saved : data'[FilePath(f)] = data[FilePath(f)]
    BY <1>1, SavedDataKept
  <2> QED BY <2>1, <2>2 DEF FilePath
<1> QED BY <1>1, SessionInvariant, PTL DEF SavedKept, Spec

=============================================================================
