---------------------------- MODULE RestoreProofs ----------------------------
(***************************************************************************)
(* What is written can be read back, for every number of children, every   *)
(* capacity of the writer and of the readers and every number of grids:    *)
(* the arrays of a file are found again under their names, the edges read  *)
(* from them are a tree with the positions that were written, the table of *)
(* grid nodes is spread over the rows of the new capacity, and a program   *)
(* that starts from the file goes on with the tree it saved.               *)
(***************************************************************************)
EXTENDS Restore, TreeProofs, SequenceTheorems, WellFoundedInduction

-----------------------------------------------------------------------------
(* A set of numbers has a smallest one. *)
LEMMA SmallestNumber ==
  ASSUME NEW T \in SUBSET Nat, T # {}
  PROVE  \E n \in T : \A m \in T : n <= m
<1>1. PICK n \in T : \A m \in T : ~(<<m, n>> \in OpToRel(<, Nat))
  BY WFMin, NatLessThanWellFounded
<1>2. \A m \in T : <<m, n>> \in OpToRel(<, Nat) <=> m < n
  BY DEF OpToRel
<1>3. n \in Nat /\ \A m \in T : m \in Nat /\ ~(m < n)
  BY <1>1, <1>2
<1> QED BY <1>3

(* Induction over the numbers: a set that holds 0 and every successor holds *)
(* all of them.                                                             *)
LEMMA NumbersByInduction ==
  ASSUME NEW S, 0 \in S, \A n \in Nat : n \in S => n + 1 \in S
  PROVE  Nat \subseteq S
<1> SUFFICES ASSUME Nat \ S # {} PROVE FALSE
  OBVIOUS
<1>1. PICK n \in Nat \ S : \A m \in Nat \ S : n <= m
  BY SmallestNumber
<1>2. n # 0 /\ n - 1 \in Nat /\ n - 1 + 1 = n
  BY <1>1
<1>3. n - 1 \in S
  BY <1>1, <1>2
<1> QED BY <1>2, <1>3, <1>1

-----------------------------------------------------------------------------
(* What a file holds: the arrays one after another. *)

(* Concatenation, kept as one symbol. *)
Joint(s, t) == s \o t

(* What the concatenation of two sequences holds. *)
LEMMA JointProperties ==
  ASSUME NEW S, NEW s \in Seq(S), NEW t \in Seq(S)
  PROVE  /\ Joint(s, t) \in Seq(S)
         /\ Len(Joint(s, t)) = Len(s) + Len(t)
         /\ \A i \in 1 .. Len(s) + Len(t) :
              Joint(s, t)[i] = IF i <= Len(s) THEN s[i] ELSE t[i - Len(s)]
         /\ Joint(<<>>, s) = s
<1>1. /\ s \o t \in Seq(S)
      /\ Len(s \o t) = Len(s) + Len(t)
      /\ \A i \in 1 .. Len(s) + Len(t) :
           (s \o t)[i] = IF i <= Len(s) THEN s[i] ELSE t[i - Len(s)]
  BY ConcatProperties
<1>2. <<>> \o s = s
  BY ConcatEmptySeq
<1> QED BY <1>1, <1>2, Zenon DEF Joint

(* The arrays put together one by one. *)
Joined(s, h, n) ==
  /\ h[0] = <<>>
  /\ \A i \in 1 .. n : h[i] = Joint(h[i - 1], s[i])

(* The arrays can be put together one by one. *)
LEMMA JoinedExists ==
  ASSUME NEW V, NEW s \in Seq(Seq(V))
  PROVE  \E h \in [0 .. Len(s) -> Seq(V)] : Joined(s, h, Len(s))
<1> DEFINE Has(n) == \E h \in [0 .. n -> Seq(V)] : Joined(s, h, n)
           S == {n \in Nat : n <= Len(s) => Has(n)}
<1>1. 0 \in S
  <2>1. [i \in 0 .. 0 |-> <<>>] \in [0 .. 0 -> Seq(V)]
    OBVIOUS
  <2>2. Joined(s, [i \in 0 .. 0 |-> <<>>], 0)
    BY DEF Joined
  <2> QED BY <2>1, <2>2
<1>2. ASSUME NEW n \in Nat, n \in S PROVE n + 1 \in S
  <2> SUFFICES ASSUME n + 1 <= Len(s) PROVE Has(n + 1)
    OBVIOUS
  <2>1. Len(s) \in Nat
    OBVIOUS
  <2>2. PICK h \in [0 .. n -> Seq(V)] : Joined(s, h, n)
    BY <1>2, <2>1
  <2>3. s[n + 1] \in Seq(V) /\ h[n] \in Seq(V)
    BY <2>1, ElementOfSeq
  <2> DEFINE g == [i \in 0 .. n + 1 |-> IF i = n + 1 THEN Joint(h[n], s[n + 1]) ELSE h[i]]
  <2>4. Joint(h[n], s[n + 1]) \in Seq(V)
    BY <2>3, JointProperties
  <2>5. g \in [0 .. n + 1 -> Seq(V)]
    BY <2>4
  <2>6. Joined(s, g, n + 1)
    <3>1. g[0] = <<>>
      BY <2>2 DEF Joined
    <3>2. ASSUME NEW i \in 1 .. n + 1 PROVE g[i] = Joint(g[i - 1], s[i])
      <4>1. CASE i = n + 1
        BY <4>1
      <4>2. CASE i # n + 1
        <5>1. i \in 1 .. n /\ i - 1 \in 0 .. n + 1 /\ i - 1 # n + 1 /\ i \in 0 .. n + 1
          BY <4>2
        <5>2. g[i] = h[i] /\ g[i - 1] = h[i - 1]
          BY <5>1, <4>2
        <5> HIDE DEF g
        <5> QED BY <5>1, <5>2, <2>2 DEF Joined
      <4> QED BY <4>1, <4>2
    <3> HIDE DEF g
    <3> QED BY <3>1, <3>2 DEF Joined
  <2> QED BY <2>5, <2>6
<1> HIDE DEF S, Has
<1>3. Len(s) \in S
  <2>1. Len(s) \in Nat
    OBVIOUS
  <2> QED BY <1>1, <1>2, <2>1, NumbersByInduction
<1> QED BY <1>3 DEF S, Has

(* FlattenSeq puts them together that way. *)
LEMMA FlattenJoins ==
  ASSUME NEW V, NEW s \in Seq(Seq(V)), NEW h \in [0 .. Len(s) -> Seq(V)],
         Joined(s, h, Len(s))
  PROVE  FlattenSeq(s) = h[Len(s)]
<1>1. Len(s) \in Nat /\ \A i \in 1 .. Len(s) : s[i] \in Seq(V)
  BY ElementOfSeq
<1>2. CASE Len(s) = 0
  <2>1. s = <<>>
    BY <1>2, EmptySeq
  <2> QED BY <1>2, <2>1 DEF FlattenSeq, Joined
<1>3. CASE Len(s) # 0
  <2> DEFINE At(f, i) == IF i = 1 THEN s[i] ELSE Joint(f[i - 1], s[i])
             Is(f) == f = [i \in 1 .. Len(s) |-> At(f, i)]
             g == [i \in 1 .. Len(s) |-> h[i]]
             c == CHOOSE f : Is(f)
  <2>1. h[1] = s[1]
    <3>1. 1 \in 1 .. Len(s)
      BY <1>1, <1>3
    <3>2. h[1] = Joint(<<>>, s[1])
      BY <3>1 DEF Joined
    <3> QED BY <3>1, <3>2, <1>1, JointProperties
  <2>2. \A i \in 1 .. Len(s) : g[i] = At(g, i)
    BY <1>1, <2>1 DEF Joined
  <2>3. Is(g)
    <3>1. g = [i \in 1 .. Len(s) |-> g[i]]
      OBVIOUS
    <3> HIDE DEF g, At
    <3> QED BY <3>1, <2>2
  <2>4. Is(c)
    <3> HIDE DEF g, Is
    <3> QED BY <2>3
  <2>5. FlattenSeq(s) = c[Len(s)]
    BY <1>3, Zenon DEF FlattenSeq, Joint
  <2> HIDE DEF c
  <2>6. \A i \in 1 .. Len(s) : c[i] = At(c, i)
    <3> HIDE DEF At
    <3> QED BY <2>4
  <2> DEFINE S == {n \in Nat : n + 1 <= Len(s) => c[n + 1] = h[n + 1]}
  <2>7. 0 \in S
    BY <1>1, <1>3, <2>1, <2>6
  <2>8. ASSUME NEW n \in Nat, n \in S PROVE n + 1 \in S
    <3> SUFFICES ASSUME n + 1 + 1 <= Len(s) PROVE c[n + 1 + 1] = h[n + 1 + 1]
      OBVIOUS
    <3>1. c[n + 1] = h[n + 1]
      BY <2>8, <1>1
    <3>2. n + 1 + 1 \in 1 .. Len(s) /\ n + 1 + 1 # 1 /\ n + 1 + 1 - 1 = n + 1
      BY <1>1
    <3>3. c[n + 1 + 1] = Joint(c[n + 1], s[n + 1 + 1])
      BY <2>6, <3>2
    <3>4. h[n + 1 + 1] = Joint(h[n + 1], s[n + 1 + 1])
      BY <3>2, SMTT(40) DEF Joined
    <3> QED BY <3>1, <3>3, <3>4
  <2>9. PICK n \in Nat : n + 1 = Len(s)
    <3>1. Len(s) - 1 \in Nat /\ Len(s) - 1 + 1 = Len(s)
      BY <1>1, <1>3
    <3> QED BY <3>1
  <2>10. Nat \subseteq S
    <3> HIDE DEF S
    <3> QED BY <2>7, <2>8, NumbersByInduction
  <2>11. c[Len(s)] = h[Len(s)]
    <3>1. n \in S
      BY <2>10
    <3>2. n + 1 <= Len(s)
      BY <2>9, <1>1
    <3> QED BY <3>1, <3>2, <2>9
  <2> QED BY <2>5, <2>11
<1> QED BY <1>2, <1>3

(* An array is found in the file behind those before it. *)
PartFound(s, i) ==
  /\ Len(FlattenSeq(SubSeq(s, 1, i - 1))) \in Nat
  /\ \A j \in 1 .. Len(s[i]) :
       FlattenSeq(s)[Len(FlattenSeq(SubSeq(s, 1, i - 1))) + j] = s[i][j]

LEMMA FlattenPart ==
  ASSUME NEW V, NEW s \in Seq(Seq(V)), NEW i \in 1 .. Len(s)
  PROVE  PartFound(s, i)
<1>1. Len(s) \in Nat /\ \A l \in 1 .. Len(s) : s[l] \in Seq(V)
  BY ElementOfSeq
<1>2. PICK h \in [0 .. Len(s) -> Seq(V)] : Joined(s, h, Len(s))
  BY JoinedExists
<1>3. FlattenSeq(s) = h[Len(s)]
  BY <1>2, FlattenJoins
<1>4. FlattenSeq(SubSeq(s, 1, i - 1)) = h[i - 1]
  <2> DEFINE t == SubSeq(s, 1, i - 1)
             g == [l \in 0 .. i - 1 |-> h[l]]
  <2>1. t \in Seq(Seq(V)) /\ Len(t) = i - 1 /\ \A l \in 1 .. i - 1 : t[l] = s[l]
    BY <1>1
  <2>2. g \in [0 .. Len(t) -> Seq(V)] /\ Joined(t, g, Len(t))
    <3>1. i \in Nat /\ i <= Len(s) /\ Len(t) = i - 1 /\ 0 \in 0 .. i - 1
      BY <1>1, <2>1
    <3>2. ASSUME NEW l \in 0 .. i - 1
          PROVE  l \in 0 .. Len(s) /\ g[l] = h[l] /\ h[l] \in Seq(V)
      <4>1. l \in 0 .. Len(s)
        BY <3>1, <1>1
      <4> QED BY <4>1, <1>2
    <3>3. g \in [0 .. Len(t) -> Seq(V)]
      BY <3>1, <3>2
    <3>4. h[0] = <<>> /\ \A l \in 1 .. Len(s) : h[l] = Joint(h[l - 1], s[l])
      BY <1>2 DEF Joined
    <3>5. ASSUME NEW l \in 1 .. Len(t) PROVE g[l] = Joint(g[l - 1], t[l])
      <4>1. l \in 0 .. i - 1 /\ l - 1 \in 0 .. i - 1 /\ l \in 1 .. Len(s) /\ l \in 1 .. i - 1
        BY <3>1, <1>1
      <4> HIDE DEF g, t
      <4> QED BY <4>1, <3>2, <3>4, <2>1
    <3>6. g[0] = <<>>
      BY <3>1, <3>2, <3>4
    <3> HIDE DEF g, t
    <3> QED BY <3>3, <3>5, <3>6 DEF Joined
  <2>3. g[i - 1] = h[i - 1]
    BY <1>1
  <2> HIDE DEF t, g
  <2>4. FlattenSeq(t) = g[Len(t)]
    BY <2>1, <2>2, FlattenJoins
  <2> QED BY <2>1, <2>3, <2>4 DEF t
<1>5. \A l \in 0 .. Len(s) : h[l] \in Seq(V) /\ Len(h[l]) \in Nat
  <2>1. \A l \in 0 .. Len(s) : h[l] \in Seq(V)
    BY <1>2
  <2> QED BY <2>1, LenProperties
<1>6. i - 1 \in 0 .. Len(s) /\ i \in 1 .. Len(s)
  BY <1>1
<1>7. PICK b \in Nat : b = Len(h[i - 1])
  BY <1>5, <1>6
<1>8. PICK z \in Nat : z = Len(s[i])
  BY <1>1, LenProperties
<1> DEFINE Holds(l) == /\ b + z <= Len(h[l])
                       /\ \A j \in 1 .. z : h[l][b + j] = s[i][j]
           S == {n \in Nat : i + n <= Len(s) => Holds(i + n)}
<1>9. 0 \in S
  <2>1. h[i] = Joint(h[i - 1], s[i])
    BY <1>2, <1>6 DEF Joined
  <2>2. h[i - 1] \in Seq(V) /\ s[i] \in Seq(V)
    BY <1>1, <1>5, <1>6
  <2>3. /\ Len(h[i]) = b + z
        /\ \A l \in 1 .. b + z : h[i][l] = IF l <= b THEN h[i - 1][l] ELSE s[i][l - b]
    <3>1. /\ Len(Joint(h[i - 1], s[i])) = Len(h[i - 1]) + Len(s[i])
          /\ \A l \in 1 .. Len(h[i - 1]) + Len(s[i]) :
               Joint(h[i - 1], s[i])[l]
                 = IF l <= Len(h[i - 1]) THEN h[i - 1][l] ELSE s[i][l - Len(h[i - 1])]
      BY <2>2, JointProperties
    <3> QED BY <3>1, <2>1, <1>7, <1>8
  <2>4. ASSUME NEW j \in 1 .. z PROVE h[i][b + j] = s[i][j]
    <3>1. b + j \in 1 .. b + z /\ ~(b + j <= b) /\ b + j - b = j
      OBVIOUS
    <3> QED BY <3>1, <2>3
  <2>5. Holds(i)
    BY <2>3, <2>4
  <2>6. i + 0 = i
    BY <1>1
  <2> HIDE DEF Holds
  <2> QED BY <2>5, <2>6
<1>10. ASSUME NEW n \in Nat, n \in S PROVE n + 1 \in S
  <2> SUFFICES ASSUME i + (n + 1) <= Len(s) PROVE Holds(i + (n + 1))
    OBVIOUS
  <2>1. PICK l \in 1 .. Len(s) : l = i + n
    BY <1>1
  <2>2. l + 1 = i + (n + 1) /\ l + 1 \in 1 .. Len(s) /\ l + 1 - 1 = l /\ l \in 0 .. Len(s)
    BY <2>1, <1>1
  <2>3. Holds(l)
    <3>1. i + n <= Len(s)
      BY <2>1, <1>1
    <3> HIDE DEF Holds
    <3> QED BY <3>1, <1>10, <2>1
  <2>4. h[l + 1] = Joint(h[l], s[l + 1])
    BY <2>2, <1>2 DEF Joined
  <2>5. h[l] \in Seq(V) /\ s[l + 1] \in Seq(V)
    BY <2>2, <1>1, <1>5
  <2>6. PICK u \in Nat : u = Len(h[l])
    BY <2>5, LenProperties
  <2>7. PICK v \in Nat : v = Len(s[l + 1])
    BY <2>5, LenProperties
  <2>8. /\ Len(h[l + 1]) = u + v
        /\ \A x \in 1 .. u + v : h[l + 1][x] = IF x <= u THEN h[l][x] ELSE s[l + 1][x - u]
    <3>1. PICK p \in Seq(V), q \in Seq(V) : p = h[l] /\ q = s[l + 1]
      BY <2>5
    <3>2. /\ Len(Joint(p, q)) = Len(p) + Len(q)
          /\ \A x \in 1 .. Len(p) + Len(q) :
               Joint(p, q)[x] = IF x <= Len(p) THEN p[x] ELSE q[x - Len(p)]
      BY JointProperties
    <3> QED BY <3>1, <3>2, <2>4, <2>6, <2>7
  <2>9. b + z <= u /\ \A j \in 1 .. z : h[l][b + j] = s[i][j]
    BY <2>3, <2>6
  <2>10. ASSUME NEW j \in 1 .. z PROVE h[l + 1][b + j] = s[i][j]
    <3>1. b + j \in 1 .. u + v /\ b + j <= u
      BY <2>9
    <3> QED BY <3>1, <2>8, <2>9
  <2>11. b + z <= Len(h[l + 1])
    BY <2>8, <2>9
  <2>12. Holds(l + 1)
    BY <2>10, <2>11
  <2> HIDE DEF Holds
  <2> QED BY <2>12, <2>2
<1>11. Holds(Len(s))
  <2>1. PICK n \in Nat : i + n = Len(s)
    <3>1. Len(s) - i \in Nat /\ i + (Len(s) - i) = Len(s)
      BY <1>1
    <3> QED BY <3>1
  <2> HIDE DEF Holds
  <2>2. Nat \subseteq S
    <3> HIDE DEF S
    <3> QED BY <1>9, <1>10, NumbersByInduction
  <2>3. n \in S
    BY <2>2
  <2>4. i + n <= Len(s)
    BY <2>1, <1>1
  <2> QED BY <2>1, <2>3, <2>4
<1> QED BY <1>3, <1>4, <1>7, <1>8, <1>11 DEF PartFound

(* The fields of a file lead to the arrays that were written. *)
LEMMA FieldsRead ==
  ASSUME NEW V, NEW R, \A r \in R : r.data \in Seq(V),
         NEW arrays \in Seq(R),
         \A i, j \in 1 .. Len(arrays) : arrays[i].name = arrays[j].name => i = j,
         NEW f, f.fields = prepare_write(arrays), f.data = Data(arrays),
         NEW i \in 1 .. Len(arrays)
  PROVE  /\ validate_array_field_in_file(f, arrays[i].name, Len(arrays[i].data))
         /\ \A j \in 0 .. Len(arrays[i].data) - 1 :
              read(f, arrays[i].name, j) = arrays[i].data[j + 1]
<1> DEFINE s == [l \in 1 .. Len(arrays) |-> arrays[l].data]
           Preceding(l) == Len(Data(SubSeq(arrays, 1, l - 1)))
           Entry(l) == [name |-> arrays[l].name, size |-> Len(arrays[l].data),
                        in_file |-> <<Preceding(l), Preceding(l) + Len(arrays[l].data)>>]
<1>1. /\ Len(arrays) \in Nat /\ DOMAIN arrays = 1 .. Len(arrays)
      /\ \A l \in 1 .. Len(arrays) : arrays[l] \in R /\ arrays[l].data \in Seq(V)
  BY ElementOfSeq, LenProperties
<1>2. s \in Seq(Seq(V)) /\ Len(s) = Len(arrays) /\ Data(arrays) = FlattenSeq(s)
  BY <1>1 DEF Data
<1>3. Data(SubSeq(arrays, 1, i - 1)) = FlattenSeq(SubSeq(s, 1, i - 1))
  <2>1. PICK k \in 0 .. Len(arrays) : k = i - 1
    BY <1>1
  <2>2. /\ SubSeq(arrays, 1, k) \in Seq(R) /\ Len(SubSeq(arrays, 1, k)) = k
        /\ \A l \in 1 .. k : SubSeq(arrays, 1, k)[l] = arrays[l]
    BY <1>1
  <2>3. DOMAIN SubSeq(arrays, 1, k) = 1 .. k
    BY <2>2, LenProperties
  <2>4. SubSeq(s, 1, k) = [l \in 1 .. k |-> s[l]]
    BY <1>1, <1>2
  <2>5. \A l \in 1 .. k : SubSeq(arrays, 1, k)[l].data = s[l]
    BY <2>2, <1>1
  <2>6. [l \in DOMAIN SubSeq(arrays, 1, k) |-> SubSeq(arrays, 1, k)[l].data]
          = SubSeq(s, 1, k)
    <3> HIDE DEF s
    <3> QED BY <2>3, <2>4, <2>5
  <2> QED BY <2>1, <2>6 DEF Data
<1>4. /\ Preceding(i) \in Nat
      /\ \A j \in 1 .. Len(s[i]) : FlattenSeq(s)[Preceding(i) + j] = s[i][j]
  <2> HIDE DEF s
  <2>1. i \in 1 .. Len(s) /\ s \in Seq(Seq(V))
    BY <1>2
  <2>2. PartFound(s, i)
    BY <2>1, FlattenPart
  <2>3. /\ Len(FlattenSeq(SubSeq(s, 1, i - 1))) \in Nat
        /\ \A j \in 1 .. Len(s[i]) :
             FlattenSeq(s)[Len(FlattenSeq(SubSeq(s, 1, i - 1))) + j] = s[i][j]
    BY <2>2 DEF PartFound
  <2> QED BY <2>3, <1>3
<1>5. f.fields = [l \in 1 .. Len(arrays) |-> Entry(l)]
  BY <1>1 DEF prepare_write
<1> HIDE DEF Preceding
<1>6. field(f, arrays[i].name) = Entry(i)
  <2>1. Range(f.fields) = {Entry(l) : l \in 1 .. Len(arrays)}
    <3> HIDE DEF Entry
    <3> QED BY <1>5, SMTT(40) DEF Range
  <2>2. \A l \in 1 .. Len(arrays) : Entry(l).name = arrays[l].name
    OBVIOUS
  <2> HIDE DEF Entry
  <2>3. \A x \in Range(f.fields) : x.name = arrays[i].name => x = Entry(i)
    BY <2>1, <2>2
  <2>4. Entry(i) \in Range(f.fields) /\ Entry(i).name = arrays[i].name
    BY <2>1, <2>2
  <2> QED BY <2>3, <2>4 DEF field
<1>7. has_field(f, arrays[i].name)
  <2>1. DOMAIN f.fields = 1 .. Len(arrays) /\ f.fields[i] = Entry(i) /\ Entry(i).name = arrays[i].name
    BY <1>5
  <2> QED BY <2>1 DEF has_field
<1>8. PICK b \in Nat : b = Preceding(i)
  BY <1>4
<1>9. PICK z \in Nat : z = Len(arrays[i].data)
  BY <1>1, LenProperties
<1>10. validate_array_field_in_file(f, arrays[i].name, Len(arrays[i].data))
  BY <1>6, <1>7, <1>8, <1>9 DEF validate_array_field_in_file
<1>11. ASSUME NEW j \in 0 .. Len(arrays[i].data) - 1
       PROVE  read(f, arrays[i].name, j) = arrays[i].data[j + 1]
  <2>1. j + 1 \in 1 .. z /\ b + 1 + j = b + (j + 1)
    BY <1>9
  <2>2. field(f, arrays[i].name).in_file[1] = b
    BY <1>6, <1>8
  <2>3. read(f, arrays[i].name, j) = f.data[b + 1 + j]
    BY <2>2 DEF read
  <2>4. s[i] = arrays[i].data
    OBVIOUS
  <2>5. FlattenSeq(s)[b + (j + 1)] = s[i][j + 1]
    <3> HIDE DEF s
    <3> QED BY <2>1, <2>4, <1>4, <1>8, <1>9
  <2> HIDE DEF s
  <2> QED BY <2>1, <2>3, <2>4, <2>5, <1>2
<1> QED BY <1>10, <1>11

-----------------------------------------------------------------------------
(* Groups and nodes without a capacity: the nodes of the first k groups. *)
LEMMA FirstGroups ==
  ASSUME NEW k \in Nat \ {0}
  PROVE  /\ no_nodes(k) \in Nat \ {0}
         /\ sibling_group(no_nodes(k)) = k
         /\ no_sibling_groups(no_nodes(k)) = k
         /\ \A n \in Nat :
              /\ sibling_group(n) \in Nat
              /\ n < no_nodes(k) <=> sibling_group(n) < k
              /\ sibling_group(n) = 0 <=> n = 0
         /\ \A s \in 1 .. k - 1 :
              /\ first_node(s) \in 1 .. no_nodes(k) - 1
              /\ first_node(s) + NC - 1 \in 1 .. no_nodes(k) - 1
              /\ sibling_group(first_node(s)) = s
<1> USE DEF no_nodes, sibling_group, no_sibling_groups, first_node
<1>1. CASE NC = 2 BY <1>1
<1>2. CASE NC = 4 BY <1>2
<1>3. CASE NC = 8 BY <1>3
<1> QED BY <1>1, <1>2, <1>3, NCAssumption

(* A capacity is rounded up to whole groups. *)
LEMMA RoundedUp ==
  ASSUME NEW n \in Nat \ {0}
  PROVE  /\ no_sibling_groups(n) \in Nat \ {0}
         /\ n <= no_nodes(no_sibling_groups(n))
         /\ \A k \in Nat \ {0} : no_nodes(k) <= n => k <= no_sibling_groups(n)
<1> USE DEF no_nodes, sibling_group, no_sibling_groups
<1>1. CASE NC = 2 BY <1>1
<1>2. CASE NC = 4 BY <1>2
<1>3. CASE NC = 8 BY <1>3
<1> QED BY <1>1, <1>2, <1>3, NCAssumption

(* The table of grid nodes: rows and columns of an element and the number of *)
(* columns.                                                                  *)
LEMMA TableIndex ==
  ASSUME NEW rows \in Nat \ {0}, NEW cols \in Nat
  PROVE  /\ rows * cols \in Nat
         /\ \A n \in 0 .. rows - 1, g \in 0 .. cols - 1 :
              /\ matrix_idx(n, g, rows) \in 0 .. rows * cols - 1
              /\ matrix_idx(n, g, rows) % rows = n
              /\ matrix_idx(n, g, rows) \div rows = g
         /\ \A t : DOMAIN t = 0 .. rows * cols - 1 => columns(t, rows) = cols
<1>1. PICK z \in Nat : z = rows * cols
  OBVIOUS
<1>2. ASSUME NEW n \in 0 .. rows - 1, NEW g \in Nat
      PROVE  /\ rows * g + n \in Nat
             /\ (rows * g + n) % rows = n
             /\ (rows * g + n) \div rows = g
  <2>1. PICK y \in Nat : y = rows * g
    OBVIOUS
  <2>2. PICK x \in Nat : x = y + n
    BY <2>1
  <2>3. PICK q \in Int : q = x \div rows
    OBVIOUS
  <2>4. PICK r \in 0 .. rows - 1 : r = x % rows
    OBVIOUS
  <2>5. x = rows * q + r
    BY <2>3, <2>4
  <2>6. rows * q <= x /\ x < rows * q + rows
    BY <2>5
  <2>7. q = g
    <3>1. CASE q < g
      <4>1. rows * (q + 1) <= rows * g
        BY <3>1
      <4>2. rows * (q + 1) = rows * q + rows
        OBVIOUS
      <4> QED BY <4>1, <4>2, <2>1, <2>2, <2>6
    <3>2. CASE g < q
      <4>1. rows * (g + 1) <= rows * q
        BY <3>2
      <4>2. rows * (g + 1) = rows * g + rows
        OBVIOUS
      <4> QED BY <4>1, <4>2, <2>1, <2>2, <2>6
    <3> QED BY <3>1, <3>2
  <2>8. r = n
    BY <2>5, <2>7, <2>1, <2>2
  <2> QED BY <2>1, <2>2, <2>3, <2>4, <2>7, <2>8
<1>3. ASSUME NEW n \in 0 .. rows - 1, NEW g \in 0 .. cols - 1
      PROVE  /\ matrix_idx(n, g, rows) \in 0 .. rows * cols - 1
             /\ matrix_idx(n, g, rows) % rows = n
             /\ matrix_idx(n, g, rows) \div rows = g
  <2>1. matrix_idx(n, g, rows) = rows * g + n
    BY DEF matrix_idx
  <2>2. g \in Nat /\ rows * (g + 1) <= rows * cols
    OBVIOUS
  <2>3. rows * (g + 1) = rows * g + rows
    OBVIOUS
  <2>4. PICK y \in Nat : y = rows * g
    BY <2>2
  <2>5. rows * g + n \in 0 .. rows * cols - 1
    BY <2>2, <2>3, <2>4, <1>1
  <2> QED BY <2>1, <2>2, <2>5, <1>2
<1>4. ASSUME NEW t, DOMAIN t = 0 .. rows * cols - 1
      PROVE  columns(t, rows) = cols
  <2>1. Cardinality(DOMAIN t) = z
    <3>1. Cardinality(0 .. z - 1) = IF 0 > z - 1 THEN 0 ELSE z - 1 - 0 + 1
      BY FS_Interval
    <3> QED BY <3>1, <1>1, <1>4
  <2>2. z = rows * cols + 0
    BY <1>1
  <2>3. 0 \in 0 .. rows - 1
    OBVIOUS
  <2>4. (rows * cols + 0) \div rows = cols
    BY <2>3, <1>2
  <2> QED BY <2>1, <2>2, <2>4 DEF columns
<1> QED BY <1>1, <1>3, <1>4

(* The last element of a table. *)
TableEnd(rows, cols) == rows * cols - 1

(* Every node and grid has an element of the table, whose row and column *)
(* are theirs.                                                           *)
TableElement(rows, cols, n, g) ==
  \E z \in 0 .. TableEnd(rows, cols) :
    z = matrix_idx(n, g, rows) /\ z % rows = n /\ z \div rows = g

LEMMA TableEntry ==
  ASSUME NEW rows \in Nat \ {0}, NEW cols \in Nat,
         NEW n \in 0 .. rows - 1, NEW g \in 0 .. cols - 1
  PROVE  TableElement(rows, cols, n, g)
<1>1. \A x \in 0 .. rows - 1, y \in 0 .. cols - 1 :
        /\ matrix_idx(x, y, rows) \in 0 .. rows * cols - 1
        /\ matrix_idx(x, y, rows) % rows = x
        /\ matrix_idx(x, y, rows) \div rows = y
  BY TableIndex, Zenon
<1>2. \A x \in 0 .. rows - 1, y \in 0 .. cols - 1 :
        /\ matrix_idx(x, y, rows) \in 0 .. TableEnd(rows, cols)
        /\ matrix_idx(x, y, rows) % rows = x
        /\ matrix_idx(x, y, rows) \div rows = y
  BY <1>1, Zenon DEF TableEnd
<1> QED BY <1>2, Zenon DEF TableElement

-----------------------------------------------------------------------------
(* What a file that was written stands for. *)

(* A tree of k groups without a free one: P[s] is the parent of group s, F[n] *)
(* the first child of node n, path[n] the position of node n.                 *)
Whole(P, F, path, k) ==
  /\ k \in Nat \ {0}
  /\ P[0] = None
  /\ \A s \in 1 .. k - 1 :
       P[s] \in 0 .. no_nodes(k) - 1 /\ F[P[s]] = first_node(s)
  /\ \A n \in 0 .. no_nodes(k) - 1 :
       F[n] = None \/ \E s \in 1 .. k - 1 : F[n] = first_node(s) /\ P[s] = n
  /\ \A X \in SUBSET (1 .. k - 1) :
       X # {} => \E s \in X : sibling_group(P[s]) \notin X
  /\ path = [n \in 0 .. no_nodes(k) - 1 |->
               IF n = 0 THEN <<>>
               ELSE Append(path[P[sibling_group(n)]], position_in_parent(n))]

(* The file has its arrays, and in those of the grids the table C. *)
FileOf(f, P, F, C, k, cols) ==
  /\ f.spatial_dimension = NC
  /\ f.no_tree_nodes = no_nodes(k)
  /\ cols \in Nat
  /\ f.no_grids = IF f.type = "multi" THEN cols ELSE 0
  /\ check_fields(f) = "read"
  /\ \A s \in 0 .. k - 1 : read(f, <<"parents">>, s) = P[s]
  /\ \A n \in 0 .. no_nodes(k) - 1 : read(f, <<"first_children">>, n) = F[n]
  /\ \A g \in 0 .. f.no_grids - 1, n \in 0 .. no_nodes(k) - 1 :
       read(f, <<"grid", g>>, n) = C[<<n, g>>]

(* What the object was when it was written. *)
ValueOf(v, F, C, path, k, cols) ==
  /\ v.refined = {path[n] : n \in {n \in 0 .. no_nodes(k) - 1 : F[n] # None}}
  /\ v.cells = {<<path[n], g, C[<<n, g>>]>> :
                  n \in 0 .. no_nodes(k) - 1, g \in 0 .. cols - 1}

Holds(f, v) ==
  \E P, F, C, path, k, cols :
    Whole(P, F, path, k) /\ FileOf(f, P, F, C, k, cols) /\ ValueOf(v, F, C, path, k, cols)

(* The positions in an object that has the edges of such a tree. *)
LEMMA PathsOfWhole ==
  ASSUME NEW P, NEW F, NEW path, NEW k, Whole(P, F, path, k),
         NEW m, UsedIn(m) = 0 .. no_nodes(k) - 1,
         \A s \in 1 .. k - 1 : m.parents[s] = P[s]
  PROVE  PathsIn(m) = path
<1> DEFINE U == 0 .. no_nodes(k) - 1
           At(p, n) == IF n = 0 THEN <<>>
                       ELSE Append(p[m.parents[sibling_group(n)]], position_in_parent(n))
           Is(p) == p = [n \in U |-> At(p, n)]
           c == CHOOSE p : Is(p)
<1>1. \A n \in U \ {0} :
        /\ sibling_group(n) \in 1 .. k - 1
        /\ P[sibling_group(n)] \in U
        /\ m.parents[sibling_group(n)] = P[sibling_group(n)]
  <2> SUFFICES ASSUME NEW n \in U \ {0} PROVE sibling_group(n) \in 1 .. k - 1
    BY DEF Whole
  <2>1. k \in Nat \ {0} /\ no_nodes(k) \in Nat
    BY FirstGroups DEF Whole
  <2>2. n \in Nat /\ n # 0 /\ n < no_nodes(k)
    BY <2>1
  <2>3. sibling_group(n) \in Nat /\ sibling_group(n) < k /\ sibling_group(n) # 0
    BY <2>1, <2>2, FirstGroups
  <2> QED BY <2>1, <2>3
<1>2. Is(path)
  <2>1. path = [n \in U |-> IF n = 0 THEN <<>>
                 ELSE Append(path[P[sibling_group(n)]], position_in_parent(n))]
    BY DEF Whole
  <2>2. \A n \in U : At(path, n) = IF n = 0 THEN <<>>
                 ELSE Append(path[P[sibling_group(n)]], position_in_parent(n))
    BY <1>1
  <2> HIDE DEF At
  <2>3. [n \in U |-> IF n = 0 THEN <<>>
          ELSE Append(path[P[sibling_group(n)]], position_in_parent(n))]
        = [n \in U |-> At(path, n)]
    BY <2>2
  <2> QED BY <2>1, <2>3
<1>3. Is(c)
  <2> HIDE DEF Is
  <2> QED BY <1>2
<1>4. PathsIn(m) = c
  BY Zenon DEF PathsIn
<1> HIDE DEF c
<1> DEFINE X == {n \in U : c[n] # path[n]}
<1>5. ASSUME X # {} PROVE FALSE
  <2>1. \A n \in U : c[n] = At(c, n) /\ path[n] = At(path, n)
    <3> HIDE DEF At
    <3> QED BY <1>2, <1>3
  <2>2. 0 \notin X
    BY <2>1
  <2> DEFINE G == {sibling_group(n) : n \in X}
  <2>3. G \in SUBSET (1 .. k - 1) /\ G # {}
    BY <1>1, <1>5, <2>2
  <2>4. PICK s \in G : sibling_group(P[s]) \notin G
    <3> HIDE DEF G
    <3> QED BY <2>3 DEF Whole
  <2>5. PICK n \in X : s = sibling_group(n)
    BY <2>4
  <2>6. P[s] \in U \ X /\ m.parents[s] = P[s]
    BY <1>1, <2>2, <2>4, <2>5
  <2>7. c[P[s]] = path[P[s]]
    BY <2>6
  <2>8. c[n] = path[n]
    BY <2>1, <2>2, <2>5, <2>6, <2>7
  <2> QED BY <2>5, <2>8
<1>6. c = [n \in U |-> c[n]] /\ path = [n \in U |-> path[n]]
  <2> HIDE DEF At
  <2> QED BY <1>2, <1>3
<1>7. \A n \in U : c[n] = path[n]
  BY <1>5
<1> HIDE DEF U, X, Is
<1> QED BY <1>4, <1>6, <1>7

-----------------------------------------------------------------------------
(* Writing. *)

(* The object in memory stands for the positions that are refined. *)
LEMMA PathsOfMemory ==
  ASSUME Storage
  PROVE  UsedIn(Memory) = UsedNodes /\ PathsIn(Memory) = Path
<1> DEFINE At(p, n) == IF n = 0 THEN <<>>
                       ELSE Append(p[Memory.parents[sibling_group(n)]], position_in_parent(n))
           Is(p) == p = [n \in UsedIn(Memory) |-> At(p, n)]
<1>1. UsedIn(Memory) = UsedNodes
  <2>1. Memory.parents = parents_ /\ Memory.first_children = first_children_
    BY DEF Memory
  <2>2. DOMAIN first_children_ = Node
    BY DEF Storage, TypeOK
  <2>3. \A n \in Node : n = 0 <=> sibling_group(n) = 0
    <3>1. CASE NC = 2 BY <3>1, CapacityOfGroups DEF sibling_group, Node
    <3>2. CASE NC = 4 BY <3>2, CapacityOfGroups DEF sibling_group, Node
    <3>3. CASE NC = 8 BY <3>3, CapacityOfGroups DEF sibling_group, Node
    <3> QED BY <3>1, <3>2, <3>3, NCAssumption
  <2> QED BY <2>1, <2>2, <2>3 DEF UsedIn, UsedNodes, is_free
<1>2. \A p : \A n \in UsedNodes : At(p, n) = PathAt(p, n)
  BY DEF PathAt, parent, Memory
<1>3. \A p : Is(p) <=> IsPath(p)
  <2> SUFFICES ASSUME NEW p PROVE Is(p) <=> IsPath(p)
    OBVIOUS
  <2>1. [n \in UsedNodes |-> At(p, n)] = [n \in UsedNodes |-> PathAt(p, n)]
    <3> HIDE DEF At
    <3> QED BY <1>2
  <2> HIDE DEF At
  <2> QED BY <1>1, <2>1 DEF IsPath
<1> DEFINE c == CHOOSE p : Is(p)
<1>4. Is(Path)
  BY <1>3, PathRecursion
<1>5. Is(c)
  <2> HIDE DEF Is
  <2> QED BY <1>4
<1>6. PathsIn(Memory) = c
  BY Zenon DEF PathsIn
<1> HIDE DEF c, Is
<1>7. IsPath(c) /\ IsPath(Path)
  BY <1>3, <1>5, PathRecursion
<1>8. \A n \in UsedNodes : c[n] = PathAt(c, n) /\ Path[n] = PathAt(Path, n)
  BY <1>7 DEF IsPath
<1>9. \A n \in UsedNodes : c[n] = Path[n]
  <2>1. Upward(UsedNodes)
    BY ParentOfNode DEF Upward
  <2> QED BY <1>8, <2>1, PathsAgree
<1>10. c = [n \in UsedNodes |-> c[n]] /\ Path = [n \in UsedNodes |-> Path[n]]
  BY <1>7 DEF IsPath
<1>11. c = Path
  BY <1>9, <1>10
<1> QED BY <1>1, <1>6, <1>11

(* What the object in memory stands for is the tree of module Tree. *)
LEMMA ValueOfMemory ==
  ASSUME Storage
  PROVE  Value(Memory).refined = RefinedPaths
<1>1. /\ Value(Memory).refined
           = {PathsIn(Memory)[n] : n \in {n \in UsedIn(Memory) : Memory.first_children[n] # None}}
      /\ Memory.first_children = first_children_
  BY DEF Value, Memory
<1> QED BY <1>1, PathsOfMemory DEF RefinedPaths, is_leaf

(* The groups of a tree without free groups. *)
LEMMA CompactGroups ==
  ASSUME Storage, IsCompact, NoFreeGroups
  PROVE  \E k \in 1 .. sg_capacity_ :
           /\ size_ = no_nodes(k)
           /\ sibling_groups = 0 .. k - 1
           /\ UsedNodes = 0 .. no_nodes(k) - 1
<1>1. PICK k \in 1 .. sg_capacity_ : k = Cardinality(sibling_groups)
  BY GroupsInUse
<1>2. IsFiniteSet(sibling_groups) /\ sg_capacity_ \in Nat \ {0} /\ k \in Nat \ {0}
  BY GroupsInUse, CapacityOfGroups
<1>3. size_ = no_nodes(k)
  BY <1>1 DEF Storage, SizeCountsNodes
<1>4. sibling_group(size_) = k
  BY <1>2, <1>3, FirstGroups
<1>5. 0 .. k - 1 \subseteq sibling_groups
  BY <1>2, <1>4 DEF NoFreeGroups, sibling_groups, SiblingGroup
<1>6. Cardinality(0 .. k - 1) = k
  <2>1. Cardinality(0 .. k - 1) = IF 0 > k - 1 THEN 0 ELSE k - 1 - 0 + 1
    BY <1>2, FS_Interval
  <2> QED BY <1>2, <2>1
<1>7. sibling_groups = 0 .. k - 1
  BY <1>1, <1>2, <1>5, <1>6, FS_Subset
<1>8. UsedNodes = 0 .. no_nodes(k) - 1
  <2>1. no_nodes(k) <= capacity /\ capacity \in Nat /\ no_nodes(k) \in Nat
    BY <1>1, <1>3, GroupsInUse, CapacityOfGroups
  <2>2. ASSUME NEW n \in Node
        PROVE  n \in UsedNodes <=> n < no_nodes(k)
    <3>1. n \in Nat /\ sibling_group(n) \in SiblingGroup
      BY <2>1, GroupOfNode DEF Node
    <3>2. n \in UsedNodes <=> sibling_group(n) \in 0 .. k - 1
      BY <1>7, <3>1 DEF UsedNodes, sibling_groups
    <3>3. n < no_nodes(k) <=> sibling_group(n) < k
      BY <1>2, <3>1, FirstGroups
    <3> QED BY <3>1, <3>2, <3>3, <1>2 DEF SiblingGroup
  <2>3. UsedNodes \subseteq Node
    BY DEF UsedNodes
  <2>4. 0 .. no_nodes(k) - 1 = {n \in Node : n < no_nodes(k)}
    BY <2>1 DEF Node
  <2> QED BY <2>2, <2>3, <2>4
<1> QED BY <1>1, <1>3, <1>7, <1>8

(* In memory such a tree has an edge to and from every group, and no group *)
(* is its own ancestor.                                                    *)
LEMMA WholeMemory ==
  ASSUME Storage, NEW k \in 1 .. sg_capacity_,
         sibling_groups = 0 .. k - 1, UsedNodes = 0 .. no_nodes(k) - 1
  PROVE  Whole(parents_, first_children_, Path, k)
<1>1. k \in Nat \ {0}
  BY CapacityOfGroups
<1>2. parents_[0] = None
  BY DEF Storage, EdgesAgree
<1>3. ASSUME NEW s \in 1 .. k - 1
      PROVE  /\ parents_[s] \in 0 .. no_nodes(k) - 1
             /\ first_children_[parents_[s]] = first_node(s)
  <2>1. s \in sibling_groups \ {0} /\ s \in SiblingGroup \ {0} /\ s \in Nat
    BY <1>1, CapacityOfGroups DEF SiblingGroup
  <2>2. parents_[s] # None
    BY <2>1 DEF sibling_groups, is_free
  <2>3. first_children_[parents_[s]] = first_node(s)
    BY <2>1, <2>2 DEF Storage, EdgesAgree
  <2>4. first_node(s) \in Nat /\ sibling_group(first_node(s)) = s /\ first_node(s) # 0
          /\ first_node(s) < no_nodes(k)
    <3>1. no_nodes(k) \in Nat
      BY <1>1, FirstGroups
    <3>2. first_node(s) \in 1 .. no_nodes(k) - 1 /\ sibling_group(first_node(s)) = s
      BY <1>1, FirstGroups
    <3> QED BY <3>1, <3>2
  <2>5. first_node(s) \in UsedNodes \ {0} /\ no_nodes(k) \in Nat
    BY <1>1, <2>4, FirstGroups
  <2>6. parent(first_node(s)) \in UsedNodes
    BY <2>5, ParentOfNode
  <2> QED BY <2>3, <2>4, <2>6 DEF parent
<1>4. ASSUME NEW n \in 0 .. no_nodes(k) - 1, first_children_[n] # None
      PROVE  \E s \in 1 .. k - 1 : first_children_[n] = first_node(s) /\ parents_[s] = n
  <2>1. n \in Node
    BY DEF UsedNodes
  <2>2. PICK s \in SiblingGroup \ {0} : first_children_[n] = first_node(s) /\ parents_[s] = n
    BY <1>4, <2>1 DEF Storage, EdgesAgree, is_leaf
  <2>3. s \in sibling_groups
    BY <2>1, <2>2 DEF sibling_groups, is_free, Node, None
  <2>4. s \in 1 .. k - 1
    BY <2>2, <2>3
  <2> QED BY <2>2, <2>4
<1>5. \A X \in SUBSET (1 .. k - 1) : X # {} => \E s \in X : sibling_group(parents_[s]) \notin X
  <2>1. 1 .. k - 1 \subseteq sibling_groups \ {0}
    BY <1>1
  <2> QED BY <2>1 DEF Storage, NoOrphans
<1>6. Path = [n \in 0 .. no_nodes(k) - 1 |->
               IF n = 0 THEN <<>>
               ELSE Append(Path[parents_[sibling_group(n)]], position_in_parent(n))]
  <2>1. Path = [n \in UsedNodes |-> PathAt(Path, n)]
    BY PathRecursion DEF IsPath
  <2> QED BY <2>1 DEF PathAt, parent
<1> QED BY <1>1, <1>2, <1>3, <1>4, <1>5, <1>6 DEF Whole

(* The arrays that are written have names of their own. *)
LEMMA ArraysNamed ==
  ASSUME NEW type, NEW G \in Nat, G = IF type = "multi" THEN no_grids ELSE 0
  PROVE  /\ Len(map_arrays(type)) = G + 2
         /\ map_arrays(type) \in Seq({map_arrays(type)[i] : i \in 1 .. G + 2})
         /\ map_arrays(type)[1]
              = [name |-> <<"first_children">>, data |-> Elements(first_children_, size_)]
         /\ \A i \in 1 .. G :
              map_arrays(type)[i + 1] = [name |-> <<"grid", i - 1>>, data |-> Column(i - 1, size_)]
         /\ map_arrays(type)[G + 2]
              = [name |-> <<"parents">>, data |-> Elements(parents_, no_sibling_groups(size_))]
<1> DEFINE a == [name |-> <<"first_children">>, data |-> Elements(first_children_, size_)]
           b == [name |-> <<"parents">>, data |-> Elements(parents_, no_sibling_groups(size_))]
           c(i) == [name |-> <<"grid", i - 1>>, data |-> Column(i - 1, size_)]
           R == {a, b} \cup {c(i) : i \in 1 .. G}
           t == [i \in 1 .. G |-> c(i)]
<1>1. map_arrays(type) = <<a>> \o t \o <<b>>
  BY DEF map_arrays
<1> HIDE DEF a, b, c
<1>2. <<a>> \in Seq(R) /\ <<b>> \in Seq(R) /\ t \in Seq(R) /\ Len(t) = G
  OBVIOUS
<1>3. /\ Len(<<a>>) = 1 /\ <<a>>[1] = a /\ Len(<<b>>) = 1 /\ <<b>>[1] = b
      /\ \A i \in 1 .. G : t[i] = c(i)
  OBVIOUS
<1> HIDE DEF R, t
<1>4. PICK u \in Seq(R) : u = <<a>> \o t
  BY <1>2, ConcatProperties
<1>5. /\ Len(u) = G + 1
      /\ \A i \in 1 .. G + 1 : u[i] = IF i <= 1 THEN a ELSE t[i - 1]
  <2>1. /\ Len(<<a>> \o t) = Len(<<a>>) + Len(t)
        /\ \A i \in 1 .. Len(<<a>>) + Len(t) :
             (<<a>> \o t)[i] = IF i <= Len(<<a>>) THEN <<a>>[i] ELSE t[i - Len(<<a>>)]
    BY <1>2, ConcatProperties
  <2> QED BY <2>1, <1>2, <1>3, <1>4
<1>6. /\ u \o <<b>> \in Seq(R)
      /\ Len(u \o <<b>>) = G + 2
      /\ \A i \in 1 .. G + 2 : (u \o <<b>>)[i] = IF i <= G + 1 THEN u[i] ELSE b
  <2>1. /\ u \o <<b>> \in Seq(R)
        /\ Len(u \o <<b>>) = Len(u) + Len(<<b>>)
        /\ \A i \in 1 .. Len(u) + Len(<<b>>) :
             (u \o <<b>>)[i] = IF i <= Len(u) THEN u[i] ELSE <<b>>[i - Len(u)]
    BY <1>2, ConcatProperties
  <2> QED BY <2>1, <1>3, <1>5
<1>7. map_arrays(type) = u \o <<b>>
  BY <1>1, <1>4
<1>8. u \o <<b>> \in Seq({(u \o <<b>>)[i] : i \in 1 .. G + 2})
  <2>1. PICK v \in Seq(R) : v = u \o <<b>> /\ Len(v) = G + 2
    BY <1>6
  <2>2. v \in [1 .. G + 2 -> {v[i] : i \in 1 .. G + 2}]
    BY <2>1, LenProperties
  <2>3. v \in Seq({v[i] : i \in 1 .. G + 2})
    BY <2>2, SeqDef
  <2> QED BY <2>1, <2>3
<1>9. (u \o <<b>>)[1] = a /\ (u \o <<b>>)[G + 2] = b
  BY <1>5, <1>6
<1>10. ASSUME NEW i \in 1 .. G PROVE (u \o <<b>>)[i + 1] = c(i)
  <2>1. i + 1 \in 1 .. G + 1 /\ i + 1 \in 1 .. G + 2 /\ ~(i + 1 <= 1) /\ i + 1 - 1 = i
    OBVIOUS
  <2>2. (u \o <<b>>)[i + 1] = u[i + 1]
    BY <2>1, <1>6
  <2>3. u[i + 1] = t[i]
    BY <2>1, <1>5
  <2> QED BY <2>2, <2>3, <1>3
<1>11. PICK w : w = u \o <<b>>
  OBVIOUS
<1>12. /\ map_arrays(type) = w
       /\ Len(w) = G + 2
       /\ w \in Seq({w[i] : i \in 1 .. G + 2})
       /\ w[1] = a /\ w[G + 2] = b
       /\ \A i \in 1 .. G : w[i + 1] = c(i)
  <2>1. map_arrays(type) = w
    BY <1>7, <1>11
  <2>2. Len(w) = G + 2
    BY <1>6, <1>11
  <2>3. w \in Seq({w[i] : i \in 1 .. G + 2})
    BY <1>8, <1>11
  <2>4. w[1] = a /\ w[G + 2] = b
    BY <1>9, <1>11
  <2>5. \A i \in 1 .. G : w[i + 1] = c(i)
    BY <1>10, <1>11
  <2> QED BY <2>1, <2>2, <2>3, <2>4, <2>5
<1> QED BY <1>12 DEF a, b, c

(* The fields of a named array. *)
LEMMA ArrayFields ==
  ASSUME NEW x, NEW a, NEW b, x = [name |-> a, data |-> b]
  PROVE  x.name = a /\ x.data = b
OBVIOUS

(* An array is a sequence of its length. *)
LEMMA ArrayOfLength ==
  ASSUME NEW V, NEW n \in Nat, NEW a \in [1 .. n -> V]
  PROVE  a \in Seq(V) /\ Len(a) = n
OBVIOUS

(* The table of the grid nodes: for every node and grid of so many grids. *)
GridTable(cols) == cols \in Nat /\ DOMAIN grids_ = 0 .. capacity * cols - 1

(* The file of a compact tree has its edges and its table of grid nodes. *)
LEMMA FileOfMemory ==
  ASSUME Storage, NEW k \in 1 .. sg_capacity_, size_ = no_nodes(k),
         NEW cols, GridTable(cols), NEW type,
         NEW C, \A n \in 0 .. size_ - 1, g \in 0 .. cols - 1 :
                  C[<<n, g>>] = grids_[matrix_idx(n, g, capacity)]
  PROVE  FileOf(File(type), parents_, first_children_, C, k, cols)
<1> DEFINE f == File(type)
           G == IF type = "multi" THEN cols ELSE 0
           arrays == map_arrays(type)
           V == {grids_[x] : x \in DOMAIN grids_} \cup Node \cup {None}
           R == {arrays[i] : i \in 1 .. G + 2}
<1>1. /\ k \in Nat \ {0} /\ capacity \in Nat \ {0} /\ size_ \in Nat \ {0}
      /\ no_sibling_groups(size_) = k /\ size_ <= capacity /\ cols \in Nat
  <2>1. k \in Nat \ {0} /\ capacity \in Nat \ {0}
    BY CapacityOfGroups
  <2>2. no_sibling_groups(size_) = k
    BY <2>1, FirstGroups
  <2>3. size_ \in 1 .. capacity
    BY DEF Storage, TypeOK
  <2>4. cols \in Nat
    BY DEF GridTable
  <2> QED BY <2>1, <2>2, <2>3, <2>4
<1>2. no_grids = cols
  BY <1>1, TableIndex DEF no_grids, GridTable
<1>3. G \in Nat /\ G = IF type = "multi" THEN no_grids ELSE 0
  BY <1>1, <1>2
<1>4. /\ Len(arrays) = G + 2 /\ arrays \in Seq(R)
      /\ arrays[1] = [name |-> <<"first_children">>, data |-> Elements(first_children_, size_)]
      /\ \A i \in 1 .. G : arrays[i + 1] = [name |-> <<"grid", i - 1>>, data |-> Column(i - 1, size_)]
      /\ arrays[G + 2] = [name |-> <<"parents">>, data |-> Elements(parents_, no_sibling_groups(size_))]
  <2> HIDE DEF G
  <2> QED BY <1>3, ArraysNamed
<1>5. /\ f.type = type /\ f.spatial_dimension = NC /\ f.no_tree_nodes = size_
      /\ f.no_grids = G
      /\ f.fields = prepare_write(arrays) /\ f.data = Data(arrays)
  BY <1>2 DEF File
<1> HIDE DEF G, f, arrays, V
<1>6. /\ Elements(first_children_, size_) = [i \in 1 .. size_ |-> first_children_[i - 1]]
      /\ Elements(parents_, k) = [i \in 1 .. k |-> parents_[i - 1]]
      /\ \A g : Column(g, size_) = [i \in 1 .. size_ |-> grids_[matrix_idx(i - 1, g, capacity)]]
  BY DEF Elements, Column
<1>7. /\ Elements(first_children_, size_) \in Seq(V) /\ Len(Elements(first_children_, size_)) = size_
      /\ Elements(parents_, k) \in Seq(V) /\ Len(Elements(parents_, k)) = k
  <2>1. \A i \in 1 .. size_ : first_children_[i - 1] \in V
    <3>1. \A i \in 1 .. size_ : i - 1 \in Node
      BY <1>1 DEF Node
    <3> QED BY <3>1 DEF Storage, TypeOK, V
  <2>2. \A i \in 1 .. k : parents_[i - 1] \in V
    <3>1. \A i \in 1 .. k : i - 1 \in SiblingGroup
      BY <1>1, CapacityOfGroups DEF SiblingGroup
    <3> QED BY <3>1 DEF Storage, TypeOK, V
  <2>3. Elements(first_children_, size_) \in [1 .. size_ -> V]
    BY <1>6, <2>1
  <2>4. Elements(parents_, k) \in [1 .. k -> V]
    BY <1>6, <2>2
  <2> QED BY <1>1, <2>3, <2>4, ArrayOfLength
<1>8. ASSUME NEW g \in 0 .. cols - 1
      PROVE  Column(g, size_) \in Seq(V) /\ Len(Column(g, size_)) = size_
  <2>1. ASSUME NEW i \in 1 .. size_ PROVE grids_[matrix_idx(i - 1, g, capacity)] \in V
    <3>1. i - 1 \in 0 .. capacity - 1
      BY <1>1
    <3>2. matrix_idx(i - 1, g, capacity) \in 0 .. capacity * cols - 1
      BY <1>1, <3>1, TableIndex
    <3> QED BY <3>2 DEF GridTable, V
  <2>2. Column(g, size_) \in [1 .. size_ -> V]
    BY <1>6, <2>1
  <2> QED BY <1>1, <2>2, ArrayOfLength
<1>9. \A i \in 1 .. G : i - 1 \in 0 .. cols - 1
  BY <1>1 DEF G
<1>10. \A r \in R : r.data \in Seq(V)
  <2>1. ASSUME NEW i \in 1 .. G + 2 PROVE arrays[i].data \in Seq(V)
    <3>1. CASE i = 1
      BY <3>1, <1>4, <1>7
    <3>2. CASE i = G + 2
      BY <3>2, <1>1, <1>4, <1>7
    <3>3. CASE i # 1 /\ i # G + 2
      <4>1. PICK j \in 1 .. G : i = j + 1
        <5>1. i - 1 \in 1 .. G /\ i = i - 1 + 1
          BY <3>3, <1>3
        <5> QED BY <5>1
      <4>2. arrays[i].data = Column(j - 1, size_)
        <5>1. arrays[i] = [name |-> <<"grid", j - 1>>, data |-> Column(j - 1, size_)]
          BY <4>1, <1>4, Zenon
        <5> QED BY <5>1, ArrayFields
      <4> QED BY <4>1, <4>2, <1>8, <1>9
    <3> QED BY <3>1, <3>2, <3>3
  <2> QED BY <2>1
<1>11. ASSUME NEW i \in 1 .. Len(arrays), NEW j \in 1 .. Len(arrays), arrays[i].name = arrays[j].name
       PROVE  i = j
  <2>1. \A l \in 1 .. G + 2 : \/ l = 1 /\ arrays[l].name = <<"first_children">>
                              \/ l = G + 2 /\ arrays[l].name = <<"parents">>
                              \/ l - 1 \in 1 .. G /\ arrays[l].name = <<"grid", l - 2>>
    <3> SUFFICES ASSUME NEW l \in 1 .. G + 2, l # 1, l # G + 2
                 PROVE  l - 1 \in 1 .. G /\ arrays[l].name = <<"grid", l - 2>>
      BY <1>4, SMTT(40)
    <3>1. l - 1 \in 1 .. G /\ l - 1 + 1 = l /\ l - 1 - 1 = l - 2
      BY <1>3
    <3>2. arrays[l - 1 + 1] = [name |-> <<"grid", l - 1 - 1>>, data |-> Column(l - 1 - 1, size_)]
      BY <3>1, <1>4, Zenon
    <3>3. arrays[l - 1 + 1].name = <<"grid", l - 1 - 1>>
      BY <3>2, ArrayFields
    <3> QED BY <3>1, <3>3
  <2>2. \A x : <<"first_children">> # <<"grid", x>> /\ <<"parents">> # <<"grid", x>>
    <3> SUFFICES ASSUME NEW x
                 PROVE  <<"first_children">> # <<"grid", x>> /\ <<"parents">> # <<"grid", x>>
      OBVIOUS
    <3>1. Len(<<"grid", x>>) = 2
      OBVIOUS
    <3>2. Len(<<"first_children">>) = 1 /\ Len(<<"parents">>) = 1
      OBVIOUS
    <3> QED BY <3>1, <3>2, Zenon
  <2>3. <<"first_children">> # <<"parents">>
    OBVIOUS
  <2>4. \A x, y : <<"grid", x>> = <<"grid", y>> => x = y
    OBVIOUS
  <2>5. i \in 1 .. G + 2 /\ j \in 1 .. G + 2
    BY <1>4
  <2>6. CASE arrays[i].name = <<"first_children">>
    BY <2>6, <2>1, <2>2, <2>3, <2>5, <1>11
  <2>7. CASE arrays[i].name = <<"parents">>
    BY <2>7, <2>1, <2>2, <2>3, <2>5, <1>11
  <2>8. CASE arrays[i].name = <<"grid", i - 2>>
    <3>1. arrays[j].name = <<"grid", j - 2>>
      BY <2>8, <2>1, <2>2, <2>5, <1>11
    <3>2. i - 2 = j - 2
      BY <2>8, <3>1, <2>4, <1>11
    <3> QED BY <3>2, <2>5, <1>3
  <2> QED BY <2>1, <2>5, <2>6, <2>7, <2>8
<1> HIDE DEF R
<1>12. ASSUME NEW i \in 1 .. G + 2
       PROVE  /\ validate_array_field_in_file(f, arrays[i].name, Len(arrays[i].data))
              /\ \A j \in 0 .. Len(arrays[i].data) - 1 :
                   read(f, arrays[i].name, j) = arrays[i].data[j + 1]
  <2>1. i \in 1 .. Len(arrays) /\ arrays \in Seq(R)
    BY <1>4
  <2>2. \A l, j \in 1 .. Len(arrays) : arrays[l].name = arrays[j].name => l = j
    BY <1>11
  <2> QED BY <2>1, <2>2, <1>5, <1>10, FieldsRead, SMTT(40)
<1>13. /\ validate_array_field_in_file(f, <<"first_children">>, size_)
       /\ \A n \in 0 .. size_ - 1 : read(f, <<"first_children">>, n) = first_children_[n]
  <2>1. 1 \in 1 .. G + 2
    BY <1>3
  <2>2. \A j \in 0 .. size_ - 1 : Elements(first_children_, size_)[j + 1] = first_children_[j]
    BY <1>1, <1>6
  <2>3. arrays[1].name = <<"first_children">> /\ arrays[1].data = Elements(first_children_, size_)
    BY <1>4, ArrayFields
  <2>4. Len(Elements(first_children_, size_)) = size_
    BY <1>7
  <2>5. /\ validate_array_field_in_file(f, <<"first_children">>, size_)
        /\ \A j \in 0 .. size_ - 1 :
             read(f, <<"first_children">>, j) = Elements(first_children_, size_)[j + 1]
    BY <2>1, <2>3, <2>4, <1>12, Zenon
  <2> QED BY <2>2, <2>5
<1>14. /\ validate_array_field_in_file(f, <<"parents">>, k)
       /\ \A s \in 0 .. k - 1 : read(f, <<"parents">>, s) = parents_[s]
  <2>1. G + 2 \in 1 .. G + 2
    BY <1>3
  <2>2. \A j \in 0 .. k - 1 : Elements(parents_, k)[j + 1] = parents_[j]
    BY <1>1, <1>6
  <2>3. arrays[G + 2].name = <<"parents">> /\ arrays[G + 2].data = Elements(parents_, k)
    BY <1>1, <1>4, ArrayFields
  <2>4. Len(Elements(parents_, k)) = k
    BY <1>7
  <2>5. /\ validate_array_field_in_file(f, <<"parents">>, k)
        /\ \A j \in 0 .. k - 1 : read(f, <<"parents">>, j) = Elements(parents_, k)[j + 1]
    BY <2>1, <2>3, <2>4, <1>12, Zenon
  <2> QED BY <2>2, <2>5
<1>15. ASSUME NEW g \in 0 .. G - 1
       PROVE  /\ validate_array_field_in_file(f, <<"grid", g>>, size_)
              /\ \A n \in 0 .. size_ - 1 : read(f, <<"grid", g>>, n) = C[<<n, g>>]
  <2>1. g + 2 \in 1 .. G + 2 /\ g + 1 \in 1 .. G /\ g + 1 + 1 = g + 2 /\ g + 1 - 1 = g
    BY <1>3
  <2>2. arrays[g + 2] = [name |-> <<"grid", g>>, data |-> Column(g, size_)]
    <3>1. arrays[g + 1 + 1] = [name |-> <<"grid", g + 1 - 1>>, data |-> Column(g + 1 - 1, size_)]
      BY <2>1, <1>4
    <3> QED BY <2>1, <3>1
  <2>3. g \in 0 .. cols - 1
    BY <2>1, <1>9
  <2>4. ASSUME NEW n \in 0 .. size_ - 1 PROVE Column(g, size_)[n + 1] = C[<<n, g>>]
    <3>1. n + 1 \in 1 .. size_ /\ n + 1 - 1 = n
      BY <1>1
    <3>2. Column(g, size_) = [j \in 1 .. size_ |-> grids_[matrix_idx(j - 1, g, capacity)]]
      BY <1>6
    <3>3. Column(g, size_)[n + 1] = grids_[matrix_idx(n + 1 - 1, g, capacity)]
      BY <3>1, <3>2
    <3> QED BY <3>1, <3>3, <2>3
  <2>5. arrays[g + 2].name = <<"grid", g>> /\ arrays[g + 2].data = Column(g, size_)
    BY <2>2, ArrayFields
  <2>6. Len(Column(g, size_)) = size_
    BY <2>3, <1>8
  <2>7. /\ validate_array_field_in_file(f, <<"grid", g>>, size_)
        /\ \A j \in 0 .. size_ - 1 : read(f, <<"grid", g>>, j) = Column(g, size_)[j + 1]
    BY <2>1, <2>5, <2>6, <1>12, Zenon
  <2> QED BY <2>4, <2>7
<1>16. check_fields(f) = "read"
  BY <1>1, <1>5, <1>13, <1>14, <1>15 DEF check_fields
<1> QED BY <1>1, <1>5, <1>13, <1>14, <1>15, <1>16 DEF FileOf, G, f

(* What is written is on the disk as it was in memory. *)
LEMMA WriteHolds ==
  ASSUME Storage, IsCompact, NoFreeGroups, NEW cols, GridTable(cols), NEW type
  PROVE  Holds(File(type), Value(Memory))
<1>1. PICK k \in 1 .. sg_capacity_ : /\ size_ = no_nodes(k)
                                     /\ sibling_groups = 0 .. k - 1
                                     /\ UsedNodes = 0 .. no_nodes(k) - 1
  BY CompactGroups
<1> DEFINE C == [x \in (0 .. size_ - 1) \X (0 .. cols - 1) |-> grids_[matrix_idx(x[1], x[2], capacity)]]
<1>2. \A n \in 0 .. size_ - 1, g \in 0 .. cols - 1 :
        C[<<n, g>>] = grids_[matrix_idx(n, g, capacity)]
  OBVIOUS
<1> HIDE DEF C
<1>3. Whole(parents_, first_children_, Path, k)
  BY <1>1, WholeMemory
<1>4. FileOf(File(type), parents_, first_children_, C, k, cols)
  BY <1>1, <1>2, FileOfMemory
<1>5. columns(grids_, capacity) = cols
  BY CapacityOfGroups, TableIndex DEF GridTable
<1>6. UsedIn(Memory) = 0 .. no_nodes(k) - 1 /\ PathsIn(Memory) = Path
  BY <1>1, PathsOfMemory
<1>7. Memory.first_children = first_children_ /\ Memory.grids = grids_ /\ Memory.capacity = capacity
  BY DEF Memory
<1>8. /\ Value(Memory).refined
           = {PathsIn(Memory)[n] : n \in {n \in UsedIn(Memory) : Memory.first_children[n] # None}}
      /\ Value(Memory).cells
           = {<<PathsIn(Memory)[n], g, Memory.grids[matrix_idx(n, g, Memory.capacity)]>> :
                n \in UsedIn(Memory), g \in 0 .. columns(Memory.grids, Memory.capacity) - 1}
  BY DEF Value
<1>9. Value(Memory).cells = {<<Path[n], g, grids_[matrix_idx(n, g, capacity)]>> :
                               n \in 0 .. no_nodes(k) - 1, g \in 0 .. cols - 1}
  BY <1>5, <1>6, <1>7, <1>8
<1>10. \A n \in 0 .. no_nodes(k) - 1, g \in 0 .. cols - 1 :
         grids_[matrix_idx(n, g, capacity)] = C[<<n, g>>]
  BY <1>1, <1>2
<1> DEFINE a(n, g) == <<Path[n], g, grids_[matrix_idx(n, g, capacity)]>>
           b(n, g) == <<Path[n], g, C[<<n, g>>]>>
           U == 0 .. no_nodes(k) - 1
           J == 0 .. cols - 1
           cells == Value(Memory).cells
<1>11. cells = {b(n, g) : n \in U, g \in J}
  <2>1. \A n \in U, g \in J : a(n, g) = b(n, g)
    BY <1>10
  <2>2. cells = {a(n, g) : n \in U, g \in J}
    BY <1>9
  <2> HIDE DEF a, b, U, J, cells
  <2> QED BY <2>1, <2>2
<1>12. ValueOf(Value(Memory), first_children_, C, Path, k, cols)
  <2>1. Value(Memory).refined
          = {Path[n] : n \in {n \in 0 .. no_nodes(k) - 1 : first_children_[n] # None}}
    BY <1>6, <1>7, <1>8, Zenon
  <2>2. Value(Memory).cells = {<<Path[n], g, C[<<n, g>>]>> :
                                 n \in 0 .. no_nodes(k) - 1, g \in 0 .. cols - 1}
    BY <1>11
  <2> HIDE DEF a, b, U, J, cells
  <2> DEFINE v == Value(Memory)
  <2>3. ValueOf(v, first_children_, C, Path, k, cols)
    <3> HIDE DEF v
    <3> SUFFICES /\ v.refined
                      = {Path[n] : n \in {n \in 0 .. no_nodes(k) - 1 : first_children_[n] # None}}
                 /\ v.cells = {<<Path[n], g, C[<<n, g>>]>> :
                                  n \in 0 .. no_nodes(k) - 1, g \in 0 .. cols - 1}
      BY DEF ValueOf
    <3> QED BY <2>1, <2>2 DEF v
  <2> QED BY <2>3
<1> QED BY <1>3, <1>4, <1>12, Zenon DEF Holds

-----------------------------------------------------------------------------
(* Reading. *)

(* A node hangs from the parent of its group. *)
LEMMA NodeOfWhole ==
  ASSUME NEW P, NEW F, NEW path, NEW k, Whole(P, F, path, k),
         NEW n \in 0 .. no_nodes(k) - 1, n # 0
  PROVE  /\ sibling_group(n) \in 1 .. k - 1
         /\ P[sibling_group(n)] \in 0 .. no_nodes(k) - 1
         /\ n = first_node(sibling_group(n)) + position_in_parent(n)
         /\ position_in_parent(n) \in 0 .. NC - 1
         /\ path[n] = Append(path[P[sibling_group(n)]], position_in_parent(n))
<1>1. k \in Nat \ {0} /\ no_nodes(k) \in Nat
  BY FirstGroups DEF Whole
<1>2. n \in Nat /\ n # 0 /\ n < no_nodes(k)
  BY <1>1
<1>3. sibling_group(n) \in Nat /\ sibling_group(n) < k /\ sibling_group(n) # 0
  BY <1>1, <1>2, FirstGroups
<1>4. sibling_group(n) \in 1 .. k - 1
  BY <1>1, <1>3
<1>5. P[sibling_group(n)] \in 0 .. no_nodes(k) - 1
  BY <1>4 DEF Whole
<1>6. path[n] = Append(path[P[sibling_group(n)]], position_in_parent(n))
  BY <1>2 DEF Whole
<1>7. /\ n = first_node(sibling_group(n)) + position_in_parent(n)
      /\ position_in_parent(n) \in 0 .. NC - 1
  <2> USE DEF first_node, sibling_group, position_in_parent
  <2>1. CASE NC = 2 BY <2>1, <1>2
  <2>2. CASE NC = 4 BY <2>2, <1>2
  <2>3. CASE NC = 8 BY <2>3, <1>2
  <2> QED BY <2>1, <2>2, <2>3, NCAssumption
<1> QED BY <1>4, <1>5, <1>6, <1>7

(* Among nodes other than the root there is one whose parent is not. *)
LEMMA OutermostOfWhole ==
  ASSUME NEW P, NEW F, NEW path, NEW k, Whole(P, F, path, k),
         NEW X \in SUBSET (1 .. no_nodes(k) - 1), X # {}
  PROVE  \E n \in X : P[sibling_group(n)] \in (0 .. no_nodes(k) - 1) \ X
<1> DEFINE G == {sibling_group(n) : n \in X}
<1>1. \A n \in X : /\ sibling_group(n) \in 1 .. k - 1
                   /\ P[sibling_group(n)] \in 0 .. no_nodes(k) - 1
  BY NodeOfWhole
<1>2. G \in SUBSET (1 .. k - 1) /\ G # {}
  BY <1>1
<1>3. PICK s \in G : sibling_group(P[s]) \notin G
  <2> HIDE DEF G
  <2> QED BY <1>2 DEF Whole
<1>4. PICK n \in X : s = sibling_group(n)
  BY <1>3
<1> QED BY <1>1, <1>3, <1>4

(* Every node of such a tree has a position. *)
LEMMA PathTypeOfWhole ==
  ASSUME NEW P, NEW F, NEW path, NEW k, Whole(P, F, path, k),
         NEW m \in 0 .. no_nodes(k) - 1
  PROVE  path[m] \in Seq(0 .. NC - 1)
<1> DEFINE S == 0 .. NC - 1
           X == {n \in 0 .. no_nodes(k) - 1 : path[n] \notin Seq(S)}
<1> SUFFICES ASSUME X # {} PROVE FALSE
  BY DEF S
<1>1. X \in SUBSET (1 .. no_nodes(k) - 1)
  <2>1. <<>> \in Seq(S)
    OBVIOUS
  <2>2. 0 \in 0 .. no_nodes(k) - 1 => path[0] = <<>>
    BY DEF Whole
  <2>3. PICK u \in Nat : u = no_nodes(k)
    BY FirstGroups DEF Whole
  <2>4. \A n \in X : n \in 0 .. u - 1 /\ n # 0
    <3> HIDE DEF S
    <3> QED BY <2>1, <2>2, <2>3
  <2> HIDE DEF X
  <2>5. \A n \in X : n \in 1 .. u - 1
    BY <2>4
  <2> QED BY <2>3, <2>5
<1>2. PICK n \in X : P[sibling_group(n)] \in (0 .. no_nodes(k) - 1) \ X
  <2> HIDE DEF X
  <2> QED BY <1>1, OutermostOfWhole
<1>3. n \in 0 .. no_nodes(k) - 1 /\ n # 0
  BY <1>1, <1>2
<1>4. PICK r \in Seq(S) : r = path[P[sibling_group(n)]]
  BY <1>2
<1>5. PICK c \in S : c = position_in_parent(n)
  BY <1>3, NodeOfWhole
<1>6. path[n] = Append(r, c)
  BY <1>3, <1>4, <1>5, NodeOfWhole
<1> HIDE DEF S
<1>7. Append(r, c) \in Seq(S)
  OBVIOUS
<1> QED BY <1>6, <1>7, <1>2

(* No two nodes of such a tree have the same position. *)
LEMMA PathInjectiveOfWhole ==
  ASSUME NEW P, NEW F, NEW path, NEW k, Whole(P, F, path, k),
         NEW m \in 0 .. no_nodes(k) - 1, NEW q \in 0 .. no_nodes(k) - 1, path[m] = path[q]
  PROVE  m = q
<1> DEFINE U == 0 .. no_nodes(k) - 1
           S == 0 .. NC - 1
           X == {n \in U : \E o \in U \ {n} : path[o] = path[n]}
<1> SUFFICES ASSUME X # {} PROVE FALSE
  OBVIOUS
<1>1. ASSUME NEW n \in U \ {0}
      PROVE  \E r \in Seq(S), c \in S :
               /\ r = path[P[sibling_group(n)]] /\ c = position_in_parent(n)
               /\ path[n] = Append(r, c) /\ Append(r, c) # <<>>
  <2>1. PICK r \in Seq(S) : r = path[P[sibling_group(n)]]
    BY NodeOfWhole, PathTypeOfWhole
  <2>2. PICK c \in S : c = position_in_parent(n)
    BY NodeOfWhole
  <2>3. path[n] = Append(r, c)
    BY <2>1, <2>2, NodeOfWhole
  <2> HIDE DEF S, U, X
  <2>4. Append(r, c) # <<>>
    BY AppendOneToOne
  <2> QED BY <2>1, <2>2, <2>3, <2>4
<1>2. path[0] = <<>> /\ no_nodes(k) \in Nat \ {0}
  BY FirstGroups DEF Whole
<1>3. X \in SUBSET (1 .. no_nodes(k) - 1)
  <2>1. \A n \in U \ {0} : path[n] # <<>>
    <3> HIDE DEF S, U
    <3> QED BY <1>1
  <2>2. 0 \notin X
    BY <2>1, <1>2
  <2>3. U = {0} \cup 1 .. no_nodes(k) - 1
    BY <1>2
  <2> QED BY <2>2, <2>3
<1>4. PICK n \in X : P[sibling_group(n)] \in U \ X
  <2> HIDE DEF X
  <2> QED BY <1>3, OutermostOfWhole
<1>5. PICK o \in U \ {n} : path[o] = path[n]
  BY <1>4
<1>6. n \in U \ {0} /\ o \in U \ {0}
  <2>1. n \in U \ {0}
    BY <1>3, <1>4
  <2>2. path[n] # <<>>
    <3> HIDE DEF S, U, X
    <3> QED BY <1>1, <2>1
  <2> QED BY <2>1, <2>2, <1>2, <1>5
<1>7. /\ path[P[sibling_group(o)]] = path[P[sibling_group(n)]]
      /\ position_in_parent(o) = position_in_parent(n)
  <2> HIDE DEF S, U, X
  <2>1. PICK r1 \in Seq(S), c1 \in S :
               /\ r1 = path[P[sibling_group(n)]] /\ c1 = position_in_parent(n)
               /\ path[n] = Append(r1, c1)
    BY <1>1, <1>6
  <2>2. PICK r2 \in Seq(S), c2 \in S :
               /\ r2 = path[P[sibling_group(o)]] /\ c2 = position_in_parent(o)
               /\ path[o] = Append(r2, c2)
    BY <1>1, <1>6
  <2>3. Append(r1, c1) = Append(r2, c2)
    BY <2>1, <2>2, <1>5
  <2>4. r1 = r2 /\ c1 = c2
    BY <2>3, AppendOneToOne
  <2> QED BY <2>1, <2>2, <2>4
<1>8. P[sibling_group(o)] = P[sibling_group(n)]
  <2>1. P[sibling_group(o)] \in U
    BY <1>6, NodeOfWhole
  <2> QED BY <2>1, <1>4, <1>7
<1>9. sibling_group(o) = sibling_group(n)
  <2>1. sibling_group(o) \in 1 .. k - 1 /\ sibling_group(n) \in 1 .. k - 1
    BY <1>6, NodeOfWhole
  <2>2. first_node(sibling_group(o)) = first_node(sibling_group(n))
    BY <2>1, <1>8 DEF Whole
  <2>3. \A s \in 1 .. k - 1 : sibling_group(first_node(s)) = s
    BY FirstGroups DEF Whole
  <2> QED BY <2>1, <2>2, <2>3
<1>10. o = n
  <2>1. /\ o = first_node(sibling_group(o)) + position_in_parent(o)
        /\ n = first_node(sibling_group(n)) + position_in_parent(n)
    BY <1>6, NodeOfWhole
  <2> QED BY <2>1, <1>7, <1>9
<1> QED BY <1>5, <1>10

(* Every group but the root's belongs to one refined position. *)
LEMMA CountOfWhole ==
  ASSUME NEW P, NEW F, NEW path, NEW k, Whole(P, F, path, k)
  PROVE  1 + NC * Cardinality({path[n] : n \in {n \in 0 .. no_nodes(k) - 1 : F[n] # None}})
           = no_nodes(k)
<1> DEFINE R == {path[n] : n \in {n \in 0 .. no_nodes(k) - 1 : F[n] # None}}
           h == [s \in 1 .. k - 1 |-> path[P[s]]]
<1>1. k \in Nat \ {0}
  BY DEF Whole
<1>2. \A s \in 1 .. k - 1 : P[s] \in 0 .. no_nodes(k) - 1 /\ F[P[s]] = first_node(s)
  BY DEF Whole
<1>3. \A s \in 1 .. k - 1 : first_node(s) # None /\ sibling_group(first_node(s)) = s
  BY <1>1, FirstGroups, SMTT(40) DEF None
<1>4. h \in [1 .. k - 1 -> R]
  BY <1>2, <1>3
<1>5. ASSUME NEW r \in R PROVE \E s \in 1 .. k - 1 : h[s] = r
  <2>1. PICK n \in 0 .. no_nodes(k) - 1 : r = path[n] /\ F[n] # None
    OBVIOUS
  <2>2. PICK s \in 1 .. k - 1 : P[s] = n
    BY <2>1 DEF Whole
  <2> QED BY <2>1, <2>2
<1>6. ASSUME NEW s \in 1 .. k - 1, NEW t \in 1 .. k - 1, h[s] = h[t] PROVE s = t
  <2>1. path[P[s]] = path[P[t]]
    BY <1>6
  <2>2. P[s] = P[t]
    BY <2>1, <1>2, PathInjectiveOfWhole
  <2> QED BY <2>2, <1>2, <1>3
<1>7. h \in Surjection(1 .. k - 1, R) /\ h \in Injection(1 .. k - 1, R)
  <2> HIDE DEF h, R
  <2> QED BY <1>4, <1>5, <1>6 DEF Surjection, Injection, IsInjective
<1>8. IsFiniteSet(1 .. k - 1) /\ Cardinality(1 .. k - 1) = k - 1
  BY <1>1, FS_Interval
<1>9. Cardinality(R) = k - 1
  <2> HIDE DEF h, R
  <2> QED BY <1>7, <1>8, FS_Surjection
<1>10. 1 + NC * (k - 1) = no_nodes(k)
  <2>1. CASE NC = 2 BY <2>1, <1>1 DEF no_nodes
  <2>2. CASE NC = 4 BY <2>2, <1>1 DEF no_nodes
  <2>3. CASE NC = 8 BY <2>3, <1>1 DEF no_nodes
  <2> QED BY <2>1, <2>2, <2>3, NCAssumption
<1> QED BY <1>9, <1>10

(* A file is refused for its dimension or for want of room, and only then. *)
LEMMA StatusOfFile ==
  ASSUME NEW f, NEW P, NEW F, NEW C, NEW k \in Nat \ {0}, NEW cols,
         FileOf(f, P, F, C, k, cols),
         NEW nc, NEW n \in Nat \cup {None}, NEW g \in Nat \cup {None}
  PROVE  status(f, nc, n, g) = "read"
           <=> /\ nc = NC
               /\ n = None \/ n >= no_nodes(k)
               /\ f.type # "multi" \/ g = None \/ cols <= g
<1>1. f.spatial_dimension = NC /\ f.no_tree_nodes = no_nodes(k) /\ cols \in Nat
      /\ check_fields(f) = "read" /\ (f.type = "multi" => f.no_grids = cols)
  BY DEF FileOf
<1>2. no_nodes(k) \in Nat
  BY FirstGroups
<1>3. check_tree(f, nc, n) = "read" <=> nc = NC /\ (n = None \/ n >= no_nodes(k))
  BY <1>1, <1>2 DEF check_tree, None
<1>4. f.type = "multi" => (check_grids(f, g) = "read" <=> g = None \/ cols <= g)
  BY <1>1 DEF check_grids, None
<1> QED BY <1>1, <1>3, <1>4 DEF status

(* An object with room for so many groups that has the tree. *)
Object(m, P, F, k, groups) ==
  /\ groups \in Nat \ {0} /\ k <= groups
  /\ m.size = no_nodes(k) /\ m.first_free = k /\ m.capacity = no_nodes(groups)
  /\ m.parents = [s \in 0 .. groups - 1 |-> IF s < k THEN P[s] ELSE None]
  /\ m.first_children = [x \in 0 .. no_nodes(groups) - 1 |->
                           IF x < no_nodes(k) THEN F[x] ELSE None]

(* An object with room that is read from the file has the edges of the tree *)
(* in its first groups and no others.                                       *)
LEMMA ObjectOfFile ==
  ASSUME NEW f, NEW P, NEW F, NEW C, NEW path, NEW k, NEW cols,
         Whole(P, F, path, k), FileOf(f, P, F, C, k, cols),
         NEW n \in (Nat \ {0}) \cup {None}, n # None => no_nodes(k) <= n, NEW g,
         NEW groups, groups = IF n = None THEN k ELSE no_sibling_groups(n)
  PROVE  Object(Read(f, n, g), P, F, k, groups)
<1> DEFINE m == Read(f, n, g)
<1>1. k \in Nat \ {0} /\ no_nodes(k) \in Nat \ {0}
      /\ no_sibling_groups(no_nodes(k)) = k /\ sibling_group(no_nodes(k)) = k
  BY FirstGroups DEF Whole
<1>2. groups \in Nat \ {0} /\ k <= groups
  BY <1>1, RoundedUp
<1>3. f.no_tree_nodes = no_nodes(k)
  BY DEF FileOf
<1>4. groups = no_sibling_groups(IF n = None THEN f.no_tree_nodes ELSE n)
  BY <1>1, <1>3
<1>5. /\ m.size = f.no_tree_nodes
      /\ m.first_free = sibling_group(f.no_tree_nodes)
      /\ m.capacity = no_nodes(groups)
  BY <1>4 DEF Read
<1>6. m.parents = [s \in 0 .. groups - 1 |->
                     IF s < no_sibling_groups(f.no_tree_nodes)
                     THEN read(f, <<"parents">>, s) ELSE None]
  BY <1>4 DEF Read
<1>7. m.first_children = [x \in 0 .. no_nodes(groups) - 1 |->
                            IF x < f.no_tree_nodes
                            THEN read(f, <<"first_children">>, x) ELSE None]
  BY <1>4 DEF Read
<1> HIDE DEF m
<1>8. \A s \in 0 .. groups - 1 : s < k => read(f, <<"parents">>, s) = P[s]
  BY <1>1, <1>2 DEF FileOf
<1>9. \A x \in 0 .. no_nodes(groups) - 1 :
        x < no_nodes(k) => read(f, <<"first_children">>, x) = F[x]
  BY <1>1, <1>2, FirstGroups DEF FileOf
<1>10. m.parents = [s \in 0 .. groups - 1 |-> IF s < k THEN P[s] ELSE None]
  BY <1>1, <1>3, <1>6, <1>8
<1>11. m.first_children = [x \in 0 .. no_nodes(groups) - 1 |->
                             IF x < no_nodes(k) THEN F[x] ELSE None]
  BY <1>3, <1>7, <1>9
<1>12. Object(m, P, F, k, groups)
  BY <1>1, <1>2, <1>3, <1>5, <1>10, <1>11 DEF Object
<1> QED BY <1>12 DEF m

(* The table is read element by element: those of the nodes and grids in the *)
(* file come from there and the others are empty.                            *)
TableRead(f, G, rows, cs) ==
  G = [z \in 0 .. rows * cs - 1 |->
         IF z % rows < f.no_tree_nodes /\ z \div rows < f.no_grids
         THEN read(f, <<"grid", z \div rows>>, z % rows) ELSE None]

LEMMA GridElement ==
  ASSUME NEW f, NEW rows \in Nat \ {0}, NEW cs \in Nat, NEW G,
         TableRead(f, G, rows, cs),
         NEW x \in 0 .. rows - 1, NEW c \in 0 .. cs - 1
  PROVE  G[matrix_idx(x, c, rows)] = IF x < f.no_tree_nodes /\ c < f.no_grids
                                     THEN read(f, <<"grid", c>>, x) ELSE None
<1>0. TableElement(rows, cs, x, c)
  BY TableEntry, Zenon
<1>1. PICK z \in 0 .. TableEnd(rows, cs) :
        z = matrix_idx(x, c, rows) /\ z % rows = x /\ z \div rows = c
  BY <1>0, Zenon DEF TableElement
<1>2. z \in 0 .. rows * cs - 1
  BY DEF TableEnd
<1>3. G[z] = IF z % rows < f.no_tree_nodes /\ z \div rows < f.no_grids
             THEN read(f, <<"grid", z \div rows>>, z % rows) ELSE None
  BY <1>2, Zenon DEF TableRead
<1> QED BY <1>1, <1>3

(* An object that has the table of the file in its own. *)
GridsRead(m, f, C, k, cols, groups) ==
  \E cs \in Nat :
    /\ DOMAIN m.grids = 0 .. no_nodes(groups) * cs - 1
    /\ columns(m.grids, no_nodes(groups)) = cs
    /\ f.type = "multi" =>
         /\ cols <= cs
         /\ \A x \in 0 .. no_nodes(groups) - 1, c \in 0 .. cs - 1 :
              m.grids[matrix_idx(x, c, no_nodes(groups))]
                = IF x < no_nodes(k) /\ c < cols THEN C[<<x, c>>] ELSE None

(* A reader with room for the nodes and the grids has the table of the file *)
(* at the beginning of its rows and columns.                                *)
LEMMA GridsOfFile ==
  ASSUME NEW f, NEW P, NEW F, NEW C, NEW path, NEW k, NEW cols,
         Whole(P, F, path, k), FileOf(f, P, F, C, k, cols),
         NEW n \in (Nat \ {0}) \cup {None}, NEW g \in Nat \cup {None},
         f.type = "multi" => g = None \/ cols <= g,
         NEW groups \in Nat \ {0}, groups = IF n = None THEN k ELSE no_sibling_groups(n)
  PROVE  GridsRead(Read(f, n, g), f, C, k, cols, groups)
<1> DEFINE G == Read(f, n, g).grids
           rows == no_nodes(groups)
           cs == IF f.type = "multi" /\ g # None THEN g ELSE f.no_grids
<1>1. k \in Nat \ {0} /\ no_nodes(k) \in Nat \ {0} /\ no_sibling_groups(no_nodes(k)) = k
      /\ rows \in Nat \ {0}
  BY FirstGroups DEF Whole
<1>2. f.no_tree_nodes = no_nodes(k) /\ cols \in Nat
      /\ f.no_grids = IF f.type = "multi" THEN cols ELSE 0
  BY DEF FileOf
<1>3. groups = no_sibling_groups(IF n = None THEN f.no_tree_nodes ELSE n)
  BY <1>1, <1>2
<1>4. cs \in Nat /\ (f.type = "multi" => cols <= cs)
  BY <1>2 DEF None
<1>5. G = [x \in 0 .. rows * cs - 1 |->
             IF x % rows < f.no_tree_nodes /\ x \div rows < f.no_grids
             THEN read(f, <<"grid", x \div rows>>, x % rows)
             ELSE None]
  BY <1>3 DEF Read
<1> HIDE DEF G, rows, cs
<1>6. DOMAIN G = 0 .. rows * cs - 1
  BY <1>5
<1>7. columns(G, rows) = cs
  BY <1>1, <1>4, <1>6, TableIndex
<1>8. ASSUME f.type = "multi", NEW x \in 0 .. rows - 1, NEW c \in 0 .. cs - 1
      PROVE  G[matrix_idx(x, c, rows)] = IF x < no_nodes(k) /\ c < cols THEN C[<<x, c>>] ELSE None
  <2>1. rows \in Nat \ {0} /\ cs \in Nat /\ x \in 0 .. rows - 1 /\ c \in 0 .. cs - 1
    BY <1>1, <1>4, <1>8
  <2>2. G[matrix_idx(x, c, rows)] = IF x < f.no_tree_nodes /\ c < f.no_grids
                                    THEN read(f, <<"grid", c>>, x) ELSE None
    <3>1. TableRead(f, G, rows, cs)
      BY <1>5, Zenon DEF TableRead
    <3> QED BY <2>1, <3>1, GridElement, ZenonT(40)
  <2>3. G[matrix_idx(x, c, rows)] = IF x < no_nodes(k) /\ c < cols
                                    THEN read(f, <<"grid", c>>, x) ELSE None
    BY <2>2, <1>2, <1>8
  <2>4. x < no_nodes(k) /\ c < cols => read(f, <<"grid", c>>, x) = C[<<x, c>>]
    BY <1>1, <1>2, <1>4, <1>8 DEF FileOf
  <2> QED BY <2>3, <2>4
<1>9. /\ DOMAIN G = 0 .. rows * cs - 1
      /\ columns(G, rows) = cs
      /\ f.type = "multi" =>
           /\ cols <= cs
           /\ \A x \in 0 .. rows - 1, c \in 0 .. cs - 1 :
                G[matrix_idx(x, c, rows)]
                  = IF x < no_nodes(k) /\ c < cols THEN C[<<x, c>>] ELSE None
  BY <1>4, <1>6, <1>7, <1>8
<1> QED BY <1>4, <1>9 DEF G, rows, GridsRead

(* An object that has the edges of such a tree is well formed, has its  *)
(* positions and has its free groups where a refinement looks for them. *)
LEMMA EdgesOfObject ==
  ASSUME NEW P, NEW F, NEW path, NEW k, Whole(P, F, path, k),
         NEW m, NEW groups, Object(m, P, F, k, groups)
  PROVE  /\ UsedIn(m) = 0 .. no_nodes(k) - 1
         /\ PathsIn(m) = path
         /\ WellFormed(m)
         /\ ReadyToRefine(m)
<1>1. /\ k \in Nat \ {0} /\ groups \in Nat \ {0} /\ k <= groups
      /\ no_nodes(k) \in Nat \ {0} /\ no_nodes(groups) \in Nat \ {0}
  BY FirstGroups DEF Whole, Object
<1>2. /\ \A n \in Nat : /\ sibling_group(n) \in Nat
                        /\ n < no_nodes(k) <=> sibling_group(n) < k
                        /\ n < no_nodes(groups) <=> sibling_group(n) < groups
                        /\ sibling_group(n) = 0 <=> n = 0
      /\ \A s \in 1 .. k - 1 : first_node(s) \in 1 .. no_nodes(k) - 1
                                 /\ sibling_group(first_node(s)) = s
  BY <1>1, FirstGroups
<1>3. no_nodes(k) <= no_nodes(groups)
  <2>1. CASE NC = 2 BY <2>1, <1>1 DEF no_nodes
  <2>2. CASE NC = 4 BY <2>2, <1>1 DEF no_nodes
  <2>3. CASE NC = 8 BY <2>3, <1>1 DEF no_nodes
  <2> QED BY <2>1, <2>2, <2>3, NCAssumption
<1>4. /\ DOMAIN m.parents = 0 .. groups - 1
      /\ \A s \in 0 .. groups - 1 : m.parents[s] = IF s < k THEN P[s] ELSE None
      /\ DOMAIN m.first_children = 0 .. no_nodes(groups) - 1
      /\ \A n \in 0 .. no_nodes(groups) - 1 :
           m.first_children[n] = IF n < no_nodes(k) THEN F[n] ELSE None
      /\ m.first_free = k /\ m.size = no_nodes(k) /\ m.capacity = no_nodes(groups)
  BY DEF Object
<1>5. /\ P[0] = None
      /\ \A s \in 1 .. k - 1 : /\ P[s] \in 0 .. no_nodes(k) - 1 /\ P[s] # None
                               /\ F[P[s]] = first_node(s)
      /\ \A n \in 0 .. no_nodes(k) - 1 :
           F[n] = None \/ \E s \in 1 .. k - 1 : F[n] = first_node(s) /\ P[s] = n
  BY DEF Whole, None
<1>6. \A s \in 1 .. k - 1 : s \in 0 .. groups - 1 /\ m.parents[s] = P[s]
  BY <1>1, <1>4
<1>7. UsedIn(m) = 0 .. no_nodes(k) - 1
  <2>1. ASSUME NEW n \in 0 .. no_nodes(groups) - 1
        PROVE  n \in UsedIn(m) <=> n < no_nodes(k)
    <3>1. n \in Nat /\ n < no_nodes(groups)
      BY <1>1
    <3>2. sibling_group(n) \in 0 .. groups - 1
      BY <1>1, <1>2, <3>1
    <3>3. n \in UsedIn(m) <=> n = 0 \/ m.parents[sibling_group(n)] # None
      BY <1>4 DEF UsedIn
    <3>4. CASE n = 0
      BY <3>3, <3>4, <1>1
    <3>5. CASE n # 0
      <4>1. sibling_group(n) # 0
        BY <3>1, <3>5, <1>2
      <4>2. m.parents[sibling_group(n)] # None <=> sibling_group(n) < k
        BY <3>2, <4>1, <1>1, <1>4, <1>5
      <4> QED BY <3>1, <3>3, <3>5, <4>2, <1>2
    <3> QED BY <3>4, <3>5
  <2>2. UsedIn(m) \subseteq 0 .. no_nodes(groups) - 1
    BY <1>4 DEF UsedIn
  <2>3. 0 .. no_nodes(k) - 1 = {n \in 0 .. no_nodes(groups) - 1 : n < no_nodes(k)}
    BY <1>1, <1>3
  <2> QED BY <2>1, <2>2, <2>3
<1>8. PathsIn(m) = path
  BY <1>6, <1>7, PathsOfWhole
<1>9. WellFormed(m)
  <2>1. ASSUME NEW s \in 0 .. groups - 1, m.parents[s] # None
        PROVE  m.parents[s] \in UsedIn(m) /\ m.first_children[m.parents[s]] = first_node(s)
    <3>1. s \in 1 .. k - 1
      BY <2>1, <1>1, <1>4, <1>5
    <3>2. PICK n \in 0 .. no_nodes(k) - 1 : n = P[s] /\ F[n] = first_node(s)
      BY <3>1, <1>5
    <3>3. m.parents[s] = n
      BY <3>1, <3>2, <1>6
    <3>4. m.first_children[n] = first_node(s)
      <4>1. n \in 0 .. no_nodes(groups) - 1 /\ n < no_nodes(k)
        BY <3>2, <1>1, <1>3
      <4>2. m.first_children[n] = F[n]
        BY <4>1, <1>4
      <4> QED BY <3>2, <4>2
    <3> QED BY <3>3, <3>4, <1>7
  <2>2. ASSUME NEW n \in 0 .. no_nodes(groups) - 1, m.first_children[n] # None
        PROVE  /\ m.first_children[n] \in 0 .. no_nodes(groups) - 1
               /\ m.parents[sibling_group(m.first_children[n])] = n
    <3>1. n \in 0 .. no_nodes(k) - 1 /\ m.first_children[n] = F[n]
      BY <2>2, <1>1, <1>4
    <3>2. PICK s \in 1 .. k - 1 : F[n] = first_node(s) /\ P[s] = n
      BY <3>1, <2>2, <1>5
    <3>3. PICK x \in 1 .. no_nodes(k) - 1 : x = first_node(s) /\ sibling_group(x) = s
      BY <1>2
    <3>4. x \in 0 .. no_nodes(groups) - 1
      BY <1>1, <1>3
    <3> QED BY <3>1, <3>2, <3>3, <3>4, <1>6
  <2> QED BY <2>1, <2>2, <1>4, Zenon DEF WellFormed
<1>10. ReadyToRefine(m)
  <2>1. \A s \in 1 .. m.first_free - 1 : m.parents[s] # None
    BY <1>4, <1>5, <1>6
  <2>2. ASSUME m.size < m.capacity
        PROVE  m.first_free \in DOMAIN m.parents /\ m.parents[m.first_free] = None
    <3>1. k # groups
      BY <2>2, <1>1, <1>4
    <3>2. k \in 0 .. groups - 1
      BY <3>1, <1>1
    <3> QED BY <3>2, <1>1, <1>4
  <2> QED BY <2>1, <2>2 DEF ReadyToRefine
<1> QED BY <1>7, <1>8, <1>9, <1>10

(* What a reader is promised for one dimension and one choice of capacities. *)
Fits(f, v, nc, n, g) ==
  /\ nc = NC
  /\ n = None \/ n >= 1 + NC * Cardinality(v.refined)
  /\ f.type # "multi" \/ g = None \/ \A cell \in v.cells : cell[2] < g

Restores(f, v, nc, n, g) ==
  /\ status(f, nc, n, g) = "read" <=> Fits(f, v, nc, n, g)
  /\ Fits(f, v, nc, n, g) =>
       /\ WellFormed(Read(f, n, g))
       /\ ReadyToRefine(Read(f, n, g))
       /\ Value(Read(f, n, g)).refined = v.refined
       /\ f.type = "multi" =>
            /\ v.cells \subseteq Value(Read(f, n, g)).cells
            /\ \A cell \in Value(Read(f, n, g)).cells \ v.cells : cell[3] = None

(* The cells of an object whose table begins with that of the file. *)
FileCells(path, C, U, cols) == {<<path[x], c, C[<<x, c>>]>> : x \in U, c \in 0 .. cols - 1}
TableCells(path, G, U, cs, rows) ==
  {<<path[x], c, G[matrix_idx(x, c, rows)]>> : x \in U, c \in 0 .. cs - 1}
TableBegins(G, C, U, u, rows, cols, cs) ==
  /\ \A x \in U : x < u
  /\ \A x \in U, c \in 0 .. cs - 1 :
       G[matrix_idx(x, c, rows)] = IF x < u /\ c < cols THEN C[<<x, c>>] ELSE None

(* The grid nodes of such an object: those of the file, and empty ones for *)
(* the grids that the file does not have.                                  *)
LEMMA CellsOfObject ==
  ASSUME NEW path, NEW u, NEW rows, NEW cols \in Nat, NEW cs \in Nat, cols <= cs,
         NEW C, NEW G, NEW U, TableBegins(G, C, U, u, rows, cols, cs),
         NEW A, A = FileCells(path, C, U, cols),
         NEW B, B = TableCells(path, G, U, cs, rows)
  PROVE  A \subseteq B /\ \A cell \in B \ A : cell[3] = None
<1>1. ASSUME NEW cell \in A PROVE cell \in B
  <2>0. cell \in FileCells(path, C, U, cols)
    BY <1>1
  <2>1. PICK x \in U, c \in 0 .. cols - 1 : cell = <<path[x], c, C[<<x, c>>]>>
    <3> HIDE <1>1
    <3> QED BY <2>0 DEF FileCells
  <2>2. c \in 0 .. cs - 1 /\ x < u /\ c < cols
    BY DEF TableBegins
  <2>3. G[matrix_idx(x, c, rows)] = C[<<x, c>>]
    BY <2>2 DEF TableBegins
  <2> QED BY <2>1, <2>2, <2>3 DEF TableCells
<1>2. ASSUME NEW cell \in B \ A PROVE cell[3] = None
  <2>1. PICK x \in U, c \in 0 .. cs - 1 : cell = <<path[x], c, G[matrix_idx(x, c, rows)]>>
    BY DEF TableCells
  <2>2. CASE c < cols
    <3>1. c \in 0 .. cols - 1 /\ G[matrix_idx(x, c, rows)] = C[<<x, c>>]
      BY <2>2 DEF TableBegins
    <3> QED BY <2>1, <3>1, SMTT(40) DEF FileCells
  <2>3. CASE ~(c < cols)
    <3>1. G[matrix_idx(x, c, rows)] = None
      BY <2>3 DEF TableBegins
    <3> QED BY <2>1, <3>1
  <2> QED BY <2>2, <2>3
<1> QED BY <1>1, <1>2

(* A file that holds a value restores it for every reader. *)
LEMMA ReadBack ==
  ASSUME NEW f, NEW v, Holds(f, v),
         NEW nc, NEW n \in (Nat \ {0}) \cup {None}, NEW g \in (Nat \ {0}) \cup {None}
  PROVE  Restores(f, v, nc, n, g)
<1>1. PICK P, F, C, path, k, cols :
        Whole(P, F, path, k) /\ FileOf(f, P, F, C, k, cols) /\ ValueOf(v, F, C, path, k, cols)
  BY DEF Holds
<1>2. k \in Nat \ {0} /\ cols \in Nat /\ no_nodes(k) \in Nat \ {0}
  BY <1>1, FirstGroups DEF Whole, FileOf
<1>3. 1 + NC * Cardinality(v.refined) = no_nodes(k)
  BY <1>1, CountOfWhole DEF ValueOf
<1>4. ASSUME g # None
      PROVE  (\A cell \in v.cells : cell[2] < g) <=> cols <= g
  <2>1. v.cells = {<<path[x], c, C[<<x, c>>]>> : x \in 0 .. no_nodes(k) - 1, c \in 0 .. cols - 1}
    BY <1>1 DEF ValueOf
  <2>2. \A x \in 0 .. no_nodes(k) - 1, c \in 0 .. cols - 1 : <<path[x], c, C[<<x, c>>]>>[2] = c
    OBVIOUS
  <2>3. ASSUME cols <= g, NEW cell \in v.cells PROVE cell[2] < g
    <3>1. PICK x \in 0 .. no_nodes(k) - 1, c \in 0 .. cols - 1 : cell = <<path[x], c, C[<<x, c>>]>>
      BY <2>1
    <3> QED BY <3>1, <2>3, <1>2, <1>4
  <2>4. ASSUME \A cell \in v.cells : cell[2] < g PROVE cols <= g
    <3>1. CASE cols = 0
      BY <3>1, <1>4
    <3>2. CASE cols # 0
      <4>1. 0 \in 0 .. no_nodes(k) - 1 /\ cols - 1 \in 0 .. cols - 1
        BY <3>2, <1>2
      <4>2. <<path[0], cols - 1, C[<<0, cols - 1>>]>> \in v.cells
        <5> DEFINE cell == <<path[0], cols - 1, C[<<0, cols - 1>>]>>
        <5>1. \E x \in 0 .. no_nodes(k) - 1, c \in 0 .. cols - 1 :
                cell = <<path[x], c, C[<<x, c>>]>>
          BY <4>1
        <5> HIDE DEF cell
        <5>2. cell \in v.cells
          BY <5>1, <2>1, SMTT(40)
        <5> QED BY <5>2 DEF cell
      <4>3. cols - 1 < g
        BY <4>1, <4>2, <2>4
      <4> QED BY <4>3, <1>2, <1>4
    <3> QED BY <3>1, <3>2
  <2> QED BY <2>3, <2>4
<1>5. status(f, nc, n, g) = "read"
        <=> /\ nc = NC
            /\ n = None \/ n >= no_nodes(k)
            /\ f.type # "multi" \/ g = None \/ cols <= g
  BY <1>1, <1>2, StatusOfFile
<1>6. status(f, nc, n, g) = "read" <=> Fits(f, v, nc, n, g)
  BY <1>3, <1>4, <1>5 DEF Fits
<1>7. ASSUME Fits(f, v, nc, n, g)
      PROVE  /\ WellFormed(Read(f, n, g))
             /\ ReadyToRefine(Read(f, n, g))
             /\ Value(Read(f, n, g)).refined = v.refined
             /\ f.type = "multi" =>
                  /\ v.cells \subseteq Value(Read(f, n, g)).cells
                  /\ \A cell \in Value(Read(f, n, g)).cells \ v.cells : cell[3] = None
  <2>1. /\ n # None => no_nodes(k) <= n
        /\ f.type = "multi" => g = None \/ cols <= g
    BY <1>2, <1>5, <1>6, <1>7
  <2>2. PICK groups : groups = IF n = None THEN k ELSE no_sibling_groups(n)
    OBVIOUS
  <2> DEFINE m == Read(f, n, g)
  <2>3. Object(m, P, F, k, groups)
    BY <1>1, <2>1, <2>2, ObjectOfFile
  <2>4. PICK cs \in Nat :
          /\ DOMAIN m.grids = 0 .. no_nodes(groups) * cs - 1
          /\ columns(m.grids, no_nodes(groups)) = cs
          /\ f.type = "multi" =>
               /\ cols <= cs
               /\ \A x \in 0 .. no_nodes(groups) - 1, c \in 0 .. cs - 1 :
                    m.grids[matrix_idx(x, c, no_nodes(groups))]
                      = IF x < no_nodes(k) /\ c < cols THEN C[<<x, c>>] ELSE None
    <3>1. groups \in Nat \ {0} /\ g \in Nat \cup {None}
      BY <2>3 DEF Object
    <3> HIDE DEF m
    <3>2. groups = IF n = None THEN k ELSE no_sibling_groups(n)
      BY <2>2
    <3>3. f.type = "multi" => g = None \/ cols <= g
      BY <2>1
    <3>4. Whole(P, F, path, k) /\ FileOf(f, P, F, C, k, cols)
      BY <1>1
    <3>5. GridsRead(m, f, C, k, cols, groups)
      BY <3>1, <3>2, <3>3, <3>4, GridsOfFile DEF m
    <3> QED BY <3>5 DEF GridsRead
  <2> HIDE DEF m
  <2>5. /\ UsedIn(m) = 0 .. no_nodes(k) - 1 /\ PathsIn(m) = path
        /\ WellFormed(m) /\ ReadyToRefine(m)
    BY <1>1, <2>3, EdgesOfObject
  <2>6. /\ Value(m).refined
             = {PathsIn(m)[x] : x \in {x \in UsedIn(m) : m.first_children[x] # None}}
        /\ Value(m).cells
             = TableCells(PathsIn(m), m.grids, UsedIn(m), columns(m.grids, m.capacity), m.capacity)
    BY DEF Value, TableCells
  <2>7. m.capacity = no_nodes(groups) /\ groups \in Nat \ {0} /\ no_nodes(groups) \in Nat \ {0}
    BY <2>3, FirstGroups DEF Object
  <2>8. \A x \in 0 .. no_nodes(k) - 1 : x \in 0 .. no_nodes(groups) - 1 /\ m.first_children[x] = F[x]
    <3>1. k <= groups
      BY <2>3 DEF Object
    <3>2. no_nodes(k) <= no_nodes(groups)
      <4>1. CASE NC = 2 BY <4>1, <3>1, <2>7, <1>2 DEF no_nodes
      <4>2. CASE NC = 4 BY <4>2, <3>1, <2>7, <1>2 DEF no_nodes
      <4>3. CASE NC = 8 BY <4>3, <3>1, <2>7, <1>2 DEF no_nodes
      <4> QED BY <4>1, <4>2, <4>3, NCAssumption
    <3>3. \A x \in 0 .. no_nodes(k) - 1 : x \in 0 .. no_nodes(groups) - 1
      BY <3>2, <2>7, <1>2
    <3>4. \A x \in 0 .. no_nodes(groups) - 1 :
            m.first_children[x] = IF x < no_nodes(k) THEN F[x] ELSE None
      BY <2>3 DEF Object
    <3> QED BY <3>3, <3>4, <1>2
  <2>9. Value(m).refined = v.refined
    <3>1. v.refined = {path[x] : x \in {x \in 0 .. no_nodes(k) - 1 : F[x] # None}}
      BY <1>1 DEF ValueOf
    <3>2. {x \in 0 .. no_nodes(k) - 1 : F[x] # None}
            = {x \in 0 .. no_nodes(k) - 1 : m.first_children[x] # None}
      BY <2>8
    <3>3. Value(m).refined
            = {path[x] : x \in {x \in 0 .. no_nodes(k) - 1 : m.first_children[x] # None}}
      BY <2>5, <2>6, Zenon
    <3> QED BY <3>1, <3>2, <3>3, Zenon
  <2>10. ASSUME f.type = "multi"
         PROVE  /\ v.cells \subseteq Value(m).cells
                /\ \A cell \in Value(m).cells \ v.cells : cell[3] = None
    <3>1. PICK U : U = 0 .. no_nodes(k) - 1
      OBVIOUS
    <3>2. PICK rows : rows = no_nodes(groups)
      OBVIOUS
    <3>3. v.cells = FileCells(path, C, U, cols)
      BY <1>1, <3>1 DEF ValueOf, FileCells
    <3>4. Value(m).cells = TableCells(path, m.grids, U, cs, rows)
      BY <2>4, <2>5, <2>6, <2>7, <3>1, <3>2, Zenon
    <3>5. \A x \in U : x < no_nodes(k)
      BY <3>1, <1>2
    <3>6. \A x \in U, c \in 0 .. cs - 1 :
            m.grids[matrix_idx(x, c, rows)]
              = IF x < no_nodes(k) /\ c < cols THEN C[<<x, c>>] ELSE None
      BY <2>4, <2>8, <2>10, <3>1, <3>2, Zenon
    <3>7. cols <= cs
      BY <2>4, <2>10
    <3>8. PICK G : G = m.grids
      OBVIOUS
    <3>9. PICK B : B = Value(m).cells
      OBVIOUS
    <3>10. /\ B = TableCells(path, G, U, cs, rows)
           /\ \A x \in U, c \in 0 .. cs - 1 :
                G[matrix_idx(x, c, rows)]
                  = IF x < no_nodes(k) /\ c < cols THEN C[<<x, c>>] ELSE None
      BY <3>4, <3>6, <3>8, <3>9, Zenon
    <3>11. PICK u : u = no_nodes(k)
      OBVIOUS
    <3>12. TableBegins(G, C, U, u, rows, cols, cs)
      BY <3>5, <3>10, <3>11, Zenon DEF TableBegins
    <3>13. v.cells \subseteq B /\ \A cell \in B \ v.cells : cell[3] = None
      <4>1. cs \in Nat /\ cols \in Nat
        BY <1>2, <2>4
      <4>2. PICK A : A = v.cells
        OBVIOUS
      <4>3. A = FileCells(path, C, U, cols) /\ B = TableCells(path, G, U, cs, rows)
        BY <3>3, <3>10, <4>2
      <4>4. A \subseteq B /\ \A cell \in B \ A : cell[3] = None
        BY <3>7, <3>12, <4>1, <4>3, CellsOfObject
      <4> QED BY <4>2, <4>4, Zenon
    <3> QED BY <3>9, <3>13, Zenon
  <2>11. /\ WellFormed(m) /\ ReadyToRefine(m) /\ Value(m).refined = v.refined
         /\ f.type = "multi" =>
              /\ v.cells \subseteq Value(m).cells
              /\ \A cell \in Value(m).cells \ v.cells : cell[3] = None
    BY <2>5, <2>9, <2>10
  <2> QED BY <2>11, Zenon DEF m
<1> QED BY <1>6, <1>7, Zenon DEF Restores

-----------------------------------------------------------------------------
(* Starting again. *)

(* The program has the object in memory. *)
InMemory(m) ==
  /\ parents_ = m.parents /\ first_children_ = m.first_children
  /\ size_ = m.size /\ first_free_sibling_group_ = m.first_free
  /\ failed = "no"

(* The positions refined in a tree of k groups. *)
RefinedOf(F, path, k) == {path[n] : n \in {n \in 0 .. no_nodes(k) - 1 : F[n] # None}}

(* A program that has the object in memory has a tree, the one of the file. *)
LEMMA StorageOfObject ==
  ASSUME NEW m, NEW P, NEW F, NEW path, NEW k, Whole(P, F, path, k),
         Object(m, P, F, k, sg_capacity_), InMemory(m)
  PROVE  Storage /\ Value(Memory).refined = RefinedOf(F, path, k)
<1>1. /\ k \in Nat \ {0} /\ sg_capacity_ \in Nat \ {0} /\ k <= sg_capacity_
      /\ no_nodes(k) \in Nat \ {0} /\ capacity \in Nat \ {0}
      /\ capacity = no_nodes(sg_capacity_)
  BY CapacityOfGroups, FirstGroups DEF Whole, Object, capacity
<1>2. no_nodes(k) <= capacity
  <2>1. CASE NC = 2 BY <2>1, <1>1 DEF no_nodes
  <2>2. CASE NC = 4 BY <2>2, <1>1 DEF no_nodes
  <2>3. CASE NC = 8 BY <2>3, <1>1 DEF no_nodes
  <2> QED BY <2>1, <2>2, <2>3, NCAssumption
<1>3. Node = 0 .. capacity - 1 /\ SiblingGroup = 0 .. sg_capacity_ - 1
  BY DEF Node, SiblingGroup
<1>4. /\ DOMAIN parents_ = 0 .. sg_capacity_ - 1
      /\ parents_ = [s \in 0 .. sg_capacity_ - 1 |-> IF s < k THEN P[s] ELSE None]
      /\ first_children_ = [x \in 0 .. capacity - 1 |-> IF x < no_nodes(k) THEN F[x] ELSE None]
      /\ first_free_sibling_group_ = k /\ size_ = no_nodes(k)
  BY <1>1 DEF Object, InMemory
<1>5. /\ \A s \in SiblingGroup : parents_[s] = IF s < k THEN P[s] ELSE None
      /\ \A n \in Node : first_children_[n] = IF n < no_nodes(k) THEN F[n] ELSE None
  BY <1>3, <1>4
<1>6. /\ P[0] = None
      /\ \A s \in 1 .. k - 1 : /\ P[s] \in 0 .. no_nodes(k) - 1 /\ P[s] # None
                               /\ F[P[s]] = first_node(s)
      /\ \A n \in 0 .. no_nodes(k) - 1 :
           F[n] = None \/ \E s \in 1 .. k - 1 : F[n] = first_node(s) /\ P[s] = n
  BY DEF Whole, None
<1>7. \A s \in 1 .. k - 1 : /\ first_node(s) \in 1 .. no_nodes(k) - 1
                            /\ sibling_group(first_node(s)) = s
  BY <1>1, FirstGroups
<1>8. /\ \A n \in 0 .. no_nodes(k) - 1 : n \in Node
      /\ \A s \in 0 .. k - 1 : s \in SiblingGroup
  BY <1>1, <1>2, <1>3
<1>9. sibling_groups = 0 .. k - 1
  <2>1. \A s \in SiblingGroup : is_free(s) <=> ~(s < k)
    BY <1>1, <1>3, <1>5, <1>6 DEF is_free
  <2>2. sibling_groups = {s \in SiblingGroup : s < k}
    BY <2>1 DEF sibling_groups
  <2> QED BY <2>2, <1>1, <1>3
<1>10. TypeOK
  <2>1. parents_ \in [SiblingGroup -> Node \cup {None}]
    <3>1. \A s \in SiblingGroup : parents_[s] \in Node \cup {None}
      <4>1. ASSUME NEW s \in SiblingGroup, s < k, s # 0 PROVE parents_[s] \in Node
        <5>1. s \in 1 .. k - 1
          BY <4>1, <1>1, <1>3
        <5> QED BY <5>1, <4>1, <1>5, <1>6, <1>8
      <4> QED BY <4>1, <1>5, <1>6
    <3> QED BY <3>1, <1>3, <1>4
  <2>2. first_children_ \in [Node -> Node \cup {None}]
    <3>1. \A n \in Node : first_children_[n] \in Node \cup {None}
      <4>1. ASSUME NEW n \in Node, first_children_[n] # None PROVE first_children_[n] \in Node
        <5>1. n \in 0 .. no_nodes(k) - 1 /\ first_children_[n] = F[n]
          BY <4>1, <1>1, <1>3, <1>5
        <5>2. PICK s \in 1 .. k - 1 : F[n] = first_node(s)
          BY <5>1, <4>1, <1>6
        <5>3. first_node(s) \in 0 .. no_nodes(k) - 1
          BY <1>1, <1>7
        <5> QED BY <5>1, <5>2, <5>3, <1>8
      <4> QED BY <4>1
    <3> QED BY <3>1, <1>3, <1>4
  <2>3. size_ \in 1 .. capacity /\ first_free_sibling_group_ \in 1 .. sg_capacity_
    BY <1>1, <1>2, <1>4
  <2>4. failed = "no"
    BY DEF InMemory
  <2> QED BY <2>1, <2>2, <2>3, <2>4 DEF TypeOK
<1>11. EdgesAgree
  <2>1. parents_[0] = None
    BY <1>1, <1>3, <1>5, <1>6
  <2>2. ASSUME NEW s \in SiblingGroup \ {0}, parents_[s] # None
        PROVE  first_children_[parents_[s]] = first_node(s)
    <3>1. s \in 1 .. k - 1 /\ parents_[s] = P[s]
      BY <2>2, <1>1, <1>3, <1>5
    <3>2. PICK n \in 0 .. no_nodes(k) - 1 : n = P[s] /\ F[n] = first_node(s)
      BY <3>1, <1>6
    <3>3. first_children_[n] = F[n]
      BY <1>1, <1>5, <1>8
    <3> QED BY <3>1, <3>2, <3>3
  <2>3. ASSUME NEW n \in Node, ~is_leaf(n)
        PROVE  \E s \in SiblingGroup \ {0} : first_children_[n] = first_node(s) /\ parents_[s] = n
    <3>1. n \in 0 .. no_nodes(k) - 1 /\ first_children_[n] = F[n] /\ F[n] # None
      BY <2>3, <1>1, <1>3, <1>5 DEF is_leaf
    <3>2. PICK s \in 1 .. k - 1 : F[n] = first_node(s) /\ P[s] = n
      BY <3>1, <1>6
    <3>3. s \in SiblingGroup \ {0} /\ parents_[s] = P[s]
      BY <1>1, <1>3, <1>5
    <3> QED BY <3>1, <3>2, <3>3
  <2> QED BY <2>1, <2>2, <2>3 DEF EdgesAgree
<1>12. FreeNodesAreLeaves
  <2> SUFFICES ASSUME NEW n \in Node, is_free(sibling_group(n)) PROVE is_leaf(n)
    BY DEF FreeNodesAreLeaves
  <2>1. sibling_group(n) \in SiblingGroup /\ n \in Nat
    BY <1>1, <1>3, GroupOfNode
  <2>2. ~(sibling_group(n) < k)
    <3>1. sibling_group(n) \notin sibling_groups
      BY DEF sibling_groups
    <3> QED BY <3>1, <2>1, <1>1, <1>3, <1>9
  <2>3. ~(n < no_nodes(k))
    BY <2>1, <2>2, <1>1, FirstGroups
  <2> QED BY <2>3, <1>5 DEF is_leaf
<1>13. SizeCountsNodes
  <2>1. Cardinality(0 .. k - 1) = IF 0 > k - 1 THEN 0 ELSE k - 1 - 0 + 1
    BY <1>1, FS_Interval
  <2>2. Cardinality(0 .. k - 1) = k
    BY <2>1, <1>1
  <2> QED BY <2>2, <1>4, <1>9 DEF SizeCountsNodes
<1>14. NoOrphans
  <2> SUFFICES ASSUME NEW X \in SUBSET (sibling_groups \ {0}), X # {}
               PROVE  \E s \in X : sibling_group(parents_[s]) \notin X
    BY DEF NoOrphans
  <2>1. X \in SUBSET (1 .. k - 1)
    BY <1>1, <1>9
  <2>2. PICK s \in X : sibling_group(P[s]) \notin X
    BY <2>1 DEF Whole
  <2>3. parents_[s] = P[s]
    BY <2>1, <1>1, <1>3, <1>5
  <2> QED BY <2>2, <2>3
<1>15. Object(Memory, P, F, k, sg_capacity_)
  <2>1. /\ Memory.size = size_ /\ Memory.first_free = first_free_sibling_group_
        /\ Memory.capacity = capacity /\ Memory.parents = parents_
        /\ Memory.first_children = first_children_
    BY DEF Memory
  <2> QED BY <2>1, <1>1, <1>4 DEF Object
<1>16. UsedIn(Memory) = 0 .. no_nodes(k) - 1 /\ PathsIn(Memory) = path
  BY <1>15, EdgesOfObject
<1>17. Value(Memory).refined = RefinedOf(F, path, k)
  <2>1. Value(Memory).refined
          = {PathsIn(Memory)[n] : n \in {n \in UsedIn(Memory) : Memory.first_children[n] # None}}
    BY DEF Value
  <2>2. \A n \in 0 .. no_nodes(k) - 1 : Memory.first_children[n] = F[n]
    BY <1>1, <1>5, <1>8 DEF Memory
  <2>3. {n \in 0 .. no_nodes(k) - 1 : F[n] # None}
          = {n \in 0 .. no_nodes(k) - 1 : Memory.first_children[n] # None}
    BY <2>2
  <2> QED BY <1>16, <2>1, <2>3, Zenon DEF RefinedOf
<1> QED BY <1>10, <1>11, <1>12, <1>13, <1>14, <1>17 DEF Storage

(* The same about the next state. *)
LEMMA NextStorageOfObject ==
  (\A m, P, F, path, k :
     Whole(P, F, path, k) /\ Object(m, P, F, k, sg_capacity_) /\ InMemory(m)
       => Storage /\ Value(Memory).refined = RefinedOf(F, path, k))'
<1>1. \A m, P, F, path, k :
        Whole(P, F, path, k) /\ Object(m, P, F, k, sg_capacity_) /\ InMemory(m)
          => Storage /\ Value(Memory).refined = RefinedOf(F, path, k)
  BY StorageOfObject
<1> QED BY <1>1, PTL

(* The same about the next state. *)
LEMMA NextValueOfMemory == Storage' => (Value(Memory).refined = RefinedPaths)'
<1>1. Storage => Value(Memory).refined = RefinedPaths
  BY ValueOfMemory
<1> QED BY <1>1, PTL

(* A program that starts anew has the tree of one node. *)
LEMMA StartsAnew == Init => Storage /\ Value(Memory).refined = {}
<1> SUFFICES ASSUME Init PROVE Storage /\ Value(Memory).refined = {}
  OBVIOUS
<1>1. Storage
  BY InitStorage
<1>2. RefinedPaths = {}
  BY InitRefines DEF Abstract!Init, RefinedPaths
<1> QED BY <1>1, <1>2, ValueOfMemory

(* The same about the next state. *)
LEMMA NextStartsAnew == Init' => (Storage /\ Value(Memory).refined = {})'
BY StartsAnew, PTL

-----------------------------------------------------------------------------
(* The invariant: while the program runs its memory is a tree, the table of  *)
(* grid nodes has its size, and the file holds what was saved.               *)

(* There is no file, or there is one and it holds what was saved last. *)
OnDisk ==
  \/ disk = <<>> /\ saved = <<>>
  \/ \E f, v : disk = <<f>> /\ saved = <<v>> /\ Holds(f, v)

RestoreInv ==
  /\ OnDisk
  /\ failed = "no" => Storage
  /\ \E cols : GridTable(cols)

(* A program starts with a tree of one node and no file. *)
LEMMA RestoreInitInv == RestoreInit => RestoreInv
<1> SUFFICES ASSUME RestoreInit PROVE RestoreInv
  OBVIOUS
<1>1. Storage
  BY InitStorage DEF RestoreInit
<1>2. NoGrids \in Nat
  BY GridsAssumption
<1>3. GridTable(NoGrids)
  BY <1>2 DEF RestoreInit, GridTable
<1> QED BY <1>1, <1>3 DEF RestoreInit, RestoreInv, OnDisk

(* A program that starts from the file has the tree of the file. *)
LEMMA RestartStorage ==
  ASSUME NEW f, NEW v, disk = <<f>>, Holds(f, v), from_session
  PROVE  /\ Storage'
         /\ (Value(Memory).refined)' = v.refined
         /\ \E cols : GridTable(cols)'
<1>1. PICK P, F, C, path, k, cols :
        Whole(P, F, path, k) /\ FileOf(f, P, F, C, k, cols) /\ ValueOf(v, F, C, path, k, cols)
  BY DEF Holds
<1>2. k \in Nat \ {0} /\ cols \in Nat /\ no_nodes(k) \in Nat \ {0}
      /\ capacity \in Nat \ {0} /\ sg_capacity_ \in Nat \ {0} /\ capacity = no_nodes(sg_capacity_)
      /\ no_sibling_groups(capacity) = sg_capacity_ /\ capacity # None
  BY <1>1, CapacityOfGroups, FirstGroups DEF Whole, FileOf, capacity, None
<1>3. disk[1] = f
  OBVIOUS
<1>4. no_nodes(k) <= capacity
  <2>1. status(f, NC, capacity, None) = "read"
    BY <1>3 DEF from_session
  <2>2. capacity \in Nat \cup {None} /\ None \in Nat \cup {None}
    BY <1>2
  <2>3. PICK n \in Nat \cup {None}, g \in Nat \cup {None} : n = capacity /\ g = None
    BY <2>2
  <2>4. status(f, NC, n, g) = "read"
          <=> /\ NC = NC
              /\ n = None \/ n >= no_nodes(k)
              /\ f.type # "multi" \/ g = None \/ cols <= g
    BY <1>1, <1>2, StatusOfFile
  <2>5. capacity = None \/ capacity >= no_nodes(k)
    BY <2>1, <2>3, <2>4
  <2> QED BY <2>5, <1>2
<1> DEFINE m == Read(f, capacity, None)
<1>5. Object(m, P, F, k, sg_capacity_)
  <2>1. capacity \in (Nat \ {0}) \cup {None}
    BY <1>2
  <2>2. sg_capacity_ = IF capacity = None THEN k ELSE no_sibling_groups(capacity)
    BY <1>2
  <2> QED BY <1>1, <1>4, <2>1, <2>2, ObjectOfFile
<1>6. GridsRead(m, f, C, k, cols, sg_capacity_)
  <2>1. capacity \in (Nat \ {0}) \cup {None} /\ None \in Nat \cup {None}
    BY <1>2
  <2>2. sg_capacity_ = IF capacity = None THEN k ELSE no_sibling_groups(capacity)
    BY <1>2
  <2> QED BY <1>1, <1>2, <2>1, <2>2, GridsOfFile
<1>7. /\ parents_' = m.parents /\ first_children_' = m.first_children
      /\ size_' = m.size /\ first_free_sibling_group_' = m.first_free
      /\ grids_' = m.grids /\ failed' = "no"
  BY <1>3 DEF from_session
<1> HIDE DEF m
<1>8. InMemory(m)'
  BY <1>7 DEF InMemory
<1>9. Storage' /\ (Value(Memory).refined)' = RefinedOf(F, path, k)
  BY <1>1, <1>5, <1>8, NextStorageOfObject
<1>10. v.refined = RefinedOf(F, path, k)
  BY <1>1 DEF ValueOf, RefinedOf
<1>11. PICK cs \in Nat : DOMAIN m.grids = 0 .. capacity * cs - 1
  BY <1>2, <1>6 DEF GridsRead
<1>12. GridTable(cs)'
  BY <1>7, <1>11 DEF GridTable
<1> QED BY <1>9, <1>10, <1>12

(* A program that starts anew has a tree of one node and an empty table. *)
LEMMA RestartFresh ==
  ASSUME Started
  PROVE  Storage' /\ (Value(Memory).refined)' = {} /\ GridTable(NoGrids)'
<1>1. Init'
  BY DEF Started, Init
<1>2. NoGrids \in Nat
  BY GridsAssumption
<1>3. GridTable(NoGrids)'
  BY <1>2 DEF Started, GridTable
<1> QED BY <1>1, <1>3, NextStartsAnew

(* Refining, coarsening, sorting, writing, ending and starting again all *)
(* keep the invariant.                                                   *)
LEMMA RestoreNextInv ==
  ASSUME RestoreInv, [RestoreNext]_vars_
  PROVE  RestoreInv'
<1> USE DEF RestoreInv
<1>1. ASSUME UNCHANGED <<disk, saved>> PROVE OnDisk'
  BY <1>1 DEF OnDisk
<1>2. ASSUME DOMAIN grids_' = DOMAIN grids_ PROVE (\E cols : GridTable(cols))'
  BY <1>2 DEF GridTable
<1>3. ASSUME NEW p \in Node, NEW gs, grow(p, gs)
      PROVE  RestoreInv'
  <2>1. Storage /\ refine(p)
    BY <1>3 DEF grow, refine, RefineFull, RefineStops, RefineTakes, CanRefine
  <2>2. NextPublic
    BY <2>1 DEF NextPublic
  <2>3. Storage'
    BY <2>1, <2>2, NextStorage
  <2> QED BY <2>3, <1>1, <1>2, <1>3 DEF grow
<1>4. ASSUME NEW p \in Node, shrink(p)
      PROVE  RestoreInv'
  <2>1. Storage /\ coarsen(p)
    BY <1>4 DEF shrink, coarsen, CanCoarsen
  <2>2. Storage'
    BY <2>1, CoarsenStorage
  <2> QED BY <2>2, <1>1, <1>2, <1>4 DEF shrink
<1>5. ASSUME NEW type, to_file(type)
      PROVE  RestoreInv'
  <2>1. ASSUME NEW assertion \in {"is_compact: first free sibling group is wrong",
                                  "cannot write non-compact or non-sorted tree/grid"},
               Stopped(assertion)
        PROVE  RestoreInv'
    <3>1. failed' # "no" /\ UNCHANGED <<disk, saved, grids_>>
      BY <2>1 DEF Stopped, Stop
    <3> QED BY <3>1, <1>1, <1>2
  <2>2. ASSUME failed = "no", IsCompact, NoFreeGroups, Written(type)
        PROVE  RestoreInv'
    <3>1. Storage
      BY <2>2
    <3>2. PICK cols : GridTable(cols)
      OBVIOUS
    <3>3. PICK f, v : f = File(type) /\ v = Value(Memory)
      OBVIOUS
    <3>4. Holds(f, v)
      BY <2>2, <3>1, <3>2, <3>3, WriteHolds
    <3>5. disk' = <<f>> /\ saved' = <<v>> /\ UNCHANGED vars /\ grids_' = grids_
      BY <2>2, <3>3 DEF Written
    <3>6. OnDisk'
      BY <3>4, <3>5 DEF OnDisk
    <3>7. Storage'
      BY <3>1, <3>5, StopStorage
    <3> QED BY <3>5, <3>6, <3>7, <1>2
  <2> QED BY <1>5, <2>1, <2>2 DEF to_file
<1>6. CASE restart
  <2>1. CASE from_session
    <3>1. PICK f, v : disk = <<f>> /\ saved = <<v>> /\ Holds(f, v)
      BY <2>1 DEF OnDisk, from_session
    <3>2. Storage' /\ \E cols : GridTable(cols)'
      BY <2>1, <3>1, RestartStorage
    <3> QED BY <3>2, <2>1, <1>1 DEF from_session
  <2>2. CASE Started /\ UNCHANGED <<disk, saved>>
    BY <2>2, <1>1, RestartFresh
  <2> QED BY <1>6, <2>1, <2>2 DEF restart
<1>7. CASE UNCHANGED vars_
  <2>1. UNCHANGED vars /\ UNCHANGED <<disk, saved>> /\ grids_' = grids_ /\ failed' = failed
    BY <1>7 DEF vars_, vars
  <2>2. failed' = "no" => Storage'
    BY <2>1, StopStorage
  <2> QED BY <2>1, <2>2, <1>1, <1>2
<1> QED BY <1>3, <1>4, <1>5, <1>6, <1>7 DEF RestoreNext

(* The invariant holds in every state of the program and its disk. *)
THEOREM RestoreInvariant == RestoreSpec => []RestoreInv
BY RestoreInitInv, RestoreNextInv, PTL DEF RestoreSpec

(* What is on the disk can be read back by any reader that has room. *)
LEMMA RestoresFromInv == RestoreInv => RestoresWhatWasWritten
<1> SUFFICES ASSUME RestoreInv PROVE RestoresWhatWasWritten
  OBVIOUS
<1>1. CASE disk = <<>>
  BY <1>1 DEF RestoresWhatWasWritten
<1>2. CASE \E f, v : disk = <<f>> /\ saved = <<v>> /\ Holds(f, v)
  <2>1. PICK f, v : disk = <<f>> /\ saved = <<v>> /\ Holds(f, v)
    BY <1>2
  <2>2. DOMAIN disk = {1} /\ disk[1] = f /\ saved[1] = v
    BY <2>1
  <2>3. ASSUME NEW nc \in {2, 4, 8}, NEW n \in NodeCapacities \cup {None},
               NEW g \in GridCapacities \cup {None}
        PROVE  Restores(disk[1], saved[1], nc, n, g)
    <3>1. n \in (Nat \ {0}) \cup {None} /\ g \in (Nat \ {0}) \cup {None}
      BY ReadersAssumption
    <3> QED BY <2>1, <2>2, <3>1, ReadBack
  <2>4. \A nc, n, g : Restores(disk[1], saved[1], nc, n, g)
          <=> LET m == Read(disk[1], n, g)
                  fits == /\ nc = NC
                          /\ n = None \/ n >= 1 + NC * Cardinality(saved[1].refined)
                          /\ disk[1].type # "multi" \/ g = None
                               \/ \A cell \in saved[1].cells : cell[2] < g
              IN  /\ status(disk[1], nc, n, g) = "read" <=> fits
                  /\ fits =>
                       /\ WellFormed(m)
                       /\ ReadyToRefine(m)
                       /\ Value(m).refined = saved[1].refined
                       /\ disk[1].type = "multi" =>
                            /\ saved[1].cells \subseteq Value(m).cells
                            /\ \A cell \in Value(m).cells \ saved[1].cells : cell[3] = None
    BY Zenon DEF Restores, Fits
  <2> QED BY <2>2, <2>3, <2>4 DEF RestoresWhatWasWritten
<1> QED BY <1>1, <1>2 DEF RestoreInv, OnDisk

(* From the file on disk every reader with room, of whatever capacities, gets *)
(* the tree that was written and its grid nodes, in a tree that can be        *)
(* refined; a reader is refused only for the dimension or for want of room.   *)
THEOREM RestoreReads == RestoreSpec => []RestoresWhatWasWritten
BY RestoreInvariant, RestoresFromInv, PTL

-----------------------------------------------------------------------------
(* The refinement of the durable tree. *)

(* The program starts as the durable tree does. *)
LEMMA DurableInit == RestoreInit => Durable!Init /\ [i \in DOMAIN saved |-> saved[i].refined] = <<>>
<1> SUFFICES ASSUME RestoreInit
             PROVE  Value(Memory).refined = {} /\ [i \in DOMAIN saved |-> saved[i].refined] = <<>>
  BY DEF Durable!Init
<1>1. Value(Memory).refined = {}
  BY StartsAnew DEF RestoreInit
<1>2. [i \in DOMAIN saved |-> saved[i].refined] = <<>>
  BY DEF RestoreInit
<1> QED BY <1>1, <1>2

(* The steps of the abstract tree are the same about either reading of it. *)
LEMMA AbstractDurable ==
  ASSUME Storage, Storage', Abstract!Next \/ RefinedPaths' = RefinedPaths
  PROVE  Durable!Next \/ (Value(Memory).refined)' = Value(Memory).refined
<1>1. Value(Memory).refined = RefinedPaths
  BY ValueOfMemory
<1>2. (Value(Memory).refined)' = RefinedPaths'
  BY NextValueOfMemory
<1>3. CASE RefinedPaths' = RefinedPaths
  BY <1>1, <1>2, <1>3
<1>4. CASE Abstract!Next
  <2>1. Abstract!Leaves = Durable!Leaves
    <3>1. Abstract!Leaves = (IF RefinedPaths = {} THEN {<<>>} ELSE {})
            \cup {path \in {Append(r, c) : r \in RefinedPaths, c \in 0 .. NC - 1} :
                    path \notin RefinedPaths}
      BY DEF Abstract!Leaves, RefinedPaths
    <3>2. Durable!Leaves = (IF Value(Memory).refined = {} THEN {<<>>} ELSE {})
            \cup {path \in {Append(r, c) : r \in Value(Memory).refined, c \in 0 .. NC - 1} :
                    path \notin Value(Memory).refined}
      BY DEF Durable!Leaves
    <3>3. Durable!Leaves = (IF RefinedPaths = {} THEN {<<>>} ELSE {})
            \cup {path \in {Append(r, c) : r \in RefinedPaths, c \in 0 .. NC - 1} :
                    path \notin RefinedPaths}
      BY <1>1, <3>2
    <3> QED BY <3>1, <3>3
  <2>2. \A path : Abstract!Refine(path) <=> Durable!Refine(path)
    <3> SUFFICES ASSUME NEW path PROVE Abstract!Refine(path) <=> Durable!Refine(path)
      OBVIOUS
    <3>1. Abstract!Refine(path) <=> /\ path \in Abstract!Leaves
                                    /\ Abstract!Cardinality(RefinedPaths) < sg_capacity_ - 1
                                    /\ RefinedPaths' = RefinedPaths \cup {path}
      BY Zenon DEF Abstract!Refine, RefinedPaths
    <3>2. Durable!Refine(path) <=> /\ path \in Durable!Leaves
                                   /\ Durable!Cardinality(Value(Memory).refined) < sg_capacity_ - 1
                                   /\ (Value(Memory).refined)' = Value(Memory).refined \cup {path}
      BY Zenon DEF Durable!Refine
    <3>3. /\ Abstract!Cardinality(RefinedPaths) = Cardinality(RefinedPaths)
          /\ Durable!Cardinality(RefinedPaths) = Cardinality(RefinedPaths)
      BY DEF Abstract!Cardinality, Durable!Cardinality, Cardinality
    <3> QED BY <1>1, <1>2, <2>1, <3>1, <3>2, <3>3
  <2>3. \A path : Abstract!Coarsen(path) <=> Durable!Coarsen(path)
    <3> SUFFICES ASSUME NEW path PROVE Abstract!Coarsen(path) <=> Durable!Coarsen(path)
      OBVIOUS
    <3>1. Abstract!Coarsen(path) <=> /\ path \in RefinedPaths
                                     /\ \A c \in 0 .. NC - 1 : Append(path, c) \notin RefinedPaths
                                     /\ RefinedPaths' = RefinedPaths \ {path}
      BY DEF Abstract!Coarsen, RefinedPaths
    <3>2. Durable!Coarsen(path)
            <=> /\ path \in Value(Memory).refined
                /\ \A c \in 0 .. NC - 1 : Append(path, c) \notin Value(Memory).refined
                /\ (Value(Memory).refined)' = Value(Memory).refined \ {path}
      BY DEF Durable!Coarsen
    <3> QED BY <1>1, <1>2, <3>1, <3>2
  <2>4. Abstract!Next <=> \/ \E path \in Abstract!Leaves : Abstract!Refine(path)
                          \/ \E path \in RefinedPaths : Abstract!Coarsen(path)
    BY DEF Abstract!Next, RefinedPaths
  <2>5. Durable!Next <=> \/ \E path \in Durable!Leaves : Durable!Refine(path)
                         \/ \E path \in Value(Memory).refined : Durable!Coarsen(path)
    BY DEF Durable!Next
  <2>6. Abstract!Next <=> Durable!Next
    BY <1>1, <2>1, <2>2, <2>3, <2>4, <2>5
  <2> QED BY <2>6, <1>4
<1> QED BY <1>3, <1>4

(* Every step of the program is one of the durable tree: a refinement or *)
(* coarsening at a position, a save, a restart, or none.                 *)
LEMMA DurableStep ==
  ASSUME RestoreInv, RestoreInv', [RestoreNext]_vars_
  PROVE  [\/ Durable!Next /\ UNCHANGED [i \in DOMAIN saved |-> saved[i].refined]
          \/ Durable!Save
          \/ Durable!Restart]_<<Value(Memory).refined, [i \in DOMAIN saved |-> saved[i].refined]>>
<1> DEFINE R == Value(Memory).refined
           S == [i \in DOMAIN saved |-> saved[i].refined]
<1>1. ASSUME saved' = saved PROVE S' = S
  BY <1>1
<1>2. ASSUME UNCHANGED <<parents_, first_children_, size_, first_free_sibling_group_, grids_>>
      PROVE  R' = R
  <2>1. Memory' = Memory
    BY <1>2 DEF Memory
  <2> QED BY <2>1 DEF Value
<1>3. ASSUME Storage, Storage', [NextPublic]_vars PROVE Durable!Next \/ R' = R
  BY <1>3, StepRefines, AbstractDurable
<1>4. ASSUME NEW p \in Node, NEW gs, grow(p, gs)
      PROVE  (Durable!Next /\ S' = S) \/ (R' = R /\ S' = S)
  <2>1. Storage /\ refine(p)
    BY <1>4 DEF grow, refine, RefineFull, RefineStops, RefineTakes, CanRefine, RestoreInv
  <2>2. NextPublic
    BY <2>1 DEF NextPublic
  <2>3. Storage'
    BY <2>1, <2>2, NextStorage
  <2>4. S' = S
    BY <1>1, <1>4 DEF grow
  <2>5. Durable!Next \/ R' = R
    BY <1>3, <2>1, <2>2, <2>3
  <2> QED BY <2>4, <2>5
<1>5. ASSUME NEW p \in Node, shrink(p)
      PROVE  (Durable!Next /\ S' = S) \/ (R' = R /\ S' = S)
  <2>1. Storage /\ coarsen(p)
    BY <1>5 DEF shrink, coarsen, CanCoarsen, RestoreInv
  <2>2. NextPublic
    BY <2>1 DEF NextPublic
  <2>3. Storage'
    BY <2>1, CoarsenStorage
  <2>4. S' = S
    BY <1>1, <1>5 DEF shrink
  <2>5. Durable!Next \/ R' = R
    BY <1>3, <2>1, <2>2, <2>3
  <2> QED BY <2>4, <2>5
<1>6. ASSUME NEW type, to_file(type)
      PROVE  Durable!Save \/ (R' = R /\ S' = S)
  <2>1. ASSUME NEW assertion, Stopped(assertion) PROVE R' = R /\ S' = S
    BY <2>1, <1>1, <1>2 DEF Stopped, Stop
  <2>2. ASSUME Written(type) PROVE Durable!Save
    <3>1. R' = R
      BY <2>2, <1>2 DEF Written, vars
    <3>2. PICK v : v = Value(Memory)
      OBVIOUS
    <3>3. saved' = <<v>>
      BY <2>2, <3>2 DEF Written
    <3>4. S' = <<v.refined>>
      BY <3>3
    <3>5. S' = <<R>>
      BY <3>2, <3>4
    <3> QED BY <3>1, <3>5 DEF Durable!Save
  <2> QED BY <1>6, <2>1, <2>2 DEF to_file
<1>7. ASSUME restart PROVE Durable!Restart
  <2>1. S' = S
    BY <1>1, <1>7 DEF restart, from_session
  <2>2. CASE from_session
    <3>1. PICK f, v : disk = <<f>> /\ saved = <<v>> /\ Holds(f, v)
      BY <2>2 DEF RestoreInv, OnDisk, from_session
    <3>2. R' = v.refined
      BY <2>2, <3>1, RestartStorage
    <3>3. S = <<v.refined>>
      BY <3>1
    <3> HIDE DEF R, S
    <3>4. S # <<>> /\ S[1] = v.refined
      BY <3>3
    <3>5. R' = IF S = <<>> THEN {} ELSE S[1]
      BY <3>2, <3>4
    <3> QED BY <2>1, <3>5 DEF Durable!Restart, R, S
  <2>3. CASE disk = <<>> /\ Started
    <3>1. saved = <<>>
      BY <2>3 DEF RestoreInv, OnDisk
    <3>2. S = <<>>
      BY <3>1
    <3>3. R' = {}
      BY <2>3, RestartFresh
    <3> QED BY <2>1, <3>2, <3>3 DEF Durable!Restart
  <2> QED BY <1>7, <2>2, <2>3 DEF restart
<1>8. ASSUME UNCHANGED vars_ PROVE R' = R /\ S' = S
  BY <1>1, <1>2, <1>8 DEF vars_, vars
<1> HIDE DEF R, S
<1>9. \/ Durable!Next /\ S' = S
      \/ Durable!Save
      \/ Durable!Restart
      \/ R' = R /\ S' = S
  <2>1. CASE \E p \in Node : \E gs \in LinkSets : grow(p, gs)
    BY <2>1, <1>4, Zenon
  <2>2. CASE \E p \in Node : shrink(p)
    BY <2>2, <1>5, Zenon
  <2>3. CASE \E type \in {"tree", "single", "multi"} : to_file(type)
    BY <2>3, <1>6, Zenon
  <2>4. CASE restart
    BY <2>4, <1>7, Zenon
  <2>5. CASE UNCHANGED vars_
    BY <2>5, <1>8, Zenon
  <2> QED BY <2>1, <2>2, <2>3, <2>4, <2>5, Zenon DEF RestoreNext
<1> QED BY <1>9 DEF R, S

(* A program that ends and starts again goes on with the tree it saved last, *)
(* through any number of refinements, writes and starts.                     *)
THEOREM RestoreRefines == RestoreSpec => ImplementsDurableTree
<1>1. RestoreInv /\ RestoreInv' /\ [RestoreNext]_vars_
        => [\/ Durable!Next /\ UNCHANGED [i \in DOMAIN saved |-> saved[i].refined]
            \/ Durable!Save
            \/ Durable!Restart]_<<Value(Memory).refined, [i \in DOMAIN saved |-> saved[i].refined]>>
  BY DurableStep
<1> QED BY <1>1, DurableInit, RestoreInvariant, PTL
        DEF RestoreSpec, ImplementsDurableTree, Durable!DurableSpec

=============================================================================
