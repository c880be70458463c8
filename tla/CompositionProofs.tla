-------------------------- MODULE CompositionProofs --------------------------
(***************************************************************************)
(* Proofs about flattening, for every library of packages: that circular   *)
(* imports and only those are refused, that every component arrives with   *)
(* its model, and that the connections of the flat architecture are the    *)
(* routes through the packages; and about what is printed of an            *)
(* architecture: the chain of inspect and the tree of deps.                *)
(***************************************************************************)
EXTENDS CommandsProofs, FiniteSetTheorems, WellFoundedInduction

------------------------------------------------------------------------------
(* Induction, as a fact about sets of numbers. *)

LEMMA Least ==
  ASSUME NEW T \in SUBSET Nat, T # {}
  PROVE  \E m \in T : \A k \in T : m <= k
<1>1. \E R : IsWellFoundedOn(R, Nat) /\ \A k, m \in Nat : k < m => <<k, m>> \in R
  <2>1. \A k, m \in Nat : k < m => <<k, m>> \in OpToRel(<, Nat)
    BY DEF OpToRel
  <2> QED BY <2>1, NatLessThanWellFounded, Zenon
<1>2. PICK R : IsWellFoundedOn(R, Nat) /\ \A k, m \in Nat : k < m => <<k, m>> \in R
  BY <1>1
<1>3. T \subseteq Nat /\ IsWellFoundedOn(R, Nat)
  BY <1>2
<1>4. \E m \in T : \A k \in T : ~(<<k, m>> \in R)
  BY <1>3, WFMin, Zenon
<1>5. PICK m \in T : \A k \in T : ~(<<k, m>> \in R)
  BY <1>4
<1>6. ASSUME NEW k \in T PROVE m <= k
  <2>1. k \in Nat /\ m \in Nat /\ ~(<<k, m>> \in R)
    BY <1>5
  <2>2. k < m => <<k, m>> \in R
    BY <1>2, <2>1
  <2> QED BY <2>1, <2>2
<1> QED BY <1>6

LEMMA UpTo ==
  ASSUME NEW N \in Nat, NEW T, 0 \in T, \A n \in 0..N : n \in T /\ n < N => n + 1 \in T
  PROVE  0..N \subseteq T
<1> SUFFICES ASSUME (0..N) \ T # {} PROVE FALSE
  OBVIOUS
<1>1. PICK m \in (0..N) \ T : \A k \in (0..N) \ T : m <= k
  <2>1. (0..N) \ T \in SUBSET Nat
    OBVIOUS
  <2> QED BY <2>1, Least
<1>2. m - 1 \in 0..N /\ m - 1 \in T /\ m - 1 < N
  BY <1>1
<1> QED BY <1>1, <1>2

------------------------------------------------------------------------------
(* The packages on a path. *)

Below(p, name) == Library[Key(ParseFile(p).components[<<name>>])]

LEMMA PackagesOnIs ==
  ASSUME NEW path \in Names
  PROVE  PackagesOn(path) =
           [i \in 0..Len(path) |->
              IF i = 0 THEN root ELSE Below(PackagesOn(path)[i - 1], path[i])]
<1> DEFINE N == Len(path)
           IsUpTo(n) == \E g : g = [i \in 0..n |->
                                IF i = 0 THEN root ELSE Below(g[i - 1], path[i])]
           T == {n \in 0..N : IsUpTo(n)}
<1>0. N \in Nat
  BY DEF Names
<1>1. IsUpTo(0)
  <2> DEFINE g == [i \in 0..0 |-> root]
  <2>1. g = [i \in 0..0 |-> IF i = 0 THEN root ELSE Below(g[i - 1], path[i])]
    OBVIOUS
  <2> QED BY <2>1
<1>2. ASSUME NEW n \in 0..N, IsUpTo(n)  PROVE IsUpTo(n + 1)
  <2>1. PICK g : g = [i \in 0..n |-> IF i = 0 THEN root ELSE Below(g[i - 1], path[i])]
    BY <1>2
  <2> DEFINE h == [i \in 0..n + 1 |-> IF i = n + 1 THEN Below(g[n], path[n + 1]) ELSE g[i]]
  <2>2. ASSUME NEW i \in 0..n + 1
        PROVE  h[i] = IF i = 0 THEN root ELSE Below(h[i - 1], path[i])
    <3>1. CASE i = n + 1
      BY <3>1
    <3>2. CASE i = 0
      BY <2>1, <3>2
    <3>3. CASE i \in 1..n
      <4>1. h[i] = g[i] /\ h[i - 1] = g[i - 1] /\ i \in 0..n
        BY <3>3
      <4> QED BY <2>1, <3>3, <4>1
    <3> QED BY <3>1, <3>2, <3>3
  <2>3. h = [i \in 0..n + 1 |-> h[i]]
    OBVIOUS
  <2> HIDE DEF h
  <2>4. h = [i \in 0..n + 1 |-> IF i = 0 THEN root ELSE Below(h[i - 1], path[i])]
    BY <2>2, <2>3
  <2> QED BY <2>4
<1>3. IsUpTo(N)
  <2> HIDE DEF IsUpTo
  <2>1. 0 \in T /\ \A n \in 0..N : n \in T /\ n < N => n + 1 \in T
    BY <1>0, <1>1, <1>2
  <2> HIDE DEF T
  <2>2. 0..N \subseteq T
    BY <1>0, <2>1, UpTo
  <2> QED BY <1>0, <2>2 DEF T
<1> QED BY <1>3 DEF PackagesOn, Below

\* Names put one after the other.
LEMMA Cat ==
  ASSUME NEW p \in Names, NEW q \in Names
  PROVE  /\ p \o q \in Names /\ Len(p \o q) = Len(p) + Len(q)
         /\ Len(p) \in Nat /\ Len(q) \in Nat
         /\ \A i \in 1..Len(p) : (p \o q)[i] = p[i]
         /\ \A i \in 1..Len(q) : (p \o q)[Len(p) + i] = q[i]
<1> DEFINE pq == p \o q
<1>1. p \in Seq(STRING) /\ q \in Seq(STRING) /\ Len(p) \in Nat /\ Len(q) \in Nat
  BY DEF Names
<1>2. /\ pq \in Seq(STRING) /\ Len(pq) = Len(p) + Len(q)
      /\ \A i \in 1..Len(p) + Len(q) : pq[i] = IF i <= Len(p) THEN p[i] ELSE q[i - Len(p)]
  BY <1>1, ConcatProperties
<1> HIDE DEF pq
<1>3. \A i \in 1..Len(p) : pq[i] = p[i]
  BY <1>1, <1>2
<1>4. ASSUME NEW i \in 1..Len(q)  PROVE pq[Len(p) + i] = q[i]
  <2>1. Len(p) + i \in 1..Len(p) + Len(q) /\ ~(Len(p) + i <= Len(p))
        /\ (Len(p) + i) - Len(p) = i
    BY <1>1
  <2> QED BY <1>2, <2>1
<1> QED BY <1>1, <1>2, <1>3, <1>4 DEF pq, Names

LEMMA CatLaws ==
  /\ \A p \in Names : p \o <<>> = p /\ <<>> \o p = p
  /\ \A p, q, r \in Names : (p \o q) \o r = p \o (q \o r)
  /\ \A p, q, r \in Names : p \o q = p \o r => q = r
  /\ <<>> \in Names
<1>1. \A p \in Names : p \o <<>> = p /\ <<>> \o p = p
  BY ConcatEmptySeq DEF Names
<1>2. \A p, q, r \in Names : (p \o q) \o r = p \o (q \o r)
  BY ConcatAssociative, SMTT(30) DEF Names
<1>3. \A p, q, r \in Names : p \o q = p \o r => q = r
  BY ConcatSimplifications DEF Names
<1>4. <<>> \in Names
  BY EmptySeq DEF Names
<1> QED BY <1>1, <1>2, <1>3, <1>4

LEMMA CatAssoc ==
  ASSUME NEW p \in Names, NEW q \in Names, NEW r \in Names
  PROVE  p \o (q \o r) = (p \o q) \o r
<1>1. p \in Seq(STRING) /\ q \in Seq(STRING) /\ r \in Seq(STRING)
  BY DEF Names
<1> QED BY <1>1, ConcatAssociative

LEMMA CatCancel ==
  ASSUME NEW p \in Names, NEW q \in Names, NEW r \in Names, p \o q = p \o r
  PROVE  q = r
<1>1. p \in Seq(STRING) /\ q \in Seq(STRING) /\ r \in Seq(STRING)
  BY DEF Names
<1> QED BY <1>1, ConcatSimplifications

LEMMA OneOf ==
  ASSUME NEW S, NEW c \in S
  PROVE  <<c>> \in Seq(S) /\ Len(<<c>>) = 1 /\ <<c>>[1] = c
OBVIOUS

LEMMA One ==
  ASSUME NEW s \in STRING
  PROVE  <<s>> \in Names /\ Len(<<s>>) = 1 /\ <<s>>[1] = s
BY OneOf DEF Names

\* A path and a name of one segment after it.
LEMMA Longer ==
  ASSUME NEW p \in Names, NEW s \in STRING
  PROVE  /\ p \o <<s>> \in Names /\ Len(p \o <<s>>) = Len(p) + 1 /\ Len(p) \in Nat
         /\ \A i \in 1..Len(p) : (p \o <<s>>)[i] = p[i]
         /\ (p \o <<s>>)[Len(p) + 1] = s
         /\ <<s>> \in Names
<1> DEFINE one == <<s>>
<1>1. one \in Names /\ Len(one) = 1 /\ one[1] = s
  BY One
<1> HIDE DEF one
<1>2. /\ p \o one \in Names /\ Len(p \o one) = Len(p) + 1 /\ Len(p) \in Nat
      /\ \A i \in 1..Len(p) : (p \o one)[i] = p[i]
      /\ \A i \in 1..Len(one) : (p \o one)[Len(p) + i] = one[i]
  <2>1. /\ p \o one \in Names /\ Len(p \o one) = Len(p) + Len(one) /\ Len(p) \in Nat
        /\ \A i \in 1..Len(p) : (p \o one)[i] = p[i]
        /\ \A i \in 1..Len(one) : (p \o one)[Len(p) + i] = one[i]
    BY <1>1, Cat
  <2> QED BY <1>1, <2>1
<1>3. (p \o one)[Len(p) + 1] = s
  <2>1. 1 \in 1..Len(one)
    BY <1>1
  <2> QED BY <1>1, <1>2, <2>1
<1> QED BY <1>1, <1>2, <1>3 DEF one

LEMMA SameName ==
  ASSUME NEW p \in Names, NEW q \in Names, Len(p) = Len(q), \A i \in 1..Len(p) : p[i] = q[i]
  PROVE  p = q
BY SeqEqual DEF Names

LEMMA Shorter ==
  ASSUME NEW path \in Names, path # <<>>
  PROVE  /\ path = Front(path) \o <<Last(path)>>
         /\ Front(path) \in Names /\ Last(path) \in STRING
         /\ Len(path) = Len(Front(path)) + 1 /\ Len(Front(path)) \in Nat
<1> DEFINE p == SubSeq(path, 1, Len(path) - 1)
           s == path[Len(path)]
<1>1. path \in Seq(STRING) /\ Len(path) \in Nat /\ Len(path) > 0
  BY DEF Names
<1>2. s \in STRING /\ p \in Names /\ Len(p) = Len(path) - 1 /\ Len(p) \in Nat
  <2>1. s \in STRING
    BY <1>1
  <2>2. \A i \in 1..Len(path) - 1 : path[i] \in STRING
    BY <1>1
  <2>3. /\ p \in Seq(STRING)
        /\ Len(p) = IF 1 <= Len(path) - 1 THEN (Len(path) - 1) - 1 + 1 ELSE 0
    BY <1>1, <2>2, SubSeqProperties
  <2>4. p \in Names
    BY <2>3 DEF Names
  <2>5. Len(p) = Len(path) - 1 /\ Len(p) \in Nat
    <3> DEFINE n == Len(path)
               k == Len(p)
    <3>1. n \in Nat /\ n > 0 /\ k = IF 1 <= n - 1 THEN (n - 1) - 1 + 1 ELSE 0
      BY <1>1, <2>3
    <3> HIDE DEF n, k
    <3>2. k = n - 1 /\ k \in Nat
      BY <3>1
    <3> QED BY <3>2 DEF n, k
  <2> QED BY <2>1, <2>4, <2>5
<1>3. \A i \in 1..Len(p) : p[i] = path[i]
  BY <1>1, <1>2
<1>4. path = p \o <<s>>
  <2> DEFINE ps == p \o <<s>>
  <2>1. /\ ps \in Names /\ Len(ps) = Len(p) + 1
        /\ \A i \in 1..Len(p) : ps[i] = p[i]
        /\ ps[Len(p) + 1] = s
    BY <1>2, Longer
  <2>2. s = path[Len(p) + 1] /\ Len(path) = Len(p) + 1
    BY <1>1, <1>2
  <2> HIDE DEF p, s, ps
  <2>3. ASSUME NEW i \in 1..Len(ps)  PROVE ps[i] = path[i]
    <3>1. i \in 1..Len(p) \/ i = Len(p) + 1
      BY <1>2, <2>1
    <3> QED BY <1>3, <2>1, <2>2, <3>1
  <2>4. ps = path
    BY <1>1, <2>1, <2>2, <2>3, SameName
  <2> QED BY <2>4 DEF ps
<1>5. p = Front(path) /\ s = Last(path)
  BY DEF Front, Last
<1> HIDE DEF p, s
<1> QED BY <1>1, <1>2, <1>4, <1>5

LEMMA FrontLast ==
  ASSUME NEW p \in Names, NEW s \in STRING
  PROVE  Front(p \o <<s>>) = p /\ Last(p \o <<s>>) = s /\ p \o <<s>> # <<>>
<1> DEFINE q == p \o <<s>>
<1>1. /\ q \in Names /\ Len(q) = Len(p) + 1 /\ Len(p) \in Nat
      /\ \A i \in 1..Len(p) : q[i] = p[i]
      /\ q[Len(p) + 1] = s
  BY Longer
<1> HIDE DEF q
<1>2. q # <<>> /\ Last(q) = s
  <2>1. Len(q) # 0
    BY <1>1
  <2> QED BY <1>1, <2>1 DEF Last, Names
<1>3. /\ Front(q) \in Names /\ Len(q) = Len(Front(q)) + 1 /\ Len(Front(q)) \in Nat
      /\ q = Front(q) \o <<s>>
  BY <1>1, <1>2, Shorter
<1>4. \A i \in 1..Len(Front(q)) : q[i] = Front(q)[i]
  <2>1. \A i \in 1..Len(Front(q)) : (Front(q) \o <<s>>)[i] = Front(q)[i]
    BY <1>3, Longer
  <2> QED BY <1>3, <2>1
<1>5. Len(Front(q)) = Len(p)
  BY <1>1, <1>3
<1>6. \A i \in 1..Len(p) : Front(q)[i] = p[i]
  BY <1>1, <1>4, <1>5
<1>7. Front(q) = p
  BY <1>1, <1>3, <1>5, <1>6, SameName
<1> QED BY <1>2, <1>7 DEF q

\* The last segment of a name is that of what it ends in.
LEMMA FrontOfCat ==
  ASSUME NEW p \in Names, NEW r \in Names, r # <<>>
  PROVE  Front(p \o r) = p \o Front(r) /\ Last(p \o r) = Last(r) /\ p \o r # <<>>
<1>0. p \in Names
  OBVIOUS
<1>1. r = Front(r) \o <<Last(r)>> /\ Front(r) \in Names /\ Last(r) \in STRING
  BY Shorter
<1>2. <<Last(r)>> \in Names
  BY <1>1, One
<1>3. p \o r = (p \o Front(r)) \o <<Last(r)>>
  <2> DEFINE f == Front(r)
             l == <<Last(r)>>
  <2>1. r = f \o l /\ f \in Names /\ l \in Names
    BY <1>1, <1>2
  <2> HIDE DEF f, l
  <2>2. p \o (f \o l) = (p \o f) \o l
    BY <1>0, <2>1, CatAssoc
  <2> QED BY <2>1, <2>2 DEF f, l
<1>4. p \o Front(r) \in Names
  BY <1>1, Cat
<1> DEFINE f == p \o Front(r)
           l == Last(r)
<1>5. /\ Front(f \o <<l>>) = f /\ Last(f \o <<l>>) = l /\ f \o <<l>> # <<>>
  BY <1>1, <1>4, FrontLast
<1> QED BY <1>3, <1>5

LEMMA PackagesLonger ==
  ASSUME NEW p \in Names, NEW s \in STRING
  PROVE  /\ \A n \in 0..Len(p) : PackagesOn(p \o <<s>>)[n] = PackagesOn(p)[n]
         /\ PackageAt(p \o <<s>>) = Below(PackageAt(p), s)
<1> DEFINE q == p \o <<s>>
           Alike(n) == PackagesOn(q)[n] = PackagesOn(p)[n]
           T == {n \in 0..Len(p) : Alike(n)}
<1>1. /\ q \in Names /\ Len(q) = Len(p) + 1 /\ Len(p) \in Nat
      /\ \A i \in 1..Len(p) : q[i] = p[i]
      /\ q[Len(p) + 1] = s
  BY Longer
<1> HIDE DEF q
<1>2. \A i \in 0..Len(p) + 1 :
        PackagesOn(q)[i] = IF i = 0 THEN root ELSE Below(PackagesOn(q)[i - 1], q[i])
  BY <1>1, PackagesOnIs
<1>3. \A i \in 0..Len(p) :
        PackagesOn(p)[i] = IF i = 0 THEN root ELSE Below(PackagesOn(p)[i - 1], p[i])
  BY PackagesOnIs
<1>4. Alike(0)
  <2>1. 0 \in 0..Len(p) /\ 0 \in 0..Len(p) + 1
    BY <1>1
  <2> QED BY <1>2, <1>3, <2>1
<1>5. ASSUME NEW n \in 0..Len(p), Alike(n), n < Len(p)  PROVE Alike(n + 1)
  <2>1. /\ n + 1 \in 1..Len(p) /\ n + 1 \in 0..Len(p) /\ n + 1 \in 0..Len(p) + 1
        /\ n + 1 # 0 /\ (n + 1) - 1 = n
    BY <1>1, <1>5
  <2>2. PackagesOn(q)[n + 1] = Below(PackagesOn(q)[n], q[n + 1])
    BY <1>2, <2>1
  <2>3. PackagesOn(p)[n + 1] = Below(PackagesOn(p)[n], p[n + 1])
    BY <1>3, <2>1
  <2> QED BY <1>1, <1>5, <2>1, <2>2, <2>3
<1>6. 0..Len(p) \subseteq T
  <2> HIDE DEF Alike
  <2>1. 0 \in T /\ \A n \in 0..Len(p) : n \in T /\ n < Len(p) => n + 1 \in T
    BY <1>1, <1>4, <1>5
  <2> HIDE DEF T
  <2> QED BY <1>1, <2>1, UpTo
<1>7. \A n \in 0..Len(p) : PackagesOn(q)[n] = PackagesOn(p)[n]
  BY <1>6
<1>8. PackageAt(q) = Below(PackageAt(p), s)
  <2>1. /\ Len(p) + 1 \in 0..Len(p) + 1 /\ Len(p) + 1 # 0 /\ (Len(p) + 1) - 1 = Len(p)
        /\ Len(p) \in 0..Len(p)
    BY <1>1
  <2>2. PackagesOn(q)[Len(p) + 1] = Below(PackagesOn(q)[Len(p)], s)
    BY <1>1, <1>2, <2>1
  <2> QED BY <1>1, <1>7, <2>1, <2>2 DEF PackageAt
<1> QED BY <1>7, <1>8 DEF q

\* The root.
LEMMA AtRoot ==
  /\ NoName \in Names /\ Len(NoName) = 0 /\ PackageAt(NoName) = root
  /\ KeysOn(NoName) = <<>> /\ Architecture(NoName) = ParseFile(root)
<1>1. NoName \in Names /\ Len(NoName) = 0 /\ DOMAIN NoName = {}
  BY DEF NoName, Names
<1>2. PackageAt(NoName) = root
  BY <1>1, PackagesOnIs DEF PackageAt
<1>3. KeysOn(NoName) = <<>>
  BY <1>1 DEF KeysOn
<1> QED BY <1>1, <1>2, <1>3 DEF Architecture

LEMMA KeysLonger ==
  ASSUME NEW p \in Names, NEW s \in STRING
  PROVE  /\ Len(KeysOn(p)) = Len(p) /\ DOMAIN KeysOn(p) = 1..Len(p)
         /\ Len(KeysOn(p \o <<s>>)) = Len(p) + 1
         /\ DOMAIN KeysOn(p \o <<s>>) = 1..Len(p) + 1
         /\ \A i \in 1..Len(p) : KeysOn(p \o <<s>>)[i] = KeysOn(p)[i]
         /\ KeysOn(p \o <<s>>)[Len(p) + 1] = Key(Architecture(p).components[<<s>>])
<1> DEFINE q == p \o <<s>>
<1>1. /\ q \in Names /\ Len(q) = Len(p) + 1 /\ Len(p) \in Nat
      /\ \A i \in 1..Len(p) : q[i] = p[i]
      /\ q[Len(p) + 1] = s
  BY Longer
<1>2. \A n \in 0..Len(p) : PackagesOn(q)[n] = PackagesOn(p)[n]
  BY PackagesLonger
<1> HIDE DEF q
<1>3. DOMAIN p = 1..Len(p) /\ DOMAIN q = 1..Len(p) + 1
  BY <1>1 DEF Names
<1>4. ASSUME NEW i \in 1..Len(p)  PROVE KeysOn(q)[i] = KeysOn(p)[i]
  <2>1. i - 1 \in 0..Len(p) /\ i \in DOMAIN p /\ i \in DOMAIN q
    BY <1>1, <1>3
  <2> QED BY <1>1, <1>2, <2>1 DEF KeysOn
<1>5. KeysOn(q)[Len(p) + 1] = Key(Architecture(p).components[<<s>>])
  <2>1. Len(p) + 1 \in DOMAIN q /\ (Len(p) + 1) - 1 = Len(p) /\ Len(p) \in 0..Len(p)
    BY <1>1, <1>3
  <2> QED BY <1>1, <1>2, <2>1 DEF KeysOn, Architecture, PackageAt
<1>6. DOMAIN KeysOn(p) = 1..Len(p) /\ DOMAIN KeysOn(q) = 1..Len(p) + 1
  BY <1>3 DEF KeysOn
<1>7. Len(KeysOn(p)) = Len(p) /\ Len(KeysOn(q)) = Len(p) + 1
  BY <1>1, <1>6
<1> QED BY <1>4, <1>5, <1>6, <1>7 DEF q

\* The paths are those of the root, which nothing changes.
LEMMA PathsKnown ==
  ASSUME root' = root
  PROVE  /\ Instances' = Instances
         /\ \A p : /\ Architecture(p)' = Architecture(p) /\ KeysOn(p)' = KeysOn(p)
                   /\ PackageAt(p)' = PackageAt(p) /\ PackagesOn(p)' = PackagesOn(p)
<1>1. ASSUME NEW p  PROVE PackagesOn(p)' = PackagesOn(p)
  BY DEF PackagesOn
<1>2. ASSUME NEW p
      PROVE  PackageAt(p)' = PackageAt(p) /\ Architecture(p)' = Architecture(p)
  BY <1>1 DEF PackageAt, Architecture
<1>3. ASSUME NEW p  PROVE KeysOn(p)' = KeysOn(p)
  BY <1>1 DEF KeysOn
<1>4. Instances' = Instances
  BY DEF Instances, InstancesTo, Architecture, PackageAt, PackagesOn
<1> QED BY <1>1, <1>2, <1>3, <1>4

------------------------------------------------------------------------------
(* The instances. *)

\* The components of a package that a package can be put for.
Sons(arch) == {i \in Imports(arch) : Importable(Key(arch.components[i]))}

\* No component is named with a dot.
Undotted ==
  \A p \in Roots \cup Range(Library) :
    \A name \in DOMAIN ParseFile(p).components : Len(name) = 1

Deepest == Cardinality(DOMAIN Library) + 1

LEMMA DeepestIs == Deepest \in Nat /\ Cardinality(DOMAIN Library) \in Nat
BY LibraryAssumption, FS_CardinalityType DEF Deepest

OneDeeper(set) == set \cup UNION {{path \o name : name \in Sons(Architecture(path))} : path \in set}

LEMMA InstancesToIs ==
  \A n \in 0..Deepest :
    InstancesTo[n] = IF n = 0 THEN {NoName} ELSE OneDeeper(InstancesTo[n - 1])
<1> DEFINE N == Deepest
           IsTo(n) == \E g : g = [i \in 0..n |->
                                IF i = 0 THEN {NoName} ELSE OneDeeper(g[i - 1])]
           T == {n \in 0..N : IsTo(n)}
<1>0. N \in Nat
  BY DeepestIs
<1>1. IsTo(0)
  <2> DEFINE g == [i \in 0..0 |-> {NoName}]
  <2>1. g = [i \in 0..0 |-> IF i = 0 THEN {NoName} ELSE OneDeeper(g[i - 1])]
    OBVIOUS
  <2> QED BY <2>1
<1>2. ASSUME NEW n \in 0..N, IsTo(n)  PROVE IsTo(n + 1)
  <2>1. PICK g : g = [i \in 0..n |-> IF i = 0 THEN {NoName} ELSE OneDeeper(g[i - 1])]
    BY <1>2
  <2> DEFINE h == [i \in 0..n + 1 |-> IF i = n + 1 THEN OneDeeper(g[n]) ELSE g[i]]
  <2>2. ASSUME NEW i \in 0..n + 1
        PROVE  h[i] = IF i = 0 THEN {NoName} ELSE OneDeeper(h[i - 1])
    <3>1. CASE i = n + 1
      BY <3>1
    <3>2. CASE i = 0
      BY <2>1, <3>2
    <3>3. CASE i \in 1..n
      <4>1. h[i] = g[i] /\ h[i - 1] = g[i - 1] /\ i \in 0..n
        BY <3>3
      <4> QED BY <2>1, <3>3, <4>1
    <3> QED BY <3>1, <3>2, <3>3
  <2>3. h = [i \in 0..n + 1 |-> h[i]]
    OBVIOUS
  <2> HIDE DEF h
  <2>4. h = [i \in 0..n + 1 |-> IF i = 0 THEN {NoName} ELSE OneDeeper(h[i - 1])]
    BY <2>2, <2>3
  <2> QED BY <2>4
<1>3. IsTo(N)
  <2> HIDE DEF IsTo
  <2>1. 0 \in T /\ \A n \in 0..N : n \in T /\ n < N => n + 1 \in T
    BY <1>0, <1>1, <1>2
  <2> HIDE DEF T
  <2>2. 0..N \subseteq T
    BY <1>0, <2>1, UpTo
  <2> QED BY <1>0, <2>2 DEF T
<1>4. InstancesTo = [i \in 0..N |-> IF i = 0 THEN {NoName} ELSE OneDeeper(InstancesTo[i - 1])]
  BY <1>3 DEF InstancesTo, OneDeeper, Sons, Deepest
<1> QED BY <1>4

Parsed == Roots \cup Range(Library)

LEMMA Segment ==
  ASSUME Undotted, NEW p \in Names, PackageAt(p) \in Parsed,
         NEW name \in DOMAIN Architecture(p).components
  PROVE  name \in Names /\ name = <<name[1]>> /\ name[1] \in STRING
<1>1. name \in Names /\ Len(name) = 1
  <2>1. DOMAIN ParseFile(PackageAt(p)).components \subseteq Names
    BY ParsedIs DEF Parsed
  <2>2. name \in DOMAIN ParseFile(PackageAt(p)).components
    BY DEF Architecture
  <2>3. Len(name) = 1
    <3> DEFINE P == PackageAt(p)
    <3>1. P \in Roots \cup Range(Library) /\ name \in DOMAIN ParseFile(P).components
      BY <2>2 DEF Parsed
    <3> HIDE DEF P
    <3> QED BY <3>1, Zenon DEF Undotted
  <2> QED BY <2>1, <2>2, <2>3
<1>2. name[1] \in STRING
  <2>1. name \in Seq(STRING) /\ 1 \in 1..Len(name)
    BY <1>1 DEF Names
  <2> QED BY <2>1, ElementOfSeq
<1>3. <<name[1]>> \in Names /\ Len(<<name[1]>>) = 1 /\ <<name[1]>>[1] = name[1]
  BY <1>2, One
<1>4. \A i \in 1..Len(name) : name[i] = <<name[1]>>[i]
  BY <1>1, <1>3
<1>5. name = <<name[1]>>
  BY <1>1, <1>3, <1>4, SameName
<1> QED BY <1>1, <1>2, <1>5

\* Where the component of an instance leads that a package is put for.
LEMMA SonIs ==
  ASSUME Undotted, NEW p \in Names, PackageAt(p) \in Parsed,
         NEW name \in Sons(Architecture(p))
  PROVE  LET key == Key(Architecture(p).components[name]) IN
         /\ name \in DOMAIN Architecture(p).components
         /\ p \o name \in Names /\ Len(p \o name) = Len(p) + 1 /\ Len(p) \in Nat
         /\ name \in Names /\ name[1] \in STRING /\ name = <<name[1]>>
         /\ PackageAt(p \o name) = Library[key] /\ PackageAt(p \o name) \in Parsed
         /\ Architecture(p \o name) = Library[key].entry
         /\ Front(p \o name) = p /\ <<Last(p \o name)>> = name /\ p \o name # <<>>
         /\ Importable(key)
         /\ DOMAIN KeysOn(p) = 1..Len(p)
         /\ DOMAIN KeysOn(p \o name) = 1..Len(p) + 1
         /\ \A i \in 1..Len(p) : KeysOn(p \o name)[i] = KeysOn(p)[i]
         /\ KeysOn(p \o name)[Len(p) + 1] = key
<1> DEFINE s == name[1]
           key == Key(Architecture(p).components[name])
<1>1. name \in Imports(Architecture(p)) /\ Importable(key)
  BY DEF Sons
<1>2. name \in DOMAIN Architecture(p).components
  BY <1>1 DEF Imports
<1>3. name \in Names /\ name = <<s>> /\ s \in STRING
  BY <1>2, Segment
<1> HIDE DEF s
<1>4. /\ p \o <<s>> \in Names /\ Len(p \o <<s>>) = Len(p) + 1 /\ Len(p) \in Nat
  BY <1>3, Longer
<1>5. key \in DOMAIN Library /\ Library[key] \in Range(Library)
  BY <1>1 DEF Importable, Resolvable, Range
<1>6. PackageAt(p \o <<s>>) = Library[key]
  BY <1>3, PackagesLonger DEF Below, Architecture
<1>7. ParseFile(Library[key]) = Library[key].entry
  BY <1>1 DEF Importable, Resolvable, Kind, PackageValid, EntryValid, ParseFile
<1>8. /\ Front(p \o <<s>>) = p /\ Last(p \o <<s>>) = s /\ p \o <<s>> # <<>>
  BY <1>3, FrontLast
<1>9. /\ DOMAIN KeysOn(p) = 1..Len(p) /\ DOMAIN KeysOn(p \o <<s>>) = 1..Len(p) + 1
      /\ \A i \in 1..Len(p) : KeysOn(p \o <<s>>)[i] = KeysOn(p)[i]
      /\ KeysOn(p \o <<s>>)[Len(p) + 1] = Key(Architecture(p).components[<<s>>])
  BY <1>3, KeysLonger
<1>10. p \o name = p \o <<s>>
  BY <1>3
<1>11. Architecture(p \o name) = Library[key].entry
  BY <1>6, <1>7, <1>10 DEF Architecture
<1> QED
  <2> HIDE DEF key
  <2>1. KeysOn(p \o name)[Len(p) + 1] = key
    BY <1>3, <1>9, <1>10 DEF key
  <2>2. <<Last(p \o name)>> = name
    BY <1>3, <1>8, <1>10
  <2> QED BY <1>1, <1>2, <1>3, <1>4, <1>5, <1>6, <1>8, <1>9, <1>10, <1>11, <2>1, <2>2
          DEF key, s, Parsed

IsInstance(path) ==
  /\ path \in Names /\ PackageAt(path) \in Parsed
  /\ \A i \in 1..Len(path) : Importable(KeysOn(path)[i])
  /\ DOMAIN KeysOn(path) = 1..Len(path) /\ Len(path) \in Nat
  /\ path # NoName => <<Last(path)>> \in Sons(Architecture(Front(path)))

LEMMA RootIs ==
  ASSUME root \in Roots
  PROVE  IsInstance(NoName)
<1>1. /\ NoName \in Names /\ Len(NoName) = 0 /\ PackageAt(NoName) = root
      /\ KeysOn(NoName) = <<>> /\ DOMAIN <<>> = {}
  BY AtRoot
<1>2. 1..0 = {}
  OBVIOUS
<1> QED BY <1>1, <1>2 DEF IsInstance, Parsed

LEMMA SonIsOne ==
  ASSUME Undotted, NEW p, IsInstance(p), NEW name \in Sons(Architecture(p))
  PROVE  IsInstance(p \o name)
<1> DEFINE q == p \o name
           key == Key(Architecture(p).components[name])
<1>1. p \in Names /\ PackageAt(p) \in Parsed /\ \A i \in 1..Len(p) : Importable(KeysOn(p)[i])
  BY DEF IsInstance
<1>2. /\ q \in Names /\ Len(q) = Len(p) + 1 /\ Len(p) \in Nat
      /\ PackageAt(q) \in Parsed
      /\ Front(q) = p /\ <<Last(q)>> = name
      /\ Importable(key)
      /\ DOMAIN KeysOn(q) = 1..Len(p) + 1
      /\ \A i \in 1..Len(p) : KeysOn(q)[i] = KeysOn(p)[i]
      /\ KeysOn(q)[Len(p) + 1] = key
  BY <1>1, SonIs
<1> HIDE DEF q, key
<1>3. ASSUME NEW i \in 1..Len(q)  PROVE Importable(KeysOn(q)[i])
  <2>1. i \in 1..Len(p) \/ i = Len(p) + 1
    BY <1>2
  <2> QED BY <1>1, <1>2, <2>1
<1>4. IsInstance(q)
  BY <1>1, <1>2, <1>3 DEF IsInstance
<1> QED BY <1>4 DEF q

LEMMA InstancesToGrow ==
  ASSUME NEW n \in 0..Deepest, NEW m \in n..Deepest
  PROVE  InstancesTo[n] \subseteq InstancesTo[m]
<1> DEFINE Grown(k) == k >= n => InstancesTo[n] \subseteq InstancesTo[k]
           T == {k \in 0..m : Grown(k)}
<1>1. Deepest \in Nat /\ n \in Nat /\ m \in Nat /\ m \in 0..m /\ m >= n
  BY DeepestIs
<1>2. Grown(0)
  BY <1>1
<1>3. ASSUME NEW k \in 0..m, Grown(k), k < m  PROVE Grown(k + 1)
  <2>1. k + 1 \in 0..Deepest /\ k + 1 # 0 /\ (k + 1) - 1 = k
    BY <1>1, <1>3
  <2>2. InstancesTo[k + 1] = OneDeeper(InstancesTo[k])
    BY <2>1, InstancesToIs
  <2>3. InstancesTo[k] \subseteq InstancesTo[k + 1]
    BY <2>2 DEF OneDeeper
  <2>4. k + 1 >= n => k >= n \/ k + 1 = n
    BY <1>1
  <2> QED BY <1>3, <2>3, <2>4
<1>4. 0..m \subseteq T
  <2> HIDE DEF Grown
  <2>1. 0 \in T /\ \A k \in 0..m : k \in T /\ k < m => k + 1 \in T
    BY <1>1, <1>2, <1>3
  <2> HIDE DEF T
  <2> QED BY <1>1, <2>1, UpTo
<1>5. m \in T
  BY <1>1, <1>4
<1> QED BY <1>1, <1>5

LEMMA InstancesLevel ==
  ASSUME Undotted, root \in Roots
  PROVE  \A n \in 0..Deepest : \A path \in InstancesTo[n] :
           /\ IsInstance(path) /\ Len(path) <= n /\ path \in InstancesTo[Len(path)]
           /\ path # NoName => Front(path) \in InstancesTo[Len(Front(path))]
<1> DEFINE At(path, n) == /\ IsInstance(path) /\ Len(path) <= n
                          /\ path \in InstancesTo[Len(path)]
                          /\ path # NoName => Front(path) \in InstancesTo[Len(Front(path))]
           All(n) == \A path \in InstancesTo[n] : At(path, n)
           T == {n \in 0..Deepest : All(n)}
<1>0. Deepest \in Nat
  BY DeepestIs
<1>1. All(0)
  <2>1. InstancesTo[0] = {NoName}
    BY <1>0, InstancesToIs
  <2>2. IsInstance(NoName) /\ Len(NoName) = 0
    BY RootIs, AtRoot
  <2> QED BY <2>1, <2>2
<1>2. ASSUME NEW n \in 0..Deepest, All(n), n < Deepest  PROVE All(n + 1)
  <2>1. n + 1 \in 0..Deepest /\ n + 1 # 0 /\ (n + 1) - 1 = n
    BY <1>0, <1>2
  <2>2. InstancesTo[n + 1] = OneDeeper(InstancesTo[n])
    BY <2>1, InstancesToIs
  <2>3. ASSUME NEW path \in InstancesTo[n]  PROVE At(path, n + 1)
    <3>1. At(path, n) /\ Len(path) \in Nat
      BY <1>2, <2>3 DEF IsInstance
    <3> QED BY <3>1
  <2>4. ASSUME NEW p \in InstancesTo[n], NEW name \in Sons(Architecture(p))
        PROVE  At(p \o name, n + 1)
    <3>1. IsInstance(p) /\ Len(p) <= n /\ p \in InstancesTo[Len(p)]
      BY <1>2, <2>4
    <3>2. p \in Names /\ PackageAt(p) \in Parsed
      BY <3>1 DEF IsInstance
    <3>3. /\ Len(p \o name) = Len(p) + 1 /\ Len(p) \in Nat /\ Front(p \o name) = p
      BY <3>2, SonIs
    <3>4. Len(p) + 1 \in 0..Deepest /\ Len(p) + 1 # 0 /\ (Len(p) + 1) - 1 = Len(p)
          /\ Len(p) + 1 <= n + 1
      BY <1>0, <2>1, <3>1, <3>3
    <3>5. InstancesTo[Len(p) + 1] = OneDeeper(InstancesTo[Len(p)])
      BY <3>4, InstancesToIs
    <3>6. p \o name \in OneDeeper(InstancesTo[Len(p)])
      BY <2>4, <3>1 DEF OneDeeper
    <3>7. IsInstance(p \o name)
      BY <3>1, SonIsOne
    <3> DEFINE q == p \o name
    <3>8. Len(q) = Len(p) + 1 /\ Front(q) = p /\ q \in OneDeeper(InstancesTo[Len(p)]) /\ IsInstance(q)
      BY <3>3, <3>6, <3>7
    <3> HIDE DEF q
    <3>9. q \in InstancesTo[Len(q)] /\ Len(q) <= n + 1 /\ Front(q) \in InstancesTo[Len(Front(q))]
      BY <3>1, <3>4, <3>5, <3>8
    <3>10. At(q, n + 1)
      BY <3>8, <3>9
    <3> QED BY <3>10 DEF q
  <2> QED
    <3> HIDE DEF At
    <3>1. SUFFICES ASSUME NEW path \in OneDeeper(InstancesTo[n])  PROVE At(path, n + 1)
      BY <2>2
    <3>2. path \in InstancesTo[n]
          \/ \E p \in InstancesTo[n] : \E name \in Sons(Architecture(p)) : path = p \o name
      BY <3>1 DEF OneDeeper
    <3> QED BY <2>3, <2>4, <3>2
<1>3. 0..Deepest \subseteq T
  <2> HIDE DEF All
  <2>1. 0 \in T /\ \A n \in 0..Deepest : n \in T /\ n < Deepest => n + 1 \in T
    BY <1>0, <1>1, <1>2
  <2> HIDE DEF T
  <2> QED BY <1>0, <2>1, UpTo
<1> QED BY <1>3

\* The instances, as the proofs use them: the root, what an instance with no
\* package twice on its path imports, and nothing else.
LEMMA InstanceIs ==
  ASSUME Undotted, root \in Roots
  PROVE  /\ NoName \in Instances
         /\ \A path \in Instances :
              IsInstance(path) /\ (path # NoName => Front(path) \in Instances)
<1>1. Deepest \in Nat /\ 0 \in 0..Deepest /\ Deepest \in 0..Deepest
  BY DeepestIs
<1>2. Instances = InstancesTo[Deepest]
  BY DEF Instances, Deepest
<1>3. NoName \in Instances
  <2>1. InstancesTo[0] = {NoName}
    BY <1>1, InstancesToIs
  <2>2. InstancesTo[0] \subseteq InstancesTo[Deepest]
    BY <1>1, InstancesToGrow
  <2> QED BY <1>2, <2>1, <2>2
<1>4. ASSUME NEW path \in Instances
      PROVE  IsInstance(path) /\ (path # NoName => Front(path) \in Instances)
  <2>1. /\ IsInstance(path) /\ Len(path) <= Deepest
        /\ path # NoName => Front(path) \in InstancesTo[Len(Front(path))]
    BY <1>1, <1>2, InstancesLevel
  <2>2. ASSUME path # NoName  PROVE Front(path) \in Instances
    <3>1. /\ Len(path) = Len(Front(path)) + 1 /\ Len(Front(path)) \in Nat
      BY <2>1, <2>2, Shorter DEF IsInstance, NoName
    <3>2. Len(Front(path)) \in 0..Deepest /\ Deepest \in Len(Front(path))..Deepest
      BY <1>1, <2>1, <3>1
    <3>3. InstancesTo[Len(Front(path))] \subseteq InstancesTo[Deepest]
      BY <3>2, InstancesToGrow
    <3> QED BY <1>2, <2>1, <2>2, <3>3
  <2> QED BY <2>1, <2>2
<1> QED BY <1>3, <1>4

LEMMA ShortEnough ==
  ASSUME NEW path, IsInstance(path), IsInjective(KeysOn(path))
  PROVE  Len(path) <= Cardinality(DOMAIN Library)
<1> DEFINE S == 1..Len(path)
           T == DOMAIN Library
<1>1. /\ \A i \in S : KeysOn(path)[i] \in T
      /\ DOMAIN KeysOn(path) = S /\ Len(path) \in Nat
  BY DEF IsInstance, Importable, Resolvable
<1>2. IsFiniteSet(T) /\ Cardinality(T) \in Nat
  BY LibraryAssumption, FS_CardinalityType
<1>3. IsFiniteSet(S) /\ Cardinality(S) = IF 1 > Len(path) THEN 0 ELSE Len(path) - 1 + 1
  BY <1>1, FS_Interval
<1>4. Cardinality(S) = Len(path)
  BY <1>1, <1>3
<1> DEFINE f == [i \in S |-> KeysOn(path)[i]]
<1>5. f \in [S -> T]
  BY <1>1
<1>6. ~ \E x, y \in S : x # y /\ f[x] = f[y]
  BY <1>1 DEF IsInjective
<1> HIDE DEF f, S, T
<1>7. ~(Cardinality(T) < Cardinality(S))
  BY <1>2, <1>3, <1>5, <1>6, FS_PigeonHole
<1> QED BY <1>1, <1>2, <1>4, <1>7 DEF T

LEMMA SonInstance ==
  ASSUME Undotted, root \in Roots, NEW p \in Instances, IsInjective(KeysOn(p)),
         NEW name \in Sons(Architecture(p))
  PROVE  p \o name \in Instances
<1>1. IsInstance(p)
  BY InstanceIs
<1>2. Len(p) <= Cardinality(DOMAIN Library) /\ Len(p) \in Nat
  BY <1>1, ShortEnough DEF IsInstance
<1>3. /\ Deepest \in Nat /\ Len(p) + 1 \in 0..Deepest /\ Len(p) \in 0..Deepest
      /\ Deepest \in 0..Deepest
      /\ Len(p) + 1 # 0 /\ (Len(p) + 1) - 1 = Len(p) /\ Deepest \in (Len(p) + 1)..Deepest
  BY <1>2, DeepestIs DEF Deepest
<1>4. p \in InstancesTo[Deepest]
  BY DEF Instances, Deepest
<1>5. p \in InstancesTo[Len(p)]
  BY <1>3, <1>4, InstancesLevel
<1>6. InstancesTo[Len(p) + 1] = OneDeeper(InstancesTo[Len(p)])
  BY <1>3, InstancesToIs
<1>7. p \o name \in InstancesTo[Len(p) + 1]
  BY <1>5, <1>6 DEF OneDeeper
<1>8. InstancesTo[Len(p) + 1] \subseteq InstancesTo[Deepest]
  BY <1>3, InstancesToGrow
<1> QED BY <1>7, <1>8 DEF Instances, Deepest

\* Whether a path leads on from another one.
Under(q, path) == \E r \in Names : path = q \o r

LEMMA UnderItself ==
  ASSUME NEW p \in Names
  PROVE  Under(p, p)
BY CatLaws DEF Under

\* An instance below another one is that one or below one that it imports.
LEMMA WayDown ==
  ASSUME Undotted, root \in Roots, NEW path \in Instances, NEW q \in Names,
         Under(q, path), path # q
  PROVE  /\ q \in Instances
         /\ \E name \in Sons(Architecture(q)) :
              q \o name \in Instances /\ Under(q \o name, path)
<1> DEFINE Down(p) ==
             \A q1 \in Names : Under(q1, p) /\ p # q1 =>
               /\ q1 \in Instances
               /\ \E name \in Sons(Architecture(q1)) :
                    q1 \o name \in Instances /\ Under(q1 \o name, p)
           All(n) == \A p \in Instances : Len(p) <= n => Down(p)
           T == {n \in 0..Len(path) : All(n)}
<1>0. IsInstance(path) /\ path \in Names /\ Len(path) \in Nat
  BY InstanceIs DEF IsInstance
<1>1. All(0)
  <2>1. SUFFICES ASSUME NEW p \in Instances, Len(p) <= 0, NEW q1 \in Names, Under(q1, p)
                 PROVE  p = q1
    OBVIOUS
  <2>2. PICK r \in Names : p = q1 \o r
    BY <2>1 DEF Under
  <2>3. Len(p) = Len(q1) + Len(r) /\ Len(q1) \in Nat /\ Len(r) \in Nat
    BY <2>2, Cat
  <2>4. Len(p) = 0 /\ Len(q1) = 0
    BY <2>1, <2>3
  <2>5. p \in Names
    BY InstanceIs DEF IsInstance
  <2> QED BY <2>4, <2>5, SameName
<1>2. ASSUME NEW n \in 0..Len(path), All(n)  PROVE All(n + 1)
  <2>1. SUFFICES ASSUME NEW p \in Instances, Len(p) <= n + 1,
                        NEW q1 \in Names, Under(q1, p), p # q1
                 PROVE  /\ q1 \in Instances
                        /\ \E name \in Sons(Architecture(q1)) :
                             q1 \o name \in Instances /\ Under(q1 \o name, p)
    OBVIOUS
  <2>2. PICK r \in Names : p = q1 \o r
    BY <2>1 DEF Under
  <2>3. r # <<>>
    BY <2>1, <2>2, CatLaws
  <2>4. /\ Front(p) = q1 \o Front(r) /\ Last(p) = Last(r) /\ p # <<>>
    BY <2>2, <2>3, FrontOfCat
  <2>5. Front(r) \in Names
    BY <2>3, Shorter
  <2> DEFINE f == Front(p)
             last == <<Last(p)>>
  <2>6. /\ f \in Instances /\ IsInstance(p) /\ IsInstance(f) /\ last \in Sons(Architecture(f))
    BY <2>4, InstanceIs DEF IsInstance, NoName
  <2>7. /\ p = f \o last /\ Len(p) = Len(f) + 1 /\ Len(f) \in Nat /\ last \in Names
    BY <2>4, <2>6, Shorter, One DEF IsInstance
  <2>8. Under(q1, f)
    BY <2>4, <2>5 DEF Under
  <2> HIDE DEF f, last
  <2>9. CASE f = q1
    <3>1. q1 \o last = p /\ Under(p, p)
      BY <2>6, <2>7, <2>9, UnderItself DEF IsInstance
    <3> QED BY <2>6, <2>9, <3>1
  <2>10. CASE f # q1
    <3>1. Down(f)
      BY <1>2, <2>6, <2>7, <2>1
    <3>2. q1 \in Instances
      BY <2>8, <2>10, <3>1
    <3>3. PICK name \in Sons(Architecture(q1)) :
                 q1 \o name \in Instances /\ Under(q1 \o name, f)
      BY <2>8, <2>10, <3>1
    <3>4. PICK rest \in Names : f = (q1 \o name) \o rest
      BY <3>3 DEF Under
    <3> DEFINE m == q1 \o name
    <3>5. m \in Names
      BY <3>3, InstanceIs DEF IsInstance
    <3>6. f = m \o rest
      BY <3>4
    <3> HIDE DEF m
    <3>7. p = m \o (rest \o last)
      BY <2>7, <3>5, <3>6, CatAssoc, SMTT(30)
    <3>8. rest \o last \in Names
      BY <2>7, Cat
    <3>9. Under(m, p)
      BY <3>7, <3>8 DEF Under
    <3> QED BY <3>2, <3>3, <3>9 DEF m
  <2> QED BY <2>9, <2>10
<1>3. 0..Len(path) \subseteq T
  <2> HIDE DEF All
  <2>1. 0 \in T /\ \A n \in 0..Len(path) : n \in T /\ n < Len(path) => n + 1 \in T
    BY <1>0, <1>1, <1>2
  <2> HIDE DEF T
  <2> QED BY <1>0, <2>1, UpTo
<1>4. Len(path) \in T
  BY <1>0, <1>3
<1>5. Down(path)
  BY <1>0, <1>4
<1> QED BY <1>5

------------------------------------------------------------------------------
(* The calls of flatten under way. *)

\* The instance that the package of a call is.
PathTo(frames, i) == [j \in 1..i - 1 |-> frames[j + 1].name[1]]

\* The components a call is done with.
Over(frames, i) ==
  {name \in DOMAIN frames[i].arch.components \ frames[i].todo :
     i < Len(frames) => name # frames[i + 1].name}

\* A call was made for a component its caller has visited.
Linked(frames) ==
  /\ frames # <<>> /\ frames[1].name = NoName
  /\ \A i \in 1..Len(frames) - 1 :
       frames[i + 1].name \in Sons(frames[i].arch) \ frames[i].todo

\* Nothing below an instance is circular or missing.
Clear(q) ==
  \A path \in Instances : Under(q, path) =>
    IsInjective(KeysOn(path)) /\ Imports(Architecture(path)) = Sons(Architecture(path))

KeysOf(path) == {KeysOn(path)[i] : i \in 1..Len(path)}

\* A call is for an instance that comes back to no package, and has seen
\* the packages on the way to it; what it is done with is clear.
Walked(frame, path, over) ==
  /\ path \in Instances /\ IsInjective(KeysOn(path))
  /\ frame.arch = Architecture(path)
  /\ frame.seen = KeysOf(path)
  /\ \A name \in over \cap Imports(frame.arch) :
       name \in Sons(frame.arch) /\ Clear(path \o name)

Walks(frames) ==
  /\ StackInv(frames) /\ Linked(frames)
  /\ \A i \in 1..Len(frames) : Walked(frames[i], PathTo(frames, i), Over(frames, i))

\* The calls up to the n-th go on as they were.
Kept(s, t, n) ==
  \A i \in 1..n : t[i] = s[i] /\ PathTo(t, i) = PathTo(s, i) /\ Over(t, i) = Over(s, i)

LEMMA PathKept ==
  ASSUME NEW s, NEW t, NEW n \in Nat, \A i \in 1..n : t[i].name = s[i].name
  PROVE  \A i \in 1..n : PathTo(t, i) = PathTo(s, i)
<1>1. SUFFICES ASSUME NEW i \in 1..n  PROVE PathTo(t, i) = PathTo(s, i)
  OBVIOUS
<1>2. ASSUME NEW j \in 1..i - 1  PROVE t[j + 1].name[1] = s[j + 1].name[1]
  <2>1. j + 1 \in 1..n
    OBVIOUS
  <2> QED BY <2>1
<1> QED BY <1>2 DEF PathTo

LEMMA OverKept ==
  ASSUME NEW s, NEW t, NEW i,
         t[i].arch = s[i].arch, t[i].todo = s[i].todo,
         i < Len(s), i < Len(t), t[i + 1].name = s[i + 1].name
  PROVE  Over(t, i) = Over(s, i)
BY DEF Over

LEMMA StackSame ==
  ASSUME NEW s, NEW t, NEW n \in Nat \ {0}, Len(s) \in Nat, Len(t) \in Nat,
         n <= Len(s), n <= Len(t),
         \A i \in 1..n - 1 : t[i] = s[i],
         \A i \in 1..n : t[i].name = s[i].name
  PROVE  /\ Kept(s, t, n - 1)
         /\ PathTo(t, n) = PathTo(s, n)
<1>1. \A i \in 1..n : PathTo(t, i) = PathTo(s, i)
  BY PathKept
<1>2. ASSUME NEW i \in 1..n - 1  PROVE Over(t, i) = Over(s, i)
  <2>1. i + 1 \in 1..n /\ i < Len(s) /\ i < Len(t)
    OBVIOUS
  <2> QED BY <2>1, OverKept
<1>3. n \in 1..n /\ \A i \in 1..n - 1 : i \in 1..n
  OBVIOUS
<1> QED BY <1>1, <1>2, <1>3 DEF Kept

LEMMA PathLonger ==
  ASSUME NEW s, NEW n \in Nat \ {0}, PathTo(s, n) \in Names,
         NEW name, s[n + 1].name = name, name = <<name[1]>>, name[1] \in STRING
  PROVE  PathTo(s, n + 1) = PathTo(s, n) \o name
<1> DEFINE P == PathTo(s, n)
           Q == PathTo(s, n + 1)
           R == P \o <<name[1]>>
<1>1. Q = [j \in 1..n |-> s[j + 1].name[1]]
  BY DEF PathTo
<1>2. P = [j \in 1..n - 1 |-> s[j + 1].name[1]] /\ P \in Names
  BY DEF PathTo
<1>3. Len(P) = n - 1
  BY <1>2
<1>4. /\ R \in Names /\ Len(R) = Len(P) + 1 /\ \A i \in 1..Len(P) : R[i] = P[i]
      /\ R[Len(P) + 1] = name[1]
  BY <1>2, Longer
<1>5. Len(Q) = n /\ DOMAIN Q = 1..n
  BY <1>1
<1> HIDE DEF Q, R, P
<1>6. ASSUME NEW i \in 1..n  PROVE Q[i] = R[i]
  <2>1. CASE i = n
    BY <1>1, <1>3, <1>4, <2>1
  <2>2. CASE i \in 1..n - 1
    BY <1>1, <1>2, <1>3, <1>4, <2>2
  <2> QED BY <2>1, <2>2
<1>7. Len(R) = n /\ R \in Seq(STRING)
  BY <1>3, <1>4 DEF Names
<1>8. Q \in Names
  <2>1. Q = [i \in 1..n |-> R[i]]
    BY <1>1, <1>6
  <2>2. R = [i \in 1..n |-> R[i]]
    BY <1>7
  <2> QED BY <1>4, <2>1, <2>2
<1>9. Q = R
  BY <1>4, <1>5, <1>6, <1>7, <1>8, SameName
<1> QED BY <1>9 DEF P, Q, R

\* A call pushed, or put for the last one.
LEMMA Pushed ==
  ASSUME NEW s, StackInv(s), NEW frame
  PROVE  /\ Len(Append(s, frame)) = Len(s) + 1 /\ Len(s) \in Nat
         /\ \A i \in 1..Len(s) : Append(s, frame)[i] = s[i]
         /\ Append(s, frame)[Len(s) + 1] = frame
<1> DEFINE S == Range(s) \cup {frame}
<1>1. s \in Seq(Range(s))
  BY DEF StackInv
<1>2. Range(s) \subseteq S /\ frame \in S
  OBVIOUS
<1>3. s \in Seq(S)
  <2> HIDE DEF S
  <2> QED BY <1>1, <1>2, SeqMonotonic
<1> HIDE DEF S
<1> QED BY <1>2, <1>3, AppendProperties, LenProperties

LEMMA PrefixOf ==
  ASSUME NEW s, StackInv(s), NEW n \in 0..Len(s)
  PROVE  /\ Len(SubSeq(s, 1, n)) = n
         /\ \A i \in 1..n : SubSeq(s, 1, n)[i] = s[i]
         /\ StackInv(SubSeq(s, 1, n))
<1>1. s \in Seq(Range(s)) /\ Len(s) \in Nat /\ n \in Nat
  BY DEF StackInv
<1>2. \A i \in 1..n : s[i] \in Range(s)
  BY <1>1 DEF Range
<1>3. /\ Len(SubSeq(s, 1, n)) = IF 1 <= n THEN n - 1 + 1 ELSE 0
      /\ \A i \in 1..n - 1 + 1 : SubSeq(s, 1, n)[i] = s[1 + i - 1]
  BY <1>1, <1>2, SubSeqProperties
<1>4. Len(SubSeq(s, 1, n)) = n
  BY <1>1, <1>3
<1>5. ASSUME NEW i \in 1..n  PROVE SubSeq(s, 1, n)[i] = s[i]
  <2>1. i \in 1..n - 1 + 1 /\ 1 + i - 1 = i
    BY <1>1
  <2> QED BY <1>3, <2>1
<1> QED BY <1>4, <1>5, StackPrefix

\* What a step makes of the frames.
LEMMA VisitedIs ==
  ASSUME NEW f, FrameInv(f), NEW name
  PROVE  /\ Visited(f, name).name = f.name /\ Visited(f, name).arch = f.arch
         /\ Visited(f, name).seen = f.seen /\ Visited(f, name).todo = f.todo \ {name}
         /\ Visited(f, name).out = f.out /\ Visited(f, name).inputTargets = f.inputTargets
         /\ Visited(f, name).outputSources = f.outputSources
<1>1. DOMAIN f = {"name", "arch", "seen", "todo", "out", "inputTargets", "outputSources"}
  BY DEF FrameInv, IsFrame
<1> QED BY <1>1 DEF Visited

Copied(f, name) ==
  [Visited(f, name) EXCEPT
     !.out.components = Assigned(@, [n \in {name} |-> f.arch.components[name]])]

LEMMA CopiedIs ==
  ASSUME NEW f, FrameInv(f), NEW name
  PROVE  LET g == Copied(f, name) IN
         /\ FrameInv(g)
         /\ g.name = f.name /\ g.arch = f.arch /\ g.seen = f.seen /\ g.todo = f.todo \ {name}
         /\ g.out.models = f.out.models /\ g.out.connections = f.out.connections
         /\ g.out.components =
              Assigned(f.out.components, [n \in {name} |-> f.arch.components[name]])
         /\ g.inputTargets = f.inputTargets /\ g.outputSources = f.outputSources
<1> DEFINE v == Visited(f, name)
           m == Assigned(v.out.components, [n \in {name} |-> f.arch.components[name]])
           g == Copied(f, name)
<1>1. FrameInv(v)
  BY VisitedFrame
<1>2. /\ v.name = f.name /\ v.arch = f.arch /\ v.seen = f.seen /\ v.todo = f.todo \ {name}
      /\ v.out = f.out /\ v.inputTargets = f.inputTargets
      /\ v.outputSources = f.outputSources
  BY VisitedIs
<1>3. FrameInv(g)
  BY <1>1, CopiedFrame DEF Copied
<1>4. g = [v EXCEPT !.out.components = m]
  BY DEF Copied
<1>5. m = Assigned(f.out.components, [n \in {name} |-> f.arch.components[name]])
  BY <1>2
<1> HIDE DEF v, g, m
<1>6. /\ DOMAIN v = {"name", "arch", "seen", "todo", "out", "inputTargets", "outputSources"}
      /\ DOMAIN v.out = {"components", "connections", "models"}
  BY <1>1 DEF FrameInv, IsFrame
<1>7. /\ g.name = v.name /\ g.arch = v.arch /\ g.seen = v.seen /\ g.todo = v.todo
      /\ g.out.models = v.out.models /\ g.out.connections = v.out.connections
      /\ g.out.components = m
      /\ g.inputTargets = v.inputTargets /\ g.outputSources = v.outputSources
  BY <1>4, <1>6
<1> QED BY <1>2, <1>3, <1>5, <1>7 DEF g

\* What merging child under prefix makes of the frame f.
IsMerged(g, f, prefix, child) ==
  /\ FrameInv(g)
  /\ g.name = f.name /\ g.arch = f.arch /\ g.seen = f.seen /\ g.todo = f.todo
  /\ g.out.models = Assigned(f.out.models, Prefixed(prefix, child.models))
  /\ g.out.components =
       Assigned(f.out.components, Prefixed(prefix, PrefixModels(prefix, child.components)))
  /\ g.out.connections = f.out.connections \o Internal(prefix, child.connections)
  /\ g.inputTargets = Recorded(f.inputTargets, InputEntries(prefix, child.connections))
  /\ g.outputSources = Recorded(f.outputSources, OutputEntries(prefix, child.connections))

LEMMA MergedIs ==
  ASSUME NEW f, FrameInv(f), NEW prefix \in Names, NEW child, AreModels(child.models)
  PROVE  IsMerged(mergeChild(f, prefix, child), f, prefix, child)
<1> DEFINE m == Assigned(f.out.models, Prefixed(prefix, child.models))
           c == Assigned(f.out.components, Prefixed(prefix, PrefixModels(prefix, child.components)))
           n == f.out.connections \o Internal(prefix, child.connections)
           t == Recorded(f.inputTargets, InputEntries(prefix, child.connections))
           s == Recorded(f.outputSources, OutputEntries(prefix, child.connections))
           g == mergeChild(f, prefix, child)
<1>1. FrameInv(g)
  BY Merged
<1>2. g = [f EXCEPT !.out.models = m, !.out.components = c, !.out.connections = n,
                    !.inputTargets = t, !.outputSources = s]
  BY DEF mergeChild
<1> HIDE DEF m, c, n, t, s, g
<1>3. /\ DOMAIN f = {"name", "arch", "seen", "todo", "out", "inputTargets", "outputSources"}
      /\ DOMAIN f.out = {"components", "connections", "models"}
  BY DEF FrameInv, IsFrame
<1>4. /\ g.name = f.name /\ g.arch = f.arch /\ g.seen = f.seen /\ g.todo = f.todo
      /\ g.inputTargets = t /\ g.outputSources = s
  BY <1>2, <1>3
<1>5. g.out.models = m /\ g.out.components = c /\ g.out.connections = n
  <2> DEFINE w == [f EXCEPT !.out.models = m, !.out.components = c, !.out.connections = n,
                            !.inputTargets = t, !.outputSources = s]
  <2>1. w.out.models = m /\ w.out.components = c /\ w.out.connections = n
    BY <1>3
  <2> QED BY <1>2, <2>1
<1>6. IsMerged(g, f, prefix, child)
  BY <1>1, <1>4, <1>5 DEF m, c, n, t, s, IsMerged
<1> QED BY <1>6 DEF g

LEMMA FlattenedIs ==
  ASSUME NEW f, FrameInv(f)
  PROVE  /\ Flattened(f).models = f.out.models /\ Flattened(f).components = f.out.components
         /\ Flattened(f).connections = f.out.connections \o FlattenSeq(
              [i \in DOMAIN f.arch.connections |->
                 rewriteConnection(f.arch.connections[i], f.inputTargets, f.outputSources)])
<1> DEFINE rewritten == FlattenSeq(
             [i \in DOMAIN f.arch.connections |->
                rewriteConnection(f.arch.connections[i], f.inputTargets, f.outputSources)])
<1>1. Flattened(f) = [f.out EXCEPT !.connections = @ \o rewritten]
  BY DEF Flattened
<1>2. DOMAIN f.out = {"components", "connections", "models"}
  BY DEF FrameInv, IsFrame
<1> HIDE DEF rewritten
<1>3. /\ Flattened(f).models = f.out.models /\ Flattened(f).components = f.out.components
      /\ Flattened(f).connections = f.out.connections \o rewritten
  BY <1>1, <1>2
<1> QED BY <1>3 DEF rewritten

\* A component copied: the last call is done with one more.
LEMMA CopyStep ==
  ASSUME Walks(stack), NEW name \in Top.todo, CopyComponent(name)
  PROVE  LET n == Len(stack)
             f == stack[n] IN
         /\ n \in Nat \ {0} /\ Len(stack') = n /\ stack'[n] = Copied(f, name)
         /\ StackInv(stack') /\ Linked(stack') /\ Kept(stack, stack', n - 1)
         /\ FrameInv(f) /\ Top = f
         /\ PathTo(stack', n) = PathTo(stack, n)
         /\ Over(stack', n) = Over(stack, n) \cup {name}
         /\ name \in f.todo \ Imports(f.arch)
<1> DEFINE n == Len(stack)
           f == stack[n]
           g == Copied(f, name)
<1>1. StackInv(stack) /\ Linked(stack) /\ stack # <<>>
  BY DEF Walks, Linked
<1>2. FrameInv(f) /\ StackInv(Front(stack)) /\ n \in Nat \ {0} /\ Top = f
  BY <1>1, StackTop DEF Top, Last
<1>3. stack' = Append(Front(stack), g) /\ name \in f.todo \ Imports(f.arch)
  BY <1>2 DEF CopyComponent, Component, Copied
<1>4. /\ FrameInv(g) /\ g.name = f.name /\ g.arch = f.arch /\ g.todo = f.todo \ {name}
  BY <1>2, CopiedIs
<1>5. /\ Len(Front(stack)) = n - 1 /\ \A i \in 1..n - 1 : Front(stack)[i] = stack[i]
  <2>1. n - 1 \in 0..n
    BY <1>2
  <2> QED BY <1>1, <2>1, PrefixOf DEF Front
<1> HIDE DEF n, f, g
<1>6. /\ Len(stack') = n /\ stack'[n] = g /\ \A i \in 1..n - 1 : stack'[i] = stack[i]
  <2>1. /\ Len(stack') = Len(Front(stack)) + 1
        /\ \A i \in 1..Len(Front(stack)) : stack'[i] = Front(stack)[i]
        /\ stack'[Len(Front(stack)) + 1] = g
    BY <1>2, <1>3, Pushed
  <2> QED BY <1>2, <1>5, <2>1
<1>7. StackInv(stack')
  BY <1>2, <1>3, <1>4, StackPush
<1>8. \A i \in 1..n : stack'[i].name = stack[i].name
  <2>1. \A i \in 1..n : i \in 1..n - 1 \/ i = n
    BY <1>2
  <2> QED BY <1>4, <1>6, <2>1 DEF f
<1>9. /\ Kept(stack, stack', n - 1) /\ PathTo(stack', n) = PathTo(stack, n)
  <2>1. n \in Nat \ {0} /\ Len(stack) = n /\ n <= n /\ n \in Nat
    BY <1>2 DEF n
  <2> QED BY <1>6, <1>8, <2>1, StackSame
<1>10. Linked(stack')
  <2>1. stack'[1].name = NoName /\ stack' # <<>>
    <3>1. 1 \in 1..n
      BY <1>2
    <3>2. Len(stack') # 0
      BY <1>2, <1>6
    <3> QED BY <1>1, <1>8, <3>1, <3>2 DEF Linked
  <2>2. ASSUME NEW i \in 1..n - 1
        PROVE  stack'[i + 1].name \in Sons(stack'[i].arch) \ stack'[i].todo
    <3>1. i + 1 \in 1..n /\ i \in 1..Len(stack) - 1
      BY <1>2 DEF n
    <3> QED BY <1>1, <1>6, <1>8, <3>1 DEF Linked
  <2> QED BY <1>6, <2>1, <2>2 DEF Linked
<1>11. Over(stack', n) = Over(stack, n) \cup {name}
  <2>1. ~(n < Len(stack)) /\ ~(n < Len(stack'))
    BY <1>2, <1>6 DEF n
  <2>2. Over(stack, n) = DOMAIN f.arch.components \ f.todo
    BY <2>1 DEF Over, f
  <2>3. Over(stack', n) = DOMAIN g.arch.components \ g.todo
    BY <1>6, <2>1 DEF Over
  <2>4. name \in DOMAIN f.arch.components
    BY <1>2, <1>3 DEF FrameInv
  <2> QED BY <1>3, <1>4, <2>2, <2>3, <2>4
<1> QED BY <1>2, <1>3, <1>6, <1>7, <1>9, <1>10, <1>11 DEF n, f, g

\* A package pulled: the caller has visited its component, and a new call
\* has everything to do.
LEMMA ResolveStep ==
  ASSUME Undotted, root \in Roots, Walks(stack), NEW name \in Top.todo, Resolve(name)
  PROVE  LET n == Len(stack)
             f == stack[n]
             key == Key(f.arch.components[name]) IN
         /\ n \in Nat \ {0} /\ Len(stack') = n + 1
         /\ stack'[n] = Visited(f, name)
         /\ stack'[n + 1] = Frame(name, Library[key].entry, f.seen \cup {key})
         /\ StackInv(stack') /\ Linked(stack') /\ Kept(stack, stack', n - 1)
         /\ FrameInv(f) /\ Top = f
         /\ PathTo(stack', n) = PathTo(stack, n)
         /\ PathTo(stack', n + 1) = PathTo(stack, n) \o name
         /\ Over(stack', n) = Over(stack, n) /\ Over(stack', n + 1) = {}
         /\ name \in f.todo /\ name \in Sons(f.arch) /\ key \notin f.seen
<1> DEFINE n == Len(stack)
           f == stack[n]
           v == Visited(f, name)
           key == Key(f.arch.components[name])
           g == Frame(name, Library[key].entry, f.seen \cup {key})
           P == PathTo(stack, n)
<1>1. StackInv(stack) /\ Linked(stack) /\ stack # <<>>
  BY DEF Walks, Linked
<1>2. FrameInv(f) /\ StackInv(Front(stack)) /\ n \in Nat \ {0} /\ Top = f
  BY <1>1, StackTop DEF Top, Last
<1>3. /\ stack' = Append(Append(Front(stack), v), g)
      /\ name \in f.todo \cap Imports(f.arch) /\ Importable(key) /\ key \notin f.seen
  BY <1>2 DEF Resolve, Component
<1>4. /\ FrameInv(v) /\ v.name = f.name /\ v.arch = f.arch /\ v.todo = f.todo \ {name}
  BY <1>2, VisitedIs, VisitedFrame
<1>5. /\ Len(Front(stack)) = n - 1 /\ \A i \in 1..n - 1 : Front(stack)[i] = stack[i]
  <2>1. n - 1 \in 0..n
    BY <1>2
  <2> QED BY <1>1, <2>1, PrefixOf DEF Front
<1>6. g.name = name /\ g.todo = DOMAIN g.arch.components
  BY DEF Frame
<1>7. FrameInv(g)
  <2>1. name \in Names
    BY <1>2, <1>3, SMTT(30) DEF FrameInv
  <2>2. /\ DOMAIN Library[key].entry.components \subseteq Names
        /\ AreModels(Library[key].entry.models)
    BY <1>3, ImportedIs
  <2> QED BY <2>1, <2>2, NewFrame
<1>8. name \in Sons(f.arch)
  BY <1>3 DEF Sons
<1>9. P \in Instances /\ f.arch = Architecture(P)
  <2>1. n \in 1..Len(stack)
    BY <1>2
  <2> QED BY <2>1 DEF Walks, Walked
<1>10. /\ P \in Names /\ name = <<name[1]>> /\ name[1] \in STRING
  <2>1. P \in Names /\ PackageAt(P) \in Parsed
    BY <1>9, InstanceIs DEF IsInstance
  <2> QED BY <1>8, <1>9, <2>1, SonIs
<1> HIDE DEF n, f, g, v, key
<1>11. /\ Len(stack') = n + 1 /\ stack'[n] = v /\ stack'[n + 1] = g
       /\ \A i \in 1..n - 1 : stack'[i] = stack[i]
  <2> DEFINE s == Append(Front(stack), v)
  <2>1. /\ Len(s) = Len(Front(stack)) + 1
        /\ \A i \in 1..Len(Front(stack)) : s[i] = Front(stack)[i]
        /\ s[Len(Front(stack)) + 1] = v
    BY <1>2, Pushed
  <2>2. StackInv(s)
    BY <1>2, <1>4, StackPush
  <2> HIDE DEF s
  <2>3. stack' = Append(s, g)
    BY <1>3 DEF s
  <2>4. /\ Len(stack') = Len(s) + 1 /\ \A i \in 1..Len(s) : stack'[i] = s[i]
        /\ stack'[Len(s) + 1] = g
    BY <2>2, <2>3, Pushed
  <2>5. Len(s) = n /\ n \in 1..n /\ \A i \in 1..n - 1 : i \in 1..n
    BY <1>2, <1>5, <2>1
  <2>6. s[n] = v /\ \A i \in 1..n - 1 : s[i] = stack[i]
    BY <1>2, <1>5, <2>1
  <2> QED BY <2>4, <2>5, <2>6
<1>12. StackInv(stack')
  BY <1>2, <1>3, <1>4, <1>7, StackPush
<1>13. \A i \in 1..n : stack'[i].name = stack[i].name
  <2>1. \A i \in 1..n : i \in 1..n - 1 \/ i = n
    BY <1>2
  <2> QED BY <1>4, <1>11, <2>1 DEF f
<1>14. /\ Kept(stack, stack', n - 1) /\ PathTo(stack', n) = P
  <2>1. n \in Nat \ {0} /\ Len(stack) = n /\ n <= n /\ n \in Nat
        /\ n <= n + 1 /\ n + 1 \in Nat
    BY <1>2 DEF n
  <2> QED BY <1>11, <1>13, <2>1, StackSame
<1>15. PathTo(stack', n + 1) = P \o name
  <2>1. n \in Nat \ {0} /\ PathTo(stack', n) \in Names /\ stack'[n + 1].name = name
    BY <1>2, <1>6, <1>10, <1>11, <1>14
  <2> QED BY <1>10, <1>14, <2>1, PathLonger, SMTT(30)
<1>16. Linked(stack')
  <2>1. stack'[1].name = NoName /\ stack' # <<>>
    <3>1. 1 \in 1..n
      BY <1>2
    <3>2. Len(stack') # 0
      BY <1>2, <1>11
    <3> QED BY <1>1, <1>13, <3>1, <3>2 DEF Linked
  <2>2. ASSUME NEW i \in 1..n
        PROVE  stack'[i + 1].name \in Sons(stack'[i].arch) \ stack'[i].todo
    <3>1. CASE i = n
      BY <1>4, <1>6, <1>8, <1>11, <3>1
    <3>2. CASE i \in 1..n - 1
      <4>1. i + 1 \in 1..n /\ i \in 1..Len(stack) - 1
        BY <1>2, <3>2 DEF n
      <4> QED BY <1>1, <1>11, <1>13, <3>2, <4>1 DEF Linked
    <3> QED BY <1>2, <3>1, <3>2
  <2>3. Len(stack') - 1 = n
    BY <1>2, <1>11
  <2> QED BY <2>1, <2>2, <2>3 DEF Linked
<1>17. Over(stack', n) = Over(stack, n)
  <2>1. ~(n < Len(stack)) /\ n < Len(stack')
    BY <1>2, <1>11 DEF n
  <2>2. Over(stack, n) = DOMAIN f.arch.components \ f.todo
    BY <2>1 DEF Over, f
  <2>3. Over(stack', n) = {x \in DOMAIN f.arch.components \ (f.todo \ {name}) : x # name}
    BY <1>4, <1>6, <1>11, <2>1 DEF Over
  <2> QED BY <1>3, <2>2, <2>3
<1>18. Over(stack', n + 1) = {}
  BY <1>6, <1>11 DEF Over
<1> HIDE DEF P
<1>19. /\ n \in Nat \ {0} /\ Len(stack') = n + 1 /\ stack'[n] = v /\ stack'[n + 1] = g
       /\ StackInv(stack') /\ Linked(stack') /\ Kept(stack, stack', n - 1)
       /\ FrameInv(f) /\ Top = f
  BY <1>2, <1>11, <1>12, <1>14, <1>16
<1>20. /\ PathTo(stack', n) = P /\ PathTo(stack', n + 1) = P \o name
       /\ Over(stack', n) = Over(stack, n) /\ Over(stack', n + 1) = {}
       /\ name \in f.todo /\ name \in Sons(f.arch) /\ key \notin f.seen
  BY <1>3, <1>8, <1>14, <1>15, <1>17, <1>18
<1> QED BY <1>19, <1>20 DEF n, f, v, g, key, P

\* A call returns: its caller has merged one component more.
LEMMA ReturnStep ==
  ASSUME Undotted, root \in Roots, Walks(stack), ReturnChild
  PROVE  LET n == Len(stack)
             f == stack[n - 1]
             c == stack[n] IN
         /\ n \in Nat \ {0} /\ n - 1 \in Nat \ {0} /\ Len(stack') = n - 1
         /\ stack'[n - 1] = mergeChild(f, c.name, Flattened(c))
         /\ StackInv(stack') /\ Linked(stack') /\ Kept(stack, stack', n - 2)
         /\ FrameInv(f) /\ FrameInv(c) /\ c.name \in Sons(f.arch) \ f.todo
         /\ PathTo(stack', n - 1) = PathTo(stack, n - 1)
         /\ PathTo(stack, n) = PathTo(stack, n - 1) \o c.name
         /\ c.name \notin Over(stack, n - 1)
         /\ Over(stack', n - 1) = Over(stack, n - 1) \cup {c.name}
         /\ c.todo = {} /\ Over(stack, n) = DOMAIN c.arch.components
<1> DEFINE n == Len(stack)
           m == n - 1
           f == stack[m]
           c == stack[n]
           g == mergeChild(f, c.name, Flattened(c))
           s == SubSeq(stack, 1, n - 2)
<1>1. StackInv(stack) /\ Linked(stack) /\ stack # <<>>
  BY DEF Walks, Linked
<1>2. FrameInv(c) /\ n \in Nat \ {0} /\ Top = c /\ DOMAIN stack = 1..n
  BY <1>1, StackTop DEF Top, Last
<1>3. stack' = Append(s, g) /\ c.todo = {} /\ n > 1
  BY <1>2 DEF ReturnChild
<1>4. /\ m \in Nat \ {0} /\ m + 1 = n /\ n - 2 \in 0..n /\ n - 2 = m - 1 /\ m \in 1..n
      /\ m \in DOMAIN stack
  BY <1>2, <1>3
<1>5. FrameInv(f)
  BY <1>1, <1>4 DEF StackInv
<1>6. Len(s) = m - 1 /\ StackInv(s) /\ \A i \in 1..m - 1 : s[i] = stack[i]
  <2>1. /\ Len(s) = n - 2 /\ StackInv(s) /\ \A i \in 1..n - 2 : s[i] = stack[i]
    BY <1>1, <1>4, PrefixOf
  <2> QED BY <1>4, <2>1
<1>7. FrameInv(g) /\ g.name = f.name /\ g.arch = f.arch /\ g.todo = f.todo
  <2>1. c.name \in Names /\ AreModels(Flattened(c).models)
    BY <1>2, FlattenedIs DEF FrameInv
  <2> DEFINE child == Flattened(c)
             prefix == c.name
             h == mergeChild(f, prefix, child)
  <2>2. FrameInv(f) /\ prefix \in Names /\ AreModels(child.models)
    BY <1>5, <2>1
  <2> HIDE DEF f, child, prefix
  <2>3. FrameInv(h) /\ h.name = f.name /\ h.arch = f.arch /\ h.todo = f.todo
    BY <2>2, MergedIs DEF IsMerged
  <2> QED BY <2>3 DEF f, child, prefix
<1>8. c.name \in Sons(f.arch) \ f.todo
  <2>1. m \in 1..Len(stack) - 1
    BY <1>2, <1>4
  <2> QED BY <1>1, <1>4, <2>1 DEF Linked
<1> HIDE DEF n, m, f, c, g, s
<1>9. Len(stack') = m /\ stack'[m] = g /\ \A i \in 1..m - 1 : stack'[i] = stack[i]
  <2>1. /\ Len(stack') = Len(s) + 1 /\ \A i \in 1..Len(s) : stack'[i] = s[i]
        /\ stack'[Len(s) + 1] = g
    BY <1>3, <1>6, Pushed
  <2> QED BY <1>4, <1>6, <2>1
<1>10. StackInv(stack')
  BY <1>3, <1>6, <1>7, StackPush
<1>11. \A i \in 1..m : stack'[i].name = stack[i].name
  <2>1. \A i \in 1..m : i \in 1..m - 1 \/ i = m
    BY <1>4
  <2> QED BY <1>7, <1>9, <2>1 DEF f
<1>12. Kept(stack, stack', m - 1) /\ PathTo(stack', m) = PathTo(stack, m)
  <2>1. m \in Nat /\ m <= m /\ m <= n /\ Len(stack) = n
    BY <1>2, <1>4 DEF n
  <2> QED BY <1>2, <1>4, <1>9, <1>11, <2>1, StackSame
<1>13. PathTo(stack, n) = PathTo(stack, m) \o c.name
  <2>1. Walked(f, PathTo(stack, m), Over(stack, m))
    BY <1>4 DEF Walks, f, n
  <2>2. PathTo(stack, m) \in Names /\ PackageAt(PathTo(stack, m)) \in Parsed
    BY <2>1, InstanceIs DEF IsInstance, Walked
  <2>3. c.name = <<c.name[1]>> /\ c.name[1] \in STRING
    BY <1>8, <2>1, <2>2, SonIs DEF Walked
  <2>4. stack[m + 1].name = c.name
    BY <1>4 DEF c
  <2>5. PathTo(stack, m + 1) = PathTo(stack, m) \o c.name
    BY <1>4, <2>2, <2>3, <2>4, PathLonger
  <2> QED BY <1>4, <2>5
<1>14. Linked(stack')
  <2>1. stack'[1].name = NoName /\ stack' # <<>>
    <3>1. 1 \in 1..m
      BY <1>4
    <3>2. Len(stack') # 0
      BY <1>4, <1>9
    <3> QED BY <1>1, <1>11, <3>1, <3>2 DEF Linked
  <2>2. ASSUME NEW i \in 1..m - 1
        PROVE  stack'[i + 1].name \in Sons(stack'[i].arch) \ stack'[i].todo
    <3>1. i + 1 \in 1..m /\ i \in 1..Len(stack) - 1
      BY <1>4 DEF n
    <3> QED BY <1>1, <1>9, <1>11, <3>1 DEF Linked
  <2> QED BY <1>9, <2>1, <2>2 DEF Linked
<1>15. /\ Over(stack', m) = Over(stack, m) \cup {c.name} /\ c.name \notin Over(stack, m)
  <2>1. ~(m < Len(stack')) /\ m < Len(stack) /\ stack[m + 1] = c
    BY <1>2, <1>4, <1>9 DEF n, c
  <2>2. Over(stack, m) = {x \in DOMAIN f.arch.components \ f.todo : x # c.name}
    BY <2>1 DEF Over, f
  <2>3. Over(stack', m) = DOMAIN f.arch.components \ f.todo
    BY <1>7, <1>9, <2>1 DEF Over
  <2>4. c.name \in DOMAIN f.arch.components \ f.todo
    BY <1>8 DEF Sons, Imports
  <2> QED BY <2>2, <2>3, <2>4
<1>16. Over(stack, n) = DOMAIN c.arch.components
  <2>1. ~(n < Len(stack))
    BY <1>2 DEF n
  <2> QED BY <1>3, <2>1 DEF Over, c
<1>17. /\ n \in Nat \ {0} /\ m \in Nat \ {0} /\ Len(stack') = m
       /\ stack'[m] = g /\ StackInv(stack') /\ Linked(stack') /\ Kept(stack, stack', n - 2)
       /\ FrameInv(f) /\ FrameInv(c) /\ c.name \in Sons(f.arch) \ f.todo
  BY <1>2, <1>4, <1>5, <1>8, <1>9, <1>10, <1>12, <1>14
<1>18. /\ PathTo(stack', m) = PathTo(stack, m)
       /\ PathTo(stack, n) = PathTo(stack, m) \o c.name
       /\ c.name \notin Over(stack, m)
       /\ Over(stack', m) = Over(stack, m) \cup {c.name}
       /\ c.todo = {} /\ Over(stack, n) = DOMAIN c.arch.components
  BY <1>3, <1>12, <1>13, <1>15, <1>16
<1> QED BY <1>17, <1>18 DEF n, m, f, c, g

------------------------------------------------------------------------------
(* Circular imports. *)

LEMMA ClearAt ==
  ASSUME Undotted, root \in Roots, NEW path \in Instances, IsInjective(KeysOn(path)),
         \A name \in Imports(Architecture(path)) :
           name \in Sons(Architecture(path)) /\ Clear(path \o name)
  PROVE  Clear(path)
<1>1. SUFFICES ASSUME NEW p \in Instances, Under(path, p)
               PROVE  /\ IsInjective(KeysOn(p))
                      /\ Imports(Architecture(p)) = Sons(Architecture(p))
  BY DEF Clear
<1>2. CASE p = path
  BY <1>2 DEF Sons
<1>3. CASE p # path
  <2>1. path \in Names
    BY InstanceIs DEF IsInstance
  <2>2. PICK name \in Sons(Architecture(path)) : Under(path \o name, p)
    BY <1>1, <1>3, <2>1, WayDown
  <2>3. name \in Imports(Architecture(path))
    BY DEF Sons
  <2>4. Clear(path \o name)
    BY <2>3
  <2> QED BY <1>1, <2>2, <2>4 DEF Clear
<1> QED BY <1>2, <1>3

LEMMA ClearRoot ==
  ASSUME Undotted, root \in Roots, Clear(NoName)
  PROVE  ~Circular
<1>1. SUFFICES ASSUME NEW path \in Instances  PROVE IsInjective(KeysOn(path))
  BY DEF Circular
<1>2. path \in Names
  BY InstanceIs DEF IsInstance
<1>3. path = NoName \o path
  BY <1>2, CatLaws DEF NoName
<1>4. Under(NoName, path)
  BY <1>2, <1>3 DEF Under
<1> QED BY <1>4 DEF Clear

LEMMA RootInjective == KeysOn(NoName) = <<>> /\ IsInjective(KeysOn(NoName)) /\ KeysOf(NoName) = {}
<1>1. KeysOn(NoName) = <<>> /\ Len(NoName) = 0
  BY AtRoot
<1>2. DOMAIN <<>> = {} /\ 1..0 = {}
  OBVIOUS
<1> QED BY <1>1, <1>2 DEF IsInjective, KeysOf

\* One key more on a path.
LEMMA OneKeyMore ==
  ASSUME Undotted, root \in Roots, NEW p \in Instances, IsInjective(KeysOn(p)),
         NEW name \in Sons(Architecture(p))
  PROVE  LET key == Key(Architecture(p).components[name]) IN
         /\ KeysOf(p \o name) = KeysOf(p) \cup {key}
         /\ IsInjective(KeysOn(p \o name)) <=> key \notin KeysOf(p)
<1> DEFINE q == p \o name
           key == Key(Architecture(p).components[name])
<1>1. p \in Names /\ PackageAt(p) \in Parsed
  BY InstanceIs DEF IsInstance
<1>2. /\ Len(q) = Len(p) + 1 /\ Len(p) \in Nat
      /\ DOMAIN KeysOn(p) = 1..Len(p) /\ DOMAIN KeysOn(q) = 1..Len(p) + 1
      /\ \A i \in 1..Len(p) : KeysOn(q)[i] = KeysOn(p)[i]
      /\ KeysOn(q)[Len(p) + 1] = key
  BY <1>1, SonIs
<1> HIDE DEF q, key
<1>3. 1..Len(q) = 1..Len(p) \cup {Len(p) + 1}
  BY <1>2
<1>4. KeysOf(q) = KeysOf(p) \cup {key}
  BY <1>2, <1>3 DEF KeysOf
<1>5. ASSUME key \notin KeysOf(p)  PROVE IsInjective(KeysOn(q))
  <2>1. SUFFICES ASSUME NEW a \in 1..Len(p) + 1, NEW b \in 1..Len(p) + 1,
                        KeysOn(q)[a] = KeysOn(q)[b]
                 PROVE  a = b
    BY <1>2 DEF IsInjective
  <2>2. \A i \in 1..Len(p) : KeysOn(q)[i] # key
    BY <1>2, <1>5 DEF KeysOf
  <2>3. CASE a \in 1..Len(p) /\ b \in 1..Len(p)
    BY <1>2, <2>1, <2>3 DEF IsInjective
  <2>4. CASE a = Len(p) + 1 \/ b = Len(p) + 1
    BY <1>2, <2>1, <2>2, <2>4
  <2> QED BY <1>2, <2>3, <2>4
<1>6. ASSUME key \in KeysOf(p)  PROVE ~IsInjective(KeysOn(q))
  <2>1. PICK i \in 1..Len(p) : KeysOn(p)[i] = key
    BY <1>6 DEF KeysOf
  <2>2. /\ i \in DOMAIN KeysOn(q) /\ Len(p) + 1 \in DOMAIN KeysOn(q) /\ i # Len(p) + 1
        /\ KeysOn(q)[i] = KeysOn(q)[Len(p) + 1]
    BY <1>2, <2>1
  <2> QED BY <2>2 DEF IsInjective
<1> QED BY <1>4, <1>5, <1>6 DEF q, key

\* The frames that go on as they were.
LEMMA StillWalked ==
  ASSUME Walks(stack), NEW t, NEW n \in 0..Len(stack), Kept(stack, t, n)
  PROVE  \A i \in 1..n : Walked(t[i], PathTo(t, i), Over(t, i))
<1>1. Len(stack) \in Nat
  <2>1. stack \in Seq(Range(stack))
    BY DEF Walks, StackInv
  <2> QED BY <2>1
<1>2. \A i \in 1..n : i \in 1..Len(stack)
  BY <1>1
<1> QED BY <1>2 DEF Walks, Kept

LEMMA WalksCopy ==
  ASSUME Walks(stack), NEW name \in Top.todo, CopyComponent(name)
  PROVE  Walks(stack')
<1> DEFINE n == Len(stack)
           f == stack[n]
           g == stack'[n]
<1>1. /\ n \in Nat \ {0} /\ Len(stack') = n /\ g = Copied(f, name)
      /\ StackInv(stack') /\ Linked(stack') /\ Kept(stack, stack', n - 1)
      /\ FrameInv(f)
      /\ PathTo(stack', n) = PathTo(stack, n)
      /\ Over(stack', n) = Over(stack, n) \cup {name}
      /\ name \notin Imports(f.arch)
  BY CopyStep
<1>2. g.arch = f.arch /\ g.seen = f.seen
  <2> HIDE DEF f, g
  <2> QED BY <1>1, CopiedIs
<1>3. Walked(f, PathTo(stack, n), Over(stack, n))
  BY <1>1 DEF Walks
<1>4. Walked(g, PathTo(stack', n), Over(stack', n))
  <2> HIDE DEF n, f, g
  <2> QED BY <1>1, <1>2, <1>3 DEF Walked
<1>5. \A i \in 1..n - 1 : Walked(stack'[i], PathTo(stack', i), Over(stack', i))
  <2>1. n - 1 \in 0..Len(stack)
    BY <1>1
  <2> QED BY <1>1, <2>1, StillWalked
<1> HIDE DEF n
<1>6. ASSUME NEW i \in 1..n  PROVE Walked(stack'[i], PathTo(stack', i), Over(stack', i))
  <2>1. i = n \/ i \in 1..n - 1
    BY <1>1
  <2> QED BY <1>4, <1>5, <2>1
<1> QED BY <1>1, <1>6 DEF Walks

LEMMA WalksResolve ==
  ASSUME Undotted, root \in Roots, Walks(stack), NEW name \in Top.todo, Resolve(name)
  PROVE  Walks(stack')
<1> DEFINE n == Len(stack)
           f == stack[n]
           key == Key(f.arch.components[name])
           P == PathTo(stack, n)
           v == stack'[n]
           g == stack'[n + 1]
<1>1. /\ n \in Nat \ {0} /\ Len(stack') = n + 1
      /\ v = Visited(f, name)
      /\ g = Frame(name, Library[key].entry, f.seen \cup {key})
      /\ StackInv(stack') /\ Linked(stack') /\ Kept(stack, stack', n - 1)
      /\ FrameInv(f)
      /\ PathTo(stack', n) = P /\ PathTo(stack', n + 1) = P \o name
      /\ Over(stack', n) = Over(stack, n) /\ Over(stack', n + 1) = {}
      /\ name \in Sons(f.arch) /\ key \notin f.seen
  BY ResolveStep
<1>2. v.arch = f.arch /\ v.seen = f.seen
  BY <1>1, VisitedIs
<1>3. g.arch = Library[key].entry /\ g.seen = f.seen \cup {key}
  BY <1>1 DEF Frame
<1>4. Walked(f, P, Over(stack, n))
  <2>1. n \in 1..Len(stack)
    BY <1>1
  <2> QED BY <2>1 DEF Walks
<1> HIDE DEF f, v, g, P, n
<1>5. Walked(v, PathTo(stack', n), Over(stack', n))
  BY <1>1, <1>2, <1>4 DEF Walked
<1>6. /\ P \in Instances /\ IsInjective(KeysOn(P)) /\ f.arch = Architecture(P)
      /\ f.seen = KeysOf(P)
  BY <1>4 DEF Walked
<1>7. /\ P \o name \in Instances /\ IsInjective(KeysOn(P \o name))
      /\ KeysOf(P \o name) = KeysOf(P) \cup {key}
  BY <1>1, <1>6, SonInstance, OneKeyMore
<1>8. Architecture(P \o name) = Library[key].entry
  <2>1. P \in Names /\ PackageAt(P) \in Parsed
    BY <1>6, InstanceIs DEF IsInstance
  <2> QED BY <1>1, <1>6, <2>1, SonIs
<1>9. Walked(g, PathTo(stack', n + 1), Over(stack', n + 1))
  BY <1>1, <1>3, <1>6, <1>7, <1>8 DEF Walked
<1>10. \A i \in 1..n - 1 : Walked(stack'[i], PathTo(stack', i), Over(stack', i))
  <2>1. n - 1 \in 0..Len(stack)
    BY <1>1 DEF n
  <2> QED BY <1>1, <2>1, StillWalked
<1>11. ASSUME NEW i \in 1..n + 1  PROVE Walked(stack'[i], PathTo(stack', i), Over(stack', i))
  <2>1. i = n + 1 \/ i = n \/ i \in 1..n - 1
    BY <1>1
  <2> QED BY <1>5, <1>9, <1>10, <2>1 DEF v, g
<1> QED BY <1>1, <1>11 DEF Walks

LEMMA WalksReturn ==
  ASSUME Undotted, root \in Roots, Walks(stack), ReturnChild
  PROVE  Walks(stack')
<1> DEFINE n == Len(stack)
           m == n - 1
           f == stack[m]
           c == stack[n]
           g == stack'[m]
           P == PathTo(stack, m)
<1>1. /\ n \in Nat \ {0} /\ m \in Nat \ {0} /\ Len(stack') = m
      /\ g = mergeChild(f, c.name, Flattened(c))
      /\ StackInv(stack') /\ Linked(stack') /\ Kept(stack, stack', n - 2)
      /\ FrameInv(f) /\ FrameInv(c) /\ c.name \in Sons(f.arch)
      /\ PathTo(stack', m) = P
      /\ PathTo(stack, n) = P \o c.name
      /\ Over(stack', m) = Over(stack, m) \cup {c.name}
      /\ Over(stack, n) = DOMAIN c.arch.components
  BY ReturnStep
<1>2. g.arch = f.arch /\ g.seen = f.seen
  <2> DEFINE child == Flattened(c)
             prefix == c.name
  <2>1. FrameInv(f) /\ prefix \in Names /\ AreModels(child.models)
    BY <1>1, FlattenedIs DEF FrameInv
  <2>2. g = mergeChild(f, prefix, child)
    BY <1>1
  <2> HIDE DEF f, g, child, prefix
  <2> QED BY <2>1, <2>2, MergedIs DEF IsMerged
<1>3. Walked(f, P, Over(stack, m)) /\ Walked(c, P \o c.name, DOMAIN c.arch.components)
  <2>1. m \in 1..Len(stack) /\ n \in 1..Len(stack)
    BY <1>1
  <2>2. Walked(f, P, Over(stack, m)) /\ Walked(c, PathTo(stack, n), Over(stack, n))
    BY <2>1 DEF Walks
  <2> QED BY <1>1, <2>2
<1> HIDE DEF n, m, f, c, g, P
<1>4. Clear(P \o c.name)
  <2> DEFINE Q == P \o c.name
  <2>1. /\ Q \in Instances /\ IsInjective(KeysOn(Q)) /\ c.arch = Architecture(Q)
        /\ \A name \in DOMAIN c.arch.components \cap Imports(c.arch) :
             name \in Sons(c.arch) /\ Clear(Q \o name)
    BY <1>3 DEF Walked
  <2>2. \A name \in Imports(c.arch) : name \in DOMAIN c.arch.components
    BY DEF Imports
  <2> HIDE DEF Q
  <2>3. \A name \in Imports(Architecture(Q)) : name \in Sons(Architecture(Q)) /\ Clear(Q \o name)
    BY <2>1, <2>2
  <2>4. Clear(Q)
    BY <2>1, <2>3, ClearAt
  <2> QED BY <2>4 DEF Q
<1>5. Walked(g, PathTo(stack', m), Over(stack', m))
  BY <1>1, <1>2, <1>3, <1>4 DEF Walked
<1>6. \A i \in 1..m - 1 : Walked(stack'[i], PathTo(stack', i), Over(stack', i))
  <2>1. m - 1 \in 0..Len(stack) /\ Kept(stack, stack', m - 1)
    BY <1>1 DEF n, m
  <2> QED BY <2>1, StillWalked
<1>7. ASSUME NEW i \in 1..m  PROVE Walked(stack'[i], PathTo(stack', i), Over(stack', i))
  <2>1. i = m \/ i \in 1..m - 1
    BY <1>1
  <2> QED BY <1>5, <1>6, <2>1 DEF g
<1> QED BY <1>1, <1>7 DEF Walks

LEMMA WalksKnown ==
  ASSUME root' = root, Walks(stack')
  PROVE  Walks(stack)'
<1>1. Instances' = Instances
  BY PathsKnown
<1>2. \A p : /\ Architecture(p)' = Architecture(p) /\ KeysOn(p)' = KeysOn(p)
             /\ KeysOf(p)' = KeysOf(p)
  BY PathsKnown DEF KeysOf
<1>3. \A q : Clear(q)' = Clear(q)
  BY <1>1, <1>2 DEF Clear
<1>4. \A i \in 1..Len(stack') :
        Walked(stack[i], PathTo(stack, i), Over(stack, i))'
          = Walked(stack'[i], PathTo(stack', i), Over(stack', i))
  BY <1>1, <1>2, <1>3 DEF Walked, PathTo, Over
<1> QED BY <1>4 DEF Walks, StackInv, Linked

\* Either there is nothing to flatten, or the calls are where they should be.
CompositionInv ==
  /\ composed = "pending" /\ stack = <<>> => Imports(ParseFile(root)) = {}
  /\ composed = "pending" /\ stack # <<>> => Walks(stack)
  /\ CircularExactly

LEMMA CompositionStart ==
  ASSUME Undotted, CompositionInit
  PROVE  CompositionInv
<1>1. root \in Roots /\ composed = "pending"
  BY DEF CompositionInit
<1>2. CASE Imports(ParseFile(root)) = {}
  BY <1>1, <1>2 DEF CompositionInit, HasOrchestrationComponents, CompositionInv, CircularExactly
<1>3. CASE Imports(ParseFile(root)) # {}
  <2> DEFINE f == Frame(NoName, ParseFile(root), {})
  <2>1. stack = <<f>>
    BY <1>3 DEF CompositionInit, HasOrchestrationComponents
  <2>2. FrameInv(f)
    BY <1>1, ParsedIs, NewFrame, AtRoot
  <2>3. f.name = NoName /\ f.arch = ParseFile(root) /\ f.seen = {} /\ f.todo = DOMAIN f.arch.components
    BY DEF Frame
  <2> HIDE DEF f
  <2>4. Len(stack) = 1 /\ stack[1] = f /\ stack # <<>> /\ stack \in Seq(Range(stack))
        /\ DOMAIN stack = {1}
    <3>1. stack \in Seq({f}) /\ Len(stack) = 1 /\ stack[1] = f
      BY <2>1, OneOf
    <3> QED BY <3>1, OwnRange
  <2>5. StackInv(stack) /\ Linked(stack)
    BY <2>2, <2>3, <2>4 DEF StackInv, Linked
  <2>6. Over(stack, 1) = {}
    BY <2>3, <2>4 DEF Over
  <2>7. PathTo(stack, 1) = NoName
    <3>1. 1..(1 - 1) = {}
      OBVIOUS
    <3> QED BY <3>1 DEF PathTo, NoName
  <2>8. Walked(f, NoName, {})
    <3>1. NoName \in Instances
      BY <1>1, InstanceIs
    <3> QED BY <2>3, <3>1, RootInjective, AtRoot DEF Walked
  <2>9. Walks(stack)
    <3>1. ASSUME NEW i \in 1..Len(stack)  PROVE Walked(stack[i], PathTo(stack, i), Over(stack, i))
      <4>1. i = 1
        BY <2>4
      <4> QED BY <2>4, <2>6, <2>7, <2>8, <4>1
    <3> QED BY <2>5, <3>1 DEF Walks
  <2> QED BY <1>1, <2>4, <2>9 DEF CompositionInv, CircularExactly
<1> QED BY <1>2, <1>3

\* The first call has nothing left to do: nothing is circular.
LEMMA AllWalked ==
  ASSUME Undotted, root \in Roots, Walks(stack), Len(stack) = 1, Top.todo = {}
  PROVE  /\ Walked(Top, NoName, DOMAIN Top.arch.components) /\ Clear(NoName)
         /\ Top = stack[1] /\ PathTo(stack, 1) = NoName
         /\ Over(stack, 1) = DOMAIN Top.arch.components
<1>1. Top = stack[1]
  BY DEF Top, Last
<1>2. PathTo(stack, 1) = NoName
  <2>1. 1..(1 - 1) = {}
    OBVIOUS
  <2> QED BY <2>1 DEF PathTo, NoName
<1>3. Over(stack, 1) = DOMAIN Top.arch.components
  BY <1>1 DEF Over
<1>4. Walked(Top, NoName, DOMAIN Top.arch.components)
  <2>1. 1 \in 1..Len(stack)
    OBVIOUS
  <2>2. Walked(stack[1], PathTo(stack, 1), Over(stack, 1))
    BY <2>1 DEF Walks
  <2> QED BY <1>1, <1>2, <1>3, <2>2
<1>5. Clear(NoName)
  <2>1. /\ NoName \in Instances /\ IsInjective(KeysOn(NoName)) /\ Top.arch = Architecture(NoName)
        /\ \A name \in DOMAIN Top.arch.components \cap Imports(Top.arch) :
             name \in Sons(Top.arch) /\ Clear(NoName \o name)
    BY <1>4 DEF Walked
  <2>2. \A name \in Imports(Top.arch) : name \in DOMAIN Top.arch.components
    BY DEF Imports
  <2> QED BY <2>1, <2>2, ClearAt
<1> QED BY <1>1, <1>2, <1>3, <1>4, <1>5

\* The package of a component that was seen on the way down.
LEMMA MetAgain ==
  ASSUME Undotted, root \in Roots, Walks(stack), NEW name \in Top.todo, CircularDependency(name)
  PROVE  Circular
<1> DEFINE n == Len(stack)
           f == stack[n]
           P == PathTo(stack, n)
           key == Key(f.arch.components[name])
<1>1. StackInv(stack) /\ stack # <<>>
  BY DEF Walks, Linked
<1>2. n \in Nat \ {0} /\ Top = f
  BY <1>1, StackTop DEF Top, Last
<1>3. name \in Imports(f.arch) /\ key \in f.seen
  BY <1>2 DEF CircularDependency, Component
<1>4. Walked(f, P, Over(stack, n))
  <2>1. n \in 1..Len(stack)
    BY <1>2
  <2> QED BY <2>1 DEF Walks
<1> HIDE DEF n, f, P
<1>5. /\ P \in Instances /\ IsInjective(KeysOn(P)) /\ f.arch = Architecture(P)
      /\ f.seen = KeysOf(P)
  BY <1>4 DEF Walked
<1>6. Importable(key)
  <2>1. IsInstance(P)
    BY <1>5, InstanceIs
  <2> HIDE DEF key
  <2> QED BY <1>3, <1>5, <2>1 DEF IsInstance, KeysOf
<1>7. name \in Sons(Architecture(P))
  BY <1>3, <1>5, <1>6 DEF Sons
<1>8. P \o name \in Instances
  BY <1>5, <1>7, SonInstance
<1>9. ~IsInjective(KeysOn(P \o name))
  BY <1>3, <1>5, <1>7, OneKeyMore
<1> QED BY <1>8, <1>9 DEF Circular

LEMMA CompositionStep ==
  ASSUME Undotted, root \in Roots, CompositionInv, CompositionNext
  PROVE  CompositionInv'
<1>1. root' = root /\ composed = "pending"
  BY DEF CompositionNext, LoadAndValidate, ReturnChild, CopyComponent, CircularDependency,
         Resolve, ResolveFails
<1>2. Circular' = Circular /\ ParseFile(root)' = ParseFile(root)
  BY <1>1, PathsKnown DEF Circular
<1>3. CASE LoadAndValidate
  <2>1. stack' = <<>> /\ composed' \in {"ok", "invalid"}
    BY <1>3 DEF LoadAndValidate
  <2>2. ~Circular
    <3>1. CASE stack = <<>>
      <4>1. Imports(Architecture(NoName)) = {}
        BY <1>1, <3>1, AtRoot DEF CompositionInv
      <4>2. NoName \in Instances /\ IsInjective(KeysOn(NoName))
        BY InstanceIs, RootInjective
      <4>3. Clear(NoName)
        BY <4>1, <4>2, ClearAt
      <4> QED BY <4>3, ClearRoot
    <3>2. CASE stack # <<>>
      <4>1. Walks(stack) /\ Len(stack) = 1 /\ Top.todo = {}
        BY <1>1, <1>3, <3>2 DEF CompositionInv, LoadAndValidate
      <4> QED BY <4>1, AllWalked, ClearRoot
    <3> QED BY <3>1, <3>2
  <2> QED BY <1>2, <2>1, <2>2 DEF CompositionInv, CircularExactly
<1>4. CASE stack # <<>> /\ ReturnChild
  <2>1. Walks(stack') /\ UNCHANGED <<root, composed>>
    BY <1>1, <1>4, WalksReturn DEF CompositionInv, ReturnChild
  <2> QED BY <1>1, <2>1, WalksKnown DEF CompositionInv, CircularExactly, Walks, Linked
<1>5. ASSUME stack # <<>>, NEW name \in Top.todo, CopyComponent(name) \/ Resolve(name)
      PROVE  CompositionInv'
  <2>1. Walks(stack') /\ UNCHANGED <<root, composed>>
    BY <1>1, <1>5, WalksCopy, WalksResolve DEF CompositionInv, CopyComponent, Resolve
  <2> QED BY <1>1, <2>1, WalksKnown DEF CompositionInv, CircularExactly, Walks, Linked
<1>6. ASSUME stack # <<>>, NEW name \in Top.todo, CircularDependency(name)
      PROVE  CompositionInv'
  <2>1. Circular /\ composed' = "circular"
    BY <1>1, <1>6, MetAgain DEF CompositionInv, CircularDependency
  <2> QED BY <1>2, <2>1 DEF CompositionInv, CircularExactly
<1>7. ASSUME stack # <<>>, NEW name \in Top.todo, ResolveFails(name)
      PROVE  CompositionInv'
  BY <1>7 DEF CompositionInv, CircularExactly, ResolveFails
<1> QED BY <1>3, <1>4, <1>5, <1>6, <1>7 DEF CompositionNext

\* A composition is refused as circular exactly if some chain of imports
\* comes back to a package on it, for every library whose components are
\* not named with a dot (the code does not refuse such a name).
THEOREM CircularExactlyHolds ==
  ASSUME Undotted
  PROVE  Spec => []CircularExactly
<1>1. Init => CompositionInv
  BY CompositionStart DEF Init, ExecutionInit
<1>2. ModelsInv /\ CompositionInv /\ [Next]_vars => CompositionInv'
  <2> SUFFICES ASSUME ModelsInv, CompositionInv, [Next]_vars  PROVE CompositionInv'
    OBVIOUS
  <2>1. CASE Load
    BY <2>1, CompositionStep DEF Load, ModelsInv
  <2>2. CASE UNCHANGED composition
    <3>1. UNCHANGED <<root, stack, composed>>
      BY <2>2 DEF composition
    <3>2. Circular' = Circular
      BY <3>1, PathsKnown DEF Circular
    <3>3. Walks(stack) => Walks(stack')
      BY <3>1
    <3> QED BY <3>1, <3>2, <3>3, WalksKnown DEF CompositionInv, CircularExactly
  <2> QED BY <2>1, <2>2, OnlyLoadComposes
<1>3. CompositionInv => CircularExactly
  BY DEF CompositionInv
<1> QED BY <1>1, <1>2, <1>3, ModelsHold, PTL DEF Spec

------------------------------------------------------------------------------
(* The components and their models. *)

\* No slot of models is dotted, nor named so by a component.
PlainSlots ==
  \A p \in Roots \cup Range(Library) :
    /\ \A slot \in DOMAIN ParseFile(p).models : Len(slot) = 1
    /\ \A name \in DOMAIN ParseFile(p).components : Len(ParseFile(p).components[name].model) <= 1

Fields == {"type", "model", "source", "version", "tools", "skills"}

LEMMA ComponentIs ==
  ASSUME NEW path, PackageAt(path) \in Parsed,
         NEW name \in DOMAIN Architecture(path).components
  PROVE  /\ DOMAIN Architecture(path).components[name] = Fields
         /\ Architecture(path).components[name].model \in Names
<1> DEFINE p == PackageAt(path)
<1>1. p \in Roots \cup Range(Library) /\ name \in DOMAIN ParseFile(p).components
      /\ Architecture(path) = ParseFile(p)
  BY DEF Parsed, Architecture
<1> HIDE DEF p
<1>2. AreComponents(ParseFile(p).components)
  BY <1>1, ParsedAssumption
<1> QED BY <1>1, <1>2 DEF AreComponents, Fields

LEMMA PlainAt ==
  ASSUME PlainSlots, NEW path, PackageAt(path) \in Parsed
  PROVE  /\ \A slot \in DOMAIN Architecture(path).models : Len(slot) = 1 /\ slot \in Names
         /\ \A name \in DOMAIN Architecture(path).components :
              Len(Architecture(path).components[name].model) <= 1
<1> DEFINE p == PackageAt(path)
<1>1. p \in Roots \cup Range(Library) /\ Architecture(path) = ParseFile(p)
  BY DEF Parsed, Architecture
<1> HIDE DEF p
<1>2. AreModels(ParseFile(p).models)
  BY <1>1, ParsedAssumption
<1> QED BY <1>1, <1>2 DEF AreModels, PlainSlots

\* A name of one segment.
LEMMA OneSegment ==
  ASSUME NEW name \in Names, Len(name) = 1
  PROVE  /\ name = <<name[1]>> /\ name[1] \in STRING /\ name # <<>>
         /\ Front(name) = <<>> /\ Last(name) = name[1]
<1>1. name[1] \in STRING
  <2>1. name \in Seq(STRING) /\ 1 \in 1..Len(name)
    BY DEF Names
  <2> QED BY <2>1, ElementOfSeq
<1>2. <<name[1]>> \in Names /\ Len(<<name[1]>>) = 1 /\ <<name[1]>>[1] = name[1]
  BY <1>1, One
<1>3. \A i \in 1..Len(name) : name[i] = <<name[1]>>[i]
  BY <1>2
<1>4. name = <<name[1]>>
  BY <1>2, <1>3, SameName
<1>5. <<>> \in Names /\ <<>> \o <<name[1]>> = <<name[1]>>
  BY <1>2, CatLaws
<1>6. /\ Front(<<>> \o <<name[1]>>) = <<>> /\ Last(<<>> \o <<name[1]>>) = name[1]
      /\ <<>> \o <<name[1]>> # <<>>
  BY <1>1, <1>5, FrontLast
<1> QED BY <1>1, <1>4, <1>5, <1>6

LEMMA LeafIs ==
  ASSUME Undotted, root \in Roots
  PROVE  \A leaf : leaf \in Leaves <=>
           /\ leaf \in Names /\ leaf # <<>> /\ Front(leaf) \in Instances
           /\ <<Last(leaf)>> \in DOMAIN Architecture(Front(leaf)).components
                                   \ Imports(Architecture(Front(leaf)))
<1>1. ASSUME NEW path \in Instances,
             NEW name \in DOMAIN Architecture(path).components \ Imports(Architecture(path))
      PROVE  /\ path \o name \in Names /\ path \o name # <<>>
             /\ Front(path \o name) = path /\ <<Last(path \o name)>> = name
  <2>1. path \in Names /\ PackageAt(path) \in Parsed
    BY InstanceIs DEF IsInstance
  <2>2. name \in Names /\ name = <<name[1]>> /\ name[1] \in STRING
    BY <2>1, Segment
  <2> DEFINE s == name[1]
  <2> HIDE DEF s
  <2>3. /\ path \o <<s>> \in Names /\ Front(path \o <<s>>) = path
        /\ Last(path \o <<s>>) = s /\ path \o <<s>> # <<>>
    BY <2>1, <2>2, Longer, FrontLast DEF s
  <2> QED BY <2>2, <2>3 DEF s
<1>2. ASSUME NEW leaf \in Leaves
      PROVE  /\ leaf \in Names /\ leaf # <<>> /\ Front(leaf) \in Instances
             /\ <<Last(leaf)>> \in DOMAIN Architecture(Front(leaf)).components
                                     \ Imports(Architecture(Front(leaf)))
  <2>1. PICK path \in Instances :
          \E name \in DOMAIN Architecture(path).components \ Imports(Architecture(path)) :
            leaf = path \o name
    BY DEF Leaves
  <2>2. PICK name \in DOMAIN Architecture(path).components \ Imports(Architecture(path)) :
          leaf = path \o name
    BY <2>1
  <2>3. /\ leaf \in Names /\ leaf # <<>> /\ Front(leaf) = path /\ <<Last(leaf)>> = name
    BY <1>1, <2>1, <2>2
  <2> QED BY <2>1, <2>2, <2>3
<1>3. ASSUME NEW leaf \in Names, leaf # <<>>, Front(leaf) \in Instances,
             <<Last(leaf)>> \in DOMAIN Architecture(Front(leaf)).components
                                  \ Imports(Architecture(Front(leaf)))
      PROVE  leaf \in Leaves
  <2>1. leaf = Front(leaf) \o <<Last(leaf)>>
    BY <1>3, Shorter
  <2> DEFINE f == Front(leaf)
             l == <<Last(leaf)>>
  <2>2. /\ leaf = f \o l /\ f \in Instances
        /\ l \in DOMAIN Architecture(f).components \ Imports(Architecture(f))
    BY <1>3, <2>1
  <2> HIDE DEF f, l
  <2>3. f \o l \in {f \o name : name \in DOMAIN Architecture(f).components
                                          \ Imports(Architecture(f))}
    BY <2>2
  <2> QED BY <2>2, <2>3 DEF Leaves
<1> QED BY <1>2, <1>3

\* A component under an instance is its own or that of one it imports.
LEMMA FirstStep ==
  ASSUME Undotted, root \in Roots, NEW p \in Instances, NEW r \in Names, r # <<>>,
         p \o r \in Leaves
  PROVE  LET name == <<r[1]>> IN
         /\ name \in Names /\ name \in DOMAIN Architecture(p).components
         /\ \/ r = name /\ name \notin Imports(Architecture(p))
            \/ /\ name \in Sons(Architecture(p)) /\ p \o name \in Instances
               /\ \E t \in Names : t # <<>> /\ r = name \o t
<1> DEFINE a == Architecture(p)
           name == <<r[1]>>
<1>0. p \in Names /\ PackageAt(p) \in Parsed
  BY InstanceIs DEF IsInstance
<1>1. /\ Front(p \o r) = p \o Front(r) /\ Last(p \o r) = Last(r)
  BY <1>0, FrontOfCat
<1>2. /\ r = Front(r) \o <<Last(r)>> /\ Front(r) \in Names /\ Last(r) \in STRING
      /\ Len(r) = Len(Front(r)) + 1 /\ Len(Front(r)) \in Nat
  BY Shorter
<1>3. /\ p \o Front(r) \in Instances
      /\ <<Last(r)>> \in DOMAIN Architecture(p \o Front(r)).components
                           \ Imports(Architecture(p \o Front(r)))
  <2>1. /\ Front(p \o r) \in Instances
        /\ <<Last(p \o r)>> \in DOMAIN Architecture(Front(p \o r)).components
                                  \ Imports(Architecture(Front(p \o r)))
    BY LeafIs
  <2> QED BY <1>1, <2>1
<1>4. CASE Front(r) = <<>>
  <2>1. p \o Front(r) = p
    BY <1>0, <1>4, CatLaws
  <2>2. Len(r) = 1
    BY <1>2, <1>4
  <2>3. r = <<r[1]>> /\ Last(r) = r[1]
    BY <2>2, OneSegment
  <2> QED BY <1>3, <2>1, <2>3
<1>5. CASE Front(r) # <<>>
  <2> DEFINE f == Front(r)
             l == <<Last(r)>>
             q == p \o f
  <2>1. f \in Names /\ l \in Names /\ r = f \o l /\ f # <<>> /\ q \in Instances
    BY <1>2, <1>3, <1>5, One
  <2> HIDE DEF f, l
  <2>2. Under(p, q) /\ q # p
    <3>1. Under(p, q)
      BY <2>1 DEF Under
    <3>2. q # p
      <4>1. Len(q) = Len(p) + Len(f) /\ Len(p) \in Nat /\ Len(f) \in Nat
        BY <1>0, <2>1, Cat
      <4>2. Len(f) # 0
        BY <2>1 DEF Names
      <4> QED BY <4>1, <4>2
    <3> QED BY <3>1, <3>2
  <2>3. PICK son \in Sons(a) : p \o son \in Instances /\ Under(p \o son, q)
    BY <1>0, <2>1, <2>2, WayDown
  <2>4. son \in DOMAIN a.components /\ son \in Names /\ son = <<son[1]>> /\ Len(son) = 1
    <3>1. son \in DOMAIN a.components /\ son \in Names /\ son = <<son[1]>> /\ son[1] \in STRING
      BY <1>0, SonIs
    <3> QED BY <3>1, One
  <2>5. PICK t \in Names : q = (p \o son) \o t
    BY <2>3 DEF Under
  <2>6. f = son \o t
    <3>1. (p \o son) \o t = p \o (son \o t)
      BY <1>0, <2>4, CatAssoc
    <3>2. son \o t \in Names
      BY <2>4, Cat
    <3>3. p \o f = p \o (son \o t)
      BY <2>5, <3>1
    <3> QED BY <1>0, <2>1, <3>2, <3>3, CatCancel
  <2>7. r = son \o (t \o l) /\ t \o l \in Names
    <3>1. (son \o t) \o l = son \o (t \o l)
      BY <2>1, <2>4, CatAssoc
    <3>2. t \o l \in Names
      BY <2>1, Cat
    <3> QED BY <2>1, <2>6, <3>1, <3>2
  <2>8. t \o l # <<>>
    <3>1. Len(t \o l) = Len(t) + Len(l) /\ Len(t) \in Nat
      BY <2>1, Cat
    <3>2. Len(l) = 1
      BY <1>2, One DEF l
    <3>3. Len(t \o l) # 0
      BY <3>1, <3>2
    <3> QED BY <3>3
  <2>9. r[1] = son[1]
    <3> DEFINE tl == t \o l
    <3>1. tl \in Names /\ r = son \o tl
      BY <2>7
    <3> HIDE DEF tl
    <3>2. \A i \in 1..Len(son) : (son \o tl)[i] = son[i]
      BY <2>4, <3>1, Cat
    <3>3. 1 \in 1..Len(son)
      BY <2>4
    <3> QED BY <3>1, <3>2, <3>3
  <2>10. son = name
    BY <2>4, <2>9
  <2> QED BY <2>3, <2>4, <2>7, <2>8, <2>10
<1> QED BY <1>4, <1>5

\* What a component reads in a flat architecture.
Reads(path, r) == Architecture(path \o Front(r)).components[<<Last(r)>>]

ReadsModel(path, r) ==
  IF Reads(path, r).model = NoName THEN NoName ELSE Front(r) \o Reads(path, r).model

\* The components gathered for an instance are those below it whose first
\* name is done with, each with its type and its model, and a model is that
\* of the package it is from.
AreGathered(components, path, over) ==
  /\ \A r : r \in DOMAIN components <=>
       r \in Names /\ r # <<>> /\ <<r[1]>> \in over /\ path \o r \in Leaves
  /\ \A r \in DOMAIN components :
       /\ DOMAIN components[r] = Fields
       /\ components[r].type = Reads(path, r).type
       /\ components[r].model = ReadsModel(path, r)

AreOwn(models, path) ==
  \A m \in DOMAIN models :
    /\ m \in Names /\ m # <<>>
    /\ models[m] = Architecture(path \o Front(m)).models[<<Last(m)>>]

LEMMA NoneGathered ==
  ASSUME NEW path
  PROVE  AreGathered(<<>>, path, {})
<1>1. DOMAIN <<>> = {}
  OBVIOUS
<1> QED BY <1>1 DEF AreGathered

LEMMA OwnModels ==
  ASSUME Undotted, PlainSlots, root \in Roots, NEW path \in Instances
  PROVE  AreOwn(Architecture(path).models, path)
<1>1. SUFFICES ASSUME NEW m \in DOMAIN Architecture(path).models
               PROVE  /\ m \in Names /\ m # <<>>
                      /\ Architecture(path).models[m]
                           = Architecture(path \o Front(m)).models[<<Last(m)>>]
  BY DEF AreOwn
<1>2. path \in Names /\ PackageAt(path) \in Parsed
  BY InstanceIs DEF IsInstance
<1>3. m \in Names /\ Len(m) = 1
  BY <1>2, PlainAt
<1>4. m # <<>> /\ Front(m) = <<>> /\ <<Last(m)>> = m
  BY <1>3, OneSegment
<1>5. path \o Front(m) = path
  BY <1>2, <1>4, CatLaws
<1> QED BY <1>3, <1>4, <1>5

LEMMA OneGathered ==
  ASSUME Undotted, root \in Roots, NEW path \in Instances, NEW components, NEW over,
         AreGathered(components, path, over),
         NEW name \in DOMAIN Architecture(path).components \ Imports(Architecture(path))
  PROVE  AreGathered(Assigned(components, [n \in {name} |-> Architecture(path).components[name]]),
                     path, over \cup {name})
<1> DEFINE all == Assigned(components, [n \in {name} |-> Architecture(path).components[name]])
           c == Architecture(path).components[name]
<1>1. path \in Names /\ PackageAt(path) \in Parsed
  BY InstanceIs DEF IsInstance
<1>2. name \in Names /\ name = <<name[1]>> /\ name[1] \in STRING /\ Len(name) = 1
  <2>1. name \in Names /\ name = <<name[1]>> /\ name[1] \in STRING
    BY <1>1, Segment
  <2> QED BY <2>1, One
<1>3. name # <<>> /\ Front(name) = <<>> /\ <<Last(name)>> = name
  BY <1>2, OneSegment
<1>4. path \o Front(name) = path
  BY <1>1, <1>3, CatLaws
<1>5. path \o name \in Leaves
  BY DEF Leaves
<1>6. DOMAIN c = Fields /\ c.model \in Names
  BY <1>1, ComponentIs
<1>7. Reads(path, name) = c
  BY <1>3, <1>4 DEF Reads
<1>8. ReadsModel(path, name) = c.model
  <2>1. <<>> \o c.model = c.model
    BY <1>6, CatLaws
  <2> QED BY <1>3, <1>7, <2>1 DEF ReadsModel
<1>9. DOMAIN all = DOMAIN components \cup {name}
  BY DEF Assigned
<1>10. all[name] = c /\ \A r \in DOMAIN components : r # name => all[r] = components[r]
  BY DEF Assigned
<1> HIDE DEF all, c
<1>11. ASSUME NEW r
       PROVE  r \in DOMAIN all <=>
                r \in Names /\ r # <<>> /\ <<r[1]>> \in over \cup {name} /\ path \o r \in Leaves
  <2>1. r \in DOMAIN all => /\ r \in Names /\ r # <<>> /\ <<r[1]>> \in over \cup {name}
                            /\ path \o r \in Leaves
    BY <1>2, <1>3, <1>5, <1>9 DEF AreGathered
  <2>2. ASSUME r \in Names, r # <<>>, <<r[1]>> \in over \cup {name}, path \o r \in Leaves
        PROVE  r \in DOMAIN all
    <3>1. CASE <<r[1]>> \in over
      BY <1>9, <2>2, <3>1 DEF AreGathered
    <3>2. CASE <<r[1]>> = name
      <4>1. name \notin Sons(Architecture(path))
        BY DEF Sons
      <4>2. r = name
        BY <2>2, <3>2, <4>1, FirstStep
      <4> QED BY <1>9, <4>2
    <3> QED BY <2>2, <3>1, <3>2
  <2> QED BY <2>1, <2>2
<1>12. ASSUME NEW r \in DOMAIN all
       PROVE  /\ DOMAIN all[r] = Fields /\ all[r].type = Reads(path, r).type
              /\ all[r].model = ReadsModel(path, r)
  <2>1. CASE r = name
    BY <1>6, <1>7, <1>8, <1>10, <2>1
  <2>2. CASE r # name
    BY <1>9, <1>10, <2>2 DEF AreGathered
  <2> QED BY <2>1, <2>2
<1> QED BY <1>11, <1>12 DEF AreGathered, all, c

LEMMA PrefixedIs ==
  ASSUME NEW prefix \in Names, NEW f, DOMAIN f \subseteq Names
  PROVE  /\ DOMAIN Prefixed(prefix, f) = {prefix \o n : n \in DOMAIN f}
         /\ \A n \in DOMAIN f : Prefixed(prefix, f)[prefix \o n] = f[n]
<1>1. ASSUME NEW n \in DOMAIN f
      PROVE  SubSeq(prefix \o n, Len(prefix) + 1, Len(prefix \o n)) = n
  <2>1. n \in Seq(STRING) /\ prefix \in Seq(STRING)
    BY DEF Names
  <2> QED BY <2>1
<1> QED BY <1>1 DEF Prefixed

\* The models of an instance that is merged.
LEMMA MergedModels ==
  ASSUME NEW path \in Names, NEW prefix \in Names,
         NEW own, AreOwn(own, path), NEW models, AreOwn(models, path \o prefix)
  PROVE  AreOwn(Assigned(own, Prefixed(prefix, models)), path)
<1> DEFINE put == Prefixed(prefix, models)
           all == Assigned(own, put)
<1>1. DOMAIN models \subseteq Names
  BY DEF AreOwn
<1>2. /\ DOMAIN put = {prefix \o n : n \in DOMAIN models}
      /\ \A n \in DOMAIN models : put[prefix \o n] = models[n]
  BY <1>1, PrefixedIs
<1>3. /\ DOMAIN all = DOMAIN own \cup DOMAIN put
      /\ \A m \in DOMAIN all : all[m] = IF m \in DOMAIN put THEN put[m] ELSE own[m]
  BY DEF Assigned
<1> HIDE DEF put, all
<1>4. ASSUME NEW m \in DOMAIN all
      PROVE  /\ m \in Names /\ m # <<>>
             /\ all[m] = Architecture(path \o Front(m)).models[<<Last(m)>>]
  <2>1. CASE m \notin DOMAIN put
    BY <1>3, <2>1 DEF AreOwn
  <2>2. CASE m \in DOMAIN put
    <3>1. PICK n \in DOMAIN models : m = prefix \o n
      BY <1>2, <2>2
    <3>2. /\ n \in Names /\ n # <<>>
          /\ models[n] = Architecture((path \o prefix) \o Front(n)).models[<<Last(n)>>]
      BY DEF AreOwn
    <3>3. Front(m) = prefix \o Front(n) /\ Last(m) = Last(n) /\ m # <<>>
      BY <3>1, <3>2, FrontOfCat
    <3>4. m \in Names
      BY <3>1, <3>2, Cat
    <3>5. path \o Front(m) = (path \o prefix) \o Front(n)
      <4>1. Front(n) \in Names
        BY <3>2, Shorter
      <4>2. path \o (prefix \o Front(n)) = (path \o prefix) \o Front(n)
        BY <4>1, CatAssoc
      <4> QED BY <3>3, <4>2
    <3>6. all[m] = models[n]
      BY <1>2, <1>3, <2>2, <3>1
    <3> QED BY <3>2, <3>3, <3>4, <3>5, <3>6
  <2> QED BY <2>1, <2>2
<1> QED BY <1>4 DEF AreOwn, all, put

\* What a component reads, seen from two instances on its path.
LEMMA ReadsBelow ==
  ASSUME Undotted, root \in Roots, NEW path \in Names, NEW prefix \in Names,
         NEW n \in Names, n # <<>>, path \o (prefix \o n) \in Leaves
  PROVE  /\ Reads(path, prefix \o n) = Reads(path \o prefix, n)
         /\ LET m == ReadsModel(path \o prefix, n) IN
              ReadsModel(path, prefix \o n) = IF m = NoName THEN NoName ELSE prefix \o m
<1> DEFINE r == prefix \o n
           q == path \o prefix
           c == Reads(q, n)
<1>1. r \in Names /\ Front(r) = prefix \o Front(n) /\ Last(r) = Last(n)
  BY FrontOfCat, Cat
<1>2. Front(n) \in Names
  BY Shorter
<1>3. path \o Front(r) = q \o Front(n)
  <2>1. path \o (prefix \o Front(n)) = q \o Front(n)
    BY <1>2, CatAssoc
  <2> QED BY <1>1, <2>1
<1>4. Reads(path, r) = c
  BY <1>1, <1>3 DEF Reads
<1>5. c.model \in Names
  <2>1. q \in Names /\ q \o n \in Leaves
    <3>1. path \o (prefix \o n) = q \o n
      BY CatAssoc
    <3> QED BY <3>1, Cat
  <2> DEFINE p == q \o Front(n)
  <2>2. Front(q \o n) = p /\ Last(q \o n) = Last(n)
    BY <2>1, FrontOfCat
  <2>3. p \in Instances /\ <<Last(n)>> \in DOMAIN Architecture(p).components
    BY <2>1, <2>2, LeafIs
  <2>4. PackageAt(p) \in Parsed
    BY <2>3, InstanceIs DEF IsInstance
  <2>5. c = Architecture(p).components[<<Last(n)>>]
    BY DEF Reads
  <2> HIDE DEF p, c
  <2> QED BY <2>3, <2>4, <2>5, ComponentIs
<1>6. Reads(path, prefix \o n) = c
  BY <1>4
<1> HIDE DEF c
<1>7. CASE c.model = NoName
  BY <1>6, <1>7 DEF ReadsModel, c, r, q
<1>8. CASE c.model # NoName
  <2> DEFINE m == Front(n) \o c.model
  <2>1. ReadsModel(q, n) = m
    BY <1>8 DEF ReadsModel, c
  <2>2. m # NoName
    <3>1. Len(m) = Len(Front(n)) + Len(c.model) /\ Len(Front(n)) \in Nat /\ Len(c.model) \in Nat
      BY <1>2, <1>5, Cat
    <3>2. Len(c.model) # 0
      BY <1>5, <1>8 DEF NoName, Names
    <3>3. Len(m) # 0
      BY <3>1, <3>2
    <3> QED BY <3>3 DEF NoName
  <2>3. ReadsModel(path, r) = Front(r) \o c.model
    BY <1>4, <1>8 DEF ReadsModel
  <2>4. (prefix \o Front(n)) \o c.model = prefix \o m
    BY <1>2, <1>5, CatAssoc, ZenonT(40)
  <2>5. ReadsModel(path, prefix \o n) = prefix \o m
    BY <1>1, <2>3, <2>4
  <2>6. ReadsModel(path \o prefix, n) = m
    BY <2>1
  <2> HIDE DEF m
  <2>7. ReadsModel(path, prefix \o n)
          = IF ReadsModel(path \o prefix, n) = NoName THEN NoName
            ELSE prefix \o ReadsModel(path \o prefix, n)
    BY <2>2, <2>5, <2>6
  <2>8. Reads(path, prefix \o n) = Reads(path \o prefix, n)
    BY <1>6 DEF c
  <2> QED BY <2>7, <2>8
<1> QED BY <1>7, <1>8

\* The components of an instance that is merged.
LEMMA MergedGathered ==
  ASSUME Undotted, root \in Roots, NEW path \in Instances, NEW prefix \in Sons(Architecture(path)),
         path \o prefix \in Instances,
         NEW components, NEW over, AreGathered(components, path, over),
         NEW below,
         AreGathered(below, path \o prefix, DOMAIN Architecture(path \o prefix).components)
  PROVE  AreGathered(Assigned(components, Prefixed(prefix, PrefixModels(prefix, below))),
                     path, over \cup {prefix})
<1> DEFINE q == path \o prefix
           named == PrefixModels(prefix, below)
           put == Prefixed(prefix, named)
           all == Assigned(components, put)
<1>1. /\ path \in Names /\ q \in Names
      /\ prefix \in Names /\ prefix = <<prefix[1]>> /\ Len(prefix) = 1
      /\ prefix \in Imports(Architecture(path))
  <2>1. path \in Names /\ PackageAt(path) \in Parsed
    BY InstanceIs DEF IsInstance
  <2>2. prefix \in Names /\ prefix[1] \in STRING /\ prefix = <<prefix[1]>> /\ q \in Names
    BY <2>1, SonIs
  <2> QED BY <2>1, <2>2, One DEF Sons
<1>2. DOMAIN below \subseteq Names
  BY DEF AreGathered
<1>3. /\ DOMAIN named = DOMAIN below
      /\ \A n \in DOMAIN below :
           named[n] = [below[n] EXCEPT !.model = IF @ = NoName THEN @ ELSE prefix \o @]
  BY DEF PrefixModels
<1> HIDE DEF named
<1>4. /\ DOMAIN put = {prefix \o n : n \in DOMAIN below}
      /\ \A n \in DOMAIN below : put[prefix \o n] = named[n]
  <2>1. DOMAIN named = DOMAIN below /\ DOMAIN named \subseteq Names
    BY <1>2, <1>3
  <2>2. /\ DOMAIN put = {prefix \o n : n \in DOMAIN named}
        /\ \A n \in DOMAIN named : put[prefix \o n] = named[n]
    BY <1>1, <2>1, PrefixedIs
  <2> QED BY <2>1, <2>2
<1>5. /\ DOMAIN all = DOMAIN components \cup DOMAIN put
      /\ \A r \in DOMAIN all : all[r] = IF r \in DOMAIN put THEN put[r] ELSE components[r]
  BY DEF Assigned
<1> HIDE DEF put, all
<1>6. ASSUME NEW n \in DOMAIN below
      PROVE  /\ n \in Names /\ n # <<>> /\ path \o (prefix \o n) \in Leaves
             /\ prefix \o n \in Names /\ prefix \o n # <<>> /\ <<(prefix \o n)[1]>> = prefix
  <2> DEFINE r == prefix \o n
  <2>1. n \in Names /\ n # <<>> /\ q \o n \in Leaves
    BY DEF AreGathered
  <2>2. path \o r = q \o n
    BY <1>1, <2>1, CatAssoc
  <2>3. r \in Names /\ Len(r) = 1 + Len(n) /\ Len(n) \in Nat /\ \A i \in 1..1 : r[i] = prefix[i]
    BY <1>1, <2>1, Cat
  <2>4. r # <<>> /\ r[1] = prefix[1]
    <3> HIDE DEF r
    <3>1. Len(r) # 0 /\ 1 \in 1..1
      BY <2>3
    <3> QED BY <2>3, <3>1
  <2>5. <<r[1]>> = prefix
    BY <1>1, <2>4
  <2>6. path \o r \in Leaves
    BY <2>1, <2>2
  <2>7. r \in Names
    BY <2>3
  <2> QED BY <2>1, <2>4, <2>5, <2>6, <2>7
<1>7. ASSUME NEW r
      PROVE  r \in DOMAIN all <=>
               r \in Names /\ r # <<>> /\ <<r[1]>> \in over \cup {prefix} /\ path \o r \in Leaves
  <2>1. ASSUME r \in DOMAIN put
        PROVE  r \in Names /\ r # <<>> /\ <<r[1]>> \in over \cup {prefix} /\ path \o r \in Leaves
    <3>1. PICK n \in DOMAIN below : r = prefix \o n
      BY <1>4, <2>1
    <3> QED BY <1>6, <3>1
  <2>2. ASSUME r \in DOMAIN components
        PROVE  r \in Names /\ r # <<>> /\ <<r[1]>> \in over \cup {prefix} /\ path \o r \in Leaves
    BY <2>2 DEF AreGathered
  <2>3. ASSUME r \in Names, r # <<>>, <<r[1]>> \in over \cup {prefix}, path \o r \in Leaves
        PROVE  r \in DOMAIN all
    <3>1. CASE <<r[1]>> \in over
      BY <1>5, <2>3, <3>1 DEF AreGathered
    <3>2. CASE <<r[1]>> = prefix
      <4>1. PICK t \in Names : t # <<>> /\ r = prefix \o t
        BY <1>1, <2>3, <3>2, FirstStep
      <4>2. q \o t \in Leaves
        <5>1. path \o (prefix \o t) = q \o t
          BY <1>1, CatAssoc
        <5> QED BY <2>3, <4>1, <5>1
      <4> DEFINE name == <<t[1]>>
      <4>3. name \in DOMAIN Architecture(q).components
        BY <4>1, <4>2, FirstStep
      <4>4. t \in DOMAIN below
        BY <4>1, <4>2, <4>3 DEF AreGathered
      <4>5. r \in DOMAIN put
        BY <1>4, <4>1, <4>4
      <4> QED BY <1>5, <4>5
    <3> QED BY <2>3, <3>1, <3>2
  <2> QED BY <1>5, <2>1, <2>2, <2>3
<1>8. ASSUME NEW r \in DOMAIN all
      PROVE  /\ DOMAIN all[r] = Fields /\ all[r].type = Reads(path, r).type
             /\ all[r].model = ReadsModel(path, r)
  <2>1. CASE r \notin DOMAIN put
    BY <1>5, <2>1 DEF AreGathered
  <2>2. CASE r \in DOMAIN put
    <3>1. PICK n \in DOMAIN below : r = prefix \o n
      BY <1>4, <2>2
    <3>2. n \in Names /\ n # <<>> /\ path \o (prefix \o n) \in Leaves
      BY <1>6
    <3>3. /\ DOMAIN below[n] = Fields /\ below[n].type = Reads(q, n).type
          /\ below[n].model = ReadsModel(q, n)
      BY DEF AreGathered
    <3> DEFINE b == below[n]
               a == all[r]
    <3>4. a = [b EXCEPT !.model = IF @ = NoName THEN @ ELSE prefix \o @]
      BY <1>3, <1>4, <1>5, <2>2, <3>1
    <3>5. /\ DOMAIN b = Fields /\ b.type = Reads(q, n).type /\ b.model = ReadsModel(q, n)
      BY <3>3
    <3> HIDE DEF a, b
    <3>6. /\ DOMAIN a = Fields /\ a.type = b.type
          /\ a.model = IF b.model = NoName THEN NoName ELSE prefix \o b.model
      BY <3>4, <3>5 DEF Fields
    <3>7. /\ Reads(path, prefix \o n) = Reads(q, n)
          /\ ReadsModel(path, prefix \o n)
               = IF ReadsModel(q, n) = NoName THEN NoName ELSE prefix \o ReadsModel(q, n)
      BY <1>1, <3>2, ReadsBelow
    <3>8. DOMAIN a = Fields /\ a.type = Reads(path, r).type /\ a.model = ReadsModel(path, r)
      BY <3>1, <3>5, <3>6, <3>7
    <3> QED BY <3>8 DEF a
  <2> QED BY <2>1, <2>2
<1>9. AreGathered(all, path, over \cup {prefix})
  BY <1>7, <1>8 DEF AreGathered
<1> QED BY <1>9 DEF all, put, named

\* What a call has gathered for its instance.
Gathered(frame, path, over) ==
  /\ AreGathered(frame.out.components, path, over)
  /\ PlainSlots => AreOwn(frame.out.models, path)

Gathers(frames) ==
  \A i \in 1..Len(frames) : Gathered(frames[i], PathTo(frames, i), Over(frames, i))

LEMMA StillGathered ==
  ASSUME StackInv(stack), Gathers(stack), NEW t, NEW n \in 0..Len(stack), Kept(stack, t, n)
  PROVE  \A i \in 1..n : Gathered(t[i], PathTo(t, i), Over(t, i))
<1>1. Len(stack) \in Nat
  <2>1. stack \in Seq(Range(stack))
    BY DEF StackInv
  <2> QED BY <2>1
<1>2. \A i \in 1..n : i \in 1..Len(stack)
  BY <1>1
<1> QED BY <1>2 DEF Gathers, Kept

LEMMA GathersCopy ==
  ASSUME Undotted, root \in Roots, Walks(stack), Gathers(stack),
         NEW name \in Top.todo, CopyComponent(name)
  PROVE  Gathers(stack')
<1> DEFINE n == Len(stack)
           f == stack[n]
           g == stack'[n]
           P == PathTo(stack, n)
           o == Over(stack, n)
<1>1. /\ n \in Nat \ {0} /\ Len(stack') = n /\ g = Copied(f, name)
      /\ Kept(stack, stack', n - 1) /\ FrameInv(f)
      /\ PathTo(stack', n) = P /\ Over(stack', n) = o \cup {name}
      /\ name \in f.todo \ Imports(f.arch)
  BY CopyStep
<1>2. n \in 1..Len(stack)
  BY <1>1
<1>3. Walked(f, P, o) /\ Gathered(f, P, o)
  BY <1>2 DEF Walks, Gathers
<1>4. \A i \in 1..n - 1 : Gathered(stack'[i], PathTo(stack', i), Over(stack', i))
  <2>1. n - 1 \in 0..Len(stack) /\ StackInv(stack)
    BY <1>1 DEF Walks
  <2> QED BY <1>1, <2>1, StillGathered
<1> HIDE DEF n, f, g, P, o
<1>5. /\ g.out.models = f.out.models
      /\ g.out.components = Assigned(f.out.components, [x \in {name} |-> f.arch.components[name]])
  <2>1. FrameInv(f) /\ g = Copied(f, name)
    BY <1>1
  <2>2. /\ Copied(f, name).out.models = f.out.models
        /\ Copied(f, name).out.components
             = Assigned(f.out.components, [x \in {name} |-> f.arch.components[name]])
    BY <2>1, CopiedIs
  <2> QED BY <2>1, <2>2
<1>6. P \in Instances /\ f.arch = Architecture(P)
  BY <1>3 DEF Walked
<1>7. name \in DOMAIN Architecture(P).components \ Imports(Architecture(P))
  BY <1>1, <1>6 DEF FrameInv
<1>8. Gathered(g, P, o \cup {name})
  <2> DEFINE components == f.out.components
  <2>1. AreGathered(components, P, o)
    BY <1>3 DEF Gathered
  <2>2. g.out.components = Assigned(components, [x \in {name} |-> Architecture(P).components[name]])
    BY <1>5, <1>6
  <2> HIDE DEF components
  <2>3. AreGathered(g.out.components, P, o \cup {name})
    BY <1>6, <1>7, <2>1, <2>2, OneGathered
  <2> QED BY <1>3, <1>5, <2>3 DEF Gathered
<1>9. ASSUME NEW i \in 1..n  PROVE Gathered(stack'[i], PathTo(stack', i), Over(stack', i))
  <2>1. i = n \/ i \in 1..n - 1
    BY <1>1
  <2> QED BY <1>1, <1>4, <1>8, <2>1 DEF g
<1> QED BY <1>1, <1>9 DEF Gathers

LEMMA GathersResolve ==
  ASSUME Undotted, root \in Roots, Walks(stack), Gathers(stack),
         NEW name \in Top.todo, Resolve(name)
  PROVE  Gathers(stack')
<1> DEFINE n == Len(stack)
           f == stack[n]
           key == Key(f.arch.components[name])
           P == PathTo(stack, n)
           o == Over(stack, n)
           v == stack'[n]
           g == stack'[n + 1]
<1>1. /\ n \in Nat \ {0} /\ Len(stack') = n + 1
      /\ v = Visited(f, name)
      /\ g = Frame(name, Library[key].entry, f.seen \cup {key})
      /\ Kept(stack, stack', n - 1) /\ FrameInv(f)
      /\ PathTo(stack', n) = P /\ PathTo(stack', n + 1) = P \o name
      /\ Over(stack', n) = o /\ Over(stack', n + 1) = {}
      /\ name \in Sons(f.arch)
  BY ResolveStep
<1>2. n \in 1..Len(stack)
  BY <1>1
<1>3. Walked(f, P, o) /\ Gathered(f, P, o)
  BY <1>2 DEF Walks, Gathers
<1>4. \A i \in 1..n - 1 : Gathered(stack'[i], PathTo(stack', i), Over(stack', i))
  <2>1. n - 1 \in 0..Len(stack) /\ StackInv(stack)
    BY <1>1 DEF Walks
  <2> QED BY <1>1, <2>1, StillGathered
<1>5. g.out.components = <<>> /\ g.out.models = Library[key].entry.models
  <2> HIDE DEF f, g, P, n, o, key
  <2> QED BY <1>1 DEF Frame, NoArchitecture
<1> HIDE DEF f, v, g, P, n, o
<1>6. Gathered(v, P, o)
  BY <1>1, <1>3, VisitedIs DEF Gathered
<1>7. P \in Instances /\ IsInjective(KeysOn(P)) /\ f.arch = Architecture(P)
  BY <1>3 DEF Walked
<1>8. P \o name \in Instances
  BY <1>1, <1>7, SonInstance
<1>9. Architecture(P \o name) = Library[key].entry
  <2>1. P \in Names /\ PackageAt(P) \in Parsed
    BY <1>7, InstanceIs DEF IsInstance
  <2> QED BY <1>1, <1>7, <2>1, SonIs
<1>10. Gathered(g, P \o name, {})
  <2> DEFINE q == P \o name
  <2>1. q \in Instances /\ g.out.components = <<>> /\ g.out.models = Architecture(q).models
    BY <1>5, <1>8, <1>9
  <2> HIDE DEF q
  <2>2. AreGathered(g.out.components, q, {}) /\ (PlainSlots => AreOwn(g.out.models, q))
    BY <2>1, NoneGathered, OwnModels
  <2> QED BY <2>2 DEF Gathered, q
<1>11. ASSUME NEW i \in 1..n + 1  PROVE Gathered(stack'[i], PathTo(stack', i), Over(stack', i))
  <2>1. i = n + 1 \/ i = n \/ i \in 1..n - 1
    BY <1>1
  <2> QED BY <1>1, <1>4, <1>6, <1>10, <2>1 DEF v, g
<1> QED BY <1>1, <1>11 DEF Gathers

LEMMA GathersReturn ==
  ASSUME Undotted, root \in Roots, Walks(stack), Gathers(stack), ReturnChild
  PROVE  Gathers(stack')
<1> DEFINE n == Len(stack)
           m == n - 1
           f == stack[m]
           c == stack[n]
           g == stack'[m]
           P == PathTo(stack, m)
           o == Over(stack, m)
           prefix == c.name
<1>1. /\ n \in Nat \ {0} /\ m \in Nat \ {0} /\ Len(stack') = m
      /\ g = mergeChild(f, prefix, Flattened(c))
      /\ Kept(stack, stack', n - 2)
      /\ FrameInv(f) /\ FrameInv(c) /\ prefix \in Sons(f.arch)
      /\ PathTo(stack', m) = P
      /\ PathTo(stack, n) = P \o prefix
      /\ Over(stack', m) = o \cup {prefix}
      /\ Over(stack, n) = DOMAIN c.arch.components
  BY ReturnStep
<1>2. /\ Walked(f, P, o) /\ Gathered(f, P, o)
      /\ Walked(c, P \o prefix, DOMAIN c.arch.components)
      /\ Gathered(c, P \o prefix, DOMAIN c.arch.components)
  <2>1. m \in 1..Len(stack) /\ n \in 1..Len(stack)
    BY <1>1
  <2>2. /\ Walked(f, P, o) /\ Walked(c, PathTo(stack, n), Over(stack, n))
        /\ Gathered(f, P, o) /\ Gathered(c, PathTo(stack, n), Over(stack, n))
    BY <2>1 DEF Walks, Gathers
  <2> QED BY <1>1, <2>2
<1>3. \A i \in 1..m - 1 : Gathered(stack'[i], PathTo(stack', i), Over(stack', i))
  <2>1. m - 1 \in 0..Len(stack) /\ Kept(stack, stack', m - 1) /\ StackInv(stack)
    BY <1>1 DEF Walks
  <2> QED BY <2>1, StillGathered
<1>4. /\ g.out.models = Assigned(f.out.models, Prefixed(prefix, c.out.models))
      /\ g.out.components
           = Assigned(f.out.components, Prefixed(prefix, PrefixModels(prefix, c.out.components)))
  <2> DEFINE child == Flattened(c)
  <2>1. FrameInv(f) /\ prefix \in Names /\ AreModels(child.models)
    BY <1>1, FlattenedIs DEF FrameInv
  <2>2. g = mergeChild(f, prefix, child)
    BY <1>1
  <2>3. child.models = c.out.models /\ child.components = c.out.components
    BY <1>1, FlattenedIs
  <2> HIDE DEF f, c, g, child, prefix
  <2>4. IsMerged(g, f, prefix, child)
    BY <2>1, <2>2, MergedIs
  <2> QED BY <2>3, <2>4 DEF IsMerged
<1> HIDE DEF n, m, f, c, g, P, o, prefix
<1>5. /\ P \in Instances /\ f.arch = Architecture(P) /\ P \o prefix \in Instances
      /\ c.arch = Architecture(P \o prefix)
  BY <1>2 DEF Walked
<1>6. P \in Names /\ prefix \in Names /\ prefix \in Sons(Architecture(P))
  <2>1. P \in Names /\ PackageAt(P) \in Parsed
    BY <1>5, InstanceIs DEF IsInstance
  <2> QED BY <1>1, <1>5, <2>1, SonIs
<1>7. Gathered(g, P, o \cup {prefix})
  <2> DEFINE cs == f.out.components
             ms == f.out.models
             below == c.out.components
             models == c.out.models
  <2>1. /\ AreGathered(cs, P, o)
        /\ AreGathered(below, P \o prefix, DOMAIN Architecture(P \o prefix).components)
        /\ PlainSlots => AreOwn(ms, P) /\ AreOwn(models, P \o prefix)
    BY <1>2, <1>5 DEF Gathered
  <2>2. /\ g.out.models = Assigned(ms, Prefixed(prefix, models))
        /\ g.out.components = Assigned(cs, Prefixed(prefix, PrefixModels(prefix, below)))
    BY <1>4
  <2> HIDE DEF cs, ms, below, models
  <2>3. AreGathered(g.out.components, P, o \cup {prefix})
    BY <1>5, <1>6, <2>1, <2>2, MergedGathered
  <2>4. ASSUME PlainSlots  PROVE AreOwn(g.out.models, P)
    BY <1>6, <2>1, <2>2, <2>4, MergedModels
  <2> QED BY <2>3, <2>4 DEF Gathered
<1>8. ASSUME NEW i \in 1..m  PROVE Gathered(stack'[i], PathTo(stack', i), Over(stack', i))
  <2>1. i = m \/ i \in 1..m - 1
    BY <1>1
  <2> QED BY <1>1, <1>3, <1>7, <2>1 DEF g
<1> QED BY <1>1, <1>8 DEF Gathers

\* All that there is has been gathered.
AllGathered(arch) ==
  /\ AreGathered(arch.components, NoName, DOMAIN Architecture(NoName).components)
  /\ PlainSlots => AreOwn(arch.models, NoName)

\* The components of a root that imports nothing are all there are.
LEMMA RootGathered ==
  ASSUME Undotted, root \in Roots, Imports(Architecture(NoName)) = {}
  PROVE  AllGathered(Architecture(NoName))
<1> DEFINE a == Architecture(NoName)
           components == a.components
<1>1. NoName \in Instances /\ NoName \in Names /\ PackageAt(NoName) \in Parsed
  BY InstanceIs DEF IsInstance
<1>2. PlainSlots => AreOwn(a.models, NoName)
  BY <1>1, OwnModels
<1>3. ASSUME NEW r \in DOMAIN components
      PROVE  /\ r \in Names /\ r # <<>> /\ <<r[1]>> = r /\ NoName \o r \in Leaves
             /\ DOMAIN components[r] = Fields /\ components[r].type = Reads(NoName, r).type
             /\ components[r].model = ReadsModel(NoName, r)
  <2>1. r \in Names /\ r = <<r[1]>> /\ r[1] \in STRING /\ Len(r) = 1
    <3>1. r \in Names /\ r = <<r[1]>> /\ r[1] \in STRING
      BY <1>1, Segment
    <3> QED BY <3>1, One
  <2>2. r # <<>> /\ Front(r) = <<>> /\ <<Last(r)>> = r
    BY <2>1, OneSegment
  <2>3. NoName \o r \in Leaves
    BY <1>1 DEF Leaves
  <2>4. DOMAIN components[r] = Fields /\ components[r].model \in Names
    BY <1>1, ComponentIs
  <2>5. NoName \o Front(r) = NoName
    BY <1>1, <2>2, CatLaws DEF NoName
  <2>6. Reads(NoName, r) = components[r]
    BY <2>2, <2>5 DEF Reads
  <2>7. ReadsModel(NoName, r) = components[r].model
    <3>1. <<>> \o components[r].model = components[r].model
      BY <2>4, CatLaws
    <3> QED BY <2>2, <2>6, <3>1 DEF ReadsModel
  <2> QED BY <2>1, <2>2, <2>3, <2>4, <2>6, <2>7
<1>4. ASSUME NEW r \in Names, r # <<>>, NoName \o r \in Leaves
      PROVE  r \in DOMAIN components
  <2>1. <<r[1]>> \notin Sons(a)
    BY DEF Sons
  <2>2. r = <<r[1]>> /\ <<r[1]>> \in DOMAIN components
    BY <1>1, <1>4, <2>1, FirstStep
  <2> QED BY <2>2
<1>5. AreGathered(components, NoName, DOMAIN components)
  BY <1>3, <1>4 DEF AreGathered
<1> QED BY <1>2, <1>5 DEF AllGathered

\* When the first call is over, it has gathered everything.
LEMMA TopGathered ==
  ASSUME Undotted, root \in Roots, Walks(stack), Gathers(stack), Len(stack) = 1, Top.todo = {}
  PROVE  AllGathered(Flattened(Top))
<1>1. /\ Walked(Top, NoName, DOMAIN Top.arch.components)
      /\ Top = stack[1] /\ PathTo(stack, 1) = NoName
      /\ Over(stack, 1) = DOMAIN Top.arch.components
  BY AllWalked
<1>2. Gathered(Top, NoName, DOMAIN Top.arch.components)
  <2>1. 1 \in 1..Len(stack)
    OBVIOUS
  <2> QED BY <1>1, <2>1 DEF Gathers
<1>3. Top.arch = Architecture(NoName)
  BY <1>1 DEF Walked
<1>4. FrameInv(Top)
  BY <1>1 DEF Walks, StackInv
<1>5. Flattened(Top).components = Top.out.components /\ Flattened(Top).models = Top.out.models
  BY <1>4, FlattenedIs
<1> QED BY <1>2, <1>3, <1>5 DEF AllGathered, Gathered

\* Then it has every component once, with the model it had.
LEMMA ComponentsThere ==
  ASSUME Undotted, root \in Roots, NEW arch, AllGathered(arch), Validate(arch)
  PROVE  /\ DOMAIN arch.components = Leaves
         /\ PlainSlots => \A leaf \in Leaves :
              LET own == Architecture(Front(leaf))
                  c   == own.components[<<Last(leaf)>>]
              IN  c.type = "agent" =>
                    arch.models[arch.components[leaf].model] = own.models[c.model]
<1> DEFINE over == DOMAIN Architecture(NoName).components
<1>1. AreGathered(arch.components, NoName, over) /\ (PlainSlots => AreOwn(arch.models, NoName))
  BY DEF AllGathered
<1>2. NoName \in Instances /\ NoName \in Names
  BY InstanceIs DEF IsInstance
<1>3. ASSUME NEW r \in Names  PROVE NoName \o r = r
  BY CatLaws DEF NoName
<1>4. ASSUME NEW r \in Leaves  PROVE r \in DOMAIN arch.components /\ r \in Names /\ r # <<>>
  <2>1. r \in Names /\ r # <<>>
    BY LeafIs
  <2>2. NoName \o r \in Leaves
    BY <1>3, <2>1
  <2> DEFINE name == <<r[1]>>
  <2>3. name \in over
    BY <1>2, <2>1, <2>2, FirstStep
  <2> QED BY <1>1, <2>1, <2>2, <2>3 DEF AreGathered
<1>5. ASSUME NEW r \in DOMAIN arch.components  PROVE r \in Leaves
  BY <1>1, <1>3 DEF AreGathered
<1>6. DOMAIN arch.components = Leaves
  BY <1>4, <1>5
<1>7. ASSUME PlainSlots, NEW leaf \in Leaves, Reads(NoName, leaf).type = "agent"
      PROVE  arch.models[arch.components[leaf].model]
               = Architecture(Front(leaf)).models[Reads(NoName, leaf).model]
  <2> DEFINE m == arch.components[leaf].model
             slot == Reads(NoName, leaf).model
             own == Architecture(Front(leaf))
  <2>1. leaf \in DOMAIN arch.components /\ leaf \in Names /\ leaf # <<>>
    BY <1>4
  <2>2. m = ReadsModel(NoName, leaf) /\ arch.components[leaf].type = "agent"
    BY <1>1, <1>7, <2>1 DEF AreGathered
  <2>3. m # NoName /\ m \in DOMAIN arch.models
    BY <2>1, <2>2 DEF Validate, checkComponents
  <2>4. slot # NoName /\ m = Front(leaf) \o slot
    BY <2>2, <2>3 DEF ReadsModel
  <2>5. /\ Front(leaf) \in Instances /\ Front(leaf) \in Names
        /\ <<Last(leaf)>> \in DOMAIN own.components
        /\ slot = own.components[<<Last(leaf)>>].model
        /\ PackageAt(Front(leaf)) \in Parsed
    <3>1. Front(leaf) \in Instances /\ <<Last(leaf)>> \in DOMAIN own.components
      BY LeafIs
    <3>2. Front(leaf) \in Names /\ PackageAt(Front(leaf)) \in Parsed
      BY <3>1, InstanceIs DEF IsInstance
    <3> QED BY <1>3, <3>1, <3>2 DEF Reads
  <2> HIDE DEF slot, own
  <2>6. slot \in Names /\ Len(slot) <= 1
    BY <1>7, <2>5, ComponentIs, PlainAt DEF own
  <2>7. Len(slot) = 1
    <3> DEFINE n == Len(slot)
    <3>1. n # 0 /\ n \in Nat
      BY <2>4, <2>6 DEF NoName, Names
    <3>2. n <= 1
      BY <2>6
    <3> HIDE DEF n
    <3>3. n = 1
      BY <3>1, <3>2
    <3> QED BY <3>3 DEF n
  <2>8. slot # <<>> /\ Front(slot) = <<>> /\ <<Last(slot)>> = slot
    BY <2>6, <2>7, OneSegment
  <2>9. Front(m) = Front(leaf) /\ Last(m) = Last(slot)
    <3>1. Front(Front(leaf) \o slot) = Front(leaf) \o Front(slot)
          /\ Last(Front(leaf) \o slot) = Last(slot)
      BY <2>5, <2>6, <2>8, FrontOfCat
    <3>2. Front(leaf) \o <<>> = Front(leaf)
      BY <2>5, CatLaws
    <3>3. Front(m) = Front(leaf) \o Front(slot)
      BY <2>4, <3>1
    <3>4. Front(m) = Front(leaf)
      BY <2>8, <3>2, <3>3
    <3>5. Last(m) = Last(slot)
      BY <2>4, <3>1
    <3> QED BY <3>4, <3>5
  <2>10. arch.models[m] = Architecture(NoName \o Front(m)).models[<<Last(m)>>]
    BY <1>1, <1>7, <2>3 DEF AreOwn
  <2>11. NoName \o Front(m) = Front(leaf)
    BY <1>3, <2>5, <2>9
  <2> QED BY <2>8, <2>9, <2>10, <2>11 DEF own, slot
<1>8. ASSUME NEW leaf \in Leaves
      PROVE  Reads(NoName, leaf) = Architecture(Front(leaf)).components[<<Last(leaf)>>]
  <2>1. leaf \in Names /\ leaf # <<>>
    BY LeafIs
  <2>2. Front(leaf) \in Names
    BY <2>1, Shorter
  <2> QED BY <1>3, <2>2 DEF Reads
<1> QED BY <1>6, <1>7, <1>8

\* While the calls are under way they have gathered what they should, and
\* what is returned is everything.
GatheredInv ==
  /\ composed = "pending" /\ stack # <<>> => Gathers(stack)
  /\ composed = "ok" => DOMAIN flat.components = Leaves
  /\ PlainSlots => ComponentsPreserved

LEMMA GatheredStart ==
  ASSUME Undotted, CompositionInit
  PROVE  GatheredInv
<1>1. root \in Roots /\ composed = "pending"
  BY DEF CompositionInit
<1>2. SUFFICES ASSUME stack # <<>>  PROVE Gathers(stack)
  BY <1>1 DEF GatheredInv, ComponentsPreserved
<1> DEFINE f == Frame(NoName, ParseFile(root), {})
<1>3. stack = <<f>>
  BY <1>2 DEF CompositionInit
<1>4. /\ f.arch = ParseFile(root) /\ f.todo = DOMAIN f.arch.components
      /\ f.out.components = <<>> /\ f.out.models = ParseFile(root).models
  BY DEF Frame, NoArchitecture
<1> HIDE DEF f
<1>5. Len(stack) = 1 /\ stack[1] = f
  BY <1>3
<1>6. Over(stack, 1) = {}
  BY <1>4, <1>5 DEF Over
<1>7. PathTo(stack, 1) = NoName
  <2>1. 1..(1 - 1) = {}
    OBVIOUS
  <2> QED BY <2>1 DEF PathTo, NoName
<1>8. NoName \in Instances /\ Architecture(NoName) = ParseFile(root)
  BY <1>1, InstanceIs, AtRoot
<1>9. Gathered(f, NoName, {})
  <2>1. AreGathered(f.out.components, NoName, {}) /\ (PlainSlots => AreOwn(f.out.models, NoName))
    BY <1>1, <1>4, <1>8, NoneGathered, OwnModels
  <2> QED BY <2>1 DEF Gathered
<1>10. ASSUME NEW i \in 1..Len(stack)  PROVE Gathered(stack[i], PathTo(stack, i), Over(stack, i))
  <2>1. i = 1
    BY <1>5
  <2> QED BY <1>5, <1>6, <1>7, <1>9, <2>1
<1> QED BY <1>10 DEF Gathers

LEMMA GatheredKnown ==
  ASSUME root' = root
  PROVE  /\ Gathers(stack') => Gathers(stack)'
         /\ Leaves' = Leaves
         /\ \A p : Architecture(p)' = Architecture(p)
<1>1. /\ Instances' = Instances
      /\ \A p : Architecture(p)' = Architecture(p)
  BY PathsKnown
<1>2. Leaves' = Leaves
  BY <1>1 DEF Leaves
<1>3. \A p, r : Reads(p, r)' = Reads(p, r) /\ ReadsModel(p, r)' = ReadsModel(p, r)
  BY <1>1 DEF Reads, ReadsModel
<1>4. \A c, p, over : AreGathered(c, p, over)' = AreGathered(c, p, over)
  BY <1>2, <1>3 DEF AreGathered
<1>5. \A m, p : AreOwn(m, p)' = AreOwn(m, p)
  BY <1>1 DEF AreOwn
<1>6. \A i \in 1..Len(stack') :
        Gathered(stack[i], PathTo(stack, i), Over(stack, i))'
          = Gathered(stack'[i], PathTo(stack', i), Over(stack', i))
  BY <1>1, <1>2, <1>3, <1>4, <1>5, ZenonT(40) DEF Gathered, AreGathered, AreOwn, PathTo, Over
<1> QED BY <1>1, <1>2, <1>6 DEF Gathers

LEMMA CompositionKept ==
  ASSUME CompositionInv, UNCHANGED <<root, stack, composed>>
  PROVE  CompositionInv'
<1>1. Circular' = Circular
  BY PathsKnown DEF Circular
<1>2. Walks(stack) => Walks(stack')
  OBVIOUS
<1> QED BY <1>1, <1>2, WalksKnown DEF CompositionInv, CircularExactly

LEMMA GatheredStep ==
  ASSUME Undotted, root \in Roots, CompositionInv, GatheredInv, CompositionNext
  PROVE  GatheredInv'
<1>1. root' = root /\ composed = "pending"
  BY DEF CompositionNext, LoadAndValidate, ReturnChild, CopyComponent, CircularDependency,
         Resolve, ResolveFails
<1>2. ASSUME stack # <<>>, Gathers(stack')
      PROVE  Gathers(stack)'
  BY <1>1, <1>2, GatheredKnown
<1>3. CASE LoadAndValidate
  <2> DEFINE arch == IF stack = <<>> THEN ParseFile(root) ELSE Flattened(Top)
  <2>1. /\ stack' = <<>> /\ composed' = (IF Validate(arch) THEN "ok" ELSE "invalid")
        /\ flat' = arch
    BY <1>3 DEF LoadAndValidate
  <2>2. AllGathered(arch)
    <3>1. CASE stack = <<>>
      <4>1. Imports(Architecture(NoName)) = {} /\ Architecture(NoName) = ParseFile(root)
        BY <1>1, <3>1, AtRoot DEF CompositionInv
      <4> QED BY <3>1, <4>1, RootGathered
    <3>2. CASE stack # <<>>
      <4>1. Walks(stack) /\ Gathers(stack) /\ Len(stack) = 1 /\ Top.todo = {}
        BY <1>1, <1>3, <3>2 DEF CompositionInv, GatheredInv, LoadAndValidate
      <4> QED BY <3>2, <4>1, TopGathered
    <3> QED BY <3>1, <3>2
  <2> HIDE DEF arch
  <2>3. ASSUME composed' = "ok"
        PROVE  /\ DOMAIN flat'.components = Leaves
               /\ PlainSlots => \A leaf \in Leaves :
                    LET own == Architecture(Front(leaf))
                        c   == own.components[<<Last(leaf)>>]
                    IN  c.type = "agent" =>
                          flat'.models[flat'.components[leaf].model] = own.models[c.model]
    <3>1. Validate(arch)
      BY <2>1, <2>3
    <3> QED BY <2>1, <2>2, <3>1, ComponentsThere
  <2>4. /\ composed' = "ok" => DOMAIN flat'.components = Leaves'
        /\ PlainSlots => ComponentsPreserved'
    BY <1>1, <2>3, GatheredKnown DEF ComponentsPreserved
  <2> QED BY <2>1, <2>4 DEF GatheredInv
<1>4. CASE stack # <<>> /\ ReturnChild
  <2>1. Gathers(stack') /\ UNCHANGED composed
    BY <1>1, <1>4, GathersReturn DEF CompositionInv, GatheredInv, ReturnChild
  <2> QED BY <1>1, <1>2, <1>4, <2>1 DEF GatheredInv, ComponentsPreserved
<1>5. ASSUME stack # <<>>, NEW name \in Top.todo, CopyComponent(name) \/ Resolve(name)
      PROVE  GatheredInv'
  <2>1. Gathers(stack') /\ UNCHANGED composed
    BY <1>1, <1>5, GathersCopy, GathersResolve
       DEF CompositionInv, GatheredInv, CopyComponent, Resolve
  <2> QED BY <1>1, <1>2, <1>5, <2>1 DEF GatheredInv, ComponentsPreserved
<1>6. ASSUME stack # <<>>, NEW name \in Top.todo, CircularDependency(name) \/ ResolveFails(name)
      PROVE  GatheredInv'
  BY <1>6 DEF GatheredInv, ComponentsPreserved, CircularDependency, ResolveFails
<1> QED BY <1>1, <1>3, <1>4, <1>5, <1>6 DEF CompositionNext

\* An architecture that is accepted has every component of every instance
\* once, and each agent the model its own package gives it, whatever order
\* flatten meets the components in (slots of models are written without a
\* dot, and so are the names of components).
THEOREM ComponentsPreservedHolds ==
  ASSUME Undotted, PlainSlots
  PROVE  Spec => []ComponentsPreserved
<1> DEFINE Inv == CompositionInv /\ GatheredInv
<1>1. Init => Inv
  BY CompositionStart, GatheredStart DEF Init, ExecutionInit
<1>2. ModelsInv /\ Inv /\ [Next]_vars => Inv'
  <2> SUFFICES ASSUME ModelsInv, Inv, [Next]_vars  PROVE Inv'
    OBVIOUS
  <2>1. CASE Load
    BY <2>1, CompositionStep, GatheredStep DEF Load, ModelsInv
  <2>2. CASE UNCHANGED composition
    <3>1. UNCHANGED <<root, stack, composed, flat>>
      BY <2>2 DEF composition
    <3>2. CompositionInv'
      BY <3>1, CompositionKept
    <3>3. Gathers(stack) => Gathers(stack)'
      BY <3>1, GatheredKnown
    <3>4. /\ composed' = "ok" => DOMAIN flat'.components = Leaves'
          /\ ComponentsPreserved'
      BY <3>1, GatheredKnown DEF GatheredInv, ComponentsPreserved
    <3> QED BY <3>1, <3>2, <3>3, <3>4 DEF GatheredInv
  <2> QED BY <2>1, <2>2, OnlyLoadComposes
<1>3. Inv => ComponentsPreserved
  BY DEF GatheredInv
<1> QED BY <1>1, <1>2, <1>3, ModelsHold, PTL DEF Spec

------------------------------------------------------------------------------
(* What the recursive helpers on sequences return. *)

\* A function defined by what it is at 0 and from one number to the next.
Stays(F, N, A) == \A n \in 1..N : \A x \in A : F[n][x] \in A

Goes(u, N, A, a, F) ==
  u \in [0..N -> A] /\ u[0] = a /\ \A n \in 1..N : u[n] = F[n][u[n - 1]]

LEMMA Recursion ==
  ASSUME NEW N \in Nat, NEW A, NEW a \in A, NEW F, Stays(F, N, A)
  PROVE  \E u : Goes(u, N, A, a, F)
<1> DEFINE IsTo(n) == \E u \in [0..n -> A] :
                        u[0] = a /\ \A i \in 1..n : u[i] = F[i][u[i - 1]]
           T == {n \in 0..N : IsTo(n)}
<1>1. IsTo(0)
  <2> DEFINE u == [i \in 0..0 |-> a]
  <2>1. u \in [0..0 -> A] /\ u[0] = a /\ \A i \in 1..0 : u[i] = F[i][u[i - 1]]
    OBVIOUS
  <2> QED BY <2>1
<1>2. ASSUME NEW n \in 0..N, n < N, IsTo(n)  PROVE IsTo(n + 1)
  <2>1. PICK u \in [0..n -> A] : u[0] = a /\ \A i \in 1..n : u[i] = F[i][u[i - 1]]
    BY <1>2
  <2> DEFINE h == [i \in 0..n + 1 |-> IF i = n + 1 THEN F[n + 1][u[n]] ELSE u[i]]
  <2>2. h \in [0..n + 1 -> A]
    <3>1. u[n] \in A /\ n + 1 \in 1..N
      BY <1>2, <2>1
    <3>2. F[n + 1][u[n]] \in A
      BY <3>1 DEF Stays
    <3> QED BY <2>1, <3>2
  <2>3. h[0] = a
    BY <2>1
  <2>4. ASSUME NEW i \in 1..n + 1  PROVE h[i] = F[i][h[i - 1]]
    <3>1. CASE i = n + 1
      BY <3>1
    <3>2. CASE i \in 1..n
      <4>1. h[i] = u[i] /\ h[i - 1] = u[i - 1]
        BY <3>2
      <4> QED BY <2>1, <3>2, <4>1
    <3> QED BY <3>1, <3>2
  <2> HIDE DEF h
  <2> QED BY <2>2, <2>3, <2>4
<1>3. IsTo(N)
  <2> HIDE DEF IsTo
  <2>1. 0 \in T /\ \A n \in 0..N : n \in T /\ n < N => n + 1 \in T
    BY <1>1, <1>2
  <2> HIDE DEF T
  <2>2. 0..N \subseteq T
    BY <2>1, UpTo
  <2> QED BY <2>2 DEF T
<1> QED BY <1>3 DEF Goes

LEMMA AppendRange ==
  ASSUME NEW S, NEW s \in Seq(S), NEW e \in S
  PROVE  Append(s, e) \in Seq(S) /\ Range(Append(s, e)) = Range(s) \cup {e}
<1> DEFINE t == Append(s, e)
<1>1. /\ t \in Seq(S) /\ Len(t) = Len(s) + 1 /\ Len(s) \in Nat
      /\ \A i \in 1..Len(s) : t[i] = s[i]
      /\ t[Len(s) + 1] = e
  BY AppendProperties, LenProperties
<1>2. DOMAIN t = 1..Len(s) + 1 /\ DOMAIN s = 1..Len(s)
  BY <1>1, LenProperties
<1> HIDE DEF t
<1>3. ASSUME NEW x \in Range(t)  PROVE x \in Range(s) \cup {e}
  <2>1. PICK i \in 1..Len(s) + 1 : x = t[i]
    BY <1>2 DEF Range
  <2>2. i \in 1..Len(s) \/ i = Len(s) + 1
    BY <1>1
  <2> QED BY <1>1, <1>2, <2>1, <2>2 DEF Range
<1>4. ASSUME NEW x \in Range(s)  PROVE x \in Range(t)
  <2>1. PICK i \in 1..Len(s) : x = s[i]
    BY <1>2 DEF Range
  <2>2. i \in 1..Len(s) + 1 /\ t[i] = x
    BY <1>1, <2>1
  <2> QED BY <1>2, <2>2 DEF Range
<1>5. e \in Range(t)
  <2>1. Len(s) + 1 \in 1..Len(s) + 1
    BY <1>1
  <2> QED BY <1>1, <1>2, <2>1 DEF Range
<1> QED BY <1>1, <1>3, <1>4, <1>5 DEF t

LEMMA CatRange ==
  ASSUME NEW S, NEW s \in Seq(S), NEW t \in Seq(S)
  PROVE  s \o t \in Seq(S) /\ Range(s \o t) = Range(s) \cup Range(t)
<1> DEFINE r == s \o t
<1>1. /\ r \in Seq(S) /\ Len(r) = Len(s) + Len(t)
      /\ \A i \in 1..Len(s) + Len(t) : r[i] = IF i <= Len(s) THEN s[i] ELSE t[i - Len(s)]
  BY ConcatProperties
<1>2. /\ DOMAIN r = 1..Len(s) + Len(t) /\ DOMAIN s = 1..Len(s) /\ DOMAIN t = 1..Len(t)
      /\ Len(s) \in Nat /\ Len(t) \in Nat
  BY <1>1, LenProperties
<1> HIDE DEF r
<1>3. ASSUME NEW x \in Range(r)  PROVE x \in Range(s) \cup Range(t)
  <2>1. PICK i \in 1..Len(s) + Len(t) : x = r[i]
    BY <1>2 DEF Range
  <2>2. CASE i <= Len(s)
    <3>1. i \in 1..Len(s) /\ x = s[i]
      BY <1>1, <1>2, <2>1, <2>2
    <3> QED BY <1>2, <3>1 DEF Range
  <2>3. CASE ~(i <= Len(s))
    <3>1. i - Len(s) \in 1..Len(t) /\ x = t[i - Len(s)]
      BY <1>1, <1>2, <2>1, <2>3
    <3> QED BY <1>2, <3>1 DEF Range
  <2> QED BY <2>2, <2>3
<1>4. ASSUME NEW x \in Range(s)  PROVE x \in Range(r)
  <2>1. PICK i \in 1..Len(s) : x = s[i]
    BY <1>2 DEF Range
  <2>2. i \in 1..Len(s) + Len(t) /\ r[i] = x
    BY <1>1, <1>2, <2>1
  <2> QED BY <1>2, <2>2 DEF Range
<1>5. ASSUME NEW x \in Range(t)  PROVE x \in Range(r)
  <2>1. PICK i \in 1..Len(t) : x = t[i]
    BY <1>2 DEF Range
  <2>2. /\ Len(s) + i \in 1..Len(s) + Len(t) /\ ~(Len(s) + i <= Len(s))
        /\ (Len(s) + i) - Len(s) = i
    BY <1>2
  <2>3. r[Len(s) + i] = x
    BY <1>1, <2>1, <2>2
  <2> QED BY <1>2, <2>2, <2>3 DEF Range
<1> QED BY <1>1, <1>3, <1>4, <1>5 DEF r

LEMMA SelectedIs ==
  ASSUME NEW S, NEW seq \in Seq(S), NEW set
  PROVE  /\ Selected(seq, set) \in Seq(S)
         /\ Range(Selected(seq, set)) = Range(seq) \cap set
<1> DEFINE N == Len(seq)
           F == [n \in 1..N |-> [x \in Seq(S) |-> IF seq[n] \in set THEN Append(x, seq[n]) ELSE x]]
<1>1. N \in Nat /\ DOMAIN seq = 1..N /\ \A n \in 1..N : seq[n] \in S
  BY LenProperties, ElementOfSeq
<1> HIDE DEF N
<1>2. <<>> \in Seq(S) /\ \A n \in 1..N : \A x \in Seq(S) : F[n][x] \in Seq(S)
  BY <1>1, AppendProperties
<1>3. PICK u \in [0..N -> Seq(S)] : u[0] = <<>> /\ \A n \in 1..N : u[n] = F[n][u[n - 1]]
  <2> DEFINE A == Seq(S)
             a == <<>>
  <2>1. a \in A /\ Stays(F, N, A)
    BY <1>2 DEF Stays
  <2> HIDE DEF A, a, F
  <2>2. \E u : Goes(u, N, A, a, F)
    BY <1>1, <2>1, Recursion
  <2> QED BY <2>2 DEF A, a, Goes
<1>4. ASSUME NEW n \in 1..N
      PROVE  /\ u[n] = IF seq[n] \in set THEN Append(u[n - 1], seq[n]) ELSE u[n - 1]
             /\ u[n - 1] \in Seq(S)
  <2>1. n - 1 \in 0..N
    BY <1>1
  <2>2. u[n - 1] \in Seq(S)
    BY <1>3, <2>1
  <2> QED BY <1>3, <2>2
<1>5. u = [n \in 0..N |-> IF n = 0 THEN <<>>
                          ELSE IF seq[n] \in set THEN Append(u[n - 1], seq[n]) ELSE u[n - 1]]
  <2>1. ASSUME NEW n \in 0..N
        PROVE  u[n] = IF n = 0 THEN <<>>
                      ELSE IF seq[n] \in set THEN Append(u[n - 1], seq[n]) ELSE u[n - 1]
    <3>1. n = 0 \/ n \in 1..N
      BY <1>1
    <3> QED BY <1>3, <1>4, <3>1
  <2>2. u = [n \in 0..N |-> u[n]]
    BY <1>3, SMTT(30)
  <2> QED BY <2>1, <2>2
<1> DEFINE upTo == CHOOSE v : v = [n \in 0..N |->
                     IF n = 0 THEN <<>>
                     ELSE IF seq[n] \in set THEN Append(v[n - 1], seq[n]) ELSE v[n - 1]]
<1>6. upTo = [n \in 0..N |-> IF n = 0 THEN <<>>
                ELSE IF seq[n] \in set THEN Append(upTo[n - 1], seq[n]) ELSE upTo[n - 1]]
  <2> HIDE DEF F
  <2> QED BY <1>5
<1>7. Selected(seq, set) = upTo[N]
  BY DEF Selected, N
<1> HIDE DEF upTo, F
<1> DEFINE Right(n) == /\ upTo[n] \in Seq(S)
                       /\ \A x : x \in Range(upTo[n]) <=> x \in set /\ \E i \in 1..n : x = seq[i]
           T == {n \in 0..N : Right(n)}
<1>8. Right(0)
  <2>1. upTo[0] = <<>>
    BY <1>1, <1>6
  <2>2. Range(<<>>) = {} /\ 1..0 = {}
    BY DEF Range
  <2> QED BY <1>2, <2>1, <2>2
<1>9. ASSUME NEW n \in 0..N, n < N, Right(n)  PROVE Right(n + 1)
  <2>1. n + 1 \in 0..N /\ n + 1 # 0 /\ (n + 1) - 1 = n /\ n + 1 \in 1..N
    BY <1>1, <1>9
  <2>2. upTo[n + 1] = IF seq[n + 1] \in set THEN Append(upTo[n], seq[n + 1]) ELSE upTo[n]
    BY <1>6, <2>1
  <2>3. \A x : (\E i \in 1..n + 1 : x = seq[i]) <=> (x = seq[n + 1] \/ \E i \in 1..n : x = seq[i])
    BY <2>1
  <2>4. seq[n + 1] \in S
    BY <1>1, <2>1
  <2>5. CASE seq[n + 1] \in set
    <3>1. upTo[n + 1] \in Seq(S) /\ Range(upTo[n + 1]) = Range(upTo[n]) \cup {seq[n + 1]}
      BY <1>9, <2>2, <2>4, <2>5, AppendRange
    <3> QED BY <1>9, <2>3, <2>5, <3>1
  <2>6. CASE seq[n + 1] \notin set
    BY <1>9, <2>2, <2>3, <2>6
  <2> QED BY <2>5, <2>6
<1>10. 0..N \subseteq T
  <2> HIDE DEF Right
  <2>1. 0 \in T /\ \A n \in 0..N : n \in T /\ n < N => n + 1 \in T
    BY <1>1, <1>8, <1>9
  <2> HIDE DEF T
  <2> QED BY <1>1, <2>1, UpTo
<1>11. Right(N)
  <2> HIDE DEF Right
  <2>1. N \in 0..N
    BY <1>1
  <2> QED BY <1>10, <2>1
<1>12. \A x : x \in Range(seq) <=> \E i \in 1..N : x = seq[i]
  BY <1>1 DEF Range
<1> QED BY <1>7, <1>11, <1>12

LEMMA FlattenSeqIs ==
  ASSUME NEW S, NEW ss \in Seq(Seq(S))
  PROVE  /\ FlattenSeq(ss) \in Seq(S)
         /\ \A x : x \in Range(FlattenSeq(ss)) <=> \E i \in DOMAIN ss : x \in Range(ss[i])
<1> DEFINE N == Len(ss)
<1>1. N \in Nat /\ DOMAIN ss = 1..N /\ \A i \in 1..N : ss[i] \in Seq(S)
  <2> DEFINE A == Seq(S)
  <2>1. ss \in Seq(A)
    OBVIOUS
  <2> HIDE DEF A
  <2>2. N \in Nat /\ DOMAIN ss = 1..N /\ \A i \in 1..N : ss[i] \in A
    BY <2>1, LenProperties, ElementOfSeq
  <2> QED BY <2>2 DEF A
<1>2. CASE N = 0
  <2>1. FlattenSeq(ss) = ss /\ DOMAIN ss = {}
    BY <1>1, <1>2 DEF FlattenSeq
  <2>2. ss = <<>>
    BY <1>1, <1>2
  <2> QED BY <2>1, <2>2 DEF Range
<1>3. CASE N # 0
  <2> DEFINE F == [n \in 1..N - 1 |-> [x \in Seq(S) |-> x \o ss[n + 1]]]
  <2>1. N - 1 \in Nat /\ 1 \in 1..N
    BY <1>1, <1>3
  <2>2. PICK u : Goes(u, N - 1, Seq(S), ss[1], F)
    <3> DEFINE A == Seq(S)
               a == ss[1]
               M == N - 1
    <3>1. ASSUME NEW n \in 1..M, NEW x \in A  PROVE F[n][x] \in A
      <4>1. n + 1 \in 1..N
        BY <1>1
      <4>2. ss[n + 1] \in Seq(S)
        BY <1>1, <4>1
      <4>3. x \o ss[n + 1] \in Seq(S)
        BY <4>2, CatRange
      <4> QED BY <4>3
    <3>2. a \in A /\ M \in Nat /\ Stays(F, M, A)
      BY <1>1, <2>1, <3>1 DEF Stays
    <3> HIDE DEF A, a, M, F
    <3>3. \E u : Goes(u, M, A, a, F)
      BY <3>2, Recursion
    <3> QED BY <3>3 DEF A, a, M
  <2> DEFINE w == [i \in 1..N |-> u[i - 1]]
             Step(v) == [i \in 1..N |-> IF i = 1 THEN ss[i] ELSE v[i - 1] \o ss[i]]
             flatten == CHOOSE v : v = Step(v)
  <2>3. w = Step(w)
    <3>1. ASSUME NEW i \in 1..N
          PROVE  w[i] = IF i = 1 THEN ss[i] ELSE w[i - 1] \o ss[i]
      <4>1. CASE i = 1
        BY <2>2, <4>1 DEF Goes
      <4>2. CASE i # 1
        <5>1. i - 1 \in 1..N - 1 /\ i - 1 \in 1..N /\ (i - 1) - 1 \in 0..N - 1 /\ (i - 1) + 1 = i
          BY <1>1, <4>2
        <5>2. w[i] = u[i - 1] /\ w[i - 1] = u[(i - 1) - 1]
          BY <5>1
        <5>3. u[(i - 1) - 1] \in Seq(S) /\ u[i - 1] = F[i - 1][u[(i - 1) - 1]]
          BY <2>2, <5>1 DEF Goes
        <5>4. u[i - 1] = u[(i - 1) - 1] \o ss[i]
          BY <5>1, <5>3
        <5> QED BY <4>2, <5>2, <5>4
      <4> QED BY <4>1, <4>2
    <3> QED BY <3>1
  <2>4. flatten = Step(flatten)
    <3> HIDE DEF w, Step
    <3> QED BY <2>3
  <2>5. FlattenSeq(ss) = flatten[N]
    BY <1>3 DEF FlattenSeq
  <2>6. \A i \in 1..N : flatten[i] = IF i = 1 THEN ss[i] ELSE flatten[i - 1] \o ss[i]
    <3> HIDE DEF flatten
    <3> QED BY <2>4
  <2> HIDE DEF flatten, w, Step, F
  <2> DEFINE Right(n) == /\ flatten[n] \in Seq(S)
                         /\ \A x : x \in Range(flatten[n]) <=> \E i \in 1..n : x \in Range(ss[i])
             T == {n \in 0..N - 1 : Right(n + 1)}
  <2>7. Right(1)
    <3>1. flatten[1] = ss[1] /\ ss[1] \in Seq(S)
      BY <1>1, <2>1, <2>6
    <3>2. \A i \in 1..1 : i = 1
      OBVIOUS
    <3> QED BY <2>1, <3>1, <3>2
  <2>8. ASSUME NEW n \in 0..N - 1, n < N - 1, Right(n + 1)  PROVE Right((n + 1) + 1)
    <3> DEFINE m == n + 1
    <3>1. m + 1 \in 1..N /\ m + 1 # 1 /\ (m + 1) - 1 = m /\ m \in 1..N
      BY <1>1, <2>8
    <3> HIDE DEF m
    <3>2. flatten[m + 1] = flatten[m] \o ss[m + 1]
      BY <2>6, <3>1
    <3>3. flatten[m] \in Seq(S) /\ ss[m + 1] \in Seq(S)
      BY <1>1, <2>8, <3>1 DEF m
    <3>4. flatten[m + 1] \in Seq(S) /\ Range(flatten[m + 1]) = Range(flatten[m]) \cup Range(ss[m + 1])
      BY <3>2, <3>3, CatRange
    <3>5. \A x : (\E i \in 1..m + 1 : x \in Range(ss[i]))
                   <=> (x \in Range(ss[m + 1]) \/ \E i \in 1..m : x \in Range(ss[i]))
      BY <3>1
    <3>6. \A x : x \in Range(flatten[m]) <=> \E i \in 1..m : x \in Range(ss[i])
      BY <2>8 DEF m
    <3>7. Right(m + 1)
      BY <3>4, <3>5, <3>6
    <3> QED BY <3>7 DEF m
  <2>9. 0..N - 1 \subseteq T
    <3> HIDE DEF Right
    <3>1. 0 \in T
      BY <2>1, <2>7
    <3>2. \A n \in 0..N - 1 : n \in T /\ n < N - 1 => n + 1 \in T
      BY <2>1, <2>8
    <3> HIDE DEF T
    <3> QED BY <2>1, <3>1, <3>2, UpTo
  <2>10. Right(N)
    <3> HIDE DEF Right
    <3>1. N - 1 \in 0..N - 1 /\ (N - 1) + 1 = N
      BY <1>1, <2>1
    <3>2. N - 1 \in T
      BY <2>9, <3>1
    <3> QED BY <3>1, <3>2
  <2> QED BY <1>1, <2>5, <2>10
<1> QED BY <1>2, <1>3

------------------------------------------------------------------------------
(* The chains of hops: everything that can be put together at junctions.   *)

ArePairs(hops) == \A h \in hops : h = <<h[1], h[2]>>

Closed(ways, hops) ==
  /\ hops \subseteq ways
  /\ \A x \in ways, h \in hops :
       x[2] = h[1] /\ h[1][1] = "junction" => <<x[1], h[2]>> \in ways

\* Extending as often as there are hops is often enough, since each time
\* either one more end is reached from a start or none ever is.
LEMMA ChainsAre ==
  ASSUME NEW hops, IsFiniteSet(hops), ArePairs(hops)
  PROVE  /\ Closed(Chains(hops), hops) /\ ArePairs(Chains(hops))
         /\ \A ways : Closed(ways, hops) => Chains(hops) \subseteq ways
<1> DEFINE N == Cardinality(hops)
           Starts == {h[1] : h \in hops}
           Ends == {h[2] : h \in hops}
           A == SUBSET (Starts \X Ends)
           F == [n \in 1..N |-> [U \in A |-> Extended(U, hops)]]
<1>1. N \in Nat
  BY FS_CardinalityType
<1>2. IsFiniteSet(Ends) /\ Cardinality(Ends) <= N
  <2> DEFINE f == [h \in hops |-> h[2]]
  <2>1. f \in Surjection(hops, Ends)
    BY DEF Surjection
  <2> HIDE DEF f, Ends
  <2> QED BY <2>1, FS_Surjection
<1> HIDE DEF N
<1>3. hops \in A
  BY DEF ArePairs
<1>4. ASSUME NEW U \in A  PROVE Extended(U, hops) \in A
  <2>1. ASSUME NEW x \in U, NEW h \in hops  PROVE <<x[1], h[2]>> \in Starts \X Ends
    OBVIOUS
  <2>2. Joined(U, hops) \subseteq Starts \X Ends
    <3>1. ASSUME NEW z \in Joined(U, hops)  PROVE z \in Starts \X Ends
      <4>1. PICK y \in U \X hops : z = <<y[1][1], y[2][2]>>
        BY DEF Joined
      <4>2. y[1] \in U /\ y[2] \in hops
        OBVIOUS
      <4> HIDE DEF A, Starts, Ends
      <4> QED BY <2>1, <4>1, <4>2
    <3> QED BY <3>1
  <2> QED BY <2>2 DEF Extended
<1>5. PICK u : Goes(u, N, A, hops, F)
  <2>1. Stays(F, N, A)
    <3> HIDE DEF A
    <3> QED BY <1>4 DEF Stays
  <2> HIDE DEF A, F
  <2> QED BY <1>1, <1>3, <2>1, Recursion
<1>6. /\ \A n \in 0..N : u[n] \in A
      /\ u[0] = hops
      /\ \A n \in 0..N : n < N => u[n + 1] = Extended(u[n], hops)
  <2>1. u \in [0..N -> A] /\ u[0] = hops /\ \A n \in 1..N : u[n] = F[n][u[n - 1]]
    BY <1>5 DEF Goes
  <2> HIDE DEF A
  <2>2. ASSUME NEW n \in 0..N, n < N  PROVE u[n + 1] = Extended(u[n], hops)
    <3>1. n + 1 \in 1..N /\ (n + 1) - 1 = n
      BY <1>1, <2>2
    <3>2. u[n + 1] = F[n + 1][u[n]] /\ u[n] \in A
      BY <2>1, <3>1
    <3> QED BY <3>1, <3>2
  <2> QED BY <2>1, <2>2
<1>7. Chains(hops) = u[N]
  <2> DEFINE Step(v) == [n \in 0..N |-> IF n = 0 THEN hops ELSE Extended(v[n - 1], hops)]
             upTo == CHOOSE v : v = Step(v)
  <2>1. u = Step(u)
    <3>1. ASSUME NEW n \in 0..N  PROVE u[n] = IF n = 0 THEN hops ELSE Extended(u[n - 1], hops)
      <4>1. CASE n = 0
        BY <1>6, <4>1
      <4>2. CASE n # 0
        <5>1. n - 1 \in 0..N /\ n - 1 < N /\ (n - 1) + 1 = n
          BY <1>1, <4>2
        <5> HIDE DEF A, F
        <5> QED BY <1>6, <4>2, <5>1
      <4> QED BY <4>1, <4>2
    <3>2. u = [n \in 0..N |-> u[n]]
      BY <1>5 DEF Goes
    <3> QED BY <3>1, <3>2
  <2>2. upTo = Step(upTo)
    <3> HIDE DEF Step
    <3> QED BY <2>1
  <2>3. Chains(hops) = upTo[N]
    BY DEF Chains, N
  <2> HIDE DEF upTo, A, F
  <2>4. \A n \in 0..N : upTo[n] = IF n = 0 THEN hops ELSE Extended(upTo[n - 1], hops)
    BY <2>2
  <2> HIDE DEF Step
  <2> DEFINE T == {n \in 0..N : upTo[n] = u[n]}
  <2>5. 0 \in T /\ \A n \in 0..N : n \in T /\ n < N => n + 1 \in T
    <3>1. 0 \in T
      BY <1>1, <1>6, <2>4
    <3>2. ASSUME NEW n \in T, n < N  PROVE n + 1 \in T
      <4>1. n + 1 \in 0..N /\ n + 1 # 0 /\ (n + 1) - 1 = n
        BY <1>1, <3>2
      <4> QED BY <1>6, <2>4, <3>2, <4>1
    <3> QED BY <3>1, <3>2
  <2> HIDE DEF T
  <2>6. 0..N \subseteq T
    BY <1>1, <2>5, UpTo
  <2>7. N \in T
    BY <1>1, <2>6
  <2> QED BY <2>3, <2>7 DEF T
<1>8. ASSUME NEW n \in 0..N, n < N
      PROVE  \A x : x \in u[n + 1] <=>
               x \in u[n] \/ \E y \in u[n], h \in hops :
                               y[2] = h[1] /\ h[1][1] = "junction" /\ x = <<y[1], h[2]>>
  <2>1. u[n + 1] = u[n] \cup Joined(u[n], hops)
    BY <1>6, <1>8 DEF Extended
  <2>2. \A x : x \in Joined(u[n], hops) <=>
           \E y \in u[n], h \in hops :
             y[2] = h[1] /\ h[1][1] = "junction" /\ x = <<y[1], h[2]>>
    <3> HIDE DEF A
    <3>1. ASSUME NEW x \in Joined(u[n], hops)
          PROVE  \E y \in u[n], h \in hops :
                   y[2] = h[1] /\ h[1][1] = "junction" /\ x = <<y[1], h[2]>>
      <4>1. PICK z \in u[n] \X hops : /\ z[1][2] = z[2][1] /\ z[2][1][1] = "junction"
                                      /\ x = <<z[1][1], z[2][2]>>
        BY DEF Joined
      <4>2. z[1] \in u[n] /\ z[2] \in hops
        OBVIOUS
      <4> QED BY <4>1, <4>2
    <3>2. ASSUME NEW x, NEW y \in u[n], NEW h \in hops,
                 y[2] = h[1], h[1][1] = "junction", x = <<y[1], h[2]>>
          PROVE  x \in Joined(u[n], hops)
      <4> DEFINE z == <<y, h>>
      <4>1. z \in u[n] \X hops /\ z[1] = y /\ z[2] = h
        OBVIOUS
      <4> HIDE DEF z
      <4>2. z \in {w \in u[n] \X hops : w[1][2] = w[2][1] /\ w[2][1][1] = "junction"}
        BY <3>2, <4>1
      <4>3. x = <<z[1][1], z[2][2]>>
        BY <3>2, <4>1
      <4> QED BY <4>2, <4>3 DEF Joined
    <3> QED BY <3>1, <3>2
  <2> QED BY <2>1, <2>2
<1>9. ASSUME NEW ways, Closed(ways, hops)  PROVE u[N] \subseteq ways
  <2> DEFINE T == {n \in 0..N : u[n] \subseteq ways}
  <2> HIDE DEF A, F
  <2>1. 0 \in T
    BY <1>1, <1>6, <1>9 DEF Closed
  <2>2. ASSUME NEW n \in T, n < N  PROVE n + 1 \in T
    <3>1. n \in 0..N /\ n + 1 \in 0..N
      BY <1>1, <2>2
    <3>2. u[n] \subseteq ways
      BY <2>2
    <3>3. ASSUME NEW x \in u[n + 1]  PROVE x \in ways
      <4>1. x \in u[n] \/ \E y \in u[n], h \in hops :
                            y[2] = h[1] /\ h[1][1] = "junction" /\ x = <<y[1], h[2]>>
        BY <1>8, <2>2, <3>1
      <4> QED BY <1>9, <3>2, <4>1 DEF Closed
    <3> QED BY <3>1, <3>3
  <2> HIDE DEF T
  <2>3. 0..N \subseteq T
    BY <1>1, <2>1, <2>2, UpTo
  <2>4. N \in T
    BY <1>1, <2>3
  <2> QED BY <2>4 DEF T
<1> DEFINE E(n, a) == {b \in Ends : <<a, b>> \in u[n]}
           Stable(n, a) == \A b \in E(n, a), h \in hops :
                             b = h[1] /\ h[1][1] = "junction" => h[2] \in E(n, a)
           Done(n) == \A a : Cardinality(E(n, a)) >= n + 1 \/ Stable(n, a)
           T == {n \in 0..N : Done(n)}
<1>10. ASSUME NEW n \in 0..N, NEW a
       PROVE  IsFiniteSet(E(n, a)) /\ Cardinality(E(n, a)) \in Nat /\ Cardinality(E(n, a)) <= N
  <2> DEFINE B == E(n, a)
  <2>1. B \in SUBSET Ends
    OBVIOUS
  <2> HIDE DEF B, Ends
  <2>2. IsFiniteSet(B) /\ Cardinality(B) <= Cardinality(Ends)
    BY <1>2, <2>1, FS_Subset
  <2>3. Cardinality(B) \in Nat /\ Cardinality(Ends) \in Nat
    BY <1>2, <2>2, FS_CardinalityType
  <2>4. Cardinality(B) <= N
    BY <1>1, <1>2, <2>2, <2>3
  <2> QED BY <2>2, <2>3, <2>4 DEF B
<1>11. ASSUME NEW n \in 0..N, n < N, NEW a, NEW b \in Ends
       PROVE  b \in E(n + 1, a) <=>
                b \in E(n, a) \/ \E c \in E(n, a), h \in hops :
                                   c = h[1] /\ h[1][1] = "junction" /\ b = h[2]
  <2>1. ASSUME b \in E(n + 1, a), b \notin E(n, a)
        PROVE  \E c \in E(n, a), h \in hops : c = h[1] /\ h[1][1] = "junction" /\ b = h[2]
    <3>1. <<a, b>> \in u[n + 1] /\ <<a, b>> \notin u[n]
      BY <2>1
    <3> HIDE DEF A, F
    <3>2. PICK y \in u[n], h \in hops :
            y[2] = h[1] /\ h[1][1] = "junction" /\ <<a, b>> = <<y[1], h[2]>>
      BY <1>8, <1>11, <3>1
    <3>3. y = <<a, y[2]>> /\ y[2] \in Ends
      <4>1. u[n] \in A
        BY <1>6
      <4>2. y \in Starts \X Ends
        BY <4>1 DEF A
      <4>3. y[1] = a
        BY <3>2
      <4> QED BY <4>2, <4>3
    <3>4. y[2] \in E(n, a)
      <4> HIDE DEF Ends
      <4> QED BY <3>2, <3>3
    <3>5. b = h[2]
      BY <3>2
    <3> QED BY <3>2, <3>4, <3>5
  <2>2. ASSUME NEW c \in E(n, a), NEW h \in hops, c = h[1], h[1][1] = "junction", b = h[2]
        PROVE  b \in E(n + 1, a)
    <3> DEFINE y == <<a, c>>
    <3>1. y \in u[n] /\ y[2] = h[1] /\ y[1] = a
      BY <2>2
    <3> HIDE DEF y, A, F
    <3>2. <<y[1], h[2]>> \in u[n + 1]
      BY <1>8, <1>11, <2>2, <3>1
    <3> QED BY <2>2, <3>1, <3>2
  <2>3. b \in E(n, a) => b \in E(n + 1, a)
    <3> HIDE DEF A, F
    <3>1. <<a, b>> \in u[n] => <<a, b>> \in u[n + 1]
      BY <1>8, <1>11
    <3> QED BY <3>1
  <2> HIDE DEF E
  <2> QED BY <2>1, <2>2, <2>3
<1>12. Done(0)
  <2>1. SUFFICES ASSUME NEW a, ~(Cardinality(E(0, a)) >= 0 + 1)  PROVE Stable(0, a)
    OBVIOUS
  <2> DEFINE B == E(0, a)
  <2>2. IsFiniteSet(B) /\ Cardinality(B) \in Nat /\ ~(Cardinality(B) >= 1)
    <3>1. 0 \in 0..N
      BY <1>1
    <3> HIDE DEF E
    <3> QED BY <1>10, <2>1, <3>1
  <2> HIDE DEF B
  <2>3. Cardinality(B) = 0
    BY <2>2
  <2>4. B = {}
    BY <2>2, <2>3, FS_EmptySet
  <2> QED BY <2>4 DEF B
<1>13. ASSUME NEW n \in 0..N, n < N, Done(n)  PROVE Done(n + 1)
  <2> SUFFICES ASSUME NEW a
               PROVE  Cardinality(E(n + 1, a)) >= (n + 1) + 1 \/ Stable(n + 1, a)
    OBVIOUS
  <2>0. n + 1 \in 0..N /\ n \in Nat
    BY <1>1, <1>13
  <2>1. E(n, a) \subseteq Ends /\ E(n + 1, a) \subseteq Ends
    OBVIOUS
  <2>2. \A h \in hops : h[2] \in Ends
    OBVIOUS
  <2>3. \A b \in Ends : b \in E(n + 1, a) <=>
            b \in E(n, a) \/ \E c \in E(n, a), h \in hops :
                               c = h[1] /\ h[1][1] = "junction" /\ b = h[2]
    <3> HIDE DEF E, Ends
    <3> QED BY <1>11, <1>13
  <2>4. CASE Stable(n, a)
    <3>1. E(n + 1, a) = E(n, a)
      <4>1. \A b \in E(n, a), h \in hops :
              b = h[1] /\ h[1][1] = "junction" => h[2] \in E(n, a)
        BY <2>4
      <4> HIDE DEF E, Ends
      <4> QED BY <2>1, <2>2, <2>3, <4>1, ZenonT(40)
    <3>2. Stable(n + 1, a)
      <4>1. \A b \in E(n, a), h \in hops :
              b = h[1] /\ h[1][1] = "junction" => h[2] \in E(n, a)
        BY <2>4
      <4> HIDE DEF E, Ends
      <4> QED BY <3>1, <4>1
    <3> QED BY <3>2
  <2>5. CASE ~Stable(n, a)
    <3>1. PICK b \in E(n, a), h \in hops :
            b = h[1] /\ h[1][1] = "junction" /\ h[2] \notin E(n, a)
      BY <2>5
    <3>2. Cardinality(E(n, a)) >= n + 1
      <4> HIDE DEF E
      <4> QED BY <1>13, <2>5
    <3> HIDE DEF Ends, E, Stable
    <3>3. h[2] \in E(n + 1, a)
      BY <2>2, <2>3, <3>1
    <3>4. E(n, a) \in SUBSET E(n + 1, a) /\ E(n, a) # E(n + 1, a)
      BY <2>1, <2>3, <3>1, <3>3
    <3>5. /\ IsFiniteSet(E(n + 1, a)) /\ Cardinality(E(n + 1, a)) \in Nat
          /\ Cardinality(E(n, a)) \in Nat
      BY <1>10, <2>0
    <3>6. Cardinality(E(n, a)) <= Cardinality(E(n + 1, a))
          /\ Cardinality(E(n + 1, a)) # Cardinality(E(n, a))
      BY <3>4, <3>5, FS_Subset
    <3> DEFINE k == Cardinality(E(n, a))
               l == Cardinality(E(n + 1, a))
    <3>7. k \in Nat /\ l \in Nat /\ k <= l /\ l # k /\ k >= n + 1
      BY <3>2, <3>5, <3>6
    <3> HIDE DEF k, l
    <3>8. l >= (n + 1) + 1
      BY <2>0, <3>7
    <3> QED BY <3>8 DEF l
  <2> HIDE DEF E, Stable
  <2> QED BY <2>4, <2>5
<1>14. 0..N \subseteq T
  <2> HIDE DEF Done
  <2>1. 0 \in T /\ \A n \in 0..N : n \in T /\ n < N => n + 1 \in T
    BY <1>1, <1>12, <1>13
  <2> HIDE DEF T
  <2> QED BY <1>1, <2>1, UpTo
<1>15. \A a : Stable(N, a)
  <2> HIDE DEF E, Stable
  <2>1. N \in 0..N
    BY <1>1
  <2>2. Done(N)
    BY <1>14, <2>1
  <2>3. ASSUME NEW a  PROVE Stable(N, a)
    <3> DEFINE k == Cardinality(E(N, a))
    <3>1. k \in Nat /\ k <= N
      BY <1>10, <2>1
    <3>2. k >= N + 1 \/ Stable(N, a)
      BY <2>2
    <3> HIDE DEF k
    <3>3. ~(k >= N + 1)
      BY <1>1, <3>1
    <3> QED BY <3>2, <3>3
  <2> QED BY <2>3
<1>16. \A x \in u[N] : x = <<x[1], x[2]>> /\ x[2] \in Ends
  <2>1. N \in 0..N
    BY <1>1
  <2>2. u[N] \in SUBSET (Starts \X Ends)
    BY <1>6, <2>1
  <2> HIDE DEF Starts, Ends
  <2> QED BY <2>2
<1>17. Closed(u[N], hops)
  <2>1. hops \subseteq u[N]
    <3> DEFINE S == {n \in 0..N : hops \subseteq u[n]}
    <3> HIDE DEF A, F
    <3>1. 0 \in S
      BY <1>1, <1>6
    <3>2. ASSUME NEW n \in S, n < N  PROVE n + 1 \in S
      <4>1. n + 1 \in 0..N /\ n \in 0..N
        BY <1>1, <3>2
      <4>2. u[n] \subseteq u[n + 1]
        BY <1>8, <3>2, <4>1
      <4> QED BY <3>2, <4>1, <4>2
    <3> HIDE DEF S
    <3>3. 0..N \subseteq S
      BY <1>1, <3>1, <3>2, UpTo
    <3>4. N \in S
      BY <1>1, <3>3
    <3> QED BY <3>4 DEF S
  <2>2. ASSUME NEW x \in u[N], NEW h \in hops, x[2] = h[1], h[1][1] = "junction"
        PROVE  <<x[1], h[2]>> \in u[N]
    <3> DEFINE a == x[1]
               b == x[2]
    <3>1. b \in Ends /\ <<a, b>> \in u[N]
      BY <1>16
    <3>2. b \in E(N, a)
      <4> HIDE DEF Ends
      <4> QED BY <3>1
    <3>3. h[2] \in E(N, a)
      <4> HIDE DEF E
      <4> QED BY <1>15, <2>2, <3>2
    <3> QED BY <3>3
  <2> QED BY <2>1, <2>2 DEF Closed
<1> QED
  <2>1. ArePairs(u[N])
    BY <1>16 DEF ArePairs
  <2> QED BY <1>7, <1>9, <1>17, <2>1

------------------------------------------------------------------------------
(* Endpoints. *)

\* An endpoint is its component and its port, unless it is bare.
LEMMA SplitIs ==
  ASSUME NEW e \in Names
  PROVE  /\ SplitEndpoint(e).component \in Names /\ Len(e) \in Nat
         /\ Len(e) > 1 => /\ e = SplitEndpoint(e).component \o <<SplitEndpoint(e).port>>
                          /\ SplitEndpoint(e).component # <<>>
                          /\ SplitEndpoint(e).port \in STRING
                          /\ SplitEndpoint(e).port = Last(e)
         /\ ~(Len(e) > 1) => SplitEndpoint(e).component = e /\ SplitEndpoint(e).port = NoPort
<1>1. Len(e) \in Nat
  BY DEF Names
<1>2. CASE Len(e) > 1
  <2>1. e # <<>>
    BY <1>2
  <2>2. /\ e = Front(e) \o <<Last(e)>> /\ Front(e) \in Names /\ Last(e) \in STRING
        /\ Len(e) = Len(Front(e)) + 1 /\ Len(Front(e)) \in Nat
    BY <2>1, Shorter
  <2>3. SplitEndpoint(e) = [component |-> Front(e), port |-> Last(e)]
    BY <1>2 DEF SplitEndpoint, Front, Last
  <2>4. Front(e) # <<>>
    <3>1. Len(Front(e)) # 0
      BY <1>2, <2>2
    <3> QED BY <3>1
  <2> QED BY <1>1, <1>2, <2>2, <2>3, <2>4
<1>3. CASE ~(Len(e) > 1)
  BY <1>1, <1>3 DEF SplitEndpoint
<1> QED BY <1>2, <1>3

LEMMA ParsedLists ==
  ASSUME NEW p \in Roots \cup Range(Library)
  PROVE  /\ ParseFile(p).connections \in Seq([from : Names, to : Names])
         /\ DOMAIN ParseFile(p).components \subseteq Names
         /\ IsFiniteSet(DOMAIN ParseFile(p).components)
BY ParsedAssumption DEF AreComponents

------------------------------------------------------------------------------
(* What inspect draws. *)

\* The endpoints a connection list leads to from one of its endpoints.
LeadsTo(conns, from) == {c.to : c \in {d \in Range(conns) : d.from = from}}

LEMMA SuccessorsAre ==
  ASSUME NEW conns \in Seq([from : Names, to : Names]), NEW from
  PROVE  /\ Successors(Build(conns), from) \in Seq(Names)
         /\ Range(Successors(Build(conns), from)) = LeadsTo(conns, from)
<1> DEFINE Conn == [from : Names, to : Names]
           out == Selected(conns, {c \in Elements(conns) : c.from = from})
           succs == [i \in DOMAIN out |-> out[i].to]
<1>1. Elements(conns) = Range(conns)
  BY DEF Elements, Range
<1>2. out \in Seq(Conn) /\ Range(out) = {d \in Range(conns) : d.from = from}
  <2>1. /\ out \in Seq(Conn)
        /\ Range(out) = Range(conns) \cap {c \in Elements(conns) : c.from = from}
    BY SelectedIs
  <2> QED BY <1>1, <2>1
<1> HIDE DEF out
<1>3. DOMAIN out = 1..Len(out) /\ Len(out) \in Nat /\ \A i \in 1..Len(out) : out[i] \in Conn
  <2> HIDE DEF Conn
  <2> QED BY <1>2, LenProperties, ElementOfSeq
<1>4. succs \in Seq(Names) /\ Range(succs) = LeadsTo(conns, from)
  <2>1. \A i \in DOMAIN out : out[i].to \in Names
    BY <1>3
  <2>2. succs \in Seq(Names)
    <3>1. succs \in [1..Len(out) -> Names]
      BY <1>3, <2>1
    <3> HIDE DEF succs
    <3> QED BY <1>3, <3>1
  <2>3. ASSUME NEW x  PROVE x \in Range(succs) <=> x \in LeadsTo(conns, from)
    <3>1. x \in Range(succs) <=> \E i \in DOMAIN out : x = out[i].to
      BY DEF Range
    <3>2. (\E i \in DOMAIN out : x = out[i].to) <=> \E c \in Range(out) : x = c.to
      BY DEF Range
    <3> QED BY <1>2, <3>1, <3>2 DEF LeadsTo
  <2> QED BY <2>2, <2>3
<1>5. CASE from \in {c.from : c \in Elements(conns)}
  <2>1. Successors(Build(conns), from) = succs
    BY <1>5 DEF Successors, Build, out
  <2> QED BY <1>4, <2>1
<1>6. CASE from \notin {c.from : c \in Elements(conns)}
  <2>1. Successors(Build(conns), from) = <<>>
    BY <1>6 DEF Successors, Build
  <2>2. LeadsTo(conns, from) = {}
    BY <1>1, <1>6 DEF LeadsTo
  <2> QED BY <2>1, <2>2 DEF Range
<1> QED BY <1>5, <1>6

\* The loop of linearChain, from one round to the next.
Follow(before) ==
  LET succs == Successors(Build(raw.connections), before.current)
      next  == SplitEndpoint(succs[1]).component
  IN  IF before.status # "on" THEN before
      ELSE IF ~OnlyNext(succs) THEN [before EXCEPT !.status = "broken"]
      ELSE IF succs[1] = Output
        THEN [before EXCEPT !.names = Append(@, Output), !.status = "end"]
      ELSE IF next \in Range(Tail(before.names))
        THEN [before EXCEPT !.status = "broken"]
      ELSE [names |-> Append(before.names, next),
            current |-> JoinEndpoint(next, "output"), status |-> "on"]

Drawn == Names \cup {Input, Output}

Links == [names : Seq(Drawn), current : {Input} \cup {JoinEndpoint(name, "output") : name \in Names},
          status : {"on", "end", "broken"}]

FirstLink == [names |-> <<Input>>, current |-> Input, status |-> "on"]

\* The endpoint that the chain goes on from at its i-th name.
PortOf(names, i) == IF i = 1 THEN Input ELSE JoinEndpoint(names[i], "output")

ComponentsOf(endpoints) == {endpointComponent(e) : e \in endpoints}

IsChain(names) ==
  /\ Len(names) >= 1 /\ names[1] = Input
  /\ \A i \in 1..Len(names) - 1 :
       ComponentsOf(LeadsTo(raw.connections, PortOf(names, i))) = {names[i + 1]}

\* A chain as far as it goes, and the loop stands at its end.
GoodLink(link) ==
  /\ IsChain(link.names)
  /\ link.status = "on" => link.current = PortOf(link.names, Len(link.names))
  /\ link.status = "end" => link.names[Len(link.names)] = Output

LEMMA ChainLonger ==
  ASSUME NEW names \in Seq(Drawn), IsChain(names), NEW name \in Drawn,
         ComponentsOf(LeadsTo(raw.connections, PortOf(names, Len(names)))) = {name}
  PROVE  /\ IsChain(Append(names, name)) /\ Append(names, name) \in Seq(Drawn)
         /\ PortOf(Append(names, name), Len(Append(names, name))) = JoinEndpoint(name, "output")
<1> DEFINE t == Append(names, name)
           n == Len(names)
<1>1. /\ t \in Seq(Drawn) /\ Len(t) = n + 1 /\ n \in Nat /\ n >= 1 /\ names[1] = Input
      /\ \A i \in 1..n : t[i] = names[i]
      /\ t[n + 1] = name
  BY AppendProperties, LenProperties DEF IsChain
<1>2. \A i \in 1..n - 1 :
        ComponentsOf(LeadsTo(raw.connections, PortOf(names, i))) = {names[i + 1]}
  BY DEF IsChain
<1> HIDE DEF t
<1>3. ASSUME NEW i \in 1..n
      PROVE  ComponentsOf(LeadsTo(raw.connections, PortOf(t, i))) = {t[i + 1]}
  <2>1. PortOf(t, i) = PortOf(names, i)
    BY <1>1 DEF PortOf
  <2>2. CASE i = n
    BY <1>1, <2>1, <2>2
  <2>3. CASE i # n
    <3>1. i \in 1..n - 1 /\ i + 1 \in 1..n
      BY <1>1, <2>3
    <3> QED BY <1>1, <1>2, <2>1, <3>1
  <2> QED BY <2>2, <2>3
<1>4. t[1] = Input /\ Len(t) >= 1 /\ Len(t) - 1 = n /\ Len(t) # 1 /\ t[Len(t)] = name
  <2> HIDE DEF n
  <2> QED BY <1>1
<1>5. IsChain(t)
  BY <1>3, <1>4 DEF IsChain
<1> QED BY <1>1, <1>4, <1>5 DEF t, PortOf

LEMMA FollowIs ==
  ASSUME root \in Roots, NEW x \in Links
  PROVE  Follow(x) \in Links /\ (GoodLink(x) => GoodLink(Follow(x)))
<1> DEFINE succs == Successors(Build(raw.connections), x.current)
           next  == SplitEndpoint(succs[1]).component
<1>1. raw.connections \in Seq([from : Names, to : Names])
  BY ParsedLists DEF raw
<1>2. succs \in Seq(Names) /\ Range(succs) = LeadsTo(raw.connections, x.current)
  BY <1>1, SuccessorsAre
<1> HIDE DEF succs
<1>3. CASE x.status # "on"
  <2>1. Follow(x) = x
    BY <1>3 DEF Follow
  <2> QED BY <2>1
<1>4. CASE x.status = "on" /\ ~OnlyNext(succs)
  <2>1. Follow(x) = [x EXCEPT !.status = "broken"]
    BY <1>4 DEF Follow, succs
  <2> QED BY <2>1 DEF Links, GoodLink
<1>5. CASE x.status = "on" /\ OnlyNext(succs)
  <2>1. succs[1] \in Names /\ Range(succs) = {succs[1]}
    <3>1. Len(succs) = 1 /\ DOMAIN succs = 1..1
      BY <1>2, <1>5 DEF OnlyNext
    <3>2. \A i \in 1..1 : i = 1
      OBVIOUS
    <3> QED BY <1>2, <3>1, <3>2 DEF Range
  <2>2. ComponentsOf(LeadsTo(raw.connections, x.current)) = {next}
    BY <1>2, <2>1 DEF ComponentsOf, endpointComponent
  <2>3. next \in Names /\ next \in Drawn
    BY <2>1, SplitIs DEF Drawn
  <2>4. CASE succs[1] = Output
    <3> DEFINE y == [x EXCEPT !.names = Append(@, Output), !.status = "end"]
    <3>1. Follow(x) = y
      BY <1>5, <2>4 DEF Follow, succs
    <3>2. next = Output
      BY <2>4 DEF SplitEndpoint, Output
    <3>3. y.names = Append(x.names, next) /\ y.current = x.current /\ y.status = "end"
          /\ x.names \in Seq(Drawn)
      BY <3>2 DEF Links
    <3>4. Append(x.names, next) \in Seq(Drawn)
      BY <2>3, <3>3, AppendProperties
    <3>5. y \in Links
      BY <3>3, <3>4 DEF Links
    <3> HIDE DEF y
    <3>6. ASSUME GoodLink(x)  PROVE GoodLink(y)
      <4>1. IsChain(x.names) /\ x.current = PortOf(x.names, Len(x.names))
        BY <1>5, <3>6 DEF GoodLink
      <4> HIDE DEF next
      <4>2. IsChain(Append(x.names, next))
        BY <2>2, <2>3, <3>3, <4>1, ChainLonger
      <4>3. LET t == Append(x.names, next) IN t[Len(t)] = Output
        BY <3>2, <3>3, <2>3, AppendProperties, LenProperties
      <4> QED BY <3>3, <4>2, <4>3 DEF GoodLink
    <3> QED BY <3>1, <3>5, <3>6
  <2>5. CASE succs[1] # Output /\ next \in Range(Tail(x.names))
    <3>1. Follow(x) = [x EXCEPT !.status = "broken"]
      BY <1>5, <2>5 DEF Follow, succs
    <3> QED BY <3>1 DEF Links, GoodLink
  <2>6. CASE succs[1] # Output /\ next \notin Range(Tail(x.names))
    <3> DEFINE y == [names |-> Append(x.names, next),
                     current |-> JoinEndpoint(next, "output"), status |-> "on"]
    <3>1. Follow(x) = y
      BY <1>5, <2>6 DEF Follow, succs
    <3>2. x.names \in Seq(Drawn)
      BY DEF Links
    <3> HIDE DEF next
    <3>3. Append(x.names, next) \in Seq(Drawn)
      BY <2>3, <3>2, AppendProperties
    <3>4. y \in Links
      BY <2>3, <3>3 DEF Links
    <3>5. ASSUME GoodLink(x)  PROVE GoodLink(y)
      <4>1. IsChain(x.names) /\ x.current = PortOf(x.names, Len(x.names))
        BY <1>5, <3>5 DEF GoodLink
      <4>2. /\ IsChain(Append(x.names, next))
            /\ PortOf(Append(x.names, next), Len(Append(x.names, next)))
                 = JoinEndpoint(next, "output")
        BY <2>2, <2>3, <3>2, <4>1, ChainLonger
      <4> QED BY <4>2 DEF GoodLink
    <3> QED BY <3>1, <3>4, <3>5
  <2> QED BY <2>4, <2>5, <2>6
<1> QED BY <1>3, <1>4, <1>5

LEMMA LinearChainIs ==
  ASSUME root \in Roots
  PROVE  linearChain \in Links /\ GoodLink(linearChain)
<1> DEFINE N == Cardinality(DOMAIN raw.components) + 2
           F == [n \in 1..N |-> [x \in Links |-> Follow(x)]]
<1>1. N \in Nat
  <2>1. IsFiniteSet(DOMAIN raw.components)
    BY ParsedLists DEF raw
  <2> QED BY <2>1, FS_CardinalityType
<1>2. FirstLink \in Links /\ GoodLink(FirstLink)
  <2>1. <<Input>> \in Seq(Drawn)
    BY OneOf DEF Drawn
  <2>2. IsChain(<<Input>>)
    BY DEF IsChain
  <2> QED BY <2>1, <2>2 DEF FirstLink, Links, GoodLink, PortOf
<1>3. PICK u : Goes(u, N, Links, FirstLink, F)
  <2>1. Stays(F, N, Links)
    BY FollowIs DEF Stays
  <2> HIDE DEF N, F
  <2> QED BY <1>1, <1>2, <2>1, Recursion
<1> HIDE DEF N
<1>4. /\ u \in [0..N -> Links] /\ u[0] = FirstLink
      /\ \A n \in 1..N : u[n] = Follow(u[n - 1])
  <2>1. u \in [0..N -> Links] /\ u[0] = FirstLink /\ \A n \in 1..N : u[n] = F[n][u[n - 1]]
    BY <1>3 DEF Goes
  <2>2. ASSUME NEW n \in 1..N  PROVE u[n] = Follow(u[n - 1])
    <3>1. n - 1 \in 0..N
      BY <1>1
    <3>2. u[n - 1] \in Links
      BY <2>1, <3>1
    <3> QED BY <2>1, <3>2
  <2> QED BY <2>1, <2>2
<1> HIDE DEF F
<1> DEFINE Step(v) == [n \in 0..N |-> IF n = 0 THEN FirstLink ELSE Follow(v[n - 1])]
<1>5. u = Step(u)
  <2>1. ASSUME NEW n \in 0..N  PROVE u[n] = IF n = 0 THEN FirstLink ELSE Follow(u[n - 1])
    <3>1. n = 0 \/ n \in 1..N
      BY <1>1
    <3> QED BY <1>4, <3>1
  <2>2. u = [n \in 0..N |-> u[n]]
    BY <1>4
  <2> QED BY <2>1, <2>2
<1>6. Chain = CHOOSE v : v = Step(v)
  BY DEF Chain, Step, Follow, FirstLink, N
<1>7. Chain = Step(Chain)
  <2> HIDE DEF Step
  <2> QED BY <1>5, <1>6
<1>8. \A n \in 0..N : Chain[n] = IF n = 0 THEN FirstLink ELSE Follow(Chain[n - 1])
  BY <1>7
<1> DEFINE T == {n \in 0..N : Chain[n] \in Links /\ GoodLink(Chain[n])}
<1>9. 0 \in T
  BY <1>1, <1>2, <1>8
<1>10. ASSUME NEW n \in T, n < N  PROVE n + 1 \in T
  <2>1. n + 1 \in 0..N /\ n + 1 # 0 /\ (n + 1) - 1 = n /\ Chain[n] \in Links /\ GoodLink(Chain[n])
    BY <1>1, <1>10
  <2>2. Chain[n + 1] = Follow(Chain[n])
    BY <1>8, <2>1
  <2>3. Follow(Chain[n]) \in Links /\ GoodLink(Follow(Chain[n]))
    <3> DEFINE x == Chain[n]
    <3>1. x \in Links /\ GoodLink(x)
      BY <2>1
    <3> HIDE DEF x
    <3>2. Follow(x) \in Links /\ GoodLink(Follow(x))
      BY <3>1, FollowIs
    <3> QED BY <3>2 DEF x
  <2> QED BY <2>1, <2>2, <2>3
<1> HIDE DEF T, Step
<1>11. 0..N \subseteq T
  BY <1>1, <1>9, <1>10, UpTo
<1>12. N \in T
  BY <1>1, <1>11
<1> QED BY <1>12 DEF T, linearChain, N

\* Inspect prints what printConnections says, and nothing is printed for it
\* by another command.
PrintedInv ==
  /\ root \in Roots
  /\ pc = "deps" => command = "deps"
  /\ command = "inspect" => printed \in {<<>>, printConnections}

LEMMA RunLeavesDeps ==
  ASSUME RunStep, pc' = "deps"
  PROVE  pc = "deps"
<1>1. CASE Load
  BY <1>1 DEF Load, run
<1>2. CASE BuildToolRegistry \/ Fails
  BY <1>2 DEF BuildToolRegistry, Fails, Return, ToolboxDone, PullDependency, StartServer,
         InitializeServer, ReuseServer, ListTools, Framed
<1>3. CASE Deferred
  BY <1>3 DEF Deferred, CloseServer, AllClosed, SaveRecord, SaveFails, Framed
<1>4. CASE RunNext
  BY <1>4 DEF RunNext, Loaded, LoadFailed, RegistryBuilt, SkillsRead, ComponentsBuilt,
         SchedulerReturns, PullSkill, BuildAgent, BuildNode, Return, Framed
<1> QED BY <1>1, <1>2, <1>3, <1>4 DEF RunStep, ExecutionNext

LEMMA PrintedStep ==
  ASSUME PrintedInv, [Next]_vars
  PROVE  PrintedInv'
<1>1. root' = root /\ command' = command
  BY OnlyLoadComposes
<1>2. printConnections' = printConnections
  BY <1>1 DEF printConnections, linearChain, Chain, raw
<1>3. (pc = "deps" => command = "deps") /\ (command = "inspect" => printed \in {<<>>, printConnections})
  BY DEF PrintedInv
<1>4. pc' = "deps" => command' = "deps"
  <2>1. CASE CommandStep
    BY <1>1, <1>3, <2>1, CommandSteps
  <2>2. CASE RunStep
    BY <1>1, <1>3, <2>2, RunLeavesDeps
  <2>3. CASE UNCHANGED <<executing, command>>
    BY <1>1, <1>3, <2>3 DEF executing, run
  <2> QED BY <2>1, <2>2, <2>3, NextCases
<1>5. printed' = printed \/ printed' = printConnections \/ pc = "deps"
  <2>1. CASE Next
    <3>1. CASE Inspect
      BY <3>1 DEF Inspect
    <3>2. CASE PrintDepsTree
      BY <3>2 DEF PrintDepsTree, DepsReturn
    <3>3. CASE Entry \/ Validated \/ ToolTestRegistered \/ CallTool \/ RawInvalid \/ Deps
      BY <3>3 DEF Entry, EntryFails, ResolveEntrypoint, ValidatePackage, ValidateFile, ToolTest,
             Validated, ToolTestRegistered, CallTool, RawInvalid, Deps, Silent
    <3>4. CASE UNCHANGED <<command, walk, printed>>
      BY <3>4
    <3> QED BY <2>1, <3>1, <3>2, <3>3, <3>4 DEF Next
  <2>2. CASE UNCHANGED vars
    BY <2>2 DEF vars
  <2> QED BY <2>1, <2>2
<1> QED BY <1>1, <1>2, <1>3, <1>4, <1>5 DEF PrintedInv

\* The chain that inspect draws, of any architecture: it is the one linearChain
\* has found, and ends at the output.
LEMMA DrawnChain ==
  ASSUME PrintedInv, command = "inspect", printed # <<>>, printed # raw.connections,
         NEW names, names = linearChain.names
  PROVE  /\ names \in Seq(Drawn) /\ IsChain(names)
         /\ Len(names) \in Nat /\ names[Len(names)] = Output
         /\ Len(printed) = Len(names)
         /\ \A i \in 1..Len(names) : printed[i].node = names[i]
<1>1. linearChain \in Links /\ GoodLink(linearChain)
  BY LinearChainIs DEF PrintedInv
<1>2. /\ linearChain.status = "end"
      /\ printed = [j \in DOMAIN names |-> [node |-> names[j]]]
  BY DEF PrintedInv, printConnections
<1>3. names \in Seq(Drawn) /\ IsChain(names) /\ names[Len(names)] = Output
  BY <1>1, <1>2 DEF Links, GoodLink
<1>4. DOMAIN names = 1..Len(names) /\ Len(names) \in Nat
  BY <1>3, LenProperties
<1>5. Len(printed) = Len(names)
  <2> DEFINE n == Len(names)
  <2>1. n \in Nat /\ printed = [j \in 1..n |-> [node |-> names[j]]]
    BY <1>2, <1>4
  <2> HIDE DEF n
  <2>2. Len([j \in 1..n |-> [node |-> names[j]]]) = n
    BY <2>1
  <2> QED BY <2>1, <2>2 DEF n
<1>6. \A i \in 1..Len(names) : printed[i].node = names[i]
  BY <1>2, <1>4
<1> QED BY <1>3, <1>4, <1>5, <1>6

\* A connection that leaves the port a name of the chain goes on from leads to
\* the next name.
LEMMA LinkLeads ==
  ASSUME NEW names, IsChain(names), NEW i \in 1..Len(names) - 1,
         NEW conn \in Range(raw.connections), conn.from = PortOf(names, i)
  PROVE  endpointComponent(conn.to) = names[i + 1]
<1>1. ComponentsOf(LeadsTo(raw.connections, PortOf(names, i))) = {names[i + 1]}
  BY DEF IsChain
<1>2. conn.to \in LeadsTo(raw.connections, PortOf(names, i))
  BY DEF LeadsTo
<1> QED BY <1>1, <1>2 DEF ComponentsOf

\* The component of a port output is the one it was joined to.
LEMMA OutputOf ==
  ASSUME NEW name \in Names, name # NoName
  PROVE  endpointComponent(JoinEndpoint(name, "output")) = name
BY DEF endpointComponent, SplitEndpoint, JoinEndpoint, NoName, Names

\* Whatever the input leads to by ports output alone is a link of a chain that
\* inspect draws; if that is all there is, the architecture is the chain.
LEMMA AllOnChain ==
  ASSUME root \in Roots, NEW names \in Seq(Drawn), IsChain(names),
         Len(names) \in Nat, names[Len(names)] = Output, OutputsOnly, AllReached,
         NEW conn \in Range(raw.connections)
  PROVE  \E i \in 1..Len(names) - 1 :
           endpointComponent(conn.from) = names[i] /\ endpointComponent(conn.to) = names[i + 1]
<1> DEFINE C == Range(raw.connections)
           met == {endpointComponent(c.to) : c \in C} \cap {names[i] : i \in 2..Len(names)}
           Link(c, i) == endpointComponent(c.from) = names[i] /\ endpointComponent(c.to) = names[i + 1]
<1>1. names[1] = Input /\ endpointComponent(Input) = Input /\ Input # Output
  BY DEF IsChain, endpointComponent, SplitEndpoint, Input, Output
<1>2. Len(names) >= 2
  <2>1. Len(names) >= 1
    BY DEF IsChain
  <2>2. Len(names) # 1
    <3>1. names[1] # names[Len(names)]
      BY <1>1
    <3> QED BY <3>1
  <2> DEFINE n == Len(names)
  <2>3. n \in Nat /\ n >= 1 /\ n # 1
    BY <2>1, <2>2
  <2> HIDE DEF n
  <2>4. n >= 2
    BY <2>3
  <2> QED BY <2>4 DEF n
<1>3. ASSUME NEW c \in C, endpointComponent(c.from) \in met \cup {Input}
      PROVE  \E i \in 1..Len(names) - 1 : Link(c, i)
  <2>1. CASE c.from = Input
    <3>1. 1 \in 1..Len(names) - 1 /\ c.from = PortOf(names, 1)
      BY <1>2, <2>1 DEF PortOf
    <3>2. endpointComponent(c.to) = names[1 + 1]
      BY <3>1, LinkLeads
    <3> QED BY <1>1, <2>1, <3>1, <3>2
  <2>2. CASE c.from # Input
    <3>1. PICK name \in DOMAIN raw.components \ {NoName, Input, Output} :
            c.from = JoinEndpoint(name, "output")
      BY <2>2 DEF OutputsOnly
    <3>2. name \in Names
      BY <3>1, ParsedAssumption DEF raw, AreComponents
    <3>3. endpointComponent(c.from) = name
      BY <3>1, <3>2, OutputOf
    <3>4. PICK i \in 2..Len(names) : name = names[i]
      BY <1>3, <3>1, <3>3
    <3>5. i \in 1..Len(names) - 1 /\ i # 1
      BY <3>1, <3>4
    <3>6. c.from = PortOf(names, i)
      BY <3>1, <3>4, <3>5 DEF PortOf
    <3>7. endpointComponent(c.to) = names[i + 1]
      BY <1>3, <3>5, <3>6, LinkLeads
    <3> QED BY <3>3, <3>4, <3>5, <3>7
  <2> QED BY <2>1, <2>2
<1> HIDE DEF Link
<1>4. ASSUME NEW c \in C, endpointComponent(c.from) \in met \cup {Input}
      PROVE  endpointComponent(c.to) \in met
  <2>1. PICK i \in 1..Len(names) - 1 : Link(c, i)
    BY <1>3, <1>4
  <2>2. i + 1 \in 2..Len(names) /\ endpointComponent(c.to) = names[i + 1]
    BY <2>1 DEF Link
  <2> QED BY <1>4, <2>2
<1>5. met \in SUBSET {endpointComponent(c.to) : c \in C}
  OBVIOUS
<1> HIDE DEF met
<1>6. endpointComponent(conn.from) \in met \cup {Input}
  BY <1>4, <1>5 DEF AllReached
<1> QED BY <1>3, <1>6 DEF Link

\* A chain that inspect draws is all of the architecture, if all connections
\* leave the input or the port output of a component that the input leads to.
THEOREM SingleChainHolds == Spec => []SingleChain
<1>1. Init => PrintedInv
  BY DEF Init, ExecutionInit, CompositionInit, PrintedInv
<1>2. PrintedInv /\ [Next]_vars => PrintedInv'
  BY PrintedStep
<1>3. PrintedInv => SingleChain
  <2> SUFFICES ASSUME PrintedInv, command = "inspect", printed # <<>>, printed # raw.connections,
                      OutputsOnly, AllReached, NEW conn \in Range(raw.connections)
               PROVE  \E i \in 1..Len(printed) - 1 :
                        /\ endpointComponent(conn.from) = printed[i].node
                        /\ endpointComponent(conn.to) = printed[i + 1].node
    BY DEF SingleChain
  <2> DEFINE names == linearChain.names
  <2>1. /\ names \in Seq(Drawn) /\ IsChain(names)
        /\ Len(names) \in Nat /\ names[Len(names)] = Output
        /\ Len(printed) = Len(names)
        /\ \A i \in 1..Len(names) : printed[i].node = names[i]
    BY DrawnChain
  <2> HIDE DEF names
  <2>2. PICK i \in 1..Len(names) - 1 :
          endpointComponent(conn.from) = names[i] /\ endpointComponent(conn.to) = names[i + 1]
    BY <2>1, AllOnChain DEF PrintedInv
  <2>3. i \in 1..Len(names) /\ i + 1 \in 1..Len(names)
    BY <2>1, <2>2
  <2> QED BY <2>1, <2>2, <2>3
<1> QED BY <1>1, <1>2, <1>3, PTL DEF Spec

------------------------------------------------------------------------------
(* The routes: there are finitely many hops. *)

LEMMA ImageFinite ==
  ASSUME NEW f, IsFiniteSet(DOMAIN f)
  PROVE  IsFiniteSet({f[x] : x \in DOMAIN f})
<1> DEFINE S == DOMAIN f
           T == {f[x] : x \in DOMAIN f}
           g == [x \in S |-> f[x]]
<1>1. g \in Surjection(S, T)
  BY DEF Surjection
<1> HIDE DEF S, T, g
<1>2. IsFiniteSet(S)
  BY DEF S
<1>3. IsFiniteSet(T)
  BY <1>1, <1>2, FS_Surjection
<1> QED BY <1>3 DEF T

LEMMA RangeFinite ==
  ASSUME NEW S, NEW s \in Seq(S)
  PROVE  IsFiniteSet(Range(s)) /\ \A x \in Range(s) : x \in S
<1>1. DOMAIN s = 1..Len(s) /\ Len(s) \in Nat /\ \A i \in 1..Len(s) : s[i] \in S
  BY LenProperties, ElementOfSeq
<1>2. IsFiniteSet(1..Len(s))
  BY <1>1, FS_Interval
<1>3. IsFiniteSet({s[x] : x \in DOMAIN s})
  BY <1>1, <1>2, ImageFinite
<1> QED BY <1>1, <1>3 DEF Range

\* The connections of an instance.
LEMMA ConnectionsAt ==
  ASSUME NEW path, PackageAt(path) \in Parsed
  PROVE  /\ Architecture(path).connections \in Seq([from : Names, to : Names])
         /\ \A c \in Range(Architecture(path).connections) :
              c = [from |-> c.from, to |-> c.to] /\ c.from \in Names /\ c.to \in Names
         /\ IsFiniteSet(Range(Architecture(path).connections))
         /\ IsFiniteSet(Sons(Architecture(path)))
<1> DEFINE p == PackageAt(path)
           Conn == [from : Names, to : Names]
<1>1. p \in Roots \cup Range(Library) /\ Architecture(path) = ParseFile(p)
  BY DEF Parsed, Architecture
<1> HIDE DEF p
<1>2. /\ Architecture(path).connections \in Seq(Conn)
      /\ IsFiniteSet(DOMAIN Architecture(path).components)
  BY <1>1, ParsedLists
<1>3. \A c \in Conn : c = [from |-> c.from, to |-> c.to] /\ c.from \in Names /\ c.to \in Names
  OBVIOUS
<1> HIDE DEF Conn
<1>4. /\ IsFiniteSet(Range(Architecture(path).connections))
      /\ \A c \in Range(Architecture(path).connections) : c \in Conn
  BY <1>2, RangeFinite
<1>5. IsFiniteSet(Sons(Architecture(path)))
  <2>1. Sons(Architecture(path)) \in SUBSET DOMAIN Architecture(path).components
    BY DEF Sons, Imports
  <2> QED BY <1>2, <2>1, FS_Subset
<1> QED BY <1>2, <1>3, <1>4, <1>5 DEF Conn

LEMMA InstancesFinite ==
  ASSUME Undotted, root \in Roots
  PROVE  IsFiniteSet(Instances)
<1> DEFINE T == {n \in 0..Deepest : IsFiniteSet(InstancesTo[n])}
<1>0. Deepest \in Nat
  BY DeepestIs
<1>1. 0 \in T
  <2>1. 0 \in 0..Deepest
    BY <1>0
  <2>2. InstancesTo[0] = {NoName}
    BY <2>1, InstancesToIs
  <2>3. IsFiniteSet({NoName})
    BY FS_Singleton
  <2> QED BY <2>1, <2>2, <2>3
<1>2. ASSUME NEW n \in 0..Deepest, n \in T, n < Deepest  PROVE n + 1 \in T
  <2> DEFINE A == InstancesTo[n]
             Near == [path \in A |-> [name \in Sons(Architecture(path)) |-> path \o name]]
             More == [path \in A |-> {Near[path][name] : name \in DOMAIN Near[path]}]
  <2>1. n + 1 \in 0..Deepest /\ n + 1 # 0 /\ (n + 1) - 1 = n
    BY <1>0, <1>2
  <2>2. InstancesTo[n + 1] = OneDeeper(A)
    BY <2>1, InstancesToIs
  <2>3. IsFiniteSet(A)
    BY <1>2
  <2>4. \A path \in A : PackageAt(path) \in Parsed
    BY <1>2, InstancesLevel DEF IsInstance
  <2> HIDE DEF A
  <2>5. ASSUME NEW path \in A  PROVE IsFiniteSet(More[path])
    <3> DEFINE f == Near[path]
    <3>1. DOMAIN f = Sons(Architecture(path))
      OBVIOUS
    <3>2. IsFiniteSet(DOMAIN f)
      BY <2>4, <3>1, ConnectionsAt
    <3>3. More[path] = {f[name] : name \in DOMAIN f}
      OBVIOUS
    <3> HIDE DEF f
    <3> QED BY <3>2, <3>3, ImageFinite
  <2>6. OneDeeper(A) = A \cup UNION {More[path] : path \in DOMAIN More}
    BY DEF OneDeeper
  <2>7. DOMAIN More = A
    OBVIOUS
  <2> HIDE DEF More, Near
  <2> DEFINE U == {More[path] : path \in DOMAIN More}
  <2>8. IsFiniteSet(U) /\ \A X \in U : IsFiniteSet(X)
    BY <2>3, <2>5, <2>7, ImageFinite
  <2> HIDE DEF U
  <2>9. IsFiniteSet(UNION U)
    BY <2>8, FS_UNION
  <2>10. IsFiniteSet(A \cup UNION U)
    BY <2>3, <2>9, FS_Union
  <2> QED BY <2>1, <2>2, <2>6, <2>10 DEF U
<1> HIDE DEF T
<1>3. 0..Deepest \subseteq T
  BY <1>0, <1>1, <1>2, UpTo
<1>4. Deepest \in T
  BY <1>0, <1>3
<1> QED BY <1>4 DEF T, Instances, Deepest

OwnConns(path) ==
  {c \in Range(Architecture(path).connections) : ~PassThrough(path, c)}

LEMMA HopsAre ==
  ASSUME Undotted, root \in Roots
  PROVE  /\ IsFiniteSet(Hops) /\ ArePairs(Hops)
         /\ \A path \in Instances : \A c \in OwnConns(path) :
              <<Place(path, c.from, Output), Place(path, c.to, Input)>> \in Hops
         /\ \A h \in Hops : \E path \in Instances : \E c \in OwnConns(path) :
              h = <<Place(path, c.from, Output), Place(path, c.to, Input)>>
<1> DEFINE Hop(path, c) == <<Place(path, c.from, Output), Place(path, c.to, Input)>>
           From == [path \in Instances |-> [c \in OwnConns(path) |-> Hop(path, c)]]
           Of == [path \in Instances |-> {From[path][c] : c \in DOMAIN From[path]}]
<1>1. Hops = UNION {{Hop(path, c) : c \in OwnConns(path)} : path \in Instances}
  BY DEF Hops, OwnConns
<1>2. /\ \A path \in Instances : \A c \in OwnConns(path) : Hop(path, c) \in Hops
      /\ \A h \in Hops : \E path \in Instances : \E c \in OwnConns(path) : h = Hop(path, c)
  <2> HIDE DEF Hop
  <2> QED BY <1>1
<1>3. ASSUME NEW h \in Hops  PROVE h = <<h[1], h[2]>>
  <2>1. \E path \in Instances : \E c \in OwnConns(path) : h = Hop(path, c)
    BY <1>2
  <2>2. PICK path, c : h = Hop(path, c)
    BY <2>1
  <2> DEFINE a == Place(path, c.from, Output)
             b == Place(path, c.to, Input)
  <2>3. h = <<a, b>>
    BY <2>2
  <2> HIDE DEF a, b
  <2> QED BY <2>3
<1>4. IsFiniteSet(Hops)
  <2>1. ASSUME NEW path \in Instances  PROVE IsFiniteSet(Of[path])
    <3> DEFINE f == From[path]
    <3>1. DOMAIN f = OwnConns(path)
      OBVIOUS
    <3>2. IsFiniteSet(OwnConns(path))
      <4>1. PackageAt(path) \in Parsed
        BY InstanceIs DEF IsInstance
      <4>2. OwnConns(path) \in SUBSET Range(Architecture(path).connections)
        BY DEF OwnConns
      <4> QED BY <4>1, <4>2, ConnectionsAt, FS_Subset
    <3>3. Of[path] = {f[c] : c \in DOMAIN f}
      OBVIOUS
    <3> HIDE DEF f
    <3> QED BY <3>1, <3>2, <3>3, ImageFinite
  <2>2. Hops = UNION {Of[path] : path \in DOMAIN Of}
    <3> HIDE DEF Hop
    <3> QED BY <1>1
  <2>3. DOMAIN Of = Instances
    OBVIOUS
  <2> HIDE DEF Of, From, Hop
  <2> DEFINE U == {Of[path] : path \in DOMAIN Of}
  <2>4. IsFiniteSet(U) /\ \A X \in U : IsFiniteSet(X)
    BY <2>1, <2>3, InstancesFinite, ImageFinite
  <2> HIDE DEF U
  <2> QED BY <2>2, <2>4, FS_UNION DEF U
<1> QED BY <1>2, <1>3, <1>4 DEF ArePairs

------------------------------------------------------------------------------
(* The routes, taken apart. *)

LEMMA ChainLaws ==
  ASSUME NEW hops, IsFiniteSet(hops), ArePairs(hops)
  PROVE  /\ hops \subseteq Chains(hops)
         /\ \A x \in Chains(hops) : x = <<x[1], x[2]>>
         /\ \A x, y \in Chains(hops) :
              x[2] = y[1] /\ y[1][1] = "junction" => <<x[1], y[2]>> \in Chains(hops)
         /\ \A x \in Chains(hops) :
              \/ x \in hops
              \/ \E h \in hops, y \in Chains(hops) :
                   h[2] = y[1] /\ y[1][1] = "junction" /\ x = <<h[1], y[2]>>
         /\ \A x \in Chains(hops) :
              \/ x \in hops
              \/ \E y \in Chains(hops), h \in hops :
                   y[2] = h[1] /\ h[1][1] = "junction" /\ x = <<y[1], h[2]>>
<1> DEFINE X == Chains(hops)
<1>1. Closed(X, hops) /\ ArePairs(X)
  BY ChainsAre
<1>2. \A ways : Closed(ways, hops) => X \subseteq ways
  BY ChainsAre
<1> HIDE DEF X
<1>3. /\ hops \subseteq X
      /\ \A x \in X, h \in hops : x[2] = h[1] /\ h[1][1] = "junction" => <<x[1], h[2]>> \in X
      /\ \A x \in X : x = <<x[1], x[2]>>
  BY <1>1 DEF Closed, ArePairs
<1>4. \A x, y \in X : x[2] = y[1] /\ y[1][1] = "junction" => <<x[1], y[2]>> \in X
  <2> DEFINE W == {w \in X : \A x \in X : x[2] = w[1] /\ w[1][1] = "junction" => <<x[1], w[2]>> \in X}
  <2>1. hops \subseteq W
    BY <1>3
  <2>2. ASSUME NEW w \in W, NEW h \in hops, w[2] = h[1], h[1][1] = "junction"
        PROVE  <<w[1], h[2]>> \in W
    <3> DEFINE v == <<w[1], h[2]>>
    <3>1. v \in X /\ v[1] = w[1] /\ v[2] = h[2]
      BY <1>3, <2>2
    <3> HIDE DEF v
    <3>2. ASSUME NEW x \in X, x[2] = v[1], v[1][1] = "junction"  PROVE <<x[1], v[2]>> \in X
      <4> DEFINE u == <<x[1], w[2]>>
      <4>1. u \in X /\ u[1] = x[1] /\ u[2] = w[2]
        BY <3>1, <3>2
      <4> HIDE DEF u
      <4>2. <<u[1], h[2]>> \in X
        BY <1>3, <2>2, <4>1
      <4> QED BY <3>1, <4>1, <4>2
    <3>3. v \in W
      BY <3>1, <3>2
    <3> QED BY <3>3 DEF v
  <2>3. Closed(W, hops)
    <3> HIDE DEF W
    <3> QED BY <2>1, <2>2 DEF Closed
  <2>4. X \subseteq W
    <3> HIDE DEF W
    <3> QED BY <1>2, <2>3
  <2> QED BY <2>4
<1>5. \A x \in X :
        \/ x \in hops
        \/ \E h \in hops, y \in X : h[2] = y[1] /\ y[1][1] = "junction" /\ x = <<h[1], y[2]>>
  <2> DEFINE Begun(x) == \E h \in hops, y \in X :
                           h[2] = y[1] /\ y[1][1] = "junction" /\ x = <<h[1], y[2]>>
             W == {w \in X : w \in hops \/ Begun(w)}
  <2>1. ASSUME NEW w \in W, NEW h \in hops, w[2] = h[1], h[1][1] = "junction"
        PROVE  <<w[1], h[2]>> \in X /\ Begun(<<w[1], h[2]>>)
    <3>1. <<w[1], h[2]>> \in X
      BY <1>3, <2>1
    <3>2. CASE w \in hops
      BY <1>3, <2>1, <3>2
    <3>3. CASE Begun(w)
      <4>1. PICK k \in hops, y \in X : k[2] = y[1] /\ y[1][1] = "junction" /\ w = <<k[1], y[2]>>
        BY <3>3
      <4> DEFINE z == <<y[1], h[2]>>
      <4>2. w[1] = k[1] /\ w[2] = y[2]
        BY <4>1
      <4>3. z \in X /\ z[1] = y[1] /\ z[2] = h[2]
        BY <1>3, <2>1, <4>2
      <4> HIDE DEF z
      <4>4. k[2] = z[1] /\ z[1][1] = "junction" /\ <<w[1], h[2]>> = <<k[1], z[2]>>
        BY <4>1, <4>2, <4>3
      <4> DEFINE t == <<w[1], h[2]>>
      <4>5. t = <<k[1], z[2]>>
        BY <4>4
      <4> HIDE DEF t
      <4>6. Begun(t)
        BY <4>3, <4>4, <4>5
      <4> QED BY <3>1, <4>6 DEF t
    <3> QED BY <3>1, <3>2, <3>3
  <2> HIDE DEF Begun
  <2>2. Closed(W, hops)
    BY <1>3, <2>1 DEF Closed
  <2>3. X \subseteq W
    <3> HIDE DEF W
    <3> QED BY <1>2, <2>2
  <2> QED BY <2>3 DEF Begun
<1>6. \A x \in X :
        \/ x \in hops
        \/ \E y \in X, h \in hops : y[2] = h[1] /\ h[1][1] = "junction" /\ x = <<y[1], h[2]>>
  <2> DEFINE Ended(x) == \E y \in X, h \in hops :
                           y[2] = h[1] /\ h[1][1] = "junction" /\ x = <<y[1], h[2]>>
             W == {w \in X : w \in hops \/ Ended(w)}
  <2>1. ASSUME NEW w \in W, NEW h \in hops, w[2] = h[1], h[1][1] = "junction"
        PROVE  <<w[1], h[2]>> \in X /\ Ended(<<w[1], h[2]>>)
    BY <1>3, <2>1
  <2> HIDE DEF Ended
  <2>2. Closed(W, hops)
    BY <1>3, <2>1 DEF Closed
  <2>3. X \subseteq W
    <3> HIDE DEF W
    <3> QED BY <1>2, <2>2
  <2> QED BY <2>3 DEF Ended
<1> QED BY <1>3, <1>4, <1>5, <1>6 DEF X

Outlet(path, port) == <<"junction", path, Output, port>>
Inlet(path, port) == <<"junction", path, Input, port>>

IsOutlet(place) == place[1] = "junction" /\ place[3] = Output
IsInlet(place) == place[1] = "junction" /\ place[3] = Input

\* An endpoint is a place like a component's port, or a junction.
LEMMA PlaceIs ==
  ASSUME NEW path \in Names, NEW e \in Names, NEW side \in {Input, Output}
  PROVE  LET place == Place(path, e, side)
             comp  == endpointComponent(e)
             port  == SplitEndpoint(e).port IN
         /\ comp \in {Input, Output} /\ path # NoName => place = <<"junction", path, comp, port>>
         /\ comp \notin {Input, Output} /\ comp \in Imports(Architecture(path))
              => place = <<"junction", path \o comp, side, port>>
         /\ ~(comp \in {Input, Output} /\ path # NoName)
              /\ ~(comp \notin {Input, Output} /\ comp \in Imports(Architecture(path)))
              => place = <<"port", path \o e>>
<1> DEFINE comp == endpointComponent(e)
<1>1. path = NoName => path \o e = e
  BY CatLaws DEF NoName
<1> QED BY <1>1 DEF Place, endpointComponent

LEMMA Different == Input # Output /\ "port" # "junction"
BY DEF Input, Output

LEMMA PlaceKinds ==
  ASSUME NEW path \in Names, NEW e \in Names, NEW side \in {Input, Output}
  PROVE  \/ \E a \in Names : Place(path, e, side) = <<"port", a>>
         \/ IsOutlet(Place(path, e, side)) /\ ~IsInlet(Place(path, e, side))
         \/ IsInlet(Place(path, e, side)) /\ ~IsOutlet(Place(path, e, side))
<1> DEFINE place == Place(path, e, side)
           comp  == endpointComponent(e)
           port  == SplitEndpoint(e).port
<1>1. /\ comp \in {Input, Output} /\ path # NoName => place = <<"junction", path, comp, port>>
      /\ comp \notin {Input, Output} /\ comp \in Imports(Architecture(path))
           => place = <<"junction", path \o comp, side, port>>
      /\ ~(comp \in {Input, Output} /\ path # NoName)
           /\ ~(comp \notin {Input, Output} /\ comp \in Imports(Architecture(path)))
           => place = <<"port", path \o e>>
  BY PlaceIs
<1>2. path \o e \in Names
  BY Cat
<1> HIDE DEF place, comp, port
<1>3. ASSUME NEW p, NEW s \in {Input, Output}, NEW q, place = <<"junction", p, s, q>>
      PROVE  \/ IsOutlet(place) /\ ~IsInlet(place)
             \/ IsInlet(place) /\ ~IsOutlet(place)
  <2>1. place[1] = "junction" /\ place[3] = s
    BY <1>3
  <2> QED BY <1>3, <2>1, Different DEF IsOutlet, IsInlet
<1>4. CASE comp \in {Input, Output} /\ path # NoName
  BY <1>1, <1>3, <1>4 DEF place
<1>5. CASE comp \notin {Input, Output} /\ comp \in Imports(Architecture(path))
  BY <1>1, <1>3, <1>5 DEF place
<1> QED BY <1>1, <1>2, <1>4, <1>5 DEF place

Ways == Chains(Hops)

LEMMA WaysAre ==
  ASSUME Undotted, root \in Roots
  PROVE  /\ Hops \subseteq Ways
         /\ \A x \in Ways : x = <<x[1], x[2]>>
         /\ \A x, y \in Ways :
              x[2] = y[1] /\ y[1][1] = "junction" => <<x[1], y[2]>> \in Ways
         /\ \A x \in Ways :
              \/ x \in Hops
              \/ \E h \in Hops, y \in Ways :
                   h[2] = y[1] /\ y[1][1] = "junction" /\ x = <<h[1], y[2]>>
         /\ \A x \in Ways :
              \/ x \in Hops
              \/ \E y \in Ways, h \in Hops :
                   y[2] = h[1] /\ h[1][1] = "junction" /\ x = <<y[1], h[2]>>
         /\ \A W : Closed(W, Hops) => Ways \subseteq W
<1> DEFINE H == Hops
<1>1. IsFiniteSet(H) /\ ArePairs(H)
  BY HopsAre
<1> HIDE DEF H
<1>2. /\ H \subseteq Chains(H)
      /\ \A x \in Chains(H) : x = <<x[1], x[2]>>
      /\ \A x, y \in Chains(H) :
           x[2] = y[1] /\ y[1][1] = "junction" => <<x[1], y[2]>> \in Chains(H)
      /\ \A x \in Chains(H) :
           \/ x \in H
           \/ \E h \in H, y \in Chains(H) :
                h[2] = y[1] /\ y[1][1] = "junction" /\ x = <<h[1], y[2]>>
      /\ \A x \in Chains(H) :
           \/ x \in H
           \/ \E y \in Chains(H), h \in H :
                y[2] = h[1] /\ h[1][1] = "junction" /\ x = <<y[1], h[2]>>
  BY <1>1, ChainLaws
<1>3. \A W : Closed(W, H) => Chains(H) \subseteq W
  BY <1>1, ChainsAre
<1> QED BY <1>2, <1>3 DEF H, Ways

\* What a connection begins with and what it ends at, through the imports
\* it is written to: the component ports that lead to its source, and those
\* that its destination leads to.
Begins(a, place) ==
  \/ place = <<"port", a>>
  \/ IsOutlet(place) /\ <<<<"port", a>>, place>> \in Ways

Ends(b, place) ==
  \/ place = <<"port", b>>
  \/ IsInlet(place) /\ <<place, <<"port", b>>>> \in Ways

FromPlace(path, c) == Place(path, c.from, Output)
ToPlace(path, c) == Place(path, c.to, Input)

LEMMA OwnHop ==
  ASSUME Undotted, root \in Roots, NEW path \in Instances, NEW c \in OwnConns(path)
  PROVE  /\ path \in Names /\ c.from \in Names /\ c.to \in Names
         /\ <<FromPlace(path, c), ToPlace(path, c)>> \in Hops
         /\ <<FromPlace(path, c), ToPlace(path, c)>> \in Ways
<1>1. path \in Names /\ PackageAt(path) \in Parsed
  BY InstanceIs DEF IsInstance
<1>2. c \in Range(Architecture(path).connections)
  BY DEF OwnConns
<1>3. c.from \in Names /\ c.to \in Names
  BY <1>1, <1>2, ConnectionsAt
<1>4. <<FromPlace(path, c), ToPlace(path, c)>> \in Hops
  BY HopsAre DEF FromPlace, ToPlace
<1> QED BY <1>1, <1>3, <1>4, WaysAre

LEMMA HopIs ==
  ASSUME Undotted, root \in Roots, NEW h \in Hops
  PROVE  \E path \in Instances : \E c \in OwnConns(path) :
           h = <<FromPlace(path, c), ToPlace(path, c)>>
BY HopsAre DEF FromPlace, ToPlace

\* A place is either an outlet, an inlet or a port.
LEMMA Ported ==
  ASSUME NEW a
  PROVE  ~IsOutlet(<<"port", a>>) /\ ~IsInlet(<<"port", a>>) /\ <<"port", a>>[1] # "junction"
BY Different DEF IsOutlet, IsInlet

\* Coming from the port a, over one connection.
LEMMA BegunHop ==
  ASSUME Undotted, root \in Roots, NEW path \in Instances, NEW c \in OwnConns(path),
         NEW a, Begins(a, FromPlace(path, c))
  PROVE  <<<<"port", a>>, ToPlace(path, c)>> \in Ways
<1> DEFINE z == FromPlace(path, c)
           t == ToPlace(path, c)
           p == <<"port", a>>
<1>1. <<z, t>> \in Ways
  BY OwnHop
<1>2. z = p \/ (z[1] = "junction" /\ <<p, z>> \in Ways)
  BY DEF Begins, IsOutlet
<1> HIDE DEF z, t, p
<1>3. ASSUME z[1] = "junction", <<p, z>> \in Ways  PROVE <<p, t>> \in Ways
  <2> DEFINE x == <<p, z>>
             y == <<z, t>>
  <2>1. x \in Ways /\ y \in Ways /\ x[1] = p /\ x[2] = z /\ y[1] = z /\ y[2] = t
    BY <1>1, <1>3
  <2> HIDE DEF x, y
  <2>2. <<x[1], y[2]>> \in Ways
    BY <1>3, <2>1, WaysAre
  <2> QED BY <2>1, <2>2
<1>4. <<p, t>> \in Ways
  BY <1>1, <1>2, <1>3
<1> QED BY <1>4 DEF p, t

LEMMA EndedHop ==
  ASSUME Undotted, root \in Roots, NEW path \in Instances, NEW c \in OwnConns(path),
         NEW b, Ends(b, ToPlace(path, c))
  PROVE  <<FromPlace(path, c), <<"port", b>>>> \in Ways
<1> DEFINE z == ToPlace(path, c)
           s == FromPlace(path, c)
           p == <<"port", b>>
<1>1. <<s, z>> \in Ways
  BY OwnHop
<1>2. z = p \/ (z[1] = "junction" /\ <<z, p>> \in Ways)
  BY DEF Ends, IsInlet
<1> HIDE DEF z, s, p
<1>3. ASSUME z[1] = "junction", <<z, p>> \in Ways  PROVE <<s, p>> \in Ways
  <2> DEFINE x == <<s, z>>
             y == <<z, p>>
  <2>1. x \in Ways /\ y \in Ways /\ x[1] = s /\ x[2] = z /\ y[1] = z /\ y[2] = p
    BY <1>1, <1>3
  <2> HIDE DEF x, y
  <2>2. <<x[1], y[2]>> \in Ways
    BY <1>3, <2>1, WaysAre
  <2> QED BY <2>1, <2>2
<1>4. <<s, p>> \in Ways
  BY <1>1, <1>2, <1>3
<1> QED BY <1>4 DEF p, s

\* A route passes one connection whose source its first port begins and
\* whose destination its last port ends: the highest up that it comes.
LEMMA RoutesAre ==
  ASSUME Undotted, root \in Roots
  PROVE  \A a, b : <<a, b>> \in Routes <=>
           \E path \in Instances : \E c \in OwnConns(path) :
             Begins(a, FromPlace(path, c)) /\ Ends(b, ToPlace(path, c))
<1>1. ASSUME NEW a, NEW b
      PROVE  <<a, b>> \in Routes <=> <<<<"port", a>>, <<"port", b>>>> \in Ways
  <2>1. ASSUME <<<<"port", a>>, <<"port", b>>>> \in Ways  PROVE <<a, b>> \in Routes
    <3> DEFINE x == <<<<"port", a>>, <<"port", b>>>>
    <3>1. x \in Chains(Hops) /\ x[1][1] = "port" /\ x[2][1] = "port" /\ x[1][2] = a /\ x[2][2] = b
      BY <2>1 DEF Ways
    <3> HIDE DEF x
    <3> QED BY <3>1 DEF Routes, RoutesOf
  <2>2. ASSUME <<a, b>> \in Routes  PROVE <<<<"port", a>>, <<"port", b>>>> \in Ways
    <3>1. PICK x \in Ways : x[1][1] = "port" /\ x[2][1] = "port" /\ <<a, b>> = <<x[1][2], x[2][2]>>
      BY <2>2 DEF Routes, RoutesOf, Ways
    <3>2. x = <<x[1], x[2]>>
      BY WaysAre
    <3>3. /\ \E path \in Instances : \E c \in OwnConns(path) : x[1] = FromPlace(path, c)
          /\ \E path \in Instances : \E c \in OwnConns(path) : x[2] = ToPlace(path, c)
      <4>1. CASE x \in Hops
        <5>1. PICK path \in Instances : \E c \in OwnConns(path) :
                x = <<FromPlace(path, c), ToPlace(path, c)>>
          BY <4>1, HopIs
        <5>2. PICK c \in OwnConns(path) : x = <<FromPlace(path, c), ToPlace(path, c)>>
          BY <5>1
        <5>3. x[1] = FromPlace(path, c) /\ x[2] = ToPlace(path, c)
          BY <5>2
        <5> QED BY <5>3
      <4>2. ASSUME x \notin Hops  PROVE \E path \in Instances : \E c \in OwnConns(path) : x[1] = FromPlace(path, c)
        <5>1. PICK h \in Hops, y \in Ways : x = <<h[1], y[2]>>
          BY <4>2, WaysAre
        <5>2. PICK path \in Instances : \E c \in OwnConns(path) :
                h = <<FromPlace(path, c), ToPlace(path, c)>>
          BY HopIs
        <5>3. PICK c \in OwnConns(path) : h = <<FromPlace(path, c), ToPlace(path, c)>>
          BY <5>2
        <5>4. x[1] = FromPlace(path, c)
          BY <5>1, <5>3
        <5> QED BY <5>4
      <4>3. ASSUME x \notin Hops  PROVE \E path \in Instances : \E c \in OwnConns(path) : x[2] = ToPlace(path, c)
        <5>1. PICK y \in Ways, h \in Hops : x = <<y[1], h[2]>>
          BY <4>3, WaysAre
        <5>2. PICK path \in Instances : \E c \in OwnConns(path) :
                h = <<FromPlace(path, c), ToPlace(path, c)>>
          BY HopIs
        <5>3. PICK c \in OwnConns(path) : h = <<FromPlace(path, c), ToPlace(path, c)>>
          BY <5>2
        <5>4. x[2] = ToPlace(path, c)
          BY <5>1, <5>3
        <5> QED BY <5>4
      <4> QED BY <4>1, <4>2, <4>3
    <3>4. ASSUME NEW path \in Instances, NEW c \in OwnConns(path), NEW side \in {Input, Output},
                 NEW e \in {c.from, c.to}, Place(path, e, side)[1] = "port"
          PROVE  Place(path, e, side) = <<"port", Place(path, e, side)[2]>>
      <4> DEFINE z == Place(path, e, side)
      <4>1. path \in Names /\ e \in Names
        BY OwnHop
      <4>2. (\E n \in Names : z = <<"port", n>>) \/ IsOutlet(z) \/ IsInlet(z)
        BY <4>1, PlaceKinds
      <4>3. z[1] = "port"
        BY <3>4
      <4> HIDE DEF z
      <4>4. z = <<"port", z[2]>>
        BY <4>2, <4>3, Different DEF IsOutlet, IsInlet
      <4> QED BY <4>4 DEF z
    <3>5. x[1] = <<"port", x[1][2]>> /\ x[2] = <<"port", x[2][2]>>
      BY <3>1, <3>3, <3>4 DEF FromPlace, ToPlace
    <3>6. x[1][2] = a /\ x[2][2] = b
      BY <3>1
    <3> QED BY <3>2, <3>5, <3>6
  <2> QED BY <2>1, <2>2
<1> DEFINE Passes(a, x) ==
             \E path \in Instances : \E c \in OwnConns(path) :
               /\ Begins(a, FromPlace(path, c))
               /\ \/ x[2] = ToPlace(path, c)
                  \/ /\ IsInlet(ToPlace(path, c))
                     /\ <<ToPlace(path, c), x[2]>> \in Ways
           W == {x \in Ways : \A a : x[1] = <<"port", a>> => IsOutlet(x[2]) \/ Passes(a, x)}
<1>2. ASSUME NEW h \in Hops  PROVE h \in W
  <2>1. h \in Ways
    BY WaysAre
  <2>2. ASSUME NEW a, h[1] = <<"port", a>>  PROVE Passes(a, h)
    <3>1. PICK path \in Instances : \E c \in OwnConns(path) :
            h = <<FromPlace(path, c), ToPlace(path, c)>>
      BY HopIs
    <3>2. PICK c \in OwnConns(path) : h = <<FromPlace(path, c), ToPlace(path, c)>>
      BY <3>1
    <3>3. h[1] = FromPlace(path, c) /\ h[2] = ToPlace(path, c)
      BY <3>2
    <3>4. Begins(a, FromPlace(path, c))
      BY <2>2, <3>3 DEF Begins
    <3> QED BY <3>3, <3>4
  <2> QED BY <2>1, <2>2
<1>3. ASSUME NEW x \in W, NEW h \in Hops, x[2] = h[1], h[1][1] = "junction"
      PROVE  <<x[1], h[2]>> \in W
  <2> DEFINE v == <<x[1], h[2]>>
  <2>0. x \in Ways /\ h \in Ways /\ x = <<x[1], x[2]>>
    BY <1>3, WaysAre
  <2>1. v \in Ways /\ v[1] = x[1] /\ v[2] = h[2]
    BY <1>3, <2>0, WaysAre
  <2> HIDE DEF v
  <2>2. ASSUME NEW a, v[1] = <<"port", a>>  PROVE Passes(a, v)
    <3>1. IsOutlet(x[2]) \/ Passes(a, x)
      BY <2>1, <2>2
    <3>2. CASE IsOutlet(x[2])
      <4>1. PICK path \in Instances : \E c \in OwnConns(path) :
              h = <<FromPlace(path, c), ToPlace(path, c)>>
        BY HopIs
      <4>2. PICK c \in OwnConns(path) : h = <<FromPlace(path, c), ToPlace(path, c)>>
        BY <4>1
      <4>3. h[1] = FromPlace(path, c) /\ h[2] = ToPlace(path, c)
        BY <4>2
      <4>4. <<<<"port", a>>, x[2]>> \in Ways
        BY <2>0, <2>1, <2>2
      <4>5. Begins(a, FromPlace(path, c))
        BY <1>3, <3>2, <4>3, <4>4 DEF Begins
      <4> QED BY <2>1, <4>3, <4>5
    <3>3. CASE ~IsOutlet(x[2]) /\ Passes(a, x)
      <4>1. PICK path \in Instances : \E c \in OwnConns(path) :
              /\ Begins(a, FromPlace(path, c))
              /\ \/ x[2] = ToPlace(path, c)
                 \/ IsInlet(ToPlace(path, c)) /\ <<ToPlace(path, c), x[2]>> \in Ways
        BY <3>3
      <4>2. PICK c \in OwnConns(path) :
              /\ Begins(a, FromPlace(path, c))
              /\ \/ x[2] = ToPlace(path, c)
                 \/ IsInlet(ToPlace(path, c)) /\ <<ToPlace(path, c), x[2]>> \in Ways
        BY <4>1
      <4> DEFINE z == ToPlace(path, c)
      <4>3. (\E n \in Names : z = <<"port", n>>) \/ IsOutlet(z) \/ IsInlet(z)
        <5>1. path \in Names /\ c.to \in Names
          BY OwnHop
        <5> QED BY <5>1, PlaceKinds DEF ToPlace
      <4>4. x[2] = z \/ (IsInlet(z) /\ <<z, x[2]>> \in Ways)
        BY <4>2
      <4> HIDE DEF z
      <4>5. CASE x[2] = z
        <5>1. IsInlet(z)
          BY <1>3, <3>3, <4>3, <4>5, Ported
        <5>2. <<z, v[2]>> \in Ways
          BY <1>3, <2>0, <2>1, <4>5, WaysAre
        <5> QED BY <4>2, <5>1, <5>2 DEF z
      <4>6. CASE IsInlet(z) /\ <<z, x[2]>> \in Ways
        <5> DEFINE y == <<z, x[2]>>
        <5>1. y \in Ways /\ y[1] = z /\ y[2] = x[2]
          BY <4>6
        <5> HIDE DEF y
        <5>2. <<y[1], h[2]>> \in Ways
          BY <1>3, <2>0, <5>1, WaysAre
        <5>3. <<z, v[2]>> \in Ways
          BY <2>1, <5>1, <5>2
        <5> QED BY <4>2, <4>6, <5>3 DEF z
      <4> QED BY <4>4, <4>5, <4>6
    <3> QED BY <3>1, <3>2, <3>3
  <2> HIDE DEF Passes
  <2>3. v \in W
    BY <2>1, <2>2
  <2> QED BY <2>3 DEF v
<1>4. Ways \subseteq W
  <2> HIDE DEF W
  <2>1. Closed(W, Hops)
    BY <1>2, <1>3 DEF Closed
  <2> QED BY <2>1, WaysAre
<1>5. ASSUME NEW a, NEW b, <<<<"port", a>>, <<"port", b>>>> \in Ways
      PROVE  \E path \in Instances : \E c \in OwnConns(path) :
               Begins(a, FromPlace(path, c)) /\ Ends(b, ToPlace(path, c))
  <2> DEFINE q == <<"port", b>>
             x == <<<<"port", a>>, q>>
  <2>1. x \in W /\ x[1] = <<"port", a>> /\ x[2] = q
    BY <1>4, <1>5
  <2> HIDE DEF x
  <2>2. Passes(a, x)
    BY <2>1, Ported
  <2>3. PICK path \in Instances : \E c \in OwnConns(path) :
          /\ Begins(a, FromPlace(path, c))
          /\ \/ x[2] = ToPlace(path, c)
             \/ IsInlet(ToPlace(path, c)) /\ <<ToPlace(path, c), x[2]>> \in Ways
    BY <2>2
  <2>4. PICK c \in OwnConns(path) :
          /\ Begins(a, FromPlace(path, c))
          /\ \/ x[2] = ToPlace(path, c)
             \/ IsInlet(ToPlace(path, c)) /\ <<ToPlace(path, c), x[2]>> \in Ways
    BY <2>3
  <2>5. Ends(b, ToPlace(path, c))
    BY <2>1, <2>4 DEF Ends
  <2> QED BY <2>4, <2>5
<1>6. ASSUME NEW a, NEW b, NEW path \in Instances, NEW c \in OwnConns(path),
             Begins(a, FromPlace(path, c)), Ends(b, ToPlace(path, c))
      PROVE  <<<<"port", a>>, <<"port", b>>>> \in Ways
  <2> DEFINE z == ToPlace(path, c)
             p == <<"port", a>>
             q == <<"port", b>>
  <2>1. <<p, z>> \in Ways
    BY <1>6, BegunHop
  <2>2. z = q \/ (z[1] = "junction" /\ <<z, q>> \in Ways)
    BY <1>6 DEF Ends, IsInlet
  <2> HIDE DEF z, p, q
  <2>3. ASSUME z[1] = "junction", <<z, q>> \in Ways  PROVE <<p, q>> \in Ways
    <3> DEFINE x == <<p, z>>
               y == <<z, q>>
    <3>1. x \in Ways /\ y \in Ways /\ x[1] = p /\ x[2] = z /\ y[1] = z /\ y[2] = q
      BY <2>1, <2>3
    <3> HIDE DEF x, y
    <3>2. <<x[1], y[2]>> \in Ways
      BY <2>3, <3>1, WaysAre
    <3> QED BY <3>1, <3>2
  <2>4. <<p, q>> \in Ways
    BY <2>1, <2>2, <2>3
  <2> QED BY <2>4 DEF p, q
<1> QED BY <1>1, <1>5, <1>6

\* No package is imported under the name of a boundary.
Reserved ==
  \A p \in Roots \cup Range(Library) : Imports(ParseFile(p)) \cap {Input, Output} = {}

\* Its last segment, if any, is not the empty string.
Named(e) == e # NoName => Last(e) # NoPort

\* No endpoint ends in a dot.
NamedPorts ==
  \A p \in Roots \cup Range(Library) :
    \A c \in Range(ParseFile(p).connections) : Named(c.from) /\ Named(c.to)

LEMMA ImportsAt ==
  ASSUME Undotted, root \in Roots, NEW path \in Instances
  PROVE  /\ path \in Names /\ PackageAt(path) \in Parsed
         /\ \A g \in Imports(Architecture(path)) :
              /\ g \in Names /\ Len(g) = 1 /\ g[1] \in STRING /\ g = <<g[1]>> /\ g # NoName
              /\ path \o g \in Names /\ path \o g # NoName
              /\ Reserved => g \notin {Input, Output}
<1>1. path \in Names /\ PackageAt(path) \in Parsed
  BY InstanceIs DEF IsInstance
<1>2. ASSUME NEW g \in Imports(Architecture(path))
      PROVE  /\ g \in Names /\ Len(g) = 1 /\ g[1] \in STRING /\ g = <<g[1]>> /\ g # NoName
             /\ path \o g \in Names /\ path \o g # NoName
             /\ Reserved => g \notin {Input, Output}
  <2>1. g \in DOMAIN Architecture(path).components
    BY DEF Imports
  <2>2. g \in Names /\ g = <<g[1]>> /\ g[1] \in STRING
    BY <1>1, <2>1, Segment
  <2>3. Len(g) = 1 /\ g # NoName
    <3>1. Len(<<g[1]>>) = 1 /\ <<g[1]>> # <<>>
      BY <2>2, One
    <3> QED BY <2>2, <3>1 DEF NoName
  <2>4. path \o g \in Names /\ path \o g # NoName
    <3>1. path \o <<g[1]>> # <<>>
      BY <1>1, <2>2, FrontLast
    <3> QED BY <1>1, <2>2, <3>1, Cat DEF NoName
  <2>5. Reserved => g \notin {Input, Output}
    <3> DEFINE p == PackageAt(path)
    <3>1. p \in Roots \cup Range(Library) /\ Architecture(path) = ParseFile(p)
      BY <1>1 DEF Parsed, Architecture
    <3> HIDE DEF p
    <3> QED BY <3>1 DEF Reserved
  <2> QED BY <2>2, <2>3, <2>4, <2>5
<1> QED BY <1>1, <1>2

LEMMA ToOutlet ==
  ASSUME Undotted, root \in Roots, NEW path \in Instances, NEW c \in OwnConns(path), NEW q, NEW p
  PROVE  ToPlace(path, c) = Outlet(q, p) <=>
           /\ path = q /\ path # NoName
           /\ endpointComponent(c.to) = Output /\ SplitEndpoint(c.to).port = p
<1> DEFINE place == ToPlace(path, c)
           comp  == endpointComponent(c.to)
           port  == SplitEndpoint(c.to).port
<1>1. /\ comp \in {Input, Output} /\ path # NoName => place = <<"junction", path, comp, port>>
      /\ comp \notin {Input, Output} /\ comp \in Imports(Architecture(path))
           => place = <<"junction", path \o comp, Input, port>>
      /\ ~(comp \in {Input, Output} /\ path # NoName)
           /\ ~(comp \notin {Input, Output} /\ comp \in Imports(Architecture(path)))
           => place = <<"port", path \o c.to>>
  <2>1. path \in Names /\ c.to \in Names /\ Input \in {Input, Output}
    BY OwnHop
  <2> QED BY <2>1, PlaceIs DEF ToPlace
<1> HIDE DEF place, comp, port
<1>2. ASSUME NEW r, NEW s, NEW t, place = <<"junction", r, s, t>>
      PROVE  place = Outlet(q, p) <=> r = q /\ s = Output /\ t = p
  BY <1>2 DEF Outlet
<1>3. CASE comp \in {Input, Output} /\ path # NoName
  BY <1>1, <1>2, <1>3 DEF place, comp, port
<1>4. CASE comp \notin {Input, Output} /\ comp \in Imports(Architecture(path))
  BY <1>1, <1>2, <1>4, Different DEF place, comp, port
<1>5. CASE /\ ~(comp \in {Input, Output} /\ path # NoName)
           /\ ~(comp \notin {Input, Output} /\ comp \in Imports(Architecture(path)))
  <2>1. place[1] = "port" /\ Outlet(q, p)[1] = "junction"
    BY <1>1, <1>5 DEF Outlet
  <2> QED BY <1>5, <2>1, Different DEF place, comp, port
<1> QED BY <1>3, <1>4, <1>5

LEMMA FromInlet ==
  ASSUME Undotted, root \in Roots, NEW path \in Instances, NEW c \in OwnConns(path), NEW q, NEW p
  PROVE  FromPlace(path, c) = Inlet(q, p) <=>
           /\ path = q /\ path # NoName
           /\ endpointComponent(c.from) = Input /\ SplitEndpoint(c.from).port = p
<1> DEFINE place == FromPlace(path, c)
           comp  == endpointComponent(c.from)
           port  == SplitEndpoint(c.from).port
<1>1. /\ comp \in {Input, Output} /\ path # NoName => place = <<"junction", path, comp, port>>
      /\ comp \notin {Input, Output} /\ comp \in Imports(Architecture(path))
           => place = <<"junction", path \o comp, Output, port>>
      /\ ~(comp \in {Input, Output} /\ path # NoName)
           /\ ~(comp \notin {Input, Output} /\ comp \in Imports(Architecture(path)))
           => place = <<"port", path \o c.from>>
  <2>1. path \in Names /\ c.from \in Names /\ Output \in {Input, Output}
    BY OwnHop
  <2> QED BY <2>1, PlaceIs DEF FromPlace
<1> HIDE DEF place, comp, port
<1>2. ASSUME NEW r, NEW s, NEW t, place = <<"junction", r, s, t>>
      PROVE  place = Inlet(q, p) <=> r = q /\ s = Input /\ t = p
  BY <1>2 DEF Inlet
<1>3. CASE comp \in {Input, Output} /\ path # NoName
  BY <1>1, <1>2, <1>3 DEF place, comp, port
<1>4. CASE comp \notin {Input, Output} /\ comp \in Imports(Architecture(path))
  BY <1>1, <1>2, <1>4, Different DEF place, comp, port
<1>5. CASE /\ ~(comp \in {Input, Output} /\ path # NoName)
           /\ ~(comp \notin {Input, Output} /\ comp \in Imports(Architecture(path)))
  <2>1. place[1] = "port" /\ Inlet(q, p)[1] = "junction"
    BY <1>1, <1>5 DEF Inlet
  <2> QED BY <1>5, <2>1, Different DEF place, comp, port
<1> QED BY <1>3, <1>4, <1>5

\* A port leads to an outlet of an instance if it begins a connection to it.
LEMMA OutletIs ==
  ASSUME Undotted, root \in Roots, NEW q, NEW p, NEW a
  PROVE  <<<<"port", a>>, Outlet(q, p)>> \in Ways <=>
           /\ q \in Instances /\ q # NoName
           /\ \E c \in OwnConns(q) :
                /\ endpointComponent(c.to) = Output /\ SplitEndpoint(c.to).port = p
                /\ Begins(a, FromPlace(q, c))
<1>1. ASSUME q \in Instances, q # NoName, NEW c \in OwnConns(q),
             endpointComponent(c.to) = Output, SplitEndpoint(c.to).port = p,
             Begins(a, FromPlace(q, c))
      PROVE  <<<<"port", a>>, Outlet(q, p)>> \in Ways
  <2>1. ToPlace(q, c) = Outlet(q, p)
    BY <1>1, ToOutlet
  <2>2. <<<<"port", a>>, ToPlace(q, c)>> \in Ways
    BY <1>1, BegunHop
  <2> QED BY <2>1, <2>2
<1>2. ASSUME <<<<"port", a>>, Outlet(q, p)>> \in Ways
      PROVE  \E path \in Instances : \E c \in OwnConns(path) :
               /\ ToPlace(path, c) = Outlet(q, p)
               /\ \/ FromPlace(path, c) = <<"port", a>>
                  \/ /\ FromPlace(path, c)[1] = "junction"
                     /\ <<<<"port", a>>, FromPlace(path, c)>> \in Ways
  <2> DEFINE s == <<"port", a>>
             t == Outlet(q, p)
             x == <<s, t>>
  <2>1. x \in Ways /\ x[1] = s /\ x[2] = t
    BY <1>2
  <2> HIDE DEF s, t, x
  <2>2. PICK h \in Hops : h[2] = t /\ (h[1] = s \/ (h[1][1] = "junction" /\ <<s, h[1]>> \in Ways))
    <3>1. CASE x \in Hops
      BY <2>1, <3>1
    <3>2. CASE x \notin Hops
      <4>1. PICK y \in Ways, h \in Hops : y[2] = h[1] /\ h[1][1] = "junction" /\ x = <<y[1], h[2]>>
        BY <2>1, <3>2, WaysAre
      <4>2. y = <<y[1], y[2]>> /\ x[1] = y[1] /\ x[2] = h[2]
        BY <4>1, WaysAre
      <4>3. <<s, h[1]>> \in Ways /\ h[2] = t
        BY <2>1, <4>1, <4>2
      <4> QED BY <4>1, <4>3
    <3> QED BY <3>1, <3>2
  <2>3. PICK path \in Instances : \E c \in OwnConns(path) :
          h = <<FromPlace(path, c), ToPlace(path, c)>>
    BY HopIs
  <2>4. PICK c \in OwnConns(path) : h = <<FromPlace(path, c), ToPlace(path, c)>>
    BY <2>3
  <2>5. h[1] = FromPlace(path, c) /\ h[2] = ToPlace(path, c)
    BY <2>4
  <2> QED BY <2>2, <2>5 DEF s, t
<1>3. ASSUME NEW path \in Instances, NEW c \in OwnConns(path), ToPlace(path, c) = Outlet(q, p),
             \/ FromPlace(path, c) = <<"port", a>>
             \/ /\ FromPlace(path, c)[1] = "junction"
                /\ <<<<"port", a>>, FromPlace(path, c)>> \in Ways
      PROVE  /\ q = path /\ q # NoName
             /\ endpointComponent(c.to) = Output /\ SplitEndpoint(c.to).port = p
             /\ Begins(a, FromPlace(path, c))
  <2>1. /\ q = path /\ q # NoName
        /\ endpointComponent(c.to) = Output /\ SplitEndpoint(c.to).port = p
    BY <1>3, ToOutlet
  <2>2. ~IsInlet(FromPlace(path, c))
    <3> DEFINE place == FromPlace(path, c)
               comp  == endpointComponent(c.from)
               port  == SplitEndpoint(c.from).port
    <3>1. /\ comp \in {Input, Output} /\ path # NoName => place = <<"junction", path, comp, port>>
          /\ comp \notin {Input, Output} /\ comp \in Imports(Architecture(path))
               => place = <<"junction", path \o comp, Output, port>>
          /\ ~(comp \in {Input, Output} /\ path # NoName)
               /\ ~(comp \notin {Input, Output} /\ comp \in Imports(Architecture(path)))
               => place = <<"port", path \o c.from>>
      <4>1. path \in Names /\ c.from \in Names /\ Output \in {Input, Output}
        BY OwnHop
      <4> QED BY <4>1, PlaceIs DEF FromPlace
    <3>2. comp # Input
      BY <2>1 DEF OwnConns, PassThrough
    <3> HIDE DEF place, comp, port
    <3>3. CASE comp \in {Input, Output} /\ path # NoName
      <4>1. place[3] = Output
        BY <3>1, <3>2, <3>3
      <4> QED BY <4>1, Different DEF IsInlet, place
    <3>4. CASE comp \notin {Input, Output} /\ comp \in Imports(Architecture(path))
      <4>1. place[3] = Output
        BY <3>1, <3>4
      <4> QED BY <4>1, Different DEF IsInlet, place
    <3>5. CASE /\ ~(comp \in {Input, Output} /\ path # NoName)
               /\ ~(comp \notin {Input, Output} /\ comp \in Imports(Architecture(path)))
      <4>1. place[1] = "port"
        BY <3>1, <3>5
      <4> QED BY <4>1, Different DEF IsInlet, place
    <3> QED BY <3>3, <3>4, <3>5
  <2>3. \/ \E n \in Names : FromPlace(path, c) = <<"port", n>>
        \/ IsOutlet(FromPlace(path, c)) \/ IsInlet(FromPlace(path, c))
    <3>1. path \in Names /\ c.from \in Names /\ Output \in {Input, Output}
      BY OwnHop
    <3> QED BY <3>1, PlaceKinds DEF FromPlace
  <2>4. Begins(a, FromPlace(path, c))
    <3> DEFINE z == FromPlace(path, c)
    <3>1. z = <<"port", a>> \/ (z[1] = "junction" /\ <<<<"port", a>>, z>> \in Ways)
      BY <1>3
    <3>2. (\E n \in Names : z = <<"port", n>>) \/ IsOutlet(z)
      BY <2>2, <2>3
    <3> HIDE DEF z
    <3>3. z[1] = "junction" => IsOutlet(z)
      BY <3>2, Different
    <3>4. Begins(a, z)
      BY <3>1, <3>3 DEF Begins
    <3> QED BY <3>4 DEF z
  <2> QED BY <2>1, <2>4
<1> QED
  <2>1. ASSUME <<<<"port", a>>, Outlet(q, p)>> \in Ways
        PROVE  /\ q \in Instances /\ q # NoName
               /\ \E c \in OwnConns(q) :
                    /\ endpointComponent(c.to) = Output /\ SplitEndpoint(c.to).port = p
                    /\ Begins(a, FromPlace(q, c))
    <3>1. PICK path \in Instances : \E c \in OwnConns(path) :
               /\ ToPlace(path, c) = Outlet(q, p)
               /\ \/ FromPlace(path, c) = <<"port", a>>
                  \/ /\ FromPlace(path, c)[1] = "junction"
                     /\ <<<<"port", a>>, FromPlace(path, c)>> \in Ways
      BY <1>2, <2>1
    <3>2. PICK c \in OwnConns(path) :
               /\ ToPlace(path, c) = Outlet(q, p)
               /\ \/ FromPlace(path, c) = <<"port", a>>
                  \/ /\ FromPlace(path, c)[1] = "junction"
                     /\ <<<<"port", a>>, FromPlace(path, c)>> \in Ways
      BY <3>1
    <3>3. /\ q = path /\ q # NoName
          /\ endpointComponent(c.to) = Output /\ SplitEndpoint(c.to).port = p
          /\ Begins(a, FromPlace(path, c))
      BY <1>3, <3>2
    <3> QED BY <3>3
  <2> QED BY <1>1, <2>1

\* An inlet of an instance leads to a port if that ends a connection from it.
LEMMA InletIs ==
  ASSUME Undotted, root \in Roots, NEW q, NEW p, NEW b
  PROVE  <<Inlet(q, p), <<"port", b>>>> \in Ways <=>
           /\ q \in Instances /\ q # NoName
           /\ \E c \in OwnConns(q) :
                /\ endpointComponent(c.from) = Input /\ SplitEndpoint(c.from).port = p
                /\ Ends(b, ToPlace(q, c))
<1>1. ASSUME q \in Instances, q # NoName, NEW c \in OwnConns(q),
             endpointComponent(c.from) = Input, SplitEndpoint(c.from).port = p,
             Ends(b, ToPlace(q, c))
      PROVE  <<Inlet(q, p), <<"port", b>>>> \in Ways
  <2>1. FromPlace(q, c) = Inlet(q, p)
    BY <1>1, FromInlet
  <2>2. <<FromPlace(q, c), <<"port", b>>>> \in Ways
    BY <1>1, EndedHop
  <2> QED BY <2>1, <2>2
<1>2. ASSUME <<Inlet(q, p), <<"port", b>>>> \in Ways
      PROVE  \E path \in Instances : \E c \in OwnConns(path) :
               /\ FromPlace(path, c) = Inlet(q, p)
               /\ \/ ToPlace(path, c) = <<"port", b>>
                  \/ /\ ToPlace(path, c)[1] = "junction"
                     /\ <<ToPlace(path, c), <<"port", b>>>> \in Ways
  <2> DEFINE s == <<"port", b>>
             t == Inlet(q, p)
             x == <<t, s>>
  <2>1. x \in Ways /\ x[1] = t /\ x[2] = s
    BY <1>2
  <2> HIDE DEF s, t, x
  <2>2. PICK h \in Hops : h[1] = t /\ (h[2] = s \/ (h[2][1] = "junction" /\ <<h[2], s>> \in Ways))
    <3>1. CASE x \in Hops
      BY <2>1, <3>1
    <3>2. CASE x \notin Hops
      <4>1. PICK h \in Hops, y \in Ways : h[2] = y[1] /\ y[1][1] = "junction" /\ x = <<h[1], y[2]>>
        BY <2>1, <3>2, WaysAre
      <4>2. y = <<y[1], y[2]>> /\ x[1] = h[1] /\ x[2] = y[2]
        BY <4>1, WaysAre
      <4>3. <<h[2], s>> \in Ways /\ h[1] = t
        BY <2>1, <4>1, <4>2
      <4> QED BY <4>1, <4>3
    <3> QED BY <3>1, <3>2
  <2>3. PICK path \in Instances : \E c \in OwnConns(path) :
          h = <<FromPlace(path, c), ToPlace(path, c)>>
    BY HopIs
  <2>4. PICK c \in OwnConns(path) : h = <<FromPlace(path, c), ToPlace(path, c)>>
    BY <2>3
  <2>5. h[1] = FromPlace(path, c) /\ h[2] = ToPlace(path, c)
    BY <2>4
  <2> QED BY <2>2, <2>5 DEF s, t
<1>3. ASSUME NEW path \in Instances, NEW c \in OwnConns(path), FromPlace(path, c) = Inlet(q, p),
             \/ ToPlace(path, c) = <<"port", b>>
             \/ /\ ToPlace(path, c)[1] = "junction"
                /\ <<ToPlace(path, c), <<"port", b>>>> \in Ways
      PROVE  /\ q = path /\ q # NoName
             /\ endpointComponent(c.from) = Input /\ SplitEndpoint(c.from).port = p
             /\ Ends(b, ToPlace(path, c))
  <2>1. /\ q = path /\ q # NoName
        /\ endpointComponent(c.from) = Input /\ SplitEndpoint(c.from).port = p
    BY <1>3, FromInlet
  <2>2. ~IsOutlet(ToPlace(path, c))
    <3> DEFINE place == ToPlace(path, c)
               comp  == endpointComponent(c.to)
               port  == SplitEndpoint(c.to).port
    <3>1. /\ comp \in {Input, Output} /\ path # NoName => place = <<"junction", path, comp, port>>
          /\ comp \notin {Input, Output} /\ comp \in Imports(Architecture(path))
               => place = <<"junction", path \o comp, Input, port>>
          /\ ~(comp \in {Input, Output} /\ path # NoName)
               /\ ~(comp \notin {Input, Output} /\ comp \in Imports(Architecture(path)))
               => place = <<"port", path \o c.to>>
      <4>1. path \in Names /\ c.to \in Names /\ Input \in {Input, Output}
        BY OwnHop
      <4> QED BY <4>1, PlaceIs DEF ToPlace
    <3>2. comp # Output
      BY <2>1 DEF OwnConns, PassThrough
    <3> HIDE DEF place, comp, port
    <3>3. CASE comp \in {Input, Output} /\ path # NoName
      <4>1. place[3] = Input
        BY <3>1, <3>2, <3>3
      <4> QED BY <4>1, Different DEF IsOutlet, place
    <3>4. CASE comp \notin {Input, Output} /\ comp \in Imports(Architecture(path))
      <4>1. place[3] = Input
        BY <3>1, <3>4
      <4> QED BY <4>1, Different DEF IsOutlet, place
    <3>5. CASE /\ ~(comp \in {Input, Output} /\ path # NoName)
               /\ ~(comp \notin {Input, Output} /\ comp \in Imports(Architecture(path)))
      <4>1. place[1] = "port"
        BY <3>1, <3>5
      <4> QED BY <4>1, Different DEF IsOutlet, place
    <3> QED BY <3>3, <3>4, <3>5
  <2>3. \/ \E n \in Names : ToPlace(path, c) = <<"port", n>>
        \/ IsOutlet(ToPlace(path, c)) \/ IsInlet(ToPlace(path, c))
    <3>1. path \in Names /\ c.to \in Names /\ Input \in {Input, Output}
      BY OwnHop
    <3> QED BY <3>1, PlaceKinds DEF ToPlace
  <2>4. Ends(b, ToPlace(path, c))
    <3> DEFINE z == ToPlace(path, c)
    <3>1. z = <<"port", b>> \/ (z[1] = "junction" /\ <<z, <<"port", b>>>> \in Ways)
      BY <1>3
    <3>2. (\E n \in Names : z = <<"port", n>>) \/ IsInlet(z)
      BY <2>2, <2>3
    <3> HIDE DEF z
    <3>3. z[1] = "junction" => IsInlet(z)
      BY <3>2, Different
    <3>4. Ends(b, z)
      BY <3>1, <3>3 DEF Ends
    <3> QED BY <3>4 DEF z
  <2> QED BY <2>1, <2>4
<1> QED
  <2>1. ASSUME <<Inlet(q, p), <<"port", b>>>> \in Ways
        PROVE  /\ q \in Instances /\ q # NoName
               /\ \E c \in OwnConns(q) :
                    /\ endpointComponent(c.from) = Input /\ SplitEndpoint(c.from).port = p
                    /\ Ends(b, ToPlace(q, c))
    <3>1. PICK path \in Instances : \E c \in OwnConns(path) :
               /\ FromPlace(path, c) = Inlet(q, p)
               /\ \/ ToPlace(path, c) = <<"port", b>>
                  \/ /\ ToPlace(path, c)[1] = "junction"
                     /\ <<ToPlace(path, c), <<"port", b>>>> \in Ways
      BY <1>2, <2>1
    <3>2. PICK c \in OwnConns(path) :
               /\ FromPlace(path, c) = Inlet(q, p)
               /\ \/ ToPlace(path, c) = <<"port", b>>
                  \/ /\ ToPlace(path, c)[1] = "junction"
                     /\ <<ToPlace(path, c), <<"port", b>>>> \in Ways
      BY <3>1
    <3>3. /\ q = path /\ q # NoName
          /\ endpointComponent(c.from) = Input /\ SplitEndpoint(c.from).port = p
          /\ Ends(b, ToPlace(path, c))
      BY <1>3, <3>2
    <3> QED BY <3>3
  <2> QED BY <1>1, <2>1

LEMMA BeginsIs ==
  ASSUME Undotted, root \in Roots, NEW path \in Instances, NEW c \in OwnConns(path), NEW a
  PROVE  /\ Reserved /\ endpointComponent(c.from) \in Imports(Architecture(path)) =>
              (Begins(a, FromPlace(path, c)) <=>
                 <<<<"port", a>>, Outlet(path \o endpointComponent(c.from),
                                         SplitEndpoint(c.from).port)>> \in Ways)
         /\ endpointComponent(c.from) \notin Imports(Architecture(path))
            /\ (endpointComponent(c.from) \notin {Input, Output} \/ path = NoName) =>
              (Begins(a, FromPlace(path, c)) <=> a = path \o c.from)
         /\ endpointComponent(c.from) = Input /\ path # NoName => ~Begins(a, FromPlace(path, c))
<1> DEFINE place == FromPlace(path, c)
           comp  == endpointComponent(c.from)
           port  == SplitEndpoint(c.from).port
           end   == path \o c.from
           q     == path \o comp
<1>1. /\ comp \in {Input, Output} /\ path # NoName => place = <<"junction", path, comp, port>>
      /\ comp \notin {Input, Output} /\ comp \in Imports(Architecture(path))
           => place = <<"junction", q, Output, port>>
      /\ ~(comp \in {Input, Output} /\ path # NoName)
           /\ ~(comp \notin {Input, Output} /\ comp \in Imports(Architecture(path)))
           => place = <<"port", end>>
  <2>1. path \in Names /\ c.from \in Names /\ Output \in {Input, Output}
    BY OwnHop
  <2> QED BY <2>1, PlaceIs DEF FromPlace
<1>2. Reserved /\ comp \in Imports(Architecture(path)) => comp \notin {Input, Output}
  BY ImportsAt
<1> HIDE DEF place, comp, port, end, q
<1>3. ASSUME place = <<"junction", q, Output, port>>
      PROVE  Begins(a, place) <=> <<<<"port", a>>, Outlet(q, port)>> \in Ways
  <2>1. IsOutlet(place) /\ place = Outlet(q, port) /\ place # <<"port", a>>
    <3>1. place[1] = "junction" /\ place[3] = Output /\ place = Outlet(q, port)
      BY <1>3 DEF Outlet
    <3> QED BY <3>1, Ported DEF IsOutlet
  <2> QED BY <2>1 DEF Begins
<1>4. ASSUME place = <<"port", end>>
      PROVE  Begins(a, place) <=> a = end
  <2>1. ~IsOutlet(place)
    BY <1>4, Ported
  <2>2. place = <<"port", a>> <=> a = end
    BY <1>4
  <2> QED BY <2>1, <2>2 DEF Begins
<1>5. ASSUME place = <<"junction", path, Input, port>>
      PROVE  ~Begins(a, place)
  <2>1. place[1] = "junction" /\ place[3] = Input
    BY <1>5
  <2> QED BY <2>1, Different, Ported DEF Begins, IsOutlet
<1> QED BY <1>1, <1>2, <1>3, <1>4, <1>5 DEF place, comp, port, end, q

LEMMA EndsIs ==
  ASSUME Undotted, root \in Roots, NEW path \in Instances, NEW c \in OwnConns(path), NEW b
  PROVE  /\ Reserved /\ endpointComponent(c.to) \in Imports(Architecture(path)) =>
              (Ends(b, ToPlace(path, c)) <=>
                 <<Inlet(path \o endpointComponent(c.to), SplitEndpoint(c.to).port),
                   <<"port", b>>>> \in Ways)
         /\ endpointComponent(c.to) \notin Imports(Architecture(path))
            /\ (endpointComponent(c.to) \notin {Input, Output} \/ path = NoName) =>
              (Ends(b, ToPlace(path, c)) <=> b = path \o c.to)
         /\ endpointComponent(c.to) = Output /\ path # NoName => ~Ends(b, ToPlace(path, c))
<1> DEFINE place == ToPlace(path, c)
           comp  == endpointComponent(c.to)
           port  == SplitEndpoint(c.to).port
           end   == path \o c.to
           q     == path \o comp
<1>1. /\ comp \in {Input, Output} /\ path # NoName => place = <<"junction", path, comp, port>>
      /\ comp \notin {Input, Output} /\ comp \in Imports(Architecture(path))
           => place = <<"junction", q, Input, port>>
      /\ ~(comp \in {Input, Output} /\ path # NoName)
           /\ ~(comp \notin {Input, Output} /\ comp \in Imports(Architecture(path)))
           => place = <<"port", end>>
  <2>1. path \in Names /\ c.to \in Names /\ Input \in {Input, Output}
    BY OwnHop
  <2> QED BY <2>1, PlaceIs DEF ToPlace
<1>2. Reserved /\ comp \in Imports(Architecture(path)) => comp \notin {Input, Output}
  BY ImportsAt
<1> HIDE DEF place, comp, port, end, q
<1>3. ASSUME place = <<"junction", q, Input, port>>
      PROVE  Ends(b, place) <=> <<Inlet(q, port), <<"port", b>>>> \in Ways
  <2>1. IsInlet(place) /\ place = Inlet(q, port) /\ place # <<"port", b>>
    <3>1. place[1] = "junction" /\ place[3] = Input /\ place = Inlet(q, port)
      BY <1>3 DEF Inlet
    <3> QED BY <3>1, Ported DEF IsInlet
  <2> QED BY <2>1 DEF Ends
<1>4. ASSUME place = <<"port", end>>
      PROVE  Ends(b, place) <=> b = end
  <2>1. ~IsInlet(place)
    BY <1>4, Ported
  <2>2. place = <<"port", b>> <=> b = end
    BY <1>4
  <2> QED BY <2>1, <2>2 DEF Ends
<1>5. ASSUME place = <<"junction", path, Output, port>>
      PROVE  ~Ends(b, place)
  <2>1. place[1] = "junction" /\ place[3] = Output
    BY <1>5
  <2> QED BY <2>1, Different, Ported DEF Ends, IsInlet
<1> QED BY <1>1, <1>2, <1>3, <1>4, <1>5 DEF place, comp, port, end, q

------------------------------------------------------------------------------
(* Endpoints put under a name, and the keys of the maps of a call. *)

LEMMA AppendIs ==
  ASSUME NEW p \in Names, NEW s \in STRING
  PROVE  Append(p, s) = p \o <<s>>
<1>1. ASSUME NEW S, NEW t \in Seq(S), NEW e \in S  PROVE Append(t, e) = t \o <<e>>
  OBVIOUS
<1> QED BY <1>1 DEF Names

LEMMA SplitShort ==
  ASSUME NEW e \in Names, Len(e) = 1
  PROVE  endpointComponent(e) = e /\ SplitEndpoint(e).port = NoPort
BY DEF endpointComponent, SplitEndpoint

LEMMA SplitLong ==
  ASSUME NEW p \in Names, p # <<>>, NEW s \in STRING
  PROVE  endpointComponent(p \o <<s>>) = p /\ SplitEndpoint(p \o <<s>>).port = s
<1> DEFINE e == p \o <<s>>
<1>1. e \in Names /\ Len(e) = Len(p) + 1 /\ Len(p) \in Nat
  BY Longer
<1>2. Front(e) = p /\ Last(e) = s
  BY FrontLast
<1>3. Len(p) # 0
  BY DEF Names
<1> HIDE DEF e
<1>4. Len(e) > 1
  BY <1>1, <1>3
<1>5. /\ e = SplitEndpoint(e).component \o <<SplitEndpoint(e).port>>
      /\ SplitEndpoint(e).component \in Names /\ SplitEndpoint(e).port \in STRING
      /\ SplitEndpoint(e).port = Last(e)
  BY <1>1, <1>4, SplitIs
<1>6. Front(e) = SplitEndpoint(e).component
  BY <1>5, FrontLast
<1> QED BY <1>2, <1>5, <1>6 DEF endpointComponent, e

\* A name of one segment and a port: the endpoint is the key of the port.
LEMMA KeyOf ==
  ASSUME NEW e \in Names, Named(e)
  PROVE  e = boundaryKey(endpointComponent(e), SplitEndpoint(e).port)
<1> DEFINE comp == SplitEndpoint(e).component
           port == SplitEndpoint(e).port
<1>1. /\ comp \in Names /\ Len(e) \in Nat
      /\ Len(e) > 1 => e = comp \o <<port>> /\ comp # <<>> /\ port \in STRING /\ port = Last(e)
      /\ ~(Len(e) > 1) => comp = e /\ port = NoPort
  BY SplitIs
<1> HIDE DEF comp, port
<1>2. CASE Len(e) > 1
  <2>1. port # NoPort
    <3>1. Len(NoName) = 0
      BY AtRoot
    <3>2. e # NoName
      BY <1>2, <3>1
    <3> QED BY <1>1, <1>2, <3>2 DEF Named
  <2>2. Append(comp, port) = comp \o <<port>>
    BY <1>1, <1>2, AppendIs
  <2> QED BY <1>1, <1>2, <2>1, <2>2 DEF boundaryKey, endpointComponent, comp, port
<1>3. CASE ~(Len(e) > 1)
  BY <1>1, <1>3 DEF boundaryKey, endpointComponent, comp, port
<1> QED BY <1>2, <1>3

\* A port, empty or not.
IsPort(p) == p = NoPort \/ p \in STRING

LEMMA PortIs ==
  ASSUME NEW e \in Names
  PROVE  IsPort(SplitEndpoint(e).port) /\ endpointComponent(e) \in Names
BY SplitIs DEF IsPort, endpointComponent

\* A key tells the component and the port that it is for.
LEMMA KeySplit ==
  ASSUME NEW g \in Names, Len(g) = 1, NEW p, IsPort(p)
  PROVE  /\ boundaryKey(g, p) \in Names
         /\ endpointComponent(boundaryKey(g, p)) = g
         /\ SplitEndpoint(boundaryKey(g, p)).port = p
<1>1. CASE p = NoPort
  BY <1>1, SplitShort DEF boundaryKey
<1>2. CASE p # NoPort
  <2>1. p \in STRING
    BY <1>2 DEF IsPort
  <2>2. boundaryKey(g, p) = g \o <<p>>
    BY <1>2, <2>1, AppendIs DEF boundaryKey
  <2>3. g # <<>>
    OBVIOUS
  <2> QED BY <2>1, <2>2, <2>3, SplitLong, Longer
<1> QED BY <1>1, <1>2

\* An endpoint is a component of its own, and not a boundary.
Inner(v) ==
  v \in Names /\ v # NoName /\ Named(v) /\ endpointComponent(v) \notin {Input, Output}

LEMMA ShortBoundary == Len(Input) = 1 /\ Len(Output) = 1
BY DEF Input, Output

\* Put under the name of a component it is still one.
LEMMA InnerPrefixed ==
  ASSUME NEW g \in Names, Len(g) = 1, g \notin {Input, Output}, NEW v, Inner(v)
  PROVE  prefixEndpoint(g, SplitEndpoint(v)) = g \o v /\ Inner(g \o v)
<1> DEFINE comp == SplitEndpoint(v).component
           port == SplitEndpoint(v).port
           e    == g \o v
<1>1. /\ comp \in Names /\ Len(v) \in Nat
      /\ Len(v) > 1 => v = comp \o <<port>> /\ comp # <<>> /\ port \in STRING /\ port = Last(v)
      /\ ~(Len(v) > 1) => comp = v /\ port = NoPort
  BY SplitIs DEF Inner
<1>2. v \in Names /\ v # <<>> /\ Last(v) # NoPort
  BY DEF Inner, Named, NoName
<1>3. e \in Names /\ Len(e) = 1 + Len(v) /\ Front(e) = g \o Front(v) /\ Last(e) = Last(v) /\ e # <<>>
  <2>1. e \in Names /\ Len(e) = Len(g) + Len(v)
    BY <1>2, Cat
  <2>2. Front(e) = g \o Front(v) /\ Last(e) = Last(v) /\ e # <<>>
    BY <1>2, FrontOfCat
  <2> QED BY <2>1, <2>2
<1>4. Front(v) \in Names /\ Len(Front(v)) \in Nat /\ Len(v) = Len(Front(v)) + 1
  BY <1>2, Shorter
<1> HIDE DEF e
<1>5. endpointComponent(e) = Front(e)
  <2>1. Len(e) > 1
    BY <1>1, <1>3, <1>4
  <2>2. /\ e = SplitEndpoint(e).component \o <<SplitEndpoint(e).port>>
        /\ SplitEndpoint(e).component \in Names /\ SplitEndpoint(e).port \in STRING
    BY <1>3, <2>1, SplitIs
  <2>3. Front(e) = SplitEndpoint(e).component
    BY <2>2, FrontLast
  <2> QED BY <2>3 DEF endpointComponent
<1>6. Front(e) \notin {Input, Output}
  <2>1. CASE Front(v) = <<>>
    BY <1>3, <2>1, CatLaws
  <2>2. CASE Front(v) # <<>>
    <3>1. Len(Front(v)) # 0
      BY <1>4, <2>2 DEF Names
    <3>2. Len(g \o Front(v)) = Len(g) + Len(Front(v))
      BY <1>4, Cat
    <3>3. Len(Front(e)) # 1
      BY <1>3, <1>4, <3>1, <3>2
    <3> HIDE DEF comp, port
    <3> QED BY <3>3, ShortBoundary
  <2> QED BY <2>1, <2>2
<1>7. Inner(e)
  BY <1>2, <1>3, <1>5, <1>6 DEF Inner, Named, NoName
<1>8. prefixEndpoint(g, SplitEndpoint(v)) = e
  <2>1. CASE Len(v) > 1
    <3>1. v = comp \o <<port>> /\ port \in STRING /\ port # NoPort
      BY <1>1, <1>2, <2>1
    <3>2. <<port>> \in Names
      BY <3>1, One
    <3> HIDE DEF comp, port
    <3>3. e = (g \o comp) \o <<port>>
      BY <1>1, <3>1, <3>2, CatLaws DEF e
    <3>4. Append(g \o comp, port) = (g \o comp) \o <<port>>
      <4>1. g \o comp \in Names
        BY <1>1, Cat
      <4> QED BY <3>1, <4>1, AppendIs
    <3> QED BY <3>1, <3>3, <3>4 DEF prefixEndpoint, JoinEndpoint, comp, port
  <2>2. CASE ~(Len(v) > 1)
    BY <1>1, <2>2 DEF prefixEndpoint, e
  <2> QED BY <2>1, <2>2
<1> QED BY <1>7, <1>8 DEF e

\* The package of an instance but the root was validated when it was pulled.
LEMMA ValidAt ==
  ASSUME Undotted, root \in Roots, NEW q \in Instances, q # NoName
  PROVE  \A c \in Range(Architecture(q).connections) :
           /\ c.from # NoName /\ c.to # NoName
           /\ endpointComponent(c.from) # Output /\ endpointComponent(c.to) # Input
<1> DEFINE p == Front(q)
           name == <<Last(q)>>
<1>1. /\ q \in Names /\ p \in Instances /\ name \in Sons(Architecture(p))
  BY InstanceIs DEF IsInstance
<1>2. q = p \o name
  BY <1>1, Shorter DEF NoName
<1>3. p \in Names /\ PackageAt(p) \in Parsed
  BY <1>1, InstanceIs DEF IsInstance
<1> HIDE DEF p, name
<1> DEFINE key == Key(Architecture(p).components[name])
<1>4. Architecture(q) = Library[key].entry /\ Importable(key)
  BY <1>1, <1>2, <1>3, SonIs
<1> HIDE DEF key
<1>5. Validate(Library[key].entry)
  <2> DEFINE pkg == Library[key]
  <2>1. PackageValid(pkg) /\ pkg.kind = "orchestration"
    BY <1>4 DEF Importable, Resolvable, Kind
  <2> HIDE DEF pkg
  <2>2. EntryValid(pkg)
    BY <2>1 DEF PackageValid
  <2>3. Validate(pkg.entry)
    BY <2>1, <2>2 DEF EntryValid
  <2> QED BY <2>3 DEF pkg
<1> QED BY <1>4, <1>5 DEF Validate, checkConnections

\* Where a package writes to an import of its own that records no such port.
Dead(abs) ==
  \E path \in Instances : \E g \in Imports(Architecture(path)) :
    abs = path \o g \/ \E p \in STRING : abs = (path \o g) \o <<p>>

\* Nothing of that name is in the flat architecture.
LEMMA DeadIsNot ==
  ASSUME Undotted, root \in Roots, Reserved, NEW abs, Dead(abs)
  PROVE  endpointComponent(abs) \notin {Input, Output} \cup Leaves
<1>1. PICK path \in Instances : \E g \in Imports(Architecture(path)) :
             abs = path \o g \/ \E p \in STRING : abs = (path \o g) \o <<p>>
  BY DEF Dead
<1>2. PICK g \in Imports(Architecture(path)) :
             abs = path \o g \/ \E p \in STRING : abs = (path \o g) \o <<p>>
  BY <1>1
<1>3. /\ path \in Names
      /\ g \in Names /\ Len(g) = 1 /\ g[1] \in STRING /\ g = <<g[1]>> /\ g # NoName
      /\ path \o g \in Names /\ path \o g # NoName /\ g \notin {Input, Output}
  BY ImportsAt
<1>4. ASSUME NEW r \in Instances, NEW h \in Imports(Architecture(r))
      PROVE  r \o h \notin {Input, Output} \cup Leaves
  <2> DEFINE rh == r \o h
  <2>1. /\ r \in Names /\ h \in Names /\ Len(h) = 1 /\ h[1] \in STRING /\ h = <<h[1]>>
        /\ rh \in Names /\ h \notin {Input, Output}
    BY <1>4, ImportsAt
  <2>2. Front(rh) = r /\ Last(rh) = h[1]
    BY <2>1, FrontLast
  <2>3. Len(rh) = Len(r) + 1 /\ Len(r) \in Nat
    BY <2>1, Cat
  <2>4. rh \notin {Input, Output}
    <3>1. CASE r = <<>>
      BY <2>1, <3>1, CatLaws
    <3>2. CASE r # <<>>
      <4>1. Len(r) # 0
        BY <2>1, <3>2 DEF Names
      <4> QED BY <2>3, <4>1, ShortBoundary
    <3> QED BY <3>1, <3>2
  <2> HIDE DEF rh
  <2>5. rh \notin Leaves
    <3>1. <<Last(rh)>> \in Imports(Architecture(Front(rh)))
      BY <1>4, <2>1, <2>2
    <3> QED BY <3>1, LeafIs
  <2> QED BY <2>4, <2>5 DEF rh
<1>5. CASE \E p \in STRING : abs = (path \o g) \o <<p>>
  <2> DEFINE pg == path \o g
  <2>1. PICK p \in STRING : abs = pg \o <<p>>
    BY <1>5
  <2>2. pg \in Names /\ pg # NoName
    BY <1>3
  <2>3. pg \notin {Input, Output} \cup Leaves
    BY <1>4
  <2> HIDE DEF pg
  <2>4. abs \in Names /\ Len(abs) = Len(pg) + 1 /\ Len(pg) \in Nat
    BY <2>1, <2>2, Longer
  <2>5. Len(pg) # 0
    BY <2>2 DEF Names, NoName
  <2>6. endpointComponent(abs) = Front(abs)
    <3>1. /\ abs = SplitEndpoint(abs).component \o <<SplitEndpoint(abs).port>>
          /\ SplitEndpoint(abs).component \in Names /\ SplitEndpoint(abs).port \in STRING
      BY <2>4, <2>5, SplitIs
    <3>2. Front(abs) = SplitEndpoint(abs).component
      BY <3>1, FrontLast
    <3> QED BY <3>2 DEF endpointComponent
  <2>7. Front(abs) = pg
    BY <2>1, <2>2, FrontLast
  <2> QED BY <2>3, <2>6, <2>7
<1>6. CASE abs = path \o g /\ path = NoName
  <2>1. abs = g
    BY <1>3, <1>6, CatLaws DEF NoName
  <2>2. endpointComponent(abs) = abs
    BY <1>3, <2>1, SplitShort
  <2> QED BY <1>4, <1>6, <2>2
<1>7. CASE abs = path \o g /\ path # NoName
  <2>1. abs \in Names /\ Len(abs) = Len(path) + 1 /\ Len(path) \in Nat /\ Front(abs) = path
    BY <1>3, <1>7, Cat, FrontLast
  <2>2. Len(path) # 0
    BY <1>3, <1>7 DEF Names, NoName
  <2>3. endpointComponent(abs) = path
    <3>1. /\ abs = SplitEndpoint(abs).component \o <<SplitEndpoint(abs).port>>
          /\ SplitEndpoint(abs).component \in Names /\ SplitEndpoint(abs).port \in STRING
      BY <2>1, <2>2, SplitIs
    <3>2. Front(abs) = SplitEndpoint(abs).component
      BY <3>1, FrontLast
    <3> QED BY <2>1, <3>2 DEF endpointComponent
  <2> DEFINE r == Front(path)
             h == <<Last(path)>>
  <2>4. r \in Instances /\ h \in Sons(Architecture(r)) /\ path = r \o h
    <3>1. IsInstance(path) /\ r \in Instances
      BY <1>7, InstanceIs
    <3>2. h \in Sons(Architecture(r))
      BY <1>7, <3>1 DEF IsInstance
    <3>3. path = r \o h
      BY <1>3, <1>7, Shorter DEF NoName
    <3> QED BY <3>1, <3>2, <3>3
  <2>5. h \in Imports(Architecture(r))
    BY <2>4 DEF Sons
  <2> HIDE DEF r, h
  <2> QED BY <1>4, <2>3, <2>4, <2>5
<1> QED BY <1>2, <1>5, <1>6, <1>7

------------------------------------------------------------------------------
(* What a connection is rewritten to. *)

Connections == [from : Names, to : Names]

\* The endpoints that an endpoint is rewritten to.
Put(map, e) == IF e \in DOMAIN map THEN map[e] ELSE <<e>>

ListsNames(map) == \A key \in DOMAIN map : map[key] \in Seq(Names)

LEMMA PutNames ==
  ASSUME NEW map, ListsNames(map), NEW e \in Names
  PROVE  Put(map, e) \in Seq(Names)
<1>1. <<e>> \in Seq(Names)
  BY OneOf
<1> QED BY <1>1 DEF Put, ListsNames

LEMMA RowsAre ==
  ASSUME NEW froms \in Seq(Names), NEW tos \in Seq(Names)
  PROVE  LET rows == [i \in DOMAIN froms |-> [j \in DOMAIN tos |-> [from |-> froms[i], to |-> tos[j]]]]
         IN  /\ FlattenSeq(rows) \in Seq(Connections)
             /\ \A d : d \in Range(FlattenSeq(rows)) <=>
                  \E v \in Range(froms) : \E w \in Range(tos) : d = [from |-> v, to |-> w]
<1> DEFINE row(i) == [j \in DOMAIN tos |-> [from |-> froms[i], to |-> tos[j]]]
           rows == [i \in DOMAIN froms |-> row(i)]
<1>1. Len(froms) \in Nat /\ DOMAIN froms = 1..Len(froms) /\ \A i \in DOMAIN froms : froms[i] \in Names
  OBVIOUS
<1>2. Len(tos) \in Nat /\ DOMAIN tos = 1..Len(tos) /\ \A j \in DOMAIN tos : tos[j] \in Names
  OBVIOUS
<1>3. ASSUME NEW i \in DOMAIN froms
      PROVE  row(i) \in Seq(Connections)
  BY <1>1, <1>2 DEF Connections
<1>4. rows \in Seq(Seq(Connections)) /\ DOMAIN rows = DOMAIN froms
  <2>1. \A i \in DOMAIN froms : row(i) \in Seq(Connections)
    BY <1>3
  <2> HIDE DEF row
  <2> QED BY <1>1, <2>1
<1>5. \A i \in DOMAIN rows : rows[i] = row(i)
  OBVIOUS
<1>6. \A i \in DOMAIN froms : \A d : d \in Range(row(i)) <=>
        \E j \in DOMAIN tos : d = [from |-> froms[i], to |-> tos[j]]
  BY DEF Range
<1> HIDE DEF rows, row
<1>7. /\ FlattenSeq(rows) \in Seq(Connections)
      /\ \A d : d \in Range(FlattenSeq(rows)) <=> \E i \in DOMAIN rows : d \in Range(rows[i])
  BY <1>4, FlattenSeqIs
<1>8. ASSUME NEW d
      PROVE  d \in Range(FlattenSeq(rows)) <=>
               \E v \in Range(froms) : \E w \in Range(tos) : d = [from |-> v, to |-> w]
  <2>1. ASSUME d \in Range(FlattenSeq(rows))
        PROVE  \E v \in Range(froms) : \E w \in Range(tos) : d = [from |-> v, to |-> w]
    <3>1. PICK i \in DOMAIN froms : d \in Range(row(i))
      BY <1>4, <1>5, <1>7, <2>1
    <3>2. PICK j \in DOMAIN tos : d = [from |-> froms[i], to |-> tos[j]]
      BY <1>6, <3>1
    <3>3. froms[i] \in Range(froms) /\ tos[j] \in Range(tos)
      BY DEF Range
    <3> QED BY <3>2, <3>3
  <2>2. ASSUME NEW v \in Range(froms), NEW w \in Range(tos), d = [from |-> v, to |-> w]
        PROVE  d \in Range(FlattenSeq(rows))
    <3>1. PICK i \in DOMAIN froms : v = froms[i]
      BY DEF Range
    <3>2. PICK j \in DOMAIN tos : w = tos[j]
      BY DEF Range
    <3>3. d = [from |-> froms[i], to |-> tos[j]]
      BY <2>2, <3>1, <3>2
    <3>4. d \in Range(row(i))
      BY <1>6, <3>3
    <3> QED BY <1>4, <1>5, <1>7, <3>4
  <2> QED BY <2>1, <2>2
<1> QED BY <1>7, <1>8 DEF rows, row

\* One connection from each endpoint that its source is put for to each one
\* that its destination is put for.
LEMMA RewriteIs ==
  ASSUME NEW inputTargets, ListsNames(inputTargets), NEW outputSources, ListsNames(outputSources),
         NEW c, c.from \in Names, c.to \in Names
  PROVE  LET list == rewriteConnection(c, inputTargets, outputSources)
         IN  /\ list \in Seq(Connections)
             /\ \A d : d \in Range(list) <=>
                  \E v \in Range(Put(outputSources, c.from)) :
                    \E w \in Range(Put(inputTargets, c.to)) : d = [from |-> v, to |-> w]
<1> DEFINE froms == Put(outputSources, c.from)
           tos == Put(inputTargets, c.to)
           list == rewriteConnection(c, inputTargets, outputSources)
<1>1. froms \in Seq(Names) /\ tos \in Seq(Names)
  BY PutNames
<1>2. list = FlattenSeq([i \in DOMAIN froms |-> [j \in DOMAIN tos |-> [from |-> froms[i], to |-> tos[j]]]])
  BY DEF rewriteConnection, Put
<1> HIDE DEF froms, tos, list
<1> QED
  <2>1. /\ list \in Seq(Connections)
        /\ \A d : d \in Range(list) <=>
             \E v \in Range(froms) : \E w \in Range(tos) : d = [from |-> v, to |-> w]
    BY <1>1, <1>2, RowsAre
  <2> QED BY <2>1 DEF froms, tos, list

\* The connections that a call returns: those its calls gave it, and its own
\* rewritten.
LEMMA FlattenedConnections ==
  ASSUME NEW f, FrameInv(f), f.out.connections \in Seq(Connections),
         ListsNames(f.inputTargets), ListsNames(f.outputSources),
         f.arch.connections \in Seq(Connections)
  PROVE  /\ Flattened(f).connections \in Seq(Connections)
         /\ \A d : d \in Range(Flattened(f).connections) <=>
              \/ d \in Range(f.out.connections)
              \/ \E c \in Range(f.arch.connections) :
                   \E v \in Range(Put(f.outputSources, c.from)) :
                     \E w \in Range(Put(f.inputTargets, c.to)) : d = [from |-> v, to |-> w]
<1> DEFINE own == f.arch.connections
           list(c) == rewriteConnection(c, f.inputTargets, f.outputSources)
           ss == [i \in DOMAIN own |-> list(own[i])]
           all == f.out.connections \o FlattenSeq(ss)
<1>1. Flattened(f).connections = all
  BY FlattenedIs
<1>2. /\ Len(own) \in Nat /\ DOMAIN own = 1..Len(own)
      /\ \A i \in DOMAIN own : own[i].from \in Names /\ own[i].to \in Names
  <2>1. Len(own) \in Nat /\ DOMAIN own = 1..Len(own) /\ \A i \in DOMAIN own : own[i] \in Connections
    OBVIOUS
  <2> QED BY <2>1 DEF Connections
<1>3. \A i \in DOMAIN own :
        /\ list(own[i]) \in Seq(Connections)
        /\ \A d : d \in Range(list(own[i])) <=>
             \E v \in Range(Put(f.outputSources, own[i].from)) :
               \E w \in Range(Put(f.inputTargets, own[i].to)) : d = [from |-> v, to |-> w]
  BY <1>2, RewriteIs
<1> HIDE DEF list
<1>4. ss \in Seq(Seq(Connections)) /\ DOMAIN ss = DOMAIN own /\ \A i \in DOMAIN own : ss[i] = list(own[i])
  BY <1>2, <1>3
<1>5. \A c : c \in Range(own) <=> \E i \in DOMAIN own : c = own[i]
  BY DEF Range
<1> HIDE DEF ss, own
<1>6. /\ FlattenSeq(ss) \in Seq(Connections)
      /\ \A x : x \in Range(FlattenSeq(ss)) <=> \E i \in DOMAIN ss : x \in Range(ss[i])
  BY <1>4, FlattenSeqIs
<1>7. all \in Seq(Connections) /\ Range(all) = Range(f.out.connections) \cup Range(FlattenSeq(ss))
  BY <1>6, CatRange
<1> HIDE DEF all
<1>8. \A d : d \in Range(FlattenSeq(ss)) <=>
        \E c \in Range(own) :
          \E v \in Range(Put(f.outputSources, c.from)) :
            \E w \in Range(Put(f.inputTargets, c.to)) : d = [from |-> v, to |-> w]
  <2>1. ASSUME NEW d, d \in Range(FlattenSeq(ss))
        PROVE  \E c \in Range(own) :
                 \E v \in Range(Put(f.outputSources, c.from)) :
                   \E w \in Range(Put(f.inputTargets, c.to)) : d = [from |-> v, to |-> w]
    <3>1. PICK i \in DOMAIN own : d \in Range(list(own[i]))
      BY <1>4, <1>6, <2>1
    <3>2. own[i] \in Range(own)
      BY <1>5
    <3> QED BY <1>3, <3>1, <3>2
  <2>2. ASSUME NEW d, NEW c \in Range(own),
               \E v \in Range(Put(f.outputSources, c.from)) :
                 \E w \in Range(Put(f.inputTargets, c.to)) : d = [from |-> v, to |-> w]
        PROVE  d \in Range(FlattenSeq(ss))
    <3>1. PICK i \in DOMAIN own : c = own[i]
      BY <1>5
    <3>2. d \in Range(list(own[i]))
      BY <1>3, <2>2, <3>1
    <3>3. d \in Range(ss[i]) /\ i \in DOMAIN ss
      BY <1>4, <3>2
    <3> QED BY <1>6, <3>3
  <2> QED BY <2>1, <2>2
<1> QED BY <1>1, <1>7, <1>8 DEF own

------------------------------------------------------------------------------
(* What the maps of a call say of the boundaries of the packages it is done *)
(* with.                                                                   *)

\* A component's port a leads to a port of the output of the instance q, or
\* a port of its input leads to a.
Leads(side, a, q, p) ==
  IF side = Output THEN <<<<"port", a>>, Outlet(q, p)>> \in Ways
                   ELSE <<Inlet(q, p), <<"port", a>>>> \in Ways

\* For each port of an import in done the map has the ports that lead there,
\* or that it leads to, and no others.
MapCarried(map, path, done, side) ==
  /\ ListsNames(map)
  /\ \A key \in DOMAIN map : \E g \in done : \E p : IsPort(p) /\ key = boundaryKey(g, p)
  /\ \A g \in done : \A p : IsPort(p) /\ boundaryKey(g, p) \in DOMAIN map =>
       \A v \in Range(map[boundaryKey(g, p)]) :
         Inner(v) /\ (Dead(path \o v) \/ Leads(side, path \o v, path \o g, p))
  /\ \A g \in done : \A p, a : Leads(side, a, path \o g, p) =>
       /\ IsPort(p) /\ boundaryKey(g, p) \in DOMAIN map
       /\ \E v \in Range(map[boundaryKey(g, p)]) : a = path \o v

LEMMA EmptyMap ==
  ASSUME NEW path, NEW side
  PROVE  MapCarried(<<>>, path, {}, side)
BY DEF MapCarried, ListsNames

\* What is put for an endpoint of an import, and for another endpoint.
IsPut(list, path, e, side) ==
  LET g == endpointComponent(e)
      p == SplitEndpoint(e).port
  IN  /\ g \notin Imports(Architecture(path)) => list = <<e>>
      /\ g \in Imports(Architecture(path)) =>
           /\ \A v \in Range(list) :
                Inner(v) /\ (Dead(path \o v) \/ Leads(side, path \o v, path \o g, p))
           /\ \A a : Leads(side, a, path \o g, p) => \E v \in Range(list) : a = path \o v

\* So it is when the call is done with all the imports.
LEMMA PutIs ==
  ASSUME Undotted, root \in Roots, Reserved, NEW path \in Instances, NEW map, NEW side,
         MapCarried(map, path, Imports(Architecture(path)), side),
         NEW e \in Names, Named(e)
  PROVE  IsPut(Put(map, e), path, e, side)
<1> DEFINE g == endpointComponent(e)
           p == SplitEndpoint(e).port
           done == Imports(Architecture(path))
<1>1. e = boundaryKey(g, p) /\ IsPort(p)
  BY KeyOf, PortIs
<1>2. \A h \in done : h \in Names /\ Len(h) = 1 /\ h # NoName /\ h \notin {Input, Output}
  BY ImportsAt
<1>3. path \in Names
  BY ImportsAt
<1>4. ASSUME e \in DOMAIN map  PROVE g \in done
  <2>1. PICK h \in done : \E r : IsPort(r) /\ e = boundaryKey(h, r)
    BY <1>4 DEF MapCarried
  <2>2. PICK r : IsPort(r) /\ e = boundaryKey(h, r)
    BY <2>1
  <2>3. endpointComponent(boundaryKey(h, r)) = h
    BY <1>2, <2>2, KeySplit
  <2> QED BY <2>1, <2>2, <2>3
<1>5. g \notin done => Put(map, e) = <<e>>
  BY <1>4 DEF Put
<1>6. ASSUME g \in done, e \in DOMAIN map
      PROVE  /\ \A v \in Range(Put(map, e)) :
                  Inner(v) /\ (Dead(path \o v) \/ Leads(side, path \o v, path \o g, p))
             /\ \A a : Leads(side, a, path \o g, p) => \E v \in Range(Put(map, e)) : a = path \o v
  <2>1. Put(map, e) = map[boundaryKey(g, p)] /\ boundaryKey(g, p) \in DOMAIN map
    BY <1>1, <1>6 DEF Put
  <2> HIDE DEF g, p, done
  <2> QED BY <1>1, <1>6, <2>1 DEF MapCarried, done
<1>7. ASSUME g \in done, e \notin DOMAIN map
      PROVE  /\ \A v \in Range(Put(map, e)) :
                  Inner(v) /\ (Dead(path \o v) \/ Leads(side, path \o v, path \o g, p))
             /\ \A a : Leads(side, a, path \o g, p) => \E v \in Range(Put(map, e)) : a = path \o v
  <2>1. Put(map, e) = <<e>> /\ Range(<<e>>) = {e}
    BY <1>7 DEF Put, Range
  <2>2. Inner(e)
    <3>1. g # NoName /\ g \notin {Input, Output}
      BY <1>2, <1>7
    <3>2. e # NoName
      <4>1. endpointComponent(NoName) = NoName
        BY DEF endpointComponent, SplitEndpoint, NoName
      <4> QED BY <3>1, <4>1
    <3> QED BY <3>1, <3>2 DEF Inner
  <2>3. Dead(path \o e)
    <3>1. CASE p = NoPort
      <4>1. e = g
        BY <1>1, <3>1 DEF boundaryKey
      <4> HIDE DEF g, p, done
      <4> QED BY <1>7, <4>1 DEF Dead, done
    <3>2. CASE p # NoPort
      <4>1. p \in STRING /\ g \in Names
        BY <1>1, <1>2, <1>7, <3>2 DEF IsPort
      <4>2. e = g \o <<p>>
        BY <1>1, <3>2, <4>1, AppendIs DEF boundaryKey
      <4>3. <<p>> \in Names
        BY <4>1, One
      <4> HIDE DEF g, p, done
      <4>4. path \o e = (path \o g) \o <<p>>
        BY <1>3, <4>1, <4>2, <4>3, CatAssoc
      <4> QED BY <1>7, <4>1, <4>4 DEF Dead, done
    <3> QED BY <3>1, <3>2
  <2>4. ~ \E a : Leads(side, a, path \o g, p)
    <3> HIDE DEF g, p, done
    <3> QED BY <1>1, <1>7 DEF MapCarried, done
  <2> HIDE DEF g, p, done
  <2> QED BY <2>1, <2>2, <2>3, <2>4
<1> QED BY <1>5, <1>6, <1>7 DEF IsPut

\* The list put for an endpoint has some member only if it is nonempty.
LEMMA PutOwn ==
  ASSUME NEW e
  PROVE  Range(<<e>>) = {e}
BY DEF Range

\* An own endpoint of a package, which is neither a boundary of it nor that
\* of an import.
LEMMA OwnInner ==
  ASSUME Undotted, root \in Roots, NamedPorts, NEW q \in Instances,
         NEW c \in Range(Architecture(q).connections)
  PROVE  /\ c.from \in Names /\ c.to \in Names /\ Named(c.from) /\ Named(c.to)
         /\ q # NoName /\ endpointComponent(c.from) # Input => Inner(c.from)
         /\ q # NoName /\ endpointComponent(c.to) # Output => Inner(c.to)
<1>1. q \in Names /\ PackageAt(q) \in Parsed
  BY ImportsAt
<1>2. c.from \in Names /\ c.to \in Names
  BY <1>1, ConnectionsAt
<1>3. Named(c.from) /\ Named(c.to)
  BY <1>1 DEF NamedPorts, Architecture, Parsed
<1>4. q # NoName => /\ c.from # NoName /\ c.to # NoName
                    /\ endpointComponent(c.from) # Output /\ endpointComponent(c.to) # Input
  BY ValidAt
<1> QED BY <1>2, <1>3, <1>4 DEF Inner

\* What the source of a connection is put for: its own boundary, or the
\* ports that the connection begins at.
IsSource(list, q, c) ==
  /\ q # NoName /\ endpointComponent(c.from) = Input => Range(list) = {c.from}
  /\ q # NoName /\ endpointComponent(c.from) # Input => \A v \in Range(list) : Inner(v)
  /\ c \in OwnConns(q) /\ ~(q # NoName /\ endpointComponent(c.from) = Input) =>
       \A v \in Range(list) : Dead(q \o v) \/ Begins(q \o v, FromPlace(q, c))
  /\ c \in OwnConns(q) => \A a : Begins(a, FromPlace(q, c)) =>
       \E v \in Range(list) : a = q \o v

LEMMA SourceIs ==
  ASSUME Undotted, root \in Roots, Reserved, NamedPorts, NEW q \in Instances, NEW map,
         MapCarried(map, q, Imports(Architecture(q)), Output),
         NEW c \in Range(Architecture(q).connections)
  PROVE  IsSource(Put(map, c.from), q, c)
<1> DEFINE g == endpointComponent(c.from)
           p == SplitEndpoint(c.from).port
           done == Imports(Architecture(q))
           put == Range(Put(map, c.from))
<1>1. /\ c.from \in Names /\ Named(c.from) /\ (q # NoName /\ g # Input => Inner(c.from))
      /\ q \in Names
  BY OwnInner, ImportsAt
<1>2. Input \notin done /\ Output \notin done
  BY ImportsAt
<1>3. /\ g \notin done => put = {c.from}
      /\ g \in done =>
           /\ \A v \in put : Inner(v) /\ (Dead(q \o v) \/ Leads(Output, q \o v, q \o g, p))
           /\ \A a : Leads(Output, a, q \o g, p) => \E v \in put : a = q \o v
  <2>1. IsPut(Put(map, c.from), q, c.from, Output)
    BY <1>1, PutIs
  <2>2. Range(<<c.from>>) = {c.from}
    BY PutOwn
  <2> QED BY <2>1, <2>2 DEF IsPut
<1>4. q # NoName => g # Output
  BY ValidAt
<1>5. c \in OwnConns(q) =>
      /\ g \in done => \A a : Begins(a, FromPlace(q, c)) <=> Leads(Output, a, q \o g, p)
      /\ g \notin done /\ (g \notin {Input, Output} \/ q = NoName) =>
           \A a : Begins(a, FromPlace(q, c)) <=> a = q \o c.from
      /\ g = Input /\ q # NoName => \A a : ~Begins(a, FromPlace(q, c))
  BY BeginsIs DEF Leads
<1> HIDE DEF g, p, done, put
<1> QED
  <2>1. q # NoName /\ g = Input => put = {c.from}
    BY <1>2, <1>3
  <2>2. q # NoName /\ g # Input => \A v \in put : Inner(v)
    BY <1>1, <1>3
  <2>3. c \in OwnConns(q) /\ ~(q # NoName /\ g = Input) =>
          \A v \in put : Dead(q \o v) \/ Begins(q \o v, FromPlace(q, c))
    BY <1>3, <1>4, <1>5
  <2>4. c \in OwnConns(q) => \A a : Begins(a, FromPlace(q, c)) => \E v \in put : a = q \o v
    BY <1>3, <1>4, <1>5
  <2> QED BY <2>1, <2>2, <2>3, <2>4 DEF IsSource, g, put

\* The same of its destination.
IsTarget(list, q, c) ==
  /\ q # NoName /\ endpointComponent(c.to) = Output => Range(list) = {c.to}
  /\ q # NoName /\ endpointComponent(c.to) # Output => \A v \in Range(list) : Inner(v)
  /\ c \in OwnConns(q) /\ ~(q # NoName /\ endpointComponent(c.to) = Output) =>
       \A v \in Range(list) : Dead(q \o v) \/ Ends(q \o v, ToPlace(q, c))
  /\ c \in OwnConns(q) => \A b : Ends(b, ToPlace(q, c)) =>
       \E v \in Range(list) : b = q \o v

LEMMA TargetIs ==
  ASSUME Undotted, root \in Roots, Reserved, NamedPorts, NEW q \in Instances, NEW map,
         MapCarried(map, q, Imports(Architecture(q)), Input),
         NEW c \in Range(Architecture(q).connections)
  PROVE  IsTarget(Put(map, c.to), q, c)
<1> DEFINE g == endpointComponent(c.to)
           p == SplitEndpoint(c.to).port
           done == Imports(Architecture(q))
           put == Range(Put(map, c.to))
<1>1. /\ c.to \in Names /\ Named(c.to) /\ (q # NoName /\ g # Output => Inner(c.to))
      /\ q \in Names
  BY OwnInner, ImportsAt
<1>2. Input \notin done /\ Output \notin done
  BY ImportsAt
<1>3. /\ g \notin done => put = {c.to}
      /\ g \in done =>
           /\ \A v \in put : Inner(v) /\ (Dead(q \o v) \/ Leads(Input, q \o v, q \o g, p))
           /\ \A a : Leads(Input, a, q \o g, p) => \E v \in put : a = q \o v
  <2>1. IsPut(Put(map, c.to), q, c.to, Input)
    BY <1>1, PutIs
  <2>2. Range(<<c.to>>) = {c.to}
    BY PutOwn
  <2> QED BY <2>1, <2>2 DEF IsPut
<1>4. q # NoName => g # Input
  BY ValidAt
<1>5. c \in OwnConns(q) =>
      /\ g \in done => \A a : Ends(a, ToPlace(q, c)) <=> Leads(Input, a, q \o g, p)
      /\ g \notin done /\ (g \notin {Input, Output} \/ q = NoName) =>
           \A a : Ends(a, ToPlace(q, c)) <=> a = q \o c.to
      /\ g = Output /\ q # NoName => \A a : ~Ends(a, ToPlace(q, c))
  BY EndsIs, Different DEF Leads
<1> HIDE DEF g, p, done, put
<1> QED
  <2>1. q # NoName /\ g = Output => put = {c.to}
    BY <1>2, <1>3
  <2>2. q # NoName /\ g # Output => \A v \in put : Inner(v)
    BY <1>1, <1>3
  <2>3. c \in OwnConns(q) /\ ~(q # NoName /\ g = Output) =>
          \A v \in put : Dead(q \o v) \/ Ends(q \o v, ToPlace(q, c))
    BY <1>3, <1>4, <1>5
  <2>4. c \in OwnConns(q) => \A b : Ends(b, ToPlace(q, c)) => \E v \in put : b = q \o v
    BY <1>3, <1>4, <1>5
  <2> QED BY <2>1, <2>2, <2>3, <2>4 DEF IsTarget, g, put

------------------------------------------------------------------------------
(* What a call has carried over from the packages it is done with, and what *)
(* it returns.                                                              *)

IsRoute(path, d) ==
  \/ Dead(path \o d.from) \/ Dead(path \o d.to)
  \/ <<path \o d.from, path \o d.to>> \in Routes

IsInside(d) == Inner(d.from) /\ Inner(d.to)

\* The connection is one of the ports a and b, seen from path.
Joins(d, path, a, b) == a = path \o d.from /\ b = path \o d.to

\* Every route over a connection of the instance.
RoutesOver(conns, path, instance) ==
  \A c \in OwnConns(instance) : \A a, b :
    Begins(a, FromPlace(instance, c)) /\ Ends(b, ToPlace(instance, c)) =>
      \E d \in Range(conns) : IsInside(d) /\ Joins(d, path, a, b)

\* The connections are routes, all those that stay below an import in done.
Brought(conns, path, done) ==
  /\ conns \in Seq(Connections)
  /\ \A d \in Range(conns) : IsInside(d) /\ IsRoute(path, d)
  /\ \A g \in done : \A instance \in Instances :
       Under(path \o g, instance) => RoutesOver(conns, path, instance)

CarriedFor(frame, path, done) ==
  /\ Brought(frame.out.connections, path, done)
  /\ MapCarried(frame.inputTargets, path, done, Input)
  /\ MapCarried(frame.outputSources, path, done, Output)

Carried(frame, path, over) == CarriedFor(frame, path, over \cap Imports(Architecture(path)))

\* The connections below an instance, and those at its own boundaries.
FromOutside(d) == endpointComponent(d.from) = Input
ToOutside(d) == endpointComponent(d.to) = Output

\* From the port a to a port of the output of q, and from one of its input.
LeavesAs(d, q, p, a) ==
  Inner(d.from) /\ ToOutside(d) /\ SplitEndpoint(d.to).port = p /\ a = q \o d.from

EntersAs(d, q, p, a) ==
  Inner(d.to) /\ FromOutside(d) /\ SplitEndpoint(d.from).port = p /\ a = q \o d.to

AreWhole(conns, q) ==
  /\ conns \in Seq(Connections)
  /\ \A d \in Range(conns) :
       /\ FromOutside(d) \/ Inner(d.from)
       /\ ToOutside(d) \/ Inner(d.to)
       /\ IsInside(d) => IsRoute(q, d)
       /\ Inner(d.from) /\ ToOutside(d) =>
            Dead(q \o d.from) \/ Leads(Output, q \o d.from, q, SplitEndpoint(d.to).port)
       /\ FromOutside(d) /\ Inner(d.to) =>
            Dead(q \o d.to) \/ Leads(Input, q \o d.to, q, SplitEndpoint(d.from).port)
  /\ \A instance \in Instances : Under(q, instance) => RoutesOver(conns, q, instance)
  /\ \A p, a : Leads(Output, a, q, p) => \E d \in Range(conns) : LeavesAs(d, q, p, a)
  /\ \A p, a : Leads(Input, a, q, p) => \E d \in Range(conns) : EntersAs(d, q, p, a)

\* The connections that a finished call returns.
LEMMA ReturnedIs ==
  ASSUME Undotted, root \in Roots, NEW q \in Instances,
         NEW f, FrameInv(f), f.arch = Architecture(q), CarriedFor(f, q, Imports(Architecture(q)))
  PROVE  LET conns == Flattened(f).connections IN
         /\ conns \in Seq(Connections)
         /\ \A d \in Range(f.out.connections) : d \in Range(conns)
         /\ \A c \in Range(Architecture(q).connections) :
              \A v \in Range(Put(f.outputSources, c.from)) :
                \A w \in Range(Put(f.inputTargets, c.to)) : [from |-> v, to |-> w] \in Range(conns)
         /\ \A d \in Range(conns) :
              \/ d \in Range(f.out.connections)
              \/ \E c \in Range(Architecture(q).connections) :
                   /\ d.from \in Range(Put(f.outputSources, c.from))
                   /\ d.to \in Range(Put(f.inputTargets, c.to))
<1> DEFINE conns == Flattened(f).connections
           own == Architecture(q).connections
<1>1. own \in Seq(Connections)
  <2>1. PackageAt(q) \in Parsed
    BY ImportsAt
  <2> QED BY <2>1, ConnectionsAt DEF Connections
<1>2. /\ f.out.connections \in Seq(Connections)
      /\ ListsNames(f.inputTargets) /\ ListsNames(f.outputSources)
  BY DEF CarriedFor, Brought, MapCarried
<1>3. /\ conns \in Seq(Connections)
      /\ \A d : d \in Range(conns) <=>
           \/ d \in Range(f.out.connections)
           \/ \E c \in Range(own) :
                \E v \in Range(Put(f.outputSources, c.from)) :
                  \E w \in Range(Put(f.inputTargets, c.to)) : d = [from |-> v, to |-> w]
  BY <1>1, <1>2, FlattenedConnections
<1> HIDE DEF conns, own
<1>4. ASSUME NEW d \in Range(conns), d \notin Range(f.out.connections)
      PROVE  \E c \in Range(own) :
               /\ d.from \in Range(Put(f.outputSources, c.from))
               /\ d.to \in Range(Put(f.inputTargets, c.to))
  <2>1. PICK c \in Range(own) : \E v \in Range(Put(f.outputSources, c.from)) :
               \E w \in Range(Put(f.inputTargets, c.to)) : d = [from |-> v, to |-> w]
    BY <1>3, <1>4
  <2>2. PICK v \in Range(Put(f.outputSources, c.from)) :
               \E w \in Range(Put(f.inputTargets, c.to)) : d = [from |-> v, to |-> w]
    BY <2>1
  <2>3. PICK w \in Range(Put(f.inputTargets, c.to)) : d = [from |-> v, to |-> w]
    BY <2>2
  <2>4. d.from = v /\ d.to = w
    BY <2>3
  <2> QED BY <2>4
<1>5. \A c \in Range(own) : \A v \in Range(Put(f.outputSources, c.from)) :
        \A w \in Range(Put(f.inputTargets, c.to)) : [from |-> v, to |-> w] \in Range(conns)
  BY <1>3
<1>6. \A d \in Range(f.out.connections) : d \in Range(conns)
  BY <1>3
<1> QED BY <1>3, <1>4, <1>5, <1>6 DEF conns, own

\* Each connection of the call's own package, and what it is rewritten to.
LEMMA OwnWhole ==
  ASSUME Undotted, root \in Roots, Reserved, NamedPorts, NEW q \in Instances, q # NoName,
         NEW f, CarriedFor(f, q, Imports(Architecture(q))),
         NEW d, NEW c \in Range(Architecture(q).connections),
         d.from \in Range(Put(f.outputSources, c.from)),
         d.to \in Range(Put(f.inputTargets, c.to))
  PROVE  /\ FromOutside(d) \/ Inner(d.from)
         /\ ToOutside(d) \/ Inner(d.to)
         /\ IsInside(d) => IsRoute(q, d)
         /\ Inner(d.from) /\ ToOutside(d) =>
              Dead(q \o d.from) \/ Leads(Output, q \o d.from, q, SplitEndpoint(d.to).port)
         /\ FromOutside(d) /\ Inner(d.to) =>
              Dead(q \o d.to) \/ Leads(Input, q \o d.to, q, SplitEndpoint(d.from).port)
<1> DEFINE froms == Put(f.outputSources, c.from)
           tos == Put(f.inputTargets, c.to)
<1>1. IsSource(froms, q, c) /\ IsTarget(tos, q, c)
  BY SourceIs, TargetIs DEF CarriedFor
<1>2. d.from \in Range(froms) /\ d.to \in Range(tos)
  OBVIOUS
<1> HIDE DEF froms, tos
<1>3. IF endpointComponent(c.from) = Input THEN d.from = c.from ELSE Inner(d.from)
  BY <1>1, <1>2 DEF IsSource
<1>4. IF endpointComponent(c.to) = Output THEN d.to = c.to ELSE Inner(d.to)
  BY <1>1, <1>2 DEF IsTarget
<1>5. (FromOutside(d) <=> endpointComponent(c.from) = Input) /\ (Inner(d.from) <=> ~FromOutside(d))
  BY <1>3 DEF Inner, FromOutside
<1>6. (ToOutside(d) <=> endpointComponent(c.to) = Output) /\ (Inner(d.to) <=> ~ToOutside(d))
  BY <1>4 DEF Inner, ToOutside
<1>7. c \in OwnConns(q) \/ (FromOutside(d) /\ ToOutside(d))
  BY <1>5, <1>6 DEF OwnConns, PassThrough
<1>8. Inner(d.from) => Dead(q \o d.from) \/ Begins(q \o d.from, FromPlace(q, c))
  BY <1>1, <1>2, <1>5, <1>7 DEF IsSource
<1>9. Inner(d.to) => Dead(q \o d.to) \/ Ends(q \o d.to, ToPlace(q, c))
  BY <1>1, <1>2, <1>6, <1>7 DEF IsTarget
<1>10. ASSUME IsInside(d)  PROVE IsRoute(q, d)
  <2>1. c \in OwnConns(q) /\ Inner(d.from) /\ Inner(d.to)
    BY <1>5, <1>6, <1>7, <1>10 DEF IsInside
  <2>2. Begins(q \o d.from, FromPlace(q, c)) /\ Ends(q \o d.to, ToPlace(q, c)) =>
          <<q \o d.from, q \o d.to>> \in Routes
    BY <2>1, RoutesAre
  <2> QED BY <1>8, <1>9, <2>1, <2>2 DEF IsRoute
<1>11. ASSUME Inner(d.from), ToOutside(d)
       PROVE  Dead(q \o d.from) \/ Leads(Output, q \o d.from, q, SplitEndpoint(d.to).port)
  <2>1. c \in OwnConns(q) /\ endpointComponent(c.to) = Output /\ d.to = c.to
    BY <1>4, <1>5, <1>6, <1>7, <1>11
  <2>2. Begins(q \o d.from, FromPlace(q, c)) =>
          Leads(Output, q \o d.from, q, SplitEndpoint(d.to).port)
    BY <2>1, OutletIs DEF Leads
  <2> QED BY <1>8, <1>11, <2>2
<1>12. ASSUME FromOutside(d), Inner(d.to)
       PROVE  Dead(q \o d.to) \/ Leads(Input, q \o d.to, q, SplitEndpoint(d.from).port)
  <2>1. c \in OwnConns(q) /\ endpointComponent(c.from) = Input /\ d.from = c.from
    BY <1>3, <1>5, <1>6, <1>7, <1>12
  <2>2. Ends(q \o d.to, ToPlace(q, c)) =>
          Leads(Input, q \o d.to, q, SplitEndpoint(d.from).port)
    BY <2>1, InletIs, Different DEF Leads
  <2> QED BY <1>9, <1>12, <2>2
<1> QED BY <1>5, <1>6, <1>10, <1>11, <1>12

\* No connection is lost by it.
LEMMA OwnRoutes ==
  ASSUME Undotted, root \in Roots, Reserved, NamedPorts, NEW q \in Instances,
         NEW f, FrameInv(f), f.arch = Architecture(q), CarriedFor(f, q, Imports(Architecture(q))),
         NEW c \in OwnConns(q), NEW a, NEW b, Begins(a, FromPlace(q, c)), Ends(b, ToPlace(q, c))
  PROVE  \E d \in Range(Flattened(f).connections) :
           Joins(d, q, a, b) /\ (q # NoName => IsInside(d))
<1> DEFINE froms == Put(f.outputSources, c.from)
           tos == Put(f.inputTargets, c.to)
           conns == Flattened(f).connections
<1>1. c \in Range(Architecture(q).connections)
  BY DEF OwnConns
<1>2. IsSource(froms, q, c) /\ IsTarget(tos, q, c)
  BY <1>1, SourceIs, TargetIs DEF CarriedFor
<1>3. \A v \in Range(froms) : \A w \in Range(tos) : [from |-> v, to |-> w] \in Range(conns)
  BY <1>1, ReturnedIs
<1>4. /\ q # NoName => endpointComponent(c.from) # Input
      /\ q # NoName => endpointComponent(c.to) # Output
  BY BeginsIs, EndsIs
<1> HIDE DEF froms, tos, conns
<1>5. PICK v \in Range(froms) : a = q \o v
  BY <1>2 DEF IsSource
<1>6. PICK w \in Range(tos) : b = q \o w
  BY <1>2 DEF IsTarget
<1>7. q # NoName => Inner(v) /\ Inner(w)
  BY <1>2, <1>4 DEF IsSource, IsTarget
<1> DEFINE d == [from |-> v, to |-> w]
<1>8. d \in Range(conns) /\ d.from = v /\ d.to = w
  BY <1>3
<1> HIDE DEF d
<1> QED BY <1>5, <1>6, <1>7, <1>8 DEF IsInside, Joins, conns

\* A finished call below the first one returns its whole instance.
LEMMA WholeIs ==
  ASSUME Undotted, root \in Roots, Reserved, NamedPorts, NEW q \in Instances, q # NoName,
         Imports(Architecture(q)) = Sons(Architecture(q)),
         NEW f, FrameInv(f), f.arch = Architecture(q), CarriedFor(f, q, Imports(Architecture(q)))
  PROVE  AreWhole(Flattened(f).connections, q)
<1> DEFINE conns == Flattened(f).connections
           own == Range(Architecture(q).connections)
<1>1. /\ conns \in Seq(Connections)
      /\ \A d \in Range(f.out.connections) : d \in Range(conns)
      /\ \A c \in own :
           \A v \in Range(Put(f.outputSources, c.from)) :
             \A w \in Range(Put(f.inputTargets, c.to)) : [from |-> v, to |-> w] \in Range(conns)
      /\ \A d \in Range(conns) :
           \/ d \in Range(f.out.connections)
           \/ \E c \in own : /\ d.from \in Range(Put(f.outputSources, c.from))
                             /\ d.to \in Range(Put(f.inputTargets, c.to))
  BY ReturnedIs
<1>2. \A c \in OwnConns(q) : c \in own
  BY DEF OwnConns
<1>3. Brought(f.out.connections, q, Imports(Architecture(q)))
  BY DEF CarriedFor
<1>4. ASSUME NEW c \in OwnConns(q), NEW a, NEW b, Begins(a, FromPlace(q, c)), Ends(b, ToPlace(q, c))
      PROVE  \E d \in Range(conns) : IsInside(d) /\ Joins(d, q, a, b)
  <2>1. \E d \in Range(Flattened(f).connections) :
          Joins(d, q, a, b) /\ (q # NoName => IsInside(d))
    BY <1>4, OwnRoutes
  <2> QED BY <2>1
<1> HIDE DEF conns
<1>5. ASSUME NEW d \in Range(conns)
      PROVE  /\ FromOutside(d) \/ Inner(d.from)
             /\ ToOutside(d) \/ Inner(d.to)
             /\ IsInside(d) => IsRoute(q, d)
             /\ Inner(d.from) /\ ToOutside(d) =>
                  Dead(q \o d.from) \/ Leads(Output, q \o d.from, q, SplitEndpoint(d.to).port)
             /\ FromOutside(d) /\ Inner(d.to) =>
                  Dead(q \o d.to) \/ Leads(Input, q \o d.to, q, SplitEndpoint(d.from).port)
  <2>1. CASE d \in Range(f.out.connections)
    <3>1. IsInside(d) /\ IsRoute(q, d)
      BY <1>3, <2>1 DEF Brought
    <3> QED BY <3>1 DEF IsInside, Inner, FromOutside, ToOutside
  <2>2. CASE d \notin Range(f.out.connections)
    <3>1. PICK c \in own : /\ d.from \in Range(Put(f.outputSources, c.from))
                           /\ d.to \in Range(Put(f.inputTargets, c.to))
      BY <1>1, <2>2
    <3> QED BY <3>1, OwnWhole
  <2> QED BY <2>1, <2>2
<1>6. ASSUME NEW instance \in Instances, Under(q, instance)
      PROVE  RoutesOver(conns, q, instance)
  <2>1. CASE instance = q
    <3>1. ASSUME NEW c \in OwnConns(instance), NEW a, NEW b,
                 Begins(a, FromPlace(instance, c)) /\ Ends(b, ToPlace(instance, c))
          PROVE  \E d \in Range(conns) : IsInside(d) /\ Joins(d, q, a, b)
      BY <1>4, <2>1, <3>1
    <3> QED BY <3>1 DEF RoutesOver
  <2>2. CASE instance # q
    <3>1. q \in Names
      BY ImportsAt
    <3>2. PICK g \in Sons(Architecture(q)) : Under(q \o g, instance)
      BY <1>6, <2>2, <3>1, WayDown
    <3>3. RoutesOver(f.out.connections, q, instance)
      BY <1>3, <3>2 DEF Brought
    <3>4. ASSUME NEW c \in OwnConns(instance), NEW a, NEW b,
                 Begins(a, FromPlace(instance, c)) /\ Ends(b, ToPlace(instance, c))
          PROVE  \E d \in Range(conns) : IsInside(d) /\ Joins(d, q, a, b)
      <4>1. PICK d \in Range(f.out.connections) : IsInside(d) /\ Joins(d, q, a, b)
        BY <3>3, <3>4 DEF RoutesOver
      <4> QED BY <1>1, <4>1
    <3> QED BY <3>4 DEF RoutesOver
  <2> QED BY <2>1, <2>2
<1>7. ASSUME NEW p, NEW a, Leads(Output, a, q, p)
      PROVE  \E d \in Range(conns) : LeavesAs(d, q, p, a)
  <2>1. PICK c \in OwnConns(q) :
          /\ endpointComponent(c.to) = Output /\ SplitEndpoint(c.to).port = p
          /\ Begins(a, FromPlace(q, c))
    BY <1>7, OutletIs DEF Leads
  <2> DEFINE froms == Put(f.outputSources, c.from)
             tos == Put(f.inputTargets, c.to)
  <2>2. IsSource(froms, q, c) /\ IsTarget(tos, q, c)
    BY <1>2, SourceIs, TargetIs DEF CarriedFor
  <2>3. \A v \in Range(froms) : \A w \in Range(tos) : [from |-> v, to |-> w] \in Range(conns)
    BY <1>1, <1>2
  <2>4. endpointComponent(c.from) # Input
    BY <2>1, BeginsIs
  <2> HIDE DEF froms, tos
  <2>5. PICK v \in Range(froms) : a = q \o v
    BY <2>1, <2>2 DEF IsSource
  <2>6. Inner(v) /\ c.to \in Range(tos)
    BY <2>1, <2>2, <2>4 DEF IsSource, IsTarget
  <2> DEFINE d == [from |-> v, to |-> c.to]
  <2>7. d \in Range(conns) /\ d.from = v /\ d.to = c.to
    BY <2>3, <2>6
  <2> HIDE DEF d
  <2> QED BY <2>1, <2>5, <2>6, <2>7 DEF ToOutside, LeavesAs
<1>8. ASSUME NEW p, NEW b, Leads(Input, b, q, p)
      PROVE  \E d \in Range(conns) : EntersAs(d, q, p, b)
  <2>1. PICK c \in OwnConns(q) :
          /\ endpointComponent(c.from) = Input /\ SplitEndpoint(c.from).port = p
          /\ Ends(b, ToPlace(q, c))
    BY <1>8, InletIs, Different DEF Leads
  <2> DEFINE froms == Put(f.outputSources, c.from)
             tos == Put(f.inputTargets, c.to)
  <2>2. IsSource(froms, q, c) /\ IsTarget(tos, q, c)
    BY <1>2, SourceIs, TargetIs DEF CarriedFor
  <2>3. \A v \in Range(froms) : \A w \in Range(tos) : [from |-> v, to |-> w] \in Range(conns)
    BY <1>1, <1>2
  <2>4. endpointComponent(c.to) # Output
    BY <2>1, EndsIs
  <2> HIDE DEF froms, tos
  <2>5. PICK w \in Range(tos) : b = q \o w
    BY <2>1, <2>2 DEF IsTarget
  <2>6. Inner(w) /\ c.from \in Range(froms)
    BY <2>1, <2>2, <2>4 DEF IsSource, IsTarget
  <2> DEFINE d == [from |-> c.from, to |-> w]
  <2>7. d \in Range(conns) /\ d.from = c.from /\ d.to = w
    BY <2>3, <2>6
  <2> HIDE DEF d
  <2> QED BY <2>1, <2>5, <2>6, <2>7 DEF FromOutside, EntersAs
<1> QED BY <1>1, <1>5, <1>6, <1>7, <1>8 DEF AreWhole, conns

------------------------------------------------------------------------------
(* What a caller merges. *)

Entries == [key : Names, endpoint : Names]

LEMMA RecordedIs ==
  ASSUME NEW map, ListsNames(map), NEW entries \in Seq(Entries)
  PROVE  /\ ListsNames(Recorded(map, entries))
         /\ \A key : key \in DOMAIN Recorded(map, entries) <=>
              key \in DOMAIN map \/ \E e \in Range(entries) : e.key = key
         /\ \A key \in DOMAIN Recorded(map, entries) : \A v :
              v \in Range(Recorded(map, entries)[key]) <=>
                \/ key \in DOMAIN map /\ v \in Range(map[key])
                \/ \E e \in Range(entries) : e.key = key /\ e.endpoint = v
<1> DEFINE for(key) == Selected(entries, {e \in Range(entries) : e.key = key})
           ends(key) == [i \in DOMAIN for(key) |-> for(key)[i].endpoint]
           before(key) == IF key \in DOMAIN map THEN map[key] ELSE <<>>
           after == Recorded(map, entries)
<1>1. \A key : for(key) \in Seq(Entries) /\ Range(for(key)) = Range(entries) \cap {e \in Range(entries) : e.key = key}
  BY SelectedIs
<1>2. /\ DOMAIN after = DOMAIN map \cup {e.key : e \in Range(entries)}
      /\ \A key \in DOMAIN after : after[key] = before(key) \o ends(key)
  BY DEF Recorded
<1>3. \A key : before(key) \in Seq(Names)
  BY DEF ListsNames
<1> HIDE DEF for, before, after
<1>4. \A key : /\ ends(key) \in Seq(Names)
               /\ \A v : v \in Range(ends(key)) <=>
                    \E e \in Range(entries) : e.key = key /\ e.endpoint = v
  <2> TAKE key
  <2> DEFINE f == for(key)
  <2>1. /\ f \in Seq(Entries)
        /\ \A e : e \in Range(f) <=> e \in Range(entries) /\ e.key = key
    BY <1>1
  <2> HIDE DEF f
  <2>2. /\ Len(f) \in Nat /\ DOMAIN f = 1..Len(f) /\ \A i \in DOMAIN f : f[i] \in Entries
    BY <2>1
  <2>3. \A i \in DOMAIN f : f[i].endpoint \in Names
    BY <2>2 DEF Entries
  <2> DEFINE list == [i \in DOMAIN f |-> f[i].endpoint]
  <2>4. list \in Seq(Names) /\ DOMAIN list = DOMAIN f /\ \A i \in DOMAIN f : list[i] = f[i].endpoint
    BY <2>2, <2>3
  <2>5. ends(key) = list
    BY DEF f
  <2> HIDE DEF list, ends
  <2>6. \A e : e \in Range(f) <=> \E i \in DOMAIN f : e = f[i]
    BY DEF Range
  <2>7. \A v : v \in Range(list) <=> \E i \in DOMAIN f : v = list[i]
    BY <2>4 DEF Range
  <2>8. \A v : v \in Range(list) <=> \E e \in Range(entries) : e.key = key /\ e.endpoint = v
    BY <2>1, <2>4, <2>6, <2>7
  <2> QED BY <2>4, <2>5, <2>8
<1> HIDE DEF ends
<1>5. \A key \in DOMAIN after :
        /\ after[key] \in Seq(Names)
        /\ Range(after[key]) = Range(before(key)) \cup Range(ends(key))
  <2> TAKE key \in DOMAIN after
  <2> DEFINE x == before(key)
             y == ends(key)
  <2>1. x \in Seq(Names) /\ y \in Seq(Names) /\ after[key] = x \o y
    BY <1>2, <1>3, <1>4
  <2> HIDE DEF x, y
  <2>2. x \o y \in Seq(Names) /\ Range(x \o y) = Range(x) \cup Range(y)
    BY <2>1, CatRange
  <2> QED BY <2>1, <2>2 DEF x, y
<1>6. \A key, v : v \in Range(before(key)) <=> key \in DOMAIN map /\ v \in Range(map[key])
  <2>1. \A v : v \notin Range(<<>>)
    BY DEF Range
  <2> QED BY <2>1 DEF before
<1>7. ListsNames(after)
  BY <1>5 DEF ListsNames
<1>8. \A key : key \in DOMAIN after <=> key \in DOMAIN map \/ \E e \in Range(entries) : e.key = key
  BY <1>2
<1>9. \A key \in DOMAIN after : \A v : v \in Range(after[key]) <=>
        \/ key \in DOMAIN map /\ v \in Range(map[key])
        \/ \E e \in Range(entries) : e.key = key /\ e.endpoint = v
  BY <1>4, <1>5, <1>6
<1> QED BY <1>7, <1>8, <1>9 DEF after

\* What merging an import records for its ports on one side.
EntryFor(e, path, g, p, side) ==
  /\ IsPort(p) /\ e.key = boundaryKey(g, p)
  /\ Inner(e.endpoint)
  /\ Dead(path \o e.endpoint) \/ Leads(side, path \o e.endpoint, path \o g, p)

EntryOf(e, path, g, p, a) == e.key = boundaryKey(g, p) /\ a = path \o e.endpoint

EntriesFor(entries, path, g, side) ==
  /\ entries \in Seq(Entries)
  /\ \A e \in Range(entries) : \E p : EntryFor(e, path, g, p, side)
  /\ \A p, a : Leads(side, a, path \o g, p) =>
       IsPort(p) /\ \E e \in Range(entries) : EntryOf(e, path, g, p, a)

LEMMA MapMerged ==
  ASSUME NEW path, NEW done, NEW g, NEW map, NEW side, NEW entries,
         MapCarried(map, path, done, side), EntriesFor(entries, path, g, side),
         g \notin done, \A h \in done \cup {g} : h \in Names /\ Len(h) = 1
  PROVE  MapCarried(Recorded(map, entries), path, done \cup {g}, side)
<1> DEFINE after == Recorded(map, entries)
           key(h, p) == boundaryKey(h, p)
<1>1. /\ ListsNames(after)
      /\ \A k : k \in DOMAIN after <=> k \in DOMAIN map \/ \E e \in Range(entries) : e.key = k
      /\ \A k \in DOMAIN after : \A v : v \in Range(after[k]) <=>
           \/ k \in DOMAIN map /\ v \in Range(map[k])
           \/ \E e \in Range(entries) : e.key = k /\ e.endpoint = v
  BY RecordedIs DEF MapCarried, EntriesFor
<1>2. \A h, i \in done \cup {g} : \A p, r :
        IsPort(p) /\ IsPort(r) /\ key(h, p) = key(i, r) => h = i /\ p = r
  <2>1. \A h \in done \cup {g} : \A p : IsPort(p) =>
          endpointComponent(key(h, p)) = h /\ SplitEndpoint(key(h, p)).port = p
    BY KeySplit
  <2> HIDE DEF key
  <2> QED BY <2>1
<1> HIDE DEF after, key
<1>3. ASSUME NEW k \in DOMAIN map
      PROVE  \E h \in done : \E p : IsPort(p) /\ k = key(h, p)
  BY <1>3 DEF MapCarried, key
<1>4. ASSUME NEW e \in Range(entries)
      PROVE  \E p : EntryFor(e, path, g, p, side)
  BY DEF EntriesFor
<1>5. ASSUME NEW k \in DOMAIN after
      PROVE  \E h \in done \cup {g} : \E p : IsPort(p) /\ k = key(h, p)
  <2>1. CASE k \in DOMAIN map
    BY <1>3, <2>1
  <2>2. CASE k \notin DOMAIN map
    <3>1. PICK e \in Range(entries) : e.key = k
      BY <1>1, <2>2
    <3>2. PICK p : EntryFor(e, path, g, p, side)
      BY <1>4
    <3> QED BY <3>1, <3>2 DEF EntryFor, key
  <2> QED BY <2>1, <2>2
<1>6. ASSUME NEW h \in done \cup {g}, NEW p, IsPort(p), key(h, p) \in DOMAIN after,
             NEW v \in Range(after[key(h, p)])
      PROVE  Inner(v) /\ (Dead(path \o v) \/ Leads(side, path \o v, path \o h, p))
  <2> DEFINE k == key(h, p)
  <2>1. \/ k \in DOMAIN map /\ v \in Range(map[k])
        \/ \E e \in Range(entries) : e.key = k /\ e.endpoint = v
    BY <1>1, <1>6
  <2> HIDE DEF k
  <2>2. CASE k \in DOMAIN map /\ v \in Range(map[k])
    <3>1. PICK i \in done : \E r : IsPort(r) /\ k = key(i, r)
      BY <1>3, <2>2
    <3>2. h = i
      BY <1>2, <1>6, <3>1 DEF k
    <3> QED BY <1>6, <2>2, <3>2 DEF MapCarried, k, key
  <2>3. CASE \E e \in Range(entries) : e.key = k /\ e.endpoint = v
    <3>1. PICK e \in Range(entries) : e.key = k /\ e.endpoint = v
      BY <2>3
    <3>2. PICK r : EntryFor(e, path, g, r, side)
      BY <1>4
    <3>3. IsPort(r) /\ key(h, p) = key(g, r)
      BY <3>1, <3>2 DEF EntryFor, k, key
    <3>4. h = g /\ p = r
      BY <1>2, <1>6, <3>3
    <3> QED BY <3>1, <3>2, <3>4 DEF EntryFor
  <2> QED BY <2>1, <2>2, <2>3
<1>7. ASSUME NEW h \in done \cup {g}, NEW p, NEW a, Leads(side, a, path \o h, p)
      PROVE  /\ IsPort(p) /\ key(h, p) \in DOMAIN after
             /\ \E v \in Range(after[key(h, p)]) : a = path \o v
  <2> DEFINE k == key(h, p)
  <2>1. CASE h \in done
    <3>1. IsPort(p) /\ k \in DOMAIN map
      BY <1>7, <2>1 DEF MapCarried, key
    <3>2. PICK v \in Range(map[k]) : a = path \o v
      BY <1>7, <2>1 DEF MapCarried, key
    <3> HIDE DEF k
    <3>3. k \in DOMAIN after /\ v \in Range(after[k])
      BY <1>1, <3>1, <3>2
    <3> QED BY <3>1, <3>2, <3>3 DEF k
  <2>2. CASE h = g
    <3>1. /\ IsPort(p)
          /\ \E e \in Range(entries) : e.key = k /\ a = path \o e.endpoint
      <4>1. IsPort(p) /\ \E e \in Range(entries) : EntryOf(e, path, g, p, a)
        BY <1>7, <2>2 DEF EntriesFor
      <4> QED BY <2>2, <4>1 DEF EntryOf, key
    <3>2. PICK e \in Range(entries) : e.key = k /\ a = path \o e.endpoint
      BY <3>1
    <3> HIDE DEF k
    <3>3. k \in DOMAIN after /\ e.endpoint \in Range(after[k])
      BY <1>1, <3>2
    <3> QED BY <3>1, <3>2, <3>3 DEF k
  <2> QED BY <2>1, <2>2
<1> QED BY <1>1, <1>5, <1>6, <1>7 DEF MapCarried, after, key

\* The connections of a list in a set, each made something of.
LEMMA MadeOf ==
  ASSUME NEW conns \in Seq(Connections), NEW set, NEW S, NEW made,
         LET some == Selected(conns, set)
         IN  DOMAIN made = DOMAIN some /\ made = [i \in DOMAIN some |-> made[i]],
         NEW f, \A d \in Range(conns) \cap set : f[d] \in S,
         \A i \in DOMAIN made : made[i] = f[Selected(conns, set)[i]]
  PROVE  /\ made \in Seq(S)
         /\ \A x : x \in Range(made) <=> \E d \in Range(conns) : d \in set /\ x = f[d]
<1> DEFINE some == Selected(conns, set)
<1>1. some \in Seq(Connections) /\ Range(some) = Range(conns) \cap set
  BY SelectedIs
<1>2. DOMAIN made = DOMAIN some /\ made = [i \in DOMAIN some |-> made[i]]
  OBVIOUS
<1>3. \A i \in DOMAIN made : made[i] = f[some[i]]
  OBVIOUS
<1> HIDE DEF some
<1>4. Len(some) \in Nat /\ DOMAIN some = 1..Len(some)
  BY <1>1
<1>5. \A d : d \in Range(conns) /\ d \in set <=> \E i \in DOMAIN some : d = some[i]
  <2>1. \A d : d \in Range(some) <=> \E i \in DOMAIN some : d = some[i]
    BY DEF Range
  <2> QED BY <1>1, <2>1
<1>6. \A i \in DOMAIN some : made[i] \in S
  BY <1>2, <1>3, <1>5
<1>7. made \in Seq(S)
  <2> DEFINE g == [i \in 1..Len(some) |-> made[i]]
  <2>1. g \in Seq(S)
    BY <1>4, <1>6
  <2>2. made = g
    BY <1>2, <1>4
  <2> QED BY <2>1, <2>2
<1>8. \A x : x \in Range(made) <=> \E i \in DOMAIN made : x = made[i]
  BY DEF Range
<1>9. \A x : x \in Range(made) <=> \E d \in Range(conns) : d \in set /\ x = f[d]
  BY <1>2, <1>3, <1>5, <1>8
<1> QED BY <1>7, <1>9

\* An endpoint of an import, under its name.
LEMMA ImportPrefixed ==
  ASSUME NEW path \in Names, NEW g \in Names, Len(g) = 1, g \notin {Input, Output}, NEW v, Inner(v)
  PROVE  /\ prefixEndpoint(g, SplitEndpoint(v)) = g \o v
         /\ Inner(g \o v) /\ g \o v \in Names
         /\ path \o (g \o v) = (path \o g) \o v
<1>1. v \in Names
  BY DEF Inner
<1>2. path \o (g \o v) = (path \o g) \o v
  BY <1>1, CatAssoc
<1> QED BY <1>1, <1>2, InnerPrefixed, Cat

LEMMA OutputsRecorded ==
  ASSUME NEW path \in Names, NEW g \in Names, Len(g) = 1, g \notin {Input, Output},
         NEW conns, AreWhole(conns, path \o g)
  PROVE  EntriesFor(OutputEntries(g, conns), path, g, Output)
<1> DEFINE q == path \o g
           set == {c \in Range(conns) : LeavesChild(c)}
           some == Selected(conns, set)
           made == OutputEntries(g, conns)
           f == [d \in Connections |->
                   [key      |-> boundaryKey(g, SplitEndpoint(d.to).port),
                    endpoint |-> prefixEndpoint(g, SplitEndpoint(d.from))]]
<1>1. /\ conns \in Seq(Connections)
      /\ \A d \in Range(conns) :
           /\ FromOutside(d) \/ Inner(d.from)
           /\ ToOutside(d) \/ Inner(d.to)
           /\ Inner(d.from) /\ ToOutside(d) =>
                Dead(q \o d.from) \/ Leads(Output, q \o d.from, q, SplitEndpoint(d.to).port)
      /\ \A p, a : Leads(Output, a, q, p) => \E d \in Range(conns) : LeavesAs(d, q, p, a)
  BY DEF AreWhole
<1>2. \A d \in Range(conns) : d \in Connections /\ d.from \in Names /\ d.to \in Names
  <2>1. \A d \in Range(conns) : d \in Connections
    BY <1>1, RangeFinite
  <2> QED BY <2>1 DEF Connections
<1>3. \A d \in Range(conns) : d \in set <=> Inner(d.from) /\ ToOutside(d)
  BY <1>1 DEF LeavesChild, Inner, FromOutside, ToOutside
<1>4. /\ DOMAIN made = DOMAIN some /\ made = [i \in DOMAIN some |-> made[i]]
      /\ \A i \in DOMAIN made : made[i] =
           [key      |-> boundaryKey(g, SplitEndpoint(some[i].to).port),
            endpoint |-> prefixEndpoint(g, SplitEndpoint(some[i].from))]
  BY DEF OutputEntries
<1>5. \A d \in Connections : f[d] = [key      |-> boundaryKey(g, SplitEndpoint(d.to).port),
                                     endpoint |-> prefixEndpoint(g, SplitEndpoint(d.from))]
  OBVIOUS
<1>6. ASSUME NEW d \in Range(conns), Inner(d.from)
      PROVE  /\ f[d].key = boundaryKey(g, SplitEndpoint(d.to).port)
             /\ IsPort(SplitEndpoint(d.to).port)
             /\ f[d].endpoint = g \o d.from /\ Inner(f[d].endpoint)
             /\ path \o f[d].endpoint = q \o d.from
             /\ f[d] \in Entries
  <2> DEFINE v == d.from
  <2>5. Inner(v)
    BY <1>6
  <2> HIDE DEF v
  <2>6. /\ prefixEndpoint(g, SplitEndpoint(v)) = g \o v
        /\ Inner(g \o v) /\ g \o v \in Names
        /\ path \o (g \o v) = (path \o g) \o v
    BY <2>5, ImportPrefixed, SMTT(30)
  <2>1. /\ prefixEndpoint(g, SplitEndpoint(d.from)) = g \o d.from
        /\ Inner(g \o d.from) /\ g \o d.from \in Names
        /\ path \o (g \o d.from) = q \o d.from
    BY <2>6 DEF v
  <2>2. IsPort(SplitEndpoint(d.to).port)
    BY <1>2, PortIs
  <2>3. boundaryKey(g, SplitEndpoint(d.to).port) \in Names
    BY <2>2, KeySplit
  <2>4. /\ f[d] = [key      |-> boundaryKey(g, SplitEndpoint(d.to).port),
                   endpoint |-> prefixEndpoint(g, SplitEndpoint(d.from))]
    BY <1>2, <1>5
  <2> HIDE DEF f, q
  <2>7. f[d].key = boundaryKey(g, SplitEndpoint(d.to).port) /\ f[d].endpoint = g \o d.from
    BY <2>1, <2>4
  <2>8. f[d] \in Entries
    BY <2>1, <2>3, <2>4 DEF Entries
  <2> QED BY <2>1, <2>2, <2>7, <2>8
<1>7. \A i \in DOMAIN made : made[i] = f[some[i]]
  <2>1. some \in Seq(Connections)
    BY <1>1, SelectedIs
  <2> HIDE DEF some, made, set, f
  <2>2. \A i \in DOMAIN some : some[i] \in Connections
    BY <2>1
  <2> QED BY <1>4, <1>5, <2>2
<1> HIDE DEF f, made, q
<1>8. \A d \in Range(conns) \cap set : f[d] \in Entries
  BY <1>3, <1>6
<1>9. /\ made \in Seq(Entries)
      /\ \A x : x \in Range(made) <=> \E d \in Range(conns) : d \in set /\ x = f[d]
  <2> HIDE DEF set
  <2> QED BY <1>1, <1>4, <1>7, <1>8, MadeOf, SMTT(30)
<1> HIDE DEF some, set
<1>10. ASSUME NEW e \in Range(made)
       PROVE  \E p : EntryFor(e, path, g, p, Output)
  <2>1. PICK d \in Range(conns) : d \in set /\ e = f[d]
    BY <1>9
  <2>2. Inner(d.from) /\ ToOutside(d)
    BY <1>3, <2>1
  <2>3. EntryFor(e, path, g, SplitEndpoint(d.to).port, Output)
    BY <1>1, <1>6, <2>1, <2>2 DEF EntryFor, q
  <2> QED BY <2>3
<1>11. ASSUME NEW p, NEW a, Leads(Output, a, path \o g, p)
       PROVE  IsPort(p) /\ \E e \in Range(made) : EntryOf(e, path, g, p, a)
  <2>1. PICK d \in Range(conns) : LeavesAs(d, q, p, a)
    BY <1>1, <1>11 DEF q
  <2>2. Inner(d.from) /\ ToOutside(d) /\ SplitEndpoint(d.to).port = p /\ a = q \o d.from
    BY <2>1 DEF LeavesAs
  <2>3. f[d] \in Range(made)
    BY <1>3, <1>9, <2>2
  <2>4. IsPort(p) /\ EntryOf(f[d], path, g, p, a)
    BY <1>6, <2>2 DEF EntryOf
  <2> QED BY <2>3, <2>4
<1> QED BY <1>9, <1>10, <1>11 DEF EntriesFor, made

LEMMA InputsRecorded ==
  ASSUME NEW path \in Names, NEW g \in Names, Len(g) = 1, g \notin {Input, Output},
         NEW conns, AreWhole(conns, path \o g)
  PROVE  EntriesFor(InputEntries(g, conns), path, g, Input)
<1> DEFINE q == path \o g
           set == {c \in Range(conns) : EntersChild(c)}
           some == Selected(conns, set)
           made == InputEntries(g, conns)
           f == [d \in Connections |->
                   [key      |-> boundaryKey(g, SplitEndpoint(d.from).port),
                    endpoint |-> prefixEndpoint(g, SplitEndpoint(d.to))]]
<1>1. /\ conns \in Seq(Connections)
      /\ \A d \in Range(conns) :
           /\ ToOutside(d) \/ Inner(d.to)
           /\ FromOutside(d) \/ Inner(d.from)
           /\ Inner(d.to) /\ FromOutside(d) =>
                Dead(q \o d.to) \/ Leads(Input, q \o d.to, q, SplitEndpoint(d.from).port)
      /\ \A p, a : Leads(Input, a, q, p) => \E d \in Range(conns) : EntersAs(d, q, p, a)
  BY DEF AreWhole
<1>2. \A d \in Range(conns) : d \in Connections /\ d.to \in Names /\ d.from \in Names
  <2>1. \A d \in Range(conns) : d \in Connections
    BY <1>1, RangeFinite
  <2> QED BY <2>1 DEF Connections
<1>3. \A d \in Range(conns) : d \in set <=> Inner(d.to) /\ FromOutside(d)
  BY <1>1 DEF EntersChild, Inner, FromOutside, ToOutside
<1>4. /\ DOMAIN made = DOMAIN some /\ made = [i \in DOMAIN some |-> made[i]]
      /\ \A i \in DOMAIN made : made[i] =
           [key      |-> boundaryKey(g, SplitEndpoint(some[i].from).port),
            endpoint |-> prefixEndpoint(g, SplitEndpoint(some[i].to))]
  BY DEF InputEntries
<1>5. \A d \in Connections : f[d] = [key      |-> boundaryKey(g, SplitEndpoint(d.from).port),
                                     endpoint |-> prefixEndpoint(g, SplitEndpoint(d.to))]
  OBVIOUS
<1>6. ASSUME NEW d \in Range(conns), Inner(d.to)
      PROVE  /\ f[d].key = boundaryKey(g, SplitEndpoint(d.from).port)
             /\ IsPort(SplitEndpoint(d.from).port)
             /\ f[d].endpoint = g \o d.to /\ Inner(f[d].endpoint)
             /\ path \o f[d].endpoint = q \o d.to
             /\ f[d] \in Entries
  <2> DEFINE v == d.to
  <2>5. Inner(v)
    BY <1>6
  <2> HIDE DEF v
  <2>6. /\ prefixEndpoint(g, SplitEndpoint(v)) = g \o v
        /\ Inner(g \o v) /\ g \o v \in Names
        /\ path \o (g \o v) = (path \o g) \o v
    BY <2>5, ImportPrefixed
  <2>1. /\ prefixEndpoint(g, SplitEndpoint(d.to)) = g \o d.to
        /\ Inner(g \o d.to) /\ g \o d.to \in Names
        /\ path \o (g \o d.to) = q \o d.to
    BY <2>6 DEF v
  <2>2. IsPort(SplitEndpoint(d.from).port)
    BY <1>2, PortIs
  <2>3. boundaryKey(g, SplitEndpoint(d.from).port) \in Names
    BY <2>2, KeySplit
  <2>4. /\ f[d] = [key      |-> boundaryKey(g, SplitEndpoint(d.from).port),
                   endpoint |-> prefixEndpoint(g, SplitEndpoint(d.to))]
    BY <1>2, <1>5
  <2> HIDE DEF f, q
  <2>7. f[d].key = boundaryKey(g, SplitEndpoint(d.from).port) /\ f[d].endpoint = g \o d.to
    BY <2>1, <2>4
  <2>8. f[d] \in Entries
    BY <2>1, <2>3, <2>4 DEF Entries
  <2> QED BY <2>1, <2>2, <2>7, <2>8
<1>7. \A i \in DOMAIN made : made[i] = f[some[i]]
  <2>1. some \in Seq(Connections)
    BY <1>1, SelectedIs
  <2> HIDE DEF some, made, set, f
  <2>2. \A i \in DOMAIN some : some[i] \in Connections
    BY <2>1
  <2> QED BY <1>4, <1>5, <2>2
<1> HIDE DEF f, made, q
<1>8. \A d \in Range(conns) \cap set : f[d] \in Entries
  BY <1>3, <1>6
<1>9. /\ made \in Seq(Entries)
      /\ \A x : x \in Range(made) <=> \E d \in Range(conns) : d \in set /\ x = f[d]
  <2> HIDE DEF set
  <2> QED BY <1>1, <1>4, <1>7, <1>8, MadeOf
<1> HIDE DEF some, set
<1>10. ASSUME NEW e \in Range(made)
       PROVE  \E p : EntryFor(e, path, g, p, Input)
  <2>1. PICK d \in Range(conns) : d \in set /\ e = f[d]
    BY <1>9
  <2>2. Inner(d.to) /\ FromOutside(d)
    BY <1>3, <2>1
  <2>3. EntryFor(e, path, g, SplitEndpoint(d.from).port, Input)
    BY <1>1, <1>6, <2>1, <2>2 DEF EntryFor, q
  <2> QED BY <2>3
<1>11. ASSUME NEW p, NEW a, Leads(Input, a, path \o g, p)
       PROVE  IsPort(p) /\ \E e \in Range(made) : EntryOf(e, path, g, p, a)
  <2>1. PICK d \in Range(conns) : EntersAs(d, q, p, a)
    BY <1>1, <1>11 DEF q
  <2>2. Inner(d.to) /\ FromOutside(d) /\ SplitEndpoint(d.from).port = p /\ a = q \o d.to
    BY <2>1 DEF EntersAs
  <2>3. f[d] \in Range(made)
    BY <1>3, <1>9, <2>2
  <2>4. IsPort(p) /\ EntryOf(f[d], path, g, p, a)
    BY <1>6, <2>2 DEF EntryOf
  <2> QED BY <2>3, <2>4
<1> QED BY <1>9, <1>10, <1>11 DEF EntriesFor, made

\* The connections that stay below the import.
LEMMA InsideBrought ==
  ASSUME NEW path \in Names, NEW g \in Names, Len(g) = 1, g \notin {Input, Output},
         NEW conns, AreWhole(conns, path \o g)
  PROVE  Brought(Internal(g, conns), path, {g})
<1> DEFINE q == path \o g
           set == {c \in Range(conns) : InsideChild(c)}
           some == Selected(conns, set)
           made == Internal(g, conns)
           f == [d \in Connections |-> [from |-> prefixEndpoint(g, SplitEndpoint(d.from)),
                                        to   |-> prefixEndpoint(g, SplitEndpoint(d.to))]]
<1>1. /\ conns \in Seq(Connections)
      /\ \A d \in Range(conns) :
           /\ FromOutside(d) \/ Inner(d.from)
           /\ ToOutside(d) \/ Inner(d.to)
           /\ IsInside(d) => IsRoute(q, d)
      /\ \A instance \in Instances : Under(q, instance) => RoutesOver(conns, q, instance)
  BY DEF AreWhole
<1>2. \A d \in Range(conns) : d \in Connections /\ d.from \in Names /\ d.to \in Names
  <2>1. \A d \in Range(conns) : d \in Connections
    BY <1>1, RangeFinite
  <2> QED BY <2>1 DEF Connections
<1>3. \A d \in Range(conns) : d \in set <=> IsInside(d)
  BY <1>1 DEF InsideChild, Inner, FromOutside, ToOutside, IsInside
<1>4. /\ DOMAIN made = DOMAIN some /\ made = [i \in DOMAIN some |-> made[i]]
      /\ \A i \in DOMAIN made : made[i] = [from |-> prefixEndpoint(g, SplitEndpoint(some[i].from)),
                                           to   |-> prefixEndpoint(g, SplitEndpoint(some[i].to))]
  BY DEF Internal
<1>5. \A d \in Connections : f[d] = [from |-> prefixEndpoint(g, SplitEndpoint(d.from)),
                                     to   |-> prefixEndpoint(g, SplitEndpoint(d.to))]
  OBVIOUS
<1>6. ASSUME NEW d \in Range(conns), IsInside(d)
      PROVE  /\ f[d] \in Connections /\ IsInside(f[d])
             /\ path \o f[d].from = q \o d.from /\ path \o f[d].to = q \o d.to
  <2> DEFINE v == d.from
             w == d.to
  <2>1. Inner(v) /\ Inner(w)
    BY <1>6 DEF IsInside
  <2>2. f[d] = [from |-> prefixEndpoint(g, SplitEndpoint(v)), to |-> prefixEndpoint(g, SplitEndpoint(w))]
    BY <1>2, <1>5
  <2> HIDE DEF v, w, f
  <2>3. /\ prefixEndpoint(g, SplitEndpoint(v)) = g \o v
        /\ Inner(g \o v) /\ g \o v \in Names
        /\ path \o (g \o v) = (path \o g) \o v
    BY <2>1, ImportPrefixed, SMTT(30)
  <2>4. /\ prefixEndpoint(g, SplitEndpoint(w)) = g \o w
        /\ Inner(g \o w) /\ g \o w \in Names
        /\ path \o (g \o w) = (path \o g) \o w
    BY <2>1, ImportPrefixed, SMTT(30)
  <2>5. f[d].from = g \o v /\ f[d].to = g \o w
    BY <2>2, <2>3, <2>4
  <2>6. f[d] \in Connections
    BY <2>2, <2>3, <2>4 DEF Connections
  <2>7. IsInside(f[d])
    BY <2>3, <2>4, <2>5 DEF IsInside
  <2> QED BY <2>3, <2>4, <2>5, <2>6, <2>7 DEF v, w
<1>7. \A i \in DOMAIN made : made[i] = f[some[i]]
  <2>1. some \in Seq(Connections)
    BY <1>1, SelectedIs
  <2> HIDE DEF some, made, set, f
  <2>2. \A i \in DOMAIN some : some[i] \in Connections
    BY <2>1
  <2> QED BY <1>4, <1>5, <2>2
<1> HIDE DEF f, made, q
<1>8. \A d \in Range(conns) \cap set : f[d] \in Connections
  BY <1>3, <1>6
<1>9. /\ made \in Seq(Connections)
      /\ \A x : x \in Range(made) <=> \E d \in Range(conns) : d \in set /\ x = f[d]
  <2> DEFINE S == Connections
  <2>1. \A d \in Range(conns) \cap set : f[d] \in S
    BY <1>8
  <2> HIDE DEF set, S
  <2>2. /\ made \in Seq(S)
        /\ \A x : x \in Range(made) <=> \E d \in Range(conns) : d \in set /\ x = f[d]
    BY <1>1, <1>4, <1>7, <2>1, MadeOf
  <2> QED BY <2>2 DEF S
<1> HIDE DEF some, set
<1>10. ASSUME NEW e \in Range(made)
       PROVE  IsInside(e) /\ IsRoute(path, e)
  <2>1. PICK d \in Range(conns) : d \in set /\ e = f[d]
    BY <1>9
  <2>2. IsInside(d) /\ IsRoute(q, d)
    BY <1>1, <1>3, <2>1
  <2>3. IsInside(e) /\ path \o e.from = q \o d.from /\ path \o e.to = q \o d.to
    BY <1>6, <2>1, <2>2
  <2> QED BY <2>2, <2>3 DEF IsRoute
<1>11. ASSUME NEW instance \in Instances, Under(path \o g, instance)
       PROVE  RoutesOver(made, path, instance)
  <2>1. RoutesOver(conns, q, instance)
    BY <1>1, <1>11 DEF q
  <2>2. ASSUME NEW c \in OwnConns(instance), NEW a, NEW b,
               Begins(a, FromPlace(instance, c)) /\ Ends(b, ToPlace(instance, c))
        PROVE  \E e \in Range(made) : IsInside(e) /\ Joins(e, path, a, b)
    <3>1. PICK d \in Range(conns) : IsInside(d) /\ Joins(d, q, a, b)
      BY <2>1, <2>2 DEF RoutesOver
    <3>2. f[d] \in Range(made)
      BY <1>3, <1>9, <3>1
    <3>3. IsInside(f[d]) /\ Joins(f[d], path, a, b)
      BY <1>6, <3>1 DEF Joins
    <3> QED BY <3>2, <3>3
  <2> QED BY <2>2 DEF RoutesOver
<1>12. \A h \in {g} : \A instance \in Instances : Under(path \o h, instance) => RoutesOver(made, path, instance)
  BY <1>11
<1> QED BY <1>9, <1>10, <1>12 DEF Brought, made

\* More connections, and more that is done with.
LEMMA BroughtBoth ==
  ASSUME NEW path, NEW xs, NEW done, Brought(xs, path, done), NEW ys, NEW more, Brought(ys, path, more)
  PROVE  Brought(xs \o ys, path, done \cup more)
<1>1. xs \in Seq(Connections) /\ ys \in Seq(Connections)
  BY DEF Brought
<1> DEFINE zs == xs \o ys
<1>2. zs \in Seq(Connections) /\ Range(zs) = Range(xs) \cup Range(ys)
  BY <1>1, CatRange
<1> HIDE DEF zs
<1>3. \A d \in Range(zs) : IsInside(d) /\ IsRoute(path, d)
  BY <1>2 DEF Brought
<1>4. ASSUME NEW g \in done \cup more, NEW instance \in Instances, Under(path \o g, instance)
      PROVE  RoutesOver(zs, path, instance)
  <2>1. RoutesOver(xs, path, instance) \/ RoutesOver(ys, path, instance)
    BY <1>4 DEF Brought
  <2>2. ASSUME NEW c \in OwnConns(instance), NEW a, NEW b,
               Begins(a, FromPlace(instance, c)) /\ Ends(b, ToPlace(instance, c))
        PROVE  \E d \in Range(zs) : IsInside(d) /\ Joins(d, path, a, b)
    BY <1>2, <2>1, <2>2 DEF RoutesOver
  <2> QED BY <2>2 DEF RoutesOver
<1> QED BY <1>2, <1>3, <1>4 DEF Brought, zs

------------------------------------------------------------------------------
(* The calls carry what they should. *)

LEMMA NothingCarried ==
  ASSUME NEW f, f.out.connections = <<>>, f.inputTargets = <<>>, f.outputSources = <<>>, NEW path
  PROVE  Carried(f, path, {})
<1>1. <<>> \in Seq(Connections) /\ Range(<<>>) = {}
  BY DEF Range
<1>2. Brought(<<>>, path, {})
  BY <1>1 DEF Brought
<1>3. {} \cap Imports(Architecture(path)) = {}
  OBVIOUS
<1> QED BY <1>2, <1>3, EmptyMap DEF Carried, CarriedFor

\* A component is copied: nothing changes, for it is no import.
LEMMA SameCarried ==
  ASSUME NEW f, NEW g, NEW path, NEW over, NEW more, Carried(f, path, over),
         g.out.connections = f.out.connections,
         g.inputTargets = f.inputTargets, g.outputSources = f.outputSources,
         more \cap Imports(Architecture(path)) = over \cap Imports(Architecture(path))
  PROVE  Carried(g, path, more)
BY DEF Carried, CarriedFor

\* An import is merged.
LEMMA MergedCarried ==
  ASSUME Undotted, root \in Roots, Reserved, NEW path \in Instances,
         NEW g \in Sons(Architecture(path)),
         NEW f, NEW over, Carried(f, path, over), g \notin over,
         NEW child, AreWhole(child.connections, path \o g),
         NEW h, IsMerged(h, f, g, child)
  PROVE  Carried(h, path, over \cup {g})
<1> DEFINE done == over \cap Imports(Architecture(path))
           conns == child.connections
<1>1. /\ path \in Names
      /\ \A i \in Imports(Architecture(path)) : i \in Names /\ Len(i) = 1 /\ i \notin {Input, Output}
  BY ImportsAt
<1>2. g \in Imports(Architecture(path))
  BY DEF Sons
<1>3. g \in Names /\ Len(g) = 1 /\ g \notin {Input, Output}
  BY <1>1, <1>2
<1>4. (over \cup {g}) \cap Imports(Architecture(path)) = done \cup {g} /\ g \notin done
  BY <1>2
<1>5. \A i \in done \cup {g} : i \in Names /\ Len(i) = 1
  BY <1>1, <1>2
<1>6. CarriedFor(f, path, done)
  BY DEF Carried
<1>7. /\ h.out.connections = f.out.connections \o Internal(g, conns)
      /\ h.inputTargets = Recorded(f.inputTargets, InputEntries(g, conns))
      /\ h.outputSources = Recorded(f.outputSources, OutputEntries(g, conns))
  BY DEF IsMerged
<1>8. AreWhole(conns, path \o g)
  OBVIOUS
<1> HIDE DEF done, conns
<1>9. Brought(h.out.connections, path, done \cup {g})
  <2>1. Brought(Internal(g, conns), path, {g})
    BY <1>1, <1>3, <1>8, InsideBrought
  <2>2. Brought(f.out.connections, path, done)
    BY <1>6 DEF CarriedFor
  <2> QED BY <1>7, <2>1, <2>2, BroughtBoth
<1>10. MapCarried(h.inputTargets, path, done \cup {g}, Input)
  <2>1. EntriesFor(InputEntries(g, conns), path, g, Input)
    BY <1>1, <1>3, <1>8, InputsRecorded
  <2>2. MapCarried(f.inputTargets, path, done, Input)
    BY <1>6 DEF CarriedFor
  <2> QED BY <1>4, <1>5, <1>7, <2>1, <2>2, MapMerged
<1>11. MapCarried(h.outputSources, path, done \cup {g}, Output)
  <2>1. EntriesFor(OutputEntries(g, conns), path, g, Output)
    BY <1>1, <1>3, <1>8, OutputsRecorded
  <2>2. MapCarried(f.outputSources, path, done, Output)
    BY <1>6 DEF CarriedFor
  <2> QED BY <1>4, <1>5, <1>7, <2>1, <2>2, MapMerged
<1> QED BY <1>4, <1>9, <1>10, <1>11 DEF Carried, CarriedFor

Carries(frames) ==
  \A i \in 1..Len(frames) : Carried(frames[i], PathTo(frames, i), Over(frames, i))

LEMMA StillCarried ==
  ASSUME StackInv(stack), Carries(stack), NEW t, NEW n \in 0..Len(stack), Kept(stack, t, n)
  PROVE  \A i \in 1..n : Carried(t[i], PathTo(t, i), Over(t, i))
<1>1. Len(stack) \in Nat
  <2>1. stack \in Seq(Range(stack))
    BY DEF StackInv
  <2> QED BY <2>1
<1>2. \A i \in 1..n : i \in 1..Len(stack)
  BY <1>1
<1> QED BY <1>2 DEF Carries, Kept

LEMMA CarriesCopy ==
  ASSUME Walks(stack), Carries(stack), NEW name \in Top.todo, CopyComponent(name)
  PROVE  Carries(stack')
<1> DEFINE n == Len(stack)
           f == stack[n]
           g == stack'[n]
           P == PathTo(stack, n)
           o == Over(stack, n)
<1>1. /\ n \in Nat \ {0} /\ Len(stack') = n /\ g = Copied(f, name)
      /\ Kept(stack, stack', n - 1) /\ FrameInv(f)
      /\ PathTo(stack', n) = P /\ Over(stack', n) = o \cup {name}
      /\ name \in f.todo \ Imports(f.arch)
  BY CopyStep
<1>2. n \in 1..Len(stack)
  BY <1>1
<1>3. Walked(f, P, o) /\ Carried(f, P, o)
  BY <1>2 DEF Walks, Carries
<1>4. \A i \in 1..n - 1 : Carried(stack'[i], PathTo(stack', i), Over(stack', i))
  <2>1. n - 1 \in 0..Len(stack) /\ StackInv(stack)
    BY <1>1 DEF Walks
  <2> QED BY <1>1, <2>1, StillCarried
<1> HIDE DEF n, f, g, P, o
<1>5. /\ g.out.connections = f.out.connections
      /\ g.inputTargets = f.inputTargets /\ g.outputSources = f.outputSources
  <2>1. FrameInv(f) /\ g = Copied(f, name)
    BY <1>1
  <2>2. /\ Copied(f, name).out.connections = f.out.connections
        /\ Copied(f, name).inputTargets = f.inputTargets
        /\ Copied(f, name).outputSources = f.outputSources
    BY <2>1, CopiedIs
  <2> QED BY <2>1, <2>2
<1>6. (o \cup {name}) \cap Imports(Architecture(P)) = o \cap Imports(Architecture(P))
  BY <1>1, <1>3 DEF Walked
<1>7. Carried(g, P, o \cup {name})
  BY <1>3, <1>5, <1>6, SameCarried
<1>8. ASSUME NEW i \in 1..n  PROVE Carried(stack'[i], PathTo(stack', i), Over(stack', i))
  <2>1. i = n \/ i \in 1..n - 1
    BY <1>1
  <2> QED BY <1>1, <1>4, <1>7, <2>1 DEF g
<1> QED BY <1>1, <1>8 DEF Carries

LEMMA CarriesResolve ==
  ASSUME Undotted, root \in Roots, Walks(stack), Carries(stack),
         NEW name \in Top.todo, Resolve(name)
  PROVE  Carries(stack')
<1> DEFINE n == Len(stack)
           f == stack[n]
           key == Key(f.arch.components[name])
           P == PathTo(stack, n)
           o == Over(stack, n)
           v == stack'[n]
           g == stack'[n + 1]
<1>1. /\ n \in Nat \ {0} /\ Len(stack') = n + 1
      /\ v = Visited(f, name)
      /\ g = Frame(name, Library[key].entry, f.seen \cup {key})
      /\ Kept(stack, stack', n - 1) /\ FrameInv(f)
      /\ PathTo(stack', n) = P /\ PathTo(stack', n + 1) = P \o name
      /\ Over(stack', n) = o /\ Over(stack', n + 1) = {}
  BY ResolveStep
<1>2. n \in 1..Len(stack)
  BY <1>1
<1>3. Carried(f, P, o)
  BY <1>2 DEF Carries
<1>4. \A i \in 1..n - 1 : Carried(stack'[i], PathTo(stack', i), Over(stack', i))
  <2>1. n - 1 \in 0..Len(stack) /\ StackInv(stack)
    BY <1>1 DEF Walks
  <2> QED BY <1>1, <2>1, StillCarried
<1>5. g.out.connections = <<>> /\ g.inputTargets = <<>> /\ g.outputSources = <<>>
  <2> HIDE DEF f, g, P, n, o, key
  <2> QED BY <1>1 DEF Frame, NoArchitecture
<1> HIDE DEF f, v, g, P, n, o
<1>6. Carried(v, P, o)
  <2>1. /\ v.out = f.out /\ v.inputTargets = f.inputTargets /\ v.outputSources = f.outputSources
    BY <1>1, VisitedIs
  <2> QED BY <1>3, <2>1, SameCarried
<1>7. Carried(g, P \o name, {})
  BY <1>5, NothingCarried
<1>8. ASSUME NEW i \in 1..n + 1  PROVE Carried(stack'[i], PathTo(stack', i), Over(stack', i))
  <2>1. i = n + 1 \/ i = n \/ i \in 1..n - 1
    BY <1>1
  <2> QED BY <1>1, <1>4, <1>6, <1>7, <2>1 DEF v, g
<1> QED BY <1>1, <1>8 DEF Carries

LEMMA CarriesReturn ==
  ASSUME Undotted, Reserved, NamedPorts, root \in Roots, Walks(stack), Carries(stack), ReturnChild
  PROVE  Carries(stack')
<1> DEFINE n == Len(stack)
           m == n - 1
           f == stack[m]
           c == stack[n]
           g == stack'[m]
           P == PathTo(stack, m)
           o == Over(stack, m)
           prefix == c.name
<1>1. /\ n \in Nat \ {0} /\ m \in Nat \ {0} /\ Len(stack') = m
      /\ g = mergeChild(f, prefix, Flattened(c))
      /\ Kept(stack, stack', n - 2)
      /\ FrameInv(f) /\ FrameInv(c) /\ prefix \in Sons(f.arch)
      /\ PathTo(stack', m) = P
      /\ PathTo(stack, n) = P \o prefix
      /\ prefix \notin o
      /\ Over(stack', m) = o \cup {prefix}
      /\ Over(stack, n) = DOMAIN c.arch.components
  BY ReturnStep
<1>2. /\ Walked(f, P, o) /\ Carried(f, P, o)
      /\ Walked(c, P \o prefix, DOMAIN c.arch.components)
      /\ Carried(c, P \o prefix, DOMAIN c.arch.components)
  <2>1. m \in 1..Len(stack) /\ n \in 1..Len(stack)
    BY <1>1
  <2>2. /\ Walked(f, P, o) /\ Walked(c, PathTo(stack, n), Over(stack, n))
        /\ Carried(f, P, o) /\ Carried(c, PathTo(stack, n), Over(stack, n))
    BY <2>1 DEF Walks, Carries
  <2> QED BY <1>1, <2>2
<1>3. \A i \in 1..m - 1 : Carried(stack'[i], PathTo(stack', i), Over(stack', i))
  <2>1. m - 1 \in 0..Len(stack) /\ Kept(stack, stack', m - 1) /\ StackInv(stack)
    BY <1>1 DEF Walks
  <2> QED BY <2>1, StillCarried
<1> HIDE DEF n, m, f, c, g, P, o, prefix
<1>4. IsMerged(g, f, prefix, Flattened(c))
  <2> DEFINE child == Flattened(c)
  <2>1. FrameInv(f) /\ prefix \in Names /\ AreModels(child.models)
    BY <1>1, FlattenedIs DEF FrameInv, prefix
  <2>2. g = mergeChild(f, prefix, child)
    BY <1>1
  <2> HIDE DEF child
  <2>3. IsMerged(g, f, prefix, child)
    BY <2>1, <2>2, MergedIs
  <2> QED BY <2>3 DEF child
<1> DEFINE q == P \o prefix
<1>5. /\ P \in Instances /\ f.arch = Architecture(P) /\ q \in Instances
      /\ c.arch = Architecture(q)
  BY <1>2 DEF Walked
<1>6. prefix \in Sons(Architecture(P))
  BY <1>1, <1>5
<1>7. q # NoName
  <2>1. prefix \in Imports(Architecture(P))
    BY <1>6 DEF Sons
  <2> QED BY <1>5, <2>1, ImportsAt
<1>8. /\ Imports(Architecture(q)) = Sons(Architecture(q))
      /\ CarriedFor(c, q, Imports(Architecture(q)))
  <2>1. DOMAIN c.arch.components \cap Imports(c.arch) = Imports(c.arch)
    BY DEF Imports
  <2>2. \A i \in Imports(c.arch) : i \in Sons(c.arch)
    BY <1>2, <2>1 DEF Walked
  <2>3. Imports(Architecture(q)) = Sons(Architecture(q))
    BY <1>5, <2>2 DEF Sons
  <2> QED BY <1>2, <1>5, <2>1, <2>3 DEF Carried
<1>9. AreWhole(Flattened(c).connections, q)
  <2> HIDE DEF q
  <2> QED BY <1>1, <1>5, <1>7, <1>8, WholeIs
<1>10. Carried(g, P, o \cup {prefix})
  BY <1>1, <1>2, <1>4, <1>5, <1>6, <1>9, MergedCarried
<1>11. ASSUME NEW i \in 1..m  PROVE Carried(stack'[i], PathTo(stack', i), Over(stack', i))
  <2>1. i = m \/ i \in 1..m - 1
    BY <1>1
  <2> QED BY <1>1, <1>3, <1>10, <2>1 DEF g
<1> QED BY <1>1, <1>11 DEF Carries

------------------------------------------------------------------------------
(* The routes are the connections of what is returned. *)

AllJoined(arch) == {<<c.from, c.to>> : c \in Range(arch.connections)} = Routes

LEMMA AllJoinedIf ==
  ASSUME NEW arch,
         \A d \in Range(arch.connections) : <<d.from, d.to>> \in Routes,
         \A a, b : <<a, b>> \in Routes =>
           \E d \in Range(arch.connections) : Joins(d, NoName, a, b),
         \A d \in Range(arch.connections) : NoName \o d.from = d.from /\ NoName \o d.to = d.to
  PROVE  AllJoined(arch)
<1>1. \A r \in Routes : r = <<r[1], r[2]>>
  BY DEF Routes, RoutesOf
<1>2. ASSUME NEW r \in Routes
      PROVE  r \in {<<c.from, c.to>> : c \in Range(arch.connections)}
  <2>1. <<r[1], r[2]>> \in Routes
    BY <1>1
  <2> DEFINE a == r[1]
             b == r[2]
  <2>2. r = <<a, b>> /\ <<a, b>> \in Routes
    BY <1>1, <2>1
  <2> HIDE DEF a, b
  <2>3. PICK d \in Range(arch.connections) : Joins(d, NoName, a, b)
    BY <2>2
  <2>4. a = d.from /\ b = d.to
    BY <2>3 DEF Joins
  <2> QED BY <2>2, <2>4
<1> QED BY <1>2 DEF AllJoined

\* The names of the flat architecture are the paths, from the root.
LEMMA FromRoot ==
  ASSUME NEW conns \in Seq(Connections)
  PROVE  \A d \in Range(conns) :
           /\ d.from \in Names /\ d.to \in Names
           /\ NoName \o d.from = d.from /\ NoName \o d.to = d.to
<1>1. \A d \in Range(conns) : d.from \in Names /\ d.to \in Names
  <2>1. \A d \in Range(conns) : d \in Connections
    BY RangeFinite
  <2> QED BY <2>1 DEF Connections
<1> QED BY <1>1, CatLaws DEF NoName

LEMMA RootOwn ==
  ASSUME NEW c
  PROVE  c \in OwnConns(NoName) <=> c \in Range(Architecture(NoName).connections)
BY DEF OwnConns, PassThrough

\* A root that imports nothing is its own flat architecture.
LEMMA RootJoined ==
  ASSUME Undotted, root \in Roots, Imports(Architecture(NoName)) = {}
  PROVE  AllJoined(Architecture(NoName))
<1> DEFINE arch == Architecture(NoName)
<1>1. NoName \in Instances /\ NoName \in Names
  BY InstanceIs, AtRoot
<1>2. arch.connections \in Seq(Connections)
  <2>1. PackageAt(NoName) \in Parsed
    BY <1>1, ImportsAt
  <2> QED BY <2>1, ConnectionsAt DEF Connections
<1>3. \A d \in Range(arch.connections) :
        /\ d.from \in Names /\ d.to \in Names
        /\ NoName \o d.from = d.from /\ NoName \o d.to = d.to
  BY <1>2, FromRoot
<1>4. ASSUME NEW path \in Instances  PROVE path = NoName
  <2>1. path \in Names
    BY ImportsAt
  <2>2. Under(NoName, path)
    BY <2>1, CatLaws DEF Under, NoName
  <2>3. Sons(Architecture(NoName)) = {}
    BY DEF Sons
  <2> QED BY <1>1, <2>2, <2>3, WayDown
<1>5. ASSUME NEW c \in Range(arch.connections), NEW a, NEW b
      PROVE  /\ Begins(a, FromPlace(NoName, c)) <=> a = NoName \o c.from
             /\ Ends(b, ToPlace(NoName, c)) <=> b = NoName \o c.to
  <2>1. c \in OwnConns(NoName)
    BY RootOwn
  <2> QED BY <1>1, <2>1, BeginsIs, EndsIs
<1>6. ASSUME NEW d \in Range(arch.connections)
      PROVE  <<d.from, d.to>> \in Routes
  <2> DEFINE a == NoName \o d.from
             b == NoName \o d.to
  <2>1. Begins(a, FromPlace(NoName, d)) /\ Ends(b, ToPlace(NoName, d)) /\ d \in OwnConns(NoName)
    BY <1>5, RootOwn
  <2>2. a = d.from /\ b = d.to
    BY <1>3
  <2> HIDE DEF a, b
  <2>3. <<a, b>> \in Routes
    BY <1>1, <2>1, RoutesAre
  <2> QED BY <2>2, <2>3
<1>7. ASSUME NEW a, NEW b, <<a, b>> \in Routes
      PROVE  \E d \in Range(arch.connections) : Joins(d, NoName, a, b)
  <2>1. PICK path \in Instances : \E c \in OwnConns(path) :
               Begins(a, FromPlace(path, c)) /\ Ends(b, ToPlace(path, c))
    BY <1>7, RoutesAre
  <2>2. path = NoName
    BY <1>4
  <2>3. PICK c \in OwnConns(NoName) : Begins(a, FromPlace(NoName, c)) /\ Ends(b, ToPlace(NoName, c))
    BY <2>1, <2>2
  <2>4. c \in Range(arch.connections)
    BY RootOwn
  <2>5. Joins(c, NoName, a, b)
    BY <1>5, <2>3, <2>4 DEF Joins
  <2> QED BY <2>4, <2>5
<1> HIDE DEF arch
<1>8. AllJoined(arch)
  BY <1>3, <1>6, <1>7, AllJoinedIf
<1> QED BY <1>8 DEF arch

\* When the first call is over and what it returns is accepted, every route
\* is in it and nothing else: a connection that leads nowhere is refused.
LEMMA TopJoined ==
  ASSUME Undotted, Reserved, NamedPorts, root \in Roots, Walks(stack), Gathers(stack),
         Carries(stack), Len(stack) = 1, Top.todo = {}, Validate(Flattened(Top))
  PROVE  AllJoined(Flattened(Top))
<1> DEFINE f == Top
           arch == Flattened(f)
           out == f.out.connections
<1>1. /\ Walked(f, NoName, DOMAIN f.arch.components)
      /\ f = stack[1] /\ PathTo(stack, 1) = NoName
      /\ Over(stack, 1) = DOMAIN f.arch.components
  BY AllWalked
<1>2. FrameInv(f) /\ Carried(f, NoName, DOMAIN f.arch.components)
  <2>1. 1 \in 1..Len(stack) /\ 1 \in DOMAIN stack
    BY <1>1 DEF Walks, StackInv
  <2> QED BY <1>1, <2>1 DEF Walks, StackInv, Carries
<1>3. NoName \in Instances /\ NoName \in Names /\ f.arch = Architecture(NoName)
  BY <1>1, AtRoot DEF Walked
<1>4. DOMAIN arch.components = Leaves
  BY TopGathered, ComponentsThere
<1>5. Validate(arch)
  OBVIOUS
<1> HIDE DEF f
<1>6. CarriedFor(f, NoName, Imports(Architecture(NoName)))
  <2>1. DOMAIN f.arch.components \cap Imports(f.arch) = Imports(f.arch)
    BY DEF Imports
  <2> QED BY <1>2, <1>3, <2>1 DEF Carried
<1>7. /\ arch.connections \in Seq(Connections)
      /\ \A d \in Range(out) : d \in Range(arch.connections)
      /\ \A d \in Range(arch.connections) :
           \/ d \in Range(out)
           \/ \E c \in Range(Architecture(NoName).connections) :
                /\ d.from \in Range(Put(f.outputSources, c.from))
                /\ d.to \in Range(Put(f.inputTargets, c.to))
  BY <1>2, <1>3, <1>6, ReturnedIs
<1>8. Brought(out, NoName, Imports(Architecture(NoName)))
  BY <1>6 DEF CarriedFor
<1>9. \A c \in OwnConns(NoName) : \A a, b :
        Begins(a, FromPlace(NoName, c)) /\ Ends(b, ToPlace(NoName, c)) =>
          \E d \in Range(arch.connections) : Joins(d, NoName, a, b)
  <2>1. ASSUME NEW c \in OwnConns(NoName), NEW a, NEW b,
               Begins(a, FromPlace(NoName, c)), Ends(b, ToPlace(NoName, c))
        PROVE  \E d \in Range(arch.connections) : Joins(d, NoName, a, b)
    <3>1. \E d \in Range(Flattened(f).connections) :
            Joins(d, NoName, a, b) /\ (NoName # NoName => IsInside(d))
      BY <1>2, <1>3, <1>6, <2>1, OwnRoutes
    <3> QED BY <3>1
  <2> QED BY <2>1
<1> HIDE DEF arch, out
<1>10. \A d \in Range(arch.connections) :
         /\ d.from \in Names /\ d.to \in Names
         /\ NoName \o d.from = d.from /\ NoName \o d.to = d.to
  BY <1>7, FromRoot
<1>11. \A d \in Range(arch.connections) : ~Dead(d.from) /\ ~Dead(d.to)
  <2>1. \A d \in Range(arch.connections) :
          /\ endpointComponent(d.from) \in {Input, Output} \cup Leaves
          /\ endpointComponent(d.to) \in {Input, Output} \cup Leaves
    BY <1>4, <1>5 DEF Validate, checkConnections, checkEndpoint
  <2> QED BY <2>1, DeadIsNot
<1>12. ASSUME NEW d \in Range(arch.connections)
       PROVE  <<d.from, d.to>> \in Routes
  <2> DEFINE a == NoName \o d.from
             b == NoName \o d.to
  <2>1. a = d.from /\ b = d.to /\ ~Dead(a) /\ ~Dead(b)
    BY <1>10, <1>11
  <2>2. CASE d \in Range(out)
    <3>1. IsRoute(NoName, d)
      BY <1>8, <2>2 DEF Brought
    <3> QED BY <2>1, <3>1 DEF IsRoute
  <2>3. CASE d \notin Range(out)
    <3>1. PICK c \in Range(Architecture(NoName).connections) :
            /\ d.from \in Range(Put(f.outputSources, c.from))
            /\ d.to \in Range(Put(f.inputTargets, c.to))
      BY <1>7, <2>3
    <3>2. c \in OwnConns(NoName)
      BY RootOwn
    <3> DEFINE froms == Put(f.outputSources, c.from)
               tos == Put(f.inputTargets, c.to)
    <3>3. IsSource(froms, NoName, c) /\ IsTarget(tos, NoName, c)
      BY <1>3, <1>6, SourceIs, TargetIs DEF CarriedFor
    <3>4. d.from \in Range(froms) /\ d.to \in Range(tos)
      BY <3>1
    <3> HIDE DEF froms, tos
    <3>5. Begins(a, FromPlace(NoName, c)) /\ Ends(b, ToPlace(NoName, c))
      BY <2>1, <3>2, <3>3, <3>4 DEF IsSource, IsTarget
    <3> HIDE DEF a, b
    <3>6. <<a, b>> \in Routes
      BY <1>3, <3>2, <3>5, RoutesAre
    <3> QED BY <2>1, <3>6
  <2> QED BY <2>2, <2>3
<1>13. ASSUME NEW a, NEW b, <<a, b>> \in Routes
       PROVE  \E d \in Range(arch.connections) : Joins(d, NoName, a, b)
  <2>1. PICK path \in Instances : \E c \in OwnConns(path) :
               Begins(a, FromPlace(path, c)) /\ Ends(b, ToPlace(path, c))
    BY <1>13, RoutesAre
  <2>2. PICK c \in OwnConns(path) : Begins(a, FromPlace(path, c)) /\ Ends(b, ToPlace(path, c))
    BY <2>1
  <2>3. CASE path = NoName
    BY <1>9, <2>2, <2>3
  <2>4. CASE path # NoName
    <3>1. Under(NoName, path)
      <4>1. path \in Names
        BY ImportsAt
      <4> QED BY <4>1, CatLaws DEF Under, NoName
    <3>2. PICK g \in Sons(Architecture(NoName)) : Under(NoName \o g, path)
      BY <1>3, <2>4, <3>1, WayDown
    <3>3. g \in Imports(Architecture(NoName))
      BY DEF Sons
    <3>4. RoutesOver(out, NoName, path)
      BY <1>8, <3>2, <3>3 DEF Brought
    <3>5. PICK d \in Range(out) : IsInside(d) /\ Joins(d, NoName, a, b)
      BY <2>2, <3>4 DEF RoutesOver
    <3> QED BY <1>7, <3>5
  <2> QED BY <2>3, <2>4
<1>14. AllJoined(arch)
  BY <1>10, <1>12, <1>13, AllJoinedIf
<1> QED BY <1>14 DEF arch, f

\* While the calls are under way they carry what they should, and what is
\* accepted has the routes for its connections.
RoutesInv ==
  /\ composed = "pending" /\ stack # <<>> => Carries(stack)
  /\ RoutesPreserved

LEMMA RoutesStart ==
  ASSUME Undotted, CompositionInit
  PROVE  RoutesInv
<1>1. composed = "pending"
  BY DEF CompositionInit
<1>2. SUFFICES ASSUME stack # <<>>  PROVE Carries(stack)
  BY <1>1 DEF RoutesInv, RoutesPreserved
<1> DEFINE f == Frame(NoName, ParseFile(root), {})
<1>3. stack = <<f>>
  BY <1>2 DEF CompositionInit
<1>4. /\ f.arch = ParseFile(root) /\ f.todo = DOMAIN f.arch.components
      /\ f.out.connections = <<>> /\ f.inputTargets = <<>> /\ f.outputSources = <<>>
  BY DEF Frame, NoArchitecture
<1> HIDE DEF f
<1>5. Len(stack) = 1 /\ stack[1] = f
  BY <1>3
<1>6. Over(stack, 1) = {}
  BY <1>4, <1>5 DEF Over
<1>7. Carried(f, PathTo(stack, 1), {})
  BY <1>4, NothingCarried
<1>8. ASSUME NEW i \in 1..Len(stack)  PROVE Carried(stack[i], PathTo(stack, i), Over(stack, i))
  <2>1. i = 1
    BY <1>5
  <2> QED BY <1>5, <1>6, <1>7, <2>1
<1> QED BY <1>8 DEF Carries

LEMMA RoutesKnown ==
  ASSUME root' = root
  PROVE  /\ Carries(stack') => Carries(stack)'
         /\ Routes' = Routes
<1>1. /\ Instances' = Instances
      /\ \A p : Architecture(p)' = Architecture(p)
  BY PathsKnown
<1>2. \A p, e, side : Place(p, e, side)' = Place(p, e, side)
  BY <1>1 DEF Place
<1>3. Hops' = Hops
  BY <1>1, <1>2 DEF Hops
<1>4. Ways' = Ways /\ Routes' = Routes
  BY <1>3 DEF Ways, Routes
<1>5. \A p : OwnConns(p)' = OwnConns(p)
  BY <1>1 DEF OwnConns
<1>6. \A a, place : (Begins(a, place)' <=> Begins(a, place)) /\ (Ends(a, place)' <=> Ends(a, place))
  BY <1>4 DEF Begins, Ends
<1>7. \A a, q, p, side : Leads(side, a, q, p)' <=> Leads(side, a, q, p)
  BY <1>4 DEF Leads
<1>8. \A a : Dead(a)' <=> Dead(a)
  BY <1>1 DEF Dead
<1>9. \A p, d : IsRoute(p, d)' <=> IsRoute(p, d)
  BY <1>4, <1>8 DEF IsRoute
<1>10. \A p, c : FromPlace(p, c)' = FromPlace(p, c) /\ ToPlace(p, c)' = ToPlace(p, c)
  BY <1>2 DEF FromPlace, ToPlace
<1>11. \A conns, p, i : RoutesOver(conns, p, i)' <=> RoutesOver(conns, p, i)
  BY <1>5, <1>6, <1>10 DEF RoutesOver
<1>12. \A conns, p, done : Brought(conns, p, done)' <=> Brought(conns, p, done)
  BY <1>1, <1>9, <1>11 DEF Brought
<1>13. \A map, p, done, side : MapCarried(map, p, done, side)' <=> MapCarried(map, p, done, side)
  BY <1>7, <1>8 DEF MapCarried
<1>14. ASSUME NEW i \in 1..Len(stack'), Carried(stack'[i], PathTo(stack', i), Over(stack', i))
       PROVE  Carried(stack[i], PathTo(stack, i), Over(stack, i))'
  BY <1>1, <1>12, <1>13, <1>14 DEF Carried, CarriedFor, PathTo, Over
<1> QED BY <1>4, <1>14 DEF Carries

LEMMA RoutesStep ==
  ASSUME Undotted, Reserved, NamedPorts, root \in Roots, CompositionInv, GatheredInv, RoutesInv,
         CompositionNext
  PROVE  RoutesInv'
<1>1. root' = root /\ composed = "pending"
  BY DEF CompositionNext, LoadAndValidate, ReturnChild, CopyComponent, CircularDependency,
         Resolve, ResolveFails
<1>2. ASSUME stack # <<>>, Carries(stack')
      PROVE  Carries(stack)'
  BY <1>1, <1>2, RoutesKnown
<1>3. CASE LoadAndValidate
  <2> DEFINE arch == IF stack = <<>> THEN ParseFile(root) ELSE Flattened(Top)
  <2>1. /\ stack' = <<>> /\ composed' = (IF Validate(arch) THEN "ok" ELSE "invalid")
        /\ flat' = arch
    BY <1>3 DEF LoadAndValidate
  <2>2. Validate(arch) => AllJoined(arch)
    <3>1. CASE stack = <<>>
      <4>1. Imports(Architecture(NoName)) = {} /\ Architecture(NoName) = ParseFile(root)
        BY <1>1, <3>1, AtRoot DEF CompositionInv
      <4> QED BY <3>1, <4>1, RootJoined
    <3>2. CASE stack # <<>>
      <4>1. Walks(stack) /\ Gathers(stack) /\ Carries(stack) /\ Len(stack) = 1 /\ Top.todo = {}
        BY <1>1, <1>3, <3>2 DEF CompositionInv, GatheredInv, RoutesInv, LoadAndValidate
      <4> QED BY <3>2, <4>1, TopJoined
    <3> QED BY <3>1, <3>2
  <2> HIDE DEF arch
  <2>3. composed' = "ok" => {<<c.from, c.to>> : c \in Range(flat'.connections)} = Routes'
    BY <1>1, <2>1, <2>2, RoutesKnown DEF AllJoined
  <2> QED BY <2>1, <2>3 DEF RoutesInv, RoutesPreserved
<1>4. CASE stack # <<>> /\ ReturnChild
  <2>1. Carries(stack') /\ UNCHANGED composed
    BY <1>1, <1>4, CarriesReturn DEF CompositionInv, RoutesInv, ReturnChild
  <2> QED BY <1>1, <1>2, <1>4, <2>1 DEF RoutesInv, RoutesPreserved
<1>5. ASSUME stack # <<>>, NEW name \in Top.todo, CopyComponent(name) \/ Resolve(name)
      PROVE  RoutesInv'
  <2>1. Carries(stack') /\ UNCHANGED composed
    BY <1>1, <1>5, CarriesCopy, CarriesResolve
       DEF CompositionInv, RoutesInv, CopyComponent, Resolve
  <2> QED BY <1>1, <1>2, <1>5, <2>1 DEF RoutesInv, RoutesPreserved
<1>6. ASSUME stack # <<>>, NEW name \in Top.todo, CircularDependency(name) \/ ResolveFails(name)
      PROVE  RoutesInv'
  BY <1>6 DEF RoutesInv, RoutesPreserved, CircularDependency, ResolveFails
<1> QED BY <1>1, <1>3, <1>4, <1>5, <1>6 DEF CompositionNext

\* An architecture that is accepted connects two component ports exactly if
\* some chain of connections through the inputs and outputs of the packages
\* does, whatever order flatten meets the components in, however often ports
\* fan out and however deep the imports are.  An import named as a boundary
\* and an endpoint that ends in a dot are left out: the code refuses neither,
\* and reads the first as the boundary and drops the dot of the second.
THEOREM RoutesPreservedHolds ==
  ASSUME Undotted, Reserved, NamedPorts
  PROVE  Spec => []RoutesPreserved
<1> DEFINE Inv == CompositionInv /\ GatheredInv /\ RoutesInv
<1>1. Init => Inv
  BY CompositionStart, GatheredStart, RoutesStart DEF Init, ExecutionInit
<1>2. ModelsInv /\ Inv /\ [Next]_vars => Inv'
  <2> SUFFICES ASSUME ModelsInv, Inv, [Next]_vars  PROVE Inv'
    OBVIOUS
  <2>1. CASE Load
    BY <2>1, CompositionStep, GatheredStep, RoutesStep DEF Load, ModelsInv
  <2>2. CASE UNCHANGED composition
    <3>1. UNCHANGED <<root, stack, composed, flat>>
      BY <2>2 DEF composition
    <3>2. CompositionInv'
      BY <3>1, CompositionKept
    <3>3. (Gathers(stack) => Gathers(stack)') /\ (Carries(stack) => Carries(stack)')
      BY <3>1, GatheredKnown, RoutesKnown
    <3>4. /\ composed' = "ok" => DOMAIN flat'.components = Leaves'
          /\ PlainSlots => ComponentsPreserved'
      BY <3>1, GatheredKnown DEF GatheredInv, ComponentsPreserved
    <3>5. RoutesPreserved'
      BY <3>1, RoutesKnown DEF RoutesInv, RoutesPreserved
    <3> QED BY <3>1, <3>2, <3>3, <3>4, <3>5 DEF GatheredInv, RoutesInv
  <2> QED BY <2>1, <2>2, OnlyLoadComposes
<1>3. Inv => RoutesPreserved
  BY DEF RoutesInv
<1> QED BY <1>1, <1>2, <1>3, ModelsHold, PTL DEF Spec

------------------------------------------------------------------------------
(* The tree of imports that deps prints. *)

\* Sequences that are written as functions.
IsSeq(s, n) == n \in Nat /\ s = [i \in 1..n |-> s[i]]

LEMMA SeqIs ==
  ASSUME NEW n \in Nat, NEW s, IsSeq(s, n)
  PROVE  /\ Len(s) = n /\ DOMAIN s = 1..n /\ Range(s) = {s[i] : i \in 1..n}
         /\ s = <<>> <=> n = 0
         /\ \A e : Append(s, e) = [i \in 1..n + 1 |-> IF i = n + 1 THEN e ELSE s[i]]
         /\ n > 0 => /\ Head(s) = s[1] /\ Tail(s) = [i \in 1..n - 1 |-> s[i + 1]]
                     /\ Last(s) = s[n] /\ Front(s) = [i \in 1..n - 1 |-> s[i]]
<1> DEFINE S == {s[i] : i \in 1..n}
<1>1. s \in Seq(S)
  <2>1. s = [i \in 1..n |-> s[i]]
    BY DEF IsSeq
  <2>2. \A i \in 1..n : s[i] \in S
    OBVIOUS
  <2> QED BY <2>1, <2>2, IsASeq
<1>2. Len(s) = n /\ DOMAIN s = 1..n
  <2>1. DOMAIN s = 1..n
    BY DEF IsSeq
  <2>2. Len(s) \in Nat /\ DOMAIN s = 1..Len(s)
    BY <1>1, LenProperties
  <2> QED BY <2>1, <2>2
<1>3. Range(s) = S
  BY <1>2 DEF Range
<1>4. s = <<>> <=> n = 0
  BY <1>1, <1>2, EmptySeq
<1>5. ASSUME NEW e
      PROVE  Append(s, e) = [i \in 1..n + 1 |-> IF i = n + 1 THEN e ELSE s[i]]
  <2>1. s \in Seq(S \cup {e}) /\ e \in S \cup {e}
    BY <1>1
  <2>2. /\ Append(s, e) \in Seq(S \cup {e}) /\ Len(Append(s, e)) = n + 1
        /\ Append(s, e)[n + 1] = e
        /\ \A i \in 1..n : Append(s, e)[i] = s[i]
    BY <1>2, <2>1, AppendProperties
  <2>3. Append(s, e) = [i \in 1..n + 1 |-> Append(s, e)[i]]
    <3>1. Append(s, e) \in [1..n + 1 -> S \cup {e}]
      BY <2>2, LenProperties
    <3> QED BY <3>1
  <2>4. \A i \in 1..n + 1 : i = n + 1 \/ i \in 1..n
    OBVIOUS
  <2> QED BY <2>2, <2>3, <2>4
<1>6. ASSUME n > 0
      PROVE  /\ Head(s) = s[1] /\ Tail(s) = [i \in 1..n - 1 |-> s[i + 1]]
             /\ Last(s) = s[n] /\ Front(s) = [i \in 1..n - 1 |-> s[i]]
  <2>1. s # <<>>
    BY <1>4, <1>6
  <2>2. Head(s) = s[1] /\ Tail(s) = [i \in 1..n - 1 |-> s[i + 1]]
    <3>1. /\ Tail(s) \in Seq(S) /\ Len(Tail(s)) = n - 1
          /\ \A i \in 1..n - 1 : Tail(s)[i] = s[i + 1]
      BY <1>1, <1>2, <2>1, HeadTailProperties
    <3>2. Tail(s) \in [1..n - 1 -> S]
      BY <3>1, LenProperties
    <3>3. Head(s) = s[1]
      BY <1>1, <2>1
    <3> QED BY <3>1, <3>2, <3>3
  <2>3. Last(s) = s[n]
    BY <1>2 DEF Last
  <2>4. Front(s) = [i \in 1..n - 1 |-> s[i]]
    BY <1>2, <1>6 DEF Front
  <2> QED BY <2>2, <2>3, <2>4
<1> QED BY <1>2, <1>3, <1>4, <1>5, <1>6

\* The imports of an instance, in the order they are printed in.
Kids(p) == SetToSeq(Imports(Architecture(p)))

LEMMA KidsAre ==
  ASSUME NEW p, PackageAt(p) \in Parsed
  PROVE  /\ Len(Kids(p)) \in Nat /\ DOMAIN Kids(p) = 1..Len(Kids(p))
         /\ \A i \in 1..Len(Kids(p)) : Kids(p)[i] \in Imports(Architecture(p))
         /\ \A name \in Imports(Architecture(p)) : \E i \in 1..Len(Kids(p)) : Kids(p)[i] = name
         /\ \A i, j \in 1..Len(Kids(p)) : Kids(p)[i] = Kids(p)[j] => i = j
<1> DEFINE I == Imports(Architecture(p))
           N == Cardinality(I)
           K == Kids(p)
<1>1. IsFiniteSet(I)
  <2>1. IsFiniteSet(DOMAIN ParseFile(PackageAt(p)).components)
    BY ParsedAssumption DEF Parsed, AreComponents
  <2>2. I \in SUBSET DOMAIN ParseFile(PackageAt(p)).components
    BY DEF Imports, Architecture
  <2> QED BY <2>1, <2>2, FS_Subset
<1> HIDE DEF I
<1>2. N \in Nat /\ ExistsBijection(1..N, I)
  BY <1>1, FS_CardinalityType
<1>3. \E f \in [1..N -> I] : IsInjective(f)
  BY <1>2 DEF ExistsBijection, Bijection, Injection, IsInjective
<1>4. K \in [1..N -> I] /\ IsInjective(K)
  BY <1>3 DEF SetToSeq, Kids, I
<1> HIDE DEF K, N
<1>5. \A i, j \in 1..N : K[i] = K[j] => i = j
  BY <1>4 DEF IsInjective
<1>6. K \in Injection(1..N, I)
  BY <1>4, <1>5 DEF Injection, IsInjective
<1>7. Cardinality(1..N) = N
  BY <1>2, FS_Interval
<1>8. K \in Surjection(1..N, I)
  <2>1. Cardinality(1..N) = Cardinality(I)
    BY <1>7 DEF N
  <2> QED BY <1>1, <1>6, <2>1, FS_Injection
<1>9. \A name \in I : \E i \in 1..N : K[i] = name
  BY <1>8 DEF Surjection
<1>10. Len(K) = N /\ DOMAIN K = 1..N
  <2>1. K = [i \in 1..N |-> K[i]] /\ \A i \in 1..N : K[i] \in I
    BY <1>4
  <2>2. K \in Seq(I)
    BY <1>2, <2>1, IsASeq
  <2>3. Len(K) \in Nat /\ DOMAIN K = 1..Len(K)
    BY <2>2, LenProperties
  <2> QED BY <1>2, <1>4, <2>3
<1>11. \A i \in 1..N : K[i] \in I
  BY <1>4
<1> QED BY <1>2, <1>5, <1>9, <1>10, <1>11 DEF K, I

LEMMA KidIs ==
  ASSUME Undotted, root \in Roots, NEW p \in Instances,
         NEW name \in Imports(Architecture(p))
  PROVE  /\ p \in Names /\ Len(p) \in Nat /\ PackageAt(p) \in Parsed
         /\ name = <<name[1]>> /\ name \in Names
         /\ p \o name \in Names /\ Len(p \o name) = Len(p) + 1
         /\ Front(p \o name) = p /\ <<Last(p \o name)>> = name /\ p \o name # <<>>
         /\ \A i \in 1..Len(p) : (p \o name)[i] = p[i]
<1>1. IsInstance(p)
  BY InstanceIs
<1>2. p \in Names /\ PackageAt(p) \in Parsed /\ Len(p) \in Nat
  BY <1>1 DEF IsInstance
<1>3. name \in DOMAIN Architecture(p).components
  BY DEF Imports
<1>4. name \in Names /\ name = <<name[1]>> /\ name[1] \in STRING
  BY <1>2, <1>3, Segment
<1> DEFINE s == name[1]
<1>5. /\ p \o <<s>> \in Names /\ Len(p \o <<s>>) = Len(p) + 1
      /\ \A i \in 1..Len(p) : (p \o <<s>>)[i] = p[i]
  BY <1>2, <1>4, Longer
<1>6. Front(p \o <<s>>) = p /\ Last(p \o <<s>>) = s /\ p \o <<s>> # <<>>
  BY <1>2, <1>4, FrontLast
<1>7. name = <<s>>
  BY <1>4
<1> HIDE DEF s
<1> QED BY <1>2, <1>4, <1>5, <1>6, <1>7

\* Two imports of one instance, or of two, are two paths.
LEMMA KidsApart ==
  ASSUME Undotted, root \in Roots, NEW p \in Instances, NEW q \in Instances,
         NEW a \in Imports(Architecture(p)), NEW b \in Imports(Architecture(q)),
         p \o a = q \o b
  PROVE  p = q /\ a = b
<1>1. Front(p \o a) = p /\ <<Last(p \o a)>> = a
  BY KidIs
<1>2. Front(q \o b) = q /\ <<Last(q \o b)>> = b
  BY KidIs
<1> QED BY <1>1, <1>2, Zenon

\* The tree of a circular architecture is printed as deep as the bound
\* allows, which must not be deeper than the instances are.
Fits == ~Circular \/ MaxDepth \in 1..Deepest

LEMMA KidInstance ==
  ASSUME Undotted, root \in Roots, Fits, NEW p \in Instances, Len(p) + 1 <= MaxDepth,
         NEW name \in Sons(Architecture(p))
  PROVE  p \o name \in Instances
<1>1. CASE ~Circular
  <2>1. IsInjective(KeysOn(p))
    BY <1>1 DEF Circular
  <2> QED BY <2>1, SonInstance
<1>2. CASE MaxDepth \in 1..Deepest
  <2>1. Len(p) \in Nat
    BY InstanceIs DEF IsInstance
  <2>2. /\ Deepest \in Nat /\ Len(p) + 1 \in 0..Deepest /\ Len(p) \in 0..Deepest
        /\ Deepest \in 0..Deepest
        /\ Len(p) + 1 # 0 /\ (Len(p) + 1) - 1 = Len(p) /\ Deepest \in (Len(p) + 1)..Deepest
    BY <1>2, <2>1, DeepestIs
  <2>3. p \in InstancesTo[Deepest]
    BY DEF Instances, Deepest
  <2>4. p \in InstancesTo[Len(p)]
    BY <2>2, <2>3, InstancesLevel
  <2>5. InstancesTo[Len(p) + 1] = OneDeeper(InstancesTo[Len(p)])
    BY <2>2, InstancesToIs
  <2>6. p \o name \in InstancesTo[Len(p) + 1]
    <3> DEFINE below == InstancesTo[Len(p)]
    <3>1. p \o name \in UNION {{path \o x : x \in Sons(Architecture(path))} : path \in below}
      BY <2>4
    <3> HIDE DEF below
    <3>2. p \o name \in OneDeeper(below)
      BY <3>1 DEF OneDeeper
    <3> QED BY <2>5, <3>2 DEF below
  <2>7. InstancesTo[Len(p) + 1] \subseteq InstancesTo[Deepest]
    BY <2>2, InstancesToGrow
  <2> QED BY <2>6, <2>7 DEF Instances, Deepest
<1> QED BY <1>1, <1>2 DEF Fits

\* The first segments of a path.
Upto(p, k) == [j \in 1..k |-> p[j]]

LEMMA UptoIs ==
  ASSUME NEW p \in Names
  PROVE  /\ Len(p) \in Nat /\ Upto(p, 0) = <<>> /\ Upto(p, Len(p)) = p
         /\ \A k \in 0..Len(p) : Upto(p, k) \in Names /\ Len(Upto(p, k)) = k
         /\ p # <<>> => Len(p) > 0 /\ Front(p) = Upto(p, Len(p) - 1)
<1>1. Len(p) \in Nat /\ p \in [1..Len(p) -> STRING]
  BY LenProperties DEF Names
<1>2. Upto(p, Len(p)) = p
  BY <1>1 DEF Upto
<1>3. ASSUME NEW k \in 0..Len(p)
      PROVE  Upto(p, k) \in Names /\ Len(Upto(p, k)) = k
  <2>1. IsSeq(Upto(p, k), k)
    BY <1>1 DEF IsSeq, Upto
  <2>2. \A j \in 1..k : p[j] \in STRING
    BY <1>1
  <2>3. Upto(p, k) \in Names
    BY <1>1, <2>2, IsASeq DEF Upto, Names
  <2>4. Len(Upto(p, k)) = k
    BY <2>1, SeqIs DEF IsSeq
  <2> QED BY <2>3, <2>4
<1>4. Upto(p, 0) = <<>>
  <2>1. Upto(p, 0) \in Seq(STRING) /\ Len(Upto(p, 0)) = 0
    BY <1>1, <1>3 DEF Names
  <2> QED BY <2>1, EmptySeq
<1>5. ASSUME p # <<>>  PROVE Len(p) > 0 /\ Front(p) = Upto(p, Len(p) - 1)
  <2>1. Len(p) > 0
    BY <1>1, <1>5, EmptySeq DEF Names
  <2>2. IsSeq(p, Len(p))
    BY <1>1 DEF IsSeq
  <2>3. Front(p) = [i \in 1..Len(p) - 1 |-> p[i]]
    BY <1>1, <2>1, <2>2, SeqIs
  <2> QED BY <2>1, <2>3 DEF Upto
<1> QED BY <1>1, <1>2, <1>3, <1>4, <1>5

LEMMA UptoSame ==
  ASSUME NEW p, NEW q, NEW n \in Nat, \A i \in 1..n : p[i] = q[i]
  PROVE  \A k \in 0..n : Upto(p, k) = Upto(q, k)
BY DEF Upto

\* What deps prints for the component a path ends in.
RefOf(q) == Key(Architecture(Front(q)).components[<<Last(q)>>])

Line(q) == [depth |-> Len(q), ref |-> RefOf(q)]

\* The lines that are printed, by the paths they are for: each is for an
\* import of an instance and for another one, and it is below the line for
\* that instance, with nothing less deep than itself in between.
Lines(lines, n, lined) ==
  /\ n \in Nat /\ lines \in [1..n -> Names]
  /\ lined = [i \in 1..n |-> Line(lines[i])]
  /\ \A i \in 1..n :
       /\ lines[i] # <<>> /\ Front(lines[i]) \in Instances
       /\ <<Last(lines[i])>> \in Imports(Architecture(Front(lines[i])))
  /\ \A i, j \in 1..n : lines[i] = lines[j] => i = j
  /\ \A i \in 1..n : Front(lines[i]) # <<>> =>
       \E j \in 1..i - 1 : /\ lines[j] = Front(lines[i])
                           /\ \A m \in j + 1..i - 1 : Len(lines[m]) >= Len(lines[i])

Listed(lines, n, q) == \E i \in 1..n : lines[i] = q

\* All that an instance imports is printed.
Covered(lines, n, q) ==
  \A name \in Imports(Architecture(q)) : Listed(lines, n, q \o name)

\* What a call of printDepsTree has left to print after k imports.
Left(p, k) ==
  [i \in 1..Len(Kids(p)) - k |-> Key(Architecture(p).components[Kids(p)[k + i]])]

\* The calls under way are for the instances along a path, and each has
\* printed the first so many imports; every other line is for an instance
\* that is done with, and the lines of the path are the last of their depth.
Way(lines, n, frames, path, count) ==
  /\ path \in Names
  /\ count \in [1..Len(path) + 1 -> Nat]
  /\ frames = [k \in 1..Len(path) + 1 |-> Left(Upto(path, k - 1), count[k])]
  /\ \A k \in 1..Len(path) + 1 :
       /\ Upto(path, k - 1) \in Instances
       /\ count[k] <= Len(Kids(Upto(path, k - 1)))
       /\ \A i \in 1..Len(Kids(Upto(path, k - 1))) :
            Listed(lines, n, Upto(path, k - 1) \o Kids(Upto(path, k - 1))[i]) <=> i <= count[k]
  /\ \A i \in 1..n :
       /\ lines[i] \in Instances
       /\ \/ \E k \in 1..Len(path) : lines[i] = Upto(path, k)
          \/ Covered(lines, n, lines[i])
  /\ \A k \in 1..Len(path) :
       \E j \in 1..n : lines[j] = Upto(path, k) /\ \A m \in j + 1..n : Len(lines[m]) > k

\* Everything is printed.
Whole(lines, n) ==
  /\ Covered(lines, n, NoName)
  /\ \A i \in 1..n : lines[i] \in Instances /\ Covered(lines, n, lines[i])

\* The path of the import that the innermost call prints next.
Upcoming(path, count) == path \o Kids(path)[count[Len(path) + 1] + 1]

Added(lines, n, q) == [i \in 1..n + 1 |-> IF i = n + 1 THEN q ELSE lines[i]]

\* One more line, for the next import of the innermost call.
LEMMA LineAdded ==
  ASSUME Undotted, root \in Roots, NEW lines, NEW n, NEW lined, Lines(lines, n, lined),
         NEW frames, NEW path, NEW count, Way(lines, n, frames, path, count),
         Last(frames) # <<>>
  PROVE  /\ Len(frames) = Len(path) + 1
         /\ count[Len(path) + 1] + 1 \in 1..Len(Kids(path))
         /\ Head(Last(frames)) = RefOf(Upcoming(path, count))
         /\ Len(Upcoming(path, count)) = Len(frames)
         /\ Lines(Added(lines, n, Upcoming(path, count)), n + 1,
                  Append(lined, [depth |-> Len(frames), ref |-> RefOf(Upcoming(path, count))]))
<1> DEFINE N == Len(path) + 1
           kids == Kids(path)
           c == count[N]
           kid == kids[c + 1]
           new == path \o kid
           more == [i \in 1..n + 1 |-> IF i = n + 1 THEN new ELSE lines[i]]
<1>1. path \in Names /\ Len(path) \in Nat /\ Upto(path, Len(path)) = path
  BY UptoIs DEF Way
<1>2. N \in 1..Len(path) + 1 /\ N \in Nat /\ N - 1 = Len(path) /\ N > 0
  BY <1>1
<1>3. path \in Instances /\ c \in Nat /\ c <= Len(kids)
  <2>1. Upto(path, N - 1) \in Instances /\ count[N] \in Nat /\ count[N] <= Len(Kids(Upto(path, N - 1)))
    BY <1>2 DEF Way
  <2> QED BY <1>1, <1>2, <2>1
<1>4. /\ Len(kids) \in Nat
      /\ \A i \in 1..Len(kids) : kids[i] \in Imports(Architecture(path))
      /\ \A i, j \in 1..Len(kids) : kids[i] = kids[j] => i = j
  <2>1. PackageAt(path) \in Parsed
    BY <1>3, InstanceIs DEF IsInstance
  <2> QED BY <2>1, KidsAre
<1>5. Len(frames) = N /\ Last(frames) = Left(path, c)
  <2>1. frames = [k \in 1..N |-> Left(Upto(path, k - 1), count[k])]
    BY DEF Way
  <2>2. IsSeq(frames, N)
    BY <1>2, <2>1 DEF IsSeq
  <2>3. Len(frames) = N /\ Last(frames) = frames[N]
    BY <1>2, <2>2, SeqIs
  <2>4. frames[N] = Left(Upto(path, N - 1), count[N])
    BY <1>2, <2>1
  <2> QED BY <1>1, <1>2, <2>3, <2>4
<1>6. c + 1 \in 1..Len(kids) /\ Head(Last(frames)) = Key(Architecture(path).components[kid])
  <2> DEFINE l == Len(kids) - c
  <2>1. l \in Nat
    BY <1>3, <1>4
  <2>2. IsSeq(Left(path, c), l)
    BY <2>1 DEF IsSeq, Left
  <2>3. l > 0
    BY <1>5, <2>1, <2>2, SeqIs
  <2>4. Head(Left(path, c)) = Left(path, c)[1]
    BY <2>1, <2>2, <2>3, SeqIs
  <2>5. 1 \in 1..l
    BY <2>1, <2>3
  <2>6. Left(path, c)[1] = Key(Architecture(path).components[kids[c + 1]])
    BY <2>5 DEF Left
  <2> QED BY <1>3, <1>4, <1>5, <2>1, <2>3, <2>4, <2>6
<1>7. kid \in Imports(Architecture(path))
  BY <1>4, <1>6
<1>8. /\ new \in Names /\ Len(new) = N
      /\ Front(new) = path /\ <<Last(new)>> = kid /\ new # <<>>
  BY <1>3, <1>7, KidIs
<1>9. RefOf(new) = Key(Architecture(path).components[kid])
  BY <1>8 DEF RefOf
<1>10. ~Listed(lines, n, new)
  <2>1. Listed(lines, n, Upto(path, N - 1) \o Kids(Upto(path, N - 1))[c + 1]) <=> c + 1 <= count[N]
    BY <1>1, <1>2, <1>6 DEF Way
  <2> QED BY <1>1, <1>2, <1>3, <2>1
<1> HIDE DEF kid, new, kids, c
<1>11. Lines(more, n + 1, Append(lined, [depth |-> N, ref |-> RefOf(new)]))
  <2>0. n \in Nat /\ lines \in [1..n -> Names]
    BY DEF Lines
  <2>1. n + 1 \in Nat /\ more \in [1..n + 1 -> Names]
    BY <1>8, <2>0
  <2>2. \A i \in 1..n : more[i] = lines[i]
    BY <2>0
  <2>3. more[n + 1] = new
    BY <2>0
  <2>10. \A i \in 1..n + 1 : i = n + 1 \/ i \in 1..n
    BY <2>0
  <2> HIDE DEF more
  <2>4. Append(lined, [depth |-> N, ref |-> RefOf(new)]) = [i \in 1..n + 1 |-> Line(more[i])]
    <3>1. lined = [i \in 1..n |-> Line(lines[i])]
      BY DEF Lines
    <3>2. IsSeq(lined, n)
      BY <2>0, <3>1 DEF IsSeq
    <3> DEFINE e == [depth |-> N, ref |-> RefOf(new)]
    <3>3. Append(lined, e) = [i \in 1..n + 1 |-> IF i = n + 1 THEN e ELSE lined[i]]
      BY <2>0, <3>2, SeqIs
    <3>4. e = Line(more[n + 1])
      BY <1>8, <2>3 DEF Line
    <3>5. \A i \in 1..n : lined[i] = Line(more[i])
      BY <2>2, <3>1
    <3> HIDE DEF e
    <3>6. \A i \in 1..n + 1 : (IF i = n + 1 THEN e ELSE lined[i]) = Line(more[i])
      BY <2>10, <3>4, <3>5
    <3> QED BY <3>3, <3>6, Zenon DEF e
  <2>5. ASSUME NEW i \in 1..n + 1
        PROVE  /\ more[i] # <<>> /\ Front(more[i]) \in Instances
               /\ <<Last(more[i])>> \in Imports(Architecture(Front(more[i])))
    <3>1. CASE i = n + 1
      BY <1>3, <1>7, <1>8, <2>3, <3>1
    <3>2. CASE i \in 1..n
      BY <2>2, <3>2 DEF Lines
    <3> QED BY <2>10, <3>1, <3>2
  <2>6. ASSUME NEW i \in 1..n + 1, NEW j \in 1..n + 1, more[i] = more[j]  PROVE i = j
    <3>1. \A k \in 1..n : more[k] # more[n + 1]
      BY <1>10, <2>2, <2>3 DEF Listed
    <3>2. CASE i \in 1..n /\ j \in 1..n
      BY <2>2, <2>6, <3>2 DEF Lines
    <3> QED BY <2>6, <2>10, <3>1, <3>2
  <2>7. ASSUME NEW i \in 1..n + 1, Front(more[i]) # <<>>
        PROVE  \E j \in 1..i - 1 : /\ more[j] = Front(more[i])
                                   /\ \A m \in j + 1..i - 1 : Len(more[m]) >= Len(more[i])
    <3>1. CASE i = n + 1
      <4>1. path # <<>>
        BY <1>8, <2>3, <2>7, <3>1
      <4>2. Len(path) \in 1..Len(path)
        BY <1>1, <4>1, UptoIs
      <4>3. PICK j \in 1..n : lines[j] = path /\ \A m \in j + 1..n : Len(lines[m]) > Len(path)
        BY <1>1, <4>2 DEF Way
      <4>4. j \in 1..i - 1 /\ i - 1 = n
        BY <2>0, <3>1
      <4>5. ASSUME NEW m \in j + 1..i - 1  PROVE Len(more[m]) >= Len(more[i])
        <5>1. m \in 1..n /\ m \in j + 1..n
          BY <4>4
        <5>2. Len(lines[m]) > Len(path) /\ Len(lines[m]) \in Nat
          BY <2>0, <4>3, <5>1, LenProperties DEF Names
        <5> QED BY <1>1, <1>8, <2>2, <2>3, <3>1, <5>1, <5>2
      <4> QED BY <1>8, <2>2, <2>3, <3>1, <4>3, <4>4, <4>5
    <3>2. CASE i \in 1..n
      <4>1. PICK j \in 1..i - 1 : /\ lines[j] = Front(lines[i])
                                  /\ \A m \in j + 1..i - 1 : Len(lines[m]) >= Len(lines[i])
        BY <2>2, <2>7, <3>2 DEF Lines
      <4>2. j \in 1..n /\ \A m \in j + 1..i - 1 : m \in 1..n
        BY <2>0, <3>2
      <4> QED BY <2>2, <3>2, <4>1, <4>2
    <3> QED BY <2>10, <3>1, <3>2
  <2> QED BY <2>1, <2>4, <2>5, <2>6, <2>7 DEF Lines
<1>12. new = Upcoming(path, count) /\ more = Added(lines, n, new) /\ kids = Kids(path) /\ c = count[N]
  BY DEF kid, new, kids, c, Upcoming, Added
<1> QED BY <1>5, <1>6, <1>8, <1>9, <1>11, <1>12

LEMMA LeftAll ==
  ASSUME NEW p, PackageAt(p) \in Parsed
  PROVE  /\ Left(p, 0) = orchestrationDeps(Architecture(p))
         /\ \A k \in 0..Len(Kids(p)) : IsSeq(Left(p, k), Len(Kids(p)) - k)
         /\ \A k \in 0..Len(Kids(p)) - 1 : Tail(Left(p, k)) = Left(p, k + 1)
<1> DEFINE ref(i) == Key(Architecture(p).components[Kids(p)[i]])
           L == Len(Kids(p))
<1>1. L \in Nat /\ DOMAIN Kids(p) = 1..L
  BY KidsAre
<1>2. Left(p, 0) = orchestrationDeps(Architecture(p))
  <2>1. orchestrationDeps(Architecture(p)) = [i \in 1..L |-> ref(i)]
    BY <1>1 DEF orchestrationDeps, Kids
  <2>2. Left(p, 0) = [i \in 1..L - 0 |-> ref(0 + i)]
    BY DEF Left
  <2>3. L - 0 = L /\ \A i \in 1..L : 0 + i = i
    BY <1>1
  <2> HIDE DEF L
  <2>4. [i \in 1..L |-> ref(0 + i)] = [i \in 1..L |-> ref(i)]
    BY <2>3
  <2> QED BY <2>1, <2>2, <2>3, <2>4
<1>3. ASSUME NEW k \in 0..L  PROVE IsSeq(Left(p, k), L - k) /\ L - k \in Nat
  BY <1>1 DEF IsSeq, Left
<1>4. ASSUME NEW k \in 0..L - 1  PROVE Tail(Left(p, k)) = Left(p, k + 1)
  <2>1. k \in 0..L /\ L - k \in Nat /\ L - k > 0 /\ (L - k) - 1 = L - (k + 1)
    BY <1>1
  <2>2. Tail(Left(p, k)) = [i \in 1..(L - k) - 1 |-> Left(p, k)[i + 1]]
    BY <1>3, <2>1, SeqIs
  <2>3. ASSUME NEW i \in 1..(L - k) - 1
        PROVE  Left(p, k)[i + 1] = ref((k + 1) + i)
    <3>1. i + 1 \in 1..L - k /\ k + (i + 1) = (k + 1) + i
      BY <1>1
    <3>2. Left(p, k)[i + 1] = ref(k + (i + 1))
      BY <3>1 DEF Left
    <3> QED BY <3>1, <3>2
  <2>4. Left(p, k + 1) = [i \in 1..L - (k + 1) |-> ref((k + 1) + i)]
    BY DEF Left
  <2> HIDE DEF L, ref
  <2> QED BY <2>1, <2>2, <2>3, <2>4
<1> QED BY <1>2, <1>3, <1>4

LEMMA WayStart ==
  ASSUME Undotted, root \in Roots
  PROVE  \E lines, path, count : /\ Lines(lines, 0, <<>>)
                                 /\ Way(lines, 0, <<orchestrationDeps(raw)>>, path, count)
<1> DEFINE lines == [i \in 1..0 |-> NoName]
           count == [k \in 1..1 |-> 0]
<1>1. NoName \in Names /\ Len(NoName) = 0 /\ NoName \in Instances /\ PackageAt(NoName) \in Parsed
  BY AtRoot, InstanceIs DEF Parsed
<1>2. Upto(NoName, 0) = NoName
  BY <1>1, UptoIs DEF NoName
<1>3. Lines(lines, 0, <<>>)
  <2>1. [i \in 1..0 |-> Line(lines[i])] = <<>>
    <3> DEFINE s == [i \in 1..0 |-> Line(lines[i])]
    <3>1. IsSeq(s, 0)
      BY DEF IsSeq
    <3> HIDE DEF s
    <3> QED BY <3>1, SeqIs DEF s
  <2>2. lines \in [1..0 -> Names]
    OBVIOUS
  <2> HIDE DEF lines
  <2> QED BY <2>1, <2>2 DEF Lines
<1>4. <<orchestrationDeps(raw)>> = [k \in 1..1 |-> Left(Upto(NoName, k - 1), count[k])]
  <2>1. Left(NoName, 0) = orchestrationDeps(raw)
    BY <1>1, LeftAll, AtRoot DEF raw
  <2>2. \A k \in 1..1 : Left(Upto(NoName, k - 1), count[k]) = orchestrationDeps(raw)
    BY <1>2, <2>1
  <2>3. <<orchestrationDeps(raw)>> = [k \in 1..1 |-> orchestrationDeps(raw)]
    <3> DEFINE d == orchestrationDeps(raw)
    <3> HIDE DEF d
    <3> QED OBVIOUS
  <2> HIDE DEF count
  <2> QED BY <2>2, <2>3
<1>5. Way(lines, 0, <<orchestrationDeps(raw)>>, NoName, count)
  <2>1. count \in [1..1 -> Nat] /\ count[1] = 0
    OBVIOUS
  <2>2. \A q : ~Listed(lines, 0, q)
    BY DEF Listed
  <2>3. /\ Len(Kids(NoName)) \in Nat
        /\ \A i \in 1..Len(Kids(NoName)) : ~(i <= 0)
    BY <1>1, KidsAre
  <2> HIDE DEF lines, count
  <2>4. ASSUME NEW k \in 1..1
        PROVE  /\ Upto(NoName, k - 1) \in Instances
               /\ count[k] <= Len(Kids(Upto(NoName, k - 1)))
               /\ \A i \in 1..Len(Kids(Upto(NoName, k - 1))) :
                    Listed(lines, 0, Upto(NoName, k - 1) \o Kids(Upto(NoName, k - 1))[i])
                      <=> i <= count[k]
    <3>1. k = 1 /\ Upto(NoName, k - 1) = NoName /\ count[k] = 0
      BY <1>2, <2>1
    <3> QED BY <1>1, <2>2, <2>3, <3>1
  <2>5. 1..Len(NoName) + 1 = 1..1 /\ 1..Len(NoName) = {} /\ 1..0 = {}
    BY <1>1
  <2> QED BY <1>1, <1>4, <2>1, <2>4, <2>5 DEF Way
<1> QED BY <1>3, <1>5

\* The innermost call goes on to the package it has printed.
LEMMA WayDeeper ==
  ASSUME Undotted, root \in Roots, Fits, NEW lines, NEW n, NEW lined, Lines(lines, n, lined),
         NEW frames, NEW path, NEW count, Way(lines, n, frames, path, count),
         Last(frames) # <<>>, NEW dep, dep = Head(Last(frames)), Importable(dep),
         Len(frames) <= MaxDepth
  PROVE  \E more, way, counts :
           /\ Lines(more, n + 1, Append(lined, [depth |-> Len(frames), ref |-> dep]))
           /\ Way(more, n + 1, Append(Append(Front(frames), Tail(Last(frames))),
                                      orchestrationDeps(Library[dep].entry)), way, counts)
<1> DEFINE N == Len(path) + 1
           kids == Kids(path)
           c == count[N]
           kid == kids[c + 1]
           new == path \o kid
           more == [i \in 1..n + 1 |-> IF i = n + 1 THEN new ELSE lines[i]]
           counts == [k \in 1..N + 1 |-> IF k = N + 1 THEN 0
                                         ELSE IF k = N THEN c + 1 ELSE count[k]]
<1>1. /\ path \in Names /\ Len(path) \in Nat /\ N \in Nat /\ N - 1 = Len(path) /\ N > 0
      /\ N \in 1..Len(path) + 1
      /\ Upto(path, N - 1) = path /\ \A k \in 0..Len(path) : Len(Upto(path, k)) = k
  BY UptoIs DEF Way
<1>2. /\ Len(frames) = N /\ c + 1 \in 1..Len(kids) /\ dep = RefOf(new) /\ Len(new) = N
      /\ Lines(more, n + 1, Append(lined, [depth |-> N, ref |-> dep]))
  <2>1. /\ Len(frames) = N /\ count[N] + 1 \in 1..Len(kids)
        /\ Head(Last(frames)) = RefOf(new) /\ Len(new) = N
        /\ Lines(more, n + 1, Append(lined, [depth |-> N, ref |-> RefOf(new)]))
    <3>1. new = Upcoming(path, count) /\ more = Added(lines, n, Upcoming(path, count))
      BY DEF Upcoming, Added
    <3> HIDE DEF more, new
    <3>2. /\ Len(frames) = Len(path) + 1
          /\ count[Len(path) + 1] + 1 \in 1..Len(Kids(path))
          /\ Head(Last(frames)) = RefOf(Upcoming(path, count))
          /\ Len(Upcoming(path, count)) = Len(frames)
          /\ Lines(Added(lines, n, Upcoming(path, count)), n + 1,
                   Append(lined, [depth |-> Len(frames), ref |-> RefOf(Upcoming(path, count))]))
      BY LineAdded
    <3> QED BY <3>1, <3>2
  <2> HIDE DEF N, new, more, kids
  <2> QED BY <2>1
<1>3. /\ path \in Instances /\ c \in Nat /\ n \in Nat
      /\ \A k \in 1..N : Upto(path, k - 1) \in Instances
  <2>1. Upto(path, N - 1) \in Instances
    BY <1>1 DEF Way
  <2> QED BY <1>1, <2>1 DEF Way, Lines
<1>4. /\ Len(kids) \in Nat /\ kid \in Imports(Architecture(path)) /\ PackageAt(path) \in Parsed
      /\ \A i, j \in 1..Len(kids) : kids[i] = kids[j] => i = j
  <2>1. PackageAt(path) \in Parsed
    BY <1>3, InstanceIs DEF IsInstance
  <2> QED BY <1>2, <2>1, KidsAre
<1>5. /\ new \in Names /\ Front(new) = path /\ <<Last(new)>> = kid
      /\ \A i \in 1..Len(path) : new[i] = path[i]
  BY <1>3, <1>4, KidIs
<1>6. dep = Key(Architecture(path).components[kid]) /\ kid \in Sons(Architecture(path))
  BY <1>2, <1>4, <1>5 DEF RefOf, Sons
<1>7. new \in Instances /\ Architecture(new) = Library[dep].entry /\ PackageAt(new) \in Parsed
  <2>1. new \in Instances
    BY <1>1, <1>2, <1>3, <1>6, KidInstance
  <2>2. path \in Names
    BY <1>1
  <2>3. Architecture(new) = Library[dep].entry /\ PackageAt(new) \in Parsed
    BY <1>4, <1>6, <2>2, SonIs
  <2> QED BY <2>1, <2>3
<1>8. /\ \A k \in 0..Len(path) : Upto(new, k) = Upto(path, k)
      /\ Upto(new, N) = new
  <2>1. Upto(new, Len(new)) = new
    BY <1>5, UptoIs
  <2>2. \A k \in 0..Len(path) : Upto(new, k) = Upto(path, k)
    <3>1. Len(path) \in Nat /\ \A i \in 1..Len(path) : new[i] = path[i]
      BY <1>1, <1>5
    <3> HIDE DEF new
    <3> QED BY <3>1, UptoSame
  <2> QED BY <1>2, <2>1, <2>2
<1>9. /\ \A i \in 1..n : more[i] = lines[i]
      /\ more[n + 1] = new
      /\ \A i \in 1..n + 1 : i = n + 1 \/ i \in 1..n
  BY <1>3
<1>10. /\ counts \in [1..N + 1 -> Nat] /\ counts[N + 1] = 0 /\ counts[N] = c + 1
       /\ \A k \in 1..N - 1 : counts[k] = count[k]
  BY <1>1, <1>3 DEF Way
<1>11. \A q : Listed(more, n + 1, q) <=> Listed(lines, n, q) \/ q = new
  <2> HIDE DEF new, more
  <2> QED BY <1>3, <1>9 DEF Listed
<1> HIDE DEF more, counts, new, kid, c, kids
<1>12. Append(Append(Front(frames), Tail(Last(frames))), orchestrationDeps(Library[dep].entry))
         = [k \in 1..Len(new) + 1 |-> Left(Upto(new, k - 1), counts[k])]
  <2> DEFINE f == Front(frames)
             t == Tail(Last(frames))
             d == orchestrationDeps(Library[dep].entry)
             g == Append(f, t)
             h == Append(g, d)
  <2>1. frames = [k \in 1..N |-> Left(Upto(path, k - 1), count[k])]
    BY DEF Way
  <2>2. IsSeq(frames, N)
    BY <1>1, <2>1 DEF IsSeq
  <2>3. Last(frames) = frames[N] /\ f = [i \in 1..N - 1 |-> frames[i]]
    BY <1>1, <2>2, SeqIs
  <2>4. t = Left(path, c + 1)
    <3>1. Last(frames) = Left(path, c)
      BY <1>1, <2>1, <2>3 DEF c
    <3>2. c \in 0..Len(kids) - 1
      BY <1>2, <1>3, <1>4
    <3> QED BY <1>4, <3>1, <3>2, LeftAll DEF kids
  <2>5. d = Left(new, 0)
    BY <1>7, LeftAll
  <2>6. IsSeq(f, N - 1)
    BY <1>1, <2>3 DEF IsSeq
  <2> HIDE DEF f, t, d
  <2>7. g = [i \in 1..N |-> IF i = N THEN t ELSE f[i]]
    <3>1. N - 1 \in Nat /\ (N - 1) + 1 = N
      BY <1>1
    <3>2. Append(f, t) = [i \in 1..(N - 1) + 1 |-> IF i = (N - 1) + 1 THEN t ELSE f[i]]
      BY <2>6, <3>1, SeqIs
    <3> QED BY <3>1, <3>2
  <2>8. IsSeq(g, N)
    BY <1>1, <2>7 DEF IsSeq
  <2>9. h = [i \in 1..N + 1 |-> IF i = N + 1 THEN d ELSE g[i]]
    <3> HIDE DEF g
    <3> QED BY <1>1, <2>8, SeqIs
  <2> HIDE DEF g, h
  <2>10. ASSUME NEW k \in 1..N + 1
         PROVE  (IF k = N + 1 THEN d ELSE g[k]) = Left(Upto(new, k - 1), counts[k])
    <3>1. CASE k = N + 1
      BY <1>1, <1>8, <1>10, <2>5, <3>1
    <3>2. CASE k = N
      <4>1. N # N + 1 /\ N \in 1..N /\ N - 1 \in 0..Len(path)
        BY <1>1
      <4>2. Upto(new, N - 1) = path
        BY <1>1, <1>8, <4>1
      <4> QED BY <1>10, <2>4, <2>7, <3>2, <4>1, <4>2
    <3>3. CASE k \in 1..N - 1
      <4>1. k # N + 1 /\ k # N /\ k \in 1..N /\ k - 1 \in 0..Len(path)
        BY <1>1, <3>3
      <4>2. g[k] = frames[k] /\ frames[k] = Left(Upto(path, k - 1), count[k])
        BY <2>1, <2>3, <2>7, <3>3, <4>1
      <4> QED BY <1>8, <1>10, <3>3, <4>1, <4>2
    <3> QED BY <1>1, <3>1, <3>2, <3>3
  <2>11. h = [k \in 1..N + 1 |-> Left(Upto(new, k - 1), counts[k])]
    BY <2>9, <2>10, Zenon
  <2> QED BY <1>2, <2>11 DEF h, g, f, t, d
<1>13. ASSUME NEW k \in 1..N + 1
       PROVE  /\ Upto(new, k - 1) \in Instances
              /\ counts[k] <= Len(Kids(Upto(new, k - 1)))
              /\ \A i \in 1..Len(Kids(Upto(new, k - 1))) :
                   Listed(more, n + 1, Upto(new, k - 1) \o Kids(Upto(new, k - 1))[i])
                     <=> i <= counts[k]
  <2> DEFINE p == Upto(new, k - 1)
  <2>1. p \in Instances
    <3>1. CASE k = N + 1
      BY <1>1, <1>7, <1>8, <3>1
    <3>2. CASE k \in 1..N
      <4>1. k - 1 \in 0..Len(path)
        BY <1>1, <3>2
      <4> QED BY <1>3, <1>8, <3>2, <4>1
    <3> QED BY <1>1, <3>1, <3>2
  <2>2. Len(Kids(p)) \in Nat /\ \A i \in 1..Len(Kids(p)) : Kids(p)[i] \in Imports(Architecture(p))
    <3>1. PackageAt(p) \in Parsed
      BY <2>1, InstanceIs DEF IsInstance
    <3> QED BY <3>1, KidsAre
  <2>3. CASE k = N + 1
    <3>1. p = new /\ counts[k] = 0
      BY <1>1, <1>8, <1>10, <2>3
    <3>2. ASSUME NEW i \in 1..Len(Kids(p)), Listed(more, n + 1, p \o Kids(p)[i])  PROVE FALSE
      <4>1. /\ new \o Kids(new)[i] \in Names /\ Front(new \o Kids(new)[i]) = new
            /\ Len(new \o Kids(new)[i]) = Len(new) + 1 /\ new # <<>>
        <5>1. Kids(new)[i] \in Imports(Architecture(new))
          BY <2>2, <3>1
        <5>2. new # <<>>
          BY <1>3, <1>4, KidIs DEF new
        <5> QED BY <1>7, <5>1, <5>2, KidIs
      <4>2. new \o Kids(new)[i] # new
        BY <1>1, <1>2, <4>1
      <4>3. PICK j \in 1..n : lines[j] = new \o Kids(new)[i]
        BY <1>11, <3>1, <3>2, <4>2 DEF Listed
      <4>4. \E m \in 1..j - 1 : lines[m] = new
        BY <4>1, <4>3 DEF Lines
      <4>5. Listed(lines, n, new)
        BY <1>3, <4>4 DEF Listed
      <4>6. ~Listed(lines, n, new)
        <5>1. Listed(lines, n, Upto(path, N - 1) \o Kids(Upto(path, N - 1))[c + 1]) <=> c + 1 <= count[N]
          BY <1>1, <1>2 DEF Way, kids
        <5> QED BY <1>1, <1>3, <5>1 DEF new, kid, kids, c
      <4> QED BY <4>5, <4>6
    <3>3. \A i \in 1..Len(Kids(p)) : ~(i <= 0)
      BY <2>2
    <3> QED BY <2>1, <2>2, <3>1, <3>2, <3>3
  <2>4. CASE k \in 1..N
    <3>1. k - 1 \in 0..Len(path) /\ p = Upto(path, k - 1)
      BY <1>1, <1>8, <2>4
    <3>2. /\ count[k] <= Len(Kids(p)) /\ count[k] \in Nat
          /\ \A i \in 1..Len(Kids(p)) : Listed(lines, n, p \o Kids(p)[i]) <=> i <= count[k]
      BY <2>4, <3>1 DEF Way
    <3>3. \A i \in 1..Len(Kids(p)) : p \o Kids(p)[i] = new => p = path /\ Kids(p)[i] = kid
      <4> SUFFICES ASSUME NEW i \in 1..Len(Kids(p)), p \o Kids(p)[i] = path \o kid
                   PROVE  p = path /\ Kids(p)[i] = kid
        BY DEF new
      <4>1. Kids(p)[i] \in Imports(Architecture(p))
        BY <2>2
      <4> HIDE DEF p
      <4>2. path \in Instances /\ kid \in Imports(Architecture(path))
        BY <1>3, <1>4
      <4>3. p \in Instances
        BY <2>1
      <4> DEFINE a == Kids(p)[i]
      <4> HIDE DEF a, p
      <4>4. a \in Imports(Architecture(p)) /\ p \o a = path \o kid
        BY <4>1 DEF a
      <4>5. p = path /\ a = kid
        BY <4>2, <4>3, <4>4, KidsApart, ZenonT(40)
      <4> QED BY <4>5 DEF a
    <3>4. CASE k = N
      <4>1. p = path /\ counts[k] = c + 1 /\ count[k] = c
        BY <1>1, <1>10, <3>1, <3>4 DEF c
      <4>2. ASSUME NEW i \in 1..Len(Kids(p))
            PROVE  Listed(more, n + 1, p \o Kids(p)[i]) <=> i <= c + 1
        <5>1. p \o Kids(p)[i] = new <=> i = c + 1
          BY <1>2, <1>4, <3>3, <4>1 DEF kids, kid, new
        <5>2. Listed(more, n + 1, p \o Kids(p)[i]) <=> Listed(lines, n, p \o Kids(p)[i]) \/ i = c + 1
          BY <1>11, <5>1
        <5>3. Listed(lines, n, p \o Kids(p)[i]) <=> i <= c
          BY <3>2, <4>1
        <5>4. i \in Nat /\ c \in Nat /\ (i <= c + 1 <=> i <= c \/ i = c + 1)
          BY <1>3 DEF c
        <5> QED BY <5>2, <5>3, <5>4
      <4>3. c + 1 <= Len(Kids(p))
        BY <1>2, <4>1 DEF kids
      <4> QED BY <2>1, <4>1, <4>2, <4>3
    <3>5. CASE k \in 1..N - 1
      <4>1. p # path
        BY <1>1, <3>1, <3>5
      <4>2. counts[k] = count[k]
        BY <1>10, <3>5
      <4> QED BY <1>11, <2>1, <3>2, <3>3, <4>1, <4>2
    <3> QED BY <1>1, <2>4, <3>4, <3>5
  <2> QED BY <1>1, <2>3, <2>4
<1>14. ASSUME NEW i \in 1..n + 1
       PROVE  /\ more[i] \in Instances
              /\ \/ \E k \in 1..N : more[i] = Upto(new, k)
                 \/ Covered(more, n + 1, more[i])
  <2>1. CASE i = n + 1
    BY <1>1, <1>7, <1>8, <1>9, <2>1
  <2>2. CASE i \in 1..n
    <3>1. /\ lines[i] \in Instances
          /\ \/ \E k \in 1..Len(path) : lines[i] = Upto(path, k)
             \/ Covered(lines, n, lines[i])
      BY <2>2 DEF Way
    <3>2. \A k \in 1..Len(path) : k \in 1..N /\ Upto(new, k) = Upto(path, k)
      BY <1>1, <1>8
    <3>3. Covered(lines, n, lines[i]) => Covered(more, n + 1, lines[i])
      BY <1>11 DEF Covered
    <3> QED BY <1>9, <2>2, <3>1, <3>2, <3>3
  <2> QED BY <1>9, <2>1, <2>2
<1>15. ASSUME NEW k \in 1..N
       PROVE  \E j \in 1..n + 1 : /\ more[j] = Upto(new, k)
                                  /\ \A m \in j + 1..n + 1 : Len(more[m]) > k
  <2>1. CASE k = N
    <3>1. n + 1 \in 1..n + 1 /\ (n + 1) + 1..n + 1 = {}
      BY <1>3
    <3> QED BY <1>8, <1>9, <2>1, <3>1
  <2>2. CASE k \in 1..Len(path)
    <3>1. PICK j \in 1..n : lines[j] = Upto(path, k) /\ \A m \in j + 1..n : Len(lines[m]) > k
      BY <2>2 DEF Way
    <3>2. j \in 1..n + 1 /\ \A m \in j + 1..n + 1 : m = n + 1 \/ (m \in j + 1..n /\ m \in 1..n)
      BY <1>3
    <3>3. Len(more[n + 1]) > k
      BY <1>1, <1>2, <1>9, <2>2
    <3>4. more[j] = Upto(new, k)
      BY <1>1, <1>8, <1>9, <2>2, <3>1
    <3> QED BY <1>9, <3>1, <3>2, <3>3, <3>4
  <2> QED BY <1>1, <2>1, <2>2
<1>16. Way(more, n + 1, Append(Append(Front(frames), Tail(Last(frames))),
                               orchestrationDeps(Library[dep].entry)), new, counts)
  BY <1>2, <1>5, <1>10, <1>12, <1>13, <1>14, <1>15 DEF Way
<1> QED BY <1>2, <1>16

\* A call that has nothing left to print returns.
LEMMA WayBack ==
  ASSUME Undotted, root \in Roots, NEW lines, NEW n, NEW lined, Lines(lines, n, lined),
         NEW frames, NEW path, NEW count, Way(lines, n, frames, path, count),
         Last(frames) = <<>>
  PROVE  /\ Len(frames) = 1 => Whole(lines, n)
         /\ Len(frames) # 1 =>
              \E way, counts : Way(lines, n, Front(frames), way, counts)
<1> DEFINE N == Len(path) + 1
<1>1. /\ path \in Names /\ Len(path) \in Nat /\ N \in Nat /\ N - 1 = Len(path) /\ N > 0
      /\ N \in 1..Len(path) + 1 /\ Upto(path, N - 1) = path
  BY UptoIs DEF Way
<1>2. /\ path \in Instances /\ count[N] \in Nat /\ count[N] <= Len(Kids(path))
      /\ \A i \in 1..Len(Kids(path)) : Listed(lines, n, path \o Kids(path)[i]) <=> i <= count[N]
  <2>1. /\ Upto(path, N - 1) \in Instances /\ count[N] \in Nat
        /\ count[N] <= Len(Kids(Upto(path, N - 1)))
        /\ \A i \in 1..Len(Kids(Upto(path, N - 1))) :
             Listed(lines, n, Upto(path, N - 1) \o Kids(Upto(path, N - 1))[i]) <=> i <= count[N]
    BY <1>1 DEF Way
  <2> QED BY <1>1, <2>1
<1>3. PackageAt(path) \in Parsed
  BY <1>2, InstanceIs DEF IsInstance
<1>4. frames = [k \in 1..N |-> Left(Upto(path, k - 1), count[k])]
  BY DEF Way
<1>5. /\ Len(frames) = N /\ Last(frames) = Left(path, count[N])
      /\ Front(frames) = [k \in 1..N - 1 |-> frames[k]]
  <2>1. IsSeq(frames, N)
    BY <1>1, <1>4 DEF IsSeq
  <2>2. Len(frames) = N /\ Last(frames) = frames[N] /\ Front(frames) = [k \in 1..N - 1 |-> frames[k]]
    BY <1>1, <2>1, SeqIs
  <2>3. frames[N] = Left(path, count[N])
    BY <1>1, <1>4
  <2> QED BY <2>2, <2>3
<1>6. count[N] = Len(Kids(path))
  <2>1. Len(Kids(path)) \in Nat
    BY <1>3, KidsAre
  <2>2. count[N] \in 0..Len(Kids(path)) /\ Len(Kids(path)) - count[N] \in Nat
    BY <1>2, <2>1
  <2>3. IsSeq(Left(path, count[N]), Len(Kids(path)) - count[N])
    BY <1>3, <2>2, LeftAll
  <2>4. Len(Kids(path)) - count[N] = 0
    BY <1>5, <2>2, <2>3, SeqIs
  <2> QED BY <1>2, <2>1, <2>4
<1>7. Covered(lines, n, path)
  <2> SUFFICES ASSUME NEW name \in Imports(Architecture(path))
               PROVE  Listed(lines, n, path \o name)
    BY DEF Covered
  <2>1. PICK i \in 1..Len(Kids(path)) : Kids(path)[i] = name
    BY <1>3, KidsAre
  <2>2. i <= count[N]
    BY <1>6
  <2> QED BY <1>2, <2>1, <2>2
<1>8. ASSUME Len(frames) = 1  PROVE Whole(lines, n)
  <2>1. Len(path) = 0 /\ 1..Len(path) = {}
    <3>1. Len(frames) = Len(path) + 1 /\ Len(path) \in Nat
      BY <1>1, <1>5
    <3> QED BY <1>8, <3>1
  <2>2. path = NoName
    BY <1>1, <2>1, UptoIs DEF NoName
  <2> QED BY <1>7, <2>1, <2>2 DEF Way, Whole
<1>9. ASSUME Len(frames) # 1
      PROVE  \E way, counts : Way(lines, n, Front(frames), way, counts)
  <2> DEFINE way == Front(path)
             counts == [k \in 1..N - 1 |-> count[k]]
  <2>1. path # <<>> /\ Len(path) > 0
    <3>1. Len(<<>>) = 0
      OBVIOUS
    <3> QED BY <1>1, <1>5, <1>9, <3>1
  <2>2. way = Upto(path, Len(path) - 1) /\ way \in Names /\ Len(way) = Len(path) - 1
    <3>1. Len(path) - 1 \in 0..Len(path)
      BY <1>1, <2>1
    <3>2. Front(path) = Upto(path, Len(path) - 1)
      BY <1>1, <2>1, UptoIs, SMTT(30)
    <3>3. Upto(path, Len(path) - 1) \in Names /\ Len(Upto(path, Len(path) - 1)) = Len(path) - 1
      BY <1>1, <3>1, UptoIs
    <3> QED BY <3>2, <3>3
  <2>3. \A k \in 0..Len(way) : Upto(way, k) = Upto(path, k)
    <3>1. \A i \in 1..Len(way) : way[i] = path[i]
      BY <1>1, <2>2 DEF Upto
    <3>2. Len(way) \in Nat
      BY <1>1, <2>1, <2>2
    <3> HIDE DEF way
    <3> QED BY <3>1, <3>2, UptoSame
  <2>4. Len(way) + 1 = Len(path) /\ Len(way) \in Nat /\ N - 1 = Len(path)
    <3>1. Len(way) = Len(path) - 1 /\ Len(path) \in Nat /\ Len(path) > 0
      BY <1>1, <2>1, <2>2
    <3> HIDE DEF way
    <3> QED BY <3>1, SMTT(30)
  <2>5. counts \in [1..Len(way) + 1 -> Nat] /\ \A k \in 1..Len(path) : counts[k] = count[k]
    <3>1. count \in [1..Len(path) + 1 -> Nat]
      BY DEF Way
    <3> HIDE DEF way
    <3>2. \A k \in 1..Len(path) : k \in 1..Len(path) + 1
      BY <1>1
    <3> QED BY <2>4, <3>1, <3>2
  <2> HIDE DEF way, counts
  <2>6. ASSUME NEW k \in 1..Len(way) + 1
        PROVE  k \in 1..N /\ k \in 1..Len(path) /\ Upto(way, k - 1) = Upto(path, k - 1)
    <3>1. k \in 1..N /\ k \in 1..Len(path) /\ k - 1 \in 0..Len(way)
      BY <1>1, <2>4
    <3> QED BY <2>3, <3>1
  <2>7. Front(frames) = [k \in 1..Len(way) + 1 |-> Left(Upto(way, k - 1), counts[k])]
    <3>1. \A k \in 1..Len(way) + 1 : frames[k] = Left(Upto(way, k - 1), counts[k])
      BY <1>4, <2>5, <2>6
    <3> QED BY <1>5, <2>4, <3>1
  <2>8. ASSUME NEW k \in 1..Len(way) + 1
        PROVE  /\ Upto(way, k - 1) \in Instances
               /\ counts[k] <= Len(Kids(Upto(way, k - 1)))
               /\ \A i \in 1..Len(Kids(Upto(way, k - 1))) :
                    Listed(lines, n, Upto(way, k - 1) \o Kids(Upto(way, k - 1))[i])
                      <=> i <= counts[k]
    <3>1. /\ k \in 1..Len(path) + 1 /\ Upto(way, k - 1) = Upto(path, k - 1)
          /\ counts[k] = count[k]
      BY <2>5, <2>6
    <3> QED BY <3>1 DEF Way
  <2>9. ASSUME NEW i \in 1..n
        PROVE  /\ lines[i] \in Instances
               /\ \/ \E k \in 1..Len(way) : lines[i] = Upto(way, k)
                  \/ Covered(lines, n, lines[i])
    <3>1. /\ lines[i] \in Instances
          /\ \/ \E k \in 1..Len(path) : lines[i] = Upto(path, k)
             \/ Covered(lines, n, lines[i])
      BY DEF Way
    <3>2. ASSUME NEW k \in 1..Len(path), lines[i] = Upto(path, k)
          PROVE  (\E l \in 1..Len(way) : lines[i] = Upto(way, l)) \/ Covered(lines, n, lines[i])
      <4>1. CASE k = Len(path)
        BY <1>1, <1>7, <3>2, <4>1
      <4>2. CASE k \in 1..Len(way)
        <5>1. k \in 0..Len(way)
          BY <2>4, <4>2
        <5> QED BY <2>3, <3>2, <4>2, <5>1
      <4>3. k = Len(path) \/ k \in 1..Len(way)
        BY <2>4
      <4> QED BY <4>1, <4>2, <4>3, Zenon
    <3> QED BY <3>1, <3>2
  <2>10. ASSUME NEW k \in 1..Len(way)
         PROVE  \E j \in 1..n : lines[j] = Upto(way, k) /\ \A m \in j + 1..n : Len(lines[m]) > k
    <3>1. k \in 1..Len(path) /\ k \in 0..Len(way)
      BY <2>4
    <3> QED BY <2>3, <3>1 DEF Way
  <2>11. Way(lines, n, Front(frames), way, counts)
    BY <2>2, <2>5, <2>7, <2>8, <2>9, <2>10 DEF Way
  <2> QED BY <2>11
<1> QED BY <1>8, <1>9

LEMMA KeysOnIs ==
  ASSUME Undotted, root \in Roots, NEW q \in Names, q # <<>>
  PROVE  KeysOn(q) = Append(KeysOn(Front(q)), RefOf(q))
<1> DEFINE p == Front(q)
           s == Last(q)
<1>1. q = p \o <<s>> /\ p \in Names /\ s \in STRING
  BY Shorter
<1> HIDE DEF p, s
<1>2. /\ Len(p) \in Nat /\ DOMAIN KeysOn(p) = 1..Len(p)
      /\ DOMAIN KeysOn(p \o <<s>>) = 1..Len(p) + 1
      /\ \A i \in 1..Len(p) : KeysOn(p \o <<s>>)[i] = KeysOn(p)[i]
      /\ KeysOn(p \o <<s>>)[Len(p) + 1] = Key(Architecture(p).components[<<s>>])
  BY <1>1, KeysLonger, Cat
<1>3. KeysOn(p) = [i \in 1..Len(p) |-> KeysOn(p)[i]] /\ KeysOn(q) = [i \in 1..Len(p) + 1 |-> KeysOn(q)[i]]
  <2>1. KeysOn(p) = [i \in DOMAIN KeysOn(p) |-> KeysOn(p)[i]]
    BY DEF KeysOn
  <2>2. KeysOn(q) = [i \in DOMAIN KeysOn(q) |-> KeysOn(q)[i]]
    BY DEF KeysOn
  <2> QED BY <1>1, <1>2, <2>1, <2>2
<1>4. RefOf(q) = Key(Architecture(p).components[<<s>>])
  BY DEF RefOf, p, s
<1> DEFINE kp == KeysOn(p)
           kq == KeysOn(q)
           r  == RefOf(q)
<1>5. IsSeq(kp, Len(p))
  BY <1>2, <1>3 DEF IsSeq
<1>6. Append(kp, r) = [i \in 1..Len(p) + 1 |-> IF i = Len(p) + 1 THEN r ELSE kp[i]]
  <2> HIDE DEF kp, r
  <2> QED BY <1>2, <1>5, SeqIs
<1>7. ASSUME NEW i \in 1..Len(p) + 1
      PROVE  (IF i = Len(p) + 1 THEN r ELSE kp[i]) = kq[i]
  <2>1. i = Len(p) + 1 \/ i \in 1..Len(p)
    BY <1>2
  <2> QED BY <1>1, <1>2, <1>4, <2>1
<1>8. kq = [i \in 1..Len(p) + 1 |-> kq[i]]
  BY <1>3
<1> HIDE DEF kp, kq, r
<1>9. kq = Append(kp, r)
  BY <1>6, <1>7, <1>8
<1> QED BY <1>9 DEF kp, kq, r, p

\* The lines above one that are less deep, and the last of them.
AboveLine(i) == {j \in 1..i - 1 : printed[j].depth < printed[i].depth}

Nearest(i) == CHOOSE j \in AboveLine(i) : \A k \in AboveLine(i) : k <= j

AncestryBy(f, i) ==
  IF AboveLine(i) = {} THEN <<printed[i].ref>> ELSE Append(f[Nearest(i)], printed[i].ref)

\* The ancestry of a line is the imports that lead to what it is for.
LEMMA AncestryIs ==
  ASSUME Undotted, root \in Roots, NEW lines, NEW n, Lines(lines, n, printed)
  PROVE  /\ DOMAIN printed = 1..n /\ Len(printed) = n
         /\ \A i \in 1..n : Ancestry[i] = KeysOn(lines[i])
<1> DEFINE h == [i \in 1..n |-> KeysOn(lines[i])]
<1>1. /\ n \in Nat /\ DOMAIN printed = 1..n /\ Len(printed) = n
      /\ \A i \in 1..n : /\ printed[i].depth = Len(lines[i]) /\ printed[i].ref = RefOf(lines[i])
                         /\ lines[i] \in Names /\ lines[i] # <<>>
                         /\ Front(lines[i]) \in Names /\ Len(Front(lines[i])) \in Nat
                         /\ Len(lines[i]) = Len(Front(lines[i])) + 1
  <2>1. n \in Nat /\ lines \in [1..n -> Names] /\ printed = [i \in 1..n |-> Line(lines[i])]
    BY DEF Lines
  <2>2. IsSeq(printed, n)
    BY <2>1 DEF IsSeq
  <2>3. DOMAIN printed = 1..n /\ Len(printed) = n
    BY <2>1, <2>2, SeqIs
  <2>4. ASSUME NEW i \in 1..n
        PROVE  /\ printed[i].depth = Len(lines[i]) /\ printed[i].ref = RefOf(lines[i])
               /\ lines[i] \in Names /\ lines[i] # <<>>
               /\ Front(lines[i]) \in Names /\ Len(Front(lines[i])) \in Nat
               /\ Len(lines[i]) = Len(Front(lines[i])) + 1
    <3>1. lines[i] \in Names /\ lines[i] # <<>>
      BY <2>1 DEF Lines
    <3>2. printed[i] = Line(lines[i])
      BY <2>1
    <3>3. /\ Front(lines[i]) \in Names /\ Len(Front(lines[i])) \in Nat
          /\ Len(lines[i]) = Len(Front(lines[i])) + 1
      <4> DEFINE q == lines[i]
      <4> HIDE DEF q
      <4>1. Front(q) \in Names /\ Len(Front(q)) \in Nat /\ Len(q) = Len(Front(q)) + 1
        BY <3>1, Shorter DEF q
      <4> QED BY <4>1 DEF q
    <3>4. printed[i].depth = Len(lines[i]) /\ printed[i].ref = RefOf(lines[i])
      BY <3>2 DEF Line
    <3> QED BY <3>1, <3>3, <3>4
  <2> QED BY <2>1, <2>3, <2>4
<1>2. ASSUME NEW i \in 1..n
      PROVE  /\ AboveLine(i) \subseteq 1..i - 1 /\ AboveLine(i) \subseteq 1..n
             /\ AboveLine(i) # {} => Nearest(i) \in AboveLine(i)
             /\ h[i] = AncestryBy(h, i)
  <2>1. /\ \A j \in 1..i - 1 : j \in 1..n
        /\ \A j \in AboveLine(i) : j \in 1..i - 1 /\ Len(lines[j]) < Len(lines[i])
    <3>1. \A j \in 1..i - 1 : j \in 1..n
      BY <1>1
    <3>2. \A j \in 1..n : printed[j].depth = Len(lines[j])
      BY <1>1
    <3> QED BY <3>1, <3>2 DEF AboveLine
  <2>2. h[i] = Append(KeysOn(Front(lines[i])), RefOf(lines[i]))
    BY <1>1, KeysOnIs
  <2>3. CASE Front(lines[i]) = <<>>
    <3>1. Len(lines[i]) = 1
      <4>1. Len(lines[i]) = Len(Front(lines[i])) + 1
        BY <1>1
      <4>2. Len(<<>>) = 0
        OBVIOUS
      <4> QED BY <2>3, <4>1, <4>2
    <3>2. \A j \in 1..n : Len(lines[j]) >= 1 /\ Len(lines[j]) \in Nat
      BY <1>1
    <3>3. AboveLine(i) = {}
      <4> SUFFICES ASSUME NEW j \in AboveLine(i)  PROVE FALSE
        OBVIOUS
      <4>1. j \in 1..n /\ Len(lines[j]) < Len(lines[i])
        BY <2>1
      <4> QED BY <3>1, <3>2, <4>1
    <3>4. KeysOn(Front(lines[i])) = <<>>
      BY <2>3, AtRoot DEF NoName
    <3>5. h[i] = <<RefOf(lines[i])>>
      BY <2>2, <3>4
    <3>6. AncestryBy(h, i) = <<RefOf(lines[i])>>
      BY <1>1, <3>3 DEF AncestryBy
    <3> QED BY <3>3, <3>5, <3>6
  <2>4. CASE Front(lines[i]) # <<>>
    <3>1. PICK j \in 1..i - 1 : /\ lines[j] = Front(lines[i])
                                /\ \A m \in j + 1..i - 1 : Len(lines[m]) >= Len(lines[i])
      BY <2>4 DEF Lines
    <3>2. j \in AboveLine(i)
      BY <1>1, <2>1, <3>1, SMTT(30) DEF AboveLine
    <3>3. ASSUME NEW k \in AboveLine(i)  PROVE k <= j
      <4>1. k \in 1..i - 1 /\ Len(lines[k]) < Len(lines[i]) /\ k \in 1..n
        BY <2>1
      <4>2. ~(k \in j + 1..i - 1)
        BY <1>1, <3>1, <4>1
      <4> QED BY <3>1, <4>1, <4>2
    <3>4. Nearest(i) = j
      <4>1. Nearest(i) \in AboveLine(i) /\ \A k \in AboveLine(i) : k <= Nearest(i)
        BY <3>2, <3>3 DEF Nearest
      <4>2. Nearest(i) <= j /\ j <= Nearest(i) /\ Nearest(i) \in 1..i - 1
        BY <2>1, <3>2, <3>3, <4>1
      <4> QED BY <3>1, <4>2
    <3>5. h[j] = KeysOn(Front(lines[i]))
      BY <2>1, <3>1
    <3>6. AncestryBy(h, i) = Append(h[j], RefOf(lines[i]))
      BY <1>1, <3>2, <3>4 DEF AncestryBy
    <3> QED BY <2>1, <2>2, <3>2, <3>4, <3>5, <3>6
  <2> QED BY <2>3, <2>4
<1>3. h = [i \in DOMAIN printed |-> AncestryBy(h, i)]
  <2>1. h = [i \in 1..n |-> h[i]]
    BY SMTT(30)
  <2> HIDE DEF h
  <2> QED BY <1>1, <1>2, <2>1
<1> HIDE DEF h
<1>4. Ancestry = [i \in DOMAIN printed |-> AncestryBy(Ancestry, i)]
  <2>1. \E f : f = [i \in DOMAIN printed |-> AncestryBy(f, i)]
    BY <1>3
  <2> QED BY <2>1 DEF Ancestry, AncestryBy, AboveLine, Nearest
<1>5. \A i \in 1..n : Ancestry[i] = AncestryBy(Ancestry, i)
  <2> DEFINE A == Ancestry
  <2>1. A = [i \in DOMAIN printed |-> AncestryBy(A, i)]
    BY <1>4
  <2> HIDE DEF A
  <2>2. \A i \in 1..n : A[i] = AncestryBy(A, i)
    BY <1>1, <2>1
  <2> QED BY <2>2 DEF A
<1>6. \A i \in 1..n : Ancestry[i] = h[i]
  <2> DEFINE T == {i \in 1..n : Ancestry[i] # h[i]}
  <2> SUFFICES ASSUME T # {}  PROVE FALSE
    OBVIOUS
  <2>1. T \in SUBSET Nat
    BY <1>1
  <2>2. PICK i \in T : \A k \in T : i <= k
    BY <2>1, Least
  <2>3. i \in 1..n /\ Ancestry[i] # h[i]
    OBVIOUS
  <2>4. \A j \in 1..i - 1 : j \in 1..n => Ancestry[j] = h[j]
    BY <1>1, <2>2, <2>3
  <2>5. AboveLine(i) # {} => Ancestry[Nearest(i)] = h[Nearest(i)]
    BY <1>2, <2>3, <2>4
  <2>6. AncestryBy(Ancestry, i) = AncestryBy(h, i)
    BY <2>5 DEF AncestryBy
  <2> QED BY <1>2, <1>5, <2>3, <2>6
<1> QED BY <1>1, <1>6 DEF h

LEMMA AllListed ==
  ASSUME Undotted, root \in Roots, NEW lines, NEW n, Whole(lines, n)
  PROVE  \A q \in Instances : q # NoName => Listed(lines, n, q)
<1> DEFINE Missed == {q \in Instances : q # NoName /\ ~Listed(lines, n, q)}
           T == {Len(q) : q \in Missed}
<1> SUFFICES ASSUME Missed # {}  PROVE FALSE
  OBVIOUS
<1>1. \A q \in Instances : q \in Names /\ Len(q) \in Nat
  BY InstanceIs DEF IsInstance
<1>2. T \in SUBSET Nat /\ T # {}
  BY <1>1
<1>3. PICK m \in T : \A k \in T : m <= k
  BY <1>2, Least
<1>4. PICK q \in Missed : m = Len(q)
  OBVIOUS
<1>5. q \in Instances /\ q # NoName /\ ~Listed(lines, n, q) /\ q \in Names
  BY <1>1
<1>6. /\ Front(q) \in Instances /\ <<Last(q)>> \in Imports(Architecture(Front(q)))
  BY <1>5, InstanceIs DEF IsInstance, Sons
<1>7. q = Front(q) \o <<Last(q)>> /\ Len(q) = Len(Front(q)) + 1 /\ Len(Front(q)) \in Nat
  BY <1>5, Shorter DEF NoName
<1>8. Front(q) \notin Missed
  BY <1>3, <1>4, <1>7
<1>9. Covered(lines, n, Front(q))
  <2>1. CASE Front(q) = NoName
    BY <2>1 DEF Whole
  <2>2. CASE Listed(lines, n, Front(q))
    BY <2>2 DEF Whole, Listed
  <2> QED BY <1>6, <1>8, <2>1, <2>2
<1>10. Listed(lines, n, Front(q) \o <<Last(q)>>)
  BY <1>6, <1>9 DEF Covered
<1> QED BY <1>5, <1>7, <1>10

\* What deps has printed is a tree of imports, and all of it in the end.
LEMMA TreeIs ==
  ASSUME Undotted, root \in Roots, NEW lines, NEW n, Lines(lines, n, printed),
         pc = "returned" /\ ~failed => Whole(lines, n)
  PROVE  DepsTree
<1>1. /\ DOMAIN printed = 1..n /\ Len(printed) = n /\ n \in Nat
      /\ \A i \in 1..n : Ancestry[i] = KeysOn(lines[i])
  BY AncestryIs DEF Lines
<1>2. ASSUME NEW i \in DOMAIN printed
      PROVE  \E path \in Instances :
               \E name \in Imports(Architecture(path)) :
                 Ancestry[i] = Append(KeysOn(path), Key(Architecture(path).components[name]))
  <2>1. /\ lines[i] \in Names /\ lines[i] # <<>> /\ Front(lines[i]) \in Instances
        /\ <<Last(lines[i])>> \in Imports(Architecture(Front(lines[i])))
    BY <1>1 DEF Lines
  <2>2. Ancestry[i] = Append(KeysOn(Front(lines[i])), RefOf(lines[i]))
    BY <1>1, <2>1, KeysOnIs
  <2> QED BY <2>1, <2>2 DEF RefOf
<1>3. ASSUME pc = "returned", ~failed
      PROVE  /\ {Ancestry[i] : i \in DOMAIN printed} = {KeysOn(path) : path \in Instances \ {NoName}}
             /\ Len(printed) = Cardinality(Instances) - 1
  <2> DEFINE I == Instances \ {NoName}
  <2>1. Whole(lines, n)
    BY <1>3
  <2>2. \A i \in 1..n : lines[i] \in I
    BY <2>1 DEF Whole, Lines, NoName
  <2>3. \A q \in I : \E i \in 1..n : lines[i] = q
    BY <2>1, AllListed DEF Listed
  <2>4. {Ancestry[i] : i \in DOMAIN printed} = {KeysOn(path) : path \in I}
    <3> HIDE DEF I
    <3> QED BY <1>1, <2>2, <2>3
  <2>5. ExistsBijection(1..n, I)
    <3> HIDE DEF I
    <3>1. lines \in [1..n -> I]
      BY <2>2 DEF Lines
    <3>2. \A i, j \in 1..n : lines[i] = lines[j] => i = j
      BY DEF Lines
    <3>3. lines \in Bijection(1..n, I)
      BY <2>3, <3>1, <3>2 DEF Bijection, Injection, Surjection, IsInjective
    <3> QED BY <3>3 DEF ExistsBijection
  <2>6. IsFiniteSet(I) /\ Cardinality(I) = n
    <3> HIDE DEF I
    <3> QED BY <1>1, <2>5, FS_NatBijection, FS_CountingElements
  <2>7. Cardinality(I \cup {NoName}) = n + 1
    <3>1. NoName \notin I
      OBVIOUS
    <3> HIDE DEF I
    <3> QED BY <2>6, <3>1, FS_AddElement
  <2>8. I \cup {NoName} = Instances
    BY InstanceIs
  <2>9. Cardinality(Instances) - 1 = n
    <3>1. Cardinality(Instances) = n + 1
      BY <2>7, <2>8
    <3> QED BY <1>1, <3>1
  <2> QED BY <1>1, <2>4, <2>9
<1> QED BY <1>2, <1>3 DEF DepsTree

\* deps does no more than read its architecture and print.
Quiet == {"entry", "raw", "deps", "returned", "panicked"}

TreeInv ==
  /\ root \in Roots
  /\ command = "deps" =>
       /\ pc \in Quiet
       /\ pc \in {"entry", "raw"} => printed = <<>>
       /\ Fits => \E lines, n :
            /\ Lines(lines, n, printed)
            /\ pc = "deps" => \E path, count : Way(lines, n, walk, path, count)
            /\ pc = "returned" /\ ~failed => Whole(lines, n)

LEMMA RunIsLoud ==
  ASSUME RunStep, command = "deps"
  PROVE  pc \notin Quiet
<1>1. CASE Load
  BY <1>1 DEF Load, Quiet
<1>2. CASE BuildToolRegistry \/ Fails
  BY <1>2 DEF BuildToolRegistry, Fails, ToolboxDone, PullDependency, StartServer,
         InitializeServer, ReuseServer, ListTools, Quiet
<1>3. CASE Deferred
  BY <1>3 DEF Deferred, CloseServer, AllClosed, SaveRecord, SaveFails, Quiet
<1> QED BY <1>1, <1>2, <1>3 DEF RunStep, ExecutionNext

LEMMA NoLines ==
  \E lines, n : Lines(lines, n, <<>>) /\ n = 0
<1> DEFINE lines == [i \in 1..0 |-> NoName]
<1>1. [i \in 1..0 |-> Line(lines[i])] = <<>>
  <2> DEFINE s == [i \in 1..0 |-> Line(lines[i])]
  <2>1. IsSeq(s, 0)
    BY DEF IsSeq
  <2> HIDE DEF s
  <2> QED BY <2>1, SeqIs DEF s
<1>2. lines \in [1..0 -> Names]
  OBVIOUS
<1> HIDE DEF lines
<1>3. Lines(lines, 0, <<>>)
  BY <1>1, <1>2 DEF Lines
<1> QED BY <1>3

LEMMA TreeStart ==
  ASSUME Init
  PROVE  TreeInv
<1>1. root \in Roots /\ pc = "entry" /\ printed = <<>>
  BY DEF Init, ExecutionInit, CompositionInit
<1>2. \E lines, n : Lines(lines, n, printed)
  BY <1>1, NoLines
<1> QED BY <1>1, <1>2 DEF TreeInv, Quiet

\* What is said of the lines and calls depends on the root only.
LEMMA TreeKnown ==
  ASSUME root' = root
  PROVE  /\ Fits' = Fits
         /\ \A lines, n : Lines(lines, n, printed') => Lines(lines, n, printed)'
         /\ \A lines, n, path, count :
              Way(lines, n, walk', path, count) => Way(lines, n, walk, path, count)'
         /\ \A lines, n : Whole(lines, n) => Whole(lines, n)'
<1>1. /\ Instances' = Instances
      /\ \A p : Architecture(p)' = Architecture(p) /\ KeysOn(p)' = KeysOn(p)
  BY PathsKnown
<1>2. Fits' = Fits
  BY <1>1 DEF Fits, Circular, Deepest
<1>3. ASSUME NEW lines, NEW n, Lines(lines, n, printed')
      PROVE  Lines(lines, n, printed)'
  BY <1>1, <1>3 DEF Lines, Line, RefOf
<1>4. ASSUME NEW lines, NEW n
      PROVE  \A q : Covered(lines, n, q)' = Covered(lines, n, q)
  BY <1>1 DEF Covered, Listed
<1>5. ASSUME NEW lines, NEW n, NEW path, NEW count, Way(lines, n, walk', path, count)
      PROVE  Way(lines, n, walk, path, count)'
  <2>1. /\ \A p : Kids(p)' = Kids(p)
        /\ \A p, k : Left(p, k)' = Left(p, k)
    BY <1>1 DEF Kids, Left
  <2>2. \A q : Covered(lines, n, q)' = Covered(lines, n, q)
    BY <1>4
  <2> QED BY <1>1, <1>5, <2>1, <2>2 DEF Way, Upto, Listed
<1>6. ASSUME NEW lines, NEW n, Whole(lines, n)  PROVE Whole(lines, n)'
  BY <1>1, <1>4, <1>6 DEF Whole
<1> QED BY <1>2, <1>3, <1>5, <1>6

LEMMA TreeStep ==
  ASSUME Undotted, TreeInv, [Next]_vars
  PROVE  TreeInv'
<1>1. root' = root /\ command' = command /\ root \in Roots /\ root' \in Roots
  BY OnlyLoadComposes DEF TreeInv
<1> SUFFICES ASSUME command = "deps"
             PROVE  /\ pc' \in Quiet
                    /\ pc' \in {"entry", "raw"} => printed' = <<>>
                    /\ Fits => \E lines, n :
                         /\ Lines(lines, n, printed')
                         /\ pc' = "deps" => \E path, count : Way(lines, n, walk', path, count)
                         /\ pc' = "returned" /\ ~failed' => Whole(lines, n)
  <2>1. /\ Fits' = Fits
        /\ \A lines, n : Lines(lines, n, printed') => Lines(lines, n, printed)'
        /\ \A lines, n, path, count :
             Way(lines, n, walk', path, count) => Way(lines, n, walk, path, count)'
        /\ \A lines, n : Whole(lines, n) => Whole(lines, n)'
    BY <1>1, TreeKnown
  <2> QED BY <1>1, <2>1 DEF TreeInv
<1>2. /\ pc \in Quiet /\ (pc \in {"entry", "raw"} => printed = <<>>)
  BY DEF TreeInv
<1>3. ASSUME Fits
      PROVE  \E lines, n :
               /\ Lines(lines, n, printed)
               /\ pc = "deps" => \E path, count : Way(lines, n, walk, path, count)
               /\ pc = "returned" /\ ~failed => Whole(lines, n)
  BY <1>3 DEF TreeInv
<1>4. CASE /\ UNCHANGED <<walk, printed>> /\ pc' \in Quiet \ {"deps"}
           /\ pc' \in {"entry", "raw"} => pc \in {"entry", "raw"}
           /\ pc' = "returned" => failed'
  BY <1>2, <1>3, <1>4
<1>5. CASE Entry
  <2>1. \/ pc' = "returned" /\ failed' = TRUE
        \/ pc' = "raw" /\ pc = "entry"
    BY <1>5 DEF Entry, EntryFails, ResolveEntrypoint, ValidatePackage, ValidateFile, ToolTest, Finish
  <2>2. UNCHANGED <<walk, printed>>
    BY <1>5 DEF Entry, EntryFails, ResolveEntrypoint, ValidatePackage, ValidateFile, ToolTest, Silent
  <2> QED BY <1>4, <2>1, <2>2 DEF Quiet
<1>6. CASE RawInvalid
  BY <1>4, <1>6 DEF RawInvalid, Finish, Silent, Quiet
<1>7. CASE Validated \/ ToolTestRegistered \/ CallTool \/ Inspect
  BY <1>2, <1>7 DEF Validated, ToolTestRegistered, CallTool, Inspect, Quiet
<1>8. CASE Deps
  <2>1. /\ pc = "raw" /\ pc' = "deps" /\ printed' = printed
        /\ walk' = <<orchestrationDeps(raw)>>
    BY <1>8 DEF Deps
  <2>2. \E lines, path, count : /\ Lines(lines, 0, printed')
                                /\ Way(lines, 0, walk', path, count)
    BY <1>1, <1>2, <2>1, WayStart
  <2> QED BY <2>1, <2>2 DEF Quiet
<1>9. ASSUME pc = "deps", NEW dep \in Range(Last(walk)), PrintDep(dep)
      PROVE  /\ Last(walk) # <<>> /\ dep = Head(Last(walk)) /\ Len(walk) <= MaxDepth
             /\ printed' = Append(printed, [depth |-> Len(walk), ref |-> dep])
  BY <1>9 DEF PrintDep
<1>10. ASSUME pc = "deps", NEW dep \in Range(Last(walk)), Descend(dep)
       PROVE  /\ pc' = "deps"
              /\ Fits => \E lines, n :
                   /\ Lines(lines, n, printed')
                   /\ \E path, count : Way(lines, n, walk', path, count)
  <2>1. PrintDep(dep) /\ Importable(dep) /\ pc' = "deps"
    BY <1>10 DEF Descend
  <2>2. walk' = Append(Append(Front(walk), Tail(Last(walk))), orchestrationDeps(Library[dep].entry))
    BY <1>10 DEF Descend
  <2>3. ASSUME Fits
        PROVE  \E lines, n :
                   /\ Lines(lines, n, printed')
                   /\ \E path, count : Way(lines, n, walk', path, count)
    <3>1. PICK lines, n : Lines(lines, n, printed) /\ \E path, count : Way(lines, n, walk, path, count)
      BY <1>3, <1>10, <2>3
    <3>2. PICK path, count : Way(lines, n, walk, path, count)
      BY <3>1
    <3>3. /\ Last(walk) # <<>> /\ dep = Head(Last(walk)) /\ Len(walk) <= MaxDepth
          /\ printed' = Append(printed, [depth |-> Len(walk), ref |-> dep])
      BY <1>9, <1>10, <2>1
    <3>4. \E more, way, counts :
            /\ Lines(more, n + 1, Append(printed, [depth |-> Len(walk), ref |-> dep]))
            /\ Way(more, n + 1, Append(Append(Front(walk), Tail(Last(walk))),
                                       orchestrationDeps(Library[dep].entry)), way, counts)
      BY <1>1, <2>1, <2>3, <3>1, <3>2, <3>3, WayDeeper
    <3> QED BY <2>2, <3>3, <3>4
  <2> QED BY <2>1, <2>3
<1>11. ASSUME pc = "deps", NEW dep \in Range(Last(walk)), ResolvingFails(dep) \/ NilEntrypoint(dep)
       PROVE  /\ pc' = "panicked" \/ (pc' = "returned" /\ failed' = TRUE)
              /\ Fits => \E lines, n : Lines(lines, n, printed')
  <2>1. PrintDep(dep) /\ (pc' = "panicked" \/ (pc' = "returned" /\ failed' = TRUE))
    BY <1>11 DEF ResolvingFails, NilEntrypoint, Finish
  <2>2. ASSUME Fits  PROVE \E lines, n : Lines(lines, n, printed')
    <3>1. PICK lines, n : Lines(lines, n, printed) /\ \E path, count : Way(lines, n, walk, path, count)
      BY <1>3, <1>11, <2>2
    <3>2. PICK path, count : Way(lines, n, walk, path, count)
      BY <3>1
    <3>3. /\ Last(walk) # <<>> /\ dep = Head(Last(walk))
          /\ printed' = Append(printed, [depth |-> Len(walk), ref |-> dep])
      BY <1>9, <1>11, <2>1
    <3>4. /\ dep = RefOf(Upcoming(path, count))
          /\ Lines(Added(lines, n, Upcoming(path, count)), n + 1,
                   Append(printed, [depth |-> Len(walk), ref |-> RefOf(Upcoming(path, count))]))
      BY <1>1, <3>1, <3>2, <3>3, LineAdded
    <3> QED BY <3>3, <3>4
  <2> QED BY <2>1, <2>2
<1>12. ASSUME DepsReturn
       PROVE  /\ pc' \in {"deps", "returned"}
              /\ Fits => \E lines, n :
                   /\ Lines(lines, n, printed')
                   /\ pc' = "deps" => \E path, count : Way(lines, n, walk', path, count)
                   /\ pc' = "returned" /\ ~failed' => Whole(lines, n)
  <2>1. pc = "deps" /\ Last(walk) = <<>> /\ walk' = Front(walk) /\ printed' = printed
    BY <1>12 DEF DepsReturn
  <2>2. IF Len(walk) = 1 THEN pc' = "returned" ELSE pc' = pc
    BY <1>12 DEF DepsReturn, Finish
  <2>3. ASSUME Fits
        PROVE  \E lines, n :
                   /\ Lines(lines, n, printed')
                   /\ pc' = "deps" => \E path, count : Way(lines, n, walk', path, count)
                   /\ pc' = "returned" /\ ~failed' => Whole(lines, n)
    <3>1. PICK lines, n : Lines(lines, n, printed) /\ \E path, count : Way(lines, n, walk, path, count)
      BY <1>3, <2>1, <2>3
    <3>2. PICK path, count : Way(lines, n, walk, path, count)
      BY <3>1
    <3>3. /\ Len(walk) = 1 => Whole(lines, n)
          /\ Len(walk) # 1 => \E way, counts : Way(lines, n, Front(walk), way, counts)
      BY <1>1, <2>1, <3>1, <3>2, WayBack
    <3>4. Lines(lines, n, printed')
      BY <2>1, <3>1
    <3>5. pc' = "deps" => \E way, counts : Way(lines, n, walk', way, counts)
      BY <2>1, <2>2, <3>3
    <3>6. pc' = "returned" => Whole(lines, n)
      BY <2>1, <2>2, <3>3
    <3> QED BY <3>4, <3>5, <3>6
  <2> QED BY <2>1, <2>2, <2>3
<1>13. CASE PrintDepsTree
  <2>1. CASE DepsReturn
    BY <1>12, <2>1 DEF Quiet
  <2>2. ASSUME pc = "deps", NEW dep \in Range(Last(walk)), Descend(dep)
        PROVE  /\ pc' = "deps"
               /\ Fits => \E lines, n :
                    /\ Lines(lines, n, printed')
                    /\ \E path, count : Way(lines, n, walk', path, count)
    BY <1>10, <2>2
  <2>3. CASE pc = "deps" /\ \E dep \in Range(Last(walk)) : Descend(dep)
    BY <2>2, <2>3 DEF Quiet
  <2>4. CASE pc = "deps" /\ \E dep \in Range(Last(walk)) : ResolvingFails(dep) \/ NilEntrypoint(dep)
    BY <1>11, <2>4 DEF Quiet
  <2> QED BY <1>13, <2>1, <2>3, <2>4 DEF PrintDepsTree
<1>14. CASE RunStep
  BY <1>2, <1>14, RunIsLoud
<1>15. CASE UNCHANGED vars
  <2>1. UNCHANGED <<pc, failed, walk, printed>>
    BY <1>15 DEF vars, executing, run
  <2> QED BY <1>2, <1>3, <2>1
<1>16. CASE Next
  <2>1. \/ Entry \/ Validated \/ ToolTestRegistered \/ CallTool
        \/ RawInvalid \/ Inspect \/ Deps \/ PrintDepsTree \/ RunStep
    BY <1>1, <1>16 DEF Next, RunStep
  <2> QED BY <1>5, <1>6, <1>7, <1>8, <1>13, <1>14, <2>1
<1> QED BY <1>15, <1>16

\* Each line that deps prints is a chain of imports, and when it returns
\* without an error it has printed each instance of the architecture once,
\* for every library.  A circular architecture has no last instance: of
\* those the instances are only as deep as there are packages, and the
\* bound on the calls has to keep within that.
THEOREM DepsTreeHolds ==
  ASSUME Undotted
  PROVE  Spec => [](Fits => DepsTree)
<1>1. Init => TreeInv
  BY TreeStart
<1>2. TreeInv /\ [Next]_vars => TreeInv'
  BY TreeStep
<1>3. TreeInv => (Fits => DepsTree)
  <2> SUFFICES ASSUME TreeInv, Fits, command = "deps"  PROVE DepsTree
    BY DEF DepsTree
  <2>1. root \in Roots
    BY DEF TreeInv
  <2>2. PICK lines, n : Lines(lines, n, printed) /\ (pc = "returned" /\ ~failed => Whole(lines, n))
    BY DEF TreeInv
  <2> QED BY <2>1, <2>2, TreeIs
<1> QED BY <1>1, <1>2, <1>3, PTL DEF Spec

==============================================================================
