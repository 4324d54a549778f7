--------------------------- MODULE Ext2TreeProofs ---------------------------
(***************************************************************************)
(* The tree of a volume (Ext2Tree), for every geometry, every set of names *)
(* and texts and any sequence of calls: blocks and inodes are accounted    *)
(* for exactly, the directories form a tree with the right link counts,    *)
(* the calls are those of a tree of files and contents (FileTree), and     *)
(* contents that fit can always be written again.                          *)
(***************************************************************************)
EXTENDS Ext2Proofs

-----------------------------------------------------------------------------
(* The tree: M gives the mode of an inode, L its links, and E is the set of *)
(* entries <<directory, name, inode>>.                                      *)

Triples == Inodes \X AllNames \X Inodes
Subs(M, E, d) == {e \in E : e[1] = d /\ e[2] \notin Dots /\ M[e[3]] = "dir"}
NamesTo(E, f) == {e \in E : e[2] \notin Dots /\ e[3] = f}
Closed(S, E) == ROOT_INO \in S /\ \A d, a, m : <<d, a, m>> \in E /\ a \notin Dots /\ d \in S => m \in S

EntriesOK(M, E) ==
  /\ E \in SUBSET Triples /\ M[ROOT_INO] = "dir" /\ <<ROOT_INO, "..", ROOT_INO>> \in E
  /\ \A d, a, m : <<d, a, m>> \in E => M[d] = "dir" /\ M[m] # "none"
  /\ \A d, a, m : <<d, a, m>> \in E => (a \in Dots => M[m] = "dir") /\ (a \notin Dots => m >= FIRST_INODE)
  /\ \A d, a, m, k : <<d, a, m>> \in E /\ <<d, a, k>> \in E => m = k
  /\ \A d \in Inodes : M[d] = "dir" => <<d, ".", d>> \in E
ParentsOK(M, E) ==
  /\ \A d, a, m : <<d, a, m>> \in E /\ a \notin Dots /\ M[m] = "dir" => <<m, "..", d>> \in E
  /\ \A d, a, p, b, m : /\ <<d, a, m>> \in E /\ a \notin Dots /\ M[m] = "dir"
                        /\ <<p, b, m>> \in E /\ b \notin Dots
                        => d = p /\ a = b
LinksOK(M, L, E) ==
  /\ \A d \in Inodes : M[d] = "dir" => L[d] = 2 + Cardinality(Subs(M, E, d))
  /\ \A f \in Inodes : M[f] = "file" => L[f] = Cardinality(NamesTo(E, f))
Rooted(M, E) == \A S : Closed(S, E) => \A n \in Inodes : M[n] # "none" => n \in S
TreeOK(M, L, E) == EntriesOK(M, E) /\ ParentsOK(M, E) /\ LinksOK(M, L, E) /\ Rooted(M, E)

LEMMA TripleIs ==
  /\ \A e \in Triples : e = <<e[1], e[2], e[3]>> /\ e[1] \in Inodes /\ e[2] \in AllNames /\ e[3] \in Inodes
  /\ \A d, a, m : <<d, a, m>>[1] = d /\ <<d, a, m>>[2] = a /\ <<d, a, m>>[3] = m
  /\ \A d, a, m : <<d, a, m>> \in Triples <=> d \in Inodes /\ a \in AllNames /\ m \in Inodes
BY DEF Triples

LEMMA TriplesFinite == IsFiniteSet(Triples) /\ IsFiniteSet(Inodes)
<1> DEFINE P == (Inodes \X AllNames) \X Inodes
           T == {<<p[1][1], p[1][2], p[2]>> : p \in P}
<1>1. IsFiniteSet(Inodes)
  <2>1. 1 \in Int /\ GROUPS * INODES_PER_GROUP \in Int
    BY GroupsAre, TreeAssumption, Multiples
  <2> QED BY <2>1, FS_Interval DEF Inodes
<1>2. IsFiniteSet(AllNames)
  <2>1. IsFiniteSet(Dots)
    <3>1. Dots = {"."} \cup {".."}
      BY DEF Dots
    <3>2. IsFiniteSet({"."}) /\ IsFiniteSet({".."})
      BY FS_Singleton
    <3> QED BY <3>1, <3>2, FS_Union
  <2>2. IsFiniteSet(Names)
    BY TreeAssumption
  <2> QED BY <2>1, <2>2, FS_Union DEF AllNames
<1>3. IsFiniteSet(P)
  <2>1. IsFiniteSet(Inodes \X AllNames)
    BY <1>1, <1>2, FS_Product
  <2> QED BY <1>1, <2>1, FS_Product
<1>4. IsFiniteSet(T)
  <2> DEFINE f == [p \in P |-> <<p[1][1], p[1][2], p[2]>>]
  <2>1. T = {f[p] : p \in P}
    OBVIOUS
  <2> HIDE DEF P, T, f
  <2>2. f \in Surjection(P, T)
    <3>1. f \in [P -> T] /\ \A t \in T : \E p \in P : f[p] = t
      BY <2>1 DEF f, T
    <3> QED BY <3>1 DEF Surjection
  <2> QED BY <1>3, <2>2, FS_Surjection
<1>5. Triples \subseteq T
  <2> SUFFICES ASSUME NEW e \in Triples PROVE e \in T
    OBVIOUS
  <2>1. e = <<e[1], e[2], e[3]>> /\ e[1] \in Inodes /\ e[2] \in AllNames /\ e[3] \in Inodes
    BY TripleIs
  <2> DEFINE p == <<<<e[1], e[2]>>, e[3]>>
  <2>2. p \in P
    BY <2>1
  <2>3. e = <<p[1][1], p[1][2], p[2]>>
    BY <2>1
  <2> HIDE DEF p, P
  <2> QED BY <2>2, <2>3
<1>6. IsFiniteSet(Triples)
  BY <1>4, <1>5, FS_Subset
<1> QED BY <1>1, <1>6

(* The entries of a tree *)
LEMMA EntryType ==
  ASSUME NEW M, NEW E, EntriesOK(M, E)
  PROVE  /\ \A e \in E : e = <<e[1], e[2], e[3]>> /\ e[1] \in Inodes /\ e[2] \in AllNames /\ e[3] \in Inodes
         /\ \A d, a, m : <<d, a, m>> \in E => d \in Inodes /\ a \in AllNames /\ m \in Inodes
         /\ IsFiniteSet(E) /\ \A d : IsFiniteSet(Subs(M, E, d)) /\ IsFiniteSet(NamesTo(E, d))
         /\ ROOT_INO \in Inodes
<1>1. E \in SUBSET Triples /\ <<ROOT_INO, "..", ROOT_INO>> \in E
  BY DEF EntriesOK
<1>2. IsFiniteSet(E)
  BY <1>1, TriplesFinite, FS_Subset
<1>3. \A d : IsFiniteSet(Subs(M, E, d)) /\ IsFiniteSet(NamesTo(E, d))
  <2> TAKE d
  <2>1. Subs(M, E, d) \in SUBSET E /\ NamesTo(E, d) \in SUBSET E
    BY DEF Subs, NamesTo
  <2> QED BY <1>2, <2>1, FS_Subset
<1>4. \A e \in E : e = <<e[1], e[2], e[3]>> /\ e[1] \in Inodes /\ e[2] \in AllNames /\ e[3] \in Inodes
  BY <1>1, TripleIs
<1>5. \A d, a, m : <<d, a, m>> \in E => d \in Inodes /\ a \in AllNames /\ m \in Inodes
  BY <1>1, TripleIs
<1> QED BY <1>1, <1>2, <1>3, <1>4, <1>5

(* A name for inode n, which is a file or becomes one *)
GainsName(M, L, E, M2, L2, E2, d, a, n) ==
  /\ d \in Inodes /\ M[d] = "dir" /\ a \in AllNames /\ a \notin Dots /\ n \in Inodes /\ n >= FIRST_INODE
  /\ M[n] # "dir" /\ M2[n] = "file" /\ L2[n] = Cardinality(NamesTo(E, n)) + 1
  /\ \A m : <<d, a, m>> \notin E
  /\ E2 = E \cup {<<d, a, n>>}
  /\ \A x \in Inodes : x # n => M2[x] = M[x] /\ L2[x] = L[x]

LEMMA GainName ==
  ASSUME NEW M, NEW L, NEW E, TreeOK(M, L, E), NEW M2, NEW L2, NEW E2, NEW d, NEW a, NEW n,
         GainsName(M, L, E, M2, L2, E2, d, a, n)
  PROVE  TreeOK(M2, L2, E2)
<1> DEFINE t == <<d, a, n>>
<1>0. EntriesOK(M, E) /\ ParentsOK(M, E) /\ LinksOK(M, L, E) /\ Rooted(M, E)
  BY DEF TreeOK
<1>1. /\ \A e \in E : e = <<e[1], e[2], e[3]>> /\ e[1] \in Inodes /\ e[2] \in AllNames /\ e[3] \in Inodes
      /\ \A x, b, m : <<x, b, m>> \in E => x \in Inodes /\ b \in AllNames /\ m \in Inodes
      /\ IsFiniteSet(E) /\ \A x : IsFiniteSet(Subs(M, E, x)) /\ IsFiniteSet(NamesTo(E, x))
      /\ ROOT_INO \in Inodes
  BY <1>0, EntryType
<1>2. /\ d \in Inodes /\ M[d] = "dir" /\ a \in AllNames /\ a \notin Dots /\ n \in Inodes /\ n >= FIRST_INODE
      /\ M[n] # "dir" /\ M2[n] = "file" /\ L2[n] = Cardinality(NamesTo(E, n)) + 1 /\ d # n
      /\ \A m : <<d, a, m>> \notin E
      /\ \A x \in Inodes : x # n => M2[x] = M[x] /\ L2[x] = L[x]
  BY DEF GainsName
<1>3. t[1] = d /\ t[2] = a /\ t[3] = n /\ t \notin E /\ t \in Triples
  BY <1>2, TripleIs
<1>4. E2 = E \cup {t}
  BY DEF GainsName
<1>5. \A x, b, m : <<x, b, m>> \in E2 <=> <<x, b, m>> \in E \/ (x = d /\ b = a /\ m = n)
  BY <1>4
<1>6. \A x \in Inodes : (M2[x] = "dir" <=> M[x] = "dir") /\ (M[x] # "none" => M2[x] # "none")
  BY <1>2
<1>7. EntriesOK(M2, E2)
  <2>1. E2 \in SUBSET Triples /\ M2[ROOT_INO] = "dir" /\ <<ROOT_INO, "..", ROOT_INO>> \in E2
    BY <1>0, <1>1, <1>3, <1>4, <1>6 DEF EntriesOK
  <2>2. \A x, b, m : <<x, b, m>> \in E2 =>
          /\ M2[x] = "dir" /\ M2[m] # "none"
          /\ (b \in Dots => M2[m] = "dir") /\ (b \notin Dots => m >= FIRST_INODE)
    <3> SUFFICES ASSUME NEW x, NEW b, NEW m, <<x, b, m>> \in E2
                 PROVE  /\ M2[x] = "dir" /\ M2[m] # "none"
                        /\ (b \in Dots => M2[m] = "dir") /\ (b \notin Dots => m >= FIRST_INODE)
      OBVIOUS
    <3>1. CASE <<x, b, m>> \in E
      BY <1>0, <1>1, <1>6, <3>1 DEF EntriesOK
    <3>2. CASE x = d /\ b = a /\ m = n
      BY <1>2, <3>2
    <3> QED BY <1>5, <3>1, <3>2
  <2>3. \A x, b, m, k : <<x, b, m>> \in E2 /\ <<x, b, k>> \in E2 => m = k
    BY <1>0, <1>2, <1>5 DEF EntriesOK
  <2>4. \A x \in Inodes : M2[x] = "dir" => <<x, ".", x>> \in E2
    BY <1>0, <1>5, <1>6 DEF EntriesOK
  <2> QED BY <2>1, <2>2, <2>3, <2>4 DEF EntriesOK
<1>8. ParentsOK(M2, E2)
  <2>1. \A x, b, m : <<x, b, m>> \in E2 /\ M2[m] = "dir" => <<x, b, m>> \in E /\ M[m] = "dir"
    BY <1>1, <1>2, <1>5, <1>6
  <2> QED BY <1>0, <1>5, <2>1 DEF ParentsOK
<1>9. LinksOK(M2, L2, E2)
  <2>1. \A x : Subs(M2, E2, x) = Subs(M, E, x)
    BY <1>1, <1>2, <1>3, <1>4, <1>6 DEF Subs
  <2>2. \A x : x # n => NamesTo(E2, x) = NamesTo(E, x)
    BY <1>3, <1>4 DEF NamesTo
  <2>3. NamesTo(E2, n) = NamesTo(E, n) \cup {t} /\ t \notin NamesTo(E, n)
    BY <1>2, <1>3, <1>4 DEF NamesTo
  <2>4. Cardinality(NamesTo(E2, n)) = Cardinality(NamesTo(E, n)) + 1
    BY <1>1, <2>3, FS_AddElement
  <2>5. \A x \in Inodes : M2[x] = "dir" => L2[x] = 2 + Cardinality(Subs(M2, E2, x))
    BY <1>0, <1>2, <1>6, <2>1 DEF LinksOK
  <2>6. \A x \in Inodes : M2[x] = "file" => L2[x] = Cardinality(NamesTo(E2, x))
    BY <1>0, <1>2, <2>2, <2>4 DEF LinksOK
  <2> QED BY <2>5, <2>6 DEF LinksOK
<1>10. Rooted(M2, E2)
  <2> SUFFICES ASSUME NEW S, Closed(S, E2), NEW x \in Inodes, M2[x] # "none" PROVE x \in S
    BY DEF Rooted
  <2>1. Closed(S, E)
    BY <1>5 DEF Closed
  <2>2. d \in S
    BY <1>0, <1>2, <2>1 DEF Rooted
  <2>3. n \in S
    BY <1>2, <1>5, <2>2 DEF Closed
  <2> QED BY <1>0, <1>2, <2>1, <2>3 DEF Rooted
<1> QED BY <1>7, <1>8, <1>9, <1>10 DEF TreeOK

(* A directory n with an entry in directory d *)
GainsDir(M, L, E, M2, L2, E2, d, a, n) ==
  /\ d \in Inodes /\ M[d] = "dir" /\ a \in AllNames /\ a \notin Dots /\ n \in Inodes /\ n >= FIRST_INODE
  /\ M[n] = "none" /\ M2[n] = "dir" /\ L2[n] = 2 /\ L2[d] = L[d] + 1
  /\ \A m : <<d, a, m>> \notin E
  /\ E2 = E \cup {<<d, a, n>>, <<n, ".", n>>, <<n, "..", d>>}
  /\ \A x \in Inodes : x # n => M2[x] = M[x] /\ (x # d => L2[x] = L[x])

LEMMA GainDir ==
  ASSUME NEW M, NEW L, NEW E, TreeOK(M, L, E), NEW M2, NEW L2, NEW E2, NEW d, NEW a, NEW n,
         GainsDir(M, L, E, M2, L2, E2, d, a, n)
  PROVE  TreeOK(M2, L2, E2)
<1> DEFINE t == <<d, a, n>>
<1>0. EntriesOK(M, E) /\ ParentsOK(M, E) /\ LinksOK(M, L, E) /\ Rooted(M, E)
  BY DEF TreeOK
<1>1. /\ \A e \in E : e = <<e[1], e[2], e[3]>> /\ e[1] \in Inodes /\ e[2] \in AllNames /\ e[3] \in Inodes
      /\ \A x, b, m : <<x, b, m>> \in E => x \in Inodes /\ b \in AllNames /\ m \in Inodes
      /\ IsFiniteSet(E) /\ \A x : IsFiniteSet(Subs(M, E, x)) /\ IsFiniteSet(NamesTo(E, x))
      /\ ROOT_INO \in Inodes
  BY <1>0, EntryType
<1>2. /\ d \in Inodes /\ M[d] = "dir" /\ a \in AllNames /\ a \notin Dots /\ n \in Inodes /\ n >= FIRST_INODE
      /\ M[n] = "none" /\ M2[n] = "dir" /\ L2[n] = 2 /\ L2[d] = L[d] + 1 /\ d # n
      /\ \A m : <<d, a, m>> \notin E
      /\ \A x \in Inodes : x # n => M2[x] = M[x] /\ (x # d => L2[x] = L[x])
  BY DEF GainsDir
<1>d. "." \in Dots /\ ".." \in Dots /\ "." \in AllNames /\ ".." \in AllNames /\ "." # ".."
  BY DEF Dots, AllNames
<1>3. t[1] = d /\ t[2] = a /\ t[3] = n /\ t \notin E /\ t \in Triples
  BY <1>2, TripleIs
<1> DEFINE u == <<n, ".", n>>
           v == <<n, "..", d>>
<1>v. /\ u = <<n, ".", n>> /\ v = <<n, "..", d>> /\ u[1] = n /\ v[1] = n /\ u[2] \in Dots /\ v[2] \in Dots
      /\ u \in Triples /\ v \in Triples /\ u[3] = n /\ v[3] = d
  BY <1>2, <1>d, TripleIs
<1> HIDE DEF u, v
<1>4. E2 = E \cup {t, u, v}
  BY <1>v DEF GainsDir
<1>n. \A x, b, m : <<x, b, m>> \in E => x # n /\ m # n
  BY <1>0, <1>2 DEF EntriesOK
<1>e. \A e \in E : e[1] # n /\ e[3] # n
  BY <1>1, <1>n
<1>5. \A x, b, m : <<x, b, m>> \in E2 <=> \/ <<x, b, m>> \in E
                                          \/ x = d /\ b = a /\ m = n
                                          \/ x = n /\ b = "." /\ m = n
                                          \/ x = n /\ b = ".." /\ m = d
  <2>1. \A x, b, m : /\ <<x, b, m>> = t <=> x = d /\ b = a /\ m = n
                     /\ <<x, b, m>> = u <=> x = n /\ b = "." /\ m = n
                     /\ <<x, b, m>> = v <=> x = n /\ b = ".." /\ m = d
    BY <1>v
  <2> QED BY <1>4, <2>1
<1>6. \A x \in Inodes : x # n => M2[x] = M[x]
  BY <1>2
<1>7. EntriesOK(M2, E2)
  <2>1. E2 \in SUBSET Triples /\ M2[ROOT_INO] = "dir" /\ <<ROOT_INO, "..", ROOT_INO>> \in E2
    BY <1>0, <1>1, <1>2, <1>3, <1>4, <1>v DEF EntriesOK
  <2>2. \A x, b, m : <<x, b, m>> \in E2 =>
          /\ M2[x] = "dir" /\ M2[m] # "none"
          /\ (b \in Dots => M2[m] = "dir") /\ (b \notin Dots => m >= FIRST_INODE)
    <3> SUFFICES ASSUME NEW x, NEW b, NEW m, <<x, b, m>> \in E2
                 PROVE  /\ M2[x] = "dir" /\ M2[m] # "none"
                        /\ (b \in Dots => M2[m] = "dir") /\ (b \notin Dots => m >= FIRST_INODE)
      OBVIOUS
    <3>1. CASE <<x, b, m>> \in E
      <4>1. x \in Inodes /\ m \in Inodes /\ x # n /\ m # n
        BY <1>1, <1>n, <3>1
      <4> QED BY <1>0, <1>6, <3>1, <4>1 DEF EntriesOK
    <3>2. CASE ~(<<x, b, m>> \in E)
      BY <1>2, <1>5, <1>d, <3>2
    <3> QED BY <3>1, <3>2
  <2>3. \A x, b, m, k : <<x, b, m>> \in E2 /\ <<x, b, k>> \in E2 => m = k
    BY <1>0, <1>2, <1>5, <1>d, <1>n DEF EntriesOK
  <2>4. \A x \in Inodes : M2[x] = "dir" => <<x, ".", x>> \in E2
    BY <1>0, <1>5, <1>6 DEF EntriesOK
  <2> QED BY <2>1, <2>2, <2>3, <2>4 DEF EntriesOK
<1>8. ParentsOK(M2, E2)
  <2>1. \A x, b, m : <<x, b, m>> \in E2 /\ b \notin Dots /\ M2[m] = "dir" =>
          (<<x, b, m>> \in E /\ M[m] = "dir" /\ m # n) \/ (x = d /\ b = a /\ m = n)
    BY <1>1, <1>2, <1>5, <1>6, <1>d, <1>n
  <2>2. \A x, b, m : <<x, b, m>> \in E2 /\ b \notin Dots /\ M2[m] = "dir" => <<m, "..", x>> \in E2
    BY <1>0, <1>5, <2>1 DEF ParentsOK
  <2>3. \A x, b, p, c, m : /\ <<x, b, m>> \in E2 /\ b \notin Dots /\ M2[m] = "dir"
                           /\ <<p, c, m>> \in E2 /\ c \notin Dots
                           => x = p /\ b = c
    BY <1>0, <2>1 DEF ParentsOK
  <2> QED BY <2>2, <2>3 DEF ParentsOK
<1>9. LinksOK(M2, L2, E2)
  <2>1. \A x : x # d /\ x # n => Subs(M2, E2, x) = Subs(M, E, x)
    BY <1>1, <1>2, <1>3, <1>4, <1>6, <1>e, <1>v DEF Subs
  <2>2. Subs(M2, E2, n) = {}
    BY <1>2, <1>3, <1>4, <1>e, <1>v DEF Subs
  <2>3. Subs(M2, E2, d) = Subs(M, E, d) \cup {t} /\ t \notin Subs(M, E, d)
    BY <1>1, <1>2, <1>3, <1>4, <1>6, <1>e, <1>v DEF Subs
  <2>4. \A x : x # n => NamesTo(E2, x) = NamesTo(E, x)
    BY <1>3, <1>4, <1>v DEF NamesTo
  <2>5. Cardinality(Subs(M2, E2, d)) = Cardinality(Subs(M, E, d)) + 1 /\ Cardinality(Subs(M, E, d)) \in Nat
    BY <1>1, <2>3, FS_AddElement, FS_CardinalityType
  <2>6. Cardinality(Subs(M2, E2, n)) = 0
    BY <2>2, FS_EmptySet
  <2>7. \A x \in Inodes : M2[x] = "dir" => L2[x] = 2 + Cardinality(Subs(M2, E2, x))
    <3> SUFFICES ASSUME NEW x \in Inodes, M2[x] = "dir" PROVE L2[x] = 2 + Cardinality(Subs(M2, E2, x))
      OBVIOUS
    <3>1. CASE x = n
      BY <1>2, <2>6, <3>1
    <3>2. CASE x = d
      <4>1. L[d] = 2 + Cardinality(Subs(M, E, d))
        BY <1>0, <1>2 DEF LinksOK
      <4> QED BY <1>2, <2>5, <3>2, <4>1
    <3>3. CASE x # n /\ x # d
      BY <1>0, <1>2, <2>1, <3>3 DEF LinksOK
    <3> QED BY <3>1, <3>2, <3>3
  <2>8. \A x \in Inodes : M2[x] = "file" => L2[x] = Cardinality(NamesTo(E2, x))
    <3> SUFFICES ASSUME NEW x \in Inodes, M2[x] = "file" PROVE L2[x] = Cardinality(NamesTo(E2, x))
      OBVIOUS
    <3>1. x # n /\ x # d
      BY <1>2
    <3> QED BY <1>0, <1>2, <2>4, <3>1 DEF LinksOK
  <2> QED BY <2>7, <2>8 DEF LinksOK
<1>10. Rooted(M2, E2)
  <2> SUFFICES ASSUME NEW S, Closed(S, E2), NEW x \in Inodes, M2[x] # "none" PROVE x \in S
    BY DEF Rooted
  <2>1. Closed(S, E)
    BY <1>5 DEF Closed
  <2>2. d \in S
    BY <1>0, <1>2, <2>1 DEF Rooted
  <2>3. n \in S
    BY <1>2, <1>5, <2>2 DEF Closed
  <2> QED BY <1>0, <1>2, <2>1, <2>3 DEF Rooted
<1> QED BY <1>7, <1>8, <1>9, <1>10 DEF TreeOK

(* A set with one member exchanged has as many members. *)
LEMMA Exchange ==
  ASSUME NEW S, IsFiniteSet(S), NEW t \in S, NEW u, u \notin S
  PROVE  Cardinality((S \ {t}) \cup {u}) = Cardinality(S)
<1>1. IsFiniteSet(S \ {t}) /\ Cardinality(S \ {t}) = Cardinality(S) - 1 /\ Cardinality(S) \in Nat
  BY FS_RemoveElement, FS_CardinalityType
<1>2. Cardinality((S \ {t}) \cup {u}) = Cardinality(S \ {t}) + 1
  BY <1>1, FS_AddElement
<1> QED BY <1>1, <1>2

(* An entry gets another name in its directory. *)
Renames(M, E, E2, d, a, b, n) ==
  /\ <<d, a, n>> \in E /\ a \notin Dots /\ b \in AllNames /\ b \notin Dots /\ \A m : <<d, b, m>> \notin E
  /\ E2 = (E \ {<<d, a, n>>}) \cup {<<d, b, n>>}

LEMMA Rename ==
  ASSUME NEW M, NEW L, NEW E, TreeOK(M, L, E), NEW E2, NEW d, NEW a, NEW b, NEW n, Renames(M, E, E2, d, a, b, n)
  PROVE  TreeOK(M, L, E2)
<1> DEFINE t == <<d, a, n>>
           u == <<d, b, n>>
<1>0. EntriesOK(M, E) /\ ParentsOK(M, E) /\ LinksOK(M, L, E) /\ Rooted(M, E)
  BY DEF TreeOK
<1>1. /\ \A e \in E : e = <<e[1], e[2], e[3]>> /\ e[1] \in Inodes /\ e[2] \in AllNames /\ e[3] \in Inodes
      /\ \A x, c, m : <<x, c, m>> \in E => x \in Inodes /\ c \in AllNames /\ m \in Inodes
      /\ IsFiniteSet(E) /\ \A x : IsFiniteSet(Subs(M, E, x)) /\ IsFiniteSet(NamesTo(E, x))
      /\ ROOT_INO \in Inodes
  BY <1>0, EntryType
<1>2. /\ t \in E /\ a \notin Dots /\ b \in AllNames /\ b \notin Dots /\ \A m : <<d, b, m>> \notin E
      /\ E2 = (E \ {t}) \cup {u} /\ d \in Inodes /\ n \in Inodes
  BY <1>1 DEF Renames
<1>3. t[1] = d /\ t[2] = a /\ t[3] = n /\ u[1] = d /\ u[2] = b /\ u[3] = n /\ u \notin E /\ u \in Triples
  BY <1>2, TripleIs
<1>5. \A x, c, m : <<x, c, m>> \in E2 <=> \/ <<x, c, m>> \in E /\ ~(x = d /\ c = a /\ m = n)
                                          \/ x = d /\ c = b /\ m = n
  BY <1>2
<1> HIDE DEF t, u
<1>d. "." \in Dots /\ ".." \in Dots
  BY DEF Dots
<1>t. M[d] = "dir" /\ M[n] # "none" /\ n >= FIRST_INODE /\ <<d, a, n>> \in E
  BY <1>0, <1>2 DEF EntriesOK, t
<1>7. EntriesOK(M, E2)
  <2>1. E2 \in SUBSET Triples /\ M[ROOT_INO] = "dir" /\ <<ROOT_INO, "..", ROOT_INO>> \in E2
    BY <1>0, <1>2, <1>3, <1>5, <1>d DEF EntriesOK
  <2>2. \A x, c, m : <<x, c, m>> \in E2 => M[x] = "dir" /\ M[m] # "none"
    BY <1>0, <1>5, <1>t DEF EntriesOK
  <2>3. \A x, c, m : <<x, c, m>> \in E2 => (c \in Dots => M[m] = "dir") /\ (c \notin Dots => m >= FIRST_INODE)
    BY <1>0, <1>2, <1>5, <1>t DEF EntriesOK
  <2>4. \A x, c, m, k : <<x, c, m>> \in E2 /\ <<x, c, k>> \in E2 => m = k
    BY <1>0, <1>2, <1>5 DEF EntriesOK
  <2>5. \A x \in Inodes : M[x] = "dir" => <<x, ".", x>> \in E2
    BY <1>0, <1>2, <1>5, <1>d DEF EntriesOK
  <2> QED BY <2>1, <2>2, <2>3, <2>4, <2>5 DEF EntriesOK
<1>8. ParentsOK(M, E2)
  <2>1. ASSUME NEW x, NEW c, NEW m, <<x, c, m>> \in E2, c \notin Dots, M[m] = "dir"
        PROVE  <<m, "..", x>> \in E2
    <3>1. <<m, "..", x>> \in E
      BY <1>0, <1>2, <1>5, <1>t, <2>1 DEF ParentsOK
    <3> QED BY <1>2, <1>5, <1>d, <3>1
  <2>2. ASSUME NEW x, NEW c, NEW p, NEW e, NEW m, <<x, c, m>> \in E2, c \notin Dots, M[m] = "dir",
               <<p, e, m>> \in E2, e \notin Dots
        PROVE  x = p /\ c = e
    BY <1>0, <1>2, <1>5, <1>t, <2>2 DEF ParentsOK
  <2> QED BY <2>1, <2>2 DEF ParentsOK
<1>9. LinksOK(M, L, E2)
  <2>1. ASSUME NEW x PROVE Cardinality(Subs(M, E2, x)) = Cardinality(Subs(M, E, x))
    <3>1. CASE x = d /\ M[n] = "dir"
      <4>1. Subs(M, E2, x) = (Subs(M, E, x) \ {t}) \cup {u} /\ t \in Subs(M, E, x) /\ u \notin Subs(M, E, x)
        BY <1>2, <1>3, <3>1 DEF Subs
      <4> QED BY <1>1, <4>1, Exchange
    <3>2. CASE ~(x = d /\ M[n] = "dir")
      <4>1. Subs(M, E2, x) = Subs(M, E, x)
        BY <1>2, <1>3, <3>2 DEF Subs
      <4> QED BY <4>1
    <3> QED BY <3>1, <3>2
  <2>2. ASSUME NEW x PROVE Cardinality(NamesTo(E2, x)) = Cardinality(NamesTo(E, x))
    <3>1. CASE x = n
      <4>1. NamesTo(E2, x) = (NamesTo(E, x) \ {t}) \cup {u} /\ t \in NamesTo(E, x) /\ u \notin NamesTo(E, x)
        BY <1>2, <1>3, <3>1 DEF NamesTo
      <4> QED BY <1>1, <4>1, Exchange
    <3>2. CASE x # n
      <4>1. NamesTo(E2, x) = NamesTo(E, x)
        BY <1>2, <1>3, <3>2 DEF NamesTo
      <4> QED BY <4>1
    <3> QED BY <3>1, <3>2
  <2> QED BY <1>0, <2>1, <2>2 DEF LinksOK
<1>10. Rooted(M, E2)
  <2> SUFFICES ASSUME NEW S, Closed(S, E2), NEW x \in Inodes, M[x] # "none" PROVE x \in S
    BY DEF Rooted
  <2>1. Closed(S, E)
    BY <1>2, <1>5 DEF Closed
  <2> QED BY <1>0, <2>1 DEF Rooted
<1> QED BY <1>7, <1>8, <1>9, <1>10 DEF TreeOK

(* A file loses a name; with the last one it goes. *)
LosesName(M, L, E, M2, L2, E2, d, a, f) ==
  /\ <<d, a, f>> \in E /\ a \notin Dots /\ M[f] = "file" /\ E2 = E \ {<<d, a, f>>}
  /\ \/ L[f] = 1 /\ M2[f] = "none"
     \/ L[f] # 1 /\ M2[f] = "file" /\ L2[f] = L[f] - 1
  /\ \A x \in Inodes : x # f => M2[x] = M[x] /\ L2[x] = L[x]

LEMMA LoseName ==
  ASSUME NEW M, NEW L, NEW E, TreeOK(M, L, E), NEW M2, NEW L2, NEW E2, NEW d, NEW a, NEW f,
         LosesName(M, L, E, M2, L2, E2, d, a, f)
  PROVE  TreeOK(M2, L2, E2)
<1> DEFINE t == <<d, a, f>>
<1>0. EntriesOK(M, E) /\ ParentsOK(M, E) /\ LinksOK(M, L, E) /\ Rooted(M, E)
  BY DEF TreeOK
<1>1. /\ \A e \in E : e = <<e[1], e[2], e[3]>> /\ e[1] \in Inodes /\ e[2] \in AllNames /\ e[3] \in Inodes
      /\ \A x, c, m : <<x, c, m>> \in E => x \in Inodes /\ c \in AllNames /\ m \in Inodes
      /\ IsFiniteSet(E) /\ \A x : IsFiniteSet(Subs(M, E, x)) /\ IsFiniteSet(NamesTo(E, x))
      /\ ROOT_INO \in Inodes
  BY <1>0, EntryType
<1>2. /\ t \in E /\ a \notin Dots /\ M[f] = "file" /\ E2 = E \ {t} /\ f \in Inodes /\ d \in Inodes
      /\ \A x \in Inodes : x # f => M2[x] = M[x] /\ L2[x] = L[x]
  BY <1>1 DEF LosesName
<1>l. (L[f] = 1 /\ M2[f] = "none") \/ (L[f] # 1 /\ M2[f] = "file" /\ L2[f] = L[f] - 1)
  BY DEF LosesName
<1>3. t[1] = d /\ t[2] = a /\ t[3] = f
  BY TripleIs
<1>5. \A x, c, m : <<x, c, m>> \in E2 <=> <<x, c, m>> \in E /\ ~(x = d /\ c = a /\ m = f)
  BY <1>2
<1>i. <<d, a, f>> \in E
  BY <1>2
<1> HIDE DEF t
<1>d. "." \in Dots /\ ".." \in Dots
  BY DEF Dots
<1>6. \A x \in Inodes : (M2[x] = "dir" <=> M[x] = "dir")
  BY <1>2, <1>l
<1>c. /\ Cardinality(NamesTo(E, f)) = L[f] /\ L[f] \in Nat /\ t \in NamesTo(E, f)
      /\ NamesTo(E2, f) = NamesTo(E, f) \ {t} /\ Cardinality(NamesTo(E2, f)) = L[f] - 1
      /\ IsFiniteSet(NamesTo(E2, f))
  <2>1. Cardinality(NamesTo(E, f)) = L[f] /\ Cardinality(NamesTo(E, f)) \in Nat
    BY <1>0, <1>1, <1>2, FS_CardinalityType DEF LinksOK
  <2>2. t \in NamesTo(E, f) /\ NamesTo(E2, f) = NamesTo(E, f) \ {t}
    BY <1>2, <1>3 DEF NamesTo
  <2>3. IsFiniteSet(NamesTo(E2, f)) /\ Cardinality(NamesTo(E2, f)) = Cardinality(NamesTo(E, f)) - 1
    BY <1>1, <2>2, FS_RemoveElement
  <2> QED BY <2>1, <2>2, <2>3
<1>g. L[f] = 1 => \A x, c : <<x, c, f>> \in E2 => FALSE
  <2> SUFFICES ASSUME L[f] = 1, NEW x, NEW c, <<x, c, f>> \in E2 PROVE FALSE
    OBVIOUS
  <2>1. NamesTo(E2, f) = {}
    BY <1>c, FS_EmptySet
  <2>2. <<x, c, f>> \in E /\ c \notin Dots
    BY <1>0, <1>2, <1>5 DEF EntriesOK
  <2>3. <<x, c, f>> \in NamesTo(E2, f)
    BY <2>2, TripleIs DEF NamesTo
  <2> QED BY <2>1, <2>3
<1>o. ~(L[f] = 1) => \E x, c : <<x, c, f>> \in E2 /\ c \notin Dots
  <2> SUFFICES ASSUME ~(L[f] = 1) PROVE \E x, c : <<x, c, f>> \in E2 /\ c \notin Dots
    OBVIOUS
  <2>1. NamesTo(E2, f) # {}
    BY <1>c, FS_EmptySet
  <2>2. PICK e \in E2 : e[2] \notin Dots /\ e[3] = f
    BY <2>1 DEF NamesTo
  <2>3. e = <<e[1], e[2], f>>
    BY <1>1, <1>2, <2>2
  <2> QED BY <2>2, <2>3
<1>7. EntriesOK(M2, E2)
  <2>1. E2 \in SUBSET Triples /\ M2[ROOT_INO] = "dir" /\ <<ROOT_INO, "..", ROOT_INO>> \in E2
    BY <1>0, <1>1, <1>2, <1>5, <1>6, <1>d DEF EntriesOK
  <2>2. \A x, c, m : <<x, c, m>> \in E2 => M2[x] = "dir" /\ M2[m] # "none"
    BY <1>0, <1>1, <1>2, <1>5, <1>6, <1>g, <1>l DEF EntriesOK
  <2>3. \A x, c, m : <<x, c, m>> \in E2 => (c \in Dots => M2[m] = "dir") /\ (c \notin Dots => m >= FIRST_INODE)
    BY <1>0, <1>1, <1>5, <1>6 DEF EntriesOK
  <2>4. \A x, c, m, k : <<x, c, m>> \in E2 /\ <<x, c, k>> \in E2 => m = k
    BY <1>0, <1>5 DEF EntriesOK
  <2>5. \A x \in Inodes : M2[x] = "dir" => <<x, ".", x>> \in E2
    BY <1>0, <1>2, <1>5, <1>6, <1>d DEF EntriesOK
  <2> QED BY <2>1, <2>2, <2>3, <2>4, <2>5 DEF EntriesOK
<1>8. ParentsOK(M2, E2)
  <2>1. \A x, c, m : <<x, c, m>> \in E2 /\ M2[m] = "dir" => <<x, c, m>> \in E /\ M[m] = "dir"
    BY <1>1, <1>5, <1>6
  <2>2. \A x, m : <<m, "..", x>> \in E => <<m, "..", x>> \in E2
    BY <1>2, <1>5, <1>d
  <2> QED BY <1>0, <1>5, <2>1, <2>2 DEF ParentsOK
<1>9. LinksOK(M2, L2, E2)
  <2>1. \A x : Subs(M2, E2, x) = Subs(M, E, x)
    BY <1>1, <1>2, <1>3, <1>6 DEF Subs
  <2>2. \A x : x # f => NamesTo(E2, x) = NamesTo(E, x)
    BY <1>2, <1>3 DEF NamesTo
  <2>3. \A x \in Inodes : M2[x] = "dir" => L2[x] = 2 + Cardinality(Subs(M2, E2, x))
    BY <1>0, <1>2, <1>6, <2>1 DEF LinksOK
  <2>4. \A x \in Inodes : M2[x] = "file" => L2[x] = Cardinality(NamesTo(E2, x))
    BY <1>0, <1>2, <1>c, <1>l, <2>2 DEF LinksOK
  <2> QED BY <2>3, <2>4 DEF LinksOK
<1>10. Rooted(M2, E2)
  <2> SUFFICES ASSUME NEW S, Closed(S, E2), NEW x \in Inodes, M2[x] # "none" PROVE x \in S
    BY DEF Rooted
  <2> DEFINE R == S \cup {f}
  <2>1. Closed(R, E)
    <3>1. ROOT_INO \in R
      BY DEF Closed
    <3>2. ASSUME NEW y, NEW c, NEW m, <<y, c, m>> \in E, c \notin Dots, y \in R PROVE m \in R
      <4>1. y # f
        BY <1>0, <1>2, <3>2 DEF EntriesOK
      <4> QED BY <1>5, <3>2, <4>1 DEF Closed
    <3> HIDE DEF R
    <3> QED BY <3>1, <3>2 DEF Closed
  <2>2. \A y \in Inodes : M[y] # "none" => y \in R
    <3> HIDE DEF R
    <3> QED BY <1>0, <2>1 DEF Rooted
  <2>3. CASE x # f
    BY <1>2, <2>2, <2>3
  <2>4. CASE x = f
    <3>1. PICK y, c : <<y, c, f>> \in E2 /\ c \notin Dots
      BY <1>l, <1>o, <2>4
    <3>2. y \in Inodes /\ M[y] = "dir"
      BY <1>0, <1>1, <1>5, <3>1 DEF EntriesOK
    <3>3. y \in S
      BY <1>2, <2>2, <3>2
    <3> QED BY <2>4, <3>1, <3>3 DEF Closed
  <2> QED BY <2>3, <2>4
<1> QED BY <1>7, <1>8, <1>9, <1>10 DEF TreeOK

(* Every inode but the root has a name. *)
LEMMA NamedOnce ==
  ASSUME NEW M, NEW L, NEW E, TreeOK(M, L, E), NEW n \in Inodes, M[n] # "none", n # ROOT_INO
  PROVE  \E d, a : <<d, a, n>> \in E /\ a \notin Dots
<1> DEFINE S == Inodes \ {n}
<1>0. EntriesOK(M, E) /\ Rooted(M, E)
  BY DEF TreeOK
<1>1. ROOT_INO \in Inodes /\ \A x, c, m : <<x, c, m>> \in E => m \in Inodes
  BY <1>0, EntryType
<1>2. SUFFICES ASSUME \A d, a : <<d, a, n>> \in E => a \in Dots PROVE FALSE
  OBVIOUS
<1>3. Closed(S, E)
  BY <1>1, <1>2 DEF Closed
<1>4. n \in S
  <2> HIDE DEF S
  <2> QED BY <1>0, <1>3 DEF Rooted
<1> QED BY <1>4

(* An empty directory goes. *)
LosesDir(M, L, E, M2, L2, E2, d, a, n) ==
  /\ <<d, a, n>> \in E /\ a \notin Dots /\ M[n] = "dir" /\ M2[n] = "none" /\ L2[d] = L[d] - 1
  /\ \A c, m : <<n, c, m>> \in E => c \in Dots
  /\ E2 = {e \in E : e # <<d, a, n>> /\ e[1] # n}
  /\ \A x \in Inodes : x # n => M2[x] = M[x] /\ (x # d => L2[x] = L[x])

LEMMA LoseDir ==
  ASSUME NEW M, NEW L, NEW E, TreeOK(M, L, E), NEW M2, NEW L2, NEW E2, NEW d, NEW a, NEW n,
         LosesDir(M, L, E, M2, L2, E2, d, a, n)
  PROVE  TreeOK(M2, L2, E2)
<1> DEFINE t == <<d, a, n>>
<1>0. EntriesOK(M, E) /\ ParentsOK(M, E) /\ LinksOK(M, L, E) /\ Rooted(M, E)
  BY DEF TreeOK
<1>1. /\ \A e \in E : e = <<e[1], e[2], e[3]>> /\ e[1] \in Inodes /\ e[2] \in AllNames /\ e[3] \in Inodes
      /\ \A x, c, m : <<x, c, m>> \in E => x \in Inodes /\ c \in AllNames /\ m \in Inodes
      /\ IsFiniteSet(E) /\ \A x : IsFiniteSet(Subs(M, E, x)) /\ IsFiniteSet(NamesTo(E, x))
      /\ ROOT_INO \in Inodes
  BY <1>0, EntryType
<1>2. /\ t \in E /\ a \notin Dots /\ M[n] = "dir" /\ M2[n] = "none" /\ L2[d] = L[d] - 1
      /\ \A c, m : <<n, c, m>> \in E => c \in Dots
      /\ E2 = {e \in E : e # t /\ e[1] # n} /\ d \in Inodes /\ n \in Inodes
      /\ \A x \in Inodes : x # n => M2[x] = M[x] /\ (x # d => L2[x] = L[x])
  BY <1>1 DEF LosesDir
<1>3. t[1] = d /\ t[2] = a /\ t[3] = n
  BY TripleIs
<1>5. \A x, c, m : <<x, c, m>> \in E2 <=> <<x, c, m>> \in E /\ ~(x = d /\ c = a /\ m = n) /\ x # n
  <2> SUFFICES ASSUME NEW x, NEW c, NEW m
               PROVE  <<x, c, m>> \in E2 <=> <<x, c, m>> \in E /\ ~(x = d /\ c = a /\ m = n) /\ x # n
    BY Zenon
  <2>1. <<x, c, m>> = t <=> x = d /\ c = a /\ m = n
    OBVIOUS
  <2>2. <<x, c, m>>[1] = x
    OBVIOUS
  <2> HIDE DEF t
  <2> QED BY <1>2, <2>1, <2>2
<1>i. <<d, a, n>> \in E
  BY <1>2
<1> HIDE DEF t
<1>d. "." \in Dots /\ ".." \in Dots /\ Dots = {".", ".."}
  BY DEF Dots
<1>r. n >= FIRST_INODE /\ d # n /\ M[d] = "dir"
  BY <1>0, <1>2, <1>i DEF EntriesOK
<1>s. n # ROOT_INO
  BY <1>r, TreeAssumption DEF ROOT_INO
<1>n. \A x, c : <<x, c, n>> \in E2 => FALSE
  <2> SUFFICES ASSUME NEW x, NEW c, <<x, c, n>> \in E2 PROVE FALSE
    OBVIOUS
  <2>1. <<x, c, n>> \in E /\ ~(x = d /\ c = a) /\ x # n /\ x \in Inodes
    BY <1>1, <1>5
  <2>2. c \in Dots
    BY <1>0, <1>2, <1>i, <2>1 DEF ParentsOK
  <2>3. M[x] = "dir"
    BY <1>0, <2>1 DEF EntriesOK
  <2>4. CASE c = "."
    <3>1. <<x, ".", x>> \in E
      BY <1>0, <2>1, <2>3 DEF EntriesOK
    <3> QED BY <1>0, <2>1, <2>4, <3>1 DEF EntriesOK
  <2>5. CASE c = ".."
    <3>1. x # ROOT_INO
      BY <1>0, <1>s, <2>1, <2>5 DEF EntriesOK
    <3>2. PICK y, b : <<y, b, x>> \in E /\ b \notin Dots
      BY <2>1, <2>3, <3>1, NamedOnce
    <3>3. <<x, "..", y>> \in E
      BY <1>0, <2>3, <3>2 DEF ParentsOK
    <3>4. y = n
      BY <1>0, <2>1, <2>5, <3>3 DEF EntriesOK
    <3> QED BY <1>2, <3>2, <3>4
  <2> QED BY <1>d, <2>2, <2>4, <2>5
<1>6. \A x \in Inodes : x # n => M2[x] = M[x]
  BY <1>2
<1>7. EntriesOK(M2, E2)
  <2>1. E2 \in SUBSET Triples /\ M2[ROOT_INO] = "dir"
    BY <1>0, <1>1, <1>2, <1>6, <1>s DEF EntriesOK
  <2>r. <<ROOT_INO, "..", ROOT_INO>> \in E2
    BY <1>0, <1>5, <1>s DEF EntriesOK
  <2>2. \A x, c, m : <<x, c, m>> \in E2 => <<x, c, m>> \in E /\ M2[x] = M[x] /\ M2[m] = M[m]
    BY <1>1, <1>5, <1>6, <1>n
  <2>3. \A x, c, m : <<x, c, m>> \in E2 => M2[x] = "dir" /\ M2[m] # "none"
    BY <1>0, <2>2 DEF EntriesOK
  <2>4. \A x, c, m : <<x, c, m>> \in E2 => (c \in Dots => M2[m] = "dir") /\ (c \notin Dots => m >= FIRST_INODE)
    BY <1>0, <2>2 DEF EntriesOK
  <2>5. \A x, c, m, k : <<x, c, m>> \in E2 /\ <<x, c, k>> \in E2 => m = k
    BY <1>0, <1>5 DEF EntriesOK
  <2>6. \A x \in Inodes : M2[x] = "dir" => <<x, ".", x>> \in E2
    BY <1>0, <1>2, <1>5, <1>6, <1>d DEF EntriesOK
  <2> QED BY <2>1, <2>r, <2>3, <2>4, <2>5, <2>6 DEF EntriesOK
<1>8. ParentsOK(M2, E2)
  <2>1. \A x, c, m : <<x, c, m>> \in E2 /\ M2[m] = "dir" => <<x, c, m>> \in E /\ M[m] = "dir" /\ m # n
    BY <1>1, <1>5, <1>6, <1>n
  <2>2. \A x, m : <<m, "..", x>> \in E /\ m # n => <<m, "..", x>> \in E2
    BY <1>2, <1>5, <1>d
  <2>3. \A x, c, m : <<x, c, m>> \in E2 /\ c \notin Dots /\ M2[m] = "dir" => <<m, "..", x>> \in E2
    BY <1>0, <2>1, <2>2 DEF ParentsOK
  <2>4. \A x, c, p, b, m : /\ <<x, c, m>> \in E2 /\ c \notin Dots /\ M2[m] = "dir"
                           /\ <<p, b, m>> \in E2 /\ b \notin Dots
                           => x = p /\ c = b
    BY <1>0, <2>1 DEF ParentsOK
  <2> QED BY <2>3, <2>4 DEF ParentsOK
<1>9. LinksOK(M2, L2, E2)
  <2>e. \A e \in E : e[3] = n /\ e[2] \notin Dots => e = t
    <3> SUFFICES ASSUME NEW e \in E, e[3] = n, e[2] \notin Dots PROVE e = t
      OBVIOUS
    <3>1. <<e[1], e[2], n>> \in E
      BY <1>1
    <3>2. e[1] = d /\ e[2] = a
      BY <1>0, <1>2, <1>i, <3>1 DEF ParentsOK
    <3> QED BY <1>1, <3>2 DEF t
  <2>n. \A e \in E : e[1] = n => e[2] \in Dots
    BY <1>1, <1>2
  <2>1. \A x : x # d /\ x # n => Subs(M2, E2, x) = Subs(M, E, x)
    BY <1>1, <1>2, <1>3, <1>6, <2>e DEF Subs
  <2>2. Subs(M2, E2, d) = Subs(M, E, d) \ {t} /\ t \in Subs(M, E, d)
    BY <1>1, <1>2, <1>3, <1>6, <1>r, <2>e DEF Subs
  <2>3. \A x : x # n => NamesTo(E2, x) = NamesTo(E, x)
    BY <1>2, <1>3, <2>n DEF NamesTo
  <2>4. Cardinality(Subs(M2, E2, d)) = Cardinality(Subs(M, E, d)) - 1 /\ Cardinality(Subs(M, E, d)) \in Nat
    BY <1>1, <2>2, FS_RemoveElement, FS_CardinalityType
  <2>5. \A x \in Inodes : M2[x] = "dir" => L2[x] = 2 + Cardinality(Subs(M2, E2, x))
    <3> SUFFICES ASSUME NEW x \in Inodes, M2[x] = "dir" PROVE L2[x] = 2 + Cardinality(Subs(M2, E2, x))
      OBVIOUS
    <3>1. x # n
      BY <1>2
    <3>2. CASE x = d
      <4>1. L[d] = 2 + Cardinality(Subs(M, E, d))
        BY <1>0, <1>2, <1>r DEF LinksOK
      <4> QED BY <1>2, <2>4, <3>2, <4>1
    <3>3. CASE x # d
      BY <1>0, <1>2, <2>1, <3>1, <3>3 DEF LinksOK
    <3> QED BY <3>2, <3>3
  <2>6. \A x \in Inodes : M2[x] = "file" => L2[x] = Cardinality(NamesTo(E2, x))
    <3> SUFFICES ASSUME NEW x \in Inodes, M2[x] = "file" PROVE L2[x] = Cardinality(NamesTo(E2, x))
      OBVIOUS
    <3>1. x # n /\ x # d
      BY <1>2, <1>6, <1>r
    <3> QED BY <1>0, <1>2, <2>3, <3>1 DEF LinksOK
  <2> QED BY <2>5, <2>6 DEF LinksOK
<1>10. Rooted(M2, E2)
  <2> SUFFICES ASSUME NEW S, Closed(S, E2), NEW x \in Inodes, M2[x] # "none" PROVE x \in S
    BY DEF Rooted
  <2> DEFINE R == S \cup {n}
  <2>1. Closed(R, E)
    <3>1. ROOT_INO \in R
      BY DEF Closed
    <3>2. ASSUME NEW y, NEW c, NEW m, <<y, c, m>> \in E, c \notin Dots, y \in R PROVE m \in R
      <4>1. y # n
        BY <1>2, <3>2
      <4> QED BY <1>5, <3>2, <4>1 DEF Closed
    <3> HIDE DEF R
    <3> QED BY <3>1, <3>2 DEF Closed
  <2>2. \A y \in Inodes : M[y] # "none" => y \in R
    <3> HIDE DEF R
    <3> QED BY <1>0, <2>1 DEF Rooted
  <2>3. x # n /\ M[x] # "none"
    BY <1>2
  <2> QED BY <2>2, <2>3
<1> QED BY <1>7, <1>8, <1>9, <1>10 DEF TreeOK

-----------------------------------------------------------------------------
(* The tree on a volume *)

Modes(V) == [n \in Inodes |-> V.node[n].mode]
LinksOf(V) == [n \in Inodes |-> V.node[n].links]
Lists(V, d, a, m) == d \in Inodes /\ V.node[d].mode = "dir" /\ Has(DirOf(V, d), a, m)
Entries(V) == {e \in Triples : Lists(V, e[1], e[2], e[3])}
DirsIn(V, g) == {n \in Inodes : V.node[n].mode = "dir" /\ GroupOf("inode", n) = g}
DirsCounted(V) == \A g \in Groups : V.gd[g]["dirs"] = Cardinality(DirsIn(V, g))
UsedOK(V) == \A n \in V.used["inode"] : n < FIRST_INODE \/ V.node[n].mode # "none"

(* The inductive invariant: everything the engine keeps about a volume *)
Sound(V) == Base(V) /\ DirsCounted(V) /\ UsedOK(V) /\ TreeOK(Modes(V), LinksOf(V), Entries(V))

(* The records of a directory have names and inodes. *)
LEMMA HasType ==
  ASSUME NEW B, Shape(B), NEW a, NEW m, Has(B, a, m)
  PROVE  a \in AllNames /\ m \in Inodes
<1>1. PICK i, j : Here(B, i, j) /\ B[i][j].name = a /\ B[i][j].ino = m
  BY DEF Has
<1>2. BlockShape(B[i]) /\ j \in 1 .. Len(B[i]) /\ m # 0
  BY <1>1 DEF Here, Shape
<1>3. B[i][j].ino \in Inodes \cup {0}
  BY <1>2, RecordType
<1>4. a \in AllNames
  BY <1>1, <1>2 DEF BlockShape
<1> QED BY <1>1, <1>2, <1>3, <1>4

LEMMA EntryIs ==
  ASSUME NEW V, Base(V), NEW d, NEW a, NEW m
  PROVE  <<d, a, m>> \in Entries(V) <=> Lists(V, d, a, m)
<1>1. Lists(V, d, a, m) => d \in Inodes /\ a \in AllNames /\ m \in Inodes
  BY HasType DEF Lists, Base
<1>2. <<d, a, m>> \in Triples <=> d \in Inodes /\ a \in AllNames /\ m \in Inodes
  BY TripleIs
<1> DEFINE t == <<d, a, m>>
<1>3. t[1] = d /\ t[2] = a /\ t[3] = m
  BY TripleIs
<1> HIDE DEF t
<1>4. t \in Entries(V) <=> t \in Triples /\ Lists(V, d, a, m)
  BY <1>3 DEF Entries
<1> QED BY <1>1, <1>2, <1>4 DEF t

LEMMA EntriesAre == ASSUME NEW V PROVE Entries(V) \in SUBSET Triples
BY DEF Entries

LEMMA TablesAre ==
  ASSUME NEW V, NEW n \in Inodes
  PROVE  Modes(V)[n] = V.node[n].mode /\ LinksOf(V)[n] = V.node[n].links
BY DEF Modes, LinksOf

(* Inode m and what it holds stay. *)
Alike(V, W, m) ==
  /\ W.node[m].mode = V.node[m].mode /\ W.node[m].size = V.node[m].size
  /\ W.node[m].direct = V.node[m].direct /\ W.node[m].indirect = V.node[m].indirect
  /\ \A i \in Cells : Ptr(V, m, i) # 0 => W.data[Ptr(V, m, i)] = V.data[Ptr(V, m, i)]

LEMMA AlikePtr ==
  ASSUME NEW V, NEW W, NEW m \in Inodes, Alike(V, W, m)
  PROVE  (\A i \in Cells : Ptr(W, m, i) = Ptr(V, m, i)) /\ Full(W, m) = Full(V, m)
<1>1. DIRECT + WORDS \in Cells
  BY TreeAssumption DEF Cells
<1>2. Ptr(V, m, DIRECT + WORDS) = V.node[m].indirect
  BY DEF Ptr
<1>3. V.node[m].indirect # 0 => W.data[V.node[m].indirect] = V.data[V.node[m].indirect]
  BY <1>1, <1>2 DEF Alike
<1>4. /\ W.node[m].direct = V.node[m].direct /\ W.node[m].indirect = V.node[m].indirect
  BY DEF Alike
<1>5. \A i \in Cells : Ptr(W, m, i) = Ptr(V, m, i)
  BY <1>3, <1>4 DEF Ptr, FileBlock
<1> QED BY <1>5 DEF Full

LEMMA AlikeThen ==
  ASSUME NEW V, NEW W, NEW X, NEW m \in Inodes, Alike(V, W, m), Alike(W, X, m)
  PROVE  Alike(V, X, m)
<1>1. \A i \in Cells : Ptr(W, m, i) = Ptr(V, m, i)
  BY AlikePtr
<1> QED BY <1>1 DEF Alike

LEMMA AlikeDir ==
  ASSUME NEW V, Base(V), NEW W, NEW m \in Inodes, Alike(V, W, m), V.node[m].mode = "dir"
  PROVE  DirOf(W, m) = DirOf(V, m)
<1> DEFINE z == V.node[m].size
<1>1. W.node[m].size = z /\ W.node[m].direct = V.node[m].direct
  BY DEF Alike
<1>2. \A i \in 0 .. z - 1 : i \in Cells /\ Ptr(V, m, i) = V.node[m].direct[i] /\ Ptr(V, m, i) # 0
  BY DirBlocks
<1> HIDE DEF z
<1>3. \A i \in 0 .. z - 1 : RecordsOf(W, m, i) = RecordsOf(V, m, i)
  BY <1>1, <1>2 DEF RecordsOf, Alike
<1> QED BY <1>1, <1>3, Zenon DEF DirOf, z

(* An inode in use stays in use and keeps a link. *)
Lives(V, W, m) == Alike(V, W, m) /\ (V.node[m].mode # "none" => m \in W.used["inode"] /\ W.node[m].links >= 1)

LEMMA LivesBase ==
  ASSUME NEW V, Base(V), NEW W, NEW n, \A m \in Inodes : m # n => Lives(V, W, m), Core(W), NodeShape(W, n),
         W.node[n].mode = "dir" => Shape(DirOf(W, n))
  PROVE  Base(W)
<1>1. ASSUME NEW m \in Inodes PROVE NodeShape(W, m) /\ (W.node[m].mode = "dir" => Shape(DirOf(W, m)))
  <2>1. CASE m = n
    BY <2>1
  <2>2. CASE m # n
    <3>1. Lives(V, W, m) /\ Alike(V, W, m) /\ NodeShape(V, m)
      BY <2>2 DEF Lives, Base
    <3>2. Full(W, m) = Full(V, m) /\ W.node[m].mode = V.node[m].mode /\ W.node[m].size = V.node[m].size
      BY <3>1, AlikePtr DEF Alike
    <3>3. NodeShape(W, m)
      BY <3>1, <3>2 DEF NodeShape, Lives
    <3>4. V.node[m].mode = "dir" => DirOf(W, m) = DirOf(V, m)
      BY <3>1, AlikeDir
    <3> QED BY <3>2, <3>3, <3>4 DEF Base
  <2> QED BY <2>1, <2>2
<1> QED BY <1>1 DEF Base

LEMMA ElsewhereLives ==
  ASSUME NEW V, Base(V), NEW W, NEW n \in Inodes, Elsewhere(V, W, n), NEW m \in Inodes, m # n
  PROVE  Lives(V, W, m) /\ W.node[m].links = V.node[m].links
<1>1. W.node[m] = V.node[m] /\ W.used["inode"] = V.used["inode"] /\ NodeShape(V, m)
  BY DEF Elsewhere, Base
<1> QED BY <1>1 DEF Lives, Alike, Elsewhere, NodeShape

LEMMA AlikeLists ==
  ASSUME NEW V, Base(V), NEW W, NEW d, d \in Inodes => Alike(V, W, d), NEW a, NEW m
  PROVE  Lists(W, d, a, m) <=> Lists(V, d, a, m)
<1>1. CASE d \in Inodes
  <2>1. W.node[d].mode = V.node[d].mode
    BY <1>1 DEF Alike
  <2>2. V.node[d].mode = "dir" => DirOf(W, d) = DirOf(V, d)
    BY <1>1, AlikeDir
  <2> QED BY <2>1, <2>2 DEF Lists
<1>2. CASE d \notin Inodes
  BY <1>2 DEF Lists
<1> QED BY <1>1, <1>2

(* Work on the blocks of one inode keeps modes, links and counts. *)
LEMMA ElsewhereTables ==
  ASSUME NEW V, NEW W, NEW n \in Inodes, Elsewhere(V, W, n)
  PROVE  /\ Modes(W) = Modes(V) /\ LinksOf(W) = LinksOf(V)
         /\ (DirsCounted(V) => DirsCounted(W)) /\ (UsedOK(V) /\ InodesOK(V) => UsedOK(W))
<1>1. \A m \in Inodes : W.node[m].mode = V.node[m].mode /\ W.node[m].links = V.node[m].links
  BY DEF Elsewhere
<1>2. Modes(W) = Modes(V) /\ LinksOf(W) = LinksOf(V)
  BY <1>1 DEF Modes, LinksOf
<1>3. \A g : DirsIn(W, g) = DirsIn(V, g)
  BY <1>1 DEF DirsIn
<1>4. DirsCounted(V) => DirsCounted(W)
  BY <1>3 DEF DirsCounted, Elsewhere
<1>5. W.used["inode"] = V.used["inode"]
  BY DEF Elsewhere
<1>6. InodesOK(V) /\ UsedOK(V) => UsedOK(W)
  BY <1>1, <1>5 DEF UsedOK, InodesOK
<1> QED BY <1>2, <1>4, <1>6

(* Work on a file keeps the tree. *)
LEMMA FileSound ==
  ASSUME NEW V, Sound(V), NEW W, NEW n \in Inodes, Elsewhere(V, W, n), Base(W), V.node[n].mode # "dir"
  PROVE  Sound(W) /\ Entries(W) = Entries(V)
<1>1. Base(V) /\ DirsCounted(V) /\ UsedOK(V) /\ TreeOK(Modes(V), LinksOf(V), Entries(V))
  BY DEF Sound
<1>2. VolumeOK(V) /\ InodesOK(V)
  BY <1>1 DEF Base, Core
<1>3. /\ Modes(W) = Modes(V) /\ LinksOf(W) = LinksOf(V) /\ DirsCounted(W) /\ UsedOK(W)
  BY <1>1, <1>2, ElsewhereTables
<1>4. ASSUME NEW e \in Triples PROVE Lists(W, e[1], e[2], e[3]) <=> Lists(V, e[1], e[2], e[3])
  <2>1. CASE e[1] = n
    <3>1. W.node[n].mode = V.node[n].mode
      BY DEF Elsewhere
    <3> QED BY <2>1, <3>1 DEF Lists
  <2>2. CASE e[1] # n
    <3>1. e[1] \in Inodes => Alike(V, W, e[1])
      BY <1>1, <2>2, ElsewhereLives DEF Lives
    <3> QED BY <1>1, <3>1, AlikeLists
  <2> QED BY <2>1, <2>2
<1>5. Entries(W) = Entries(V)
  BY <1>4 DEF Entries
<1> QED BY <1>1, <1>3, <1>5 DEF Sound

-----------------------------------------------------------------------------
(* A new inode *)

Fresh(V, A) ==
  /\ VolumeOK(A) /\ Counted(A) /\ A.ok = V.ok
  /\ A.ret \in Inodes /\ A.ret >= FIRST_INODE /\ A.ret \notin V.used["inode"]
  /\ A.node = [V.node EXCEPT ![A.ret] = ZeroNode] /\ A.data = V.data
  /\ A.used["inode"] = V.used["inode"] \cup {A.ret} /\ A.used["block"] = V.used["block"]
  /\ \A g \in Groups : A.gd[g]["dirs"] = V.gd[g]["dirs"]

LEMMA AllocateInode ==
  ASSUME NEW V, Core(V)
  PROVE  VolumeOK(Allocate(V, "inode")) /\ (Allocate(V, "inode").ok => Fresh(V, Allocate(V, "inode")))
<1> DEFINE A == Allocate(V, "inode")
<1>1. VolumeOK(V) /\ Counted(V) /\ "inode" \in Kinds
  BY DEF Core, Kinds
<1>2. \/ A = Failed(V)
      \/ \E g \in Groups : \E n \in Candidates("inode", g) \ V.used["inode"] :
           Took(V, A, "inode", g, n) /\ VolumeOK(A) /\ Counted(A)
  BY <1>1, AllocateFacts
<1> HIDE DEF A
<1>3. CASE A = Failed(V)
  BY <1>1, <1>3, FailedOK DEF A
<1>4. CASE A # Failed(V)
  <2>1. PICK g \in Groups : \E n \in Candidates("inode", g) \ V.used["inode"] :
           Took(V, A, "inode", g, n) /\ VolumeOK(A) /\ Counted(A)
    BY <1>2, <1>4
  <2>2. PICK n \in Candidates("inode", g) \ V.used["inode"] :
           Took(V, A, "inode", g, n) /\ VolumeOK(A) /\ Counted(A)
    BY <2>1
  <2>3. n \in Inodes /\ n >= FIRST_INODE
    BY <2>2, InodeOfGroup
  <2>4. /\ A.ret = n /\ A.ok = V.ok /\ A.node = [V.node EXCEPT ![n] = ZeroNode] /\ A.data = V.data
        /\ A.used = [V.used EXCEPT !["inode"] = @ \cup {n}]
        /\ A.gd = [V.gd EXCEPT ![g]["inode"] = @ - 1]
    BY <2>2 DEF Took
  <2>5. A.used["inode"] = V.used["inode"] \cup {n} /\ A.used["block"] = V.used["block"]
    BY <1>1, <2>4 DEF VolumeOK, Kinds
  <2>6. \A h \in Groups : A.gd[h]["dirs"] = V.gd[h]["dirs"]
    BY <1>1, <2>4 DEF VolumeOK, Kinds
  <2>8. Fresh(V, A)
    BY <2>2, <2>3, <2>4, <2>5, <2>6 DEF Fresh
  <2> QED BY <2>2, <2>8 DEF A
<1> QED BY <1>3, <1>4

(* The inode gets its type and its links; it holds nothing yet. *)
NewNode(type) == [ZeroNode EXCEPT !.mode = type, !.links = IF type = "dir" THEN 2 ELSE 1]
Typed(A, N, n, type) == N = With(A, n, NewNode(type), A.data)

LEMMA NewNodeIs ==
  ASSUME NEW type \in {"file", "dir"}
  PROVE  /\ NewNode(type) \in NodeSet /\ NewNode(type).mode = type /\ NewNode(type).size = 0
         /\ NewNode(type).links = (IF type = "dir" THEN 2 ELSE 1) /\ NewNode(type).blocks = 0
         /\ NewNode(type).indirect = 0 /\ \A i \in 0 .. DIRECT - 1 : NewNode(type).direct[i] = 0
<1>1. 0 \in 0 .. BLOCKS - 1
  BY TreeAssumption
<1>2. ZeroNode \in NodeSet
  BY <1>1 DEF ZeroNode, NodeSet
<1>3. /\ NewNode(type).mode = type /\ NewNode(type).size = 0
      /\ NewNode(type).links = (IF type = "dir" THEN 2 ELSE 1) /\ NewNode(type).blocks = 0
      /\ NewNode(type).indirect = 0 /\ NewNode(type).direct = ZeroNode.direct
  BY DEF NewNode, ZeroNode
<1>4. \A i \in 0 .. DIRECT - 1 : ZeroNode.direct[i] = 0
  BY DEF ZeroNode
<1>5. NewNode(type) \in NodeSet
  <2>1. (IF type = "dir" THEN 2 ELSE 1) \in Int
    OBVIOUS
  <2> QED BY <1>2, <2>1 DEF NewNode, NodeSet
<1> QED BY <1>3, <1>4, <1>5

LEMMA TypedIs ==
  ASSUME NEW A, VolumeOK(A), NEW n \in Inodes, A.node[n] = ZeroNode, NEW type
  PROVE  Typed(A, [A EXCEPT !.node[n].mode = type, !.node[n].links = IF type = "dir" THEN 2 ELSE 1], n, type)
<1> DEFINE l == IF type = "dir" THEN 2 ELSE 1
           Q == [A EXCEPT !.node[n].mode = type]
           M == [ZeroNode EXCEPT !.mode = type]
           W == [A EXCEPT !.node[n].mode = type, !.node[n].links = l]
<1>1. W = [Q EXCEPT !.node[n].links = l]
  OBVIOUS
<1>2. Q = [A EXCEPT !.node = [A.node EXCEPT ![n] = M]]
  BY DEF VolumeOK
<1>3. Q.node = [A.node EXCEPT ![n] = M] /\ Q.node[n] = M
  BY <1>2 DEF VolumeOK
<1>4. NewNode(type) = [M EXCEPT !.links = l]
  BY DEF NewNode
<1>5. W = [Q EXCEPT !.node = [Q.node EXCEPT ![n] = [Q.node[n] EXCEPT !.links = l]]]
  BY <1>1
<1> HIDE DEF M, Q, l
<1>6. W = [Q EXCEPT !.node = [Q.node EXCEPT ![n] = NewNode(type)]]
  BY <1>3, <1>4, <1>5
<1>7. W = [A EXCEPT !.node = [A.node EXCEPT ![n] = NewNode(type)]]
  <2>1. PICK X, Y : X = [A.node EXCEPT ![n] = M] /\ Y = [A.node EXCEPT ![n] = NewNode(type)]
    OBVIOUS
  <2>2. [Q.node EXCEPT ![n] = NewNode(type)] = Y
    <3>1. DOMAIN A.node = Inodes
      BY DEF VolumeOK
    <3> HIDE DEF W
    <3> QED BY <1>3, <2>1, <3>1
  <2>3. W = [[A EXCEPT !.node = X] EXCEPT !.node = Y]
    BY <1>2, <1>6, <2>1, <2>2
  <2>4. [[A EXCEPT !.node = X] EXCEPT !.node = Y] = [A EXCEPT !.node = Y]
    BY DEF VolumeOK
  <2> QED BY <2>1, <2>3, <2>4
<1>8. W = With(A, n, NewNode(type), A.data)
  BY <1>7 DEF With, VolumeOK
<1> QED BY <1>8 DEF Typed, l

Born(V, N, n, type) ==
  /\ Core(N) /\ N.ok = V.ok /\ n \in Inodes /\ n >= FIRST_INODE /\ n \notin V.used["inode"]
  /\ V.node[n].mode = "none" /\ N.node[n] = NewNode(type) /\ N.data = V.data /\ Full(N, n) = {}
  /\ N.used["inode"] = V.used["inode"] \cup {n}
  /\ \A m \in Inodes : m # n => N.node[m] = V.node[m]
  /\ \A g \in Groups : N.gd[g]["dirs"] = V.gd[g]["dirs"]

LEMMA NewInode ==
  ASSUME NEW V, Base(V), NEW A, Fresh(V, A), NEW n, n = A.ret, NEW type \in {"file", "dir"},
         NEW N, Typed(A, N, n, type)
  PROVE  Born(V, N, n, type)
<1>1. /\ Core(V) /\ Owned(V) /\ InodesOK(V) /\ IndirectOK(V) /\ V.node \in [Inodes -> NodeSet]
      /\ NodeShape(V, A.ret)
  BY DEF Base, Core, Owned, Fresh, VolumeOK
<1>2. /\ n \in Inodes /\ n >= FIRST_INODE /\ n \notin V.used["inode"] /\ VolumeOK(A) /\ A.ok = V.ok
      /\ A.node = [V.node EXCEPT ![n] = ZeroNode] /\ A.data = V.data /\ Counted(A)
      /\ A.used["inode"] = V.used["inode"] \cup {n} /\ A.used["block"] = V.used["block"]
      /\ \A g \in Groups : A.gd[g]["dirs"] = V.gd[g]["dirs"]
  BY DEF Fresh
<1>3. V.node[n].mode = "none" /\ Full(V, n) = {}
  BY <1>1, <1>2 DEF NodeShape
<1>4. /\ NewNode(type) \in NodeSet /\ A.data = [b \in Blocks |-> A.data[b]]
  BY <1>2, NewNodeIs DEF VolumeOK
<1>5. /\ VolumeOK(N) /\ N.ok = A.ok /\ N.used = A.used /\ N.sb = A.sb /\ N.gd = A.gd
      /\ N.node = [A.node EXCEPT ![n] = NewNode(type)] /\ N.data = A.data
  BY <1>2, <1>4, WithOK DEF Typed
<1>6. N.node[n] = NewNode(type) /\ \A m \in Inodes : m # n => N.node[m] = V.node[m]
  BY <1>1, <1>2, <1>5 DEF VolumeOK
<1>7. Counted(N)
  BY <1>2, <1>5, CountsStay
<1>8. IndirectOK(N)
  <2>1. NewNode(type).indirect = 0
    BY NewNodeIs
  <2> QED BY <1>1, <1>2, <1>5, <1>6, <2>1 DEF IndirectOK
<1>9. \A j \in Cells : Ptr(N, n, j) = 0
  <2>1. NewNode(type).indirect = 0 /\ \A i \in 0 .. DIRECT - 1 : NewNode(type).direct[i] = 0
    BY NewNodeIs
  <2>2. \A j \in Cells : j < DIRECT => j \in 0 .. DIRECT - 1
    BY TreeAssumption DEF Cells
  <2> QED BY <1>6, <2>1, <2>2 DEF Ptr, FileBlock
<1>10. \A m \in Inodes, j \in Cells : Ptr(N, m, j) = Ptr(V, m, j)
  <2>1. \A j \in Cells : Ptr(V, n, j) = 0
    BY <1>3 DEF Full
  <2>2. \A m \in Inodes : m # n => \A j \in Cells : Ptr(N, m, j) = Ptr(V, m, j)
    BY <1>2, <1>5, <1>6 DEF Ptr, FileBlock
  <2> QED BY <1>9, <2>1, <2>2
<1>11. \A m \in Inodes : N.node[m].blocks = V.node[m].blocks
  <2>1. V.node[n].blocks = 0
    <3>1. V.node[n].blocks = Cardinality(Full(V, n))
      BY <1>1, <1>2 DEF Owned
    <3> QED BY <1>3, <3>1, FS_EmptySet
  <2>2. NewNode(type).blocks = 0
    BY NewNodeIs
  <2> QED BY <1>6, <2>1, <2>2
<1>12. Owned(N)
  <2>1. N.used["block"] = V.used["block"]
    BY <1>2, <1>5
  <2> QED BY <1>1, <1>8, <1>10, <1>11, <2>1, SameOwned
<1>13. InodesOK(N)
  BY <1>1, <1>2, <1>5 DEF InodesOK
<1>14. Core(N)
  BY <1>5, <1>7, <1>12, <1>13 DEF Core
<1>15. Full(N, n) = {}
  BY <1>9 DEF Full
<1>16. /\ N.ok = V.ok /\ N.data = V.data /\ N.used["inode"] = V.used["inode"] \cup {n}
       /\ \A g \in Groups : N.gd[g]["dirs"] = V.gd[g]["dirs"]
  BY <1>2, <1>5
<1> QED BY <1>2, <1>3, <1>6, <1>14, <1>15, <1>16 DEF Born

-----------------------------------------------------------------------------
(* Entries and their triples *)

LEMMA TripleEq ==
  ASSUME NEW e \in Triples, NEW d, NEW a, NEW n
  PROVE  e = <<d, a, n>> <=> e[1] = d /\ e[2] = a /\ e[3] = n
<1> DEFINE t == <<d, a, n>>
<1>1. t[1] = d /\ t[2] = a /\ t[3] = n
  BY TripleIs
<1>2. e = <<e[1], e[2], e[3]>>
  BY TripleIs
<1> QED BY <1>1, <1>2, Zenon DEF t

(* Membership of triples, member by member *)
Gains(E, F, d, a, n) == \A x, b, m : <<x, b, m>> \in F <=> <<x, b, m>> \in E \/ (x = d /\ b = a /\ m = n)
Drops(E, F, d, a) == \A x, b, m : <<x, b, m>> \in F <=> <<x, b, m>> \in E /\ ~(x = d /\ b = a)

LEMMA GainsIs ==
  ASSUME NEW E \in SUBSET Triples, NEW F \in SUBSET Triples, NEW d, NEW a, NEW n, Gains(E, F, d, a, n)
  PROVE  F = E \cup {<<d, a, n>>}
<1>0. <<d, a, n>> \in F
  BY Zenon DEF Gains
<1>1. ASSUME NEW e \in Triples PROVE e \in F <=> e \in E \/ e = <<d, a, n>>
  <2>1. e = <<e[1], e[2], e[3]>> /\ (e = <<d, a, n>> <=> e[1] = d /\ e[2] = a /\ e[3] = n)
    BY TripleIs, TripleEq
  <2>2. <<e[1], e[2], e[3]>> \in F <=> <<e[1], e[2], e[3]>> \in E \/ (e[1] = d /\ e[2] = a /\ e[3] = n)
    BY Zenon DEF Gains
  <2> QED BY <2>1, <2>2, Zenon
<1>2. \A e : e \in F <=> e \in E \/ e = <<d, a, n>>
  BY <1>0, <1>1, Zenon
<1> QED BY <1>2, Zenon

LEMMA DropsIs ==
  ASSUME NEW E \in SUBSET Triples, NEW F \in SUBSET Triples, NEW d, NEW a, NEW n, Drops(E, F, d, a),
         \A m : <<d, a, m>> \in E => m = n
  PROVE  F = E \ {<<d, a, n>>}
<1>1. ASSUME NEW e \in Triples PROVE e \in F <=> e \in E /\ e # <<d, a, n>>
  <2>1. e = <<e[1], e[2], e[3]>> /\ (e = <<d, a, n>> <=> e[1] = d /\ e[2] = a /\ e[3] = n)
    BY TripleIs, TripleEq
  <2>2. <<e[1], e[2], e[3]>> \in F <=> <<e[1], e[2], e[3]>> \in E /\ ~(e[1] = d /\ e[2] = a)
    BY Zenon DEF Drops
  <2>3. e \in E /\ e[1] = d /\ e[2] = a => e[3] = n
    BY <2>1, Zenon
  <2> QED BY <2>1, <2>2, <2>3, Zenon
<1>2. \A e : e \in F <=> e \in E /\ e # <<d, a, n>>
  BY <1>1, Zenon
<1> QED BY <1>2, Zenon

(* A directory of one volume beside the others *)
LEMMA ListedEntries ==
  ASSUME NEW V, Base(V), NEW W, NEW d \in Inodes, V.node[d].mode = "dir", NEW a, NEW n, Listed(V, W, d, a, n)
  PROVE  Gains(Entries(V), Entries(W), d, a, n) /\ \A m : <<d, a, m>> \notin Entries(V)
<1>1. Base(W) /\ Elsewhere(V, W, d) /\ W.node[d].mode = "dir" /\ \A m : ~Has(DirOf(V, d), a, m)
  BY DEF Listed, Elsewhere
<1>2. ASSUME NEW x, NEW b, NEW m PROVE Lists(W, x, b, m) <=> Lists(V, x, b, m) \/ (x = d /\ b = a /\ m = n)
  <2>1. CASE x = d
    BY <1>1, <2>1 DEF Lists, Listed
  <2>2. CASE x # d
    <3>1. x \in Inodes => Alike(V, W, x)
      BY <1>1, <2>2, ElsewhereLives DEF Lives
    <3> QED BY <2>2, <3>1, AlikeLists
  <2> QED BY <2>1, <2>2
<1>3. \A x, b, m : /\ <<x, b, m>> \in Entries(W) <=> Lists(W, x, b, m)
                   /\ <<x, b, m>> \in Entries(V) <=> Lists(V, x, b, m)
  BY <1>1, EntryIs, Zenon
<1>4. Gains(Entries(V), Entries(W), d, a, n)
  BY <1>2, <1>3, Zenon DEF Gains
<1>5. \A m : ~Lists(V, d, a, m)
  BY <1>1 DEF Lists
<1> QED BY <1>3, <1>4, <1>5, Zenon

LEMMA UnlistedEntries ==
  ASSUME NEW V, Base(V), NEW W, NEW d \in Inodes, V.node[d].mode = "dir", NEW a, Unlisted(V, W, d, a)
  PROVE  Drops(Entries(V), Entries(W), d, a)
<1>1. Base(W) /\ Elsewhere(V, W, d) /\ W.node[d].mode = "dir"
  BY DEF Unlisted, Elsewhere
<1>2. ASSUME NEW x, NEW b, NEW m PROVE Lists(W, x, b, m) <=> Lists(V, x, b, m) /\ ~(x = d /\ b = a)
  <2>1. CASE x = d
    BY <1>1, <2>1 DEF Lists, Unlisted
  <2>2. CASE x # d
    <3>1. x \in Inodes => Alike(V, W, x)
      BY <1>1, <2>2, ElsewhereLives DEF Lives
    <3> QED BY <2>2, <3>1, AlikeLists
  <2> QED BY <2>1, <2>2
<1>3. \A x, b, m : /\ <<x, b, m>> \in Entries(W) <=> Lists(W, x, b, m)
                   /\ <<x, b, m>> \in Entries(V) <=> Lists(V, x, b, m)
  BY <1>1, EntryIs, Zenon
<1> QED BY <1>2, <1>3, Zenon DEF Drops

(* What a lookup in a sound volume says of the entries *)
LEMMA LookupEntry ==
  ASSUME NEW V, Base(V), NEW d \in Inodes, V.node[d].mode = "dir", NEW a
  PROVE  \/ Lookup(V, d, a) = -1 /\ \A m : <<d, a, m>> \notin Entries(V)
         \/ Lookup(V, d, a) \in Inodes /\ <<d, a, Lookup(V, d, a)>> \in Entries(V)
<1>1. \A m : <<d, a, m>> \in Entries(V) <=> Has(DirOf(V, d), a, m)
  BY EntryIs DEF Lists
<1>2. CASE \E i, j : Found(V, d, a, Lookup(V, d, a), i, j)
  <2>1. Lookup(V, d, a) \in Inodes /\ Has(DirOf(V, d), a, Lookup(V, d, a))
    BY <1>2 DEF Found, Has
  <2> QED BY <1>1, <2>1
<1>3. CASE Lookup(V, d, a) = -1 /\ \A m : ~Has(DirOf(V, d), a, m)
  BY <1>1, <1>3
<1> QED BY <1>2, <1>3, LookupIs

LEMMA LookupThe ==
  ASSUME NEW V, Sound(V), NEW d \in Inodes, V.node[d].mode = "dir", NEW a, NEW m, <<d, a, m>> \in Entries(V)
  PROVE  Lookup(V, d, a) = m
<1>1. Base(V) /\ EntriesOK(Modes(V), Entries(V))
  BY DEF Sound, TreeOK
<1>2. <<d, a, Lookup(V, d, a)>> \in Entries(V)
  BY <1>1, LookupEntry
<1> QED BY <1>1, <1>2, Zenon DEF EntriesOK

-----------------------------------------------------------------------------
(* create, for a file *)

(* Only inode n may change its type, and no other file is touched. *)
Others(V, W, n) ==
  \A m \in Inodes : m # n => W.node[m].mode = V.node[m].mode /\ (V.node[m].mode = "file" => Alike(V, W, m))

Made(V, W, d, a, n) ==
  /\ Sound(W) /\ n \in Inodes /\ V.node[n].mode = "none" /\ Others(V, W, n)
  /\ W.node[n].mode = "file" /\ W.node[n].size = 0 /\ W.node[n].links = 1
  /\ Entries(W) = Entries(V) \cup {<<d, a, n>>} /\ \A m : <<d, a, m>> \notin Entries(V)

LEMMA BornLives ==
  ASSUME NEW V, Base(V), NEW N, NEW n, NEW type, Born(V, N, n, type), NEW m \in Inodes, m # n
  PROVE  Lives(V, N, m) /\ N.node[m] = V.node[m]
<1>1. N.node[m] = V.node[m] /\ N.data = V.data /\ NodeShape(V, m) /\ N.used["inode"] = V.used["inode"] \cup {n}
  BY DEF Born, Base
<1> QED BY <1>1 DEF Lives, Alike, NodeShape

LEMMA Unnamed ==
  ASSUME NEW M, NEW E, EntriesOK(M, E), NEW n, M[n] = "none"
  PROVE  NamesTo(E, n) = {} /\ \A d, a : <<d, a, n>> \notin E /\ <<n, a, d>> \notin E
<1>1. \A d, a : <<d, a, n>> \notin E /\ <<n, a, d>> \notin E
  BY Zenon DEF EntriesOK
<1>2. \A e \in E : e = <<e[1], e[2], e[3]>>
  BY EntryType
<1>3. ASSUME NEW e \in E, e[3] = n PROVE FALSE
  <2>1. <<e[1], e[2], e[3]>> \in E
    BY <1>2, Zenon
  <2>2. <<e[1], e[2], n>> \in E
    BY <1>3, <2>1, Zenon
  <2> QED BY <1>1, <2>2, Zenon
<1> QED BY <1>1, <1>3 DEF NamesTo

LEMMA PopulateFile ==
  ASSUME NEW V, Sound(V), V.ok = TRUE, NEW d \in Inodes, V.node[d].mode = "dir", NEW a \in Names,
         NEW N, NEW n, Born(V, N, n, "file"), NEW W, W = Insert(N, d, a, n)
  PROVE  VolumeOK(W) /\ (W.ok => Made(V, W, d, a, n))
<1>1. Base(V) /\ DirsCounted(V) /\ UsedOK(V) /\ TreeOK(Modes(V), LinksOf(V), Entries(V))
  BY DEF Sound
<1>2. /\ Core(N) /\ N.ok = TRUE /\ n \in Inodes /\ n >= FIRST_INODE /\ V.node[n].mode = "none"
      /\ N.node[n] = NewNode("file") /\ N.used["inode"] = V.used["inode"] \cup {n} /\ n # d
      /\ \A g \in Groups : N.gd[g]["dirs"] = V.gd[g]["dirs"]
  BY DEF Born
<1>3. N.node[n].mode = "file" /\ N.node[n].links = 1 /\ N.node[n].size = 0
  BY <1>2, NewNodeIs
<1>4. \A m \in Inodes : m # n => Lives(V, N, m) /\ N.node[m] = V.node[m]
  BY <1>1, BornLives
<1>5. Base(N)
  <2>1. MAX_FILE \in Nat
    <3>1. DIRECT + WORDS \in Nat /\ WORDS \in Nat
      BY TreeAssumption
    <3> QED BY <3>1, Multiples DEF MAX_FILE
  <2>2. NodeShape(N, n)
    BY <1>2, <1>3, <2>1 DEF NodeShape
  <2> QED BY <1>1, <1>2, <1>3, <1>4, <2>2, LivesBase
<1>6. N.node[d].mode = "dir" /\ a \in AllNames /\ a \notin Dots
  BY <1>2, <1>4, TreeAssumption DEF AllNames
<1>7. VolumeOK(W) /\ (W.ok => Listed(N, W, d, a, n))
  BY <1>2, <1>5, <1>6, InsertFacts
<1>8. ASSUME W.ok PROVE Made(V, W, d, a, n)
  <2>1. Listed(N, W, d, a, n) /\ Base(W) /\ Elsewhere(N, W, d)
    BY <1>7, <1>8 DEF Listed
  <2>2. Entries(N) = Entries(V)
    <3>1. ASSUME NEW e \in Triples PROVE Lists(N, e[1], e[2], e[3]) <=> Lists(V, e[1], e[2], e[3])
      <4>1. CASE e[1] = n
        BY <1>2, <1>3, <4>1 DEF Lists
      <4>2. CASE e[1] # n
        <5>1. e[1] \in Inodes => Alike(V, N, e[1])
          BY <1>4, <4>2 DEF Lives
        <5> QED BY <1>1, <5>1, AlikeLists
      <4> QED BY <4>1, <4>2
    <3> QED BY <3>1 DEF Entries
  <2>3. Gains(Entries(V), Entries(W), d, a, n) /\ \A m : <<d, a, m>> \notin Entries(V)
    BY <1>5, <1>6, <2>1, <2>2, ListedEntries
  <2>4. Entries(W) = Entries(V) \cup {<<d, a, n>>}
    BY <2>3, GainsIs, EntriesAre
  <2>5. Modes(W) = Modes(N) /\ LinksOf(W) = LinksOf(N)
    BY <2>1, ElsewhereTables
  <2>6. /\ Modes(W)[n] = "file" /\ LinksOf(W)[n] = 1
        /\ \A x \in Inodes : x # n => Modes(W)[x] = Modes(V)[x] /\ LinksOf(W)[x] = LinksOf(V)[x]
    BY <1>2, <1>3, <1>4, <2>5, TablesAre
  <2>7. EntriesOK(Modes(V), Entries(V)) /\ Modes(V)[n] = "none" /\ Modes(V)[d] = "dir"
    BY <1>1, <1>2, TablesAre DEF TreeOK
  <2>8. NamesTo(Entries(V), n) = {}
    BY <2>7, Unnamed
  <2>9. TreeOK(Modes(W), LinksOf(W), Entries(W))
    <3>1. LinksOf(W)[n] = Cardinality(NamesTo(Entries(V), n)) + 1
      BY <2>6, <2>8, FS_EmptySet
    <3>2. GainsName(Modes(V), LinksOf(V), Entries(V), Modes(W), LinksOf(W), Entries(W), d, a, n)
      BY <1>2, <1>6, <2>3, <2>4, <2>6, <2>7, <3>1, Zenon DEF GainsName
    <3> QED BY <1>1, <3>2, GainName
  <2>10. DirsCounted(W)
    <3>1. \A x \in Inodes : W.node[x].mode = "dir" <=> V.node[x].mode = "dir"
      BY <1>2, <2>6, TablesAre
    <3>2. \A g : DirsIn(W, g) = DirsIn(V, g)
      BY <3>1 DEF DirsIn
    <3>3. \A g \in Groups : W.gd[g]["dirs"] = V.gd[g]["dirs"]
      BY <1>2, <2>1 DEF Elsewhere
    <3> QED BY <1>1, <3>2, <3>3 DEF DirsCounted
  <2>11. UsedOK(W)
    <3>1. W.used["inode"] = V.used["inode"] \cup {n} /\ V.used["inode"] \subseteq Inodes
      BY <1>1, <1>2, <2>1 DEF Elsewhere, Base, Core, InodesOK
    <3>2. \A x \in Inodes : (x # n => W.node[x].mode = V.node[x].mode) /\ (x = n => W.node[x].mode = "file")
      BY <2>6, TablesAre
    <3> QED BY <1>1, <1>2, <3>1, <3>2 DEF UsedOK
  <2>12. Sound(W)
    BY <2>1, <2>9, <2>10, <2>11 DEF Sound
  <2>13. Others(V, W, n)
    <3>1. ASSUME NEW m \in Inodes, m # n
          PROVE  W.node[m].mode = V.node[m].mode /\ (V.node[m].mode = "file" => Alike(V, W, m))
      <4>1. W.node[m].mode = V.node[m].mode
        BY <2>6, <3>1, TablesAre
      <4>2. ASSUME V.node[m].mode = "file" PROVE Alike(V, W, m)
        <5>1. Alike(V, N, m) /\ m # d
          BY <1>4, <3>1, <4>2 DEF Lives
        <5>2. Alike(N, W, m)
          BY <1>5, <2>1, <3>1, <5>1, ElsewhereLives DEF Lives
        <5> QED BY <5>1, <5>2, AlikeThen
      <4> QED BY <4>1, <4>2
    <3> QED BY <3>1 DEF Others
  <2>14. W.node[n].mode = "file" /\ W.node[n].size = 0 /\ W.node[n].links = 1
    BY <1>2, <1>3, <2>1 DEF Elsewhere
  <2> QED BY <1>2, <2>3, <2>4, <2>12, <2>13, <2>14 DEF Made
<1> QED BY <1>7, <1>8

-----------------------------------------------------------------------------
(* create, for a directory *)

(* The records of a new directory *)
Dotted(B, n, d) == Shape(B) /\ \A a, m : Has(B, a, m) <=> (a = "." /\ m = n) \/ (a = ".." /\ m = d)

LEMMA DotsData ==
  ASSUME NEW B, DOMAIN B = {0}, NEW n \in Inodes, NEW d \in Inodes, n # 0, d # 0, B[0] = DotRecords(n, d)
  PROVE  Dotted(B, n, d)
<1> DEFINE e == Record(n, 1, ".")
           f == Record(d, DIR_SPACE - 1, "..")
<1>1. DIR_SPACE \in Nat /\ DIR_SPACE >= 2 /\ DIR_SPACE - 1 \in Nat /\ DIR_SPACE - 1 >= 1 /\ 1 \in Nat
  BY TreeAssumption
<1>2. "." \in RecordNames /\ ".." \in RecordNames /\ "." \in AllNames /\ ".." \in AllNames /\ "." \in Dots /\ ".." \in Dots
  BY Zenon DEF RecordNames, AllNames, Dots
<1>3. e \in RecordSet /\ e.ino = n /\ e.len = 1 /\ e.name = "."
  BY <1>1, <1>2, RecordIs
<1>4. f \in RecordSet /\ f.ino = d /\ f.len = DIR_SPACE - 1 /\ f.name = ".."
  BY <1>1, <1>2, RecordIs
<1> DEFINE s == <<e, f>>
<1> HIDE DEF e, f
<1>5. s \in Seq(RecordSet) /\ Len(s) = 2 /\ s[1] = e /\ s[2] = f /\ DOMAIN s = {1, 2}
  BY <1>3, <1>4
<1>6. B[0] = s
  BY Zenon DEF e, f, DotRecords
<1> HIDE DEF s
<1>7. Used(e) = 1 /\ Used(f) = 1
  BY <1>2, <1>3, <1>4 DEF Used, Size
<1>8. BlockShape(s)
  <2>1. /\ SumTo(Lens(s), 0 + 1) = SumTo(Lens(s), 0) + Lens(s)[0 + 1] /\ SumTo(Lens(s), 0) = 0
        /\ SumTo(Lens(s), 1 + 1) = SumTo(Lens(s), 1) + Lens(s)[1 + 1]
    BY SumNext
  <2>2. Lens(s)[1] = 1 /\ Lens(s)[2] = DIR_SPACE - 1
    BY <1>3, <1>4, <1>5 DEF Lens
  <2>3. SumTo(Lens(s), Len(s)) = DIR_SPACE
    <3>1. SumTo(Lens(s), 1) = 1
      BY <2>1, <2>2
    <3>2. SumTo(Lens(s), 2) = 1 + (DIR_SPACE - 1)
      BY <2>1, <2>2, <3>1
    <3> QED BY <1>1, <1>5, <3>2
  <2>4. Used(s[1]) <= s[1].len /\ Used(s[2]) <= s[2].len
    BY <1>1, <1>3, <1>4, <1>5, <1>7
  <2>5. s[1].name \in AllNames /\ s[2].name \in AllNames
    BY <1>2, <1>3, <1>4, <1>5
  <2>6. \A j \in 1 .. Len(s) : j = 1 \/ j = 2
    BY <1>5
  <2> QED BY <1>5, <2>3, <2>4, <2>5, <2>6 DEF BlockShape
<1>9. \A i, j : Here(B, i, j) <=> i = 0 /\ (j = 1 \/ j = 2)
  <2>1. \A j : j \in 1 .. Len(s) <=> j = 1 \/ j = 2
    BY <1>5
  <2>2. s[1].ino # 0 /\ s[2].ino # 0
    BY <1>3, <1>4, <1>5
  <2> QED BY <1>6, <2>1, <2>2 DEF Here
<1>10. B[0][1].name = "." /\ B[0][1].ino = n /\ B[0][2].name = ".." /\ B[0][2].ino = d
  BY <1>3, <1>4, <1>5, <1>6
<1>11. Shape(B)
  BY <1>6, <1>8, <1>9, <1>10 DEF Shape
<1>12. \A a, m : Has(B, a, m) <=> (a = "." /\ m = n) \/ (a = ".." /\ m = d)
  BY <1>9, <1>10 DEF Has
<1> QED BY <1>11, <1>12 DEF Dotted

(* The links of inode d and the directories of group g change. *)
Relinked(V, W, d, g, l, c) ==
  W = [V EXCEPT !.node = [V.node EXCEPT ![d] = [V.node[d] EXCEPT !.links = l]],
                !.gd = [V.gd EXCEPT ![g] = [V.gd[g] EXCEPT !["dirs"] = c]]]

Linked(V, W, d, g, l, c) ==
  /\ Core(W) /\ W.ok = V.ok /\ W.hint = V.hint /\ W.used = V.used /\ W.data = V.data
  /\ \A m \in Inodes : Alike(V, W, m) /\ (m # d => W.node[m] = V.node[m])
  /\ W.node[d].links = l /\ W.gd[g]["dirs"] = c
  /\ \A h \in Groups : h # g => W.gd[h]["dirs"] = V.gd[h]["dirs"]

LEMMA RelinkFacts ==
  ASSUME NEW V, Core(V), NEW d \in Inodes, NEW g \in Groups, NEW l \in Int, NEW c \in Int,
         NEW W, Relinked(V, W, d, g, l, c)
  PROVE  Linked(V, W, d, g, l, c)
<1> DEFINE N0 == V.node[d]
           N == [N0 EXCEPT !.links = l]
           M == [V.node EXCEPT ![d] = N]
           G0 == V.gd[g]
           G == [G0 EXCEPT !["dirs"] = c]
           H == [V.gd EXCEPT ![g] = G]
<1>1. VolumeOK(V) /\ Counted(V) /\ Owned(V) /\ InodesOK(V) /\ IndirectOK(V)
  BY DEF Core, Owned
<1>2. N0 \in NodeSet /\ V.node \in [Inodes -> NodeSet]
  BY <1>1 DEF VolumeOK
<1>3. V.gd \in [Groups -> [Kinds \cup {"dirs"} -> Int]] /\ G0 \in [Kinds \cup {"dirs"} -> Int]
  BY <1>1 DEF VolumeOK
<1> HIDE DEF N0, G0
<1>4. /\ N \in NodeSet /\ N.mode = N0.mode /\ N.size = N0.size /\ N.blocks = N0.blocks
      /\ N.direct = N0.direct /\ N.indirect = N0.indirect /\ N.links = l
  BY <1>2 DEF NodeSet
<1>5. /\ G \in [Kinds \cup {"dirs"} -> Int] /\ G["dirs"] = c /\ \A k \in Kinds : G[k] = G0[k]
  BY <1>3 DEF Kinds
<1> HIDE DEF N, G
<1>6. M \in [Inodes -> NodeSet] /\ M[d] = N /\ \A m \in Inodes : m # d => M[m] = V.node[m]
  BY <1>2, <1>4
<1>7. H \in [Groups -> [Kinds \cup {"dirs"} -> Int]] /\ H[g] = G /\ \A h \in Groups : h # g => H[h] = V.gd[h]
  BY <1>3, <1>5
<1>8. W = [V EXCEPT !.node = M, !.gd = H]
  BY Zenon DEF Relinked, M, H, N, G, N0, G0
<1> HIDE DEF M, H
<1>9. /\ VolumeOK(W) /\ W.ok = V.ok /\ W.hint = V.hint /\ W.used = V.used /\ W.sb = V.sb /\ W.data = V.data
      /\ W.node = M /\ W.gd = H
  BY <1>1, <1>6, <1>7, <1>8 DEF VolumeOK
<1>10. Counted(W)
  <2>1. \A h \in Groups, k \in Kinds : W.gd[h][k] = V.gd[h][k]
    BY <1>5, <1>7, <1>9 DEF G0
  <2> QED BY <1>1, <1>9, <2>1, CountsStay
<1>11. \A m \in Inodes : /\ W.node[m].mode = V.node[m].mode /\ W.node[m].size = V.node[m].size
                         /\ W.node[m].direct = V.node[m].direct /\ W.node[m].indirect = V.node[m].indirect
                         /\ W.node[m].blocks = V.node[m].blocks
  <2>1. ASSUME NEW m \in Inodes, m # d PROVE W.node[m] = V.node[m]
    BY <1>6, <1>9, <2>1
  <2>2. W.node[d] = N
    BY <1>6, <1>9
  <2> QED BY <1>4, <2>1, <2>2 DEF N0
<1>12. \A m \in Inodes : Alike(V, W, m)
  BY <1>9, <1>11 DEF Alike
<1>13. Owned(W)
  <2>1. \A m \in Inodes, j \in Cells : Ptr(W, m, j) = Ptr(V, m, j)
    BY <1>12, AlikePtr
  <2>2. IndirectOK(W)
    BY <1>1, <1>9, <1>11 DEF IndirectOK
  <2> QED BY <1>1, <1>9, <1>11, <2>1, <2>2, SameOwned
<1>14. InodesOK(W)
  BY <1>1, <1>9 DEF InodesOK
<1>15. Core(W)
  BY <1>9, <1>10, <1>13, <1>14 DEF Core
<1>16. W.node[d].links = l /\ W.gd[g]["dirs"] = c /\ \A h \in Groups : h # g => W.gd[h]["dirs"] = V.gd[h]["dirs"]
  BY <1>4, <1>5, <1>6, <1>7, <1>9
<1>17. \A m \in Inodes : m # d => W.node[m] = V.node[m]
  BY <1>6, <1>9
<1> QED BY <1>9, <1>12, <1>15, <1>16, <1>17 DEF Linked

(* The first block of a new directory *)
FirstNode(N, b) == [N EXCEPT !.size = 1, !.blocks = 1, !.direct = [N.direct EXCEPT ![0] = b]]
Opened(A, P, d, n) == P = With(A, n, FirstNode(A.node[n], A.ret), [A.data EXCEPT ![A.ret] = DotRecords(n, d)])

LEMMA MakeDotsIs ==
  ASSUME NEW A, VolumeOK(A), A.ok = TRUE, NEW d \in Inodes, NEW n \in Inodes, d # n, A.ret \in 0 .. BLOCKS - 1,
         A.node[d].links # MAX_LINKS, NEW g, g = GroupOf("inode", n), NEW W, W = MakeDots(A, d, n)
  PROVE  \E P : Opened(A, P, d, n) /\ Relinked(P, W, d, g, P.node[d].links + 1, P.gd[g]["dirs"] + 1)
<1> DEFINE N0 == A.node[n]
           N1 == [N0 EXCEPT !.size = 1]
           N2 == [N1 EXCEPT !.blocks = 1]
           N3 == [N2 EXCEPT !.direct = [N2.direct EXCEPT ![0] = A.ret]]
           R == DotRecords(n, d)
           Q1 == [A EXCEPT !.node[n].size = 1]
           Q2 == [Q1 EXCEPT !.node[n].blocks = 1]
           Q3 == [Q2 EXCEPT !.node[n].direct[0] = A.ret]
           Q4 == [Q3 EXCEPT !.data[A.ret] = R]
           Q5 == [Q4 EXCEPT !.node[d].links = A.node[d].links + 1]
<1>1. W = [Q5 EXCEPT !.gd[g]["dirs"] = A.gd[g]["dirs"] + 1]
  BY DEF MakeDots
<1>0. N0 \in NodeSet
  BY DEF VolumeOK
<1>2. N1 \in NodeSet
  BY <1>0 DEF NodeSet
<1>3. N2 \in NodeSet
  <2> HIDE DEF N1
  <2> QED BY <1>2 DEF NodeSet
<1>4. Q1 = With(A, n, N1, A.data)
  <2>1. Q1 = [A EXCEPT !.node = [A.node EXCEPT ![n] = N1]]
    BY DEF VolumeOK
  <2> QED BY <2>1 DEF With, VolumeOK
<1> HIDE DEF N1, Q1
<1>5. Q2 = With(A, n, N2, A.data)
  <2>1. Q1.node[n] = N1 /\ \A M : [Q1 EXCEPT !.node = [Q1.node EXCEPT ![n] = M]] = With(A, n, M, A.data)
    <3>1. WithOn(A, Q1, n, N1, A.data)
      BY <1>2, <1>4, WithNode
    <3> QED BY <3>1 DEF WithOn
  <2>2. Q2 = [Q1 EXCEPT !.node = [Q1.node EXCEPT ![n] = [Q1.node[n] EXCEPT !.blocks = 1]]]
    OBVIOUS
  <2> QED BY <2>1, <2>2
<1>7. N3 \in NodeSet
  <2>1. N2.direct \in [0 .. DIRECT - 1 -> 0 .. BLOCKS - 1]
    <3> HIDE DEF N2
    <3> QED BY <1>3 DEF NodeSet
  <2>2. PICK F \in [0 .. DIRECT - 1 -> 0 .. BLOCKS - 1] : F = [N2.direct EXCEPT ![0] = A.ret]
    <3> HIDE DEF N2
    <3> QED BY <2>1
  <2>3. N3 = [N2 EXCEPT !.direct = F]
    BY <2>2
  <2> HIDE DEF N2, N3
  <2> QED BY <1>3, <2>3 DEF NodeSet
<1> HIDE DEF N2, Q2
<1>6. Q3 = With(A, n, N3, A.data)
  <2>1. Q2.node[n] = N2 /\ \A M : [Q2 EXCEPT !.node = [Q2.node EXCEPT ![n] = M]] = With(A, n, M, A.data)
    <3>1. WithOn(A, Q2, n, N2, A.data)
      BY <1>3, <1>5, WithNode
    <3> QED BY <3>1 DEF WithOn
  <2>2. Q3 = [Q2 EXCEPT !.node = [Q2.node EXCEPT ![n] = [Q2.node[n] EXCEPT !.direct = [Q2.node[n].direct EXCEPT ![0] = A.ret]]]]
    OBVIOUS
  <2> QED BY <2>1, <2>2
<1> HIDE DEF N3, Q3, R
<1>8. Q4 = With(A, n, N3, [A.data EXCEPT ![A.ret] = R])
  <2>1. Q3.data = A.data /\ \A E : [Q3 EXCEPT !.data = E] = With(A, n, N3, E)
    <3>1. WithOn(A, Q3, n, N3, A.data)
      BY <1>6, <1>7, WithNode
    <3> QED BY <3>1 DEF WithOn
  <2>2. Q4 = [Q3 EXCEPT !.data = [Q3.data EXCEPT ![A.ret] = R]]
    OBVIOUS
  <2> QED BY <2>1, <2>2
<1>9. N3 = FirstNode(A.node[n], A.ret)
  <2>1. N2.direct = N0.direct
    BY <1>0 DEF N1, N2, NodeSet
  <2> QED BY <2>1 DEF N1, N2, N3, FirstNode
<1>10. Opened(A, Q4, d, n)
  BY <1>8, <1>9 DEF R, Opened
<1> HIDE DEF Q4
<1>11. DOMAIN Q4 = DOMAIN A /\ Q4.gd = A.gd /\ Q4.node[d] = A.node[d]
  <2>1. Q4.node = [A.node EXCEPT ![n] = N3] /\ Q4.gd = A.gd /\ DOMAIN Q4 = DOMAIN A
    BY <1>8 DEF With, VolumeOK
  <2> QED BY <2>1 DEF VolumeOK
<1>12. Q5.gd = Q4.gd
  BY <1>11 DEF VolumeOK
<1>13. Relinked(Q4, W, d, g, Q4.node[d].links + 1, Q4.gd[g]["dirs"] + 1)
  <2> DEFINE l == A.node[d].links + 1
             c == A.gd[g]["dirs"] + 1
             M == [Q4.node EXCEPT ![d] = [Q4.node[d] EXCEPT !.links = l]]
             H == [Q4.gd EXCEPT ![g] = [Q4.gd[g] EXCEPT !["dirs"] = c]]
  <2>0. l = Q4.node[d].links + 1 /\ c = Q4.gd[g]["dirs"] + 1
    BY <1>11
  <2> HIDE DEF l, c
  <2>1. Q5 = [Q4 EXCEPT !.node = M]
    BY DEF l
  <2>2. W = [Q5 EXCEPT !.gd = [Q5.gd EXCEPT ![g] = [Q5.gd[g] EXCEPT !["dirs"] = c]]]
    BY <1>1 DEF c
  <2>3. W = [Q5 EXCEPT !.gd = H]
    BY <1>12, <2>2
  <2> HIDE DEF M, H, Q5
  <2>4. W = [Q4 EXCEPT !.node = M, !.gd = H]
    BY <2>1, <2>3
  <2>5. Relinked(Q4, W, d, g, l, c)
    BY <2>4 DEF Relinked, M, H
  <2> QED BY <2>0, <2>5
<1> QED BY <1>10, <1>13

Opens(V, X, d, n) ==
  /\ Base(X) /\ X.ok = TRUE /\ X.used["inode"] = V.used["inode"] \cup {n}
  /\ X.node[n].mode = "dir" /\ X.node[n].links = 2 /\ X.node[d].links = V.node[d].links + 1
  /\ Dotted(DirOf(X, n), n, d)
  /\ \A m \in Inodes : m # n => Lives(V, X, m) /\ (m # d => X.node[m].links = V.node[m].links)
  /\ \A h \in Groups : X.gd[h]["dirs"] = V.gd[h]["dirs"] + (IF h = GroupOf("inode", n) THEN 1 ELSE 0)

LEMMA MakeDotsFacts ==
  ASSUME NEW V, Base(V), V.ok = TRUE, NEW d \in Inodes, V.node[d].mode = "dir",
         NEW N, NEW n, Born(V, N, n, "dir"), NEW X, X = MakeDots(Allocate(N, "block"), d, n)
  PROVE  VolumeOK(X) /\ (X.ok => Opens(V, X, d, n))
<1> DEFINE A == Allocate(N, "block")
           g == GroupOf("inode", n)
           N0 == N.node[n]
           b == A.ret
           N1 == FirstNode(N0, b)
           D == [A.data EXCEPT ![b] = DotRecords(n, d)]
<1>1. /\ Core(N) /\ N.ok = TRUE /\ n \in Inodes /\ n >= FIRST_INODE /\ V.node[n].mode = "none" /\ n # d
      /\ N0 = NewNode("dir") /\ N.used["inode"] = V.used["inode"] \cup {n} /\ Full(N, n) = {}
      /\ \A h \in Groups : N.gd[h]["dirs"] = V.gd[h]["dirs"]
  BY DEF Born
<1>2. \A m \in Inodes : m # n => Lives(V, N, m) /\ N.node[m] = V.node[m]
  BY BornLives
<1>3. VolumeOK(A) /\ (A.ok => GotBlock(N, A))
  BY <1>1, AllocateBlock
<1>4. CASE ~A.ok \/ A.node[d].links = MAX_LINKS
  <2>1. X = Failed(A)
    BY <1>4 DEF MakeDots
  <2> QED BY <1>3, <2>1, FailedOK
<1>5. CASE ~(~A.ok \/ A.node[d].links = MAX_LINKS)
  <2>1. GotBlock(N, A) /\ A.ok = TRUE /\ VolumeOK(A)
    BY <1>3, <1>5 DEF VolumeOK
  <2>2. /\ A.node = N.node /\ b \in Blocks /\ b \in 0 .. BLOCKS - 1 /\ b # 0
        /\ A.data = [c \in Blocks |-> A.data[c]]
        /\ \A c \in Blocks : c # b => A.data[c] = N.data[c]
    <3>1. A.node = N.node /\ b \in Blocks /\ A.data = [N.data EXCEPT ![b] = ZeroBlock]
      BY <2>1 DEF GotBlock
    <3>2. b \in 0 .. BLOCKS - 1 /\ b # 0
      BY <3>1 DEF Blocks
    <3>3. N.data = [c \in Blocks |-> N.data[c]]
      BY <1>1, CoreType
    <3>4. A.data = [c \in Blocks |-> A.data[c]]
      BY <3>1, <3>3
    <3>5. \A c \in Blocks : c # b => A.data[c] = N.data[c]
      BY <3>1, <3>3
    <3> QED BY <3>1, <3>2, <3>4, <3>5
  <2>3. PICK P : Opened(A, P, d, n) /\ Relinked(P, X, d, g, P.node[d].links + 1, P.gd[g]["dirs"] + 1)
    BY <1>1, <1>5, <2>1, <2>2, MakeDotsIs
  <2> HIDE DEF A
  <2>4. P = With(A, n, N1, D)
    BY <2>2, <2>3 DEF Opened
  <2>5. /\ N0 \in NodeSet /\ N0.mode = "dir" /\ N0.size = 0 /\ N0.links = 2 /\ N0.blocks = 0 /\ N0.indirect = 0
        /\ \A i \in 0 .. DIRECT - 1 : N0.direct[i] = 0
    BY <1>1, NewNodeIs
  <2> HIDE DEF N0, b
  <2>6. N0.direct \in [0 .. DIRECT - 1 -> 0 .. BLOCKS - 1] /\ DIRECT \in Nat \ {0} /\ WORDS \in Nat \ {0}
    BY <2>5, TreeAssumption DEF NodeSet
  <2>7. /\ N1 \in NodeSet /\ N1.mode = "dir" /\ N1.links = 2 /\ N1.blocks = 1
        /\ N1.direct = [N0.direct EXCEPT ![0] = b] /\ N1.indirect = 0 /\ N1.size = 1
    <3>1. PICK F \in [0 .. DIRECT - 1 -> 0 .. BLOCKS - 1] : F = [N0.direct EXCEPT ![0] = b]
      BY <2>2, <2>6
    <3>4. PICK s \in Nat : s = 1
      OBVIOUS
    <3>5. PICK u \in Int : u = 1
      OBVIOUS
    <3>2. N1 = [N0 EXCEPT !.size = s, !.blocks = u, !.direct = F]
      BY <3>1, <3>4, <3>5 DEF FirstNode
    <3> HIDE DEF N1
    <3>6. N0 \in NodeSet
      BY <2>5
    <3>7. /\ N1 \in NodeSet /\ N1.mode = N0.mode /\ N1.links = N0.links /\ N1.blocks = u
          /\ N1.direct = F /\ N1.indirect = N0.indirect /\ N1.size = s
      BY <3>2, <3>6 DEF NodeSet
    <3>3. /\ N1 \in NodeSet /\ N1.mode = N0.mode /\ N1.links = N0.links /\ N1.blocks = 1
          /\ N1.direct = F /\ N1.indirect = N0.indirect /\ N1.size = 1
      BY <3>4, <3>5, <3>7
    <3> QED BY <2>5, <3>1, <3>3
  <2>8. \A j \in 0 .. DIRECT - 1 : N1.direct[j] = IF j = 0 THEN b ELSE N0.direct[j]
    BY <2>6, <2>7
  <2> HIDE DEF N1
  <2>9. D = [c \in Blocks |-> D[c]] /\ D[b] = DotRecords(n, d) /\ \A c \in Blocks : c # b => D[c] = N.data[c]
    BY <2>2
  <2> HIDE DEF D
  <2>10. 0 \in Cells /\ 0 \in Slots /\ 0 # DIRECT + WORDS /\ 0 < DIRECT /\ 0 \in 0 .. DIRECT - 1
    BY <2>6 DEF Cells, Slots
  <2>11. \A j \in Cells : Ptr(N, n, j) = 0
    BY <1>1 DEF Full
  <2>12. Attached(N, A, n, 0, N1, D)
    BY <2>5, <2>7, <2>8, <2>9, <2>10 DEF Attached, N0, b
  <2>13. /\ Core(P) /\ Elsewhere(N, P, n) /\ P.ok = N.ok /\ P.node[n] = N1 /\ P.data = D
         /\ \A j \in Cells : Ptr(P, n, j) = IF j = 0 THEN b ELSE Ptr(N, n, j)
    BY <1>1, <2>1, <2>4, <2>10, <2>11, <2>12, AttachCore DEF b
  <2>14. g \in Groups
    BY <1>1, InodeGroup
  <2>15. /\ P.node[d] = N.node[d] /\ P.used["inode"] = N.used["inode"]
         /\ \A h \in Groups : P.gd[h]["dirs"] = V.gd[h]["dirs"]
         /\ \A m \in Inodes : m # n => P.node[m] = N.node[m]
    BY <1>1, <2>13 DEF Elsewhere
  <2>16. P.node[d].links + 1 \in Int /\ P.gd[g]["dirs"] + 1 \in Int
    <3>1. VolumeOK(P)
      BY <2>13 DEF Core
    <3>2. P.node[d] \in NodeSet /\ P.gd[g] \in [Kinds \cup {"dirs"} -> Int]
      BY <2>14, <3>1 DEF VolumeOK
    <3>3. P.node[d].links \in Int /\ P.gd[g]["dirs"] \in Int
      BY <3>2 DEF NodeSet
    <3> QED BY <3>3
  <2>17. Linked(P, X, d, g, P.node[d].links + 1, P.gd[g]["dirs"] + 1)
    BY <2>3, <2>13, <2>14, <2>16, RelinkFacts
  <2>18. /\ Core(X) /\ X.ok = P.ok /\ X.used = P.used /\ X.data = D
         /\ \A m \in Inodes : Alike(P, X, m) /\ (m # d => X.node[m] = P.node[m])
         /\ X.node[d].links = V.node[d].links + 1
         /\ X.gd[g]["dirs"] = V.gd[g]["dirs"] + 1
         /\ \A h \in Groups : h # g => X.gd[h]["dirs"] = V.gd[h]["dirs"]
    <3>1. P.node[d].links = V.node[d].links /\ P.gd[g]["dirs"] = V.gd[g]["dirs"]
      BY <1>1, <1>2, <2>14, <2>15
    <3> QED BY <2>13, <2>15, <2>17, <3>1 DEF Linked
  <2>19. X.node[n] = N1
    BY <1>1, <2>13, <2>18
  <2>20. Full(X, n) = {0}
    <3>1. \A j \in Cells : Ptr(X, n, j) = IF j = 0 THEN b ELSE 0
      BY <1>1, <2>11, <2>13, <2>18, AlikePtr
    <3> QED BY <2>2, <2>10, <3>1 DEF Full, b
  <2>21. NodeShape(X, n)
    <3>1. n \in X.used["inode"]
      BY <1>1, <2>15, <2>18
    <3>2. 0 .. N1.size - 1 = {0} /\ N1.size \in 1 .. DIRECT
      BY <2>6, <2>7
    <3>3. /\ X.node[n].mode = "dir" /\ X.node[n].links >= 1 /\ X.node[n].size \in 1 .. DIRECT
          /\ Full(X, n) = 0 .. X.node[n].size - 1
      <4>1. N1.mode = "dir" /\ N1.links >= 1 /\ N1.size \in 1 .. DIRECT
        BY <2>7, <3>2
      <4>2. Full(X, n) = 0 .. N1.size - 1
        BY <2>20, <3>2, Zenon
      <4> QED BY <2>19, <4>1, <4>2, Zenon
    <3> QED BY <3>1, <3>3 DEF NodeShape
  <2>22. Dotted(DirOf(X, n), n, d)
    <3> DEFINE B == DirOf(X, n)
    <3>1. DOMAIN B = {0} /\ B[0] = X.data[N1.direct[0]]
      <4>1. 0 .. N1.size - 1 = {0}
        BY <2>7
      <4>2. DOMAIN B = {0} /\ B[0] = RecordsOf(X, n, 0)
        BY <2>19, <4>1 DEF DirOf
      <4> QED BY <2>19, <4>2 DEF RecordsOf
    <3>2. N1.direct[0] = b
      BY <2>8, <2>10
    <3>3. B[0] = DotRecords(n, d)
      BY <2>9, <2>18, <3>1, <3>2
    <3> HIDE DEF B
    <3>4. n # 0 /\ d # 0
      BY <1>1 DEF Inodes
    <3> QED BY <1>1, <3>1, <3>3, <3>4, DotsData DEF B
  <2>23. \A m \in Inodes : m # n => Lives(V, X, m) /\ (m # d => X.node[m].links = V.node[m].links)
    <3> SUFFICES ASSUME NEW m \in Inodes, m # n
                 PROVE  Lives(V, X, m) /\ (m # d => X.node[m].links = V.node[m].links)
      OBVIOUS
    <3>1. Alike(V, N, m) /\ N.node[m] = V.node[m] /\ NodeShape(V, m)
      BY <1>2 DEF Lives, Base
    <3>2. Alike(N, P, m)
      BY <2>13, <2>15 DEF Alike, Elsewhere
    <3>3. Alike(V, X, m)
      <4>1. Alike(V, P, m)
        BY <3>1, <3>2, AlikeThen
      <4> QED BY <2>18, <4>1, AlikeThen
    <3>4. m # d => X.node[m].links = V.node[m].links
      BY <2>15, <2>18, <3>1
    <3>5. V.node[m].mode # "none" => m \in X.used["inode"] /\ V.node[m].links >= 1
      BY <1>1, <2>15, <2>18, <3>1 DEF NodeShape
    <3>6. V.node[d].mode # "none" => V.node[d].links + 1 >= 1
      <4>1. NodeShape(V, d) /\ V.node[d] \in NodeSet
        BY CoreType DEF Base
      <4>2. V.node[d].links \in Int /\ (V.node[d].mode # "none" => V.node[d].links >= 1)
        BY <4>1 DEF NodeShape, NodeSet
      <4> QED BY <4>2
    <3> QED BY <2>18, <3>3, <3>4, <3>5, <3>6 DEF Lives
  <2>24. Base(X)
    BY <2>18, <2>21, <2>22, <2>23, LivesBase DEF Dotted
  <2>25. \A h \in Groups : X.gd[h]["dirs"] = V.gd[h]["dirs"] + (IF h = g THEN 1 ELSE 0)
    <3>1. \A h \in Groups : V.gd[h]["dirs"] \in Int
      <4>1. VolumeOK(V)
        BY DEF Base, Core
      <4> QED BY <4>1 DEF VolumeOK
    <3> QED BY <2>18, <3>1
  <2>26. X.ok = TRUE /\ VolumeOK(X) /\ X.used["inode"] = V.used["inode"] \cup {n}
    BY <1>1, <2>13, <2>15, <2>18 DEF Core
  <2> QED BY <2>7, <2>18, <2>19, <2>22, <2>23, <2>24, <2>25, <2>26 DEF Opens
<1> QED BY <1>4, <1>5

MadeDir(V, W, d, a, n) ==
  /\ Sound(W) /\ n \in Inodes /\ V.node[n].mode = "none" /\ Others(V, W, n) /\ W.node[n].mode = "dir"
  /\ Entries(W) = Entries(V) \cup {<<d, a, n>>, <<n, ".", n>>, <<n, "..", d>>}
  /\ \A m : <<d, a, m>> \notin Entries(V)

LEMMA DirsFinite == ASSUME NEW V, NEW g PROVE IsFiniteSet(DirsIn(V, g)) /\ Cardinality(DirsIn(V, g)) \in Nat
<1>1. DirsIn(V, g) \in SUBSET Inodes
  BY DEF DirsIn
<1>2. IsFiniteSet(DirsIn(V, g))
  BY <1>1, TriplesFinite, FS_Subset
<1> QED BY <1>2, FS_CardinalityType

LEMMA PopulateDir ==
  ASSUME NEW V, Sound(V), V.ok = TRUE, NEW d \in Inodes, V.node[d].mode = "dir", NEW a \in Names,
         NEW n \in Inodes, n >= FIRST_INODE, V.node[n].mode = "none",
         NEW X, Opens(V, X, d, n), NEW W, W = Insert(X, d, a, n)
  PROVE  VolumeOK(W) /\ (W.ok => MadeDir(V, W, d, a, n))
<1>1. Base(V) /\ DirsCounted(V) /\ UsedOK(V) /\ TreeOK(Modes(V), LinksOf(V), Entries(V))
  BY DEF Sound
<1>2. /\ Base(X) /\ X.ok = TRUE /\ X.used["inode"] = V.used["inode"] \cup {n} /\ n # d
      /\ X.node[n].mode = "dir" /\ X.node[n].links = 2 /\ X.node[d].links = V.node[d].links + 1
      /\ \A b, m : Has(DirOf(X, n), b, m) <=> (b = "." /\ m = n) \/ (b = ".." /\ m = d)
      /\ \A h \in Groups : X.gd[h]["dirs"] = V.gd[h]["dirs"] + (IF h = GroupOf("inode", n) THEN 1 ELSE 0)
  BY DEF Opens, Dotted
<1>3. \A m \in Inodes : m # n => Alike(V, X, m) /\ X.node[m].mode = V.node[m].mode
  BY DEF Opens, Lives, Alike
<1>4. X.node[d].mode = "dir" /\ a \in AllNames /\ a \notin Dots
  BY <1>2, <1>3, TreeAssumption DEF AllNames
<1>5. VolumeOK(W) /\ (W.ok => Listed(X, W, d, a, n))
  BY <1>2, <1>4, InsertFacts
<1>6. ASSUME W.ok PROVE MadeDir(V, W, d, a, n)
  <2>1. Listed(X, W, d, a, n) /\ Base(W) /\ Elsewhere(X, W, d)
    BY <1>5, <1>6 DEF Listed
  <2>2. Gains(Entries(X), Entries(W), d, a, n) /\ \A m : <<d, a, m>> \notin Entries(X)
    BY <1>2, <1>4, <2>1, ListedEntries
  <2>3. ASSUME NEW x, NEW b, NEW m
        PROVE  Lists(X, x, b, m) <=> Lists(V, x, b, m) \/ (x = n /\ b = "." /\ m = n) \/ (x = n /\ b = ".." /\ m = d)
    <3>1. CASE x = n
      BY <1>2, <3>1 DEF Lists
    <3>2. CASE x # n
      <4>1. x \in Inodes => Alike(V, X, x)
        BY <1>3, <3>2
      <4> QED BY <1>1, <3>2, <4>1, AlikeLists
    <3> QED BY <3>1, <3>2
  <2>4. \A x, b, m : /\ <<x, b, m>> \in Entries(X) <=> Lists(X, x, b, m)
                     /\ <<x, b, m>> \in Entries(V) <=> Lists(V, x, b, m)
    BY <1>1, <1>2, EntryIs, Zenon
  <2>5. \A m : <<d, a, m>> \notin Entries(V)
    BY <2>2, <2>3, <2>4, Zenon
  <2>6. \A x, b, m : <<x, b, m>> \in Entries(W) <=>
          \/ <<x, b, m>> \in Entries(V) \/ (x = d /\ b = a /\ m = n)
          \/ (x = n /\ b = "." /\ m = n) \/ (x = n /\ b = ".." /\ m = d)
    BY <2>2, <2>3, <2>4, Zenon DEF Gains
  <2>7. Entries(W) = Entries(V) \cup {<<d, a, n>>, <<n, ".", n>>, <<n, "..", d>>}
    <3> DEFINE t == <<d, a, n>>
               u == <<n, ".", n>>
               w == <<n, "..", d>>
    <3>1. ASSUME NEW e \in Triples PROVE e \in Entries(W) <=> e \in Entries(V) \/ e = t \/ e = u \/ e = w
      <4>1. /\ e = <<e[1], e[2], e[3]>> /\ (e = t <=> e[1] = d /\ e[2] = a /\ e[3] = n)
            /\ (e = u <=> e[1] = n /\ e[2] = "." /\ e[3] = n) /\ (e = w <=> e[1] = n /\ e[2] = ".." /\ e[3] = d)
        BY TripleIs, TripleEq
      <4>2. <<e[1], e[2], e[3]>> \in Entries(W) <=>
              \/ <<e[1], e[2], e[3]>> \in Entries(V) \/ (e[1] = d /\ e[2] = a /\ e[3] = n)
              \/ (e[1] = n /\ e[2] = "." /\ e[3] = n) \/ (e[1] = n /\ e[2] = ".." /\ e[3] = d)
        BY <2>6, Zenon
      <4> HIDE DEF t, u, w
      <4> QED BY <4>1, <4>2, Zenon
    <3>2. t \in Entries(W) /\ u \in Entries(W) /\ w \in Entries(W)
      BY <2>6, Zenon
    <3>3. Entries(W) \in SUBSET Triples /\ Entries(V) \in SUBSET Triples
      BY EntriesAre
    <3> HIDE DEF t, u, w
    <3>4. \A e : e \in Entries(W) <=> e \in Entries(V) \/ e = t \/ e = u \/ e = w
      BY <3>1, <3>2, <3>3, Zenon
    <3>5. Entries(W) = Entries(V) \cup {t, u, w}
      BY <3>4, Zenon
    <3> QED BY <3>5, Zenon DEF t, u, w
  <2>8. Modes(W) = Modes(X) /\ LinksOf(W) = LinksOf(X)
    BY <2>1, ElsewhereTables
  <2>9. /\ Modes(W)[n] = "dir" /\ LinksOf(W)[n] = 2 /\ LinksOf(W)[d] = LinksOf(V)[d] + 1
        /\ \A x \in Inodes : x # n => Modes(W)[x] = Modes(V)[x] /\ (x # d => LinksOf(W)[x] = LinksOf(V)[x])
        /\ Modes(V)[n] = "none" /\ Modes(V)[d] = "dir"
    BY <1>2, <1>3, <2>8, TablesAre DEF Opens
  <2>10. TreeOK(Modes(W), LinksOf(W), Entries(W))
    <3>1. GainsDir(Modes(V), LinksOf(V), Entries(V), Modes(W), LinksOf(W), Entries(W), d, a, n)
      BY <1>4, <2>5, <2>7, <2>9, Zenon DEF GainsDir
    <3> QED BY <1>1, <3>1, GainDir
  <2>11. \A x \in Inodes : (x # n => W.node[x].mode = V.node[x].mode) /\ (x = n => W.node[x].mode = "dir")
    BY <2>9, TablesAre
  <2>12. DirsCounted(W)
    <3> DEFINE g0 == GroupOf("inode", n)
    <3> SUFFICES ASSUME NEW g \in Groups PROVE W.gd[g]["dirs"] = Cardinality(DirsIn(W, g))
      BY DEF DirsCounted
    <3>1. W.gd[g]["dirs"] = X.gd[g]["dirs"] /\ V.gd[g]["dirs"] = Cardinality(DirsIn(V, g))
      BY <1>1, <2>1 DEF Elsewhere, DirsCounted
    <3>2. IsFiniteSet(DirsIn(V, g)) /\ Cardinality(DirsIn(V, g)) \in Nat
      BY DirsFinite
    <3>3. CASE g = g0
      <4>1. DirsIn(W, g) = DirsIn(V, g) \cup {n} /\ n \notin DirsIn(V, g)
        BY <2>11, <3>3 DEF DirsIn
      <4>2. Cardinality(DirsIn(W, g)) = Cardinality(DirsIn(V, g)) + 1
        BY <3>2, <4>1, FS_AddElement
      <4> QED BY <1>2, <3>1, <3>3, <4>2
    <3>4. CASE g # g0
      <4>1. DirsIn(W, g) = DirsIn(V, g)
        BY <2>11, <3>4 DEF DirsIn
      <4> QED BY <1>2, <3>1, <3>2, <3>4, <4>1
    <3> QED BY <3>3, <3>4
  <2>13. UsedOK(W)
    <3>1. W.used["inode"] = V.used["inode"] \cup {n} /\ V.used["inode"] \subseteq Inodes
      BY <1>1, <1>2, <2>1 DEF Elsewhere, Base, Core, InodesOK
    <3> QED BY <1>1, <2>11, <3>1 DEF UsedOK
  <2>14. Sound(W)
    BY <2>1, <2>10, <2>12, <2>13 DEF Sound
  <2>15. Others(V, W, n)
    <3>1. ASSUME NEW m \in Inodes, m # n, V.node[m].mode = "file" PROVE Alike(V, W, m)
      <4>1. Alike(V, X, m) /\ m # d
        BY <1>3, <3>1
      <4>2. Alike(X, W, m)
        BY <1>2, <2>1, <4>1, ElsewhereLives DEF Lives
      <4> QED BY <4>1, <4>2, AlikeThen
    <3> QED BY <2>11, <3>1 DEF Others
  <2> QED BY <2>5, <2>7, <2>11, <2>14, <2>15 DEF MadeDir
<1> QED BY <1>5, <1>6

(* create *)
CreatedAs(V, W, d, a, type) ==
  \E n : IF type = "dir" THEN MadeDir(V, W, d, a, n) ELSE Made(V, W, d, a, n)

LEMMA CreateFacts ==
  ASSUME NEW V, Sound(V), V.ok = TRUE, NEW d \in Inodes, V.node[d].mode = "dir", NEW a \in Names,
         NEW type \in {"file", "dir"}, NEW W, W = Create(V, d, a, type)
  PROVE  VolumeOK(W) /\ (W.ok => CreatedAs(V, W, d, a, type))
<1> DEFINE A == Allocate(V, "inode")
           n == A.ret
           N == [A EXCEPT !.node[n].mode = type, !.node[n].links = IF type = "dir" THEN 2 ELSE 1]
<1>1. Base(V) /\ Core(V) /\ VolumeOK(V)
  BY DEF Sound, Base, Core
<1>2. VolumeOK(A) /\ (A.ok => Fresh(V, A))
  BY <1>1, AllocateInode
<1>3. CASE Lookup(V, d, a) # -1
  BY <1>1, <1>3, FailedOK DEF Create
<1>4. CASE Lookup(V, d, a) = -1 /\ ~A.ok
  <2>1. W = A
    BY <1>4 DEF Create, CreateWith, Populate
  <2> QED BY <1>2, <1>4, <2>1
<1>5. CASE Lookup(V, d, a) = -1 /\ A.ok
  <2>1. W = Insert(IF type = "dir" THEN MakeDots(Allocate(N, "block"), d, n) ELSE N, d, a, n)
    BY <1>5, Zenon DEF Create, CreateWith, Populate
  <2>2. Fresh(V, A) /\ n \in Inodes /\ A.node[n] = ZeroNode
    <3>1. Fresh(V, A)
      BY <1>2, <1>5
    <3> HIDE DEF A
    <3>2. A.ret \in Inodes /\ A.node = [V.node EXCEPT ![A.ret] = ZeroNode]
      BY <3>1 DEF Fresh
    <3> QED BY <1>1, <3>1, <3>2 DEF VolumeOK
  <2>3. Typed(A, N, n, type)
    <3> HIDE DEF A
    <3> QED BY <1>2, <2>2, TypedIs, Zenon
  <2> HIDE DEF N
  <2>4. Born(V, N, n, type)
    BY <1>1, <2>2, <2>3, NewInode
  <2> HIDE DEF A
  <2>5. CASE type = "file"
    <3>1. W = Insert(N, d, a, n)
      BY <2>1, <2>5
    <3>2. VolumeOK(W) /\ (W.ok => Made(V, W, d, a, n))
      BY <2>4, <2>5, <3>1, PopulateFile
    <3> QED BY <2>5, <3>2 DEF CreatedAs
  <2>6. CASE type = "dir"
    <3> DEFINE X == MakeDots(Allocate(N, "block"), d, n)
    <3>1. W = Insert(X, d, a, n)
      BY <2>1, <2>6
    <3>2. VolumeOK(X) /\ (X.ok => Opens(V, X, d, n))
      BY <1>1, <2>4, <2>6, MakeDotsFacts
    <3> HIDE DEF X
    <3>3. CASE ~X.ok
      <4>1. W = X
        BY <3>1, <3>3 DEF Insert
      <4> QED BY <3>2, <3>3, <4>1
    <3>4. CASE X.ok
      <4>1. n \in Inodes /\ n >= FIRST_INODE /\ V.node[n].mode = "none"
        BY <2>4 DEF Born
      <4>2. VolumeOK(W) /\ (W.ok => MadeDir(V, W, d, a, n))
        BY <3>1, <3>2, <3>4, <4>1, PopulateDir
      <4> QED BY <2>6, <4>2 DEF CreatedAs
    <3> QED BY <3>3, <3>4
  <2> QED BY <2>5, <2>6
<1> QED BY <1>3, <1>4, <1>5

-----------------------------------------------------------------------------
(* What a file holds *)

LEMMA UnitIs ==
  ASSUME NEW k \in Nat, k >= 1, k <= MAX_FILE
  PROVE  LET j == (k - 1) \div WORDS
             w == (k - 1) % WORDS
         IN  j \in Slots /\ w \in 0 .. WORDS - 1 /\ j * WORDS + w = k - 1
<1> DEFINE j == (k - 1) \div WORDS
           w == (k - 1) % WORDS
           m == DIRECT + WORDS
<1>1. k - 1 \in Nat /\ WORDS \in Nat \ {0} /\ m \in Nat /\ MAX_FILE = m * WORDS
  BY TreeAssumption DEF MAX_FILE
<1>2. j \in Nat /\ w \in 0 .. WORDS - 1 /\ k - 1 = j * WORDS + w
  BY <1>1, DivFact
<1>3. Slots = 0 .. m - 1
  BY TreeAssumption DEF Slots
<1> HIDE DEF j, w, m
<1>4. j * WORDS \in Nat /\ m * WORDS \in Nat /\ (m <= j => m * WORDS <= j * WORDS)
  BY <1>1, <1>2, Multiples
<1>5. j < m
  <2>1. k - 1 < m * WORDS
    BY <1>1, <1>4
  <2>2. j * WORDS <= k - 1
    BY <1>2, <1>4
  <2> QED BY <1>1, <1>2, <1>4, <2>1, <2>2
<1>6. j \in Slots
  BY <1>1, <1>2, <1>3, <1>5
<1> QED BY <1>2, <1>6 DEF j, w

LEMMA ContentsAre ==
  ASSUME NEW V, NEW n, V.node[n].size \in Nat, V.node[n].size <= MAX_FILE
  PROVE  /\ DOMAIN Contents(V, n) = 1 .. V.node[n].size
         /\ \A k \in 1 .. V.node[n].size :
              Contents(V, n)[k] = Word(V, n, (k - 1) \div WORDS, (k - 1) % WORDS)
<1> DEFINE z == V.node[n].size
<1>1. DOMAIN Contents(V, n) = 1 .. z
  BY DEF Contents
<1>2. ASSUME NEW k \in 1 .. z PROVE Contents(V, n)[k] = Word(V, n, (k - 1) \div WORDS, (k - 1) % WORDS)
  <2> DEFINE j == (k - 1) \div WORDS
             w == (k - 1) % WORDS
  <2>1. k \in Nat /\ k >= 1 /\ k <= MAX_FILE
    <3>1. MAX_FILE \in Nat
      <4>1. DIRECT + WORDS \in Nat /\ WORDS \in Nat
        BY TreeAssumption
      <4> QED BY <4>1, Multiples DEF MAX_FILE
    <3> HIDE DEF z
    <3>2. z \in Nat /\ z <= MAX_FILE
      BY DEF z
    <3> QED BY <3>1, <3>2
  <2>2. j \in Slots
    BY <2>1, UnitIs
  <2>3. Contents(V, n)[k] = IF FileBlock(V, n, j) = 0 THEN 0 ELSE V.data[FileBlock(V, n, j)][w]
    BY DEF Contents
  <2> HIDE DEF j, w
  <2>4. j # DIRECT + WORDS
    BY <2>2, TreeAssumption DEF Slots
  <2>5. Ptr(V, n, j) = FileBlock(V, n, j)
    BY <2>4 DEF Ptr
  <2>6. Contents(V, n)[k] = Word(V, n, j, w)
    BY <2>3, <2>5 DEF Word
  <2> QED BY <2>6 DEF j, w
<1> QED BY <1>1, <1>2

(* Contents that are equal unit by unit *)
LEMMA ContentsEqual ==
  ASSUME NEW V, NEW n, V.node[n].size \in Nat, V.node[n].size <= MAX_FILE, NEW S, NEW s \in Seq(S),
         Len(s) = V.node[n].size,
         \A j \in Slots, w \in 0 .. WORDS - 1 : j * WORDS + w < Len(s) => Word(V, n, j, w) = s[j * WORDS + w + 1]
  PROVE  Contents(V, n) = s
<1> DEFINE z == V.node[n].size
<1>1. /\ DOMAIN Contents(V, n) = 1 .. z
      /\ \A k \in 1 .. z : Contents(V, n)[k] = Word(V, n, (k - 1) \div WORDS, (k - 1) % WORDS)
  BY ContentsAre
<1>2. z \in Nat /\ z <= MAX_FILE /\ Len(s) = z
  OBVIOUS
<1> HIDE DEF z
<1>3. ASSUME NEW k \in 1 .. z PROVE Contents(V, n)[k] = s[k]
  <2> DEFINE j == (k - 1) \div WORDS
             w == (k - 1) % WORDS
  <2>1. k \in Nat /\ k >= 1 /\ k <= MAX_FILE
    <3>1. MAX_FILE \in Nat
      <4>1. DIRECT + WORDS \in Nat /\ WORDS \in Nat
        BY TreeAssumption
      <4> QED BY <4>1, Multiples DEF MAX_FILE
    <3> QED BY <1>2, <3>1
  <2>2. j \in Slots /\ w \in 0 .. WORDS - 1 /\ j * WORDS + w = k - 1
    BY <2>1, UnitIs
  <2>3. Contents(V, n)[k] = Word(V, n, j, w)
    BY <1>1
  <2> HIDE DEF j, w
  <2>4. k - 1 < Len(s) /\ (k - 1) + 1 = k
    BY <1>2
  <2> QED BY <2>2, <2>3, <2>4
<1>4. DOMAIN s = 1 .. z
  BY <1>2
<1>5. s = [k \in DOMAIN s |-> s[k]]
  OBVIOUS
<1>6. Contents(V, n) = [k \in 1 .. z |-> Contents(V, n)[k]]
  BY <1>1 DEF Contents, z
<1> QED BY <1>3, <1>4, <1>5, <1>6

LEMMA ContentsSeq ==
  ASSUME NEW V, NEW n, V.node[n].size \in Nat
  PROVE  \E S : Contents(V, n) \in Seq(S) /\ Len(Contents(V, n)) = V.node[n].size
<1> DEFINE s == Contents(V, n)
           z == V.node[n].size
           S == {s[k] : k \in 1 .. z}
<1>1. s = [k \in 1 .. z |-> s[k]]
  BY DEF Contents
<1> HIDE DEF s, z
<1>2. z \in Nat
  BY DEF z
<1>3. s \in [1 .. z -> S]
  BY <1>1
<1> HIDE DEF S
<1>4. s \in Seq(S) /\ Len(s) = z
  BY <1>2, <1>3
<1> QED BY <1>4 DEF s, z

LEMMA AlikeContents ==
  ASSUME NEW V, NEW W, NEW m \in Inodes, Alike(V, W, m), V.node[m].size \in Nat, V.node[m].size <= MAX_FILE
  PROVE  Contents(W, m) = Contents(V, m)
<1> DEFINE z == V.node[m].size
<1>1. W.node[m].size = z
  BY DEF Alike
<1>2. \A i \in Cells : Ptr(W, m, i) = Ptr(V, m, i)
  BY AlikePtr
<1>3. \A j \in Slots : j \in Cells
  BY TreeAssumption DEF Slots, Cells
<1>4. \A j \in Slots : \A w : Word(W, m, j, w) = Word(V, m, j, w)
  BY <1>2, <1>3 DEF Word, Alike
<1>5. PICK S : Contents(V, m) \in Seq(S) /\ Len(Contents(V, m)) = z
  BY ContentsSeq
<1>6. PICK s \in Seq(S) : s = Contents(V, m)
  BY <1>5
<1>7. /\ \A k \in 1 .. z : s[k] = Word(V, m, (k - 1) \div WORDS, (k - 1) % WORDS)
      /\ \A k \in 1 .. z : Contents(W, m)[k] = Word(W, m, (k - 1) \div WORDS, (k - 1) % WORDS)
      /\ DOMAIN Contents(W, m) = 1 .. z /\ DOMAIN s = 1 .. z
  BY <1>1, <1>6, ContentsAre
<1>8. \A k \in 1 .. z : (k - 1) \div WORDS \in Slots
  <2> SUFFICES ASSUME NEW k \in 1 .. z PROVE (k - 1) \div WORDS \in Slots
    OBVIOUS
  <2>1. k \in Nat /\ k >= 1 /\ k <= MAX_FILE
    <3>1. MAX_FILE \in Nat
      <4>1. DIRECT + WORDS \in Nat /\ WORDS \in Nat
        BY TreeAssumption
      <4> QED BY <4>1, Multiples DEF MAX_FILE
    <3>2. z \in Nat /\ z <= MAX_FILE
      OBVIOUS
    <3> HIDE DEF z
    <3> QED BY <3>1, <3>2
  <2> QED BY <2>1, UnitIs
<1>9. \A k \in 1 .. z : Contents(W, m)[k] = s[k]
  BY <1>4, <1>7, <1>8
<1>10. Contents(W, m) = [k \in 1 .. z |-> Contents(W, m)[k]] /\ s = [k \in 1 .. z |-> s[k]]
  <2>1. Contents(W, m) = [k \in 1 .. z |-> Contents(W, m)[k]]
    BY <1>1 DEF Contents
  <2>2. Contents(V, m) = [k \in 1 .. z |-> Contents(V, m)[k]]
    BY DEF Contents
  <2> QED BY <1>6, <2>1, <2>2
<1> HIDE DEF z
<1> QED BY <1>6, <1>9, <1>10

-----------------------------------------------------------------------------
(* write_file, engine_append and engine_cp *)

(* File n now holds text, and nothing else has changed. *)
Filled(V, W, n, text) ==
  /\ Sound(W) /\ n \in Inodes /\ Others(V, W, n) /\ V.node[n].mode = "file" /\ W.node[n].mode = "file"
  /\ W.node[n].links = V.node[n].links /\ Entries(W) = Entries(V) /\ Contents(W, n) = text

LEMMA FillFacts ==
  ASSUME NEW V, Sound(V), NEW W, NEW n \in Inodes, V.node[n].mode = "file", Core(W), Elsewhere(V, W, n),
         W.node[n].size <= MAX_FILE, NEW text, Contents(W, n) = text
  PROVE  Filled(V, W, n, text)
<1>1. Base(V) /\ NodeShape(V, n)
  BY DEF Sound, Base
<1>2. W.node[n].mode = "file" /\ W.node[n].links = V.node[n].links /\ W.used["inode"] = V.used["inode"]
  BY DEF Elsewhere
<1>3. NodeShape(W, n)
  BY <1>1, <1>2 DEF NodeShape
<1>4. Base(W)
  BY <1>1, <1>2, <1>3, ElsewhereBase
<1>5. Sound(W) /\ Entries(W) = Entries(V)
  BY <1>4, FileSound
<1>6. Others(V, W, n)
  BY <1>1, ElsewhereLives DEF Others, Lives, Alike
<1> QED BY <1>2, <1>5, <1>6 DEF Filled

LEMMA RewriteSound ==
  ASSUME NEW V, Sound(V), NEW n \in Inodes, NEW S, NEW text \in Seq(S), Len(text) <= MAX_FILE,
         NEW W, W = Rewrite(V, n, text)
  PROVE  VolumeOK(W) /\ (W.ok => Filled(V, W, n, text))
<1>1. Core(V) /\ Base(V) /\ NodeShape(V, n)
  BY DEF Sound, Base
<1>2. VolumeOK(W) /\ (W.ok => Supported(V, n, "file") /\ Holds(V, W, n, text))
  BY <1>1, RewriteFacts
<1>3. ASSUME W.ok PROVE Filled(V, W, n, text)
  <2>1. Supported(V, n, "file") /\ Holds(V, W, n, text)
    BY <1>2, <1>3
  <2>2. V.node[n].mode = "file"
    BY <2>1 DEF Supported
  <2>3. /\ Core(W) /\ Elsewhere(V, W, n) /\ W.node[n].size = Len(text) /\ Len(text) \in Nat
        /\ \A j \in Slots, w \in 0 .. WORDS - 1 :
             j * WORDS + w < Len(text) => Word(W, n, j, w) = text[j * WORDS + w + 1]
    BY <2>1 DEF Holds
  <2>4. Contents(W, n) = text
    BY <2>3, ContentsEqual
  <2> QED BY <2>2, <2>3, <2>4, FillFacts
<1> QED BY <1>2, <1>3

(* The file d/a is new and holds text. *)
New(V, W, d, a, n, text) ==
  /\ Sound(W) /\ n \in Inodes /\ V.node[n].mode = "none" /\ Others(V, W, n)
  /\ W.node[n].mode = "file" /\ W.node[n].links = 1 /\ Contents(W, n) = text
  /\ Entries(W) = Entries(V) \cup {<<d, a, n>>} /\ \A m : <<d, a, m>> \notin Entries(V)

LEMMA OthersThen ==
  ASSUME NEW V, NEW C, NEW W, NEW n, Others(V, C, n), Others(C, W, n)
  PROVE  Others(V, W, n)
<1> SUFFICES ASSUME NEW m \in Inodes, m # n
             PROVE  W.node[m].mode = V.node[m].mode /\ (V.node[m].mode = "file" => Alike(V, W, m))
  BY DEF Others
<1>1. C.node[m].mode = V.node[m].mode /\ W.node[m].mode = C.node[m].mode
  BY DEF Others
<1>2. V.node[m].mode = "file" => Alike(V, C, m) /\ Alike(C, W, m)
  BY <1>1 DEF Others
<1> QED BY <1>1, <1>2, AlikeThen

Rewrote(V, W, d, a, text) ==
  \E n : \/ <<d, a, n>> \in Entries(V) /\ Filled(V, W, n, text)
         \/ New(V, W, d, a, n, text)

LEMMA WriteFileFacts ==
  ASSUME NEW V, Sound(V), V.ok = TRUE, NEW d \in Inodes, V.node[d].mode = "dir", NEW a \in Names,
         NEW S, NEW text \in Seq(S), NEW W, W = WriteFile(V, d, a, text)
  PROVE  VolumeOK(W) /\ (W.ok => Rewrote(V, W, d, a, text))
<1> DEFINE n0 == Lookup(V, d, a)
           C == Create(V, d, a, "file")
<1>1. Base(V) /\ VolumeOK(V)
  BY DEF Sound, Base, Core
<1>2. \/ n0 = -1 /\ \A m : <<d, a, m>> \notin Entries(V)
      \/ n0 \in Inodes /\ <<d, a, n0>> \in Entries(V)
  BY <1>1, LookupEntry
<1> HIDE DEF n0
<1>3. CASE Len(text) > MAX_FILE
  BY <1>1, <1>3, FailedOK DEF WriteFile
<1>4. CASE ~(Len(text) > MAX_FILE) /\ n0 \in Inodes
  <2>1. n0 # -1 /\ Len(text) <= MAX_FILE
    BY <1>4, MaxFile DEF Inodes
  <2>2. W = Rewrite(V, n0, text)
    BY <1>4, <2>1 DEF WriteFile, WriteNamed, n0
  <2>3. VolumeOK(W) /\ (W.ok => Filled(V, W, n0, text))
    BY <1>4, <2>1, <2>2, RewriteSound
  <2>4. <<d, a, n0>> \in Entries(V)
    BY <1>2, <2>1
  <2> QED BY <2>3, <2>4 DEF Rewrote
<1>5. CASE ~(Len(text) > MAX_FILE) /\ n0 = -1
  <2>1. Len(text) <= MAX_FILE
    BY <1>5, MaxFile
  <2>2. W = Rewrite(C, Lookup(C, d, a), text)
    BY <1>5 DEF WriteFile, WriteNamed, n0
  <2>3. VolumeOK(C) /\ (C.ok => CreatedAs(V, C, d, a, "file"))
    BY CreateFacts
  <2> HIDE DEF C
  <2>4. CASE ~C.ok
    <3>1. W = Failed(C)
      BY <2>2, <2>4 DEF Rewrite
    <3> QED BY <2>3, <3>1, FailedOK
  <2>5. CASE C.ok
    <3>1. PICK n : Made(V, C, d, a, n)
      BY <2>3, <2>5 DEF CreatedAs
    <3>2. /\ Sound(C) /\ n \in Inodes /\ V.node[n].mode = "none" /\ Others(V, C, n)
          /\ C.node[n].mode = "file" /\ C.node[n].links = 1
          /\ Entries(C) = Entries(V) \cup {<<d, a, n>>} /\ \A m : <<d, a, m>> \notin Entries(V)
      BY <3>1 DEF Made
    <3>3. C.node[d].mode = "dir"
      BY <3>2 DEF Others
    <3>4. Lookup(C, d, a) = n
      BY <3>2, <3>3, LookupThe
    <3>5. VolumeOK(W) /\ (W.ok => Filled(C, W, n, text))
      BY <2>1, <2>2, <3>2, <3>4, RewriteSound
    <3>6. ASSUME W.ok PROVE New(V, W, d, a, n, text)
      <4>1. Filled(C, W, n, text)
        BY <3>5, <3>6
      <4>2. Others(V, W, n)
        BY <3>2, <4>1, OthersThen DEF Filled
      <4> QED BY <3>2, <4>1, <4>2 DEF Filled, New
    <3> QED BY <3>5, <3>6 DEF Rewrote
  <2> QED BY <2>4, <2>5
<1> QED BY <1>2, <1>3, <1>4, <1>5

Joined(s, t, u, S) ==
  /\ s \in Seq(S) /\ Len(s) = Len(t) + Len(u)
  /\ \A k \in 1 .. Len(t) : s[k] = t[k]
  /\ \A k \in 1 .. Len(u) : s[Len(t) + k] = u[k]

LEMMA JoinIs ==
  ASSUME NEW A, NEW B, NEW t \in Seq(A), NEW u \in Seq(B)
  PROVE  Joined(t \o u, t, u, A \cup B)
<1>1. t \in Seq(A \cup B) /\ u \in Seq(A \cup B)
  OBVIOUS
<1>2. t \o u \in Seq(A \cup B) /\ Len(t \o u) = Len(t) + Len(u)
  BY <1>1
<1>3. \A k \in 1 .. Len(t) + Len(u) : (t \o u)[k] = IF k <= Len(t) THEN t[k] ELSE u[k - Len(t)]
  BY <1>1, ConcatProperties
<1>4. Len(t) \in Nat /\ Len(u) \in Nat
  OBVIOUS
<1> DEFINE s == t \o u
<1> HIDE DEF s
<1>5. \A k \in 1 .. Len(t) : s[k] = t[k]
  <2> SUFFICES ASSUME NEW k \in 1 .. Len(t) PROVE s[k] = t[k]
    OBVIOUS
  <2>1. k \in 1 .. Len(t) + Len(u) /\ k <= Len(t)
    BY <1>4
  <2> QED BY <1>3, <2>1, Zenon DEF s
<1>6. \A k \in 1 .. Len(u) : s[Len(t) + k] = u[k]
  <2> SUFFICES ASSUME NEW k \in 1 .. Len(u) PROVE s[Len(t) + k] = u[k]
    OBVIOUS
  <2>1. Len(t) + k \in 1 .. Len(t) + Len(u) /\ ~(Len(t) + k <= Len(t)) /\ (Len(t) + k) - Len(t) = k
    BY <1>4
  <2>2. s[Len(t) + k] = u[(Len(t) + k) - Len(t)]
    BY <1>3, <2>1, Zenon DEF s
  <2> QED BY <2>1, <2>2
<1> QED BY <1>2, <1>5, <1>6, Zenon DEF s, Joined

(* The unit at word w of block j *)
LEMMA UnitAt ==
  ASSUME NEW j \in Slots, NEW w \in 0 .. WORDS - 1
  PROVE  /\ j * WORDS + w \in Nat
         /\ ((j * WORDS + w + 1) - 1) \div WORDS = j /\ ((j * WORDS + w + 1) - 1) % WORDS = w
<1> DEFINE a == j * WORDS + w
<1>1. j \in Nat /\ WORDS \in Nat \ {0} /\ w \in Nat /\ w < WORDS
  BY TreeAssumption DEF Slots
<1>2. j * WORDS \in Nat
  BY <1>1, Multiples
<1>3. PICK p \in Nat : p = j * WORDS
  BY <1>2
<1>4. a \in Nat /\ p <= a /\ a < p + WORDS /\ (a + 1) - 1 = a /\ a = p + w
  BY <1>1, <1>3
<1> HIDE DEF a
<1>5. a \div WORDS = j
  BY <1>1, <1>3, <1>4, DivUnique
<1>6. a = (a \div WORDS) * WORDS + (a % WORDS) /\ a % WORDS \in 0 .. WORDS - 1
  BY <1>1, <1>4, DivFact
<1>7. a = p + (a % WORDS) /\ a % WORDS \in Int
  BY <1>1, <1>3, <1>5, <1>6
<1>8. a % WORDS = w
  BY <1>1, <1>4, <1>7
<1> QED BY <1>4, <1>5, <1>8 DEF a

LEMMA AppendSound ==
  ASSUME NEW V, Sound(V), NEW n \in Inodes, NEW S, NEW text \in Seq(S), NEW W, W = AppendNode(V, n, text)
  PROVE  VolumeOK(W) /\ (W.ok => Filled(V, W, n, Contents(V, n) \o text))
<1> DEFINE z == V.node[n].size
<1>1. Core(V) /\ Base(V) /\ NodeShape(V, n) /\ VolumeOK(V) /\ V.node[n] \in NodeSet
  BY CoreType DEF Sound, Base
<1>2. z \in Nat /\ Len(text) \in Nat /\ MAX_FILE \in Nat /\ ~(n <= 0)
  BY <1>1, MaxFile DEF NodeSet, Inodes
<1>3. CASE ~Supported(V, n, "file") \/ Len(text) > MAX_FILE - z
  BY <1>1, <1>2, <1>3, FailedOK DEF AppendNode
<1>4. CASE ~(~Supported(V, n, "file") \/ Len(text) > MAX_FILE - z)
  <2>1. W = WriteRange(V, n, z, text)
    BY <1>2, <1>4 DEF AppendNode
  <2>2. V.node[n].mode = "file"
    BY <1>4 DEF Supported
  <2>3. z + Len(text) <= MAX_FILE /\ z <= MAX_FILE
    <3>1. ~(Len(text) > MAX_FILE - z)
      BY <1>4
    <3> HIDE DEF z
    <3> QED BY <1>2, <3>1
  <2>4. VolumeOK(W) /\ (W.ok => Wrote(V, W, n, z, text))
    BY <1>1, <1>2, <2>1, <2>3, WriteRangeFacts
  <2>5. ASSUME W.ok PROVE Filled(V, W, n, Contents(V, n) \o text)
    <3>1. Wrote(V, W, n, z, text)
      BY <2>4, <2>5
    <3>2. /\ Core(W) /\ Elsewhere(V, W, n)
          /\ W.node[n].size = IF z + Len(text) > z THEN z + Len(text) ELSE z
          /\ \A j \in Slots, w \in 0 .. WORDS - 1 : Word(W, n, j, w) = NewWord(V, n, z, text, j, w)
      BY <3>1 DEF Wrote
    <3>3. W.node[n].size = z + Len(text) /\ z + Len(text) \in Nat
      <4> HIDE DEF z
      <4> QED BY <1>2, <3>2
    <3>4. PICK A : Contents(V, n) \in Seq(A) /\ Len(Contents(V, n)) = z
      BY <1>2, ContentsSeq
    <3>5. PICK t \in Seq(A) : t = Contents(V, n)
      BY <3>4
    <3>6. /\ \A k \in 1 .. z : t[k] = Word(V, n, (k - 1) \div WORDS, (k - 1) % WORDS)
      BY <1>2, <2>3, <3>5, ContentsAre
    <3>7. PICK s : s = t \o text /\ Joined(s, t, text, A \cup S)
      BY JoinIs
    <3>8. s \in Seq(A \cup S) /\ Len(s) = z + Len(text)
      BY <3>4, <3>5, <3>7 DEF Joined
    <3>9. ASSUME NEW j \in Slots, NEW w \in 0 .. WORDS - 1, j * WORDS + w < Len(s)
          PROVE  Word(W, n, j, w) = s[j * WORDS + w + 1]
      <4>1. /\ j * WORDS + w \in Nat
            /\ ((j * WORDS + w + 1) - 1) \div WORDS = j /\ ((j * WORDS + w + 1) - 1) % WORDS = w
        BY UnitAt
      <4>2. PICK x \in Nat : x = j * WORDS + w
        BY <4>1
      <4>3. (x + 1 - 1) \div WORDS = j /\ (x + 1 - 1) % WORDS = w /\ x < z + Len(text)
        BY <3>8, <3>9, <4>1, <4>2
      <4>4. Word(W, n, j, w) = IF x \in z .. z + Len(text) - 1 THEN text[x - z + 1] ELSE Word(V, n, j, w)
        <5>1. Word(W, n, j, w) = NewWord(V, n, z, text, j, w)
          BY <3>2
        <5> HIDE DEF z
        <5>2. j * WORDS \in Int /\ w \in Int
          <6>1. j \in Nat /\ WORDS \in Nat
            BY TreeAssumption DEF Slots
          <6> QED BY <6>1, Multiples
        <5>3. j * WORDS + w - z + 1 = x - z + 1
          BY <1>2, <4>2, <5>2
        <5> QED BY <4>2, <5>1, <5>3, Zenon DEF NewWord
      <4> HIDE DEF z
      <4>5. CASE x < z
        <5>1. x \notin z .. z + Len(text) - 1 /\ x + 1 \in 1 .. z
          BY <1>2, <4>5
        <5>2. t[x + 1] = Word(V, n, j, w)
          BY <3>6, <4>3, <5>1
        <5>3. s[x + 1] = t[x + 1]
          BY <3>4, <3>5, <3>7, <5>1 DEF Joined
        <5> QED BY <4>2, <4>4, <5>1, <5>2, <5>3
      <4>6. CASE ~(x < z)
        <5>1. /\ x \in z .. z + Len(text) - 1 /\ x - z + 1 \in 1 .. Len(text) /\ z + (x - z + 1) = x + 1
          BY <1>2, <4>3, <4>6
        <5>2. s[z + (x - z + 1)] = text[x - z + 1]
          BY <3>4, <3>5, <3>7, <5>1 DEF Joined
        <5> QED BY <4>2, <4>4, <5>1, <5>2
      <4> QED BY <4>5, <4>6
    <3>10. Contents(W, n) = s
      <4>1. W.node[n].size \in Nat /\ W.node[n].size <= MAX_FILE /\ Len(s) = W.node[n].size
        BY <2>3, <3>3, <3>8
      <4> QED BY <3>8, <3>9, <4>1, ContentsEqual
    <3>11. W.node[n].size <= MAX_FILE
      BY <2>3, <3>3
    <3>12. Filled(V, W, n, s)
      BY <2>2, <3>2, <3>10, <3>11, FillFacts
    <3> QED BY <3>5, <3>7, <3>12
  <2> QED BY <2>4, <2>5
<1> QED BY <1>3, <1>4

Added(V, W, d, a, text) ==
  \/ Rewrote(V, W, d, a, text)
  \/ \E n : <<d, a, n>> \in Entries(V) /\ Filled(V, W, n, Contents(V, n) \o text)

LEMMA AppendFacts ==
  ASSUME NEW V, Sound(V), V.ok = TRUE, NEW d \in Inodes, V.node[d].mode = "dir", NEW a \in Names,
         NEW S, NEW text \in Seq(S), NEW W, W = AppendFile(V, d, a, text)
  PROVE  VolumeOK(W) /\ (W.ok => Added(V, W, d, a, text))
<1> DEFINE n == Lookup(V, d, a)
<1>1. \/ n = -1
      \/ n \in Inodes /\ <<d, a, n>> \in Entries(V)
  BY LookupEntry DEF Sound
<1> HIDE DEF n
<1>2. CASE n = -1
  <2>1. W = WriteFile(V, d, a, text)
    BY <1>2 DEF AppendFile, n
  <2>2. VolumeOK(W) /\ (W.ok => Rewrote(V, W, d, a, text))
    BY <2>1, WriteFileFacts
  <2> QED BY <2>2 DEF Added
<1>3. CASE n \in Inodes /\ <<d, a, n>> \in Entries(V)
  <2>1. n # -1
    BY <1>3 DEF Inodes
  <2>2. W = AppendNode(V, n, text)
    BY <2>1 DEF AppendFile, n
  <2>3. VolumeOK(W) /\ (W.ok => Filled(V, W, n, Contents(V, n) \o text))
    BY <1>3, <2>2, AppendSound
  <2> QED BY <1>3, <2>3, Zenon DEF Added
<1> QED BY <1>1, <1>2, <1>3

(* engine_cp: the new file holds what some file holds. *)
CopiedAs(V, W, d, b) ==
  \E n, m : m \in Inodes /\ V.node[m].mode = "file" /\ New(V, W, d, b, n, Contents(V, m))

LEMMA CopyFacts ==
  ASSUME NEW V, Sound(V), V.ok = TRUE, NEW d \in Inodes, V.node[d].mode = "dir", NEW a, NEW b \in Names,
         NEW W, W = CopyFile(V, d, a, b)
  PROVE  VolumeOK(W) /\ (W.ok => CopiedAs(V, W, d, b))
<1> DEFINE n == Lookup(V, d, a)
<1>1. Base(V) /\ VolumeOK(V)
  BY DEF Sound, Base, Core
<1>2. n = -1 \/ n \in Inodes
  BY <1>1, LookupEntry
<1>0. \/ Lookup(V, d, b) = -1 /\ \A m : <<d, b, m>> \notin Entries(V)
      \/ Lookup(V, d, b) \in Inodes
  BY <1>1, LookupEntry
<1>3. W = CopyNode(V, d, n, b)
  BY DEF CopyFile
<1> HIDE DEF n
<1>4. CASE n = -1
  BY <1>1, <1>3, <1>4, FailedOK DEF CopyNode
<1>5. CASE n \in Inodes
  <2>1. ~(n <= 0)
    BY <1>5 DEF Inodes
  <2>2. CASE ~Supported(V, n, "file") \/ Lookup(V, d, b) # -1
    BY <1>1, <1>3, <2>1, <2>2, FailedOK DEF CopyNode
  <2>3. CASE ~(~Supported(V, n, "file") \/ Lookup(V, d, b) # -1)
    <3>1. W = WriteFile(V, d, b, Contents(V, n))
      BY <1>3, <2>1, <2>3 DEF CopyNode
    <3>2. V.node[n].mode = "file" /\ Lookup(V, d, b) = -1
      BY <2>3 DEF Supported
    <3>3. V.node[n].size \in Nat
      <4>1. V.node[n] \in NodeSet
        BY <1>1, <1>5, CoreType DEF Base
      <4> QED BY <4>1 DEF NodeSet
    <3>4. PICK S : Contents(V, n) \in Seq(S)
      BY <3>3, ContentsSeq
    <3>5. VolumeOK(W) /\ (W.ok => Rewrote(V, W, d, b, Contents(V, n)))
      BY <3>1, <3>4, WriteFileFacts
    <3>6. \A m : <<d, b, m>> \notin Entries(V)
      BY <1>0, <3>2 DEF Inodes
    <3>7. W.ok => CopiedAs(V, W, d, b)
      BY <1>5, <3>2, <3>5, <3>6, Zenon DEF Rewrote, CopiedAs
    <3> QED BY <3>5, <3>7
  <2> QED BY <2>2, <2>3
<1> QED BY <1>2, <1>4, <1>5

-----------------------------------------------------------------------------
(* engine_mv *)

Untouched(V, W) == \A m \in Inodes : W.node[m].mode = V.node[m].mode /\ (V.node[m].mode = "file" => Alike(V, W, m))

LEMMA DirUntouched ==
  ASSUME NEW V, Base(V), NEW W, NEW d \in Inodes, V.node[d].mode = "dir", Elsewhere(V, W, d)
  PROVE  Untouched(V, W)
<1> SUFFICES ASSUME NEW m \in Inodes
             PROVE  W.node[m].mode = V.node[m].mode /\ (V.node[m].mode = "file" => Alike(V, W, m))
  BY DEF Untouched
<1>1. CASE m = d
  BY <1>1 DEF Elsewhere
<1>2. CASE m # d
  BY <1>2, ElsewhereLives DEF Lives, Alike
<1> QED BY <1>1, <1>2

LEMMA UntouchedThen ==
  ASSUME NEW V, NEW C, NEW W, Untouched(V, C), Untouched(C, W)
  PROVE  Untouched(V, W)
<1> SUFFICES ASSUME NEW m \in Inodes
             PROVE  W.node[m].mode = V.node[m].mode /\ (V.node[m].mode = "file" => Alike(V, W, m))
  BY DEF Untouched
<1>1. C.node[m].mode = V.node[m].mode /\ W.node[m].mode = C.node[m].mode
  BY DEF Untouched
<1>2. V.node[m].mode = "file" => Alike(V, C, m) /\ Alike(C, W, m)
  BY <1>1 DEF Untouched
<1> QED BY <1>1, <1>2, AlikeThen

(* The entry that a lookup found *)
LEMMA FoundEntry ==
  ASSUME NEW V, Sound(V), NEW d \in Inodes, V.node[d].mode = "dir", NEW a, Lookup(V, d, a) \in Inodes
  PROVE  /\ \E i, j : Found(V, d, a, Lookup(V, d, a), i, j)
         /\ <<d, a, Lookup(V, d, a)>> \in Entries(V)
         /\ \A m : <<d, a, m>> \in Entries(V) => m = Lookup(V, d, a)
<1> DEFINE n == Lookup(V, d, a)
<1>1. Base(V) /\ EntriesOK(Modes(V), Entries(V))
  BY DEF Sound, TreeOK
<1>2. n # -1
  BY DEF Inodes
<1>3. \E i, j : Found(V, d, a, n, i, j)
  BY <1>1, <1>2, LookupIs
<1>4. <<d, a, n>> \in Entries(V)
  BY <1>1, <1>2, LookupEntry
<1> HIDE DEF n
<1>5. \A m : <<d, a, m>> \in Entries(V) => m = n
  BY <1>1, <1>4, Zenon DEF EntriesOK
<1> QED BY <1>3, <1>4, <1>5 DEF n

MovedAs(V, W, d, a, b) ==
  /\ Sound(W) /\ Untouched(V, W)
  /\ \E n : /\ <<d, a, n>> \in Entries(V) /\ \A m : <<d, b, m>> \notin Entries(V)
            /\ Entries(W) = (Entries(V) \ {<<d, a, n>>}) \cup {<<d, b, n>>}

LEMMA MoveFacts ==
  ASSUME NEW V, Sound(V), V.ok = TRUE, NEW d \in Inodes, V.node[d].mode = "dir", NEW a \in Names, NEW b \in Names,
         NEW W, W = MoveEntry(V, d, a, b)
  PROVE  VolumeOK(W) /\ (W.ok => MovedAs(V, W, d, a, b))
<1> DEFINE n == Lookup(V, d, a)
           F == Erase(V, d, a)
<1>1. Base(V) /\ VolumeOK(V) /\ DirsCounted(V) /\ UsedOK(V) /\ InodesOK(V) /\ TreeOK(Modes(V), LinksOf(V), Entries(V))
  BY DEF Sound, Base, Core
<1>2. n = -1 \/ n \in Inodes
  BY <1>1, LookupEntry
<1>3. \/ Lookup(V, d, b) = -1 /\ \A m : <<d, b, m>> \notin Entries(V)
      \/ Lookup(V, d, b) \in Inodes
  BY <1>1, LookupEntry
<1>4. W = MoveNode(V, d, a, n, b)
  BY DEF MoveEntry
<1> HIDE DEF n, F
<1>5. CASE n = -1
  BY <1>1, <1>4, <1>5, FailedOK DEF MoveNode
<1>6. CASE n \in Inodes
  <2>1. ~(n <= 0)
    BY <1>6 DEF Inodes
  <2>2. CASE ~(\E type \in {"file", "dir"} : Supported(V, n, type)) \/ Lookup(V, d, b) # -1
    <3>1. W = Failed(V)
      BY <1>4, <2>1, <2>2 DEF MoveNode
    <3> QED BY <1>1, <3>1, FailedOK
  <2>3. CASE ~(~(\E type \in {"file", "dir"} : Supported(V, n, type)) \/ Lookup(V, d, b) # -1)
    <3>1. W = Insert(F, d, b, n)
      BY <1>4, <2>1, <2>3 DEF MoveNode, F
    <3>2. Lookup(V, d, b) = -1
      BY <2>3
    <3>3. \A m : <<d, b, m>> \notin Entries(V)
      BY <1>3, <3>2 DEF Inodes
    <3>4. /\ \E i, j : Found(V, d, a, n, i, j)
          /\ <<d, a, n>> \in Entries(V) /\ \A m : <<d, a, m>> \in Entries(V) => m = n
      BY <1>6, FoundEntry DEF n
    <3>5. Unlisted(V, F, d, a)
      BY <1>1, <3>4, EraseFacts DEF F
    <3>6. /\ Base(F) /\ Elsewhere(V, F, d) /\ F.ok = TRUE /\ F.node[d].mode = "dir"
      BY <3>5 DEF Unlisted, Elsewhere
    <3>7. a \in AllNames /\ b \in AllNames /\ a \notin Dots /\ b \notin Dots
      BY TreeAssumption DEF AllNames
    <3>8. VolumeOK(W) /\ (W.ok => Listed(F, W, d, b, n))
      BY <1>6, <3>1, <3>6, <3>7, InsertFacts
    <3>9. ASSUME W.ok PROVE MovedAs(V, W, d, a, b)
      <4>1. Listed(F, W, d, b, n) /\ Base(W) /\ Elsewhere(F, W, d)
        BY <3>8, <3>9 DEF Listed
      <4>2. Entries(F) = Entries(V) \ {<<d, a, n>>}
        <5>1. Drops(Entries(V), Entries(F), d, a) /\ Entries(V) \in SUBSET Triples /\ Entries(F) \in SUBSET Triples
          BY <1>1, <3>5, UnlistedEntries, EntriesAre
        <5>2. \A m : <<d, a, m>> \in Entries(V) => m = n
          BY <3>4
        <5> QED BY <5>1, <5>2, DropsIs, Zenon
      <4>3. Entries(W) = Entries(F) \cup {<<d, b, n>>}
        BY <3>6, <4>1, ListedEntries, EntriesAre, GainsIs
      <4>4. Entries(W) = (Entries(V) \ {<<d, a, n>>}) \cup {<<d, b, n>>}
        BY <4>2, <4>3, Zenon
      <4>5. Elsewhere(V, W, d)
        BY <3>6, <4>1, ElsewhereThen
      <4>6. Modes(W) = Modes(V) /\ LinksOf(W) = LinksOf(V) /\ DirsCounted(W) /\ UsedOK(W)
        BY <1>1, <4>5, ElsewhereTables
      <4>7. Renames(Modes(V), Entries(V), Entries(W), d, a, b, n)
        BY <3>3, <3>4, <3>7, <4>4, Zenon DEF Renames
      <4>8. TreeOK(Modes(W), LinksOf(W), Entries(W))
        BY <1>1, <4>6, <4>7, Rename
      <4>9. Sound(W)
        BY <4>1, <4>6, <4>8 DEF Sound
      <4>10. Untouched(V, W)
        BY <1>1, <4>5, DirUntouched
      <4> QED BY <3>3, <3>4, <4>4, <4>9, <4>10, Zenon DEF MovedAs
    <3> QED BY <3>8, <3>9
  <2> QED BY <2>2, <2>3
<1> QED BY <1>2, <1>5, <1>6

-----------------------------------------------------------------------------
(* remove_node: the inode goes *)

Freed(V, W, n) ==
  /\ Core(W) /\ W.ok = V.ok /\ W.hint = V.hint /\ W.used["inode"] = V.used["inode"] \ {n}
  /\ W.node[n].mode = "none" /\ Full(W, n) = {}
  /\ \A m \in Inodes : m # n => Alike(V, W, m) /\ W.node[m] = V.node[m]
  /\ \A g \in Groups : W.gd[g]["dirs"] = V.gd[g]["dirs"]

LEMMA ZeroNodeIs ==
  /\ ZeroNode \in NodeSet /\ ZeroNode.mode = "none" /\ ZeroNode.blocks = 0 /\ ZeroNode.indirect = 0
  /\ \A i \in 0 .. DIRECT - 1 : ZeroNode.direct[i] = 0
<1>1. 0 \in 0 .. BLOCKS - 1
  BY TreeAssumption
<1>2. ZeroNode \in NodeSet
  BY <1>1 DEF ZeroNode, NodeSet
<1> QED BY <1>2 DEF ZeroNode

LEMMA FreeInodeFacts ==
  ASSUME NEW V, Core(V), NEW n \in Inodes, n >= FIRST_INODE, n \in V.used["inode"], Full(V, n) = {},
         NEW W, W = FreeInode(V, n)
  PROVE  Freed(V, W, n)
<1> DEFINE Z == [V EXCEPT !.node[n] = ZeroNode]
<1>1. VolumeOK(V) /\ Counted(V) /\ Owned(V) /\ InodesOK(V) /\ IndirectOK(V) /\ V.data = [b \in Blocks |-> V.data[b]]
  BY DEF Core, Owned, VolumeOK
<1>2. Z = With(V, n, ZeroNode, V.data)
  BY <1>1 DEF With, VolumeOK
<1>3. W = Release(Z, "inode", n)
  BY DEF FreeInode
<1> HIDE DEF Z
<1>4. /\ VolumeOK(Z) /\ Z.ok = V.ok /\ Z.hint = V.hint /\ Z.used = V.used /\ Z.sb = V.sb /\ Z.gd = V.gd
      /\ Z.node = [V.node EXCEPT ![n] = ZeroNode] /\ Z.data = V.data
  BY <1>1, <1>2, WithOK, ZeroNodeIs
<1>5. Z.node[n] = ZeroNode /\ \A m \in Inodes : m # n => Z.node[m] = V.node[m]
  BY <1>1, <1>4 DEF VolumeOK
<1>6. Counted(Z)
  BY <1>1, <1>4, CountsStay
<1>7. /\ VolumeOK(W) /\ Counted(W) /\ Released(Z, W, "inode", n)
  <2>1. "inode" \in Kinds /\ n \in Z.used["inode"]
    BY <1>4 DEF Kinds
  <2>2. "inode" # "block"
    OBVIOUS
  <2> QED BY <1>3, <1>4, <1>6, <2>1, <2>2, ReleaseCounted
<1>8. /\ W.ok = V.ok /\ W.hint = V.hint /\ W.node = Z.node /\ W.data = V.data
      /\ W.used = [V.used EXCEPT !["inode"] = @ \ {n}]
      /\ W.gd = [V.gd EXCEPT ![GroupOf("inode", n)]["inode"] = @ + 1]
  BY <1>4, <1>7 DEF Released
<1>9. W.used["inode"] = V.used["inode"] \ {n} /\ W.used["block"] = V.used["block"]
  BY <1>1, <1>8 DEF VolumeOK, Kinds
<1>10. \A g \in Groups : W.gd[g]["dirs"] = V.gd[g]["dirs"]
  BY <1>1, <1>8 DEF VolumeOK, Kinds
<1>11. W.node[n] = ZeroNode /\ \A m \in Inodes : m # n => W.node[m] = V.node[m]
  BY <1>5, <1>8
<1>12. IndirectOK(W)
  BY <1>1, <1>8, <1>11, ZeroNodeIs DEF IndirectOK
<1>13. \A j \in Cells : Ptr(W, n, j) = 0
  <2>1. \A j \in Cells : j < DIRECT => j \in 0 .. DIRECT - 1
    BY TreeAssumption DEF Cells
  <2> QED BY <1>11, <2>1, ZeroNodeIs DEF Ptr, FileBlock
<1>14. \A m \in Inodes : m # n => Alike(V, W, m)
  BY <1>8, <1>11 DEF Alike
<1>15. \A m \in Inodes, j \in Cells : Ptr(W, m, j) = Ptr(V, m, j)
  <2>1. \A j \in Cells : Ptr(V, n, j) = 0
    BY DEF Full
  <2>2. \A m \in Inodes : m # n => \A j \in Cells : Ptr(W, m, j) = Ptr(V, m, j)
    BY <1>14, AlikePtr
  <2> QED BY <1>13, <2>1, <2>2
<1>16. \A m \in Inodes : W.node[m].blocks = V.node[m].blocks
  <2>1. V.node[n].blocks = 0
    <3>1. V.node[n].blocks = Cardinality(Full(V, n))
      BY <1>1 DEF Owned
    <3> QED BY <3>1, FS_EmptySet
  <2> QED BY <1>11, <2>1, ZeroNodeIs
<1>17. Owned(W)
  BY <1>1, <1>9, <1>12, <1>15, <1>16, SameOwned
<1>18. InodesOK(W)
  <2>1. FIRST_INODE \in Nat /\ n \in Nat
    BY TreeAssumption DEF Inodes
  <2> QED BY <1>1, <1>9, <2>1 DEF InodesOK
<1>19. Core(W) /\ Full(W, n) = {} /\ W.node[n].mode = "none"
  BY <1>7, <1>11, <1>13, <1>17, <1>18, ZeroNodeIs DEF Core, Full
<1> QED BY <1>8, <1>9, <1>10, <1>11, <1>14, <1>19 DEF Freed

LEMMA DropFacts ==
  ASSUME NEW V, Core(V), NEW n \in Inodes, n >= FIRST_INODE, n \in V.used["inode"],
         NEW W, W = DropLink(V, n, 0)
  PROVE  Freed(V, W, n)
<1> DEFINE T == TruncateBlocks(V, n, 0)
<1>1. W = FreeInode(T, n)
  BY DEF DropLink
<1>2. /\ Core(T) /\ Elsewhere(V, T, n) /\ T.ok = V.ok /\ T.hint = V.hint
      /\ T.node[n].indirect = IF 0 > DIRECT THEN V.node[n].indirect ELSE 0
      /\ \A j \in Slots : Ptr(T, n, j) = IF 0 <= j THEN 0 ELSE Ptr(V, n, j)
  BY TruncateFacts
<1> HIDE DEF T
<1>3. T.node[n].indirect = 0 /\ \A j \in Slots : Ptr(T, n, j) = 0
  BY <1>2, TreeAssumption DEF Slots
<1>4. Full(T, n) = {}
  <2>1. \A j \in Cells : j \in Slots \/ j = DIRECT + WORDS
    <3>1. DIRECT \in Nat /\ WORDS \in Nat
      BY TreeAssumption
    <3>2. PICK e \in Nat : e = DIRECT + WORDS
      BY <3>1
    <3>3. DIRECT + WORDS - 1 = e - 1
      BY <3>1, <3>2
    <3>4. Cells = 0 .. e /\ Slots = 0 .. e - 1
      BY <3>2, <3>3, Zenon DEF Cells, Slots
    <3> QED BY <3>2, <3>4
  <2>2. Ptr(T, n, DIRECT + WORDS) = 0
    BY <1>3 DEF Ptr
  <2> QED BY <1>3, <2>1, <2>2 DEF Full
<1>5. n \in T.used["inode"]
  BY <1>2 DEF Elsewhere
<1>6. Freed(T, W, n)
  BY <1>1, <1>2, <1>4, <1>5, FreeInodeFacts
<1>7. ASSUME NEW m \in Inodes, m # n PROVE Alike(V, W, m) /\ W.node[m] = V.node[m]
  <2>1. Alike(V, T, m) /\ T.node[m] = V.node[m]
    BY <1>2, <1>7 DEF Alike, Elsewhere
  <2>2. Alike(T, W, m) /\ W.node[m] = T.node[m]
    BY <1>6, <1>7 DEF Freed
  <2> QED BY <2>1, <2>2, AlikeThen
<1>8. \A g \in Groups : T.gd[g]["dirs"] = V.gd[g]["dirs"]
  BY <1>2 DEF Elsewhere
<1>9. T.used["inode"] = V.used["inode"]
  BY <1>2 DEF Elsewhere
<1> QED BY <1>2, <1>6, <1>7, <1>8, <1>9 DEF Freed

LEMMA FreedBase ==
  ASSUME NEW V, Base(V), NEW W, NEW n \in Inodes, Freed(V, W, n)
  PROVE  Base(W)
<1>1. ASSUME NEW m \in Inodes, m # n PROVE Lives(V, W, m)
  <2>1. Alike(V, W, m) /\ W.node[m] = V.node[m] /\ W.used["inode"] = V.used["inode"] \ {n} /\ NodeShape(V, m)
    BY <1>1 DEF Freed, Base
  <2> QED BY <1>1, <2>1 DEF Lives, NodeShape
<1>2. Core(W) /\ W.node[n].mode = "none" /\ Full(W, n) = {}
  BY DEF Freed
<1>3. NodeShape(W, n)
  BY <1>2 DEF NodeShape
<1> QED BY <1>1, <1>2, <1>3, LivesBase

(* With the inode go the entries it holds. *)
LEMMA FreedLists ==
  ASSUME NEW V, Base(V), NEW W, NEW n \in Inodes, Freed(V, W, n), NEW x, NEW b, NEW m
  PROVE  Lists(W, x, b, m) <=> Lists(V, x, b, m) /\ x # n
<1>1. CASE x = n
  <2>1. W.node[n].mode = "none"
    BY DEF Freed
  <2> QED BY <1>1, <2>1 DEF Lists
<1>2. CASE x # n
  <2>1. x \in Inodes => Alike(V, W, x)
    BY <1>2 DEF Freed
  <2> QED BY <1>2, <2>1, AlikeLists
<1> QED BY <1>1, <1>2

(* engine_rm: the name goes, and the file with its last name. *)
RemovedFile(V, W, d, a) ==
  \E f \in Inodes :
    /\ Sound(W) /\ V.node[f].mode = "file" /\ Others(V, W, f)
    /\ <<d, a, f>> \in Entries(V) /\ Entries(W) = Entries(V) \ {<<d, a, f>>}
    /\ (V.node[f].links = 1 => W.node[f].mode = "none") /\ (V.node[f].links # 1 => Untouched(V, W))

LEMMA FreedFile ==
  ASSUME NEW V, Base(V), NEW W, NEW f \in Inodes, V.node[f].mode = "file", Freed(V, W, f)
  PROVE  /\ Base(W) /\ Entries(W) = Entries(V) /\ (DirsCounted(V) => DirsCounted(W)) /\ (UsedOK(V) => UsedOK(W))
         /\ Modes(W)[f] = "none" /\ \A x \in Inodes : x # f => Modes(W)[x] = Modes(V)[x] /\ LinksOf(W)[x] = LinksOf(V)[x]
<1>1. Base(W) /\ V.used["inode"] \subseteq Inodes
  BY FreedBase DEF Base, Core, InodesOK
<1>2. /\ W.node[f].mode = "none" /\ \A m \in Inodes : m # f => W.node[m] = V.node[m]
      /\ W.used["inode"] = V.used["inode"] \ {f} /\ \A g \in Groups : W.gd[g]["dirs"] = V.gd[g]["dirs"]
  BY DEF Freed
<1>3. Entries(W) = Entries(V)
  <2>1. ASSUME NEW e \in Triples PROVE Lists(W, e[1], e[2], e[3]) <=> Lists(V, e[1], e[2], e[3])
    <3>1. Lists(V, e[1], e[2], e[3]) => e[1] # f
      BY DEF Lists
    <3> QED BY <3>1, FreedLists
  <2> QED BY <2>1 DEF Entries
<1>4. \A g : DirsIn(W, g) = DirsIn(V, g)
  BY <1>2 DEF DirsIn
<1>5. DirsCounted(V) => DirsCounted(W)
  BY <1>2, <1>4 DEF DirsCounted
<1>6. UsedOK(V) => UsedOK(W)
  BY <1>1, <1>2 DEF UsedOK
<1>7. Modes(W)[f] = "none" /\ \A x \in Inodes : x # f => Modes(W)[x] = Modes(V)[x] /\ LinksOf(W)[x] = LinksOf(V)[x]
  BY <1>2, TablesAre
<1> QED BY <1>1, <1>3, <1>5, <1>6, <1>7

LEMMA RelinkedFile ==
  ASSUME NEW V, Base(V), NEW W, NEW f \in Inodes, V.node[f].mode = "file", NEW l \in Int, l >= 1,
         W = [V EXCEPT !.node[f].links = l]
  PROVE  /\ Base(W) /\ Entries(W) = Entries(V) /\ (DirsCounted(V) => DirsCounted(W)) /\ (UsedOK(V) => UsedOK(W))
         /\ Modes(W) = Modes(V) /\ LinksOf(W)[f] = l /\ \A x \in Inodes : x # f => LinksOf(W)[x] = LinksOf(V)[x]
         /\ Untouched(V, W) /\ W.ok = V.ok
<1> DEFINE g == GroupOf("inode", f)
           c == V.gd[g]["dirs"]
<1>1. Core(V) /\ VolumeOK(V) /\ V.used["inode"] \subseteq Inodes /\ NodeShape(V, f)
  BY DEF Base, Core, InodesOK
<1>2. g \in Groups
  BY InodeGroup
<1> HIDE DEF g
<1>3. V.gd \in [Groups -> [Kinds \cup {"dirs"} -> Int]]
  BY <1>1 DEF VolumeOK
<1>4. c \in Int
  BY <1>2, <1>3
<1>5. [V.gd EXCEPT ![g] = [V.gd[g] EXCEPT !["dirs"] = c]] = V.gd
  BY <1>2, <1>3
<1>6. Relinked(V, W, f, g, l, c)
  <2>1. W = [V EXCEPT !.node = [V.node EXCEPT ![f] = [V.node[f] EXCEPT !.links = l]]]
    OBVIOUS
  <2>2. W = [V EXCEPT !.node = [V.node EXCEPT ![f] = [V.node[f] EXCEPT !.links = l]], !.gd = V.gd]
    BY <1>1, <2>1 DEF VolumeOK
  <2> QED BY <1>5, <2>2, Zenon DEF Relinked
<1> HIDE DEF c
<1>7. Linked(V, W, f, g, l, c)
  BY <1>1, <1>2, <1>4, <1>6, RelinkFacts
<1>8. /\ Core(W) /\ W.ok = V.ok /\ W.used = V.used /\ W.node[f].links = l /\ W.gd[g]["dirs"] = c
      /\ \A m \in Inodes : Alike(V, W, m) /\ (m # f => W.node[m] = V.node[m])
      /\ \A h \in Groups : h # g => W.gd[h]["dirs"] = V.gd[h]["dirs"]
  BY <1>7 DEF Linked
<1>9. \A h \in Groups : W.gd[h]["dirs"] = V.gd[h]["dirs"]
  BY <1>8 DEF c
<1>10. \A m \in Inodes : m # f => Lives(V, W, m)
  <2> SUFFICES ASSUME NEW m \in Inodes, m # f PROVE Lives(V, W, m)
    OBVIOUS
  <2>1. NodeShape(V, m) /\ Alike(V, W, m) /\ W.node[m] = V.node[m] /\ W.used["inode"] = V.used["inode"]
    BY <1>8 DEF Base
  <2> QED BY <2>1 DEF Lives, NodeShape
<1>11. NodeShape(W, f) /\ W.node[f].mode = "file"
  <2>1. /\ W.node[f].mode = "file" /\ W.node[f].size = V.node[f].size /\ W.used["inode"] = V.used["inode"]
        /\ W.node[f].links >= 1
    BY <1>8 DEF Alike
  <2>2. f \in V.used["inode"] /\ V.node[f].size <= MAX_FILE
    BY <1>1 DEF NodeShape
  <2> QED BY <2>1, <2>2 DEF NodeShape
<1>12. Base(W)
  BY <1>8, <1>10, <1>11, LivesBase
<1>13. Entries(W) = Entries(V)
  <2>1. ASSUME NEW e \in Triples PROVE Lists(W, e[1], e[2], e[3]) <=> Lists(V, e[1], e[2], e[3])
    BY <1>8, AlikeLists
  <2> QED BY <2>1 DEF Entries
<1>14. \A m \in Inodes : W.node[m].mode = V.node[m].mode
  BY <1>8 DEF Alike
<1>15. DirsCounted(V) => DirsCounted(W)
  <2>1. \A h : DirsIn(W, h) = DirsIn(V, h)
    BY <1>14 DEF DirsIn
  <2> QED BY <1>9, <2>1 DEF DirsCounted
<1>16. UsedOK(V) => UsedOK(W)
  BY <1>1, <1>8, <1>14 DEF UsedOK
<1>17. Modes(W) = Modes(V) /\ LinksOf(W)[f] = l /\ \A x \in Inodes : x # f => LinksOf(W)[x] = LinksOf(V)[x]
  <2>1. Modes(W) = Modes(V)
    BY <1>14 DEF Modes
  <2>2. LinksOf(W)[f] = l
    BY <1>8, TablesAre
  <2>3. ASSUME NEW x \in Inodes, x # f PROVE LinksOf(W)[x] = LinksOf(V)[x]
    <3>1. W.node[x] = V.node[x]
      BY <1>8, <2>3
    <3> QED BY <3>1, TablesAre
  <2> QED BY <2>1, <2>2, <2>3
<1>18. Untouched(V, W)
  BY <1>8, <1>14 DEF Untouched
<1> QED BY <1>8, <1>12, <1>13, <1>15, <1>16, <1>17, <1>18

LEMMA RemoveFileFacts ==
  ASSUME NEW V, Sound(V), V.ok = TRUE, NEW d \in Inodes, V.node[d].mode = "dir", NEW a \in Names,
         NEW W, W = RemoveFile(V, d, a)
  PROVE  VolumeOK(W) /\ (W.ok => RemovedFile(V, W, d, a))
<1> DEFINE f == Lookup(V, d, a)
           F == Erase(V, d, a)
<1>1. /\ Base(V) /\ VolumeOK(V) /\ Core(V) /\ DirsCounted(V) /\ UsedOK(V) /\ InodesOK(V)
      /\ TreeOK(Modes(V), LinksOf(V), Entries(V))
  BY DEF Sound, Base, Core
<1>2. f = -1 \/ f \in Inodes
  BY <1>1, LookupEntry
<1>3. W = RemoveFileNode(V, d, f, a)
  BY DEF RemoveFile
<1> HIDE DEF f, F
<1>4. CASE f < FIRST_INODE \/ ~Supported(V, f, "file")
  <2>1. W = Failed(V)
    BY <1>3, <1>4 DEF RemoveFileNode
  <2> QED BY <1>1, <2>1, FailedOK
<1>5. CASE ~(f < FIRST_INODE) /\ Supported(V, f, "file")
  <2>1. W = DropLink(F, f, V.node[f].links - 1)
    BY <1>3, <1>5 DEF RemoveFileNode, F
  <2>2. f \in Inodes /\ f >= FIRST_INODE
    BY <1>2, <1>5, TreeAssumption DEF Inodes
  <2>3. V.node[f].mode = "file" /\ f \in V.used["inode"] /\ f # d
    BY <1>5 DEF Supported
  <2>4. V.node[f].links \in Int /\ V.node[f].links >= 1
    <3>1. V.node[f] \in NodeSet /\ NodeShape(V, f)
      BY <1>1, <2>2 DEF VolumeOK, Base
    <3> QED BY <2>3, <3>1 DEF NodeSet, NodeShape
  <2>5. /\ \E i, j : Found(V, d, a, f, i, j)
        /\ <<d, a, f>> \in Entries(V) /\ \A m : <<d, a, m>> \in Entries(V) => m = f
    BY <2>2, FoundEntry DEF f
  <2>6. Unlisted(V, F, d, a)
    BY <1>1, <2>5, EraseFacts DEF F
  <2>7. Base(F) /\ Core(F) /\ Elsewhere(V, F, d) /\ F.ok = TRUE /\ F.node[f] = V.node[f] /\ f \in F.used["inode"]
    BY <2>2, <2>3, <2>6 DEF Unlisted, Elsewhere, Base
  <2>8. a \in AllNames /\ a \notin Dots
    BY TreeAssumption DEF AllNames
  <2>9. Entries(F) = Entries(V) \ {<<d, a, f>>}
    <3>1. Drops(Entries(V), Entries(F), d, a) /\ Entries(V) \in SUBSET Triples /\ Entries(F) \in SUBSET Triples
      BY <1>1, <2>6, UnlistedEntries, EntriesAre
    <3>2. \A m : <<d, a, m>> \in Entries(V) => m = f
      BY <2>5
    <3> QED BY <3>1, <3>2, DropsIs, Zenon
  <2>10. Modes(F) = Modes(V) /\ LinksOf(F) = LinksOf(V) /\ DirsCounted(F) /\ UsedOK(F)
    BY <1>1, <2>7, ElsewhereTables
  <2>11. Untouched(V, F) /\ F.node[f].mode = "file"
    BY <1>1, <2>3, <2>7, DirUntouched
  <2>12. Modes(V)[f] = "file" /\ LinksOf(V)[f] = V.node[f].links
    BY <2>2, <2>3, TablesAre
  <2>13. CASE V.node[f].links = 1
    <3>1. W = DropLink(F, f, 0)
      BY <2>1, <2>13
    <3>2. Freed(F, W, f)
      BY <2>2, <2>7, <3>1, DropFacts
    <3>3. /\ Base(W) /\ Entries(W) = Entries(F) /\ DirsCounted(W) /\ UsedOK(W)
          /\ Modes(W)[f] = "none" /\ \A x \in Inodes : x # f => Modes(W)[x] = Modes(V)[x] /\ LinksOf(W)[x] = LinksOf(V)[x]
      BY <2>2, <2>7, <2>10, <2>11, <3>2, FreedFile
    <3>4. LosesName(Modes(V), LinksOf(V), Entries(V), Modes(W), LinksOf(W), Entries(W), d, a, f)
      BY <2>5, <2>8, <2>9, <2>12, <2>13, <3>3, Zenon DEF LosesName
    <3>5. TreeOK(Modes(W), LinksOf(W), Entries(W))
      BY <1>1, <3>4, LoseName
    <3>6. Sound(W) /\ VolumeOK(W)
      BY <3>3, <3>5 DEF Sound, Base, Core
    <3>7. Others(V, W, f)
      <4>1. ASSUME NEW m \in Inodes, m # f PROVE W.node[m].mode = V.node[m].mode /\ (V.node[m].mode = "file" => Alike(V, W, m))
        <5>1. Alike(F, W, m) /\ W.node[m] = F.node[m]
          BY <3>2, <4>1 DEF Freed
        <5>2. F.node[m].mode = V.node[m].mode /\ (V.node[m].mode = "file" => Alike(V, F, m))
          BY <2>11 DEF Untouched
        <5> QED BY <5>1, <5>2, AlikeThen
      <4> QED BY <4>1 DEF Others
    <3>8. W.node[f].mode = "none"
      BY <3>2 DEF Freed
    <3>9. RemovedFile(V, W, d, a)
      BY <2>2, <2>3, <2>5, <2>9, <2>13, <3>3, <3>6, <3>7, <3>8, Zenon DEF RemovedFile
    <3> QED BY <3>6, <3>9
  <2>14. CASE V.node[f].links # 1
    <3> DEFINE l == V.node[f].links - 1
    <3>1. l \in Int /\ l >= 1 /\ l # 0
      BY <2>4, <2>14
    <3>2. W = [F EXCEPT !.node[f].links = l]
      BY <2>1, <3>1, Zenon DEF DropLink
    <3> HIDE DEF l
    <3>3. /\ Base(W) /\ Entries(W) = Entries(F) /\ DirsCounted(W) /\ UsedOK(W) /\ Untouched(F, W)
          /\ Modes(W) = Modes(V) /\ LinksOf(W)[f] = l /\ \A x \in Inodes : x # f => LinksOf(W)[x] = LinksOf(V)[x]
      BY <2>2, <2>7, <2>10, <2>11, <3>1, <3>2, RelinkedFile
    <3>4. LosesName(Modes(V), LinksOf(V), Entries(V), Modes(W), LinksOf(W), Entries(W), d, a, f)
      <4>1. LinksOf(W)[f] = LinksOf(V)[f] - 1
        BY <2>12, <3>3 DEF l
      <4> QED BY <2>5, <2>8, <2>9, <2>12, <2>14, <3>3, <4>1, Zenon DEF LosesName
    <3>5. TreeOK(Modes(W), LinksOf(W), Entries(W))
      BY <1>1, <3>4, LoseName
    <3>6. Sound(W) /\ VolumeOK(W)
      BY <3>3, <3>5 DEF Sound, Base, Core
    <3>7. Untouched(V, W) /\ Others(V, W, f)
      <4>1. Untouched(V, W)
        BY <2>11, <3>3, UntouchedThen
      <4> QED BY <4>1 DEF Untouched, Others
    <3>8. RemovedFile(V, W, d, a)
      BY <2>2, <2>3, <2>5, <2>9, <2>14, <3>3, <3>6, <3>7, Zenon DEF RemovedFile
    <3> QED BY <3>6, <3>8
  <2> QED BY <2>13, <2>14
<1> QED BY <1>4, <1>5

(* engine_rmdir: only "." and ".." are left in a directory that goes. *)
LEMMA EmptyIs ==
  ASSUME NEW V, Base(V), NEW n \in Inodes, V.node[n].mode = "dir", EmptyDirectory(V, n), NEW c, NEW m,
         <<n, c, m>> \in Entries(V)
  PROVE  c \in Dots
<1> DEFINE B == DirOf(V, n)
<1>1. Lists(V, n, c, m)
  BY EntryIs, Zenon
<1>2. Shape(B) /\ Has(B, c, m)
  BY <1>1 DEF Base, Lists
<1>3. PICK i, j : Here(B, i, j) /\ B[i][j].name = c /\ B[i][j].ino = m
  BY <1>2 DEF Has
<1>4. <<i, j>> \in Places(V, n)
  BY <1>2, <1>3, PlacesAre DEF Here
<1> DEFINE p == <<i, j>>
<1>5. p[1] = i /\ p[2] = j
  OBVIOUS
<1> HIDE DEF p
<1>6. p \in Places(V, n)
  BY <1>4 DEF p
<1>7. At(V, n, p) = B[i][j]
  BY <1>2, <1>5, <1>6, PlacesAre
<1>8. At(V, n, p).ino = 0 \/ At(V, n, p).name \in Dots
  BY <1>6 DEF EmptyDirectory
<1> QED BY <1>3, <1>7, <1>8 DEF Here

RemovedDir(V, W, d, a) ==
  \E n \in Inodes :
    /\ Sound(W) /\ V.node[n].mode = "dir" /\ W.node[n].mode = "none" /\ Others(V, W, n)
    /\ <<d, a, n>> \in Entries(V) /\ \A c, m : <<n, c, m>> \in Entries(V) => c \in Dots
    /\ Entries(W) = {e \in Entries(V) : e # <<d, a, n>> /\ e[1] # n}

(* The parent loses a link and the group a directory. *)
LEMMA RelinkedDir ==
  ASSUME NEW V, Base(V), NEW d \in Inodes, V.node[d].mode = "dir", NEW g \in Groups,
         NEW l \in Int, l >= 1, NEW c \in Int, NEW R, Relinked(V, R, d, g, l, c)
  PROVE  /\ Base(R) /\ Linked(V, R, d, g, l, c) /\ Entries(R) = Entries(V) /\ Untouched(V, R) /\ DirOf(R, d) = DirOf(V, d)
<1>1. Core(V) /\ NodeShape(V, d) /\ Shape(DirOf(V, d)) /\ VolumeOK(V)
  BY DEF Base, Core
<1>2. Linked(V, R, d, g, l, c)
  BY <1>1, RelinkFacts
<1>3. /\ Core(R) /\ R.used = V.used /\ R.node[d].links = l
      /\ \A m \in Inodes : Alike(V, R, m) /\ (m # d => R.node[m] = V.node[m])
  BY <1>2 DEF Linked
<1>4. DirOf(R, d) = DirOf(V, d)
  BY <1>3, AlikeDir
<1>5. \A m \in Inodes : m # d => Lives(V, R, m)
  <2> SUFFICES ASSUME NEW m \in Inodes, m # d PROVE Lives(V, R, m)
    OBVIOUS
  <2>1. NodeShape(V, m) /\ Alike(V, R, m) /\ R.node[m] = V.node[m] /\ R.used["inode"] = V.used["inode"]
    BY <1>3 DEF Base
  <2> QED BY <2>1 DEF Lives, NodeShape
<1>6. NodeShape(R, d)
  <2>1. /\ R.node[d].mode = "dir" /\ R.node[d].size = V.node[d].size /\ R.used["inode"] = V.used["inode"]
        /\ R.node[d].links >= 1
    BY <1>3 DEF Alike
  <2>2. Full(R, d) = Full(V, d)
    BY <1>3, AlikePtr
  <2>3. d \in V.used["inode"] /\ V.node[d].size \in 1 .. DIRECT /\ Full(V, d) = 0 .. V.node[d].size - 1
    BY <1>1 DEF NodeShape
  <2> QED BY <2>1, <2>2, <2>3 DEF NodeShape
<1>7. Base(R)
  BY <1>1, <1>3, <1>4, <1>5, <1>6, LivesBase
<1>8. Entries(R) = Entries(V)
  <2>1. ASSUME NEW e \in Triples PROVE Lists(R, e[1], e[2], e[3]) <=> Lists(V, e[1], e[2], e[3])
    BY <1>3, AlikeLists
  <2> QED BY <2>1 DEF Entries
<1>9. Untouched(V, R)
  BY <1>3 DEF Untouched, Alike
<1> QED BY <1>2, <1>4, <1>7, <1>8, <1>9

LEMMA RemoveDirFacts ==
  ASSUME NEW V, Sound(V), V.ok = TRUE, NEW d \in Inodes, V.node[d].mode = "dir", NEW a \in Names,
         NEW W, W = RemoveDirectory(V, d, a)
  PROVE  VolumeOK(W) /\ (W.ok => RemovedDir(V, W, d, a))
<1> DEFINE n == Lookup(V, d, a)
           g == GroupOf("inode", n)
           l == V.node[d].links - 1
           c == V.gd[g]["dirs"] - 1
           R == [V EXCEPT !.node[d].links = @ - 1, !.gd[GroupOf("inode", n)]["dirs"] = @ - 1]
           F == Erase(R, d, a)
<1>1. /\ Base(V) /\ VolumeOK(V) /\ Core(V) /\ DirsCounted(V) /\ UsedOK(V) /\ InodesOK(V)
      /\ TreeOK(Modes(V), LinksOf(V), Entries(V)) /\ EntriesOK(Modes(V), Entries(V))
      /\ LinksOK(Modes(V), LinksOf(V), Entries(V))
  BY DEF Sound, Base, Core, TreeOK
<1>2. n = -1 \/ n \in Inodes
  BY <1>1, LookupEntry
<1>3. W = RemoveDirectoryNode(V, d, n, a)
  BY DEF RemoveDirectory
<1>4. Relinked(V, R, d, g, l, c)
  BY <1>1 DEF Relinked, VolumeOK
<1> HIDE DEF n, g, l, c
<1>5. CASE n < FIRST_INODE \/ ~Supported(V, n, "dir") \/ V.node[n].links # 2 \/ ~EmptyDirectory(V, n)
  <2>1. W = Failed(V)
    BY <1>3, <1>5 DEF RemoveDirectoryNode
  <2> QED BY <1>1, <2>1, FailedOK
<1>6. CASE ~(n < FIRST_INODE \/ ~Supported(V, n, "dir") \/ V.node[n].links # 2 \/ ~EmptyDirectory(V, n))
  <2>1. W = DropLink(F, n, 0)
    BY <1>3, <1>6, Zenon DEF RemoveDirectoryNode, F, R
  <2> HIDE DEF F, R
  <2>2. n \in Inodes /\ n >= FIRST_INODE /\ EmptyDirectory(V, n)
    BY <1>2, <1>6, TreeAssumption DEF Inodes
  <2>3. V.node[n].mode = "dir" /\ n \in V.used["inode"]
    BY <1>6 DEF Supported
  <2>4. /\ <<d, a, n>> \in Entries(V) /\ \A m : <<d, a, m>> \in Entries(V) => m = n
    BY <2>2, FoundEntry DEF n
  <2>5. a \in AllNames /\ a \notin Dots
    BY TreeAssumption DEF AllNames
  <2>6. \A b, m : <<n, b, m>> \in Entries(V) => b \in Dots
    BY <1>1, <2>2, <2>3, EmptyIs
  <2>7. n # d
    BY <2>4, <2>5, <2>6, Zenon
  <2>8. Modes(V)[n] = "dir" /\ Modes(V)[d] = "dir" /\ LinksOf(V)[d] = V.node[d].links
    BY <2>2, <2>3, TablesAre
  <2>9. l \in Int /\ l >= 1 /\ LinksOf(V)[d] \in Int
    <3>1. IsFiniteSet(Subs(Modes(V), Entries(V), d))
      BY <1>1, EntryType
    <3>2. Cardinality(Subs(Modes(V), Entries(V), d)) \in Nat
      BY <3>1, FS_CardinalityType
    <3>3. LinksOf(V)[d] = 2 + Cardinality(Subs(Modes(V), Entries(V), d))
      BY <1>1, <2>8 DEF LinksOK
    <3> QED BY <2>8, <3>2, <3>3 DEF l
  <2>10. g \in Groups
    BY <2>2, InodeGroup DEF g
  <2>11. c \in Int
    <3>1. V.gd \in [Groups -> [Kinds \cup {"dirs"} -> Int]]
      BY <1>1 DEF VolumeOK
    <3> QED BY <2>10, <3>1 DEF c
  <2>12. Base(R) /\ Linked(V, R, d, g, l, c) /\ Entries(R) = Entries(V) /\ Untouched(V, R) /\ DirOf(R, d) = DirOf(V, d)
    BY <1>1, <1>4, <2>9, <2>10, <2>11, RelinkedDir
  <2>13. /\ R.ok = TRUE /\ R.used = V.used /\ R.node[d].mode = "dir" /\ R.node[d].links = l /\ R.gd[g]["dirs"] = c
         /\ \A m \in Inodes : m # d => R.node[m] = V.node[m]
         /\ \A h \in Groups : h # g => R.gd[h]["dirs"] = V.gd[h]["dirs"]
    BY <2>12 DEF Linked, Alike
  <2>14. PICK m, i, j : Found(R, d, a, m, i, j)
    <3>1. <<d, a, n>> \in Entries(R)
      BY <2>4, <2>12
    <3>2. Lists(R, d, a, n)
      BY <2>12, <3>1, EntryIs, Zenon
    <3> QED BY <2>12, <2>13, <3>2, LookupIs DEF Lists
  <2>15. Unlisted(R, F, d, a)
    BY <2>12, <2>13, <2>14, EraseFacts DEF F
  <2>16. Base(F) /\ Core(F) /\ Elsewhere(R, F, d) /\ F.ok = TRUE /\ F.node[n] = V.node[n] /\ n \in F.used["inode"]
    BY <2>2, <2>3, <2>7, <2>13, <2>15 DEF Unlisted, Elsewhere, Base
  <2>17. Entries(F) = Entries(V) \ {<<d, a, n>>}
    <3>1. Drops(Entries(V), Entries(F), d, a) /\ Entries(V) \in SUBSET Triples /\ Entries(F) \in SUBSET Triples
      BY <2>12, <2>13, <2>15, UnlistedEntries, EntriesAre
    <3>2. \A k : <<d, a, k>> \in Entries(V) => k = n
      BY <2>4
    <3> QED BY <3>1, <3>2, DropsIs, Zenon
  <2>18. Modes(F) = Modes(R) /\ LinksOf(F) = LinksOf(R)
    BY <2>16, ElsewhereTables
  <2>19. Freed(F, W, n)
    BY <2>1, <2>2, <2>16, DropFacts
  <2>20. Base(W)
    BY <2>2, <2>16, <2>19, FreedBase
  <2>21. Entries(W) = {e \in Entries(V) : e # <<d, a, n>> /\ e[1] # n}
    <3>1. ASSUME NEW e \in Triples PROVE e \in Entries(W) <=> e \in Entries(F) /\ e[1] # n
      <4>1. Lists(W, e[1], e[2], e[3]) <=> Lists(F, e[1], e[2], e[3]) /\ e[1] # n
        BY <2>2, <2>16, <2>19, FreedLists
      <4> QED BY <4>1 DEF Entries
    <3>2. Entries(V) \in SUBSET Triples /\ Entries(W) \in SUBSET Triples /\ Entries(F) \in SUBSET Triples
      BY EntriesAre
    <3> QED BY <2>17, <3>1, <3>2, Zenon
  <2>22. \A x \in Inodes : /\ x # n => Modes(W)[x] = Modes(V)[x] /\ (x # d => LinksOf(W)[x] = LinksOf(V)[x])
                           /\ W.node[x].mode = IF x = n THEN "none" ELSE V.node[x].mode
    <3> SUFFICES ASSUME NEW x \in Inodes
                 PROVE  /\ x # n => Modes(W)[x] = Modes(V)[x] /\ (x # d => LinksOf(W)[x] = LinksOf(V)[x])
                        /\ W.node[x].mode = IF x = n THEN "none" ELSE V.node[x].mode
      OBVIOUS
    <3>1. CASE x = n
      BY <2>19, <3>1 DEF Freed
    <3>2. CASE x # n
      <4>1. W.node[x] = F.node[x]
        BY <2>19, <3>2 DEF Freed
      <4>2. F.node[x].mode = R.node[x].mode /\ F.node[x].links = R.node[x].links
        BY <2>16 DEF Elsewhere
      <4>3. R.node[x].mode = V.node[x].mode
        BY <2>12 DEF Untouched
      <4>4. x # d => R.node[x].links = V.node[x].links
        BY <2>13
      <4> QED BY <3>2, <4>1, <4>2, <4>3, <4>4, TablesAre
    <3> QED BY <3>1, <3>2
  <2>23. Modes(W)[n] = "none" /\ LinksOf(W)[d] = LinksOf(V)[d] - 1
    <3>1. W.node[n].mode = "none" /\ W.node[d] = F.node[d]
      BY <2>7, <2>19 DEF Freed
    <3>2. F.node[d].links = l
      BY <2>13, <2>16 DEF Elsewhere
    <3> QED BY <2>2, <2>8, <3>1, <3>2, TablesAre DEF l
  <2>24. TreeOK(Modes(W), LinksOf(W), Entries(W))
    <3>1. LosesDir(Modes(V), LinksOf(V), Entries(V), Modes(W), LinksOf(W), Entries(W), d, a, n)
      BY <2>4, <2>5, <2>6, <2>8, <2>21, <2>22, <2>23, Zenon DEF LosesDir
    <3> QED BY <1>1, <3>1, LoseDir
  <2>25. DirsCounted(W)
    <3> SUFFICES ASSUME NEW h \in Groups PROVE W.gd[h]["dirs"] = Cardinality(DirsIn(W, h))
      BY DEF DirsCounted
    <3>1. W.gd[h]["dirs"] = R.gd[h]["dirs"] /\ V.gd[h]["dirs"] = Cardinality(DirsIn(V, h))
      BY <1>1, <2>16, <2>19 DEF Elsewhere, Freed, DirsCounted
    <3>2. IsFiniteSet(DirsIn(V, h)) /\ Cardinality(DirsIn(V, h)) \in Nat
      BY DirsFinite
    <3>3. CASE h = g
      <4>1. DirsIn(W, h) = DirsIn(V, h) \ {n} /\ n \in DirsIn(V, h)
        BY <2>2, <2>3, <2>22, <3>3 DEF DirsIn, g
      <4>2. Cardinality(DirsIn(W, h)) = Cardinality(DirsIn(V, h)) - 1
        BY <3>2, <4>1, FS_RemoveElement
      <4> QED BY <2>13, <3>1, <3>3, <4>2 DEF c
    <3>4. CASE h # g
      <4>1. DirsIn(W, h) = DirsIn(V, h)
        BY <2>22, <3>4 DEF DirsIn, g
      <4> QED BY <2>13, <3>1, <3>4, <4>1
    <3> QED BY <3>3, <3>4
  <2>26. UsedOK(W)
    <3>1. W.used["inode"] = V.used["inode"] \ {n} /\ V.used["inode"] \subseteq Inodes
      BY <1>1, <2>13, <2>16, <2>19 DEF Freed, Elsewhere, InodesOK
    <3> QED BY <1>1, <2>22, <3>1 DEF UsedOK
  <2>27. Sound(W) /\ VolumeOK(W)
    BY <2>20, <2>24, <2>25, <2>26 DEF Sound, Base, Core
  <2>28. Others(V, W, n)
    <3>1. ASSUME NEW m1 \in Inodes, m1 # n, V.node[m1].mode = "file" PROVE Alike(V, W, m1)
      <4>1. Alike(V, R, m1)
        BY <2>12, <3>1 DEF Untouched
      <4>2. Alike(R, F, m1)
        <5>1. Untouched(R, F)
          BY <2>12, <2>13, <2>16, DirUntouched
        <5>2. R.node[m1].mode = "file"
          BY <3>1, <4>1 DEF Alike
        <5> QED BY <5>1, <5>2 DEF Untouched
      <4>3. Alike(F, W, m1)
        BY <2>19, <3>1 DEF Freed
      <4> QED BY <4>1, <4>2, <4>3, AlikeThen
    <3> QED BY <2>22, <3>1 DEF Others
  <2>29. W.node[n].mode = "none"
    BY <2>19 DEF Freed
  <2>30. RemovedDir(V, W, d, a)
    BY <2>2, <2>3, <2>4, <2>6, <2>21, <2>27, <2>28, <2>29, Zenon DEF RemovedDir
  <2> QED BY <2>27, <2>30
<1> QED BY <1>5, <1>6

-----------------------------------------------------------------------------
(* begin and finish: the result flags and the hint are not part of the tree *)

SameDisk(V, W) ==
  VolumeOK(W) /\ W.used = V.used /\ W.sb = V.sb /\ W.gd = V.gd /\ W.node = V.node /\ W.data = V.data

LEMMA SoundSame ==
  ASSUME NEW V, Sound(V), NEW W, SameDisk(V, W)
  PROVE  Sound(W) /\ Entries(W) = Entries(V) /\ Untouched(V, W)
<1>1. /\ VolumeOK(W) /\ W.used = V.used /\ W.sb = V.sb /\ W.gd = V.gd /\ W.node = V.node /\ W.data = V.data
  BY DEF SameDisk
<1>2. /\ Core(V) /\ DirsCounted(V) /\ UsedOK(V) /\ TreeOK(Modes(V), LinksOf(V), Entries(V)) /\ Base(V)
      /\ \A n \in Inodes : NodeShape(V, n)
      /\ \A d \in Inodes : V.node[d].mode = "dir" => Shape(DirOf(V, d))
  BY DEF Sound, Base
<1>3. Counted(W)
  BY <1>1, <1>2, CountsStay DEF Core
<1>4. \A n \in Inodes, i \in Cells : Ptr(W, n, i) = Ptr(V, n, i)
  BY <1>1 DEF Ptr, FileBlock
<1>5. \A n \in Inodes : Alike(V, W, n)
  BY <1>1 DEF Alike
<1>6. Owned(W)
  <2>1. IndirectOK(V) /\ Owned(V)
    BY <1>2 DEF Core, Owned
  <2>2. IndirectOK(W)
    BY <1>1, <2>1 DEF IndirectOK
  <2> QED BY <1>1, <1>4, <2>1, <2>2, SameOwned
<1>7. Core(W)
  <2>1. InodesOK(W)
    BY <1>1, <1>2 DEF Core, InodesOK
  <2> QED BY <1>1, <1>3, <1>6, <2>1 DEF Core
<1>8. \A n \in Inodes : NodeShape(W, n)
  <2> SUFFICES ASSUME NEW n \in Inodes PROVE NodeShape(W, n)
    OBVIOUS
  <2>1. Full(W, n) = Full(V, n)
    BY <1>5, AlikePtr
  <2> QED BY <1>1, <1>2, <2>1 DEF NodeShape
<1>9. \A d \in Inodes : W.node[d].mode = "dir" => Shape(DirOf(W, d))
  BY <1>1, <1>2 DEF DirOf, RecordsOf
<1>10. Base(W)
  BY <1>7, <1>8, <1>9 DEF Base
<1>11. Entries(W) = Entries(V)
  <2>1. ASSUME NEW e \in Triples PROVE Lists(W, e[1], e[2], e[3]) <=> Lists(V, e[1], e[2], e[3])
    BY <1>2, <1>5, AlikeLists
  <2> QED BY <2>1 DEF Entries
<1>12. Modes(W) = Modes(V) /\ LinksOf(W) = LinksOf(V)
  BY <1>1 DEF Modes, LinksOf
<1>13. DirsCounted(W) /\ UsedOK(W)
  BY <1>1, <1>2 DEF DirsCounted, DirsIn, UsedOK
<1>14. Untouched(V, W)
  BY <1>1, <1>5 DEF Untouched
<1> QED BY <1>2, <1>10, <1>11, <1>12, <1>13, <1>14 DEF Sound

(* finish: what a call leaves is what its work leaves, or what was there. *)
Finished(V, W, X) ==
  X = [IF W.ok THEN W ELSE [V EXCEPT !.hint = W.hint] EXCEPT !.ok = TRUE, !.ret = 0]

LEMMA RetOK == ASSUME NEW V, VolumeOK(V), NEW r \in Int, NEW X, X = [V EXCEPT !.ret = r] PROVE VolumeOK(X)
<1>1. X.data = V.data
  BY DEF VolumeOK
<1> QED BY <1>1 DEF VolumeOK

LEMMA Flagged == ASSUME NEW V, VolumeOK(V), NEW X, X = [V EXCEPT !.ok = TRUE, !.ret = 0] PROVE VolumeOK(X)
<1> DEFINE Y == [V EXCEPT !.ok = TRUE]
<1>1. Y.data = V.data
  BY DEF VolumeOK
<1>2. VolumeOK(Y)
  BY <1>1 DEF VolumeOK
<1>3. X = [Y EXCEPT !.ret = 0]
  OBVIOUS
<1> HIDE DEF Y
<1>4. PICK r \in Int : r = 0
  OBVIOUS
<1>5. X = [Y EXCEPT !.ret = r]
  BY <1>3, <1>4
<1> QED BY <1>2, <1>5, RetOK

LEMMA FinishFacts ==
  ASSUME NEW V, VolumeOK(V), NEW W, VolumeOK(W), NEW X, Finished(V, W, X)
  PROVE  X.ok = TRUE /\ (W.ok => SameDisk(W, X)) /\ (~W.ok => SameDisk(V, X))
<1>1. CASE W.ok
  <2>1. X = [W EXCEPT !.ok = TRUE, !.ret = 0]
    BY <1>1 DEF Finished
  <2>2. /\ X.ok = TRUE /\ X.used = W.used /\ X.sb = W.sb /\ X.gd = W.gd /\ X.node = W.node /\ X.data = W.data
    BY <2>1 DEF VolumeOK
  <2>3. VolumeOK(X)
    BY <2>1, Flagged, Zenon
  <2> QED BY <1>1, <2>2, <2>3 DEF SameDisk
<1>2. CASE ~W.ok
  <2>1. X = [V EXCEPT !.hint = W.hint, !.ok = TRUE, !.ret = 0]
    BY <1>2 DEF Finished, VolumeOK
  <2>2. /\ X.ok = TRUE /\ X.used = V.used /\ X.sb = V.sb /\ X.gd = V.gd /\ X.node = V.node /\ X.data = V.data
    BY <2>1 DEF VolumeOK
  <2>3. W.hint \in [Kinds -> Groups]
    BY DEF VolumeOK
  <2>4. VolumeOK(X)
    <3> DEFINE Y == [V EXCEPT !.hint = W.hint]
    <3>1. Y.data = V.data
      BY DEF VolumeOK
    <3>2. VolumeOK(Y)
      BY <2>3, <3>1 DEF VolumeOK
    <3>3. X = [Y EXCEPT !.ok = TRUE, !.ret = 0]
      BY <2>1
    <3> HIDE DEF Y
    <3> QED BY <3>2, <3>3, Flagged, Zenon
  <2> QED BY <1>2, <2>2, <2>4 DEF SameDisk
<1> QED BY <1>1, <1>2

LEMMA GroupZero == 0 \in Groups /\ Formatted.hint \in [Kinds -> Groups]
<1>1. 0 \in Groups
  BY GroupsAre DEF Groups
<1>2. Formatted.hint = [k \in Kinds |-> 0]
  BY DEF Formatted, Kinds
<1> QED BY <1>1, <1>2

LEMMA RemountFacts ==
  ASSUME NEW V, VolumeOK(V), NEW X, X = [V EXCEPT !.hint = Formatted.hint]
  PROVE  X.ok = V.ok /\ SameDisk(V, X)
<1> DEFINE h == Formatted.hint
<1>1. h \in [Kinds -> Groups] /\ X = [V EXCEPT !.hint = h]
  BY GroupZero
<1> HIDE DEF h
<1>2. /\ X.ok = V.ok /\ X.used = V.used /\ X.sb = V.sb /\ X.gd = V.gd /\ X.node = V.node /\ X.data = V.data
  BY <1>1 DEF VolumeOK
<1>3. VolumeOK(X)
  BY <1>1, <1>2 DEF VolumeOK
<1> QED BY <1>2, <1>3 DEF SameDisk

LEMMA WorkDirIs ==
  ASSUME Sound(vol), NEW d \in WorkDirs
  PROVE  d \in Inodes /\ vol.node[d].mode = "dir"
<1>1. d \in vol.used["inode"] /\ vol.node[d].mode = "dir"
  BY DEF WorkDirs, Supported
<1>2. vol.used["inode"] \subseteq Inodes
  BY DEF Sound, Base, Core, InodesOK
<1> QED BY <1>1, <1>2

(* What a call that succeeds does to the tree *)
Call(V, W) ==
  \E d \in Inodes, a \in Names :
    /\ V.node[d].mode = "dir"
    /\ \/ \E type \in {"file", "dir"} : CreatedAs(V, W, d, a, type)
       \/ \E t \in Texts : Added(V, W, d, a, t)
       \/ CopiedAs(V, W, d, a)
       \/ \E b \in Names : MovedAs(V, W, d, a, b)
       \/ RemovedFile(V, W, d, a)
       \/ RemovedDir(V, W, d, a)

LEMMA CallSound == ASSUME NEW V, NEW W, Call(V, W) PROVE Sound(W)
<1>1. PICK d \in Inodes, a \in Names :
        \/ \E type \in {"file", "dir"} : CreatedAs(V, W, d, a, type)
        \/ \E t \in Texts : Added(V, W, d, a, t)
        \/ CopiedAs(V, W, d, a)
        \/ \E b \in Names : MovedAs(V, W, d, a, b)
        \/ RemovedFile(V, W, d, a)
        \/ RemovedDir(V, W, d, a)
  BY DEF Call
<1>2. \A type : CreatedAs(V, W, d, a, type) => Sound(W)
  BY DEF CreatedAs, Made, MadeDir
<1>3. \A t : Added(V, W, d, a, t) => Sound(W)
  BY DEF Added, Rewrote, Filled, New
<1>4. CopiedAs(V, W, d, a) => Sound(W)
  BY DEF CopiedAs, New
<1>5. \A b : MovedAs(V, W, d, a, b) => Sound(W)
  BY DEF MovedAs
<1>6. RemovedFile(V, W, d, a) \/ RemovedDir(V, W, d, a) => Sound(W)
  BY DEF RemovedFile, RemovedDir
<1> QED BY <1>1, <1>2, <1>3, <1>4, <1>5, <1>6

(* A call works, or leaves what was there. *)
Stepped(V, X) == X.ok = TRUE /\ (SameDisk(V, X) \/ \E W : Call(V, W) /\ SameDisk(W, X))

LEMMA CallStep ==
  ASSUME NEW W, VolumeOK(vol), VolumeOK(W), W.ok => Call(vol, W), FinishWith(W)
  PROVE  Stepped(vol, vol')
<1>1. Finished(vol, W, vol')
  BY DEF FinishWith, Finished
<1>2. vol'.ok = TRUE /\ (W.ok => SameDisk(W, vol')) /\ (~W.ok => SameDisk(vol, vol'))
  BY <1>1, FinishFacts
<1> QED BY <1>2 DEF Stepped

LEMMA StepFacts ==
  ASSUME Sound(vol), vol.ok = TRUE, TreeNext
  PROVE  Stepped(vol, vol')
<1>0. VolumeOK(vol)
  BY DEF Sound, Base, Core
<1>1. ASSUME NEW d \in WorkDirs, NEW a \in Names, Touch(d, a) \/ Mkdir(d, a) \/ Rm(d, a) \/ Rmdir(d, a)
      PROVE  Stepped(vol, vol')
  <2>0. d \in Inodes /\ vol.node[d].mode = "dir"
    BY WorkDirIs
  <2>1. CASE Touch(d, a)
    <3>1. PICK W : W = Create(vol, d, a, "file") /\ FinishWith(W)
      BY <2>1 DEF Touch
    <3>2. VolumeOK(W) /\ (W.ok => CreatedAs(vol, W, d, a, "file"))
      BY <2>0, <3>1, CreateFacts
    <3>3. W.ok => Call(vol, W)
      BY <2>0, <3>2 DEF Call
    <3> QED BY <1>0, <3>1, <3>2, <3>3, CallStep
  <2>2. CASE Mkdir(d, a)
    <3>1. PICK W : W = Create(vol, d, a, "dir") /\ FinishWith(W)
      BY <2>2 DEF Mkdir
    <3>2. VolumeOK(W) /\ (W.ok => CreatedAs(vol, W, d, a, "dir"))
      BY <2>0, <3>1, CreateFacts
    <3>3. W.ok => Call(vol, W)
      BY <2>0, <3>2 DEF Call
    <3> QED BY <1>0, <3>1, <3>2, <3>3, CallStep
  <2>3. CASE Rm(d, a)
    <3>1. PICK W : W = RemoveFile(vol, d, a) /\ FinishWith(W)
      BY <2>3 DEF Rm
    <3>2. VolumeOK(W) /\ (W.ok => RemovedFile(vol, W, d, a))
      BY <2>0, <3>1, RemoveFileFacts
    <3>3. W.ok => Call(vol, W)
      BY <2>0, <3>2 DEF Call
    <3> QED BY <1>0, <3>1, <3>2, <3>3, CallStep
  <2>4. CASE Rmdir(d, a)
    <3>1. PICK W : W = RemoveDirectory(vol, d, a) /\ FinishWith(W)
      BY <2>4 DEF Rmdir
    <3>2. VolumeOK(W) /\ (W.ok => RemovedDir(vol, W, d, a))
      BY <2>0, <3>1, RemoveDirFacts
    <3>3. W.ok => Call(vol, W)
      BY <2>0, <3>2 DEF Call
    <3> QED BY <1>0, <3>1, <3>2, <3>3, CallStep
  <2> QED BY <1>1, <2>1, <2>2, <2>3, <2>4
<1>2. ASSUME NEW d \in WorkDirs, NEW a \in Names, NEW t \in Texts, Write(d, a, t) \/ AppendTo(d, a, t)
      PROVE  Stepped(vol, vol')
  <2>0. d \in Inodes /\ vol.node[d].mode = "dir"
    BY WorkDirIs
  <2>1. PICK S : t \in Seq(S)
    BY TreeAssumption
  <2>2. CASE Write(d, a, t)
    <3>1. PICK W : W = WriteFile(vol, d, a, t) /\ FinishWith(W)
      BY <2>2 DEF Write
    <3>2. VolumeOK(W) /\ (W.ok => Rewrote(vol, W, d, a, t))
      BY <2>0, <2>1, <3>1, WriteFileFacts
    <3>3. W.ok => Call(vol, W)
      BY <2>0, <3>2 DEF Call, Added
    <3> QED BY <1>0, <3>1, <3>2, <3>3, CallStep
  <2>3. CASE AppendTo(d, a, t)
    <3>1. PICK W : W = AppendFile(vol, d, a, t) /\ FinishWith(W)
      BY <2>3 DEF AppendTo
    <3>2. VolumeOK(W) /\ (W.ok => Added(vol, W, d, a, t))
      BY <2>0, <2>1, <3>1, AppendFacts
    <3>3. W.ok => Call(vol, W)
      BY <2>0, <3>2 DEF Call
    <3> QED BY <1>0, <3>1, <3>2, <3>3, CallStep
  <2> QED BY <1>2, <2>2, <2>3
<1>3. ASSUME NEW d \in WorkDirs, NEW a \in Names, NEW b \in Names, Cp(d, a, b) \/ Mv(d, a, b)
      PROVE  Stepped(vol, vol')
  <2>0. d \in Inodes /\ vol.node[d].mode = "dir"
    BY WorkDirIs
  <2>1. CASE Cp(d, a, b)
    <3>1. PICK W : W = CopyFile(vol, d, a, b) /\ FinishWith(W)
      BY <2>1 DEF Cp
    <3>2. VolumeOK(W) /\ (W.ok => CopiedAs(vol, W, d, b))
      BY <2>0, <3>1, CopyFacts
    <3>3. W.ok => Call(vol, W)
      BY <2>0, <3>2 DEF Call
    <3> QED BY <1>0, <3>1, <3>2, <3>3, CallStep
  <2>2. CASE Mv(d, a, b)
    <3>1. PICK W : W = MoveEntry(vol, d, a, b) /\ FinishWith(W)
      BY <2>2 DEF Mv
    <3>2. VolumeOK(W) /\ (W.ok => MovedAs(vol, W, d, a, b))
      BY <2>0, <3>1, MoveFacts
    <3>3. W.ok => Call(vol, W)
      BY <2>0, <3>2 DEF Call
    <3> QED BY <1>0, <3>1, <3>2, <3>3, CallStep
  <2> QED BY <1>3, <2>1, <2>2
<1>4. ASSUME Remount PROVE Stepped(vol, vol')
  <2>1. vol' = [vol EXCEPT !.hint = Formatted.hint]
    BY <1>4 DEF Remount
  <2>2. vol'.ok = vol.ok /\ SameDisk(vol, vol')
    BY <1>0, <2>1, RemountFacts, Zenon
  <2> QED BY <2>2 DEF Stepped
<1> QED BY <1>1, <1>2, <1>3, <1>4 DEF TreeNext

-----------------------------------------------------------------------------
(* fs_format_selected makes a sound volume. *)

(* The inodes of a group that may be allocated, and of the volume *)
LEMMA InodesOfGroup ==
  ASSUME NEW g \in Groups
  PROVE  Cardinality(Candidates("inode", g)) = INODES_PER_GROUP - (IF g = 0 THEN FIRST_INODE - 1 ELSE 0)
<1>1. g \in Nat /\ INODES_PER_GROUP \in Nat /\ FIRST_INODE \in Nat /\ FIRST_INODE <= INODES_PER_GROUP + 1
      /\ INODES_PER_GROUP >= 1
  BY GroupsAre, TreeAssumption
<1>2. PICK p \in Nat : p = g * INODES_PER_GROUP
  BY <1>1, Multiples
<1>3. (g + 1) * INODES_PER_GROUP = p + INODES_PER_GROUP
  BY <1>1, <1>2
<1> DEFINE first == IF g = 0 THEN FIRST_INODE ELSE 1
           lo == p + first
           hi == p + INODES_PER_GROUP
<1>4. Candidates("inode", g) = lo .. hi
  BY <1>2, <1>3 DEF Candidates
<1>5. lo \in Int /\ hi \in Int
  BY <1>1
<1>6. Cardinality(lo .. hi) = IF lo > hi THEN 0 ELSE hi - lo + 1
  BY <1>5, FS_Interval
<1> QED BY <1>1, <1>4, <1>6

LEMMA InodeSum ==
  ASSUME NEW s, \A g \in 1 .. GROUPS : s[g] = Cardinality(Candidates("inode", g - 1))
  PROVE  SumTo(s, GROUPS) = Cardinality(Inodes) - (FIRST_INODE - 1)
<1>1. INODES_PER_GROUP \in Nat /\ FIRST_INODE \in Nat /\ GROUPS \in Nat /\ GROUPS >= 1
  BY GroupsAre, TreeAssumption
<1>2. \A g \in 1 .. GROUPS : g - 1 \in Groups /\ g \in Nat
  BY <1>1 DEF Groups
<1>3. \A g \in 1 .. GROUPS : s[g] = INODES_PER_GROUP - (IF g = 1 THEN FIRST_INODE - 1 ELSE 0)
  <2> SUFFICES ASSUME NEW g \in 1 .. GROUPS PROVE s[g] = INODES_PER_GROUP - (IF g = 1 THEN FIRST_INODE - 1 ELSE 0)
    OBVIOUS
  <2>1. g - 1 \in Groups /\ g \in Nat
    BY <1>2
  <2>2. Cardinality(Candidates("inode", g - 1)) = INODES_PER_GROUP - (IF g - 1 = 0 THEN FIRST_INODE - 1 ELSE 0)
    BY <2>1, InodesOfGroup
  <2> QED BY <2>1, <2>2
<1> DEFINE Bad == {g \in 1 .. GROUPS : SumTo(s, g) # g * INODES_PER_GROUP - (FIRST_INODE - 1)}
<1>4. Bad = {}
  <2> SUFFICES ASSUME Bad # {} PROVE FALSE
    OBVIOUS
  <2>1. PICK g \in Bad : \A h \in Bad : g <= h
    <3>1. Bad \in SUBSET Nat
      BY <1>1
    <3> QED BY <3>1, LeastNat
  <2>2. g \in Nat /\ g >= 1 /\ g \in 1 .. GROUPS /\ g - 1 \in Nat /\ (g - 1) + 1 = g
    BY <1>1, <2>1
  <2>3. SumTo(s, g) = SumTo(s, g - 1) + s[g]
    BY <2>2, SumNext
  <2>4. CASE g = 1
    <3>1. SumTo(s, 0) = 0
      BY SumNext
    <3>2. s[1] = INODES_PER_GROUP - (FIRST_INODE - 1)
      BY <1>3, <2>2, <2>4
    <3>3. SumTo(s, 1) = INODES_PER_GROUP - (FIRST_INODE - 1)
      BY <1>1, <2>3, <2>4, <3>1, <3>2
    <3>4. 1 * INODES_PER_GROUP = INODES_PER_GROUP
      BY <1>1
    <3> QED BY <2>1, <2>4, <3>3, <3>4
  <2>5. CASE g # 1
    <3>1. g - 1 \in 1 .. GROUPS /\ g - 1 \notin Bad
      BY <1>1, <2>1, <2>2, <2>5
    <3>2. SumTo(s, g - 1) = (g - 1) * INODES_PER_GROUP - (FIRST_INODE - 1)
      BY <3>1
    <3>3. s[g] = INODES_PER_GROUP
      BY <1>1, <1>3, <2>2, <2>5
    <3>4. PICK p \in Nat : p = (g - 1) * INODES_PER_GROUP
      BY <1>1, <2>2, Multiples
    <3>5. g * INODES_PER_GROUP = p + INODES_PER_GROUP
      BY <1>1, <2>2, <3>4
    <3>6. SumTo(s, g) = g * INODES_PER_GROUP - (FIRST_INODE - 1)
      BY <1>1, <2>3, <3>2, <3>3, <3>4, <3>5
    <3> QED BY <2>1, <3>6
  <2> QED BY <2>4, <2>5
<1>5. SumTo(s, GROUPS) = GROUPS * INODES_PER_GROUP - (FIRST_INODE - 1)
  BY <1>1, <1>4
<1>6. PICK m \in Nat : m = GROUPS * INODES_PER_GROUP
  BY <1>1, Multiples
<1>7. Cardinality(1 .. m) = IF 1 > m THEN 0 ELSE m - 1 + 1
  BY FS_Interval
<1>8. Cardinality(Inodes) = m
  BY <1>6, <1>7 DEF Inodes
<1> QED BY <1>5, <1>6, <1>8

LEMMA RootIs ==
  /\ ROOT_INO \in Inodes /\ ROOT_INO \in 1 .. FIRST_INODE - 1 /\ 1 .. FIRST_INODE - 1 \subseteq Inodes
  /\ ROOT_INO < FIRST_INODE /\ GroupOf("inode", ROOT_INO) = 0
  /\ GroupStart(0) + META \in Blocks /\ DataBlock(GroupStart(0) + META) /\ GroupStart(0) + META # 0
<1>1. /\ INODES_PER_GROUP \in Nat /\ INODES_PER_GROUP >= 2 /\ GROUPS \in Nat /\ GROUPS >= 1
      /\ FIRST_INODE \in Nat /\ FIRST_INODE >= 3 /\ FIRST_INODE - 1 <= INODES_PER_GROUP
  BY GroupsAre, TreeAssumption
<1>2. PICK m \in Nat : m = GROUPS * INODES_PER_GROUP /\ INODES_PER_GROUP <= m
  <2>1. 1 * INODES_PER_GROUP = INODES_PER_GROUP
    BY <1>1
  <2> QED BY <1>1, <2>1, Multiples
<1>3. Inodes = 1 .. m
  BY <1>2 DEF Inodes
<1>4. GroupOf("inode", ROOT_INO) = 0
  <2>1. 0 * INODES_PER_GROUP = 0 /\ 1 \in Nat
    BY <1>1
  <2>2. 1 \div INODES_PER_GROUP = 0
    BY <1>1, <2>1, DivUnique
  <2> QED BY <2>2 DEF GroupOf, ROOT_INO
<1>5. /\ GroupStart(0) = 1 /\ META \in Nat /\ META < BLOCKS_PER_GROUP /\ BLOCKS \in Nat /\ BLOCKS > META + 1
      /\ BLOCKS_PER_GROUP \in Nat \ {0}
  BY TreeAssumption DEF GroupStart
<1>6. GroupOf("block", 1 + META) = 0
  <2>1. 0 * BLOCKS_PER_GROUP = 0 /\ (1 + META) - 1 = META
    BY <1>5
  <2>2. META \div BLOCKS_PER_GROUP = 0
    BY <1>5, <2>1, DivUnique
  <2>3. "block" # "inode"
    OBVIOUS
  <2> QED BY <2>1, <2>2, <2>3 DEF GroupOf
<1>7. 1 + META \in Blocks
  BY <1>5 DEF Blocks
<1>8. DataBlock(1 + META)
  BY <1>5, <1>6, <1>7 DEF DataBlock
<1>9. ROOT_INO \in Inodes /\ ROOT_INO \in 1 .. FIRST_INODE - 1 /\ 1 .. FIRST_INODE - 1 \subseteq Inodes /\ ROOT_INO < FIRST_INODE
  BY <1>1, <1>2, <1>3 DEF ROOT_INO
<1> QED BY <1>4, <1>5, <1>7, <1>8, <1>9

RootBlock == GroupStart(0) + META
Busy == {b \in Blocks : ~DataBlock(b)} \cup {RootBlock}
FreeIn(k, g) == Cardinality(Candidates(k, g) \ (IF k = "block" THEN Busy ELSE {}))
RootNode == [ZeroNode EXCEPT !.mode = "dir", !.links = 2, !.size = 1, !.blocks = 1, !.direct[0] = RootBlock]

LEMMA RootNodeIs ==
  /\ RootNode \in NodeSet /\ RootNode.mode = "dir" /\ RootNode.links = 2 /\ RootNode.size = 1
  /\ RootNode.blocks = 1 /\ RootNode.indirect = 0
  /\ \A i \in 0 .. DIRECT - 1 : RootNode.direct[i] = IF i = 0 THEN RootBlock ELSE 0
<1> DEFINE D == [ZeroNode.direct EXCEPT ![0] = RootBlock]
<1>1. RootBlock \in 0 .. BLOCKS - 1 /\ DIRECT \in Nat \ {0}
  BY RootIs, TreeAssumption DEF RootBlock, Blocks
<1>2. ZeroNode.direct = [i \in 0 .. DIRECT - 1 |-> 0] /\ 0 \in 0 .. BLOCKS - 1
  BY TreeAssumption DEF ZeroNode
<1>3. D \in [0 .. DIRECT - 1 -> 0 .. BLOCKS - 1]
  BY <1>1, <1>2
<1>4. \A i \in 0 .. DIRECT - 1 : D[i] = IF i = 0 THEN RootBlock ELSE 0
  BY <1>1, <1>2
<1>5. RootNode = [mode |-> "dir", links |-> 2, size |-> 1, blocks |-> 1, direct |-> D, indirect |-> 0]
  <2>1. RootNode = [ZeroNode EXCEPT !.mode = "dir", !.links = 2, !.size = 1, !.blocks = 1, !.direct = D]
    BY DEF RootNode
  <2> HIDE DEF D
  <2> QED BY <2>1 DEF ZeroNode
<1> HIDE DEF D
<1>6. RootNode \in NodeSet
  BY <1>2, <1>3, <1>5 DEF NodeSet
<1> QED BY <1>4, <1>5, <1>6

LEMMA FormattedFields ==
  /\ Formatted.ok = TRUE /\ Formatted.ret = 0 /\ Formatted.hint = [k \in Kinds |-> 0]
  /\ Formatted.used = [k \in Kinds |-> IF k = "block" THEN Busy ELSE 1 .. FIRST_INODE - 1]
  /\ Formatted.sb = [k \in Kinds |-> IF k = "block" THEN SumTo([g \in 1 .. GROUPS |-> FreeIn("block", g - 1)], GROUPS)
                                     ELSE Cardinality(Inodes) - (FIRST_INODE - 1)]
  /\ Formatted.gd = [g \in Groups |-> [k \in Kinds \cup {"dirs"} |->
                       IF k = "dirs" THEN (IF g = 0 THEN 1 ELSE 0) ELSE FreeIn(k, g)]]
  /\ Formatted.node = [n \in Inodes |-> IF n # ROOT_INO THEN ZeroNode ELSE RootNode]
  /\ Formatted.data = [b \in Blocks |-> IF b = RootBlock THEN DotRecords(ROOT_INO, ROOT_INO) ELSE Junk]
  /\ Formatted = [ok |-> Formatted.ok, ret |-> Formatted.ret, hint |-> Formatted.hint, used |-> Formatted.used,
                  sb |-> Formatted.sb, gd |-> Formatted.gd, node |-> Formatted.node, data |-> Formatted.data]
<1>1. {"block", "inode", "dirs"} = Kinds \cup {"dirs"}
  BY DEF Kinds
<1>2. Formatted.ok = TRUE /\ Formatted.ret = 0 /\ Formatted.hint = [k \in Kinds |-> 0]
  BY DEF Formatted, Kinds
<1>3. Formatted.used = [k \in Kinds |-> IF k = "block" THEN Busy ELSE 1 .. FIRST_INODE - 1]
  BY Zenon DEF Formatted, Kinds, Busy, RootBlock
<1>4. Formatted.sb = [k \in Kinds |-> IF k = "block" THEN SumTo([g \in 1 .. GROUPS |-> FreeIn("block", g - 1)], GROUPS)
                                     ELSE Cardinality(Inodes) - (FIRST_INODE - 1)]
  BY Zenon DEF Formatted, Kinds, Busy, RootBlock, FreeIn
<1>5. Formatted.gd = [g \in Groups |-> [k \in Kinds \cup {"dirs"} |->
                       IF k = "dirs" THEN (IF g = 0 THEN 1 ELSE 0) ELSE FreeIn(k, g)]]
  BY <1>1, Zenon DEF Formatted, Busy, RootBlock, FreeIn
<1>6. Formatted.node = [n \in Inodes |-> IF n # ROOT_INO THEN ZeroNode ELSE RootNode]
  BY Zenon DEF Formatted, RootNode, RootBlock
<1>7. Formatted.data = [b \in Blocks |-> IF b = RootBlock THEN DotRecords(ROOT_INO, ROOT_INO) ELSE Junk]
  BY Zenon DEF Formatted, RootBlock
<1>8. Formatted = [ok |-> Formatted.ok, ret |-> Formatted.ret, hint |-> Formatted.hint, used |-> Formatted.used,
                  sb |-> Formatted.sb, gd |-> Formatted.gd, node |-> Formatted.node, data |-> Formatted.data]
  BY DEF Formatted
<1> QED BY <1>2, <1>3, <1>4, <1>5, <1>6, <1>7, <1>8, Zenon

LEMMA FormattedOK == VolumeOK(Formatted) /\ Counted(Formatted)
<1> DEFINE F == Formatted
<1>1. /\ F.ok = TRUE /\ F.ret = 0 /\ F.hint \in [Kinds -> Groups]
      /\ F.node = [n \in Inodes |-> IF n # ROOT_INO THEN ZeroNode ELSE RootNode]
      /\ F = [ok |-> F.ok, ret |-> F.ret, hint |-> F.hint, used |-> F.used,
              sb |-> F.sb, gd |-> F.gd, node |-> F.node, data |-> F.data]
  BY FormattedFields, GroupZero
<1>2. F.used = [k \in Kinds |-> IF k = "block" THEN Busy ELSE 1 .. FIRST_INODE - 1]
  BY FormattedFields
<1>3. F.sb = [k \in Kinds |-> IF k = "block" THEN SumTo([g \in 1 .. GROUPS |-> FreeIn("block", g - 1)], GROUPS)
                                     ELSE Cardinality(Inodes) - (FIRST_INODE - 1)]
  BY FormattedFields
<1>4. F.gd = [g \in Groups |-> [k \in Kinds \cup {"dirs"} |->
                       IF k = "dirs" THEN (IF g = 0 THEN 1 ELSE 0) ELSE FreeIn(k, g)]]
  BY FormattedFields
<1>5. F.data = [b \in Blocks |-> F.data[b]]
  <2>1. F.data = [b \in Blocks |-> IF b = RootBlock THEN DotRecords(ROOT_INO, ROOT_INO) ELSE Junk]
    BY FormattedFields
  <2> QED BY <2>1
<1> HIDE DEF F
<1>6. \A k \in Kinds, g \in Groups : FreeIn(k, g) \in Nat
  <2> SUFFICES ASSUME NEW k \in Kinds, NEW g \in Groups PROVE FreeIn(k, g) \in Nat
    OBVIOUS
  <2> DEFINE T == IF k = "block" THEN Busy ELSE {}
  <2>1. IsFiniteSet(Candidates(k, g))
    BY CandidatesAre
  <2> HIDE DEF T
  <2>2. IsFiniteSet(Candidates(k, g) \ T)
    BY <2>1, FS_Difference
  <2>3. Cardinality(Candidates(k, g) \ T) \in Nat
    BY <2>2, FS_CardinalityType
  <2> QED BY <2>3 DEF FreeIn, T
<1>7. GROUPS \in Nat /\ \A g \in 1 .. GROUPS : g - 1 \in Groups
  BY GroupsAre DEF Groups
<1>8. F.used \in [Kinds -> SUBSET Int]
  <2>1. Busy \in SUBSET Int /\ 1 .. FIRST_INODE - 1 \in SUBSET Int
    BY RootIs DEF Busy, Blocks, RootBlock
  <2> QED BY <1>2, <2>1
<1>9. F.gd \in [Groups -> [Kinds \cup {"dirs"} -> Int]]
  <2>1. \A g \in Groups, k \in Kinds \cup {"dirs"} : (IF k = "dirs" THEN (IF g = 0 THEN 1 ELSE 0) ELSE FreeIn(k, g)) \in Int
    BY <1>6
  <2> QED BY <1>4, <2>1
<1>10. \A g \in Groups, k \in Kinds : F.gd[g][k] = FreeIn(k, g)
  <2>1. \A k \in Kinds : k # "dirs" /\ k \in Kinds \cup {"dirs"}
    BY DEF Kinds
  <2> QED BY <1>4, <2>1
<1>11. \A g \in Groups, k \in Kinds : FreeIn(k, g) = Cardinality(Candidates(k, g) \ F.used[k])
  <2> SUFFICES ASSUME NEW g \in Groups, NEW k \in Kinds PROVE FreeIn(k, g) = Cardinality(Candidates(k, g) \ F.used[k])
    OBVIOUS
  <2>1. CASE k = "block"
    BY <1>2, <2>1 DEF FreeIn
  <2>2. CASE k = "inode"
    <3>1. F.used[k] = 1 .. FIRST_INODE - 1 /\ FIRST_INODE \in Nat
      BY <1>2, <2>2, TreeAssumption
    <3>2. \A n \in Candidates(k, g) : n \in Nat /\ n >= FIRST_INODE
      BY <2>2, InodeOfGroup DEF Inodes
    <3>3. Candidates(k, g) \ F.used[k] = Candidates(k, g) \ {}
      BY <3>1, <3>2
    <3>4. "inode" # "block"
      OBVIOUS
    <3> QED BY <2>2, <3>3, <3>4, Zenon DEF FreeIn
  <2> QED BY <2>1, <2>2 DEF Kinds
<1>12. \A k \in Kinds : F.sb[k] = SumTo([g \in 1 .. GROUPS |-> F.gd[g - 1][k]], GROUPS) /\ F.sb[k] \in Int
  <2> SUFFICES ASSUME NEW k \in Kinds
               PROVE  F.sb[k] = SumTo([g \in 1 .. GROUPS |-> F.gd[g - 1][k]], GROUPS) /\ F.sb[k] \in Int
    OBVIOUS
  <2> DEFINE s == [g \in 1 .. GROUPS |-> F.gd[g - 1][k]]
  <2>1. \A g \in 1 .. GROUPS : s[g] = FreeIn(k, g - 1) /\ s[g] \in Int
    BY <1>6, <1>7, <1>10
  <2> HIDE DEF s
  <2>2. SumTo(s, GROUPS) \in Int
    BY <1>7, <2>1, SumType
  <2>3. CASE k = "block"
    <3> DEFINE t == [g \in 1 .. GROUPS |-> FreeIn("block", g - 1)]
    <3>1. F.sb[k] = SumTo(t, GROUPS)
      BY <1>3, <2>3
    <3>2. \A g \in 1 .. GROUPS : t[g] = s[g]
      BY <2>1, <2>3
    <3> HIDE DEF t
    <3>3. SumTo(t, GROUPS) = SumTo(s, GROUPS)
      BY <1>7, <3>2, SumSame
    <3> QED BY <2>2, <3>1, <3>3 DEF s
  <2>4. CASE k = "inode"
    <3>1. F.sb[k] = Cardinality(Inodes) - (FIRST_INODE - 1)
      BY <1>3, <2>4
    <3>2. ASSUME NEW g \in 1 .. GROUPS PROVE s[g] = Cardinality(Candidates("inode", g - 1))
      <4>1. s[g] = FreeIn("inode", g - 1)
        BY <2>1, <2>4
      <4>2. "inode" # "block" /\ Candidates("inode", g - 1) \ {} = Candidates("inode", g - 1)
        OBVIOUS
      <4> QED BY <4>1, <4>2, Zenon DEF FreeIn
    <3>3. SumTo(s, GROUPS) = Cardinality(Inodes) - (FIRST_INODE - 1)
      BY <3>2, InodeSum
    <3> QED BY <2>2, <3>1, <3>3 DEF s
  <2> QED BY <2>3, <2>4 DEF Kinds
<1>13. F.node \in [Inodes -> NodeSet]
  BY <1>1, ZeroNodeIs, RootNodeIs
<1>14. F.sb \in [Kinds -> Int]
  <2>1. F.sb = [k \in Kinds |-> F.sb[k]]
    BY <1>3
  <2> QED BY <1>12, <2>1
<1>15. VolumeOK(F)
  <2>1. F.ok \in BOOLEAN /\ F.ret \in Int /\ F.hint \in [Kinds -> Groups] /\ F.data \in {F.data}
    <3>1. F.ok = TRUE /\ F.ret = 0 /\ F.hint \in [Kinds -> Groups]
      BY <1>1
    <3>2. F.ok \in BOOLEAN /\ F.data \in {F.data}
      BY <3>1, Zenon
    <3>3. F.ret \in Int
      BY <3>1
    <3> QED BY <3>1, <3>2, <3>3
  <2>2. F \in [ok : BOOLEAN, ret : Int, hint : [Kinds -> Groups], used : [Kinds -> SUBSET Int],
               sb : [Kinds -> Int], gd : [Groups -> [Kinds \cup {"dirs"} -> Int]],
               node : [Inodes -> NodeSet], data : {F.data}]
    <3>1. PICK G : G = F
      OBVIOUS
    <3>2. F = [ok |-> G.ok, ret |-> G.ret, hint |-> G.hint, used |-> G.used,
               sb |-> G.sb, gd |-> G.gd, node |-> G.node, data |-> G.data]
      BY <1>1, <3>1, Zenon
    <3>3. /\ G.ok \in BOOLEAN /\ G.ret \in Int /\ G.hint \in [Kinds -> Groups] /\ G.data \in {F.data}
          /\ G.used \in [Kinds -> SUBSET Int] /\ G.sb \in [Kinds -> Int]
          /\ G.gd \in [Groups -> [Kinds \cup {"dirs"} -> Int]] /\ G.node \in [Inodes -> NodeSet]
      BY <1>8, <1>9, <1>13, <1>14, <2>1, <3>1
    <3> QED BY <3>2, <3>3
  <2> QED BY <1>5, <2>2 DEF VolumeOK
<1>16. Counted(F)
  BY <1>10, <1>11, <1>12 DEF Counted
<1> QED BY <1>15, <1>16 DEF F

(* Only the root directory points to a block. *)
LEMMA FormattedBase == Base(Formatted) /\ Dotted(DirOf(Formatted, ROOT_INO), ROOT_INO, ROOT_INO)
<1> DEFINE F == Formatted
<1>1. VolumeOK(F) /\ Counted(F)
  BY FormattedOK
<1>2. /\ F.used = [k \in Kinds |-> IF k = "block" THEN Busy ELSE 1 .. FIRST_INODE - 1]
      /\ F.node = [n \in Inodes |-> IF n # ROOT_INO THEN ZeroNode ELSE RootNode]
      /\ F.data = [b \in Blocks |-> IF b = RootBlock THEN DotRecords(ROOT_INO, ROOT_INO) ELSE Junk]
  BY FormattedFields
<1> HIDE DEF F
<1>3. F.used["block"] = Busy /\ F.used["inode"] = 1 .. FIRST_INODE - 1
  BY <1>2 DEF Kinds
<1>4. F.node[ROOT_INO] = RootNode /\ \A n \in Inodes : n # ROOT_INO => F.node[n] = ZeroNode
  BY <1>2, RootIs
<1>5. RootBlock \in Blocks /\ DataBlock(RootBlock) /\ RootBlock # 0
  BY RootIs DEF RootBlock
<1>6. F.data[RootBlock] = DotRecords(ROOT_INO, ROOT_INO)
  BY <1>2, <1>5
<1>7. IndirectOK(F)
  BY <1>4, ZeroNodeIs, RootNodeIs DEF IndirectOK
<1>8. \A n \in Inodes, i \in Cells : Ptr(F, n, i) = IF n = ROOT_INO /\ i = 0 THEN RootBlock ELSE 0
  <2> SUFFICES ASSUME NEW n \in Inodes, NEW i \in Cells PROVE Ptr(F, n, i) = IF n = ROOT_INO /\ i = 0 THEN RootBlock ELSE 0
    OBVIOUS
  <2>1. DIRECT \in Nat \ {0} /\ WORDS \in Nat \ {0} /\ i \in Nat
    BY TreeAssumption DEF Cells
  <2>2. F.node[n].indirect = 0
    BY <1>4, ZeroNodeIs, RootNodeIs
  <2>3. i < DIRECT => i \in 0 .. DIRECT - 1
    BY <2>1
  <2>4. CASE n = ROOT_INO
    <3>1. i < DIRECT => F.node[n].direct[i] = IF i = 0 THEN RootBlock ELSE 0
      BY <1>4, <2>3, <2>4, RootNodeIs
    <3> QED BY <2>1, <2>2, <2>4, <3>1 DEF Ptr, FileBlock
  <2>5. CASE n # ROOT_INO
    <3>1. i < DIRECT => F.node[n].direct[i] = 0
      BY <1>4, <2>3, <2>5, ZeroNodeIs
    <3> QED BY <2>2, <2>5, <3>1 DEF Ptr, FileBlock
  <2> QED BY <2>4, <2>5
<1>9. 0 \in Cells /\ 0 \in Slots
  BY TreeAssumption DEF Cells, Slots
<1>10. Full(F, ROOT_INO) = {0} /\ \A n \in Inodes : n # ROOT_INO => Full(F, n) = {}
  BY <1>5, <1>8, <1>9, RootIs DEF Full
<1>11. Owned(F)
  <2>1. \A n \in Inodes, i \in Cells : Ptr(F, n, i) # 0 => DataBlock(Ptr(F, n, i)) /\ Ptr(F, n, i) \in F.used["block"]
    BY <1>3, <1>5, <1>8 DEF Busy
  <2>2. \A m, n \in Inodes, i, j \in Cells : Ptr(F, m, i) = Ptr(F, n, j) /\ Ptr(F, m, i) # 0 => m = n /\ i = j
    BY <1>8
  <2>3. \A b \in F.used["block"] :
          b \in Blocks /\ (DataBlock(b) => \E n \in Inodes, i \in Cells : Ptr(F, n, i) = b)
    <3>1. Ptr(F, ROOT_INO, 0) = RootBlock
      BY <1>8, <1>9, RootIs
    <3> QED BY <1>3, <1>5, <1>9, <3>1, RootIs DEF Busy
  <2>4. \A b \in Blocks : ~DataBlock(b) => b \in F.used["block"]
    BY <1>3 DEF Busy
  <2>5. \A n \in Inodes : F.node[n].blocks = Cardinality(Full(F, n))
    <3>1. Cardinality({0}) = 1 /\ Cardinality({}) = 0
      BY FS_Singleton, FS_EmptySet
    <3> QED BY <1>4, <1>10, <3>1, ZeroNodeIs, RootNodeIs
  <2> QED BY <1>7, <2>1, <2>2, <2>3, <2>4, <2>5 DEF Owned
<1>12. InodesOK(F)
  BY <1>3, RootIs DEF InodesOK
<1>13. Core(F)
  BY <1>1, <1>11, <1>12 DEF Core
<1>14. \A n \in Inodes : NodeShape(F, n)
  <2> SUFFICES ASSUME NEW n \in Inodes PROVE NodeShape(F, n)
    OBVIOUS
  <2>1. CASE n = ROOT_INO
    <3>1. F.node[n].mode = "dir" /\ F.node[n].links >= 1 /\ F.node[n].size = 1 /\ n \in F.used["inode"]
      BY <1>3, <1>4, <2>1, RootIs, RootNodeIs
    <3>2. F.node[n].size \in 1 .. DIRECT /\ Full(F, n) = 0 .. F.node[n].size - 1
      BY <1>10, <2>1, <3>1, TreeAssumption
    <3> QED BY <3>1, <3>2 DEF NodeShape
  <2>2. CASE n # ROOT_INO
    <3>1. F.node[n].mode = "none" /\ Full(F, n) = {}
      BY <1>4, <1>10, <2>2, ZeroNodeIs
    <3> QED BY <3>1 DEF NodeShape
  <2> QED BY <2>1, <2>2
<1>15. Dotted(DirOf(F, ROOT_INO), ROOT_INO, ROOT_INO)
  <2> DEFINE B == DirOf(F, ROOT_INO)
  <2>1. F.node[ROOT_INO].size = 1 /\ F.node[ROOT_INO].direct[0] = RootBlock
    BY <1>4, RootNodeIs, TreeAssumption
  <2>2. 0 .. F.node[ROOT_INO].size - 1 = {0}
    BY <2>1
  <2>3. DOMAIN B = {0} /\ B[0] = DotRecords(ROOT_INO, ROOT_INO)
    BY <1>6, <2>1, <2>2 DEF DirOf, RecordsOf
  <2>4. ROOT_INO \in Inodes /\ ROOT_INO # 0
    BY RootIs DEF ROOT_INO
  <2> HIDE DEF B
  <2>5. Dotted(B, ROOT_INO, ROOT_INO)
    BY <2>3, <2>4, DotsData
  <2> QED BY <2>5 DEF B
<1>16. \A d \in Inodes : F.node[d].mode = "dir" => Shape(DirOf(F, d))
  BY <1>4, <1>15, ZeroNodeIs DEF Dotted
<1>17. Base(F)
  BY <1>13, <1>14, <1>16 DEF Base
<1> QED BY <1>15, <1>17 DEF F

LEMMA FormattedSound == Sound(Formatted) /\ Formatted.ok = TRUE
<1> DEFINE F == Formatted
           r == ROOT_INO
<1>1. Base(F) /\ Dotted(DirOf(F, r), r, r) /\ F.ok = TRUE
  BY FormattedBase, FormattedFields
<1>2. /\ F.used = [k \in Kinds |-> IF k = "block" THEN Busy ELSE 1 .. FIRST_INODE - 1]
      /\ F.gd = [g \in Groups |-> [k \in Kinds \cup {"dirs"} |->
                       IF k = "dirs" THEN (IF g = 0 THEN 1 ELSE 0) ELSE FreeIn(k, g)]]
      /\ F.node = [n \in Inodes |-> IF n # ROOT_INO THEN ZeroNode ELSE RootNode]
  BY FormattedFields
<1> HIDE DEF F
<1>3. r \in Inodes /\ r # 0 /\ GroupOf("inode", r) = 0 /\ r < FIRST_INODE
  BY RootIs DEF ROOT_INO
<1>4. F.node[r] = RootNode /\ \A n \in Inodes : n # r => F.node[n] = ZeroNode
  BY <1>2, <1>3
<1>5. \A n \in Inodes : F.node[n].mode = IF n = r THEN "dir" ELSE "none"
  BY <1>4, ZeroNodeIs, RootNodeIs
<1>6. \A g \in Groups : F.gd[g]["dirs"] = IF g = 0 THEN 1 ELSE 0
  BY <1>2
<1>7. DirsCounted(F)
  <2> SUFFICES ASSUME NEW g \in Groups PROVE F.gd[g]["dirs"] = Cardinality(DirsIn(F, g))
    BY DEF DirsCounted
  <2>1. Cardinality({r}) = 1 /\ Cardinality({}) = 0
    BY FS_Singleton, FS_EmptySet
  <2>2. DirsIn(F, g) = IF g = 0 THEN {r} ELSE {}
    <3> HIDE DEF r
    <3> QED BY <1>3, <1>5 DEF DirsIn
  <2> QED BY <1>6, <2>1, <2>2
<1>8. UsedOK(F)
  BY <1>2, TreeAssumption DEF UsedOK, Kinds
<1> HIDE DEF r
<1>9. \A x, b, m : <<x, b, m>> \in Entries(F) <=> x = r /\ m = r /\ b \in Dots
  <2>1. \A x, b, m : Lists(F, x, b, m) <=> x = r /\ m = r /\ b \in Dots
    BY <1>1, <1>3, <1>5 DEF Lists, Dotted, Dots
  <2>2. \A x, b, m : <<x, b, m>> \in Entries(F) <=> Lists(F, x, b, m)
    BY <1>1, EntryIs, Zenon
  <2> QED BY <2>1, <2>2, Zenon
<1>10. \A n \in Inodes : Modes(F)[n] = IF n = r THEN "dir" ELSE "none"
  BY <1>5, TablesAre
<1>11. Modes(F)[r] = "dir" /\ LinksOf(F)[r] = 2
  BY <1>3, <1>4, <1>10, TablesAre, RootNodeIs
<1>12. EntriesOK(Modes(F), Entries(F))
  <2>1. Entries(F) \in SUBSET Triples
    BY EntriesAre
  <2>2. ".." \in Dots /\ "." \in Dots
    BY DEF Dots
  <2>3. Modes(F)[ROOT_INO] = "dir" /\ <<ROOT_INO, "..", ROOT_INO>> \in Entries(F)
    BY <1>9, <1>11, <2>2, Zenon DEF r
  <2>4. \A d, a, m : <<d, a, m>> \in Entries(F) => Modes(F)[d] = "dir" /\ Modes(F)[m] # "none"
    <3>1. Modes(F)[r] # "none"
      BY <1>11
    <3> QED BY <1>9, <1>11, <3>1, Zenon
  <2>5. \A d, a, m : <<d, a, m>> \in Entries(F) => (a \in Dots => Modes(F)[m] = "dir") /\ (a \notin Dots => m >= FIRST_INODE)
    BY <1>9, <1>11, Zenon
  <2>6. \A d, a, m, k : <<d, a, m>> \in Entries(F) /\ <<d, a, k>> \in Entries(F) => m = k
    <3>1. \A d, a, m : <<d, a, m>> \in Entries(F) => m = r
      BY <1>9, Zenon
    <3> QED BY <3>1
  <2>7. \A d \in Inodes : Modes(F)[d] = "dir" => <<d, ".", d>> \in Entries(F)
    <3>1. \A d \in Inodes : Modes(F)[d] = "dir" => d = r
      BY <1>10
    <3> QED BY <1>9, <2>2, <3>1, Zenon
  <2> QED BY <2>1, <2>3, <2>4, <2>5, <2>6, <2>7 DEF EntriesOK
<1>13. ParentsOK(Modes(F), Entries(F))
  BY <1>9, Zenon DEF ParentsOK
<1>14. LinksOK(Modes(F), LinksOf(F), Entries(F))
  <2>1. Subs(Modes(F), Entries(F), r) = {}
    <3>1. \A e \in Entries(F) : e[2] \in Dots
      <4>1. ASSUME NEW e \in Entries(F) PROVE e[2] \in Dots
        <5>1. e = <<e[1], e[2], e[3]>>
          BY <1>12, EntryType
        <5>2. <<e[1], e[2], e[3]>> \in Entries(F)
          BY <5>1, Zenon
        <5>3. \A x, b, m : <<x, b, m>> \in Entries(F) => b \in Dots
          BY <1>9, Zenon
        <5> QED BY <5>2, <5>3
      <4> QED BY <4>1
    <3> QED BY <3>1 DEF Subs
  <2>2. Cardinality(Subs(Modes(F), Entries(F), r)) = 0
    BY <2>1, FS_EmptySet
  <2>3. \A f \in Inodes : Modes(F)[f] # "file" /\ (Modes(F)[f] = "dir" => f = r)
    BY <1>10
  <2> QED BY <1>11, <2>2, <2>3 DEF LinksOK
<1>15. Rooted(Modes(F), Entries(F))
  BY <1>10 DEF Rooted, Closed, r
<1> QED BY <1>1, <1>7, <1>8, <1>12, <1>13, <1>14, <1>15 DEF Sound, TreeOK, F

-----------------------------------------------------------------------------
(* A volume filled by another system is sound as well. *)

Emptied(W, H, n) == H = [W EXCEPT !.data[FileBlock(W, n, 0)] = ZeroBlock]

LEMMA ReleaseSlotFlag ==
  ASSUME NEW V, VolumeOK(V), NEW H, NEW n, Emptied(V, H, n), NEW i
  PROVE  ReleaseSlot(H, n, i).ok = V.ok /\ "ok" \in DOMAIN ReleaseSlot(H, n, i)
<1> DEFINE b == FileBlock(H, n, i)
           Q == Release(H, "block", b)
           R == [Q EXCEPT !.node[n].blocks = @ - 1]
           Y == ReleaseSlot(H, n, i)
<1>1. "ok" \in DOMAIN H /\ H.ok = V.ok
  BY DEF VolumeOK, Emptied
<1> HIDE DEF b
<1>2. "ok" \in DOMAIN Q /\ Q.ok = H.ok
  BY <1>1 DEF Release
<1> HIDE DEF Q
<1>3. "ok" \in DOMAIN R /\ R.ok = H.ok
  BY <1>2
<1>4. Y = FreeSlot(H, n, i, b)
  BY DEF ReleaseSlot, b
<1>5. \/ Y = H \/ Y = [R EXCEPT !.node[n].direct[i] = 0] \/ Y = [R EXCEPT !.data[H.node[n].indirect][i - DIRECT] = 0]
  BY <1>4, Zenon DEF FreeSlot, Q
<1> HIDE DEF R, Y
<1>6. Y.ok = H.ok /\ "ok" \in DOMAIN Y
  BY <1>1, <1>3, <1>5
<1> QED BY <1>1, <1>6 DEF Y

Written(W, n, a, text) == W = WriteFile(Formatted, ROOT_INO, a, text) /\ n = Lookup(W, ROOT_INO, a)
HostNode(W, n) ==
  /\ Sound(W) /\ n \in Inodes /\ n >= FIRST_INODE /\ n # ROOT_INO
  /\ W.node[n].mode = "file" /\ W.node[n].links = 1 /\ W.node[ROOT_INO].mode = "dir"

LEMMA HostFile ==
  ASSUME NEW a \in Names, NEW S, NEW text \in Seq(S), NEW W, NEW n, Written(W, n, a, text), W.ok = TRUE
  PROVE  HostNode(W, n)
<1> DEFINE F == Formatted
<1>1. Sound(F) /\ F.ok = TRUE /\ ROOT_INO \in Inodes
  BY FormattedSound, RootIs
<1>2. \A k \in Inodes : F.node[k].mode = IF k = ROOT_INO THEN "dir" ELSE "none"
  <2>1. F.node = [k \in Inodes |-> IF k # ROOT_INO THEN ZeroNode ELSE RootNode]
    BY FormattedFields
  <2> QED BY <2>1, ZeroNodeIs, RootNodeIs
<1>3. F.node[ROOT_INO].mode = "dir"
  BY <1>1, <1>2
<1>4. W = WriteFile(F, ROOT_INO, a, text) /\ n = Lookup(W, ROOT_INO, a)
  BY DEF Written
<1> HIDE DEF F
<1>5. Rewrote(F, W, ROOT_INO, a, text)
  BY <1>1, <1>3, <1>4, WriteFileFacts
<1>6. PICK k : (<<ROOT_INO, a, k>> \in Entries(F) /\ Filled(F, W, k, text)) \/ New(F, W, ROOT_INO, a, k, text)
  BY <1>5 DEF Rewrote
<1>7. ~Filled(F, W, k, text)
  BY <1>2 DEF Filled
<1>8. /\ Sound(W) /\ k \in Inodes /\ F.node[k].mode = "none" /\ Others(F, W, k)
      /\ W.node[k].mode = "file" /\ W.node[k].links = 1
  BY <1>6, <1>7 DEF New
<1>9. <<ROOT_INO, a, k>> \in Entries(W)
  <2>1. Entries(W) = Entries(F) \cup {<<ROOT_INO, a, k>>}
    BY <1>6, <1>7 DEF New
  <2> QED BY <2>1, Zenon
<1>10. k # ROOT_INO /\ W.node[ROOT_INO].mode = "dir"
  BY <1>1, <1>3, <1>8 DEF Others
<1>11. n = k
  BY <1>1, <1>4, <1>8, <1>9, <1>10, LookupThe
<1>12. k >= FIRST_INODE
  <2>1. EntriesOK(Modes(W), Entries(W)) /\ a \notin Dots
    BY <1>8, TreeAssumption DEF Sound, TreeOK
  <2> QED BY <1>9, <2>1, Zenon DEF EntriesOK
<1> QED BY <1>8, <1>10, <1>11, <1>12 DEF HostNode

SlotFreed(V, R, n) ==
  Core(R) /\ Elsewhere(V, R, n) /\ R.ok = V.ok /\ R.node[n].size = V.node[n].size

LEMMA FreeFirst ==
  ASSUME NEW V, Core(V), NEW n \in Inodes, NEW R, R = ReleaseSlot(V, n, 0)
  PROVE  SlotFreed(V, R, n)
<1>1. 0 \in Slots
  BY TreeAssumption DEF Slots
<1> QED BY <1>1, FreeSlotCore DEF SlotFreed

LEMMA HostHole ==
  ASSUME NEW W, Sound(W), W.ok = TRUE, NEW n \in Inodes, W.node[n].mode = "file",
         NEW H, Emptied(W, H, n), NEW R, R = ReleaseSlot(H, n, 0)
  PROVE  Filled(W, R, n, Contents(R, n)) /\ R.ok = TRUE
<1> DEFINE c == FileBlock(W, n, 0)
<1>1. Base(W) /\ Core(W) /\ VolumeOK(W) /\ NodeShape(W, n) /\ 0 \in Slots
  BY TreeAssumption, SMTT(40) DEF Sound, Base, Core, Slots
<1>2. c = Ptr(W, n, 0)
  BY TreeAssumption DEF Ptr
<1> HIDE DEF c
<1>3. Core(H) /\ Elsewhere(W, H, n) /\ H.ok = TRUE /\ H.node[n] = W.node[n]
  <2>1. CASE c # 0
    <3> DEFINE Z == ZeroBlock
    <3>1. H = [W EXCEPT !.data = [W.data EXCEPT ![c] = Z]]
      BY DEF c, Emptied
    <3> HIDE DEF Z
    <3>2. Put(W, H, c, Z)
      BY <3>1 DEF Put
    <3> QED BY <1>1, <1>2, <2>1, <3>2, PutBlock
  <2>2. CASE c = 0
    <3>1. [W.data EXCEPT ![c] = ZeroBlock] = W.data
      <4>1. W.data = [b \in Blocks |-> W.data[b]] /\ c \notin Blocks
        BY <1>1, <2>2 DEF VolumeOK, Blocks
      <4> QED BY <4>1
    <3>2. H = [W EXCEPT !.data = [W.data EXCEPT ![c] = ZeroBlock]]
      BY DEF c, Emptied
    <3>3. H = [W EXCEPT !.data = W.data]
      BY <3>1, <3>2, Zenon
    <3>4. H = W
      BY <1>1, <3>3 DEF VolumeOK
    <3> QED BY <1>1, <3>4, ElsewhereSame
  <2> QED BY <2>1, <2>2
<1>4. /\ Core(R) /\ Elsewhere(H, R, n) /\ R.ok = H.ok /\ R.node[n].size = H.node[n].size
  BY <1>3, FreeFirst DEF SlotFreed
<1>5. Elsewhere(W, R, n)
  BY <1>3, <1>4, ElsewhereThen
<1>6. R.node[n].size <= MAX_FILE
  BY <1>1, <1>3, <1>4 DEF NodeShape
<1> QED BY <1>3, <1>4, <1>5, <1>6, FillFacts

TwoLinks(V, W, f) == W = [V EXCEPT !.node[f].links = 2]
TwiceNamed(V, W, f) ==
  /\ Base(W) /\ Entries(W) = Entries(V) /\ (DirsCounted(V) => DirsCounted(W)) /\ (UsedOK(V) => UsedOK(W))
  /\ Modes(W) = Modes(V) /\ LinksOf(W)[f] = 2 /\ \A x \in Inodes : x # f => LinksOf(W)[x] = LinksOf(V)[x]

LEMMA HostLinks ==
  ASSUME NEW V, Base(V), NEW W, NEW f \in Inodes, V.node[f].mode = "file", TwoLinks(V, W, f)
  PROVE  TwiceNamed(V, W, f)
<1>1. PICK l \in Int : l = 2 /\ l >= 1
  OBVIOUS
<1>2. W = [V EXCEPT !.node[f].links = l]
  BY <1>1 DEF TwoLinks
<1>3. /\ Base(W) /\ Entries(W) = Entries(V) /\ (DirsCounted(V) => DirsCounted(W)) /\ (UsedOK(V) => UsedOK(W))
      /\ Modes(W) = Modes(V) /\ LinksOf(W)[f] = l /\ \A x \in Inodes : x # f => LinksOf(W)[x] = LinksOf(V)[x]
  BY <1>1, <1>2, RelinkedFile
<1> QED BY <1>1, <1>3 DEF TwiceNamed

Host(X, a, b, text) == X = HostVolume(a, b, text) /\ X.ok

LEMMA HostSound ==
  ASSUME NEW a \in Names, NEW b \in Names, NEW S, NEW text \in Seq(S), NEW X, Host(X, a, b, text)
  PROVE  Sound(X) /\ X.ok = TRUE
<1> DEFINE r == ROOT_INO
           W == WriteFile(Formatted, r, a, text)
           n == Lookup(W, r, a)
           H == [W EXCEPT !.data[FileBlock(W, n, 0)] = ZeroBlock]
           R == ReleaseSlot(H, n, 0)
           L == Insert(R, r, b, n)
           Y == [L EXCEPT !.node[n].links = 2]
<1>1. X = [L EXCEPT !.node[n].links = 2, !.ret = 0, !.hint = Formatted.hint]
  BY DEF HostVolume, Host
<1>2. VolumeOK(W)
  <2>1. Sound(Formatted) /\ Formatted.ok = TRUE /\ r \in Inodes
    BY FormattedSound, RootIs
  <2>2. Formatted.node[r].mode = "dir"
    <3>1. Formatted.node = [k \in Inodes |-> IF k # ROOT_INO THEN ZeroNode ELSE RootNode]
      BY FormattedFields
    <3> QED BY <2>1, <3>1, RootNodeIs
  <2> QED BY <2>1, <2>2, WriteFileFacts
<1>30. Emptied(W, H, n)
  BY DEF Emptied
<1>3. R.ok = W.ok /\ "ok" \in DOMAIN R
  <2> HIDE DEF W, n, H
  <2> QED BY <1>2, <1>30, ReleaseSlotFlag
<1> HIDE DEF W
<1>4. W.ok = TRUE
  <2> SUFFICES ASSUME W.ok # TRUE PROVE FALSE
    OBVIOUS
  <2>1. W.ok = FALSE
    BY <1>2 DEF VolumeOK
  <2> HIDE DEF R
  <2>2. L = R
    BY <1>3, <2>1 DEF Insert
  <2> HIDE DEF n, L
  <2>4. X.ok = R.ok
    BY <1>1, <1>3, <2>2
  <2> QED BY <1>3, <2>1, <2>4 DEF Host
<1>5. /\ Sound(W) /\ n \in Inodes /\ n >= FIRST_INODE /\ n # r
      /\ W.node[n].mode = "file" /\ W.node[n].links = 1 /\ W.node[r].mode = "dir"
  <2>1. Written(W, n, a, text)
    BY DEF W, Written
  <2> HIDE DEF n
  <2>2. HostNode(W, n)
    BY <1>4, <2>1, HostFile
  <2> QED BY <2>2 DEF HostNode
<1> HIDE DEF n
<1>6. Filled(W, R, n, Contents(R, n)) /\ R.ok = TRUE
  BY <1>4, <1>5, <1>30, HostHole
<1> HIDE DEF H, R
<1>7. /\ Sound(R) /\ Base(R) /\ R.node[n].mode = "file" /\ R.node[n].links = 1 /\ R.node[r].mode = "dir" /\ DirsCounted(R)
      /\ UsedOK(R) /\ InodesOK(R) /\ TreeOK(Modes(R), LinksOf(R), Entries(R))
  <2>1. Sound(R) /\ R.node[n].mode = "file" /\ R.node[n].links = 1
    BY <1>5, <1>6 DEF Filled
  <2>2. R.node[r].mode = "dir"
    BY <1>5, <1>6, RootIs DEF Filled, Others
  <2> QED BY <2>1, <2>2 DEF Sound, Base, Core
<1>8. r \in Inodes /\ b \in AllNames /\ b \notin Dots
  BY RootIs, TreeAssumption DEF AllNames
<1>9. VolumeOK(L) /\ (L.ok => Listed(R, L, r, b, n))
  BY <1>5, <1>6, <1>7, <1>8, InsertFacts
<1> HIDE DEF L, r
<1>10. X = [Y EXCEPT !.ret = 0, !.hint = Formatted.hint]
  BY <1>1
<1>11. DOMAIN Y = DOMAIN L /\ "ok" \in DOMAIN L /\ "ret" \in DOMAIN L /\ "hint" \in DOMAIN L /\ Y.ok = L.ok
  BY <1>9 DEF VolumeOK
<1>12. L.ok = TRUE
  <2> HIDE DEF Y
  <2>1. X.ok = Y.ok /\ X.ok
    BY <1>10, <1>11 DEF Host
  <2>2. L.ok \in BOOLEAN
    BY <1>9 DEF VolumeOK
  <2> QED BY <1>11, <2>1, <2>2
<1>13. Listed(R, L, r, b, n) /\ Base(L) /\ Elsewhere(R, L, r)
  BY <1>9, <1>12 DEF Listed
<1>14. Entries(L) = Entries(R) \cup {<<r, b, n>>} /\ \A m : <<r, b, m>> \notin Entries(R)
  BY <1>7, <1>8, <1>13, ListedEntries, EntriesAre, GainsIs
<1>15. Modes(L) = Modes(R) /\ LinksOf(L) = LinksOf(R) /\ DirsCounted(L) /\ UsedOK(L)
  BY <1>7, <1>8, <1>13, ElsewhereTables
<1>16. L.node[n].mode = "file"
  BY <1>5, <1>7, <1>13, <1>15, TablesAre
<1>17. /\ Base(Y) /\ Entries(Y) = Entries(L) /\ DirsCounted(Y) /\ UsedOK(Y)
       /\ Modes(Y) = Modes(L) /\ LinksOf(Y)[n] = 2 /\ \A x \in Inodes : x # n => LinksOf(Y)[x] = LinksOf(L)[x]
  <2>1. TwoLinks(L, Y, n)
    BY DEF TwoLinks
  <2> HIDE DEF Y
  <2>2. TwiceNamed(L, Y, n)
    BY <1>5, <1>13, <1>16, <2>1, HostLinks
  <2> QED BY <1>15, <2>2 DEF TwiceNamed
<1> HIDE DEF Y
<1>18. TreeOK(Modes(Y), LinksOf(Y), Entries(Y))
  <2>1. Modes(R)[n] = "file" /\ Modes(R)[r] = "dir" /\ LinksOf(R)[n] = 1
    BY <1>5, <1>7, <1>8, TablesAre
  <2>2. LinksOf(R)[n] = Cardinality(NamesTo(Entries(R), n))
    BY <1>5, <1>7, <2>1 DEF TreeOK, LinksOK
  <2>3. LinksOf(Y)[n] = Cardinality(NamesTo(Entries(R), n)) + 1
    BY <1>17, <2>1, <2>2
  <2>4. Modes(Y) = Modes(R) /\ \A x \in Inodes : x # n => LinksOf(Y)[x] = LinksOf(R)[x]
    BY <1>15, <1>17
  <2>5. Modes(R)[n] # "dir"
    BY <2>1
  <2>6. GainsName(Modes(R), LinksOf(R), Entries(R), Modes(Y), LinksOf(Y), Entries(Y), r, b, n)
    BY <1>5, <1>8, <1>14, <1>17, <2>1, <2>3, <2>4, <2>5, Zenon DEF GainsName
  <2> QED BY <1>7, <2>6, GainName
<1>19. Sound(Y) /\ VolumeOK(Y) /\ Y.ok = TRUE
  BY <1>11, <1>12, <1>17, <1>18 DEF Sound, Base, Core
<1>20. X.ok = TRUE /\ SameDisk(Y, X)
  <2> DEFINE h == Formatted.hint
             Q == [Y EXCEPT !.ret = 0]
  <2>1. PICK z \in Int : z = 0
    OBVIOUS
  <2>2. Q = [Y EXCEPT !.ret = z]
    BY <2>1
  <2>3. X = [Q EXCEPT !.hint = h]
    BY <1>10
  <2>4. h \in [Kinds -> Groups]
    BY GroupZero
  <2> HIDE DEF h, Q
  <2>5. VolumeOK(Q)
    BY <1>19, <2>2, RetOK, Zenon
  <2>6. X.ok = Q.ok /\ SameDisk(Q, X)
    <3>1. X = [Q EXCEPT !.hint = Formatted.hint]
      BY <2>3 DEF h
    <3> QED BY <2>5, <3>1, RemountFacts, Zenon
  <2>7. Q.ok = Y.ok /\ Q.used = Y.used /\ Q.sb = Y.sb /\ Q.gd = Y.gd /\ Q.node = Y.node /\ Q.data = Y.data
    BY <1>19, <2>2 DEF VolumeOK
  <2> QED BY <1>19, <2>6, <2>7 DEF SameDisk
<1> QED BY <1>19, <1>20, SoundSame

LEMMA InitSound == ASSUME TreeInit PROVE Sound(vol) /\ vol.ok = TRUE
<1>1. CASE vol = Formatted
  BY <1>1, FormattedSound
<1>2. CASE vol # Formatted
  <2>1. PICK a \in Names, b \in Names, t \in Texts : vol = HostVolume(a, b, t) /\ vol.ok
    BY <1>2 DEF TreeInit
  <2>2. PICK S : t \in Seq(S)
    BY TreeAssumption
  <2> QED BY <2>1, <2>2, HostSound DEF Host
<1> QED BY <1>1, <1>2

-----------------------------------------------------------------------------
(* The inductive invariant of the engine *)

TreeInv == Sound(vol) /\ vol.ok = TRUE

(* Whatever calls succeed or fail, in whatever order, what is on the volume *)
(* between two calls is a sound tree over exact bitmaps and counts.         *)
THEOREM EngineSound == TreeSpec => []TreeInv
<1>1. TreeInit => TreeInv
  BY InitSound DEF TreeInv
<1>2. TreeInv /\ [TreeNext]_treeVars => TreeInv'
  <2> SUFFICES ASSUME TreeInv, [TreeNext]_treeVars PROVE TreeInv'
    OBVIOUS
  <2>1. CASE TreeNext
    <3>1. Sound(vol) /\ vol.ok = TRUE
      BY DEF TreeInv
    <3>2. Stepped(vol, vol')
      BY <2>1, <3>1, StepFacts
    <3>3. Sound(vol')
      <4>1. CASE SameDisk(vol, vol')
        BY <3>1, <4>1, SoundSame
      <4>2. ASSUME NEW W, Call(vol, W), SameDisk(W, vol') PROVE Sound(vol')
        BY <4>2, CallSound, SoundSame
      <4> QED BY <3>2, <4>1, <4>2 DEF Stepped
    <3> QED BY <3>2, <3>3 DEF Stepped, TreeInv
  <2>2. CASE UNCHANGED treeVars
    BY <2>2 DEF treeVars, TreeInv
  <2> QED BY <2>1, <2>2
<1> QED BY <1>1, <1>2, PTL DEF TreeSpec

-----------------------------------------------------------------------------
(* Bitmaps, pointers and counts *)

LEMMA LiveIs ==
  ASSUME Sound(vol)
  PROVE  /\ \A type \in {"file", "dir"} : \A n : n \in LiveOf(type) <=> n \in Inodes /\ vol.node[n].mode = type
         /\ \A n : n \in LiveNodes <=> n \in Inodes /\ vol.node[n].mode # "none"
<1>1. vol.used["inode"] \subseteq Inodes /\ vol.node \in [Inodes -> NodeSet] /\ \A n \in Inodes : NodeShape(vol, n)
  BY DEF Sound, Base, Core, VolumeOK, InodesOK
<1>2. \A n \in Inodes : vol.node[n].mode \in {"none", "file", "dir"}
  <2> SUFFICES ASSUME NEW n \in Inodes PROVE vol.node[n].mode \in {"none", "file", "dir"}
    OBVIOUS
  <2>1. vol.node[n] \in NodeSet
    BY <1>1
  <2> QED BY <2>1 DEF NodeSet
<1>3. \A n \in Inodes : vol.node[n].mode # "none" => n \in vol.used["inode"]
  BY <1>1 DEF NodeShape
<1>4. \A type \in {"file", "dir"} : \A n : n \in LiveOf(type) <=> n \in Inodes /\ vol.node[n].mode = type
  BY <1>1, <1>3 DEF LiveOf
<1>5. \A n : n \in LiveNodes <=> n \in Inodes /\ vol.node[n].mode # "none"
  BY <1>2, <1>4 DEF LiveNodes
<1> QED BY <1>4, <1>5

LEMMA BlocksFact == ASSUME Sound(vol) PROVE BlocksExact
<1>1. /\ Core(vol) /\ Owned(vol) /\ VolumeOK(vol) /\ \A n \in Inodes : NodeShape(vol, n)
  BY DEF Sound, Base, Core
<1>2. /\ \A n \in Inodes, i \in Cells : Ptr(vol, n, i) # 0 => DataBlock(Ptr(vol, n, i)) /\ Ptr(vol, n, i) \in vol.used["block"]
      /\ \A m, n \in Inodes, i, j \in Cells : Ptr(vol, m, i) = Ptr(vol, n, j) /\ Ptr(vol, m, i) # 0 => m = n /\ i = j
      /\ \A b \in vol.used["block"] : b \in Blocks /\ (DataBlock(b) => \E n \in Inodes, i \in Cells : Ptr(vol, n, i) = b)
      /\ \A b \in Blocks : ~DataBlock(b) => b \in vol.used["block"]
  BY <1>1 DEF Owned
<1>3. \A n : n \in LiveNodes <=> n \in Inodes /\ vol.node[n].mode # "none"
  BY LiveIs
<1>4. \A n \in Inodes : Held(vol, n) = {Ptr(vol, n, i) : i \in Full(vol, n)} /\ \A b \in Held(vol, n) : b \in vol.used["block"]
  BY <1>1, HeldIs
<1>5. \A n \in Inodes, i \in Cells : i \in Full(vol, n) <=> Ptr(vol, n, i) # 0
  BY DEF Full
<1>6. \A n \in Inodes : Full(vol, n) # {} => n \in LiveNodes
  BY <1>1, <1>3 DEF NodeShape
<1>7. \A n \in Inodes : Full(vol, n) \subseteq Cells
  BY DEF Full
<1>8. vol.used["block"] = {b \in Blocks : ~DataBlock(b)} \cup UNION {Held(vol, n) : n \in LiveNodes}
  <2>1. ASSUME NEW b \in vol.used["block"], DataBlock(b) PROVE \E n \in LiveNodes : b \in Held(vol, n)
    <3>1. PICK n \in Inodes, i \in Cells : Ptr(vol, n, i) = b
      BY <1>2, <2>1
    <3>2. b # 0
      BY <1>2 DEF Blocks
    <3>3. i \in Full(vol, n)
      BY <1>5, <3>1, <3>2
    <3> QED BY <1>4, <1>6, <3>1, <3>3
  <2>2. \A n \in LiveNodes : Held(vol, n) \subseteq vol.used["block"]
    BY <1>3, <1>4
  <2> QED BY <1>2, <2>1, <2>2
<1>9. \A n \in LiveNodes : Supported(vol, n, vol.node[n].mode)
  <2> SUFFICES ASSUME NEW n \in LiveNodes PROVE Supported(vol, n, vol.node[n].mode)
    OBVIOUS
  <2>1. n \in Inodes /\ vol.node[n].mode # "none" /\ vol.node[n] \in NodeSet
    BY <1>1, <1>3 DEF VolumeOK
  <2>2. PICK type \in {"file", "dir"} : vol.node[n].mode = type
    BY <2>1 DEF NodeSet
  <2>3. Supported(vol, n, type)
    BY <1>1, <2>1, <2>2, SupportedIs
  <2> QED BY <2>2, <2>3
<1>10. \A m, n \in LiveNodes : m # n => Held(vol, m) \cap Held(vol, n) = {}
  <2> SUFFICES ASSUME NEW m \in LiveNodes, NEW n \in LiveNodes, NEW b, b \in Held(vol, m), b \in Held(vol, n) PROVE m = n
    OBVIOUS
  <2>1. m \in Inodes /\ n \in Inodes
    BY <1>3
  <2>2. PICK i \in Full(vol, m) : b = Ptr(vol, m, i)
    BY <1>4, <2>1
  <2>3. PICK j \in Full(vol, n) : b = Ptr(vol, n, j)
    BY <1>4, <2>1
  <2>4. i \in Cells /\ j \in Cells
    BY <1>7, <2>1, <2>2, <2>3
  <2>5. Ptr(vol, m, i) = Ptr(vol, n, j) /\ Ptr(vol, m, i) # 0
    BY <1>5, <2>1, <2>2, <2>3, <2>4
  <2>6. \A x, y \in Inodes, k, l \in Cells : Ptr(vol, x, k) = Ptr(vol, y, l) /\ Ptr(vol, x, k) # 0 => x = y
    BY <1>2
  <2> QED BY <2>1, <2>4, <2>5, <2>6
<1> QED BY <1>8, <1>9, <1>10 DEF BlocksExact

LEMMA GroupLimits ==
  ASSUME NEW g \in Groups
  PROVE  /\ Cardinality(Candidates("block", g)) <= GroupSize(g) /\ GroupSize(g) \in Int
         /\ Cardinality(Candidates("inode", g)) <= INODES_PER_GROUP
<1>1. g \in Nat /\ g * BLOCKS_PER_GROUP \in Nat /\ g * BLOCKS_PER_GROUP <= BLOCKS - 2
  BY GroupsAre
<1>2. BLOCKS \in Nat /\ BLOCKS_PER_GROUP \in Nat \ {0} /\ INODES_PER_GROUP \in Nat /\ FIRST_INODE \in Nat /\ FIRST_INODE >= 3
  BY TreeAssumption
<1>3. GroupStart(g) \in Int /\ GroupSize(g) \in Int /\ GroupSize(g) >= 1
  BY <1>1, <1>2 DEF GroupStart, GroupSize
<1> DEFINE lo == GroupStart(g)
           z == GroupSize(g)
           hi == lo + z - 1
<1>4. Candidates("block", g) = lo .. hi
  BY DEF Candidates
<1> HIDE DEF lo, z
<1>5. lo \in Int /\ z \in Int /\ z >= 1 /\ hi \in Int
  BY <1>3 DEF lo, z
<1>6. Cardinality(lo .. hi) = IF lo > hi THEN 0 ELSE hi - lo + 1
  BY <1>5, FS_Interval
<1>7. Cardinality(lo .. hi) = z
  BY <1>5, <1>6
<1>8. Cardinality(Candidates("inode", g)) <= INODES_PER_GROUP
  BY <1>2, InodesOfGroup
<1> QED BY <1>3, <1>4, <1>7, <1>8 DEF z

LEMMA CountsFact == ASSUME Sound(vol) PROVE CountsExact
<1>1. /\ Core(vol) /\ Counted(vol) /\ Owned(vol) /\ InodesOK(vol) /\ DirsCounted(vol)
      /\ EntriesOK(Modes(vol), Entries(vol))
  BY DEF Sound, Base, Core, TreeOK
<1>2. \A g \in Groups, k \in Kinds : vol.gd[g][k] = Cardinality(Candidates(k, g) \ vol.used[k])
  BY <1>1 DEF Counted
<1>3. \A g \in Groups, k \in Kinds : vol.gd[g][k] <= Cardinality(Candidates(k, g))
  <2> SUFFICES ASSUME NEW g \in Groups, NEW k \in Kinds PROVE vol.gd[g][k] <= Cardinality(Candidates(k, g))
    OBVIOUS
  <2>1. IsFiniteSet(Candidates(k, g)) /\ Candidates(k, g) \ vol.used[k] \in SUBSET Candidates(k, g)
    BY CandidatesAre
  <2>2. Cardinality(Candidates(k, g) \ vol.used[k]) <= Cardinality(Candidates(k, g))
    BY <2>1, FS_Subset
  <2> QED BY <1>2, <2>2
<1>4. \A g \in Groups : vol.gd[g]["block"] <= GroupSize(g) /\ vol.gd[g]["inode"] <= INODES_PER_GROUP
  <2> SUFFICES ASSUME NEW g \in Groups PROVE vol.gd[g]["block"] <= GroupSize(g) /\ vol.gd[g]["inode"] <= INODES_PER_GROUP
    OBVIOUS
  <2>1. vol.gd[g]["block"] <= Cardinality(Candidates("block", g)) /\ vol.gd[g]["inode"] <= Cardinality(Candidates("inode", g))
    BY <1>3 DEF Kinds
  <2>2. vol.gd[g]["block"] \in Int /\ vol.gd[g]["inode"] \in Int
    <3>1. vol.gd \in [Groups -> [Kinds \cup {"dirs"} -> Int]]
      BY <1>1 DEF Core, VolumeOK
    <3> QED BY <3>1 DEF Kinds
  <2>3. Cardinality(Candidates("block", g)) \in Nat /\ Cardinality(Candidates("inode", g)) \in Nat
    <3>1. IsFiniteSet(Candidates("block", g)) /\ IsFiniteSet(Candidates("inode", g))
      BY CandidatesAre DEF Kinds
    <3> QED BY <3>1, FS_CardinalityType
  <2>4. INODES_PER_GROUP \in Int
    BY TreeAssumption
  <2> QED BY <2>1, <2>2, <2>3, <2>4, GroupLimits
<1>5. \A k \in Kinds : vol.sb[k] = SumTo([g \in 1 .. GROUPS |-> vol.gd[g - 1][k]], GROUPS)
  BY <1>1 DEF Counted
<1>6. {b \in Blocks : ~DataBlock(b)} \subseteq vol.used["block"] /\ 1 .. FIRST_INODE - 1 \subseteq vol.used["inode"]
  BY <1>1 DEF Owned, InodesOK
<1>7. Lookup(vol, ROOT_INO, ".") = ROOT_INO /\ Lookup(vol, ROOT_INO, "..") = ROOT_INO
  <2>1. ROOT_INO \in Inodes /\ Modes(vol)[ROOT_INO] = "dir"
    BY <1>1, RootIs DEF EntriesOK
  <2>2. vol.node[ROOT_INO].mode = "dir"
    BY <2>1, TablesAre
  <2>3. <<ROOT_INO, ".", ROOT_INO>> \in Entries(vol) /\ <<ROOT_INO, "..", ROOT_INO>> \in Entries(vol)
    BY <1>1, <2>1, Zenon DEF EntriesOK
  <2> QED BY <2>1, <2>2, <2>3, LookupThe
<1>8. Mountable(vol)
  BY <1>4, <1>5, <1>6, <1>7, Zenon DEF Mountable, Kinds
<1>9. ASSUME NEW g \in Groups PROVE vol.gd[g]["dirs"] = Cardinality({n \in LiveOf("dir") : GroupOf("inode", n) = g})
  <2>1. {n \in LiveOf("dir") : GroupOf("inode", n) = g} = DirsIn(vol, g)
    BY LiveIs DEF DirsIn
  <2> QED BY <1>1, <2>1 DEF DirsCounted
<1> QED BY <1>2, <1>8, <1>9, Zenon DEF CountsExact, Kinds

(* AllocationExact for every size of volume: no sequence of calls and        *)
(* failures leaks a block, shares it or makes a count and a bitmap differ.  *)
THEOREM AllocationAlwaysExact == TreeSpec => []AllocationExact
<1>1. TreeInv => AllocationExact
  BY BlocksFact, CountsFact DEF TreeInv, AllocationExact
<1> QED BY <1>1, EngineSound, PTL

-----------------------------------------------------------------------------
(* Records and entries *)

(* The records in use of a directory are its entries. *)
LEMMA PlaceEntry ==
  ASSUME Sound(vol), NEW d \in Inodes, vol.node[d].mode = "dir"
  PROVE  /\ \A p \in EntriesOf(d) : <<d, At(vol, d, p).name, At(vol, d, p).ino>> \in Entries(vol)
         /\ \A a, m : <<d, a, m>> \in Entries(vol) =>
              \E p \in EntriesOf(d) : At(vol, d, p).name = a /\ At(vol, d, p).ino = m
         /\ \A p, q \in EntriesOf(d) : At(vol, d, p).name = At(vol, d, q).name => p = q
<1> DEFINE B == DirOf(vol, d)
<1>1. Base(vol) /\ Shape(B)
  BY DEF Sound, Base
<1> HIDE DEF B
<1>2. \A a, m : <<d, a, m>> \in Entries(vol) <=> Has(B, a, m)
  <2>1. \A a, m : <<d, a, m>> \in Entries(vol) <=> Lists(vol, d, a, m)
    BY <1>1, EntryIs, Zenon
  <2>2. \A a, m : Lists(vol, d, a, m) <=> Has(B, a, m)
    BY DEF Lists, B
  <2> QED BY <2>1, <2>2, Zenon
<1>3. ASSUME NEW p \in EntriesOf(d)
      PROVE  /\ p = <<p[1], p[2]>> /\ Here(B, p[1], p[2]) /\ At(vol, d, p) = B[p[1]][p[2]]
  <2>1. p \in Places(vol, d) /\ At(vol, d, p).ino # 0
    BY DEF EntriesOf
  <2>2. p \in Nat \X Nat /\ p[1] \in DOMAIN B /\ p[2] \in 1 .. Len(B[p[1]]) /\ At(vol, d, p) = B[p[1]][p[2]]
    BY <1>1, <2>1, PlacesAre DEF B
  <2>3. p = <<p[1], p[2]>>
    BY <2>2
  <2> QED BY <2>1, <2>2, <2>3 DEF Here
<1>4. ASSUME NEW p \in EntriesOf(d) PROVE <<d, At(vol, d, p).name, At(vol, d, p).ino>> \in Entries(vol)
  <2>1. Has(B, At(vol, d, p).name, At(vol, d, p).ino)
    BY <1>3 DEF Has
  <2> QED BY <1>2, <2>1, Zenon
<1>5. ASSUME NEW a, NEW m, <<d, a, m>> \in Entries(vol)
      PROVE  \E p \in EntriesOf(d) : At(vol, d, p).name = a /\ At(vol, d, p).ino = m
  <2>1. Has(B, a, m)
    BY <1>2, <1>5, Zenon
  <2>2. PICK i, j : Here(B, i, j) /\ B[i][j].name = a /\ B[i][j].ino = m
    BY <2>1 DEF Has
  <2>3. <<i, j>> \in Places(vol, d)
    BY <1>1, <2>2, PlacesAre DEF Here, B
  <2> DEFINE p == <<i, j>>
  <2>4. p[1] = i /\ p[2] = j
    OBVIOUS
  <2> HIDE DEF p
  <2>5. p \in Places(vol, d)
    BY <2>3 DEF p
  <2>6. At(vol, d, p) = B[i][j]
    BY <1>1, <2>4, <2>5, PlacesAre DEF B
  <2>7. p \in EntriesOf(d)
    BY <2>2, <2>5, <2>6 DEF EntriesOf, Here
  <2> QED BY <2>2, <2>6, <2>7
<1>6. ASSUME NEW p \in EntriesOf(d), NEW q \in EntriesOf(d), At(vol, d, p).name = At(vol, d, q).name PROVE p = q
  <2>1. p[1] = q[1] /\ p[2] = q[2]
    BY <1>1, <1>3, <1>6 DEF Shape
  <2>2. p = <<p[1], p[2]>> /\ q = <<q[1], q[2]>>
    BY <1>3
  <2> QED BY <2>1, <2>2, Zenon
<1> QED BY <1>4, <1>5, <1>6, Zenon

(* The place where an entry is kept *)
PlaceOf(e) == CHOOSE p \in EntriesOf(e[1]) : At(vol, e[1], p).name = e[2] /\ At(vol, e[1], p).ino = e[3]

LEMMA EntryDir ==
  ASSUME Sound(vol), NEW e \in Entries(vol)
  PROVE  /\ e = <<e[1], e[2], e[3]>> /\ e[1] \in Inodes /\ e[3] \in Inodes /\ e[2] \in AllNames
         /\ vol.node[e[1]].mode = "dir" /\ vol.node[e[3]].mode # "none"
<1>1. EntriesOK(Modes(vol), Entries(vol))
  BY DEF Sound, TreeOK
<1>2. e = <<e[1], e[2], e[3]>> /\ e[1] \in Inodes /\ e[2] \in AllNames /\ e[3] \in Inodes
  BY <1>1, EntryType
<1>3. <<e[1], e[2], e[3]>> \in Entries(vol)
  BY <1>2, Zenon
<1>4. Modes(vol)[e[1]] = "dir" /\ Modes(vol)[e[3]] # "none"
  <2>1. \A d, a, m : <<d, a, m>> \in Entries(vol) => Modes(vol)[d] = "dir" /\ Modes(vol)[m] # "none"
    BY <1>1, Zenon DEF EntriesOK
  <2> QED BY <1>3, <2>1
<1>5. vol.node[e[1]].mode = "dir" /\ vol.node[e[3]].mode # "none"
  BY <1>2, <1>4, TablesAre
<1> QED BY <1>2, <1>5

LEMMA PlaceOfIs ==
  ASSUME Sound(vol), NEW e \in Entries(vol)
  PROVE  /\ PlaceOf(e) \in EntriesOf(e[1]) /\ At(vol, e[1], PlaceOf(e)).name = e[2] /\ At(vol, e[1], PlaceOf(e)).ino = e[3]
<1>1. /\ e = <<e[1], e[2], e[3]>> /\ e[1] \in Inodes /\ vol.node[e[1]].mode = "dir"
  BY EntryDir
<1>2. <<e[1], e[2], e[3]>> \in Entries(vol)
  BY <1>1, Zenon
<1>3. \E p \in EntriesOf(e[1]) : At(vol, e[1], p).name = e[2] /\ At(vol, e[1], p).ino = e[3]
  <2> DEFINE x == e[1]
             b == e[2]
             m == e[3]
  <2> HIDE DEF x, b, m
  <2>1. x \in Inodes /\ vol.node[x].mode = "dir" /\ <<x, b, m>> \in Entries(vol)
    BY <1>1, <1>2 DEF x, b, m
  <2>2. \E p \in EntriesOf(x) : At(vol, x, p).name = b /\ At(vol, x, p).ino = m
    BY <2>1, PlaceEntry
  <2> QED BY <2>2 DEF x, b, m
<1> QED BY <1>3, Zenon DEF PlaceOf

(* An entry is the only one at its place. *)
LEMMA PlaceBack ==
  ASSUME Sound(vol), NEW d \in Inodes, vol.node[d].mode = "dir", NEW p \in EntriesOf(d)
  PROVE  \E e \in Entries(vol) : /\ e[1] = d /\ e[2] = At(vol, d, p).name /\ e[3] = At(vol, d, p).ino
                                 /\ PlaceOf(e) = p
<1> DEFINE e == <<d, At(vol, d, p).name, At(vol, d, p).ino>>
<1>1. e[1] = d /\ e[2] = At(vol, d, p).name /\ e[3] = At(vol, d, p).ino
  BY TripleIs
<1>2. e \in Entries(vol)
  BY PlaceEntry
<1> HIDE DEF e
<1>3. PlaceOf(e) \in EntriesOf(d) /\ At(vol, d, PlaceOf(e)).name = At(vol, d, p).name
  BY <1>1, <1>2, PlaceOfIs
<1>4. PlaceOf(e) = p
  BY <1>3, PlaceEntry
<1> QED BY <1>1, <1>2, <1>4

-----------------------------------------------------------------------------
(* The tree *)

(* What Reachable has: the inodes in every set closed under names *)
LEMMA ReachableIs == ASSUME Sound(vol) PROVE \A n : n \in Reachable <=> n \in Inodes /\ vol.node[n].mode # "none"
<1> DEFINE below == [d \in LiveOf("dir") |-> {At(vol, d, p).ino : p \in NamesOf(d)}]
           closed == {S \in SUBSET Inodes : ROOT_INO \in S /\ \A d \in DOMAIN below \cap S : below[d] \subseteq S}
<1>1. /\ EntriesOK(Modes(vol), Entries(vol)) /\ Rooted(Modes(vol), Entries(vol)) /\ ROOT_INO \in Inodes
  BY RootIs DEF Sound, TreeOK
<1>2. Reachable = {n \in Inodes : \A S \in closed : n \in S}
  BY DEF Reachable
<1>3. \A d : d \in LiveOf("dir") <=> d \in Inodes /\ vol.node[d].mode = "dir"
  BY LiveIs
<1>4. DOMAIN below = LiveOf("dir") /\ \A d \in LiveOf("dir") : below[d] = {At(vol, d, p).ino : p \in NamesOf(d)}
  OBVIOUS
<1>5. \A S : S \in closed <=> S \in SUBSET Inodes /\ ROOT_INO \in S /\ \A d \in LiveOf("dir") \cap S : below[d] \subseteq S
  BY <1>4
<1> HIDE DEF below, closed
<1>6. ASSUME NEW S \in closed PROVE Closed(S, Entries(vol))
  <2>1. ASSUME NEW d, NEW a, NEW m, <<d, a, m>> \in Entries(vol), a \notin Dots, d \in S PROVE m \in S
    <3>1. d \in Inodes /\ vol.node[d].mode = "dir"
      <4>1. d \in Inodes
        BY <1>1, <2>1, EntryType
      <4>2. \A x, b, k : <<x, b, k>> \in Entries(vol) => Modes(vol)[x] = "dir"
        BY <1>1, Zenon DEF EntriesOK
      <4>3. Modes(vol)[d] = "dir"
        BY <2>1, <4>2
      <4> QED BY <4>1, <4>3, TablesAre
    <3>2. PICK p \in EntriesOf(d) : At(vol, d, p).name = a /\ At(vol, d, p).ino = m
      BY <2>1, <3>1, PlaceEntry
    <3>3. p \in NamesOf(d)
      BY <2>1, <3>2 DEF NamesOf
    <3>4. d \in LiveOf("dir") /\ m \in below[d]
      BY <1>3, <1>4, <3>1, <3>2, <3>3
    <3>5. below[d] \subseteq S
      BY <1>5, <2>1, <3>4
    <3> QED BY <3>4, <3>5
  <2>2. ROOT_INO \in S
    BY <1>5
  <2> QED BY <2>1, <2>2, Zenon DEF Closed
<1>7. ASSUME NEW n \in Inodes, vol.node[n].mode # "none" PROVE n \in Reachable
  <2>1. ASSUME NEW S \in closed PROVE n \in S
    <3>1. Closed(S, Entries(vol)) /\ Modes(vol)[n] # "none"
      BY <1>6, <1>7, TablesAre
    <3> QED BY <1>1, <3>1, Zenon DEF Rooted
  <2> QED BY <1>2, <2>1
<1>8. ASSUME NEW n \in Reachable PROVE n \in Inodes /\ vol.node[n].mode # "none"
  <2> DEFINE S == {m \in Inodes : vol.node[m].mode # "none"}
  <2>1. ROOT_INO \in S
    <3>1. Modes(vol)[ROOT_INO] = "dir"
      BY <1>1 DEF EntriesOK
    <3>2. vol.node[ROOT_INO].mode = "dir"
      BY <1>1, <3>1, TablesAre
    <3> QED BY <1>1, <3>2
  <2>2. ASSUME NEW d \in LiveOf("dir"), NEW p \in NamesOf(d) PROVE At(vol, d, p).ino \in S
    <3>1. d \in Inodes /\ vol.node[d].mode = "dir" /\ p \in EntriesOf(d)
      BY <1>3, <2>2 DEF NamesOf
    <3>2. PICK e \in Entries(vol) : e[3] = At(vol, d, p).ino
      BY <3>1, PlaceBack
    <3> QED BY <3>2, EntryDir
  <2>3. S \in closed
    BY <1>4, <1>5, <2>1, <2>2
  <2> QED BY <1>2, <2>3
<1> QED BY <1>7, <1>8

LEMMA InodesFact == ASSUME Sound(vol) PROVE vol.used["inode"] = 1 .. FIRST_INODE - 1 \cup Reachable
<1>1. UsedOK(vol) /\ InodesOK(vol) /\ \A n \in Inodes : NodeShape(vol, n)
  BY DEF Sound, Base, Core
<1>2. ASSUME NEW n \in vol.used["inode"] PROVE n \in 1 .. FIRST_INODE - 1 \/ n \in Reachable
  <2>1. n \in Inodes /\ n \in Nat /\ n >= 1 /\ FIRST_INODE \in Nat
    BY <1>1, TreeAssumption DEF InodesOK, Inodes
  <2>2. n < FIRST_INODE \/ vol.node[n].mode # "none"
    BY <1>1 DEF UsedOK
  <2> QED BY <2>1, <2>2, ReachableIs
<1>3. ASSUME NEW n \in Reachable PROVE n \in vol.used["inode"]
  BY <1>1, ReachableIs DEF NodeShape
<1>4. 1 .. FIRST_INODE - 1 \subseteq vol.used["inode"]
  BY <1>1 DEF InodesOK
<1> QED BY <1>2, <1>3, <1>4

LEMMA RecordsFact ==
  ASSUME Sound(vol), NEW d \in Inodes, vol.node[d].mode = "dir", NEW i \in 0 .. vol.node[d].size - 1
  PROVE  LET records == vol.data[vol.node[d].direct[i]]
         IN  /\ SumTo([j \in DOMAIN records |-> records[j].len], Len(records)) = DIR_SPACE
             /\ \A j \in DOMAIN records : Used(records[j]) <= records[j].len
<1> DEFINE r == vol.data[vol.node[d].direct[i]]
<1>1. Base(vol) /\ Shape(DirOf(vol, d))
  BY DEF Sound, Base
<1>2. i \in DOMAIN DirOf(vol, d) /\ DirOf(vol, d)[i] = r
  BY <1>1, DirBlocks
<1>3. BlockShape(r)
  BY <1>1, <1>2 DEF Shape
<1> HIDE DEF r
<1>4. SumTo([j \in DOMAIN r |-> r[j].len], Len(r)) = DIR_SPACE
  BY <1>3 DEF BlockShape, Lens
<1>5. \A j \in DOMAIN r : Used(r[j]) <= r[j].len
  <2>1. r \in Seq(RecordSet) /\ \A j \in 1 .. Len(r) : Used(r[j]) <= r[j].len
    BY <1>3 DEF BlockShape
  <2>2. DOMAIN r = 1 .. Len(r)
    BY <2>1
  <2> QED BY <2>1, <2>2
<1> QED BY <1>4, <1>5, Zenon DEF r

(* The names of a directory that stand for directories *)
LEMMA SubsCount ==
  ASSUME Sound(vol), NEW d \in Inodes, vol.node[d].mode = "dir"
  PROVE  vol.node[d].links = 2 + Cardinality({p \in NamesOf(d) : At(vol, d, p).ino \in LiveOf("dir")})
<1> DEFINE S == Subs(Modes(vol), Entries(vol), d)
           T == {p \in NamesOf(d) : At(vol, d, p).ino \in LiveOf("dir")}
           f == [e \in S |-> PlaceOf(e)]
<1>1. EntriesOK(Modes(vol), Entries(vol)) /\ LinksOK(Modes(vol), LinksOf(vol), Entries(vol))
  BY DEF Sound, TreeOK
<1>2. vol.node[d].links = 2 + Cardinality(S)
  <2>1. LinksOf(vol)[d] = 2 + Cardinality(S)
    BY <1>1, TablesAre DEF LinksOK
  <2> QED BY <2>1, TablesAre
<1>3. IsFiniteSet(S)
  BY <1>1, EntryType
<1>4. \A n : n \in LiveOf("dir") <=> n \in Inodes /\ vol.node[n].mode = "dir"
  BY LiveIs
<1>5. \A e : e \in S <=> e \in Entries(vol) /\ e[1] = d /\ e[2] \notin Dots /\ Modes(vol)[e[3]] = "dir"
  BY DEF Subs
<1>6. \A p : p \in T <=> p \in EntriesOf(d) /\ At(vol, d, p).name \notin Dots /\ At(vol, d, p).ino \in LiveOf("dir")
  BY DEF NamesOf
<1> HIDE DEF S, T
<1>7. ASSUME NEW e \in S
      PROVE  /\ PlaceOf(e) \in T /\ At(vol, d, PlaceOf(e)).name = e[2] /\ At(vol, d, PlaceOf(e)).ino = e[3]
             /\ e = <<d, e[2], e[3]>>
  <2>1. e \in Entries(vol) /\ e[1] = d /\ e[2] \notin Dots /\ Modes(vol)[e[3]] = "dir"
    BY <1>5
  <2>2. PlaceOf(e) \in EntriesOf(d) /\ At(vol, d, PlaceOf(e)).name = e[2] /\ At(vol, d, PlaceOf(e)).ino = e[3]
    BY <2>1, PlaceOfIs
  <2>3. e = <<e[1], e[2], e[3]>> /\ e[3] \in Inodes
    BY <2>1, EntryDir
  <2>4. e[3] \in LiveOf("dir")
    BY <1>4, <2>1, <2>3, TablesAre
  <2>5. e = <<d, e[2], e[3]>>
    BY <2>1, <2>3, Zenon
  <2> QED BY <1>6, <2>1, <2>2, <2>4, <2>5
<1>8. f \in [S -> T] /\ \A e \in S : f[e] = PlaceOf(e)
  BY <1>7
<1>9. ASSUME NEW x \in S, NEW y \in S, f[x] = f[y] PROVE x = y
  <2>1. PlaceOf(x) = PlaceOf(y)
    BY <1>8, <1>9
  <2>2. x[2] = y[2] /\ x[3] = y[3]
    BY <1>7, <2>1
  <2>3. x = <<d, x[2], x[3]>> /\ y = <<d, y[2], y[3]>>
    BY <1>7
  <2> QED BY <2>2, <2>3, Zenon
<1>10. ASSUME NEW t \in T PROVE \E x \in S : f[x] = t
  <2>1. t \in EntriesOf(d) /\ At(vol, d, t).name \notin Dots /\ At(vol, d, t).ino \in LiveOf("dir")
    BY <1>6
  <2>2. PICK e \in Entries(vol) : e[1] = d /\ e[2] = At(vol, d, t).name /\ e[3] = At(vol, d, t).ino /\ PlaceOf(e) = t
    BY <2>1, PlaceBack
  <2>3. e[3] \in Inodes /\ vol.node[e[3]].mode = "dir"
    BY <1>4, <2>1, <2>2
  <2>4. Modes(vol)[e[3]] = "dir"
    BY <2>3, TablesAre
  <2>5. e \in S
    BY <1>5, <2>1, <2>2, <2>4
  <2> QED BY <1>8, <2>2, <2>5
<1> HIDE DEF f
<1>11. Cardinality(T) = Cardinality(S)
  BY <1>3, <1>8, <1>9, <1>10, OneToOne
<1> QED BY <1>2, <1>11 DEF T

(* The names of a file *)
LEMMA NamesCount ==
  ASSUME Sound(vol), NEW n \in Inodes, vol.node[n].mode = "file"
  PROVE  vol.node[n].links = Cardinality(UNION {{d} \X {p \in NamesOf(d) : At(vol, d, p).ino = n} : d \in LiveOf("dir")})
<1> DEFINE S == NamesTo(Entries(vol), n)
           T == UNION {{d} \X {p \in NamesOf(d) : At(vol, d, p).ino = n} : d \in LiveOf("dir")}
           f == [e \in S |-> <<e[1], PlaceOf(e)>>]
<1>1. EntriesOK(Modes(vol), Entries(vol)) /\ LinksOK(Modes(vol), LinksOf(vol), Entries(vol))
  BY DEF Sound, TreeOK
<1>2. vol.node[n].links = Cardinality(S)
  <2>1. LinksOf(vol)[n] = Cardinality(S)
    BY <1>1, TablesAre DEF LinksOK
  <2> QED BY <2>1, TablesAre
<1>3. IsFiniteSet(S)
  BY <1>1, EntryType
<1>4. \A d : d \in LiveOf("dir") <=> d \in Inodes /\ vol.node[d].mode = "dir"
  BY LiveIs
<1>5. \A e : e \in S <=> e \in Entries(vol) /\ e[2] \notin Dots /\ e[3] = n
  BY DEF NamesTo
<1>6. \A t : t \in T <=> \E d \in LiveOf("dir") : \E p \in EntriesOf(d) :
                          t = <<d, p>> /\ At(vol, d, p).name \notin Dots /\ At(vol, d, p).ino = n
  <2>1. \A t : t \in T <=> \E d \in LiveOf("dir") : t \in {d} \X {p \in NamesOf(d) : At(vol, d, p).ino = n}
    OBVIOUS
  <2>2. \A t, d : t \in {d} \X {p \in NamesOf(d) : At(vol, d, p).ino = n} <=>
                  \E p \in EntriesOf(d) : t = <<d, p>> /\ At(vol, d, p).name \notin Dots /\ At(vol, d, p).ino = n
    BY DEF NamesOf
  <2> HIDE DEF T
  <2> DEFINE X(t, d) == t \in {d} \X {p \in NamesOf(d) : At(vol, d, p).ino = n}
             Y(t, d) == \E p \in EntriesOf(d) : t = <<d, p>> /\ At(vol, d, p).name \notin Dots /\ At(vol, d, p).ino = n
  <2>3. (\A t, d : X(t, d) <=> Y(t, d)) /\ \A t : t \in T <=> \E d \in LiveOf("dir") : X(t, d)
    BY <2>1, <2>2, Zenon
  <2> HIDE DEF X, Y
  <2>4. \A t : t \in T <=> \E d \in LiveOf("dir") : Y(t, d)
    BY <2>3, Zenon
  <2> QED BY <2>4, Zenon DEF Y
<1> HIDE DEF S, T
<1>7. ASSUME NEW e \in S
      PROVE  /\ <<e[1], PlaceOf(e)>> \in T /\ At(vol, e[1], PlaceOf(e)).name = e[2]
             /\ e = <<e[1], e[2], n>>
  <2>1. e \in Entries(vol) /\ e[2] \notin Dots /\ e[3] = n
    BY <1>5
  <2>2. PlaceOf(e) \in EntriesOf(e[1]) /\ At(vol, e[1], PlaceOf(e)).name = e[2] /\ At(vol, e[1], PlaceOf(e)).ino = n
    BY <2>1, PlaceOfIs
  <2>3. e = <<e[1], e[2], e[3]>> /\ e[1] \in LiveOf("dir")
    BY <1>4, <2>1, EntryDir
  <2>4. e = <<e[1], e[2], n>>
    BY <2>1, <2>3, Zenon
  <2>5. At(vol, e[1], PlaceOf(e)).name \notin Dots
    BY <2>1, <2>2
  <2>6. <<e[1], PlaceOf(e)>> \in T
    BY <1>6, <2>2, <2>3, <2>5, Zenon
  <2> QED BY <2>2, <2>4, <2>6
<1>8. f \in [S -> T] /\ \A e \in S : f[e] = <<e[1], PlaceOf(e)>>
  BY <1>7
<1>9. ASSUME NEW x \in S, NEW y \in S, f[x] = f[y] PROVE x = y
  <2>1. <<x[1], PlaceOf(x)>> = <<y[1], PlaceOf(y)>>
    BY <1>8, <1>9
  <2>2. x[1] = y[1] /\ PlaceOf(x) = PlaceOf(y)
    BY <2>1
  <2>3. x[2] = y[2]
    <3>1. At(vol, x[1], PlaceOf(x)).name = x[2] /\ At(vol, y[1], PlaceOf(y)).name = y[2]
      BY <1>7
    <3> QED BY <2>2, <3>1
  <2>4. x = <<x[1], x[2], n>> /\ y = <<y[1], y[2], n>>
    BY <1>7
  <2> QED BY <2>2, <2>3, <2>4, Zenon
<1>10. ASSUME NEW t \in T PROVE \E x \in S : f[x] = t
  <2>0. PICK d \in LiveOf("dir") : \E p \in EntriesOf(d) :
                t = <<d, p>> /\ At(vol, d, p).name \notin Dots /\ At(vol, d, p).ino = n
    BY <1>6, Zenon
  <2>1. PICK p \in EntriesOf(d) : t = <<d, p>> /\ At(vol, d, p).name \notin Dots /\ At(vol, d, p).ino = n
    BY <2>0
  <2>2. PICK e \in Entries(vol) : e[1] = d /\ e[2] = At(vol, d, p).name /\ e[3] = At(vol, d, p).ino /\ PlaceOf(e) = p
    BY <1>4, <2>1, PlaceBack
  <2>3. e \in S
    BY <1>5, <2>1, <2>2
  <2>4. f[e] = <<e[1], PlaceOf(e)>>
    BY <1>8, <2>3
  <2> QED BY <2>1, <2>2, <2>3, <2>4
<1> HIDE DEF f
<1>11. Cardinality(T) = Cardinality(S)
  BY <1>3, <1>8, <1>9, <1>10, OneToOne
<1> QED BY <1>2, <1>11 DEF T

LEMMA TreeFact == ASSUME Sound(vol) PROVE TreeSound
<1>1. /\ Base(vol) /\ EntriesOK(Modes(vol), Entries(vol)) /\ ParentsOK(Modes(vol), Entries(vol))
  BY DEF Sound, TreeOK
<1>2. \A type \in {"file", "dir"} : \A n : n \in LiveOf(type) <=> n \in Inodes /\ vol.node[n].mode = type
  BY LiveIs
<1>3. ASSUME NEW d \in LiveOf("dir") PROVE Lookup(vol, d, ".") = d
  <2>1. d \in Inodes /\ vol.node[d].mode = "dir" /\ Modes(vol)[d] = "dir"
    BY <1>2, TablesAre
  <2>2. <<d, ".", d>> \in Entries(vol)
    BY <1>1, <2>1, Zenon DEF EntriesOK
  <2> QED BY <2>1, <2>2, LookupThe
<1>4. ASSUME NEW d \in LiveOf("dir"), NEW p \in NamesOf(d), At(vol, d, p).ino \in LiveOf("dir")
      PROVE  Lookup(vol, At(vol, d, p).ino, "..") = d
  <2> DEFINE m == At(vol, d, p).ino
             a == At(vol, d, p).name
  <2>1. d \in Inodes /\ vol.node[d].mode = "dir" /\ m \in Inodes /\ vol.node[m].mode = "dir"
    BY <1>2, <1>4
  <2>2. p \in EntriesOf(d) /\ a \notin Dots
    BY DEF NamesOf
  <2>3. <<d, a, m>> \in Entries(vol)
    BY <2>1, <2>2, PlaceEntry
  <2>4. Modes(vol)[m] = "dir"
    BY <2>1, TablesAre
  <2> HIDE DEF m, a
  <2>5. <<m, "..", d>> \in Entries(vol)
    BY <1>1, <2>2, <2>3, <2>4, Zenon DEF ParentsOK
  <2>6. Lookup(vol, m, "..") = d
    BY <2>1, <2>5, LookupThe
  <2> QED BY <2>6 DEF m
<1>5. ASSUME NEW d \in LiveOf("dir")
      PROVE  /\ \A i \in 0 .. vol.node[d].size - 1 :
                  LET records == vol.data[vol.node[d].direct[i]]
                  IN /\ SumTo([j \in DOMAIN records |-> records[j].len], Len(records)) = DIR_SPACE
                     /\ \A j \in DOMAIN records : Used(records[j]) <= records[j].len
             /\ \A p, q \in EntriesOf(d) : At(vol, d, p).name = At(vol, d, q).name => p = q
             /\ vol.node[d].links = 2 + Cardinality({p \in NamesOf(d) : At(vol, d, p).ino \in LiveOf("dir")})
  <2>1. d \in Inodes /\ vol.node[d].mode = "dir"
    BY <1>2
  <2> QED BY <2>1, RecordsFact, PlaceEntry, SubsCount, Zenon
<1>6. ASSUME NEW f \in LiveOf("file")
      PROVE  vol.node[f].links =
               Cardinality(UNION {{d} \X {p \in NamesOf(d) : At(vol, d, p).ino = f} : d \in LiveOf("dir")})
  <2>1. f \in Inodes /\ vol.node[f].mode = "file"
    BY <1>2
  <2> QED BY <2>1, NamesCount, Zenon
<1>7. vol.used["inode"] = 1 .. FIRST_INODE - 1 \cup Reachable
  BY InodesFact
<1> QED BY <1>3, <1>4, <1>5, <1>6, <1>7, Zenon DEF TreeSound

(* TreeSound for every size of volume: whatever calls and failures came     *)
(* before, the directories are a tree in which every inode in use has a     *)
(* place, names are unique and link counts are right.                       *)
THEOREM TreeAlwaysSound == TreeSpec => []TreeSound
<1>1. TreeInv => TreeSound
  BY TreeFact DEF TreeInv
<1> QED BY <1>1, EngineSound, PTL

-----------------------------------------------------------------------------
(* The tree of files that a volume stands for *)

DirsOf(V) == {n \in Inodes : V.node[n].mode = "dir"}
FilesOf(V) == {n \in Inodes : V.node[n].mode = "file"}
NamedIn(V) == {e \in Entries(V) : e[2] \notin Dots}
TextOf(V) == [n \in FilesOf(V) |-> Contents(V, n)]
TextWith(T, n, t) == [m \in DOMAIN T \cup {n} |-> IF m = n THEN t ELSE T[m]]
TextWithout(T, n) == [m \in DOMAIN T \ {n} |-> T[m]]

Seen == LiveDirs = DirsOf(vol) /\ LiveEntries = NamedIn(vol) /\ LiveText = TextOf(vol)

LEMMA SeenIs == ASSUME Sound(vol) PROVE Seen
<1>1. \A type \in {"file", "dir"} : \A n : n \in LiveOf(type) <=> n \in Inodes /\ vol.node[n].mode = type
  BY LiveIs
<1>2. LiveDirs = DirsOf(vol)
  BY <1>1 DEF LiveDirs, DirsOf
<1>3. LiveOf("file") = FilesOf(vol)
  BY <1>1 DEF FilesOf
<1>4. LiveText = TextOf(vol)
  BY <1>3, Zenon DEF LiveText, TextOf
<1>5. \A d : d \in LiveDirs <=> d \in Inodes /\ vol.node[d].mode = "dir"
  BY <1>2 DEF DirsOf
<1>6. \A e : e \in LiveEntries <=> \E d \in LiveDirs : \E p \in NamesOf(d) : e = <<d, At(vol, d, p).name, At(vol, d, p).ino>>
  <2> DEFINE L(d) == {<<d, At(vol, d, p).name, At(vol, d, p).ino>> : p \in NamesOf(d)}
  <2>1. LiveEntries = UNION {L(d) : d \in LiveDirs}
    BY DEF LiveEntries
  <2>2. \A d, e : e \in L(d) <=> \E p \in NamesOf(d) : e = <<d, At(vol, d, p).name, At(vol, d, p).ino>>
    OBVIOUS
  <2> HIDE DEF L
  <2>3. \A e : e \in LiveEntries <=> \E d \in LiveDirs : e \in L(d)
    BY <2>1
  <2> QED BY <2>2, <2>3, ZenonT(60)
<1>7. ASSUME NEW e \in LiveEntries PROVE e \in NamedIn(vol)
  <2>1. PICK d \in LiveDirs : \E p \in NamesOf(d) : e = <<d, At(vol, d, p).name, At(vol, d, p).ino>>
    BY <1>6
  <2>2. PICK p \in NamesOf(d) : e = <<d, At(vol, d, p).name, At(vol, d, p).ino>>
    BY <2>1
  <2>3. p \in EntriesOf(d) /\ At(vol, d, p).name \notin Dots
    BY <2>2 DEF NamesOf
  <2>4. e \in Entries(vol)
    BY <1>5, <2>1, <2>2, <2>3, PlaceEntry
  <2>5. e[2] = At(vol, d, p).name
    BY <2>2, TripleIs
  <2> QED BY <2>3, <2>4, <2>5 DEF NamedIn
<1>8. ASSUME NEW e \in NamedIn(vol) PROVE e \in LiveEntries
  <2>1. e \in Entries(vol) /\ e[2] \notin Dots
    BY DEF NamedIn
  <2>2. e = <<e[1], e[2], e[3]>> /\ e[1] \in LiveDirs
    BY <1>5, <2>1, EntryDir
  <2>3. PlaceOf(e) \in EntriesOf(e[1]) /\ At(vol, e[1], PlaceOf(e)).name = e[2] /\ At(vol, e[1], PlaceOf(e)).ino = e[3]
    BY <2>1, PlaceOfIs
  <2>4. PlaceOf(e) \in NamesOf(e[1])
    BY <2>1, <2>3 DEF NamesOf
  <2>5. e = <<e[1], At(vol, e[1], PlaceOf(e)).name, At(vol, e[1], PlaceOf(e)).ino>>
    BY <2>2, <2>3, Zenon
  <2> QED BY <1>6, <2>2, <2>4, <2>5
<1>9. LiveEntries = NamedIn(vol)
  BY <1>7, <1>8, Zenon
<1> QED BY <1>2, <1>4, <1>9 DEF Seen

LEMMA SeenNext == TreeInv' => Seen'
<1>1. TreeInv => Seen
  BY SeenIs DEF TreeInv
<1> QED BY <1>1, PTL

(* Files that a call leaves alone keep their contents. *)
LEMMA KeepsText ==
  ASSUME NEW V, Sound(V), NEW W, NEW m \in Inodes, V.node[m].mode = "file", Alike(V, W, m)
  PROVE  Contents(W, m) = Contents(V, m)
<1>1. V.node[m].size \in Nat
  <2>1. V.node[m] \in NodeSet
    BY DEF Sound, Base, Core, VolumeOK
  <2> QED BY <2>1 DEF NodeSet
<1>2. V.node[m].size <= MAX_FILE
  BY DEF Sound, Base, NodeShape
<1> QED BY <1>1, <1>2, AlikeContents

SameTree(V, W) == DirsOf(W) = DirsOf(V) /\ TextOf(W) = TextOf(V)

LEMMA UntouchedTree == ASSUME NEW V, Sound(V), NEW W, Untouched(V, W) PROVE SameTree(V, W)
<1>1. \A m \in Inodes : W.node[m].mode = V.node[m].mode
  BY DEF Untouched
<1>2. DirsOf(W) = DirsOf(V) /\ FilesOf(W) = FilesOf(V)
  BY <1>1 DEF DirsOf, FilesOf
<1>3. \A m \in FilesOf(V) : Contents(W, m) = Contents(V, m)
  BY KeepsText DEF Untouched, FilesOf
<1>4. TextOf(W) = TextOf(V)
  BY <1>2, <1>3 DEF TextOf
<1> QED BY <1>2, <1>4 DEF SameTree

LEMMA OthersTree ==
  ASSUME NEW V, Sound(V), NEW W, NEW n \in Inodes, Others(V, W, n)
  PROVE  /\ DOMAIN TextOf(V) = FilesOf(V) /\ \A m \in FilesOf(V) : TextOf(V)[m] = Contents(V, m)
         /\ \A m : m # n => (m \in DirsOf(W) <=> m \in DirsOf(V)) /\ (m \in FilesOf(W) <=> m \in FilesOf(V))
         /\ \A m \in FilesOf(V) : m # n => Contents(W, m) = TextOf(V)[m]
         /\ n \in DirsOf(V) <=> V.node[n].mode = "dir"
         /\ n \in DirsOf(W) <=> W.node[n].mode = "dir"
         /\ n \in FilesOf(V) <=> V.node[n].mode = "file"
         /\ n \in FilesOf(W) <=> W.node[n].mode = "file"
<1>1. DOMAIN TextOf(V) = FilesOf(V) /\ \A m \in FilesOf(V) : TextOf(V)[m] = Contents(V, m)
  BY DEF TextOf
<1>2. \A m \in Inodes : m # n => W.node[m].mode = V.node[m].mode
  BY DEF Others
<1>3. \A m \in FilesOf(V) : m # n => Contents(W, m) = Contents(V, m)
  BY KeepsText DEF Others, FilesOf
<1>4. \A m : m # n => (m \in DirsOf(W) <=> m \in DirsOf(V)) /\ (m \in FilesOf(W) <=> m \in FilesOf(V))
  BY <1>2 DEF DirsOf, FilesOf
<1> QED BY <1>1, <1>3, <1>4 DEF DirsOf, FilesOf

(* A file gets a text. *)
LEMMA TextFilled ==
  ASSUME NEW V, Sound(V), NEW W, NEW n \in Inodes, Others(V, W, n), V.node[n].mode # "dir", W.node[n].mode = "file",
         NEW t, Contents(W, n) = t
  PROVE  DirsOf(W) = DirsOf(V) /\ TextOf(W) = TextWith(TextOf(V), n, t)
<1>1. DirsOf(W) = DirsOf(V)
  <2>1. n \notin DirsOf(V) /\ n \notin DirsOf(W) /\ \A m : m # n => (m \in DirsOf(W) <=> m \in DirsOf(V))
    BY OthersTree
  <2> QED BY <2>1
<1>2. FilesOf(W) = DOMAIN TextOf(V) \cup {n}
  <2>1. n \in FilesOf(W) /\ DOMAIN TextOf(V) = FilesOf(V) /\ \A m : m # n => (m \in FilesOf(W) <=> m \in FilesOf(V))
    BY OthersTree
  <2> QED BY <2>1
<1> DEFINE T == TextOf(V)
<1>3. \A m \in FilesOf(W) : Contents(W, m) = IF m = n THEN t ELSE T[m]
  <2>1. /\ \A m : m # n => (m \in FilesOf(W) <=> m \in FilesOf(V))
        /\ \A m \in FilesOf(V) : m # n => Contents(W, m) = T[m]
    BY OthersTree
  <2> HIDE DEF T
  <2> QED BY <2>1
<1> HIDE DEF T
<1>4. FilesOf(W) = DOMAIN T \cup {n}
  BY <1>2 DEF T
<1>5. TextOf(W) = TextWith(T, n, t)
  BY <1>3, <1>4 DEF TextOf, TextWith
<1> QED BY <1>1, <1>5 DEF T

LEMMA NotNamed ==
  ASSUME NEW V, NEW d, NEW a, \A m : <<d, a, m>> \notin Entries(V)
  PROVE  \A e \in NamedIn(V) : ~(e[1] = d /\ e[2] = a)
<1> SUFFICES ASSUME NEW e \in NamedIn(V), e[1] = d, e[2] = a PROVE FALSE
  OBVIOUS
<1>1. e \in Entries(V) /\ e \in Triples
  BY EntriesAre DEF NamedIn
<1>2. e = <<e[1], e[2], e[3]>>
  BY <1>1, TripleIs
<1>3. e = <<d, a, e[3]>>
  BY <1>2, Zenon
<1> QED BY <1>1, <1>3, Zenon

(* The steps of the tree of files, between two volumes *)
FreeName(V, d, a) == \A e \in NamedIn(V) : ~(e[1] = d /\ e[2] = a)
FreeNode(V, n) == n \in Inodes /\ n \notin DirsOf(V) /\ n \notin DOMAIN TextOf(V)
GivenText(V, t) == t \in Texts \/ t = <<>> \/ \E f \in DOMAIN TextOf(V) : t = TextOf(V)[f]
Refills(V, W, n, t) ==
  /\ DirsOf(W) = DirsOf(V) /\ NamedIn(W) = NamedIn(V) /\ n \in DOMAIN TextOf(V)
  /\ TextOf(W) = TextWith(TextOf(V), n, t) \/ TextOf(W) = TextWith(TextOf(V), n, TextOf(V)[n] \o t)
Brings(V, W, d, a, n, t) ==
  /\ DirsOf(W) = DirsOf(V) /\ d \in DirsOf(V) /\ FreeNode(V, n) /\ FreeName(V, d, a)
  /\ NamedIn(W) = NamedIn(V) \cup {<<d, a, n>>} /\ GivenText(V, t) /\ TextOf(W) = TextWith(TextOf(V), n, t)
AddsDir(V, W, d, a, n) ==
  /\ TextOf(W) = TextOf(V) /\ d \in DirsOf(V) /\ FreeNode(V, n) /\ FreeName(V, d, a)
  /\ DirsOf(W) = DirsOf(V) \cup {n} /\ NamedIn(W) = NamedIn(V) \cup {<<d, a, n>>}
Relabels(V, W, e, b) ==
  /\ SameTree(V, W) /\ e \in NamedIn(V) /\ FreeName(V, e[1], b)
  /\ NamedIn(W) = (NamedIn(V) \ {e}) \cup {<<e[1], b, e[3]>>}
DropsDir(V, W, e) ==
  /\ e \in NamedIn(V) /\ NamedIn(W) = NamedIn(V) \ {e} /\ e[3] \in DirsOf(V)
  /\ \A f \in NamedIn(V) : f[1] # e[3]
  /\ DirsOf(W) = DirsOf(V) \ {e[3]} /\ TextOf(W) = TextOf(V)
DropsFile(V, W, e) ==
  /\ e \in NamedIn(V) /\ NamedIn(W) = NamedIn(V) \ {e} /\ e[3] \in DOMAIN TextOf(V) /\ DirsOf(W) = DirsOf(V)
  /\ (\E f \in NamedIn(V) \ {e} : f[3] = e[3]) => TextOf(W) = TextOf(V)
  /\ ~(\E f \in NamedIn(V) \ {e} : f[3] = e[3]) => TextOf(W) = TextWithout(TextOf(V), e[3])
TreeStep(V, W) ==
  \/ \E n, t : t \in Texts /\ Refills(V, W, n, t)
  \/ \E d, a, n, t : a \in Names /\ Brings(V, W, d, a, n, t)
  \/ \E d, a, n : a \in Names /\ AddsDir(V, W, d, a, n)
  \/ \E e, b : b \in Names /\ Relabels(V, W, e, b)
  \/ \E e : DropsDir(V, W, e)
  \/ \E e : DropsFile(V, W, e)

LEMMA NoDots == \A a \in Names : a \notin Dots /\ a \in AllNames
BY TreeAssumption DEF AllNames

LEMMA FreeNodeIs ==
  ASSUME NEW V, NEW n \in Inodes, V.node[n].mode = "none"
  PROVE  FreeNode(V, n)
<1>1. DOMAIN TextOf(V) = FilesOf(V)
  BY DEF TextOf
<1> QED BY <1>1 DEF FreeNode, FilesOf, DirsOf

LEMMA FilledStep ==
  ASSUME NEW V, Sound(V), NEW W, NEW n, NEW u, Filled(V, W, n, u), NEW t, u = t \/ u = Contents(V, n) \o t
  PROVE  Refills(V, W, n, t)
<1>1. n \in Inodes /\ Others(V, W, n) /\ V.node[n].mode = "file" /\ W.node[n].mode = "file" /\ Contents(W, n) = u
  BY DEF Filled
<1>2. DirsOf(W) = DirsOf(V) /\ TextOf(W) = TextWith(TextOf(V), n, u)
  BY <1>1, TextFilled
<1>3. n \in DOMAIN TextOf(V) /\ TextOf(V)[n] = Contents(V, n)
  BY <1>1, OthersTree
<1>4. NamedIn(W) = NamedIn(V)
  <2>1. Entries(W) = Entries(V)
    BY DEF Filled
  <2> QED BY <2>1, Zenon DEF NamedIn
<1> QED BY <1>2, <1>3, <1>4, Zenon DEF Refills

LEMMA NewStep ==
  ASSUME NEW V, Sound(V), NEW W, NEW d \in Inodes, V.node[d].mode = "dir", NEW a \in Names, NEW n, NEW t,
         New(V, W, d, a, n, t), GivenText(V, t)
  PROVE  Brings(V, W, d, a, n, t)
<1>1. n \in Inodes /\ Others(V, W, n) /\ V.node[n].mode = "none" /\ W.node[n].mode = "file" /\ Contents(W, n) = t
  BY DEF New
<1>2. DirsOf(W) = DirsOf(V) /\ TextOf(W) = TextWith(TextOf(V), n, t)
  BY <1>1, TextFilled
<1>3. Entries(W) = Entries(V) \cup {<<d, a, n>>} /\ \A m : <<d, a, m>> \notin Entries(V)
  BY DEF New
<1>4. NamedIn(W) = NamedIn(V) \cup {<<d, a, n>>}
  <2> DEFINE x == <<d, a, n>>
  <2>1. x[2] \notin Dots
    BY NoDots, TripleIs
  <2>2. Entries(W) = Entries(V) \cup {x}
    BY <1>3
  <2> HIDE DEF x
  <2>3. NamedIn(W) = NamedIn(V) \cup {x}
    BY <2>1, <2>2 DEF NamedIn
  <2> QED BY <2>3 DEF x
<1>5. FreeName(V, d, a)
  BY <1>3, NotNamed DEF FreeName
<1>6. d \in DirsOf(V) /\ FreeNode(V, n)
  BY <1>1, FreeNodeIs DEF DirsOf
<1> QED BY <1>2, <1>4, <1>5, <1>6, Zenon DEF Brings

LEMMA MadeNew ==
  ASSUME NEW V, NEW W, NEW d, NEW a, NEW n, Made(V, W, d, a, n)
  PROVE  New(V, W, d, a, n, <<>>)
<1>1. W.node[n].size = 0
  BY DEF Made
<1>2. PICK S : Contents(W, n) \in Seq(S) /\ Len(Contents(W, n)) = W.node[n].size
  BY <1>1, ContentsSeq
<1>3. Contents(W, n) = <<>>
  BY <1>1, <1>2, EmptySeq
<1> QED BY <1>3, Zenon DEF Made, New

LEMMA DirMade ==
  ASSUME NEW V, Sound(V), NEW W, NEW d \in Inodes, V.node[d].mode = "dir", NEW a \in Names, NEW n,
         MadeDir(V, W, d, a, n)
  PROVE  AddsDir(V, W, d, a, n)
<1>1. n \in Inodes /\ Others(V, W, n) /\ V.node[n].mode = "none" /\ W.node[n].mode = "dir"
  BY DEF MadeDir
<1>2. Entries(W) = Entries(V) \cup {<<d, a, n>>, <<n, ".", n>>, <<n, "..", d>>} /\ \A m : <<d, a, m>> \notin Entries(V)
  BY DEF MadeDir
<1>3. NamedIn(W) = NamedIn(V) \cup {<<d, a, n>>}
  <2>1. <<d, a, n>>[2] = a /\ <<n, ".", n>>[2] = "." /\ <<n, "..", d>>[2] = ".."
    BY TripleIs
  <2>2. a \notin Dots /\ "." \in Dots /\ ".." \in Dots
    BY NoDots DEF Dots
  <2> DEFINE x == <<d, a, n>>
             y == <<n, ".", n>>
             z == <<n, "..", d>>
  <2>3. x[2] \notin Dots /\ y[2] \in Dots /\ z[2] \in Dots /\ Entries(W) = Entries(V) \cup {x, y, z}
    BY <1>2, <2>1, <2>2, Zenon
  <2> HIDE DEF x, y, z
  <2>4. NamedIn(W) = NamedIn(V) \cup {x}
    BY <2>3 DEF NamedIn
  <2> QED BY <2>4 DEF x
<1>4. FreeName(V, d, a)
  BY <1>2, NotNamed DEF FreeName
<1>5. d \in DirsOf(V) /\ FreeNode(V, n)
  BY <1>1, FreeNodeIs DEF DirsOf
<1>6. DirsOf(W) = DirsOf(V) \cup {n}
  <2>1. n \in DirsOf(W) /\ \A m : m # n => (m \in DirsOf(W) <=> m \in DirsOf(V))
    BY <1>1, OthersTree
  <2> QED BY <2>1
<1>7. TextOf(W) = TextOf(V)
  <2>1. FilesOf(W) = FilesOf(V) /\ \A m \in FilesOf(V) : Contents(W, m) = Contents(V, m)
    <3>1. /\ n \notin FilesOf(V) /\ n \notin FilesOf(W) /\ \A m : m # n => (m \in FilesOf(W) <=> m \in FilesOf(V))
          /\ \A m \in FilesOf(V) : m # n => Contents(W, m) = TextOf(V)[m]
          /\ \A m \in FilesOf(V) : TextOf(V)[m] = Contents(V, m)
      BY <1>1, OthersTree
    <3> QED BY <3>1
  <2> QED BY <2>1 DEF TextOf
<1> QED BY <1>3, <1>4, <1>5, <1>6, <1>7, Zenon DEF AddsDir

LEMMA MovedStep ==
  ASSUME NEW V, Sound(V), NEW W, NEW d, NEW a \in Names, NEW b \in Names, MovedAs(V, W, d, a, b)
  PROVE  \E e : Relabels(V, W, e, b)
<1>1. Untouched(V, W)
  BY DEF MovedAs
<1>2. PICK n : /\ <<d, a, n>> \in Entries(V) /\ \A m : <<d, b, m>> \notin Entries(V)
               /\ Entries(W) = (Entries(V) \ {<<d, a, n>>}) \cup {<<d, b, n>>}
  BY DEF MovedAs
<1> DEFINE e == <<d, a, n>>
           g == <<d, b, n>>
<1>3. e[1] = d /\ e[2] = a /\ e[3] = n /\ g[2] = b
  BY TripleIs
<1>4. a \notin Dots /\ b \notin Dots
  BY NoDots
<1>5. e \in Entries(V) /\ Entries(W) = (Entries(V) \ {e}) \cup {g}
  BY <1>2
<1>6. g = <<e[1], b, e[3]>>
  BY <1>3
<1> HIDE DEF e, g
<1>7. e \in NamedIn(V) /\ NamedIn(W) = (NamedIn(V) \ {e}) \cup {g}
  BY <1>3, <1>4, <1>5 DEF NamedIn
<1>8. FreeName(V, e[1], b)
  BY <1>2, <1>3, NotNamed DEF FreeName
<1>9. SameTree(V, W)
  BY <1>1, UntouchedTree
<1> QED BY <1>6, <1>7, <1>8, <1>9, Zenon DEF Relabels

LEMMA LastName ==
  ASSUME NEW V, Sound(V), NEW e \in Entries(V), e[2] \notin Dots, V.node[e[3]].mode = "file"
  PROVE  V.node[e[3]].links = 1 <=> ~(\E g \in NamedIn(V) \ {e} : g[3] = e[3])
<1> DEFINE f == e[3]
           S == NamesTo(Entries(V), f)
<1>1. EntriesOK(Modes(V), Entries(V)) /\ LinksOK(Modes(V), LinksOf(V), Entries(V))
  BY DEF Sound, TreeOK
<1>2. f \in Inodes /\ IsFiniteSet(S)
  BY <1>1, EntryType
<1>3. V.node[f].links = Cardinality(S)
  <2>1. Modes(V)[f] = "file" /\ LinksOf(V)[f] = V.node[f].links
    BY <1>2, TablesAre
  <2> QED BY <1>1, <1>2, <2>1 DEF LinksOK
<1>4. e \in S /\ \A g : g \in S <=> g \in NamedIn(V) /\ g[3] = f
  BY DEF NamesTo, NamedIn
<1> HIDE DEF S, f
<1>5. Cardinality(S) = 1 <=> \E x : S = {x}
  BY <1>2, FS_Singleton
<1>6. (\E x : S = {x}) <=> ~(\E g \in NamedIn(V) \ {e} : g[3] = f)
  BY <1>4
<1>7. V.node[f].links = 1 <=> ~(\E g \in NamedIn(V) \ {e} : g[3] = f)
  BY <1>3, <1>5, <1>6
<1> QED BY <1>7 DEF f

LEMMA NamedDrop ==
  ASSUME NEW V, NEW W, NEW e \in Entries(V), e[2] \notin Dots, Entries(W) = Entries(V) \ {e}
  PROVE  e \in NamedIn(V) /\ NamedIn(W) = NamedIn(V) \ {e}
BY DEF NamedIn

LEMMA FileDropped ==
  ASSUME NEW V, Sound(V), NEW W, NEW d, NEW a \in Names, RemovedFile(V, W, d, a)
  PROVE  \E e : DropsFile(V, W, e)
<1>1. PICK f \in Inodes :
        /\ V.node[f].mode = "file" /\ Others(V, W, f)
        /\ <<d, a, f>> \in Entries(V) /\ Entries(W) = Entries(V) \ {<<d, a, f>>}
        /\ (V.node[f].links = 1 => W.node[f].mode = "none") /\ (V.node[f].links # 1 => Untouched(V, W))
  BY DEF RemovedFile
<1> DEFINE e == <<d, a, f>>
<1>2. e[2] = a /\ e[3] = f /\ e[2] \notin Dots
  BY TripleIs, NoDots
<1>3. e \in Entries(V) /\ Entries(W) = Entries(V) \ {e}
  BY <1>1
<1> HIDE DEF e
<1>4. e \in NamedIn(V) /\ NamedIn(W) = NamedIn(V) \ {e}
  BY <1>2, <1>3, NamedDrop
<1>5. V.node[f].links = 1 <=> ~(\E g \in NamedIn(V) \ {e} : g[3] = f)
  BY <1>1, <1>2, <1>3, LastName
<1>6. /\ DOMAIN TextOf(V) = FilesOf(V) /\ f \in FilesOf(V) /\ f \notin DirsOf(V)
      /\ \A m : m # f => (m \in DirsOf(W) <=> m \in DirsOf(V)) /\ (m \in FilesOf(W) <=> m \in FilesOf(V))
      /\ \A m \in FilesOf(V) : m # f => Contents(W, m) = TextOf(V)[m]
  BY <1>1, OthersTree
<1>7. CASE V.node[f].links = 1
  <2>1. f \notin DirsOf(W) /\ f \notin FilesOf(W)
    BY <1>1, <1>7, OthersTree
  <2>2. DirsOf(W) = DirsOf(V)
    BY <1>6, <2>1
  <2>3. TextOf(W) = TextWithout(TextOf(V), f)
    <3> DEFINE T == TextOf(V)
    <3> HIDE DEF T
    <3>1. FilesOf(W) = DOMAIN T \ {f} /\ \A m \in FilesOf(W) : Contents(W, m) = T[m]
      BY <1>6, <2>1 DEF T
    <3>2. TextOf(W) = TextWithout(T, f)
      BY <3>1 DEF TextOf, TextWithout
    <3> QED BY <3>2 DEF T
  <2> QED BY <1>2, <1>4, <1>5, <1>6, <1>7, <2>2, <2>3, Zenon DEF DropsFile
<1>8. CASE V.node[f].links # 1
  <2>1. DirsOf(W) = DirsOf(V) /\ TextOf(W) = TextOf(V)
    BY <1>1, <1>8, UntouchedTree DEF SameTree
  <2> QED BY <1>2, <1>4, <1>5, <1>6, <1>8, <2>1, Zenon DEF DropsFile
<1> QED BY <1>7, <1>8

LEMMA DirDropped ==
  ASSUME NEW V, Sound(V), NEW W, NEW d, NEW a \in Names, RemovedDir(V, W, d, a)
  PROVE  \E e : DropsDir(V, W, e)
<1>1. PICK n \in Inodes :
        /\ V.node[n].mode = "dir" /\ W.node[n].mode = "none" /\ Others(V, W, n)
        /\ <<d, a, n>> \in Entries(V) /\ (\A c, m : <<n, c, m>> \in Entries(V) => c \in Dots)
        /\ Entries(W) = {e \in Entries(V) : e # <<d, a, n>> /\ e[1] # n}
  BY Zenon DEF RemovedDir
<1> DEFINE e == <<d, a, n>>
<1>2. e[2] = a /\ e[3] = n /\ e[2] \notin Dots
  BY TripleIs, NoDots
<1>3. e \in Entries(V) /\ Entries(W) = {x \in Entries(V) : x # e /\ x[1] # n}
  BY <1>1
<1> HIDE DEF e
<1>4. \A x \in NamedIn(V) : x[1] # n
  <2> SUFFICES ASSUME NEW x \in NamedIn(V), x[1] = n PROVE FALSE
    OBVIOUS
  <2>1. x \in Entries(V) /\ x \in Triples /\ x[2] \notin Dots
    BY EntriesAre DEF NamedIn
  <2>2. x = <<x[1], x[2], x[3]>>
    BY <2>1, TripleIs
  <2>3. x = <<n, x[2], x[3]>>
    BY <2>2, Zenon
  <2> QED BY <1>1, <2>1, <2>3, Zenon
<1>5. e \in NamedIn(V) /\ NamedIn(W) = NamedIn(V) \ {e}
  BY <1>2, <1>3, <1>4 DEF NamedIn
<1>6. /\ n \in DirsOf(V) /\ n \notin DirsOf(W) /\ n \notin FilesOf(V) /\ n \notin FilesOf(W)
      /\ \A m : m # n => (m \in DirsOf(W) <=> m \in DirsOf(V)) /\ (m \in FilesOf(W) <=> m \in FilesOf(V))
      /\ \A m \in FilesOf(V) : m # n => Contents(W, m) = TextOf(V)[m]
      /\ \A m \in FilesOf(V) : TextOf(V)[m] = Contents(V, m)
  BY <1>1, OthersTree
<1>7. DirsOf(W) = DirsOf(V) \ {n}
  BY <1>6
<1>8. TextOf(W) = TextOf(V)
  <2>1. FilesOf(W) = FilesOf(V) /\ \A m \in FilesOf(V) : Contents(W, m) = Contents(V, m)
    BY <1>6
  <2> QED BY <2>1 DEF TextOf
<1> QED BY <1>2, <1>4, <1>5, <1>6, <1>7, <1>8, Zenon DEF DropsDir

(* Every call is a step of the tree of files. *)
LEMMA CallTree == ASSUME NEW V, Sound(V), NEW W, Call(V, W) PROVE TreeStep(V, W)
<1>1. PICK d \in Inodes, a \in Names :
        /\ V.node[d].mode = "dir"
        /\ \/ \E type \in {"file", "dir"} : CreatedAs(V, W, d, a, type)
           \/ \E t \in Texts : Added(V, W, d, a, t)
           \/ CopiedAs(V, W, d, a)
           \/ \E b \in Names : MovedAs(V, W, d, a, b)
           \/ RemovedFile(V, W, d, a)
           \/ RemovedDir(V, W, d, a)
  BY Zenon DEF Call
<1>2. ASSUME NEW type \in {"file", "dir"}, CreatedAs(V, W, d, a, type) PROVE TreeStep(V, W)
  <2>1. PICK n : IF type = "dir" THEN MadeDir(V, W, d, a, n) ELSE Made(V, W, d, a, n)
    BY <1>2 DEF CreatedAs
  <2>2. CASE type = "dir"
    <3>1. AddsDir(V, W, d, a, n)
      BY <1>1, <2>1, <2>2, DirMade
    <3> QED BY <1>1, <3>1, Zenon DEF TreeStep
  <2>3. CASE type # "dir"
    <3>1. New(V, W, d, a, n, <<>>)
      BY <2>1, <2>3, MadeNew
    <3>2. Brings(V, W, d, a, n, <<>>)
      BY <1>1, <3>1, NewStep DEF GivenText
    <3> QED BY <1>1, <3>2, Zenon DEF TreeStep
  <2> QED BY <2>2, <2>3
<1>3. ASSUME NEW t \in Texts, Added(V, W, d, a, t) PROVE TreeStep(V, W)
  <2>1. ASSUME NEW n, Filled(V, W, n, t) PROVE TreeStep(V, W)
    <3>1. Refills(V, W, n, t)
      BY <2>1, FilledStep
    <3> QED BY <1>3, <3>1, Zenon DEF TreeStep
  <2>2. ASSUME NEW n, Filled(V, W, n, Contents(V, n) \o t) PROVE TreeStep(V, W)
    <3>1. Refills(V, W, n, t)
      BY <2>2, FilledStep
    <3> QED BY <1>3, <3>1, Zenon DEF TreeStep
  <2>3. ASSUME NEW n, New(V, W, d, a, n, t) PROVE TreeStep(V, W)
    <3>1. Brings(V, W, d, a, n, t)
      BY <1>1, <1>3, <2>3, NewStep DEF GivenText
    <3> QED BY <1>1, <3>1, Zenon DEF TreeStep
  <2> QED BY <1>3, <2>1, <2>2, <2>3, Zenon DEF Added, Rewrote
<1>4. ASSUME CopiedAs(V, W, d, a) PROVE TreeStep(V, W)
  <2>1. PICK n, m : m \in Inodes /\ V.node[m].mode = "file" /\ New(V, W, d, a, n, Contents(V, m))
    BY <1>4 DEF CopiedAs
  <2>2. m \in DOMAIN TextOf(V) /\ TextOf(V)[m] = Contents(V, m)
    BY <2>1 DEF TextOf, FilesOf
  <2>3. Brings(V, W, d, a, n, Contents(V, m))
    BY <1>1, <2>1, <2>2, NewStep DEF GivenText
  <2> QED BY <1>1, <2>3, Zenon DEF TreeStep
<1>5. ASSUME NEW b \in Names, MovedAs(V, W, d, a, b) PROVE TreeStep(V, W)
  BY <1>5, MovedStep, Zenon DEF TreeStep
<1>6. ASSUME RemovedFile(V, W, d, a) PROVE TreeStep(V, W)
  BY <1>6, FileDropped, Zenon DEF TreeStep
<1>7. ASSUME RemovedDir(V, W, d, a) PROVE TreeStep(V, W)
  BY <1>7, DirDropped, Zenon DEF TreeStep
<1> QED BY <1>1, <1>2, <1>3, <1>4, <1>5, <1>6, <1>7, Zenon

-----------------------------------------------------------------------------
(* Refinement *)

LEMMA SameDiskTree ==
  ASSUME NEW V, Sound(V), NEW W, SameDisk(V, W)
  PROVE  DirsOf(W) = DirsOf(V) /\ NamedIn(W) = NamedIn(V) /\ TextOf(W) = TextOf(V)
<1>1. Entries(W) = Entries(V) /\ Untouched(V, W)
  BY SoundSame
<1>2. NamedIn(W) = NamedIn(V)
  BY <1>1, Zenon DEF NamedIn
<1> QED BY <1>1, <1>2, UntouchedTree DEF SameTree

LEMMA ViewStep ==
  ASSUME Sound(vol), Seen, Seen', NEW W, TreeStep(vol, W),
         DirsOf(vol') = DirsOf(W), NamedIn(vol') = NamedIn(W), TextOf(vol') = TextOf(W)
  PROVE  Abstract!Fill \/ Abstract!Mkdir \/ Abstract!Rename \/ Abstract!Remove
<1> DEFINE D == DirsOf(vol)
           E == NamedIn(vol)
           T == TextOf(vol)
<1>1. LiveDirs = D /\ LiveEntries = E /\ LiveText = T
  BY DEF Seen
<1>2. LiveDirs' = DirsOf(W) /\ LiveEntries' = NamedIn(W) /\ LiveText' = TextOf(W)
  BY DEF Seen
<1>3. ASSUME NEW n, NEW t \in Texts, Refills(vol, W, n, t) PROVE Abstract!Fill
  <2>1. /\ LiveDirs' = LiveDirs /\ LiveEntries' = LiveEntries /\ n \in DOMAIN LiveText
        /\ LiveText' = TextWith(LiveText, n, t) \/ LiveText' = TextWith(LiveText, n, LiveText[n] \o t)
    BY <1>1, <1>2, <1>3, Zenon DEF Refills
  <2>2. \A u : Abstract!With(n, u) = TextWith(LiveText, n, u)
    BY Zenon DEF Abstract!With, TextWith
  <2>3. LiveText' = Abstract!With(n, t) \/ LiveText' = Abstract!With(n, LiveText[n] \o t)
    BY <2>1, <2>2
  <2> QED BY <2>1, <2>3, Zenon DEF Abstract!Fill
<1>4. ASSUME NEW d, NEW a \in Names, NEW n, NEW t, Brings(vol, W, d, a, n, t) PROVE Abstract!Fill
  <2>1. /\ LiveDirs' = LiveDirs /\ d \in LiveDirs /\ n \in Inodes /\ n \notin LiveDirs /\ n \notin DOMAIN LiveText
        /\ LiveEntries' = LiveEntries \cup {<<d, a, n>>} /\ LiveText' = TextWith(LiveText, n, t)
    BY <1>1, <1>2, <1>4, Zenon DEF Brings, FreeNode
  <2>2. Abstract!With(n, t) = TextWith(LiveText, n, t)
    BY Zenon DEF Abstract!With, TextWith
  <2>3. ~Abstract!Named(d, a)
    <3>1. FreeName(vol, d, a)
      BY <1>4 DEF Brings
    <3> QED BY <1>1, <3>1, Zenon DEF FreeName, Abstract!Named
  <2>4. t \in Abstract!Given
    <3>1. GivenText(vol, t)
      BY <1>4 DEF Brings
    <3>2. t \in Texts \/ t = <<>> \/ \E f \in DOMAIN LiveText : t = LiveText[f]
      BY <1>1, <3>1, Zenon DEF GivenText
    <3> QED BY <3>2 DEF Abstract!Given
  <2>5. n \in Inodes \ Abstract!Live
    BY <2>1 DEF Abstract!Live
  <2>6. LiveText' = Abstract!With(n, t)
    BY <2>1, <2>2
  <2> QED BY <2>1, <2>3, <2>4, <2>5, <2>6, Zenon DEF Abstract!Fill
<1>5. ASSUME NEW d, NEW a \in Names, NEW n, AddsDir(vol, W, d, a, n) PROVE Abstract!Mkdir
  <2>1. /\ LiveText' = LiveText /\ d \in LiveDirs /\ n \in Inodes /\ n \notin LiveDirs /\ n \notin DOMAIN LiveText
        /\ LiveEntries' = LiveEntries \cup {<<d, a, n>>} /\ LiveDirs' = LiveDirs \cup {n}
    BY <1>1, <1>2, <1>5, Zenon DEF AddsDir, FreeNode
  <2>2. ~Abstract!Named(d, a)
    <3>1. FreeName(vol, d, a)
      BY <1>5 DEF AddsDir
    <3> QED BY <1>1, <3>1, Zenon DEF FreeName, Abstract!Named
  <2>3. n \in Inodes \ Abstract!Live
    BY <2>1 DEF Abstract!Live
  <2> QED BY <2>1, <2>2, <2>3, Zenon DEF Abstract!Mkdir
<1>6. ASSUME NEW e, NEW b \in Names, Relabels(vol, W, e, b) PROVE Abstract!Rename
  <2>1. /\ LiveDirs' = LiveDirs /\ LiveText' = LiveText /\ e \in LiveEntries
        /\ LiveEntries' = (LiveEntries \ {e}) \cup {<<e[1], b, e[3]>>}
    BY <1>1, <1>2, <1>6, Zenon DEF Relabels, SameTree
  <2>2. ~Abstract!Named(e[1], b)
    <3>1. FreeName(vol, e[1], b)
      BY <1>6 DEF Relabels
    <3> QED BY <1>1, <3>1, Zenon DEF FreeName, Abstract!Named
  <2> QED BY <2>1, <2>2, Zenon DEF Abstract!Rename
<1>7. ASSUME NEW e, DropsDir(vol, W, e) PROVE Abstract!Remove
  <2>1. /\ LiveText' = LiveText /\ e \in LiveEntries /\ LiveEntries' = LiveEntries \ {e}
        /\ e[3] \in LiveDirs /\ LiveDirs' = LiveDirs \ {e[3]}
    BY <1>1, <1>2, <1>7, Zenon DEF DropsDir
  <2>2. \A f \in LiveEntries : f[1] # e[3]
    BY <1>1, <1>7, Zenon DEF DropsDir
  <2> QED BY <2>1, <2>2, Zenon DEF Abstract!Remove
<1>8. ASSUME NEW e, DropsFile(vol, W, e) PROVE Abstract!Remove
  <2>1. /\ LiveDirs' = LiveDirs /\ e \in LiveEntries /\ LiveEntries' = LiveEntries \ {e} /\ e[3] \in DOMAIN LiveText
    BY <1>1, <1>2, <1>8, Zenon DEF DropsFile
  <2>2. /\ (\E f \in LiveEntries \ {e} : f[3] = e[3]) => LiveText' = LiveText
        /\ ~(\E f \in LiveEntries \ {e} : f[3] = e[3]) => LiveText' = TextWithout(LiveText, e[3])
    BY <1>1, <1>2, <1>8, Zenon DEF DropsFile
  <2>3. Abstract!Without(e[3]) = TextWithout(LiveText, e[3])
    BY Zenon DEF Abstract!Without, TextWithout
  <2>4. LiveText' = IF \E f \in LiveEntries \ {e} : f[3] = e[3] THEN LiveText ELSE Abstract!Without(e[3])
    BY <2>2, <2>3, Zenon
  <2> QED BY <2>1, <2>4, Zenon DEF Abstract!Remove
<1> QED BY <1>3, <1>4, <1>5, <1>6, <1>7, <1>8, Zenon DEF TreeStep

LEMMA RefinedStep == ASSUME TreeInv, TreeInv', [TreeNext]_treeVars PROVE [Abstract!Next]_(Abstract!vars)
<1>1. Sound(vol) /\ vol.ok = TRUE /\ Seen /\ Seen'
  BY SeenIs, SeenNext DEF TreeInv
<1>2. ASSUME NEW V, Sound(V), DirsOf(vol) = DirsOf(V), NamedIn(vol) = NamedIn(V), TextOf(vol) = TextOf(V),
             DirsOf(vol') = DirsOf(V), NamedIn(vol') = NamedIn(V), TextOf(vol') = TextOf(V)
      PROVE  (Abstract!vars)' = Abstract!vars
  BY <1>1, <1>2, Zenon DEF Seen, Abstract!vars
<1>3. CASE UNCHANGED treeVars
  <2>1. vol' = vol
    BY <1>3 DEF treeVars
  <2>2. DirsOf(vol') = DirsOf(vol) /\ NamedIn(vol') = NamedIn(vol) /\ TextOf(vol') = TextOf(vol)
    BY <2>1, Zenon
  <2> QED BY <1>1, <1>2, <2>2
<1>4. CASE TreeNext
  <2>1. Stepped(vol, vol')
    BY <1>1, <1>4, StepFacts
  <2>2. CASE SameDisk(vol, vol')
    <3>1. DirsOf(vol') = DirsOf(vol) /\ NamedIn(vol') = NamedIn(vol) /\ TextOf(vol') = TextOf(vol)
      BY <1>1, <2>2, SameDiskTree
    <3> QED BY <1>1, <1>2, <3>1
  <2>3. ASSUME NEW W, Call(vol, W), SameDisk(W, vol') PROVE [Abstract!Next]_(Abstract!vars)
    <3>1. TreeStep(vol, W) /\ Sound(W)
      BY <1>1, <2>3, CallTree, CallSound
    <3>2. DirsOf(vol') = DirsOf(W) /\ NamedIn(vol') = NamedIn(W) /\ TextOf(vol') = TextOf(W)
      BY <2>3, <3>1, SameDiskTree
    <3>3. Abstract!Fill \/ Abstract!Mkdir \/ Abstract!Rename \/ Abstract!Remove
      BY <1>1, <3>1, <3>2, ViewStep
    <3> QED BY <3>3, Zenon DEF Abstract!Next
  <2> QED BY <2>1, <2>2, <2>3 DEF Stepped
<1> QED BY <1>3, <1>4

LEMMA RefinedInit == ASSUME TreeInv PROVE Abstract!Init
<1>1. Sound(vol) /\ Seen /\ EntriesOK(Modes(vol), Entries(vol))
  BY SeenIs DEF TreeInv, Sound, TreeOK
<1>2. LiveDirs = DirsOf(vol) /\ LiveEntries = NamedIn(vol) /\ DOMAIN LiveText = FilesOf(vol)
  <2>1. DOMAIN TextOf(vol) = FilesOf(vol)
    BY DEF TextOf
  <2> QED BY <1>1, <2>1 DEF Seen
<1>3. ROOT_INO \in LiveDirs /\ LiveDirs \cap DOMAIN LiveText = {}
  <2>1. ROOT_INO \in Inodes /\ Modes(vol)[ROOT_INO] = "dir"
    BY <1>1, RootIs DEF EntriesOK
  <2>2. vol.node[ROOT_INO].mode = "dir"
    BY <2>1, TablesAre
  <2> QED BY <1>2, <2>1, <2>2 DEF DirsOf, FilesOf
<1>4. ASSUME NEW e \in LiveEntries PROVE e \in LiveDirs \X Names \X (Abstract!Live \ {ROOT_INO})
  <2>1. e \in Entries(vol) /\ e[2] \notin Dots
    BY <1>2 DEF NamedIn
  <2>2. /\ e = <<e[1], e[2], e[3]>> /\ e[1] \in Inodes /\ e[3] \in Inodes /\ e[2] \in AllNames
        /\ vol.node[e[1]].mode = "dir" /\ vol.node[e[3]].mode # "none"
    BY <1>1, <2>1, EntryDir
  <2>3. <<e[1], e[2], e[3]>> \in Entries(vol)
    BY <2>1, <2>2, Zenon
  <2>4. e[3] >= FIRST_INODE
    <3>1. \A d, a, m : <<d, a, m>> \in Entries(vol) => (a \notin Dots => m >= FIRST_INODE)
      BY <1>1, Zenon DEF EntriesOK
    <3> QED BY <2>1, <2>3, <3>1
  <2>5. e[3] # ROOT_INO
    BY <2>2, <2>4, TreeAssumption DEF ROOT_INO, Inodes
  <2>6. e[3] \in LiveDirs \/ e[3] \in DOMAIN LiveText
    <3>1. vol.node[e[3]].mode \in {"none", "file", "dir"}
      <4>1. vol.node[e[3]] \in NodeSet
        BY <1>1, <2>2 DEF Sound, Base, Core, VolumeOK
      <4> QED BY <4>1 DEF NodeSet
    <3> QED BY <1>2, <2>2, <3>1 DEF DirsOf, FilesOf
  <2>7. e[3] \in Abstract!Live \ {ROOT_INO}
    BY <2>5, <2>6 DEF Abstract!Live
  <2>8. e[1] \in LiveDirs /\ e[2] \in Names
    BY <1>2, <2>1, <2>2 DEF DirsOf, AllNames
  <2> DEFINE x == e[1]
             y == e[2]
             z == e[3]
  <2> HIDE DEF x, y, z
  <2>9. e = <<x, y, z>> /\ x \in LiveDirs /\ y \in Names /\ z \in Abstract!Live \ {ROOT_INO}
    BY <2>2, <2>7, <2>8, Zenon DEF x, y, z
  <2> QED BY <2>9
<1> QED BY <1>3, <1>4, Zenon DEF Abstract!Init

(* The engine implements the tree of files, for every size of volume, every *)
(* set of names and texts: a call that succeeds changes the entry it names  *)
(* and the contents it is given, a call that fails changes nothing, and a   *)
(* file reads back what was last written to it.                             *)
THEOREM FileTreeAlwaysRefined == TreeSpec => FileTreeRefined
<1>1. TreeInit => Abstract!Init
  BY InitSound, RefinedInit DEF TreeInv
<1>2. TreeInv /\ TreeInv' /\ [TreeNext]_treeVars => [Abstract!Next]_(Abstract!vars)
  BY RefinedStep
<1> QED BY <1>1, <1>2, EngineSound, PTL DEF TreeSpec, FileTreeRefined, Abstract!Spec

LEMMA OverwriteFact == ASSUME TreeInv PROVE OverwriteFits
<1> SUFFICES ASSUME NEW d \in WorkDirs, NEW a \in Names, NEW t \in Texts,
                    Lookup(vol, d, a) > 0, vol.node[Lookup(vol, d, a)].mode = "file",
                    NEW keep, keep = (Len(t) + WORDS - 1) \div WORDS,
                    keep + (IF keep > DIRECT THEN 1 ELSE 0) <= vol.node[Lookup(vol, d, a)].blocks
             PROVE  WriteFile(vol, d, a, t).ok
  BY DEF OverwriteFits
<1> DEFINE n == Lookup(vol, d, a)
<1>1. Sound(vol) /\ vol.ok = TRUE /\ Base(vol) /\ Core(vol)
  BY DEF TreeInv, Sound, Base
<1>2. d \in Inodes /\ vol.node[d].mode = "dir"
  BY <1>1, WorkDirIs
<1>3. n \in Inodes
  <2>1. n = -1 \/ n \in Inodes
    BY <1>1, <1>2, LookupEntry
  <2> QED BY <2>1
<1>4. NodeShape(vol, n)
  BY <1>1, <1>3 DEF Base
<1>5. Supported(vol, n, "file")
  BY <1>1, <1>3, <1>4, SupportedIs
<1>6. n # -1
  BY <1>3 DEF Inodes
<1>7. t \in Seq(Range(t)) /\ Len(t) <= MAX_FILE
  BY TreeAssumption
<1>8. WriteFile(vol, d, a, t) = Rewrite(vol, n, t)
  <2>1. Len(t) \in Nat
    BY <1>7
  <2>2. ~(Len(t) > MAX_FILE)
    BY <1>7, <2>1, MaxFile
  <2> QED BY <1>6, <2>2, Zenon DEF WriteFile, WriteNamed
<1> HIDE DEF n
<1>9. Rewrite(vol, n, t).ok = TRUE
  <2>1. PICK R : R = Range(t)
    OBVIOUS
  <2>2. t \in Seq(R)
    BY <1>7, <2>1
  <2>3. keep + (IF keep > DIRECT THEN 1 ELSE 0) <= vol.node[n].blocks
    BY DEF n
  <2> QED BY <1>1, <1>3, <1>5, <1>7, <2>2, <2>3, RewriteRoom
<1> QED BY <1>8, <1>9

(* A file can always be replaced by contents that need no more blocks than  *)
(* it holds, for every size of the volume and however full it is            *)
(* (write_file, truncate_blocks, allocate).                                 *)
THEOREM OverwriteAlwaysFits == TreeSpec => []OverwriteFits
<1>1. TreeInv => OverwriteFits
  BY OverwriteFact
<1> QED BY <1>1, EngineSound, PTL

=============================================================================
