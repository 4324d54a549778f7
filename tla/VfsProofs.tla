------------------------------ MODULE VfsProofs ------------------------------
(***************************************************************************)
(* One engine serves every mounted volume.  For any number of mount slots, *)
(* devices and paths: the image in memory is the one of the volume that    *)
(* counts as active, no volume is written with the image of another, the   *)
(* working directory is not taken away, and the volumes make up one tree   *)
(* of directories (Namespace), however they are mounted above and below    *)
(* one another.                                                            *)
(*                                                                         *)
(* The theorems are about names without a partition suffix: with one, a    *)
(* failed mount leaves the engine with the selection of another device.    *)
(***************************************************************************)
EXTENDS Vfs, SequenceTheorems, LeastNumber, TLAPS

(* Names without a partition suffix: volumes that cannot overlap. *)
WholeDevices == \A name \in Names : name[2] = 0

(* The names in paths, with those that the code uses itself *)
Word == STRING \cup {"etc", "access.cfg", "file"}

Disks == [id : Devices \cup {"none"}, offset : Nat, generation : Nat]
Engines == [selected : Disks, mounted : BOOLEAN, loaded : Disks,
            active : Table \cup {NoVolume}, cwd : Seq(Word)]

(* The mount table: paths and volumes that exist, no volume twice. *)
TableOK ==
  /\ mounts \in [Table -> [used : BOOLEAN, disk : Disks, path : Seq(Word)]]
  /\ \A i \in Used : Vol(mounts[i].disk) \in Volumes
  /\ \A i, j \in Used : i # j => Vol(mounts[i].disk) # Vol(mounts[j].disk)

(* ext_init would accept the volume of a slot. *)
Fit(i) == Present(mounts[i].disk) /\ Vol(mounts[i].disk) \in ext2 \ unclean

(* What it means that an engine counts as loaded: selection and image      *)
(* belong to the active slot, and the volume is clean.                      *)
Loaded(e) ==
  /\ e.active \in Used
  /\ e.selected = mounts[e.active].disk
  /\ e.loaded = mounts[e.active].disk
  /\ Vol(e.selected) \in ext2 \ unclean
Sound(e) == e \in Engines /\ ((e.mounted /\ e.active # NoVolume) => Loaded(e))

MediaOK ==
  /\ parts \in [Devices -> SUBSET Slots]
  /\ dirs \in [Volumes -> SUBSET Seq(Word)]
  /\ working \in Seq(Word)
  /\ generation \in [Devices -> Nat]

VfsInv == TableOK /\ MediaOK /\ Sound(eng) /\ overwritten = {}

-----------------------------------------------------------------------------
(* The engine *)

(* Of the slots C of a table M, the one with the longest mount point *)
Longest(M, C) == CHOOSE k \in C : \A j \in C : Len(M[j].path) <= Len(M[k].path)

LEMMA LongestCover ==
  ASSUME NEW M, NEW C, C # {}, NEW p \in Seq(Word),
         \A i \in C : M[i].path \in Seq(Word) /\ N!Beneath(p, M[i].path)
  PROVE  /\ Longest(M, C) \in C
         /\ \A j \in C : Len(M[j].path) <= Len(M[Longest(M, C)].path)
<1> DEFINE T == {Len(M[i].path) : i \in C}
<1>2. \A i \in C : Len(M[i].path) \in Nat /\ Len(M[i].path) <= Len(p)
  BY DEF N!Beneath
<1>3. T \in SUBSET Nat /\ T # {} /\ Len(p) \in Nat /\ \A x \in T : x <= Len(p)
  <2>1. \A x \in T : x \in Nat /\ x <= Len(p)
    BY <1>2
  <2>2. T # {}
    OBVIOUS
  <2>3. Len(p) \in Nat
    OBVIOUS
  <2> QED BY <2>1, <2>2, <2>3
<1>4. PICK x \in T : \A y \in T : y <= x
  BY <1>3, GreatestNat
<1>5. PICK i \in C : x = Len(M[i].path)
  BY <1>4
<1>6. \A j \in C : Len(M[j].path) <= Len(M[i].path)
  BY <1>4, <1>5
<1> QED BY <1>5, <1>6, Zenon DEF Longest

(* volume_for() finds the slot of the longest mount point above the path. *)
LEMMA VolumeForCovers ==
  ASSUME TableOK, NEW p \in Seq(Word), VolumeFor(p) # NoVolume
  PROVE  /\ VolumeFor(p) \in Covers(p) /\ VolumeFor(p) \in Used
         /\ \A j \in Covers(p) : Len(mounts[j].path) <= Len(mounts[VolumeFor(p)].path)
<1>1. Covers(p) # {}
  BY DEF VolumeFor
<1>2. VolumeFor(p) = Longest(mounts, Covers(p))
  BY <1>1, Zenon DEF VolumeFor, Longest
<1>3. \A i \in Covers(p) : /\ i \in Used /\ mounts[i].path \in Seq(Word)
                           /\ N!Beneath(p, mounts[i].path)
  BY DEF Covers, TableOK, Used
<1> QED BY <1>1, <1>2, <1>3, LongestCover

(* What the engine is after mounted = 0, and after a command. *)
LEMMA LostSound == ASSUME NEW e \in Engines
                   PROVE  /\ Sound(Lost(e)) /\ ~Lost(e).mounted /\ Lost(e).active = e.active
                          /\ Lost(e).selected = e.selected
<1>1. /\ Lost(e) \in Engines /\ ~Lost(e).mounted /\ Lost(e).active = e.active
      /\ Lost(e).selected = e.selected
  BY DEF Lost, Engines, NoDisk, Disks
<1> QED BY <1>1 DEF Sound

(* The engine's own directory does not matter to what it holds. *)
LEMMA CwdSound == ASSUME NEW e \in Engines, NEW d \in Seq(Word)
                  PROVE  LET r == [e EXCEPT !.cwd = d]
                         IN  /\ r.mounted = e.mounted /\ r.active = e.active /\ r.cwd = d
                             /\ r.selected = e.selected /\ r.loaded = e.loaded
                             /\ r \in Engines /\ (Sound(e) => Sound(r))
<1> DEFINE r == [e EXCEPT !.cwd = d]
<1>2. /\ r.mounted = e.mounted /\ r.active = e.active /\ r.cwd = d
      /\ r.selected = e.selected /\ r.loaded = e.loaded /\ r \in Engines
  BY DEF Engines
<1> HIDE DEF r
<1>3. Sound(e) => Sound(r)
  BY <1>2 DEF Sound, Loaded
<1> QED BY <1>2, <1>3 DEF r

(* ext_init() of another slot: its image is loaded, or none. *)
LEMMA ActivateSound ==
  ASSUME TableOK, NEW e, Sound(e), NEW v, v = NoVolume \/ v \in Used
  PROVE  /\ Sound(Activate(e, v))
         /\ Active(Activate(e, v), v) => Loaded(Activate(e, v)) /\ Fit(v)
         /\ Fit(v) /\ v # NoVolume /\ (e.active = v => e.mounted) => Active(Activate(e, v), v)
<1>0. NoVolume \notin Used /\ Used \subseteq Table /\ e \in Engines
  BY DEF Used, Table, NoVolume, Sound
<1>1. CASE v = NoVolume
  BY <1>1 DEF Activate, Active
<1>2. CASE v # NoVolume /\ e.active = v
  <2>1. Activate(e, v) = IF Present(e.selected) THEN e ELSE Lost(e)
    BY <1>2 DEF Activate, Ready
  <2>2. CASE Present(e.selected)
    BY <1>2, <2>1, <2>2 DEF Sound, Active, Loaded, Fit
  <2>3. CASE ~Present(e.selected)
    <3>1. Activate(e, v) = Lost(e)
      BY <2>1, <2>3
    <3>2. Sound(Activate(e, v)) /\ ~Active(Activate(e, v), v)
      BY <1>0, <3>1, LostSound DEF Active
    <3>3. e.mounted => e.selected = mounts[v].disk
      BY <1>2 DEF Sound, Loaded
    <3> QED BY <1>2, <2>3, <3>2, <3>3 DEF Fit
  <2> QED BY <2>2, <2>3
<1>3. CASE v # NoVolume /\ e.active # v
  <2> DEFINE k == mounts[v].disk
             b == [e EXCEPT !.selected = k, !.active = NoVolume]
             r == ExtInit(b)
  <2>1. k \in Disks /\ v \in Table
    BY <1>0, <1>3 DEF TableOK
  <2>3. Activate(e, v) = IF r.mounted THEN [r EXCEPT !.active = v] ELSE r
    BY <1>3 DEF Activate
  <2>6. Fit(v) <=> Present(k) /\ Vol(k) \in ext2 \ unclean
    BY DEF Fit
  <2>7. \A x : x.active = v /\ x.selected = k /\ x.loaded = k /\ Fit(v) => Loaded(x)
    BY <1>0, <1>3, <2>6 DEF Loaded
  <2> HIDE DEF k
  <2>2. b \in Engines /\ b.selected = k /\ b.active = NoVolume
    BY <2>1, <1>0 DEF Engines
  <2> HIDE DEF b
  <2>4. CASE Fit(v)
    <3>1. r = [b EXCEPT !.mounted = TRUE, !.loaded = b.selected, !.cwd = Root]
      BY <2>2, <2>4, <2>6 DEF ExtInit
    <3>2. r \in Engines /\ r.selected = k /\ r.mounted /\ r.loaded = k
      <4>1. Root \in Seq(Word)
        BY DEF Root
      <4> DEFINE z == Root
      <4> HIDE DEF z
      <4>2. r = [b EXCEPT !.mounted = TRUE, !.loaded = b.selected, !.cwd = z] /\ z \in Seq(Word)
        BY <3>1, <4>1 DEF z
      <4> HIDE DEF r
      <4> QED BY <4>2, <2>2, <2>1 DEF Engines
    <3>3. Activate(e, v) = [r EXCEPT !.active = v]
      BY <2>3, <3>2
    <3> HIDE DEF r
    <3>4. /\ Activate(e, v) \in Engines /\ Activate(e, v).active = v
          /\ Activate(e, v).mounted /\ Activate(e, v).selected = k /\ Activate(e, v).loaded = k
      BY <3>3, <3>2, <2>1 DEF Engines
    <3> QED BY <3>4, <2>4, <2>7, <1>3 DEF Sound, Active
  <2>5. CASE ~Fit(v)
    <3>1. r = Lost(b)
      BY <2>2, <2>5, <2>6 DEF ExtInit
    <3>2. Sound(r) /\ ~r.mounted /\ r.active = NoVolume
      BY <2>2, <3>1, LostSound
    <3>3. Activate(e, v) = r
      BY <2>3, <3>2
    <3> QED BY <3>2, <3>3, <2>5, <1>3 DEF Active
  <2> QED BY <2>4, <2>5
<1> QED BY <1>1, <1>2, <1>3

(* Paths inside a volume are paths. *)
LEMMA SubPath == ASSUME NEW p \in Seq(Word), NEW m \in Nat, NEW n \in Int, n <= Len(p)
                 PROVE  SubSeq(p, m + 1, n) \in Seq(Word)
  OBVIOUS

(* The path inside a volume, and its parent, are paths. *)
LEMMA LocalType ==
  ASSUME TableOK, NEW p \in Seq(Word), NEW v \in Used
  PROVE  Local(p, v) \in Seq(Word) /\ N!Parent(Local(p, v)) \in Seq(Word)
<1> DEFINE m == mounts[v].path
           q == SubSeq(p, Len(m) + 1, Len(p))
<1>1. m \in Seq(Word)
  BY DEF TableOK, Used
<1> HIDE DEF m
<1>2. Len(m) \in Nat /\ Len(p) \in Nat
  BY <1>1
<1>3. q \in Seq(Word)
  BY <1>2, SubPath
<1> HIDE DEF q
<1>4. SubSeq(q, 1, Len(q) - 1) \in Seq(Word)
  BY <1>3
<1> QED BY <1>3, <1>4 DEF Local, N!Parent, m, q

(* route() and route_parent() keep the engine sound; a path is routed to an *)
(* engine that holds its volume.                                            *)
LEMMA RouteSound ==
  ASSUME TableOK, NEW e, Sound(e), NEW p \in Seq(Word)
  PROVE  /\ Sound(Route(e, p)) /\ Sound(RouteParent(e, p))
         /\ Routed(Route(e, p), p) => Loaded(Route(e, p)) /\ Fit(VolumeFor(p))
         /\ RoutedParent(RouteParent(e, p), p)
              => /\ Loaded(RouteParent(e, p)) /\ Fit(VolumeFor(p))
                 /\ RouteParent(e, p).cwd = N!Parent(Local(p, VolumeFor(p)))
         /\ Fit(VolumeFor(p)) /\ VolumeFor(p) # NoVolume /\ (e.active = VolumeFor(p) => e.mounted)
              => /\ Active(Route(e, p), VolumeFor(p))
                 /\ Active(RouteParent(e, p), VolumeFor(p))
<1> DEFINE v == VolumeFor(p)
           a == Activate(e, v)
           r == Route(e, p)
           q == RouteParent(e, p)
           d == N!Parent(Local(p, v))
<1>1. v = NoVolume \/ v \in Used
  BY VolumeForCovers
<1>2. /\ Sound(a) /\ (Active(a, v) => Loaded(a) /\ Fit(v))
      /\ Fit(v) /\ v # NoVolume /\ (e.active = v => e.mounted) => Active(a, v)
  BY <1>1, ActivateSound
<1>3. r = IF Active(a, v) THEN [a EXCEPT !.cwd = Root] ELSE a
  BY DEF Route
<1>4. q = IF RoutedParent(r, p) THEN [r EXCEPT !.cwd = d] ELSE r
  BY DEF RouteParent
<1>5. Routed(r, p) <=> Active(r, v)
  BY DEF Routed
<1>6. \A x : RoutedParent(x, p) <=> /\ Active(x, v) /\ Local(p, v) # Root
                                    /\ d \in dirs[Vol(x.selected)]
  BY DEF RoutedParent, Shown
<1>11. v # NoVolume => d \in Seq(Word)
  BY <1>1, LocalType
<1>12. Root \in Seq(Word)
  BY DEF Root
<1> HIDE DEF v, a, r, q, d
<1>7. /\ r.mounted = a.mounted /\ r.active = a.active
      /\ r.selected = a.selected /\ r.loaded = a.loaded /\ Sound(r)
  BY <1>2, <1>3, <1>12, CwdSound DEF Sound
<1>8. (Active(r, v) <=> Active(a, v)) /\ (Loaded(r) <=> Loaded(a))
  BY <1>7 DEF Active, Loaded
<1>13. RoutedParent(r, p) => v # NoVolume
  BY <1>6 DEF Active
<1>9. /\ q.mounted = r.mounted /\ q.active = r.active
      /\ q.selected = r.selected /\ q.loaded = r.loaded /\ Sound(q)
      /\ RoutedParent(r, p) => q.cwd = d
  BY <1>4, <1>7, <1>11, <1>13, CwdSound DEF Sound
<1>10. (Active(q, v) <=> Active(r, v)) /\ (Loaded(q) <=> Loaded(r))
       /\ (RoutedParent(q, p) <=> RoutedParent(r, p))
  BY <1>9, <1>6 DEF Active, Loaded
<1> QED BY <1>2, <1>5, <1>6, <1>7, <1>8, <1>9, <1>10 DEF v, r, q, d

-----------------------------------------------------------------------------
(* Commands *)

(* A sound engine stays so while mounts and media are as they were. *)
LEMMA SoundSame ==
  ASSUME NEW e, Sound(e), eng' = e \/ eng' = Rest(e), UNCHANGED <<mounts, ext2, unclean>>
  PROVE  Sound(eng)'
<1>1. Sound(Rest(e))
  <2>1. Root \in Seq(Word) /\ e \in Engines
    BY DEF Root, Sound
  <2> QED BY <2>1, CwdSound DEF Rest
<1>2. Sound(eng')
  BY <1>1
<1>3. Used' = Used
  BY DEF Used
<1> QED BY <1>2, <1>3 DEF Sound, Loaded

(* So does one that holds nothing, whatever happens to the media. *)
LEMMA SoundLost ==
  ASSUME eng' \in Engines, ~eng'.mounted \/ eng'.active = NoVolume
  PROVE  Sound(eng)'
  BY DEF Sound

(* A command that only moved the engine *)
LEMMA EngineOnly ==
  ASSUME VfsInv, NEW e, Sound(e), eng' = e \/ eng' = Rest(e),
         UNCHANGED <<mounts, working, generation, mediaVars>>
  PROVE  VfsInv'
<1>1. Sound(eng)'
  BY SoundSame DEF mediaVars
<1>2. TableOK' /\ MediaOK' /\ overwritten' = {}
  BY DEF VfsInv, TableOK, MediaOK, Used, mediaVars
<1> QED BY <1>1, <1>2 DEF VfsInv

(* An engine that holds the active volume lost it half way. *)
LEMMA FailsInv ==
  ASSUME VfsInv, NEW r, Sound(r), Loaded(r), Fails(r), Written(r),
         dirs' \in [Volumes -> SUBSET Seq(Word)],
         UNCHANGED <<mounts, working, generation, parts>>
  PROVE  VfsInv'
<1>1. eng' = Rest(Lost(r)) /\ overwritten' = {}
  BY DEF Fails, Written, Loaded, VfsInv
<1>2. Lost(r) \in Engines /\ ~Lost(r).mounted /\ Root \in Seq(Word)
  BY LostSound DEF Sound, Root
<1>3. eng' \in Engines /\ ~eng'.mounted
  BY <1>1, <1>2, CwdSound DEF Rest
<1>4. TableOK' /\ MediaOK'
  BY DEF VfsInv, TableOK, MediaOK, Used
<1> QED BY <1>1, <1>3, <1>4, SoundLost DEF VfsInv

(* finish() writes the volume whose image is in memory. *)
LEMMA CommitInv ==
  ASSUME VfsInv, NEW r, Sound(r), Loaded(r), NEW e, Sound(e),
         NEW D \in [Volumes -> SUBSET Seq(Word)], Commit(r, D, e),
         UNCHANGED <<mounts, working, generation, parts, ext2>>
  PROVE  VfsInv'
<1>1. Written(r) /\ overwritten' = {}
  BY DEF Commit, Written, Loaded, VfsInv
<1>2. CASE eng' = Rest(e) /\ dirs' = D /\ UNCHANGED unclean
  <2>1. Sound(eng)'
    BY <1>2, SoundSame
  <2>2. TableOK' /\ MediaOK'
    BY <1>2 DEF VfsInv, TableOK, MediaOK, Used
  <2> QED BY <1>1, <2>1, <2>2 DEF VfsInv
<1>3. CASE Fails(r) /\ dirs' \in {dirs, D}
  <2>1. dirs' \in [Volumes -> SUBSET Seq(Word)]
    BY <1>3 DEF VfsInv, MediaOK
  <2> QED BY <1>1, <1>3, <2>1, FailsInv
<1> QED BY <1>2, <1>3 DEF Commit

(* The entry an operation reaches from the directory route_parent() leaves  *)
(* the engine in is the path within its volume.                             *)
LEMMA EntryLocal ==
  ASSUME TableOK, NEW e, Sound(e), NEW p \in Seq(Word), RoutedParent(RouteParent(e, p), p)
  PROVE  /\ Entry(RouteParent(e, p), p) = Local(p, VolumeFor(p))
         /\ Local(p, VolumeFor(p)) \in Seq(Word)
         /\ Vol(RouteParent(e, p).selected) = Vol(mounts[VolumeFor(p)].disk)
         /\ Vol(RouteParent(e, p).selected) \in Volumes /\ VolumeFor(p) \in Used
<1> DEFINE r == RouteParent(e, p)
           v == VolumeFor(p)
           m == mounts[v].path
<1>1. /\ Loaded(r) /\ r.cwd = N!Parent(Local(p, v)) /\ r.active = v /\ v # NoVolume
      /\ Local(p, v) # Root
  BY RouteSound DEF RoutedParent, Active
<1>2. v \in Used /\ r.selected = mounts[v].disk /\ Vol(mounts[v].disk) \in Volumes
  BY <1>1 DEF Loaded, TableOK
<1>3. m \in Seq(Word) /\ Len(m) \in Nat /\ Len(p) \in Nat
  BY <1>2 DEF TableOK, Used
<1>4. Local(p, v) = SubSeq(p, Len(m) + 1, Len(p)) /\ Root = <<>>
  BY DEF Local, Root
<1> HIDE DEF m
<1>5. Local(p, v) \in Seq(Word)
  BY <1>2, LocalType
<1> DEFINE L == Local(p, v)
<1>6. Entry(r, p) = Append(SubSeq(L, 1, Len(L) - 1), p[Len(p)])
  BY <1>1 DEF Entry, N!Parent
<1> HIDE DEF L, r, v
<1>7. Len(m) < Len(p) /\ Len(L) = Len(p) - Len(m) /\ L[Len(L)] = p[Len(p)]
  <2>1. Len(m) < Len(p)
    <3>1. Len(p) < Len(m) + 1 => SubSeq(p, Len(m) + 1, Len(p)) = <<>>
      BY <1>3
    <3> QED BY <1>1, <1>3, <1>4, <3>1 DEF v
  <2>2. L = SubSeq(p, Len(m) + 1, Len(p))
    BY <1>4 DEF L
  <2>3. Len(SubSeq(p, Len(m) + 1, Len(p))) = Len(p) - Len(m)
    BY <1>3, <2>1
  <2>4. \A i \in 1..Len(p) - Len(m) : SubSeq(p, Len(m) + 1, Len(p))[i] = p[Len(m) + i]
    BY <1>3, <2>1
  <2>5. Len(p) - Len(m) \in 1..Len(p) - Len(m) /\ Len(m) + (Len(p) - Len(m)) = Len(p)
    BY <1>3, <2>1
  <2> QED BY <2>1, <2>2, <2>3, <2>4, <2>5
<1>8. Append(SubSeq(L, 1, Len(L) - 1), L[Len(L)]) = L
  BY <1>3, <1>5, <1>7 DEF L
<1> QED BY <1>2, <1>5, <1>6, <1>7, <1>8 DEF L, r, v

(* fs_mkdir() *)
LEMMA MkdirInv == ASSUME VfsInv, NEW p \in Seq(Word), Mkdir(p) PROVE VfsInv'
<1> DEFINE r == RouteParent(eng, p)
<1>1. /\ UNCHANGED <<mounts, working, plugVars, mbr, parts, ext2>>
      /\ \/ /\ RoutedParent(r, p)
            /\ Commit(r, [dirs EXCEPT ![Vol(r.selected)] = @ \cup {Entry(r, p)}], r)
         \/ eng' = Rest(r) /\ UNCHANGED <<dirs, unclean, overwritten>>
  BY DEF Mkdir
<1>2. TableOK /\ Sound(eng) /\ Sound(r)
  BY RouteSound DEF VfsInv
<1>3. CASE RoutedParent(r, p)
             /\ Commit(r, [dirs EXCEPT ![Vol(r.selected)] = @ \cup {Entry(r, p)}], r)
  <2>1. Loaded(r) /\ Entry(r, p) \in Seq(Word) /\ Vol(r.selected) \in Volumes
    BY <1>2, <1>3, RouteSound, EntryLocal
  <2> HIDE DEF r
  <2>2. [dirs EXCEPT ![Vol(r.selected)] = @ \cup {Entry(r, p)}] \in [Volumes -> SUBSET Seq(Word)]
    BY <2>1 DEF VfsInv, MediaOK
  <2> QED BY <1>1, <1>2, <1>3, <2>1, <2>2, CommitInv DEF plugVars
<1>4. CASE eng' = Rest(r) /\ UNCHANGED <<dirs, unclean, overwritten>>
  BY <1>1, <1>2, <1>4, EngineOnly DEF plugVars, mediaVars
<1> QED BY <1>1, <1>3, <1>4

(* fs_rmdir() *)
LEMMA RmdirInv == ASSUME VfsInv, NEW p \in Seq(Word), Rmdir(p) PROVE VfsInv'
<1> DEFINE r == RouteParent(eng, p)
<1>1. /\ UNCHANGED <<mounts, working, plugVars, mbr, parts, ext2>>
      /\ \/ /\ RoutedParent(r, p)
            /\ Commit(r, [dirs EXCEPT ![Vol(r.selected)] = @ \ {Entry(r, p)}], r)
         \/ eng' = Rest(r) /\ UNCHANGED <<dirs, unclean, overwritten>>
  BY DEF Rmdir
<1>2. TableOK /\ Sound(eng) /\ Sound(r)
  BY RouteSound DEF VfsInv
<1>3. CASE RoutedParent(r, p)
             /\ Commit(r, [dirs EXCEPT ![Vol(r.selected)] = @ \ {Entry(r, p)}], r)
  <2>1. Loaded(r) /\ Vol(r.selected) \in Volumes
    BY <1>2, <1>3, RouteSound, EntryLocal
  <2> HIDE DEF r
  <2>2. [dirs EXCEPT ![Vol(r.selected)] = @ \ {Entry(r, p)}] \in [Volumes -> SUBSET Seq(Word)]
    BY <2>1 DEF VfsInv, MediaOK
  <2> QED BY <1>1, <1>2, <1>3, <2>1, <2>2, CommitInv DEF plugVars
<1>4. CASE eng' = Rest(r) /\ UNCHANGED <<dirs, unclean, overwritten>>
  BY <1>1, <1>2, <1>4, EngineOnly DEF plugVars, mediaVars
<1> QED BY <1>1, <1>3, <1>4

(* Changing the directory, permission checks and writing a file. *)
LEMMA FilesInvariant == ASSUME VfsInv, NEW p \in Seq(Word), NEW q \in Seq(Word),
                               Cd(p) \/ Access(p) \/ WriteFile(q, p)
                        PROVE  VfsInv'
<1>1. TableOK /\ Sound(eng) /\ Sound(Route(eng, p)) /\ Sound(Route(eng, q))
  BY RouteSound DEF VfsInv
<1>2. CASE Cd(p)
  <2>1. Sound(eng)'
    BY <1>1, <1>2, SoundSame DEF Cd, mediaVars
  <2>2. TableOK' /\ MediaOK' /\ overwritten' = {}
    BY <1>2 DEF Cd, VfsInv, TableOK, MediaOK, Used, mediaVars, plugVars
  <2> QED BY <2>1, <2>2 DEF VfsInv
<1>3. CASE Access(p)
  BY <1>1, <1>3, EngineOnly DEF Access, plugVars
<1>4. CASE WriteFile(q, p)
  <2> DEFINE r == RouteParent(Route(eng, q), p)
  <2>1. /\ RoutedParent(r, p) /\ Commit(r, dirs, r)
        /\ UNCHANGED <<mounts, working, plugVars, mbr, parts, ext2>>
    BY <1>4 DEF WriteFile
  <2>2. Sound(r) /\ Loaded(r)
    BY <1>1, <2>1, RouteSound
  <2>3. dirs \in [Volumes -> SUBSET Seq(Word)]
    BY DEF VfsInv, MediaOK
  <2> HIDE DEF r
  <2> QED BY <2>1, <2>2, <2>3, CommitInv DEF plugVars
<1> QED BY <1>2, <1>3, <1>4

(* The name of the access table is a path. *)
LEMMA AclFilePath == AclFile \in Seq(Word)
<1>1. "etc" \in Word /\ "access.cfg" \in Word
  BY DEF Word
<1>2. ASSUME NEW x \in Word, NEW y \in Word PROVE <<x, y>> \in Seq(Word)
  OBVIOUS
<1> QED BY <1>1, <1>2, Zenon DEF AclFile

(* The paths that are used are paths. *)
LEMMA PathsType == Paths \subseteq Seq(Word)
<1> SUFFICES ASSUME NEW p \in Paths PROVE p \in Seq(Word)
  OBVIOUS
<1>1. p \in Seq(STRING) /\ STRING \subseteq Word
  BY VfsAssumption DEF Word
<1> QED BY <1>1, SeqMonotonic

(* The engine after each routed call of fs_mv() *)
LEMMA MvEnds ==
  ASSUME NEW p, NEW q, NEW acl, NEW e0, MvWithin(p, q, acl, e0)
  PROVE  LET e1 == RouteParent(e0, p)
             e2 == RouteParent(e1, q)
             same == RoutedParent(e1, p) /\ RoutedParent(e2, q) /\ e2.cwd = e1.cwd
             e3 == IF acl THEN RouteParent(e2, AclFile) ELSE e2
             guarded == same /\ (acl => RoutedParent(e3, AclFile))
         IN  MvEnd(p, q, acl, e1, e2, e3, RouteParent(e3, p), same, guarded)
<1> DEFINE e1 == RouteParent(e0, p)
           e2 == RouteParent(e1, q)
           same == RoutedParent(e1, p) /\ RoutedParent(e2, q) /\ e2.cwd = e1.cwd
           e3 == IF acl THEN RouteParent(e2, AclFile) ELSE e2
           guarded == same /\ (acl => RoutedParent(e3, AclFile))
           e4 == RouteParent(e3, p)
<1> DEFINE M(x1, x2, x3, x4, x5, x6) == MvEnd(p, q, acl, x1, x2, x3, x4, x5, x6)
<1> HIDE DEF M
<1>1. \E x1 \in {RouteParent(e0, p)} :
      \E x2 \in {RouteParent(x1, q)} :
      \E x5 \in {RoutedParent(x1, p) /\ RoutedParent(x2, q) /\ x2.cwd = x1.cwd} :
      \E x3 \in {IF acl THEN RouteParent(x2, AclFile) ELSE x2} :
      \E x6 \in {x5 /\ (acl => RoutedParent(x3, AclFile))} :
      \E x4 \in {RouteParent(x3, p)} : M(x1, x2, x3, x4, x5, x6)
  BY Zenon DEF MvWithin, Reselect, M
<1>2. \E x5 \in {same} : \E x3 \in {IF acl THEN RouteParent(e2, AclFile) ELSE e2} :
      \E x6 \in {x5 /\ (acl => RoutedParent(x3, AclFile))} :
      \E x4 \in {RouteParent(x3, p)} : M(e1, e2, x3, x4, x5, x6)
  BY <1>1, SMTT(30)
<1> HIDE DEF e1, e2, same
<1>5. \E x3 \in {e3} : \E x6 \in {same /\ (acl => RoutedParent(x3, AclFile))} :
      \E x4 \in {RouteParent(x3, p)} : M(e1, e2, x3, x4, same, x6)
  <2>1. PICK x5 \in {same} : \E x3 \in {e3} : \E x6 \in {x5 /\ (acl => RoutedParent(x3, AclFile))} :
          \E x4 \in {RouteParent(x3, p)} : M(e1, e2, x3, x4, x5, x6)
    BY <1>2, Zenon
  <2>2. x5 = same
    BY <2>1, Zenon
  <2> QED BY <2>1, <2>2, Zenon
<1> HIDE DEF e3
<1>3. \E x6 \in {guarded} : \E x4 \in {RouteParent(e3, p)} : M(e1, e2, e3, x4, same, x6)
  BY <1>5, Zenon
<1>4. M(e1, e2, e3, e4, same, guarded)
  BY <1>3, Zenon
<1> QED BY <1>4 DEF M, e1, e2, same, e3

(* fs_mv() writes /etc/access.cfg and the directory with the image of the   *)
(* volume each of them is on.                                               *)
LEMMA MvWithinInv ==
  ASSUME VfsInv, NEW p \in Seq(Word), NEW q \in Seq(Word), NEW acl \in BOOLEAN,
         NEW e0, Sound(e0), MvWithin(p, q, acl, e0),
         UNCHANGED <<mounts, working, plugVars, mbr, parts, ext2>>
  PROVE  VfsInv'
<1> DEFINE e1 == RouteParent(e0, p)
           e2 == RouteParent(e1, q)
           same == RoutedParent(e1, p) /\ RoutedParent(e2, q) /\ e2.cwd = e1.cwd
           e3 == IF acl THEN RouteParent(e2, AclFile) ELSE e2
           guarded == same /\ (acl => RoutedParent(e3, AclFile))
           e4 == RouteParent(e3, p)
           from == Entry(e4, p)
           to == Append(e4.cwd, q[Len(q)])
           done == guarded /\ RoutedParent(e4, p) /\ from \in Shown(e4) /\ to \notin Shown(e4)
           moved == {N!Replant(r, from, to) : r \in {s \in Shown(e4) : N!Beneath(s, from)}}
           D == [dirs EXCEPT ![Vol(e4.selected)] = {r \in @ : ~N!Beneath(r, from)} \cup moved]
           e5 == IF acl THEN RouteParent(e4, AclFile) ELSE e4
<1>1. \/ /\ done /\ moved \subseteq Paths
         /\ \/ Commit(e4, D, e5)
            \/ acl /\ dirs' = D /\ Fails(e5) /\ Written(e5)
      \/ guarded /\ acl /\ Fails(e3) /\ Written(e3) /\ UNCHANGED dirs
      \/ /\ eng' = Rest(IF ~RoutedParent(e1, p) THEN e1
                        ELSE IF ~same THEN e2 ELSE IF ~guarded THEN e3 ELSE e4)
         /\ UNCHANGED <<dirs, unclean, overwritten>>
  <2>1. MvEnd(p, q, acl, e1, e2, e3, e4, same, guarded)
    BY MvEnds
  <2> HIDE DEF e1, e2, e3, e4, same, guarded
  <2> QED BY <2>1, Zenon DEF MvEnd
<1>2. TableOK /\ dirs \in [Volumes -> SUBSET Seq(Word)]
  BY DEF VfsInv, MediaOK
<1>3. Sound(e1) /\ Sound(e2) /\ Sound(e3) /\ Sound(e4) /\ Sound(e5)
  BY <1>2, RouteSound, AclFilePath
<1>4. guarded /\ acl => Loaded(e3) /\ Fit(VolumeFor(AclFile)) /\ VolumeFor(AclFile) # NoVolume
  BY <1>2, <1>3, RouteSound, AclFilePath DEF RoutedParent, Active
<1>5. RoutedParent(e4, p) => /\ Loaded(e4) /\ Vol(e4.selected) \in Volumes /\ e4.mounted
  BY <1>2, <1>3, RouteSound, EntryLocal DEF RoutedParent, Active
<1>6. done /\ acl => Loaded(e5)
  <2> SUFFICES ASSUME done, acl PROVE Loaded(e5)
    OBVIOUS
  <2>1. Active(RouteParent(e4, AclFile), VolumeFor(AclFile))
    BY <1>2, <1>3, <1>4, <1>5, RouteSound, AclFilePath
  <2>2. Active(e5, VolumeFor(AclFile))
    BY <2>1
  <2> HIDE DEF e5
  <2> QED BY <2>2, <1>3 DEF Active, Sound
<1>7. done /\ moved \subseteq Paths => D \in [Volumes -> SUBSET Seq(Word)]
  <2> HIDE DEF moved, from, e4
  <2> QED BY <1>2, <1>5, PathsType
<1> HIDE DEF e1, e2, e3, e4, e5, D, moved, from, to
<1>8. CASE done /\ moved \subseteq Paths /\ Commit(e4, D, e5)
  BY <1>3, <1>5, <1>7, <1>8, CommitInv DEF plugVars
<1>9. CASE done /\ moved \subseteq Paths /\ acl /\ dirs' = D /\ Fails(e5) /\ Written(e5)
  BY <1>3, <1>6, <1>7, <1>9, FailsInv DEF plugVars
<1>10. CASE guarded /\ acl /\ Fails(e3) /\ Written(e3) /\ UNCHANGED dirs
  BY <1>2, <1>3, <1>4, <1>10, FailsInv DEF plugVars
<1>11. CASE /\ eng' = Rest(IF ~RoutedParent(e1, p) THEN e1
                           ELSE IF ~same THEN e2 ELSE IF ~guarded THEN e3 ELSE e4)
            /\ UNCHANGED <<dirs, unclean, overwritten>>
  <2>1. eng' = Rest(e1) \/ eng' = Rest(e2) \/ eng' = Rest(e3) \/ eng' = Rest(e4)
    BY <1>11
  <2> QED BY <1>3, <1>11, <2>1, EngineOnly DEF plugVars, mediaVars
<1> QED BY <1>1, <1>8, <1>9, <1>10, <1>11

(* fs_mv() with its three writes *)
LEMMA MvInv ==
  ASSUME VfsInv, NEW p \in Seq(Word), NEW q \in Seq(Word), NEW acl \in BOOLEAN, Mv(p, q, acl)
  PROVE  VfsInv'
<1>1. Sound(Route(eng, AclFile))
  BY RouteSound, AclFilePath DEF VfsInv
<1>2. /\ UNCHANGED <<mounts, working, plugVars, mbr, parts, ext2>>
      /\ \/ eng' = Route(eng, AclFile) /\ UNCHANGED <<dirs, unclean, overwritten>>
         \/ MvWithin(p, q, acl, Route(eng, AclFile))
  BY DEF Mv
<1>3. CASE eng' = Route(eng, AclFile) /\ UNCHANGED <<dirs, unclean, overwritten>>
  BY <1>1, <1>2, <1>3, EngineOnly DEF plugVars, mediaVars
<1>4. CASE MvWithin(p, q, acl, Route(eng, AclFile))
  BY <1>1, <1>2, <1>4, MvWithinInv
<1> QED BY <1>2, <1>3, <1>4

(* What select_named() finds under the name of a whole device *)
LEMMA SelectionWhole ==
  ASSUME VfsInv, WholeDevices, NEW e, NEW name \in Names, NEW raw \in BOOLEAN
  PROVE  LET s == Selection(e, name, raw)
         IN  \/ ~s.ok /\ s.disk = e.selected
             \/ s.ok /\ s.disk \in Disks /\ Vol(s.disk) \in Volumes
<1> DEFINE d == name[1]
           n == IF raw THEN 0 ELSE Found(d)
<1>1. d \in Devices /\ name[2] = 0 /\ generation[d] \in Nat /\ parts[d] \subseteq Slots
  BY VfsAssumption DEF WholeDevices, VfsInv, MediaOK
<1>2. CASE ~present[d] \/ (~raw /\ ~Selectable(d))
  BY <1>1, <1>2 DEF Selection
<1>3. CASE present[d] /\ (raw \/ Selectable(d))
  <2>1. n \in Slots \cup {0}
    <3>1. CASE raw \/ <<d, 0>> \in ext2 \/ d \notin mbr
      BY <3>1 DEF Found
    <3>2. CASE ~raw /\ ~(<<d, 0>> \in ext2 \/ d \notin mbr)
      <4>1. parts[d] # {} /\ parts[d] \in SUBSET Nat /\ n = Least(parts[d])
        <5>1. n = Least(parts[d]) /\ parts[d] # {}
          BY <1>3, <3>2 DEF Selectable, Found
        <5>2. Slots \subseteq Nat
          BY VfsAssumption
        <5> QED BY <1>1, <5>1, <5>2
      <4>2. \E x \in parts[d] : \A y \in parts[d] : x <= y
        BY <4>1, LeastNat
      <4>3. Least(parts[d]) \in parts[d]
        BY <4>2, Zenon DEF Least
      <4> QED BY <4>1, <4>3, <1>1
    <3> QED BY <3>1, <3>2
  <2>2. Selection(e, name, raw) = [ok |-> TRUE, disk |-> Disk(d, n)]
    BY <1>1, <1>3 DEF Selection
  <2> HIDE DEF n
  <2>3. Disk(d, n) \in Disks /\ Vol(Disk(d, n)) = <<d, n>>
    BY <1>1, <2>1, VfsAssumption DEF Disk, Disks, Vol
  <2>4. Vol(Disk(d, n)) \in Volumes
    BY <1>1, <2>1, <2>3 DEF Volumes
  <2> QED BY <2>2, <2>3, <2>4
<1> QED BY <1>2, <1>3

(* A free slot, or that of the root *)
LEMMA SlotForTable == ASSUME NEW p, SlotFor(p) # NoVolume PROVE SlotFor(p) \in Table
<1> DEFINE same == {i \in Used : mounts[i].path = p}
           free == Table \ Used
<1>1. SlotFor(p) = IF same # {} THEN (IF p = Root THEN CHOOSE i \in same : TRUE ELSE NoVolume)
                   ELSE IF free = {} THEN NoVolume ELSE Least(free)
  BY DEF SlotFor
<1>2. CASE same # {}
  <2>1. SlotFor(p) = CHOOSE i \in same : TRUE
    BY <1>1, <1>2
  <2>2. (CHOOSE i \in same : TRUE) \in same
    BY <1>2, Zenon
  <2> QED BY <2>1, <2>2 DEF Used
<1>3. CASE same = {}
  <2>1. free # {} /\ SlotFor(p) = Least(free) /\ free \in SUBSET Nat
    BY <1>1, <1>3, VfsAssumption DEF Table
  <2>2. \E x \in free : \A y \in free : x <= y
    BY <2>1, LeastNat
  <2>3. Least(free) \in free
    BY <2>2, Zenon DEF Least
  <2> QED BY <2>1, <2>3
<1> QED BY <1>2, <1>3

(* fs_mount() enters a volume that no other slot has, and leaves its image  *)
(* in the engine.                                                           *)
LEMMA MountOnInv ==
  ASSUME VfsInv, WholeDevices, NEW e, Sound(e), NEW name \in Names, NEW p \in Seq(Word),
         NEW slot \in Table, MountOn(e, name, p, slot), UNCHANGED <<plugVars, mediaVars>>
  PROVE  VfsInv'
<1> DEFINE s == Selection(e, name, FALSE)
           d == s.disk
           next == [e EXCEPT !.selected = d, !.active = NoVolume]
           twice == \E i \in Used \ {slot} : Vol(mounts[i].disk) = Vol(d)
           r == ExtInit(next)
<1>1. \/ ~s.ok /\ eng' = [e EXCEPT !.selected = d] /\ UNCHANGED <<mounts, working>>
      \/ s.ok /\ eng' = next /\ UNCHANGED <<mounts, working>>
      \/ s.ok /\ ~r.mounted /\ eng' = r /\ UNCHANGED <<mounts, working>>
      \/ /\ s.ok /\ ~twice /\ r.mounted
         /\ eng' = [r EXCEPT !.active = slot]
         /\ mounts' = [mounts EXCEPT ![slot] = [used |-> TRUE, disk |-> d, path |-> p]]
         /\ working' = IF p = Root THEN Root ELSE working
  <2> HIDE DEF s
  <2> QED BY Zenon DEF MountOn, s
<1>2. (~s.ok /\ d = e.selected) \/ (s.ok /\ d \in Disks /\ Vol(d) \in Volumes)
  BY SelectionWhole
<1> HIDE DEF s, d
<1>3. e \in Engines /\ TableOK /\ MediaOK /\ overwritten = {}
  BY DEF Sound, VfsInv
<1>4. UNCHANGED <<generation, mediaVars>>
  BY DEF plugVars
<1>5. CASE ~s.ok /\ eng' = [e EXCEPT !.selected = d] /\ UNCHANGED <<mounts, working>>
  <2>1. d = e.selected
    BY <1>2, <1>5
  <2>2. eng' = e
    BY <1>3, <1>5, <2>1 DEF Engines
  <2> QED BY <1>4, <1>5, <2>2, EngineOnly
<1>6. ASSUME s.ok
      PROVE  /\ next \in Engines /\ next.active = NoVolume /\ next.selected = d
             /\ r \in Engines /\ r.active = NoVolume
             /\ r.mounted => r.selected = d /\ r.loaded = d /\ Vol(d) \in ext2 \ unclean
  <2>1. next \in Engines /\ next.active = NoVolume /\ next.selected = d
    BY <1>2, <1>3, <1>6 DEF Engines
  <2> HIDE DEF next
  <2>2. CASE Present(d) /\ Vol(d) \in ext2 \ unclean
    <3> DEFINE z == Root
    <3>1. z \in Seq(Word)
      BY DEF Root
    <3> HIDE DEF z
    <3>2. r = [next EXCEPT !.mounted = TRUE, !.loaded = next.selected, !.cwd = z]
      BY <2>1, <2>2 DEF ExtInit, z
    <3> HIDE DEF r
    <3>3. r \in Engines /\ r.active = NoVolume /\ r.selected = d /\ r.loaded = d
      BY <2>1, <3>1, <3>2 DEF Engines
    <3> QED BY <2>1, <2>2, <3>3
  <2>3. CASE ~(Present(d) /\ Vol(d) \in ext2 \ unclean)
    <3>1. r = Lost(next)
      BY <2>1, <2>3 DEF ExtInit
    <3> HIDE DEF r
    <3>2. r \in Engines /\ ~r.mounted /\ r.active = NoVolume
      BY <2>1, <3>1, LostSound DEF Sound
    <3> QED BY <2>1, <3>2
  <2> QED BY <2>2, <2>3
<1>7. ASSUME UNCHANGED <<mounts, working>> PROVE TableOK' /\ MediaOK' /\ overwritten' = {}
  BY <1>3, <1>4, <1>7 DEF TableOK, MediaOK, Used, mediaVars
<1> HIDE DEF next, r
<1>8. CASE s.ok /\ eng' = next /\ UNCHANGED <<mounts, working>>
  BY <1>6, <1>7, <1>8, SoundLost DEF VfsInv
<1>9. CASE s.ok /\ ~r.mounted /\ eng' = r /\ UNCHANGED <<mounts, working>>
  BY <1>6, <1>7, <1>9, SoundLost DEF VfsInv
<1>10. CASE /\ s.ok /\ ~twice /\ r.mounted
            /\ eng' = [r EXCEPT !.active = slot]
            /\ mounts' = [mounts EXCEPT ![slot] = [used |-> TRUE, disk |-> d, path |-> p]]
            /\ working' = IF p = Root THEN Root ELSE working
  <2>1. /\ r \in Engines /\ r.selected = d /\ r.loaded = d /\ Vol(d) \in ext2 \ unclean
        /\ d \in Disks /\ Vol(d) \in Volumes
    BY <1>2, <1>6, <1>10
  <2>2. /\ eng' \in Engines /\ eng'.active = slot /\ eng'.selected = d /\ eng'.loaded = d
    BY <2>1, <1>10 DEF Engines
  <2>3. mounts' \in [Table -> [used : BOOLEAN, disk : Disks, path : Seq(Word)]]
    BY <1>3, <1>10, <2>1 DEF TableOK
  <2>4. /\ mounts'[slot].used /\ mounts'[slot].disk = d
        /\ \A i \in Table \ {slot} : mounts'[i] = mounts[i]
    BY <1>3, <1>10 DEF TableOK
  <2>5. Used' = Used \cup {slot}
    BY <2>4 DEF Used
  <2>6. TableOK'
    <3>1. \A i \in Used' : \/ i = slot /\ mounts'[i].disk = d
                           \/ i \in Used \ {slot} /\ mounts'[i] = mounts[i]
      BY <2>4, <2>5 DEF Used
    <3>2. \A i \in Used' : Vol(mounts'[i].disk) \in Volumes
      BY <3>1, <2>1, <1>3 DEF TableOK
    <3>3. \A i \in Used \ {slot} : Vol(mounts[i].disk) # Vol(d)
      BY <1>10
    <3>4. \A i, j \in Used' : i # j => Vol(mounts'[i].disk) # Vol(mounts'[j].disk)
      BY <3>1, <3>3, <1>3 DEF TableOK
    <3> QED BY <2>3, <3>2, <3>4 DEF TableOK, Vol
  <2>7. MediaOK' /\ overwritten' = {}
    BY <1>3, <1>4, <1>10 DEF MediaOK, mediaVars, Root
  <2>8. Loaded(eng)'
    BY <2>1, <2>2, <2>4, <2>5, <1>4 DEF Loaded, Vol, mediaVars
  <2>9. Sound(eng)'
    BY <2>2, <2>8 DEF Sound
  <2> QED BY <2>6, <2>7, <2>9 DEF VfsInv
<1> QED BY <1>1, <1>5, <1>8, <1>9, <1>10

(* fs_mount() *)
LEMMA MountInv ==
  ASSUME VfsInv, WholeDevices, NEW name \in Names, NEW p \in Seq(Word), Mount(name, p)
  PROVE  VfsInv'
<1> DEFINE e == IF p = Root THEN eng ELSE Route(eng, p)
<1>1. /\ SlotFor(p) # NoVolume /\ UNCHANGED <<plugVars, mediaVars>>
      /\ \/ eng' = e /\ UNCHANGED <<mounts, working>>
         \/ MountOn(e, name, p, SlotFor(p))
  BY DEF Mount
<1>2. Sound(e)
  BY RouteSound DEF VfsInv
<1>3. SlotFor(p) \in Table
  BY <1>1, SlotForTable
<1> HIDE DEF e
<1>4. CASE eng' = e /\ UNCHANGED <<mounts, working>>
  BY <1>1, <1>2, <1>4, EngineOnly DEF plugVars
<1>5. CASE MountOn(e, name, p, SlotFor(p))
  BY <1>1, <1>2, <1>3, <1>5, MountOnInv
<1> QED BY <1>1, <1>4, <1>5

(* fs_unmount_path() *)
LEMMA UnmountInv ==
  ASSUME VfsInv, NEW p \in Seq(Word), NEW named \in BOOLEAN, Unmount(p, named)
  PROVE  VfsInv'
<1> DEFINE v == VolumeFor(p)
           back == [eng EXCEPT !.selected = mounts[v].disk, !.active = NoVolume]
           r == Activate(back, v)
           off == [eng EXCEPT !.selected = NoDisk, !.mounted = FALSE, !.loaded = NoDisk,
                              !.active = NoVolume]
<1>1. /\ v # NoVolume /\ UNCHANGED <<plugVars, mediaVars>>
      /\ \/ eng' = r /\ UNCHANGED <<mounts, working>>
         \/ /\ mounts' = [mounts EXCEPT ![v] = Unused] /\ eng' = off
            /\ working' = IF N!Beneath(working, mounts[v].path) THEN Root ELSE working
  BY DEF Unmount
<1>2. /\ v \in Used /\ v \in Table /\ mounts[v].disk \in Disks /\ eng \in Engines
      /\ TableOK /\ MediaOK /\ overwritten = {}
  BY <1>1, VolumeForCovers DEF VfsInv, TableOK, Used, Sound
<1>3. Sound(back)
  <2>1. back \in Engines /\ back.active = NoVolume
    BY <1>2 DEF Engines
  <2> QED BY <2>1 DEF Sound
<1>4. CASE eng' = r /\ UNCHANGED <<mounts, working>>
  <2>1. Sound(r)
    BY <1>2, <1>3, ActivateSound
  <2> HIDE DEF r
  <2> QED BY <1>1, <1>4, <2>1, EngineOnly DEF plugVars
<1>5. CASE /\ mounts' = [mounts EXCEPT ![v] = Unused] /\ eng' = off
           /\ working' = IF N!Beneath(working, mounts[v].path) THEN Root ELSE working
  <2>1. eng' \in Engines /\ eng'.active = NoVolume
    BY <1>2, <1>5 DEF Engines, NoDisk, Disks
  <2>2. Unused \in [used : BOOLEAN, disk : Disks, path : Seq(Word)] /\ ~Unused.used
    BY DEF Unused, NoDisk, Disks, Root
  <2> HIDE DEF v
  <2>3. mounts' \in [Table -> [used : BOOLEAN, disk : Disks, path : Seq(Word)]]
    BY <1>2, <1>5, <2>2 DEF TableOK
  <2>4. ~mounts'[v].used /\ \A i \in Table \ {v} : mounts'[i] = mounts[i]
    BY <1>2, <1>5, <2>2 DEF TableOK
  <2>5. \A i \in Used' : i \in Used /\ mounts'[i] = mounts[i]
    BY <2>4 DEF Used
  <2>6. TableOK'
    BY <1>2, <2>3, <2>5 DEF TableOK, Vol
  <2>7. MediaOK' /\ overwritten' = {}
    BY <1>1, <1>2, <1>5 DEF MediaOK, mediaVars, plugVars, Root
  <2> QED BY <2>1, <2>6, <2>7, SoundLost DEF VfsInv
<1> QED BY <1>1, <1>4, <1>5

(* fs_format() leaves the engine without a volume. *)
LEMMA FormatInv ==
  ASSUME VfsInv, WholeDevices, NEW name \in Names, Format(name)
  PROVE  VfsInv'
<1> DEFINE s == Selection(eng, name, TRUE)
           d == s.disk
           next == [eng EXCEPT !.selected = d, !.active = NoVolume]
<1>1. /\ UNCHANGED <<mounts, working, plugVars, overwritten>>
      /\ \/ /\ ~s.ok /\ eng' = [eng EXCEPT !.selected = d]
            /\ UNCHANGED <<mbr, parts, ext2, unclean, dirs>>
         \/ s.ok /\ eng' = next /\ UNCHANGED <<mbr, parts, ext2, unclean, dirs>>
         \/ s.ok /\ eng' = Lost(next) /\ (Formatted(Vol(d)) \/ HalfFormatted(Vol(d)))
  BY DEF Format
<1>2. (~s.ok /\ d = eng.selected) \/ (s.ok /\ d \in Disks /\ Vol(d) \in Volumes)
  BY SelectionWhole
<1> HIDE DEF s, d
<1>3. eng \in Engines /\ Sound(eng) /\ TableOK /\ MediaOK /\ overwritten = {}
  BY DEF Sound, VfsInv
<1>4. TableOK'
  BY <1>1, <1>3 DEF TableOK, Used
<1>5. CASE ~s.ok /\ eng' = [eng EXCEPT !.selected = d] /\ UNCHANGED <<mbr, parts, ext2, unclean, dirs>>
  <2>1. d = eng.selected
    BY <1>2, <1>5
  <2>2. eng' = eng
    BY <1>3, <1>5, <2>1 DEF Engines
  <2> QED BY <1>1, <1>3, <1>5, <2>2, EngineOnly DEF plugVars, mediaVars
<1>6. s.ok => next \in Engines /\ next.active = NoVolume
  BY <1>2, <1>3 DEF Engines
<1> HIDE DEF next
<1>7. CASE s.ok /\ eng' = next /\ UNCHANGED <<mbr, parts, ext2, unclean, dirs>>
  <2>1. Sound(eng)'
    BY <1>6, <1>7, SoundLost
  <2>2. MediaOK'
    BY <1>1, <1>3, <1>7 DEF MediaOK, plugVars
  <2> QED BY <1>1, <1>3, <1>4, <2>1, <2>2 DEF VfsInv
<1>8. CASE s.ok /\ eng' = Lost(next) /\ (Formatted(Vol(d)) \/ HalfFormatted(Vol(d)))
  <2>1. Sound(eng)'
    <3>1. eng' \in Engines /\ ~eng'.mounted
      BY <1>6, <1>8, LostSound DEF Sound
    <3> QED BY <3>1, SoundLost
  <2>2. Vol(d) \in Volumes /\ {Root} \in SUBSET Seq(Word)
    BY <1>2, <1>8 DEF Root
  <2> DEFINE v == Vol(d)
             z == {Root}
  <2> HIDE DEF v, z
  <2>3. v[1] \in Devices /\ v \in Volumes /\ z \in SUBSET Seq(Word)
    BY <2>2 DEF v, z, Volumes
  <2>4. /\ dirs' = [dirs EXCEPT ![v] = z] \/ dirs' = dirs
        /\ parts' = [parts EXCEPT ![v[1]] = {}] \/ parts' = parts
    BY <1>8 DEF Formatted, HalfFormatted, Unsigned, v, z
  <2>5. dirs' \in [Volumes -> SUBSET Seq(Word)]
    BY <1>3, <2>3, <2>4 DEF MediaOK
  <2>6. parts' \in [Devices -> SUBSET Slots]
    BY <1>3, <2>3, <2>4 DEF MediaOK
  <2>7. MediaOK'
    BY <1>1, <1>3, <2>5, <2>6 DEF MediaOK, plugVars
  <2> QED BY <1>1, <1>3, <1>4, <2>1, <2>7 DEF VfsInv
<1> QED BY <1>1, <1>5, <1>7, <1>8

(* fs_fdisk() and the cable do not touch the engine. *)
LEMMA MediaInv ==
  ASSUME VfsInv, NEW d \in Devices, NEW P \in SUBSET Slots, Fdisk(d, P) \/ Unplug(d) \/ Plug(d)
  PROVE  VfsInv'
<1>1. UNCHANGED <<mounts, working, eng, ext2, unclean, dirs, overwritten>>
  BY DEF Fdisk, Unplug, Plug, mediaVars
<1>2. Sound(eng)'
  BY <1>1, SoundSame DEF VfsInv
<1>3. TableOK'
  BY <1>1 DEF VfsInv, TableOK, Used
<1>4. parts' \in [Devices -> SUBSET Slots] /\ generation' \in [Devices -> Nat]
  BY DEF Fdisk, Unplug, Plug, mediaVars, plugVars, VfsInv, MediaOK
<1> QED BY <1>1, <1>2, <1>3, <1>4 DEF VfsInv, MediaOK

(* The visits of fs_sync(), one after the other: there are some because     *)
(* each is built from the one before.                                       *)
Visits(f, k) ==
  f = [i \in 0..k |-> IF i = 0 THEN eng
                      ELSE IF i - 1 \in Used THEN Activate(f[i - 1], i - 1) ELSE f[i - 1]]

(* The visits of fs_sync() can be built one by one. *)
LEMMA VisitsExist == ASSUME NEW n \in Nat PROVE \E f : Visits(f, n)
<1> DEFINE Bad == {k \in Nat : ~\E f : Visits(f, k)}
<1>1. SUFFICES ASSUME Bad # {} PROVE FALSE
  OBVIOUS
<1>2. PICK k \in Bad : \A j \in Bad : k <= j
  BY <1>1, LeastNat
<1> DEFINE S(x, i) == IF i - 1 \in Used THEN Activate(x, i - 1) ELSE x
           a == eng
<1>3. \A f, j : Visits(f, j) <=> f = [m \in 0..j |-> IF m = 0 THEN a ELSE S(f[m - 1], m)]
  BY DEF Visits
<1> HIDE DEF S, a
<1>4. k # 0
  <2> DEFINE h == [m \in 0..0 |-> a]
  <2>1. \A m \in 0..0 : h[m] = IF m = 0 THEN a ELSE S(h[m - 1], m)
    OBVIOUS
  <2>2. h = [m \in 0..0 |-> IF m = 0 THEN a ELSE S(h[m - 1], m)]
    BY <2>1
  <2>3. Visits(h, 0)
    BY <1>3, <2>2
  <2> QED BY <1>2, <2>3
<1>5. PICK f : Visits(f, k - 1)
  <2>1. k - 1 \in Nat /\ ~(k <= k - 1)
    BY <1>2, <1>4
  <2>2. k - 1 \notin Bad
    BY <1>2, <2>1
  <2> QED BY <2>1, <2>2
<1> DEFINE g == [m \in 0..k |-> IF m < k THEN f[m] ELSE S(f[k - 1], k)]
<1>6. \A m \in 0..k : g[m] = IF m = 0 THEN a ELSE S(g[m - 1], m)
  <2> TAKE m \in 0..k
  <2>1. CASE m = k
    BY <1>2, <1>4, <2>1
  <2>2. CASE m < k
    <3>1. m \in 0..k - 1 /\ (m # 0 => m - 1 \in 0..k - 1 /\ m - 1 < k)
      BY <1>2, <1>4, <2>2
    <3>2. f[m] = IF m = 0 THEN a ELSE S(f[m - 1], m)
      BY <1>3, <1>5, <3>1
    <3> QED BY <2>2, <3>1, <3>2
  <2> QED BY <1>2, <2>1, <2>2
<1>7. Visits(g, k)
  BY <1>3, <1>6
<1> QED BY <1>2, <1>7

(* fs_sync() *)
LEMMA SyncInv == ASSUME VfsInv, Sync PROVE VfsInv'
<1> DEFINE f == CHOOSE f : Visits(f, MOUNT_COUNT)
<1>1. MOUNT_COUNT \in Nat /\ Visits(f, MOUNT_COUNT)
  BY VisitsExist, VfsAssumption
<1>2. eng' = f[MOUNT_COUNT] /\ UNCHANGED <<mounts, working, plugVars, mediaVars>>
  BY DEF Sync, Visits
<1> HIDE DEF f
<1> DEFINE Bad == {k \in 0..MOUNT_COUNT : ~Sound(f[k])}
<1>3. Bad = {}
  <2> SUFFICES ASSUME Bad # {} PROVE FALSE
    OBVIOUS
  <2>1. PICK k \in Bad : \A j \in Bad : k <= j
    <3>1. Bad \in SUBSET Nat
      BY <1>1
    <3> QED BY <3>1, LeastNat
  <2>2. f[k] = IF k = 0 THEN eng
               ELSE IF k - 1 \in Used THEN Activate(f[k - 1], k - 1) ELSE f[k - 1]
    BY <1>1 DEF Visits
  <2>3. k # 0
    BY <2>1, <2>2 DEF VfsInv
  <2>4. Sound(f[k - 1])
    <3>1. k - 1 \in 0..MOUNT_COUNT /\ ~(k <= k - 1)
      BY <1>1, <2>1, <2>3
    <3> QED BY <2>1, <3>1
  <2>5. TableOK
    BY DEF VfsInv
  <2>6. k - 1 \in Used => Sound(Activate(f[k - 1], k - 1))
    BY <2>4, <2>5, ActivateSound
  <2> QED BY <2>1, <2>2, <2>3, <2>4, <2>6
<1>4. Sound(f[MOUNT_COUNT])
  BY <1>1, <1>3
<1> QED BY <1>2, <1>4, EngineOnly DEF plugVars

-----------------------------------------------------------------------------
(* Nothing is mounted at the start. *)
LEMMA VfsInit == Init => VfsInv
<1> SUFFICES ASSUME Init PROVE VfsInv
  OBVIOUS
<1>1. BootDisk \in Disks /\ Vol(BootDisk) = <<BootDevice, 0>> /\ NoDisk \in Disks
      /\ Root \in Seq(Word) /\ <<BootDevice, 0>> \in Volumes /\ 0 \in Table
  BY VfsAssumption DEF BootDisk, Disks, NoDisk, Vol, Root, Volumes, Table
<1>2. Unused \in [used : BOOLEAN, disk : Disks, path : Seq(Word)] /\ ~Unused.used
  BY <1>1 DEF Unused
<1> DEFINE b == [Unused EXCEPT !.used = TRUE, !.disk = BootDisk]
<1>3. b \in [used : BOOLEAN, disk : Disks, path : Seq(Word)] /\ b.used /\ b.disk = BootDisk
  BY <1>1 DEF Unused
<1>4. mounts = [i \in Table |-> IF i = 0 THEN b ELSE Unused]
  BY DEF Init
<1> HIDE DEF b
<1>5. Used = {0} /\ mounts[0].disk = BootDisk
  BY <1>1, <1>2, <1>3, <1>4 DEF Used
<1>6. TableOK
  <2>1. mounts \in [Table -> [used : BOOLEAN, disk : Disks, path : Seq(Word)]]
    BY <1>2, <1>3, <1>4
  <2> QED BY <1>1, <1>5, <2>1 DEF TableOK
<1>7. MediaOK
  BY <1>1 DEF Init, MediaOK
<1>8. Sound(eng)
  <2>1. /\ eng.active = 0 /\ eng.selected = BootDisk /\ eng.loaded = BootDisk
    BY DEF Init
  <2>2. eng \in Engines
    BY <1>1 DEF Init, Engines
  <2>3. Vol(BootDisk) \in ext2 \ unclean
    BY <1>1 DEF Init
  <2> QED BY <1>5, <2>1, <2>2, <2>3 DEF Sound, Loaded
<1> QED BY <1>6, <1>7, <1>8 DEF Init, VfsInv

(* Every step keeps the invariant. *)
LEMMA VfsNext == ASSUME VfsInv, WholeDevices, [Next]_vars PROVE VfsInv'
<1>1. ASSUME NEW p \in Paths, Mkdir(p) \/ Rmdir(p) \/ Cd(p) \/ Access(p) PROVE VfsInv'
  BY <1>1, PathsType, MkdirInv, RmdirInv, FilesInvariant
<1>2. ASSUME NEW p \in Paths, NEW q \in Paths, NEW acl \in BOOLEAN, Mv(p, q, acl) PROVE VfsInv'
  BY <1>2, PathsType, MvInv
<1>3. ASSUME NEW p \in Paths, NEW q \in Paths, WriteFile(Append(q, "file"), Append(p, "file"))
      PROVE  VfsInv'
  <2>1. "file" \in Word /\ p \in Seq(Word) /\ q \in Seq(Word)
    BY PathsType DEF Word
  <2> DEFINE pf == Append(p, "file")
             qf == Append(q, "file")
  <2>2. pf \in Seq(Word) /\ qf \in Seq(Word)
    BY <2>1
  <2> HIDE DEF pf, qf
  <2>3. WriteFile(qf, pf)
    BY <1>3 DEF pf, qf
  <2> QED BY <2>2, <2>3, FilesInvariant
<1>4. ASSUME NEW name \in Names, NEW p \in Paths, Mount(name, p) PROVE VfsInv'
  BY <1>4, PathsType, MountInv
<1>5. ASSUME NEW p \in Paths, NEW named \in BOOLEAN, Unmount(p, named) PROVE VfsInv'
  BY <1>5, PathsType, UnmountInv
<1>6. ASSUME NEW name \in Names, Format(name) PROVE VfsInv'
  BY <1>6, FormatInv
<1>7. ASSUME NEW name \in Names, NEW P \in SUBSET Slots, Fdisk(name[1], P) PROVE VfsInv'
  <2>1. name[1] \in Devices
    BY VfsAssumption
  <2> QED BY <1>7, <2>1, MediaInv
<1>8. ASSUME NEW d \in Usb, Unplug(d) \/ Plug(d) PROVE VfsInv'
  BY <1>8, VfsAssumption, MediaInv
<1>9. CASE UNCHANGED vars
  BY <1>9, EngineOnly DEF vars, plugVars, VfsInv
<1> QED BY <1>1, <1>2, <1>3, <1>4, <1>5, <1>6, <1>7, <1>8, <1>9, SyncInv DEF Next

(* "Only one image is cached: switching volumes reloads it" (vfs.inc), for  *)
(* every table, after any order of commands, failures, unplugged devices    *)
(* and devices that came back.                                              *)
THEOREM EngineCoherentAlways == ASSUME WholeDevices PROVE Spec => []EngineCoherent
<1>1. VfsInv => EngineCoherent
  BY DEF VfsInv, Sound, Loaded, EngineCoherent, Used
<1>2. VfsInv /\ [Next]_vars => VfsInv'
  BY VfsNext
<1> QED BY VfsInit, <1>1, <1>2, PTL DEF Spec

(* No volume is written with the image of another, also not by the second   *)
(* and third write of a rename (fs_mv of vfs.inc).                          *)
THEOREM NeverOverwrittenAlways == ASSUME WholeDevices PROVE Spec => []NeverOverwritten
<1>1. VfsInv => NeverOverwritten
  BY DEF VfsInv, NeverOverwritten
<1>2. VfsInv /\ [Next]_vars => VfsInv'
  BY VfsNext
<1> QED BY VfsInit, <1>1, <1>2, PTL DEF Spec

-----------------------------------------------------------------------------
(* The working directory *)

(* A path is beneath another when it begins with its names. *)
LEMMA BeneathNames ==
  ASSUME NEW p \in Seq(Word), NEW q \in Seq(Word)
  PROVE  N!Beneath(p, q) <=> Len(q) <= Len(p) /\ \A i \in 1..Len(q) : p[i] = q[i]
<1> DEFINE n == Len(q)
           s == SubSeq(p, 1, n)
<1>1. n \in Nat /\ Len(p) \in Nat /\ q \in Seq(Word)
  OBVIOUS
<1>2. CASE n <= Len(p)
  <2>1. \A i \in 1..n : i \in 1..Len(p)
    BY <1>1, <1>2
  <2>2. s \in Seq(Word) /\ Len(s) = n /\ \A i \in 1..n : s[i] = p[i]
    BY <1>1, <1>2
  <2>3. s = q <=> \A i \in 1..n : s[i] = q[i]
    <3> HIDE DEF s
    <3> QED BY <1>1, <2>2, SeqEqual DEF n
  <2> HIDE DEF s
  <2>4. s = q <=> \A i \in 1..n : p[i] = q[i]
    BY <2>2, <2>3
  <2> QED BY <1>2, <2>4 DEF N!Beneath, s
<1>3. CASE ~(n <= Len(p))
  BY <1>1, <1>3 DEF N!Beneath
<1> QED BY <1>2, <1>3

(* Of two paths on a volume, one that is beneath the other inside it is so. *)
LEMMA BeneathLocal ==
  ASSUME TableOK, NEW p \in Seq(Word), NEW q \in Seq(Word), NEW v \in Covers(p), v \in Covers(q),
         N!Beneath(Local(q, v), Local(p, v))
  PROVE  N!Beneath(q, p)
<1> DEFINE m == mounts[v].path
           k == Len(m)
           lp == Local(p, v)
           lq == Local(q, v)
<1>1. v \in Used /\ m \in Seq(Word) /\ N!Beneath(p, m) /\ N!Beneath(q, m)
  BY DEF Covers, TableOK, Used
<1>2. lp \in Seq(Word) /\ lq \in Seq(Word)
  BY <1>1, LocalType
<1>3. lp = SubSeq(p, k + 1, Len(p)) /\ lq = SubSeq(q, k + 1, Len(q))
  BY DEF Local
<1> HIDE DEF m, k, lp, lq
<1>4. k \in Nat /\ k <= Len(p) /\ k <= Len(q) /\ \A i \in 1..k : p[i] = m[i] /\ q[i] = m[i]
  BY <1>1, BeneathNames DEF k
<1>5. Len(lp) = Len(p) - k /\ \A i \in 1..Len(p) - k : lp[i] = p[k + i]
  BY <1>2, <1>3, <1>4, SMTT(30)
<1>6. Len(lq) = Len(q) - k /\ \A i \in 1..Len(q) - k : lq[i] = q[k + i]
  BY <1>2, <1>3, <1>4
<1>7. Len(lp) <= Len(lq) /\ \A i \in 1..Len(lp) : lq[i] = lp[i]
  BY <1>2, BeneathNames DEF lp, lq
<1>8. Len(p) <= Len(q)
  BY <1>4, <1>5, <1>6, <1>7
<1>9. \A i \in 1..Len(p) : q[i] = p[i]
  <2> TAKE i \in 1..Len(p)
  <2>1. CASE i <= k
    BY <1>4, <2>1
  <2>2. CASE i > k
    <3>1. /\ i - k \in 1..Len(p) - k /\ i - k \in 1..Len(q) - k /\ i - k \in 1..Len(lp)
          /\ k + (i - k) = i
      BY <1>4, <1>5, <1>8, <2>2
    <3> QED BY <1>5, <1>6, <1>7, <3>1
  <2> QED BY <1>4, <2>1, <2>2
<1> QED BY <1>8, <1>9, BeneathNames

(* A path without mount points or the working directory beneath it hides    *)
(* nothing of the working directory on its volume.                          *)
LEMMA WorkingElsewhere ==
  ASSUME VfsInv, NEW p \in Seq(Word), ~Protected(p), VolumeFor(p) # NoVolume,
         VolumeFor(working) # NoVolume,
         Vol(mounts[VolumeFor(p)].disk) = Vol(mounts[VolumeFor(working)].disk)
  PROVE  ~N!Beneath(Local(working, VolumeFor(working)), Local(p, VolumeFor(p)))
<1>1. working \in Seq(Word) /\ TableOK
  BY DEF VfsInv, MediaOK
<1>2. VolumeFor(p) \in Covers(p) /\ VolumeFor(p) \in Used
  BY <1>1, VolumeForCovers
<1>3. VolumeFor(working) \in Covers(working) /\ VolumeFor(working) \in Used
  BY <1>1, VolumeForCovers
<1>4. VolumeFor(working) = VolumeFor(p)
  BY <1>1, <1>2, <1>3 DEF TableOK
<1>5. ~N!Beneath(working, p)
  BY DEF Protected
<1> QED BY <1>1, <1>2, <1>3, <1>4, <1>5, BeneathLocal

(* The place of the working directory, when it is there *)
WorkingAt == <<Vol(mounts[VolumeFor(working)].disk), Local(working, VolumeFor(working))>>
Kept == VolumeFor(working) # NoVolume /\ WorkingAt[2] \in dirs[WorkingAt[1]]
          => WorkingAt[2] \in dirs'[WorkingAt[1]]

(* A rename takes away what is beneath its old name on its volume. *)
LEMMA MvKeeps ==
  ASSUME VfsInv, NEW p \in Seq(Word), NEW q \in Seq(Word), NEW acl \in BOOLEAN,
         NEW e0, Sound(e0), MvWithin(p, q, acl, e0), ~Protected(p)
  PROVE  Kept
<1>1. PICK e3 : /\ Sound(e3)
                /\ \E e1, e2, same, guarded :
                     MvEnd(p, q, acl, e1, e2, e3, RouteParent(e3, p), same, guarded)
  <2> DEFINE e1 == RouteParent(e0, p)
             e2 == RouteParent(e1, q)
             same == RoutedParent(e1, p) /\ RoutedParent(e2, q) /\ e2.cwd = e1.cwd
             e3 == IF acl THEN RouteParent(e2, AclFile) ELSE e2
             guarded == same /\ (acl => RoutedParent(e3, AclFile))
  <2>1. MvEnd(p, q, acl, e1, e2, e3, RouteParent(e3, p), same, guarded)
    BY MvEnds
  <2>2. Sound(e3)
    BY RouteSound, AclFilePath DEF VfsInv
  <2> HIDE DEF e1, e2, e3, same, guarded
  <2> QED BY <2>1, <2>2
<1> DEFINE e4 == RouteParent(e3, p)
           from == Entry(e4, p)
           moved(to) == {N!Replant(r, from, to) : r \in {s \in Shown(e4) : N!Beneath(s, from)}}
           D(to) == [dirs EXCEPT ![Vol(e4.selected)] = {r \in @ : ~N!Beneath(r, from)} \cup moved(to)]
<1>2. dirs' = dirs \/ (RoutedParent(e4, p) /\ \E to : dirs' = D(to))
  <2>1. PICK e1, e2, same, guarded : MvEnd(p, q, acl, e1, e2, e3, e4, same, guarded)
    BY <1>1
  <2> DEFINE to == Append(e4.cwd, q[Len(q)])
  <2>2. dirs' = dirs \/ (RoutedParent(e4, p) /\ dirs' = D(to))
    BY <2>1, Zenon DEF MvEnd, Commit
  <2> QED BY <2>2
<1>3. CASE dirs' = dirs
  BY <1>3 DEF Kept
<1>4. CASE RoutedParent(e4, p) /\ \E to : dirs' = D(to)
  <2>1. PICK to : dirs' = D(to)
    BY <1>4
  <2>2. TableOK /\ dirs \in [Volumes -> SUBSET Seq(Word)]
    BY DEF VfsInv, MediaOK
  <2>3. /\ from = Local(p, VolumeFor(p)) /\ Vol(e4.selected) = Vol(mounts[VolumeFor(p)].disk)
        /\ Vol(e4.selected) \in Volumes /\ VolumeFor(p) \in Used
    BY <1>1, <1>4, <2>2, EntryLocal
  <2>4. VolumeFor(p) # NoVolume
    BY <2>3 DEF Used, Table, NoVolume
  <2> HIDE DEF e4, from
  <2> SUFFICES ASSUME VolumeFor(working) # NoVolume, WorkingAt[2] \in dirs[WorkingAt[1]]
               PROVE  WorkingAt[2] \in dirs'[WorkingAt[1]]
    BY DEF Kept
  <2>5. CASE WorkingAt[1] = Vol(e4.selected)
    <3>1. ~N!Beneath(WorkingAt[2], from)
      BY <2>3, <2>4, <2>5, WorkingElsewhere DEF WorkingAt
    <3> DEFINE M == moved(to)
               x == WorkingAt[2]
               y == WorkingAt[1]
    <3> HIDE DEF M, x, y
    <3>2. dirs' = [dirs EXCEPT ![y] = {r \in dirs[y] : ~N!Beneath(r, from)} \cup M]
      BY <2>1, <2>5 DEF M, y
    <3>3. y \in Volumes /\ x \in dirs[y] /\ ~N!Beneath(x, from)
      BY <2>3, <2>5, <3>1 DEF x, y
    <3>4. x \in dirs'[y]
      BY <3>2, <3>3, <2>2
    <3> QED BY <3>4 DEF x, y
  <2>6. CASE WorkingAt[1] # Vol(e4.selected)
    <3> DEFINE M == moved(to)
               V == Vol(e4.selected)
               y == WorkingAt[1]
    <3> HIDE DEF M, V, y
    <3>1. dirs' = [dirs EXCEPT ![V] = {r \in dirs[V] : ~N!Beneath(r, from)} \cup M] /\ y # V
      BY <2>1, <2>6 DEF M, V, y
    <3>2. y \in Volumes
      <4>1. VolumeFor(working) \in Used
        BY <2>2, VolumeForCovers DEF VfsInv, MediaOK
      <4> QED BY <2>2, <4>1 DEF TableOK, WorkingAt, y
    <3>3. dirs'[y] = dirs[y]
      BY <3>1, <3>2, <2>2
    <3> QED BY <3>3 DEF y
  <2> QED BY <2>5, <2>6
<1> QED BY <1>2, <1>3, <1>4

(* mkdir adds, rmdir takes a directory away that is not protected. *)
LEMMA DirectoryKeeps ==
  ASSUME VfsInv, NEW p \in Seq(Word), Mkdir(p) \/ Rmdir(p)
  PROVE  Kept
<1> DEFINE r == RouteParent(eng, p)
           V == Vol(r.selected)
           x == Entry(r, p)
<1>1. TableOK /\ Sound(eng) /\ dirs \in [Volumes -> SUBSET Seq(Word)] /\ working \in Seq(Word)
  BY DEF VfsInv, MediaOK
<1>2. \/ dirs' = dirs
      \/ /\ RoutedParent(r, p)
         /\ \/ dirs' = [dirs EXCEPT ![V] = @ \cup {x}]
            \/ ~Protected(p) /\ dirs' = [dirs EXCEPT ![V] = @ \ {x}]
  BY DEF Mkdir, Rmdir, Commit
<1>3. RoutedParent(r, p) => /\ x = Local(p, VolumeFor(p)) /\ x \in Seq(Word) /\ V \in Volumes
                            /\ V = Vol(mounts[VolumeFor(p)].disk) /\ VolumeFor(p) \in Used
  BY <1>1, EntryLocal
<1> HIDE DEF r, V, x
<1> SUFFICES ASSUME VolumeFor(working) # NoVolume, WorkingAt[2] \in dirs[WorkingAt[1]]
             PROVE  WorkingAt[2] \in dirs'[WorkingAt[1]]
  BY DEF Kept
<1> DEFINE y == WorkingAt[1]
           z == WorkingAt[2]
<1>4. VolumeFor(working) \in Used
  BY <1>1, VolumeForCovers
<1>5. y \in Volumes /\ z \in Seq(Word)
  BY <1>1, <1>4, LocalType DEF TableOK, WorkingAt
<1>6. RoutedParent(r, p) /\ ~Protected(p) /\ y = V => z # x
  <2> SUFFICES ASSUME RoutedParent(r, p), ~Protected(p), y = V, z = x PROVE FALSE
    OBVIOUS
  <2>1. VolumeFor(p) # NoVolume
    BY <1>3 DEF Used, Table, NoVolume
  <2>2. ~N!Beneath(z, x)
    BY <1>3, <2>1, WorkingElsewhere DEF WorkingAt
  <2>3. N!Beneath(x, x)
    <3>1. x \in Seq(Word)
      BY <1>3
    <3> QED BY <3>1, BeneathNames
  <2> QED BY <2>2, <2>3
<1>7. z \in dirs[y]
  OBVIOUS
<1> HIDE DEF y, z
<1>8. z \in dirs'[y]
  <2>1. CASE dirs' = dirs
    BY <1>7, <2>1
  <2>2. CASE RoutedParent(r, p) /\ dirs' = [dirs EXCEPT ![V] = @ \cup {x}]
    BY <1>1, <1>3, <1>5, <1>7, <2>2
  <2>3. CASE RoutedParent(r, p) /\ ~Protected(p) /\ dirs' = [dirs EXCEPT ![V] = @ \ {x}]
    BY <1>1, <1>3, <1>5, <1>6, <1>7, <2>3
  <2> QED BY <1>2, <2>1, <2>2, <2>3
<1> QED BY <1>8 DEF y, z

(* Formatting a volume touches none that is mounted. *)
LEMMA FormatKeeps ==
  ASSUME VfsInv, WholeDevices, NEW name \in Names, Format(name)
  PROVE  Kept
<1> DEFINE s == Selection(eng, name, TRUE)
           v == Vol(s.disk)
           y == WorkingAt[1]
<1>1. \/ dirs' = dirs
      \/ /\ s.ok /\ \A i \in Used : ~Overlap(Vol(mounts[i].disk), v)
         /\ dirs' = [dirs EXCEPT ![v] = {Root}]
  BY DEF Format, Formatted, HalfFormatted
<1>2. s.ok => v \in Volumes
  BY SelectionWhole
<1>3. TableOK /\ dirs \in [Volumes -> SUBSET Seq(Word)] /\ working \in Seq(Word)
  BY DEF VfsInv, MediaOK
<1> HIDE DEF s, v
<1> SUFFICES ASSUME VolumeFor(working) # NoVolume
             PROVE  WorkingAt[2] \in dirs[y] => WorkingAt[2] \in dirs'[y]
  BY DEF Kept
<1>4. VolumeFor(working) \in Used
  BY <1>3, VolumeForCovers
<1>5. y \in Volumes /\ y = Vol(mounts[VolumeFor(working)].disk)
  BY <1>3, <1>4 DEF TableOK, WorkingAt
<1>6. (\A i \in Used : ~Overlap(Vol(mounts[i].disk), v)) => y # v
  BY <1>4, <1>5 DEF Overlap
<1> HIDE DEF y
<1>7. dirs'[y] = dirs[y]
  BY <1>1, <1>2, <1>3, <1>5, <1>6
<1> QED BY <1>7

(* No step takes the working directory away. *)
LEMMA NextKeeps == ASSUME VfsInv, WholeDevices, [Next]_vars PROVE Kept
<1>1. ASSUME dirs' = dirs PROVE Kept
  BY <1>1 DEF Kept
<1>2. ASSUME NEW p \in Paths, Mkdir(p) \/ Rmdir(p) \/ Cd(p) \/ Access(p) PROVE Kept
  <2>1. CASE Mkdir(p) \/ Rmdir(p)
    BY <2>1, PathsType, DirectoryKeeps
  <2>2. CASE Cd(p) \/ Access(p)
    BY <1>1, <2>2 DEF Cd, Access, mediaVars
  <2> QED BY <1>2, <2>1, <2>2
<1>3. ASSUME NEW p \in Paths, NEW q \in Paths, NEW acl \in BOOLEAN, Mv(p, q, acl) PROVE Kept
  <2>1. Sound(Route(eng, AclFile)) /\ p \in Seq(Word) /\ q \in Seq(Word)
    BY RouteSound, AclFilePath, PathsType DEF VfsInv
  <2>2. CASE ~Protected(p) /\ MvWithin(p, q, acl, Route(eng, AclFile))
    BY <2>1, <2>2, MvKeeps
  <2> QED BY <1>1, <1>3, <2>2 DEF Mv
<1>4. ASSUME NEW name \in Names, Format(name) PROVE Kept
  BY <1>4, FormatKeeps
<1>5. ASSUME NEW p, NEW q, WriteFile(q, p) PROVE Kept
  BY <1>1, <1>5 DEF WriteFile, Commit
<1>6. ASSUME NEW name, NEW p, Mount(name, p) PROVE Kept
  BY <1>1, <1>6 DEF Mount, mediaVars
<1>7. ASSUME NEW p, NEW named, Unmount(p, named) PROVE Kept
  BY <1>1, <1>7 DEF Unmount, mediaVars
<1>8. ASSUME NEW d, NEW P, Fdisk(d, P) \/ Unplug(d) \/ Plug(d) PROVE Kept
  BY <1>1, <1>8 DEF Fdisk, Unplug, Plug, mediaVars
<1>9. CASE Sync
  BY <1>1, <1>9 DEF Sync, mediaVars
<1>10. CASE UNCHANGED vars
  BY <1>1, <1>10 DEF vars, mediaVars
<1> QED BY <1>2, <1>3, <1>4, <1>5, <1>6, <1>7, <1>8, <1>9, <1>10 DEF Next

(* No mkdir, rmdir, mv or mkfs takes the working directory away, on         *)
(* whichever volume it is (protects_mount of vfs.inc).                      *)
THEOREM WorkingKeptAlways == ASSUME WholeDevices PROVE Spec => WorkingKept
<1> DEFINE A == (dirs' # dirs /\ UNCHANGED <<working, mounts>> /\ working \in Seen)
                  => working \in Seen'
<1>1. ASSUME VfsInv, [Next]_vars PROVE A
  <2> SUFFICES ASSUME UNCHANGED <<working, mounts>>, working \in Seen PROVE working \in Seen'
    OBVIOUS
  <2>1. VolumeFor(working) # NoVolume /\ WorkingAt[2] \in dirs[WorkingAt[1]] /\ working \in Paths
    BY DEF Seen, WorkingAt
  <2>2. WorkingAt[2] \in dirs'[WorkingAt[1]]
    BY <1>1, <2>1, NextKeeps DEF Kept
  <2>3. Used' = Used
    BY DEF Used
  <2>4. Covers(working)' = Covers(working)
    BY <2>3 DEF Covers
  <2>5. VolumeFor(working)' = VolumeFor(working)
    BY <2>4 DEF VolumeFor
  <2>6. WorkingAt' = WorkingAt
    BY <2>5 DEF WorkingAt, Vol, Local
  <2>7. VolumeFor(working)' # NoVolume /\ WorkingAt'[2] \in dirs'[WorkingAt'[1]]
    BY <2>1, <2>2, <2>5, <2>6
  <2> QED BY <2>1, <2>7 DEF Seen, WorkingAt
<1>2. VfsInv /\ [Next]_vars => VfsInv'
  BY VfsNext
<1>3. VfsInv /\ [Next]_vars => [A]_vars
  BY <1>1
<1> QED BY VfsInit, <1>2, <1>3, PTL DEF Spec, WorkingKept
-----------------------------------------------------------------------------
(* Paths *)

(* What is left of a path below a directory above it *)
Rel(x, m) == SubSeq(x, Len(m) + 1, Len(x))

LEMMA BeneathOrder ==
  ASSUME NEW x \in Seq(Word), NEW m \in Seq(Word), NEW k \in Seq(Word), N!Beneath(x, m)
  PROVE  /\ N!Beneath(x, k) /\ Len(k) <= Len(m) => N!Beneath(m, k)
         /\ N!Beneath(m, k) => N!Beneath(x, k)
         /\ Len(x) = Len(m) => x = m
<1>1. /\ N!Beneath(x, m) <=> Len(m) <= Len(x) /\ \A i \in 1..Len(m) : x[i] = m[i]
      /\ N!Beneath(x, k) <=> Len(k) <= Len(x) /\ \A i \in 1..Len(k) : x[i] = k[i]
      /\ N!Beneath(m, k) <=> Len(k) <= Len(m) /\ \A i \in 1..Len(k) : m[i] = k[i]
  BY BeneathNames
<1>2. Len(x) \in Nat /\ Len(m) \in Nat /\ Len(k) \in Nat
  OBVIOUS
<1>3. Len(x) = Len(m) => x = m
  BY <1>1, SeqEqual
<1> QED BY <1>1, <1>2, <1>3

LEMMA BeneathSelf == ASSUME NEW x \in Seq(Word) PROVE N!Beneath(x, x) /\ N!Beneath(x, <<>>)
<1>1. <<>> \in Seq(Word) /\ Len(<<>>) = 0 /\ Len(x) \in Nat
  OBVIOUS
<1>2. N!Beneath(x, x)
  BY <1>1, BeneathNames
<1>3. PICK o : o = <<>>
  OBVIOUS
<1>4. o \in Seq(Word) /\ Len(o) = 0
  BY <1>1, <1>3
<1>5. N!Beneath(x, o)
  <2>1. Len(o) <= Len(x) /\ \A i \in 1..Len(o) : x[i] = o[i]
    BY <1>1, <1>4
  <2> QED BY <1>4, <2>1, BeneathNames
<1> QED BY <1>2, <1>3, <1>5

(* The names of the rest, and the rest of a path put together again *)
LEMMA RelNames ==
  ASSUME NEW x \in Seq(Word), NEW m \in Seq(Word), N!Beneath(x, m)
  PROVE  /\ Rel(x, m) \in Seq(Word) /\ Len(Rel(x, m)) = Len(x) - Len(m)
         /\ \A i \in 1..Len(x) - Len(m) : Rel(x, m)[i] = x[Len(m) + i]
         /\ \A i \in 1..Len(m) : x[i] = m[i]
         /\ Len(m) \in Nat /\ Len(x) \in Nat /\ Len(m) <= Len(x)
<1> DEFINE k == Len(m)
           n == Len(x)
<1>1. k \in Nat /\ n \in Nat /\ k <= n /\ \A i \in 1..k : x[i] = m[i]
  BY BeneathNames
<1>2. SubSeq(x, k + 1, n) \in Seq(Word)
  BY <1>1, SubPath
<1>3. Len(SubSeq(x, k + 1, n)) = n - k /\ \A i \in 1..n - k : SubSeq(x, k + 1, n)[i] = x[k + i]
  <2> HIDE DEF k
  <2> QED BY <1>1, <1>2, SMTT(30)
<1> QED BY <1>1, <1>2, <1>3 DEF Rel

LEMMA Joined ==
  ASSUME NEW m \in Seq(Word), NEW y \in Seq(Word)
  PROVE  /\ m \o y \in Seq(Word) /\ N!Beneath(m \o y, m) /\ Rel(m \o y, m) = y
         /\ \A x \in Seq(Word) : N!Beneath(x, m) /\ Rel(x, m) = y => x = m \o y
<1> DEFINE z == m \o y
<1>1. /\ z \in Seq(Word) /\ Len(z) = Len(m) + Len(y) /\ Len(m) \in Nat /\ Len(y) \in Nat
      /\ \A i \in 1..Len(m) : z[i] = m[i]
      /\ \A i \in 1..Len(y) : z[Len(m) + i] = y[i]
  <2>1. /\ z \in Seq(Word) /\ Len(z) = Len(m) + Len(y) /\ Len(m) \in Nat /\ Len(y) \in Nat
        /\ \A i \in 1..Len(m) + Len(y) : z[i] = IF i <= Len(m) THEN m[i] ELSE y[i - Len(m)]
    OBVIOUS
  <2> HIDE DEF z
  <2>2. \A i \in 1..Len(m) : z[i] = m[i]
    BY <2>1
  <2>3. ASSUME NEW i \in 1..Len(y) PROVE z[Len(m) + i] = y[i]
    <3>1. /\ Len(m) + i \in 1..Len(m) + Len(y) /\ ~(Len(m) + i <= Len(m))
          /\ (Len(m) + i) - Len(m) = i
      BY <2>1
    <3> QED BY <2>1, <3>1
  <2> QED BY <2>1, <2>2, <2>3
<1> HIDE DEF z
<1>2. N!Beneath(z, m)
  BY <1>1, BeneathNames
<1>3. Rel(z, m) = y
  <2>1. Rel(z, m) \in Seq(Word) /\ Len(Rel(z, m)) = Len(y)
        /\ \A i \in 1..Len(y) : Rel(z, m)[i] = z[Len(m) + i]
    <3>1. /\ Rel(z, m) \in Seq(Word) /\ Len(Rel(z, m)) = Len(z) - Len(m)
          /\ \A i \in 1..Len(z) - Len(m) : Rel(z, m)[i] = z[Len(m) + i]
      BY <1>1, <1>2, RelNames
    <3>2. Len(z) - Len(m) = Len(y)
      BY <1>1
    <3> QED BY <3>1, <3>2
  <2> QED BY <1>1, <2>1, SeqEqual
<1>4. ASSUME NEW x \in Seq(Word), N!Beneath(x, m), Rel(x, m) = y PROVE x = z
  <2>1. /\ Len(y) = Len(x) - Len(m) /\ Len(x) \in Nat
        /\ \A i \in 1..Len(y) : y[i] = x[Len(m) + i]
        /\ \A i \in 1..Len(m) : x[i] = m[i]
    <3>1. /\ Len(Rel(x, m)) = Len(x) - Len(m) /\ Len(x) \in Nat
          /\ \A i \in 1..Len(x) - Len(m) : Rel(x, m)[i] = x[Len(m) + i]
          /\ \A i \in 1..Len(m) : x[i] = m[i]
      BY <1>4, RelNames
    <3>2. Len(y) = Len(x) - Len(m)
      BY <1>4, <3>1
    <3> QED BY <1>4, <3>1, <3>2
  <2>2. Len(x) = Len(z)
    BY <1>1, <2>1
  <2>3. ASSUME NEW i \in 1..Len(x) PROVE x[i] = z[i]
    <3>1. CASE i <= Len(m)
      BY <1>1, <2>1, <3>1
    <3>2. CASE ~(i <= Len(m))
      <4>1. i - Len(m) \in 1..Len(y) /\ Len(m) + (i - Len(m)) = i
        BY <1>1, <2>1, <3>2
      <4> QED BY <1>1, <2>1, <4>1
    <3> QED BY <3>1, <3>2
  <2> QED BY <1>1, <2>2, <2>3, SeqEqual
<1> QED BY <1>1, <1>2, <1>3, <1>4 DEF z

Associates(a, b, c) == (a \o b) \o c = a \o (b \o c) /\ a \o b \in Seq(Word) /\ b \o c \in Seq(Word)

LEMMA Assoc ==
  ASSUME NEW a \in Seq(Word), NEW b \in Seq(Word), NEW c \in Seq(Word)
  PROVE  Associates(a, b, c)
<1> DEFINE x == a \o b
           y == b \o c
           l == x \o c
           r == a \o y
<1>1. x \in Seq(Word) /\ y \in Seq(Word)
  BY Joined
<1>2. /\ Len(x) = Len(a) + Len(b) /\ Len(y) = Len(b) + Len(c)
      /\ \A i \in 1..Len(a) + Len(b) : x[i] = IF i <= Len(a) THEN a[i] ELSE b[i - Len(a)]
      /\ \A i \in 1..Len(b) + Len(c) : y[i] = IF i <= Len(b) THEN b[i] ELSE c[i - Len(b)]
  OBVIOUS
<1> HIDE DEF x, y
<1>3. /\ l \in Seq(Word) /\ r \in Seq(Word)
      /\ Len(l) = Len(x) + Len(c) /\ Len(r) = Len(a) + Len(y)
      /\ \A i \in 1..Len(x) + Len(c) : l[i] = IF i <= Len(x) THEN x[i] ELSE c[i - Len(x)]
      /\ \A i \in 1..Len(a) + Len(y) : r[i] = IF i <= Len(a) THEN a[i] ELSE y[i - Len(a)]
  BY <1>1
<1> HIDE DEF l, r
<1>4. Len(a) \in Nat /\ Len(b) \in Nat /\ Len(c) \in Nat
  OBVIOUS
<1>5. Len(l) = Len(r)
  BY <1>2, <1>3, <1>4
<1>6. ASSUME NEW i \in 1..Len(l) PROVE l[i] = r[i]
  <2>0. i \in 1..Len(x) + Len(c) /\ i \in 1..Len(a) + Len(y)
    BY <1>3, <1>5
  <2>1. CASE i <= Len(a)
    <3>1. i <= Len(x) /\ i \in 1..Len(a) + Len(b)
      BY <1>2, <1>4, <2>1
    <3> QED BY <1>2, <1>3, <2>0, <2>1, <3>1
  <2>2. CASE i > Len(a) /\ i <= Len(a) + Len(b)
    <3>1. /\ i <= Len(x) /\ i \in 1..Len(a) + Len(b) /\ ~(i <= Len(a))
          /\ i - Len(a) \in 1..Len(b) + Len(c) /\ i - Len(a) <= Len(b)
      BY <1>2, <1>4, <2>2
    <3> QED BY <1>2, <1>3, <2>0, <3>1
  <2>3. CASE i > Len(a) + Len(b)
    <3>1. /\ ~(i <= Len(x)) /\ ~(i <= Len(a)) /\ ~(i - Len(a) <= Len(b))
          /\ i - Len(a) \in 1..Len(b) + Len(c) /\ (i - Len(a)) - Len(b) = i - Len(x)
      BY <1>2, <1>3, <1>4, <2>0, <2>3
    <3> QED BY <1>2, <1>3, <2>0, <3>1
  <2> QED BY <1>4, <2>1, <2>2, <2>3
<1>7. l = r
  BY <1>3, <1>5, <1>6, SeqEqual
<1> QED BY <1>1, <1>7 DEF Associates, l, r, x, y

LEMMA JoinRel ==
  ASSUME NEW x \in Seq(Word), NEW m \in Seq(Word), N!Beneath(x, m)
  PROVE  Rel(x, m) \in Seq(Word) /\ x = m \o Rel(x, m)
<1>1. Rel(x, m) \in Seq(Word)
  BY RelNames
<1> QED BY <1>1, Joined

LEMMA RelJoin ==
  ASSUME NEW m \in Seq(Word), NEW q \in Seq(Word), NEW y \in Seq(Word), N!Beneath(q, m)
  PROVE  N!Beneath(q \o y, m) /\ Rel(q \o y, m) = Rel(q, m) \o y
<1>1. Rel(q, m) \in Seq(Word) /\ q = m \o Rel(q, m)
  BY JoinRel
<1>2. PICK k \in Seq(Word) : k = Rel(q, m)
  BY <1>1
<1>3. q \o y = m \o (k \o y) /\ k \o y \in Seq(Word)
  <2>1. (m \o k) \o y = m \o (k \o y) /\ k \o y \in Seq(Word)
    <3>1. Associates(m, k, y)
      BY Assoc
    <3> QED BY <3>1, Zenon DEF Associates
  <2>2. q = m \o k
    BY <1>1, <1>2
  <2> QED BY <2>1, <2>2, Zenon
<1>4. N!Beneath(m \o (k \o y), m) /\ Rel(m \o (k \o y), m) = k \o y
  BY <1>3, Joined
<1> QED BY <1>2, <1>3, <1>4

(* On one volume, paths are ordered as what is left of them. *)
LEMMA RelOrder ==
  ASSUME NEW m \in Seq(Word), NEW x \in Seq(Word), NEW p \in Seq(Word),
         N!Beneath(x, m), N!Beneath(p, m)
  PROVE  /\ N!Beneath(x, p) <=> N!Beneath(Rel(x, m), Rel(p, m))
         /\ N!Beneath(x, p) => Rel(Rel(x, m), Rel(p, m)) = Rel(x, p)
         /\ Rel(x, m) = Rel(p, m) => x = p
<1>0. /\ Rel(x, m) \in Seq(Word) /\ x = m \o Rel(x, m)
      /\ Rel(p, m) \in Seq(Word) /\ p = m \o Rel(p, m)
  BY JoinRel
<1>1. ASSUME N!Beneath(x, p)
      PROVE  N!Beneath(Rel(x, m), Rel(p, m)) /\ Rel(Rel(x, m), Rel(p, m)) = Rel(x, p)
  <2>1. PICK y \in Seq(Word) : y = Rel(x, p) /\ x = p \o y
    BY <1>1, JoinRel
  <2>2. Rel(x, m) = Rel(p, m) \o y
    <3>1. Rel(p \o y, m) = Rel(p, m) \o y
      BY RelJoin
    <3> QED BY <2>1, <3>1, Zenon
  <2> QED BY <1>0, <2>1, <2>2, Joined
<1>2. ASSUME N!Beneath(Rel(x, m), Rel(p, m)) PROVE N!Beneath(x, p)
  <2>1. PICK y \in Seq(Word) : Rel(x, m) = Rel(p, m) \o y
    <3>1. PICK a \in Seq(Word), b \in Seq(Word) : a = Rel(x, m) /\ b = Rel(p, m)
      BY <1>0
    <3>2. Rel(a, b) \in Seq(Word) /\ a = b \o Rel(a, b)
      BY <1>2, <3>1, JoinRel
    <3> QED BY <3>1, <3>2
  <2>2. m \o (Rel(p, m) \o y) = (m \o Rel(p, m)) \o y
    <3>1. Associates(m, Rel(p, m), y)
      BY <1>0, Assoc
    <3> QED BY <3>1, Zenon DEF Associates
  <2>3. x = p \o y
    BY <1>0, <2>1, <2>2
  <2> QED BY <2>3, Joined
<1> QED BY <1>0, <1>1, <1>2

LEMMA RelRoot ==
  ASSUME NEW x \in Seq(Word), NEW m \in Seq(Word), N!Beneath(x, m)
  PROVE  /\ Rel(x, m) = <<>> <=> x = m
         /\ Rel(x, m) # <<>> => Len(m) < Len(x)
<1>1. /\ Rel(x, m) \in Seq(Word) /\ Len(Rel(x, m)) = Len(x) - Len(m)
      /\ Len(m) \in Nat /\ Len(x) \in Nat /\ Len(m) <= Len(x)
  BY RelNames
<1>2. Rel(x, m) = <<>> <=> Len(Rel(x, m)) = 0
  BY <1>1, EmptySeq
<1>3. Len(x) = Len(m) => x = m
  BY BeneathOrder
<1> QED BY <1>1, <1>2, <1>3

LEMMA ParentIs ==
  ASSUME NEW y \in Seq(Word)
  PROVE  /\ y # <<>> => /\ N!Parent(y) \in Seq(Word) /\ y[Len(y)] \in Word
                        /\ y = Append(N!Parent(y), y[Len(y)])
         /\ \A a \in Word : N!Parent(Append(y, a)) = y
<1>1. ASSUME y # <<>>
      PROVE  /\ N!Parent(y) \in Seq(Word) /\ y[Len(y)] \in Word /\ y = Append(N!Parent(y), y[Len(y)])
  <2>1. Len(y) \in Nat \ {0}
    BY <1>1, EmptySeq
  <2> DEFINE z == SubSeq(y, 1, Len(y) - 1)
  <2>2. z \in Seq(Word) /\ y[Len(y)] \in Word
    BY <2>1
  <2>3. Append(z, y[Len(y)]) = y
    BY <2>1
  <2> QED BY <2>2, <2>3 DEF N!Parent
<1>2. ASSUME NEW a \in Word PROVE N!Parent(Append(y, a)) = y
  <2> DEFINE z == Append(y, a)
  <2>1. Len(z) = Len(y) + 1 /\ z \in Seq(Word) /\ Len(y) \in Nat /\ \A i \in 1..Len(y) : z[i] = y[i]
    BY AppendProperties
  <2> HIDE DEF z
  <2>2. SubSeq(z, 1, Len(y)) = y
    <3>2. SubSeq(z, 1, Len(y)) \in Seq(Word) /\ Len(SubSeq(z, 1, Len(y))) = Len(y)
          /\ \A i \in 1..Len(y) : SubSeq(z, 1, Len(y))[i] = z[i]
      BY <2>1
    <3> QED BY <2>1, <3>2, SeqEqual
  <2>3. Len(z) - 1 = Len(y)
    BY <2>1
  <2> QED BY <2>2, <2>3 DEF N!Parent, z
<1> QED BY <1>1, <1>2

(* The directory that holds p, if p is not a mount point itself, is on the  *)
(* same volume.                                                             *)
LEMMA RelParent ==
  ASSUME NEW m \in Seq(Word), NEW p \in Seq(Word), N!Beneath(p, m), Rel(p, m) # <<>>
  PROVE  /\ N!Parent(p) \in Seq(Word) /\ N!Beneath(N!Parent(p), m) /\ N!Beneath(p, N!Parent(p))
         /\ N!Parent(Rel(p, m)) \in Seq(Word) /\ N!Parent(p) = m \o N!Parent(Rel(p, m))
         /\ Rel(N!Parent(p), m) = N!Parent(Rel(p, m))
<1>1. Rel(p, m) \in Seq(Word) /\ p = m \o Rel(p, m)
  BY JoinRel
<1>2. PICK z \in Seq(Word), a \in Word : z = N!Parent(Rel(p, m)) /\ Rel(p, m) = Append(z, a)
  BY <1>1, ParentIs
<1>3. <<a>> \in Seq(Word) /\ Append(z, a) = z \o <<a>>
  BY AppendIsConcat
<1>4. m \o z \in Seq(Word) /\ m \o (z \o <<a>>) = (m \o z) \o <<a>>
  <2>1. Associates(m, z, <<a>>)
    BY <1>3, Assoc
  <2> QED BY <2>1, Zenon DEF Associates
<1>5. (m \o z) \o <<a>> = Append(m \o z, a)
  BY <1>4, AppendIsConcat
<1>6. p = Append(m \o z, a) /\ p = (m \o z) \o <<a>>
  BY <1>1, <1>2, <1>3, <1>4, <1>5
<1>7. N!Parent(p) = m \o z
  BY <1>4, <1>6, ParentIs
<1>8. N!Beneath(m \o z, m) /\ Rel(m \o z, m) = z
  BY Joined
<1>9. N!Beneath(p, m \o z)
  <2>1. N!Beneath((m \o z) \o <<a>>, m \o z)
    BY <1>3, <1>4, Joined, Zenon
  <2> QED BY <1>6, <2>1, Zenon
<1> QED BY <1>2, <1>4, <1>7, <1>8, <1>9

(* Replant moves what is below p to q. *)
LEMMA ReplantIs ==
  ASSUME NEW r \in Seq(Word), NEW p \in Seq(Word), NEW q \in Seq(Word), N!Beneath(r, p)
  PROVE  LET s == N!Replant(r, p, q)
         IN  /\ s \in Seq(Word) /\ N!Beneath(s, q)
             /\ N!Replant(s, q, p) = r
             /\ \A m \in Seq(Word) : N!Beneath(p, m) /\ N!Beneath(q, m)
                  => N!Beneath(s, m) /\ Rel(s, m) = N!Replant(Rel(r, m), Rel(p, m), Rel(q, m))
<1> DEFINE s == N!Replant(r, p, q)
<1>1. PICK y \in Seq(Word) : y = Rel(r, p) /\ r = p \o y
  BY JoinRel
<1>2. \A x, u, v : N!Replant(x, u, v) = v \o Rel(x, u)
  BY DEF N!Replant, Rel
<1>3. s = q \o y
  BY <1>1, <1>2
<1> HIDE DEF s
<1>4. s \in Seq(Word) /\ N!Beneath(s, q) /\ Rel(s, q) = y
  BY <1>3, Joined
<1>5. N!Replant(s, q, p) = r
  BY <1>1, <1>2, <1>4
<1>6. ASSUME NEW m \in Seq(Word), N!Beneath(p, m), N!Beneath(q, m)
      PROVE  N!Beneath(s, m) /\ Rel(s, m) = N!Replant(Rel(r, m), Rel(p, m), Rel(q, m))
  <2>1. N!Beneath(s, m) /\ Rel(s, m) = Rel(q, m) \o y
    BY <1>3, <1>6, RelJoin
  <2>2. N!Beneath(r, m)
    BY <1>6, BeneathOrder
  <2>3. Rel(Rel(r, m), Rel(p, m)) = y
    <3>1. Rel(Rel(r, m), Rel(p, m)) = Rel(r, p)
      BY <1>6, <2>2, RelOrder
    <3> QED BY <1>1, <3>1
  <2> QED BY <1>2, <2>1, <2>3
<1> QED BY <1>4, <1>5, <1>6 DEF s

-----------------------------------------------------------------------------
(* The tree that the volumes make up.  A gives the volume at each mount     *)
(* point and D the directories of each volume; a path leads to the longest  *)
(* mount point above it.                                                    *)

Over(A, x, m) == /\ m \in DOMAIN A /\ N!Beneath(x, m)
                 /\ \A k \in DOMAIN A : N!Beneath(x, k) => Len(k) <= Len(m)
Place(A, D, x) == \E m \in DOMAIN A : Over(A, x, m) /\ Rel(x, m) \in D[A[m]]

Volumed(A, D) ==
  /\ DOMAIN A \in SUBSET Seq(Word) /\ \A m \in DOMAIN A : A[m] \in Volumes
  /\ \A m, k \in DOMAIN A : A[m] = A[k] => m = k
  /\ D \in [Volumes -> SUBSET Seq(Word)]

LEMMA OverOne ==
  ASSUME NEW A, DOMAIN A \in SUBSET Seq(Word), NEW x \in Seq(Word),
         NEW m, NEW k, Over(A, x, m), Over(A, x, k)
  PROVE  m = k
<1>1. m \in Seq(Word) /\ k \in Seq(Word) /\ N!Beneath(x, m) /\ N!Beneath(x, k)
  BY DEF Over
<1>2. Len(m) <= Len(k) /\ Len(k) <= Len(m) /\ Len(m) \in Nat /\ Len(k) \in Nat
  BY <1>1 DEF Over
<1>3. N!Beneath(m, k) /\ Len(m) = Len(k)
  BY <1>1, <1>2, BeneathOrder
<1> QED BY <1>1, <1>3, BeneathOrder

LEMMA PlaceAt ==
  ASSUME NEW A, DOMAIN A \in SUBSET Seq(Word), NEW D, NEW x \in Seq(Word), NEW m, Over(A, x, m)
  PROVE  Place(A, D, x) <=> Rel(x, m) \in D[A[m]]
<1>1. \A k : Over(A, x, k) => k = m
  BY OverOne
<1>2. m \in DOMAIN A
  BY DEF Over
<1> QED BY <1>1, <1>2 DEF Place

(* A change of one volume *)
LEMMA PlaceOn ==
  ASSUME NEW A, NEW D, Volumed(A, D), NEW m \in DOMAIN A, NEW T,
         NEW E, E = [D EXCEPT ![A[m]] = T], NEW x \in Seq(Word)
  PROVE  /\ Over(A, x, m) => (Place(A, E, x) <=> Rel(x, m) \in T)
         /\ ~Over(A, x, m) => (Place(A, E, x) <=> Place(A, D, x))
<1>1. DOMAIN A \in SUBSET Seq(Word) /\ \A k \in DOMAIN A : A[k] \in DOMAIN D /\ (A[k] = A[m] => k = m)
  BY DEF Volumed
<1>2. E[A[m]] = T /\ \A k \in DOMAIN A : k # m => E[A[k]] = D[A[k]]
  BY <1>1
<1>3. ASSUME Over(A, x, m) PROVE Place(A, E, x) <=> Rel(x, m) \in T
  BY <1>1, <1>2, <1>3, PlaceAt
<1>4. ASSUME ~Over(A, x, m) PROVE Place(A, E, x) <=> Place(A, D, x)
  BY <1>2, <1>4, Zenon DEF Place
<1> QED BY <1>3, <1>4

(* What lies below p is where p is, unless a mount point is in between. *)
LEMMA OverBelow ==
  ASSUME NEW A, DOMAIN A \in SUBSET Seq(Word), NEW x \in Seq(Word), NEW p \in Seq(Word), NEW m,
         Over(A, p, m), N!Beneath(x, p), \A k \in DOMAIN A : ~(N!Beneath(k, p) /\ N!Beneath(x, k))
  PROVE  Over(A, x, m)
<1>1. m \in DOMAIN A /\ m \in Seq(Word) /\ N!Beneath(p, m)
  BY DEF Over
<1>2. N!Beneath(x, m)
  BY <1>1, BeneathOrder
<1>3. ASSUME NEW k \in DOMAIN A, N!Beneath(x, k) PROVE Len(k) <= Len(m)
  <2>1. k \in Seq(Word) /\ Len(k) \in Nat /\ Len(p) \in Nat /\ ~N!Beneath(k, p)
    BY <1>3
  <2>2. ~(Len(p) <= Len(k))
    BY <1>3, <2>1, BeneathOrder
  <2>3. N!Beneath(p, k)
    BY <1>3, <2>1, <2>2, BeneathOrder
  <2> QED BY <2>3 DEF Over
<1> QED BY <1>1, <1>2, <1>3 DEF Over

(* and a mount point in between takes it. *)
LEMMA OverElse ==
  ASSUME NEW A, DOMAIN A \in SUBSET Seq(Word), NEW x \in Seq(Word), NEW p \in Seq(Word), NEW m,
         Over(A, p, m), Rel(p, m) # <<>>, Over(A, x, m), NEW k \in DOMAIN A, N!Beneath(k, p)
  PROVE  ~N!Beneath(x, k)
<1>1. m \in Seq(Word) /\ N!Beneath(p, m) /\ k \in Seq(Word)
  BY DEF Over
<1>2. Len(m) < Len(p) /\ Len(m) \in Nat /\ Len(p) \in Nat
  BY <1>1, RelRoot
<1>3. Len(p) <= Len(k) /\ Len(k) \in Nat
  BY <1>1, BeneathNames
<1>4. N!Beneath(x, k) => Len(k) <= Len(m)
  BY DEF Over
<1> QED BY <1>2, <1>3, <1>4

LEMMA OverParent ==
  ASSUME NEW A, DOMAIN A \in SUBSET Seq(Word), NEW p \in Seq(Word), NEW m,
         Over(A, p, m), Rel(p, m) # <<>>
  PROVE  Over(A, N!Parent(p), m)
<1>1. m \in DOMAIN A /\ m \in Seq(Word) /\ N!Beneath(p, m)
  BY DEF Over
<1>2. N!Parent(p) \in Seq(Word) /\ N!Beneath(N!Parent(p), m) /\ N!Beneath(p, N!Parent(p))
  BY <1>1, RelParent
<1>3. ASSUME NEW k \in DOMAIN A, N!Beneath(N!Parent(p), k) PROVE N!Beneath(p, k)
  BY <1>2, <1>3, BeneathOrder
<1> QED BY <1>1, <1>2, <1>3 DEF Over

(* fs_mkdir(), fs_rmdir() and fs_mv(), each on the volume of its path *)
Plus(D, v, y) == [D EXCEPT ![v] = @ \cup {y}]
Minus(D, v, y) == [D EXCEPT ![v] = @ \ {y}]

LEMMA PlaceAdd ==
  ASSUME NEW A, NEW D, Volumed(A, D), NEW p \in Seq(Word), NEW m, Over(A, p, m),
         NEW E, E = Plus(D, A[m], Rel(p, m)), NEW x \in Seq(Word)
  PROVE  Place(A, E, x) <=> Place(A, D, x) \/ x = p
<1> DEFINE T == D[A[m]] \cup {Rel(p, m)}
<1>1. m \in DOMAIN A /\ DOMAIN A \in SUBSET Seq(Word) /\ A[m] \in DOMAIN D
  BY DEF Over, Volumed
<1>2. E = [D EXCEPT ![A[m]] = T]
  BY <1>1 DEF Plus
<1>t. \A y : y \in T <=> y \in D[A[m]] \/ y = Rel(p, m)
  OBVIOUS
<1> HIDE DEF T
<1>3. CASE Over(A, x, m)
  <2>0. Place(A, E, x) <=> Rel(x, m) \in T
    BY <1>1, <1>2, <1>3, PlaceOn
  <2>1. Place(A, E, x) <=> Rel(x, m) \in D[A[m]] \/ Rel(x, m) = Rel(p, m)
    BY <1>t, <2>0
  <2>2. Rel(x, m) = Rel(p, m) <=> x = p
    BY <1>1, <1>3, RelOrder DEF Over
  <2>3. Place(A, D, x) <=> Rel(x, m) \in D[A[m]]
    BY <1>1, <1>3, PlaceAt
  <2> QED BY <2>1, <2>2, <2>3
<1>4. CASE ~Over(A, x, m)
  <2>1. Place(A, E, x) <=> Place(A, D, x)
    BY <1>1, <1>2, <1>4, PlaceOn
  <2> QED BY <1>4, <2>1
<1> QED BY <1>3, <1>4

LEMMA PlaceRemove ==
  ASSUME NEW A, NEW D, Volumed(A, D), NEW p \in Seq(Word), NEW m, Over(A, p, m),
         NEW E, E = Minus(D, A[m], Rel(p, m)), NEW x \in Seq(Word)
  PROVE  Place(A, E, x) <=> Place(A, D, x) /\ x # p
<1> DEFINE T == D[A[m]] \ {Rel(p, m)}
<1>1. m \in DOMAIN A /\ DOMAIN A \in SUBSET Seq(Word) /\ A[m] \in DOMAIN D
  BY DEF Over, Volumed
<1>2. E = [D EXCEPT ![A[m]] = T]
  BY <1>1 DEF Minus
<1>t. \A y : y \in T <=> y \in D[A[m]] /\ y # Rel(p, m)
  OBVIOUS
<1> HIDE DEF T
<1>3. CASE Over(A, x, m)
  <2>0. Place(A, E, x) <=> Rel(x, m) \in T
    BY <1>1, <1>2, <1>3, PlaceOn
  <2>1. Place(A, E, x) <=> Rel(x, m) \in D[A[m]] /\ Rel(x, m) # Rel(p, m)
    BY <1>t, <2>0
  <2>2. Rel(x, m) = Rel(p, m) <=> x = p
    BY <1>1, <1>3, RelOrder DEF Over
  <2>3. Place(A, D, x) <=> Rel(x, m) \in D[A[m]]
    BY <1>1, <1>3, PlaceAt
  <2> QED BY <2>1, <2>2, <2>3
<1>4. CASE ~Over(A, x, m)
  <2>1. Place(A, E, x) <=> Place(A, D, x)
    BY <1>1, <1>2, <1>4, PlaceOn
  <2> QED BY <1>4, <2>1
<1> QED BY <1>3, <1>4

(* A rename takes along what is below, as far as no mount point hides it. *)
Hidden(A, x, q) == \E k \in DOMAIN A \ {q} : N!Beneath(k, q) /\ N!Beneath(x, k)
Brought(A, D, x, p, q) ==
  \E r \in Seq(Word) : Place(A, D, r) /\ N!Beneath(r, p) /\ x = N!Replant(r, p, q) /\ ~Hidden(A, x, q)

Replanted(D, T, a, b) ==
  \A y : y \in T <=> \/ y \in D /\ ~N!Beneath(y, a)
                     \/ \E r \in D : N!Beneath(r, a) /\ y = N!Replant(r, a, b)
Put(D, v, T) == [D EXCEPT ![v] = T]

LEMMA PlaceMove ==
  ASSUME NEW A, NEW D, Volumed(A, D), NEW p \in Seq(Word), NEW q \in Seq(Word), NEW m,
         Over(A, p, m), Over(A, q, m), Rel(p, m) # <<>>, Rel(q, m) # <<>>,
         \A k \in DOMAIN A : ~N!Beneath(k, p),
         NEW T, Replanted(D[A[m]], T, Rel(p, m), Rel(q, m)),
         NEW E, E = Put(D, A[m], T), NEW x \in Seq(Word)
  PROVE  Place(A, E, x) <=> \/ Place(A, D, x) /\ ~N!Beneath(x, p)
                            \/ Brought(A, D, x, p, q)
<1> USE DEF Replanted, Put
<1>1. /\ m \in DOMAIN A /\ DOMAIN A \in SUBSET Seq(Word) /\ A[m] \in DOMAIN D /\ m \in Seq(Word)
      /\ N!Beneath(p, m) /\ N!Beneath(q, m) /\ D[A[m]] \in SUBSET Seq(Word)
  BY DEF Over, Volumed
<1>2. Rel(p, m) \in Seq(Word) /\ Rel(q, m) \in Seq(Word)
  BY <1>1, JoinRel
<1>3. ASSUME NEW r \in Seq(Word), N!Beneath(r, p)
      PROVE  Over(A, r, m) /\ (Place(A, D, r) <=> Rel(r, m) \in D[A[m]])
  <2>1. Over(A, r, m)
    BY <1>1, <1>3, OverBelow
  <2> QED BY <1>1, <2>1, PlaceAt
<1>q. q \notin DOMAIN A
  <2>1. Len(m) < Len(q) /\ Len(m) \in Nat /\ Len(q) \in Nat /\ N!Beneath(q, q)
    BY <1>1, RelRoot, BeneathSelf
  <2> QED BY <2>1 DEF Over
<1>4. CASE Over(A, x, m)
  <2>0. N!Beneath(x, m) /\ Rel(x, m) \in Seq(Word)
    BY <1>4, <1>1, JoinRel DEF Over
  <2>1. Place(A, E, x) <=> Rel(x, m) \in T
    BY <1>1, <1>4, PlaceOn
  <2>2. Place(A, D, x) <=> Rel(x, m) \in D[A[m]]
    BY <1>1, <1>4, PlaceAt
  <2>3. N!Beneath(Rel(x, m), Rel(p, m)) <=> N!Beneath(x, p)
    BY <1>1, <2>0, RelOrder
  <2>4. ~Hidden(A, x, q)
    <3>1. \A k \in DOMAIN A : N!Beneath(k, q) => ~N!Beneath(x, k)
      BY <1>1, <1>4, OverElse
    <3> QED BY <3>1 DEF Hidden
  <2>5. ASSUME NEW y \in D[A[m]], N!Beneath(y, Rel(p, m)),
               Rel(x, m) = N!Replant(y, Rel(p, m), Rel(q, m))
        PROVE  Brought(A, D, x, p, q)
    <3>1. /\ N!Beneath(Rel(x, m), Rel(q, m)) /\ N!Replant(Rel(x, m), Rel(q, m), Rel(p, m)) = y
          /\ y \in Seq(Word)
      BY <1>1, <1>2, <2>5, ReplantIs
    <3>2. N!Beneath(x, q)
      BY <1>1, <2>0, <3>1, RelOrder
    <3>3. PICK r : r = N!Replant(x, q, p)
      OBVIOUS
    <3>4. /\ r \in Seq(Word) /\ N!Beneath(r, p) /\ N!Replant(r, p, q) = x
          /\ Rel(r, m) = N!Replant(Rel(x, m), Rel(q, m), Rel(p, m))
      BY <1>1, <3>2, <3>3, ReplantIs
    <3>5. Place(A, D, r)
      BY <1>3, <2>5, <3>1, <3>4
    <3> QED BY <2>4, <3>4, <3>5 DEF Brought
  <2>6. ASSUME NEW r \in Seq(Word), Place(A, D, r), N!Beneath(r, p), x = N!Replant(r, p, q)
        PROVE  Rel(x, m) \in T
    <3>1. Rel(r, m) \in D[A[m]] /\ N!Beneath(r, m)
      BY <1>3, <2>6 DEF Over
    <3>2. N!Beneath(Rel(r, m), Rel(p, m))
      BY <1>1, <2>6, <3>1, RelOrder
    <3>3. Rel(x, m) = N!Replant(Rel(r, m), Rel(p, m), Rel(q, m))
      BY <1>1, <2>6, ReplantIs
    <3> QED BY <3>1, <3>2, <3>3
  <2>7. Rel(x, m) \in T => (Place(A, D, x) /\ ~N!Beneath(x, p)) \/ Brought(A, D, x, p, q)
    BY <2>2, <2>3, <2>5
  <2>8. Place(A, D, x) /\ ~N!Beneath(x, p) => Rel(x, m) \in T
    BY <2>2, <2>3
  <2>9. Brought(A, D, x, p, q) => Rel(x, m) \in T
    BY <2>6 DEF Brought
  <2> QED BY <2>1, <2>7, <2>8, <2>9
<1>5. CASE ~Over(A, x, m)
  <2>1. Place(A, E, x) <=> Place(A, D, x)
    BY <1>1, <1>5, PlaceOn
  <2>2. ~N!Beneath(x, p)
    BY <1>3, <1>5
  <2>3. ASSUME Brought(A, D, x, p, q) PROVE FALSE
    <3>1. PICK r \in Seq(Word) : N!Beneath(r, p) /\ x = N!Replant(r, p, q) /\ ~Hidden(A, x, q)
      BY <2>3 DEF Brought
    <3>2. N!Beneath(x, q)
      BY <3>1, ReplantIs
    <3>3. \A k \in DOMAIN A : ~(N!Beneath(k, q) /\ N!Beneath(x, k))
      BY <1>q, <3>1 DEF Hidden
    <3> QED BY <1>1, <1>5, <3>2, <3>3, OverBelow
  <2> QED BY <2>1, <2>2, <2>3
<1> QED BY <1>4, <1>5

-----------------------------------------------------------------------------
(* The mount table M and the directories D of the volumes, before or after  *)
(* a step *)

UsedIn(M) == {i \in Table : M[i].used}
CoversIn(M, p) == {i \in UsedIn(M) : N!Beneath(p, M[i].path)}
VolumeIn(M, p) == IF CoversIn(M, p) = {} THEN NoVolume ELSE Longest(M, CoversIn(M, p))
SeenIn(M, D) == {p \in Paths : \E v \in {VolumeIn(M, p)} :
                   v # NoVolume /\ Rel(p, M[v].path) \in D[Vol(M[v].disk)]}
AttachedIn(M) == [m \in {M[i].path : i \in UsedIn(M)} |->
                    Vol(M[CHOOSE i \in UsedIn(M) : M[i].path = m].disk)]

TableIs(M) ==
  /\ M \in [Table -> [used : BOOLEAN, disk : Disks, path : Seq(Word)]]
  /\ \A i \in UsedIn(M) : Vol(M[i].disk) \in Volumes /\ M[i].path \in Paths
  /\ \A i, j \in UsedIn(M) : i # j => /\ Vol(M[i].disk) # Vol(M[j].disk)
                                      /\ M[i].path # M[j].path

LEMMA AttachedAre ==
  ASSUME NEW M, TableIs(M)
  PROVE  /\ \A m : m \in DOMAIN AttachedIn(M) <=> \E i \in UsedIn(M) : M[i].path = m
         /\ \A i \in UsedIn(M) : AttachedIn(M)[M[i].path] = Vol(M[i].disk)
         /\ \A D \in [Volumes -> SUBSET Seq(Word)] : Volumed(AttachedIn(M), D)
         /\ DOMAIN AttachedIn(M) \in SUBSET Paths
<1> DEFINE A == AttachedIn(M)
           U == UsedIn(M)
           c(m) == CHOOSE i \in U : M[i].path = m
<1>1. \A m : m \in DOMAIN A <=> \E i \in U : M[i].path = m
  BY DEF AttachedIn
<1>2. ASSUME NEW i \in U PROVE A[M[i].path] = Vol(M[i].disk)
  <2>1. PICK m : m = M[i].path
    OBVIOUS
  <2>2. c(m) \in U /\ M[c(m)].path = m
    BY <2>1, Zenon
  <2>3. m \in {M[j].path : j \in U}
    BY <2>1
  <2>4. A[m] = Vol(M[c(m)].disk)
    BY <2>3, Zenon DEF AttachedIn
  <2> HIDE DEF c
  <2>5. c(m) = i
    BY <2>1, <2>2 DEF TableIs
  <2> QED BY <2>1, <2>4, <2>5
<1> HIDE DEF A, U, c
<1>3. /\ \A i \in U : Vol(M[i].disk) \in Volumes /\ M[i].path \in Paths /\ M[i].path \in Seq(Word)
      /\ \A i, j \in U : Vol(M[i].disk) = Vol(M[j].disk) => i = j
  BY PathsType, Zenon DEF TableIs, U
<1>4. ASSUME NEW D \in [Volumes -> SUBSET Seq(Word)] PROVE Volumed(A, D)
  <2>1. DOMAIN A \in SUBSET Seq(Word) /\ \A m \in DOMAIN A : A[m] \in Volumes
    BY <1>1, <1>2, <1>3
  <2>2. \A m, k \in DOMAIN A : A[m] = A[k] => m = k
    BY <1>1, <1>2, <1>3
  <2> QED BY <2>1, <2>2 DEF Volumed
<1>5. DOMAIN A \in SUBSET Paths
  BY <1>1, <1>3
<1> QED BY <1>1, <1>2, <1>4, <1>5 DEF A, U

LEMMA VolumeIs ==
  ASSUME NEW M, TableIs(M), NEW p \in Seq(Word)
  PROVE  /\ VolumeIn(M, p) # NoVolume
              => VolumeIn(M, p) \in UsedIn(M) /\ Over(AttachedIn(M), p, M[VolumeIn(M, p)].path)
         /\ VolumeIn(M, p) = NoVolume => \A m : ~Over(AttachedIn(M), p, m)
<1> DEFINE A == AttachedIn(M)
           v == VolumeIn(M, p)
           C == CoversIn(M, p)
<1>1. /\ \A m : m \in DOMAIN A <=> \E i \in UsedIn(M) : M[i].path = m
  BY AttachedAre
<1>2. /\ \A i : i \in C <=> i \in UsedIn(M) /\ N!Beneath(p, M[i].path)
      /\ \A i \in C : M[i].path \in Seq(Word)
  BY PathsType DEF CoversIn, TableIs
<1>3. CASE C = {}
  <2>1. v = NoVolume
    BY <1>3 DEF VolumeIn
  <2>2. \A m : ~Over(A, p, m)
    BY <1>1, <1>2, <1>3, Zenon DEF Over
  <2> QED BY <2>1, <2>2
<1>4. CASE C # {}
  <2>1. v = Longest(M, C)
    BY <1>4 DEF VolumeIn
  <2>2. v \in C /\ \A j \in C : Len(M[j].path) <= Len(M[v].path)
    BY <1>2, <1>4, <2>1, LongestCover
  <2>3. v # NoVolume
    BY <1>2, <2>2 DEF UsedIn, Table, NoVolume
  <2> HIDE DEF A, v, C
  <2>4. Over(A, p, M[v].path)
    BY <1>1, <1>2, <2>2, Zenon DEF Over
  <2> QED BY <1>2, <2>2, <2>3, <2>4 DEF A, v
<1> QED BY <1>3, <1>4

LEMMA SeenAre ==
  ASSUME NEW M, TableIs(M), NEW D \in [Volumes -> SUBSET Seq(Word)], NEW x \in Paths
  PROVE  x \in SeenIn(M, D) <=> Place(AttachedIn(M), D, x)
<1> DEFINE A == AttachedIn(M)
           v == VolumeIn(M, x)
<1>1. x \in Seq(Word) /\ Volumed(A, D)
  BY PathsType, AttachedAre
<1>2. x \in SeenIn(M, D) <=> v # NoVolume /\ Rel(x, M[v].path) \in D[Vol(M[v].disk)]
  BY DEF SeenIn
<1>3. CASE v = NoVolume
  BY <1>1, <1>2, <1>3, VolumeIs DEF Place
<1>4. CASE v # NoVolume
  <2>1. v \in UsedIn(M) /\ Over(A, x, M[v].path)
    BY <1>1, <1>4, VolumeIs
  <2>2. A[M[v].path] = Vol(M[v].disk)
    BY <2>1, AttachedAre
  <2> HIDE DEF A, v
  <2>3. Place(A, D, x) <=> Rel(x, M[v].path) \in D[A[M[v].path]]
    BY <1>1, <2>1, PlaceAt DEF Volumed
  <2> QED BY <1>2, <1>4, <2>2, <2>3 DEF A
<1> QED BY <1>3, <1>4

LEMMA SeenNow ==
  /\ Used = UsedIn(mounts) /\ Seen = SeenIn(mounts, dirs) /\ Attached = AttachedIn(mounts)
  /\ Used' = UsedIn(mounts') /\ Seen' = SeenIn(mounts', dirs') /\ Attached' = AttachedIn(mounts')
  /\ \A p : VolumeFor(p) = VolumeIn(mounts, p)
<1>1. Used = UsedIn(mounts) /\ Used' = UsedIn(mounts')
  BY DEF Used, UsedIn
<1>2. Attached = AttachedIn(mounts) /\ Attached' = AttachedIn(mounts')
  BY <1>1 DEF Attached, AttachedIn, Vol
<1>3. \A p : Covers(p) = CoversIn(mounts, p) /\ Covers(p)' = CoversIn(mounts', p)
  BY <1>1 DEF Covers, CoversIn
<1>4. \A p : VolumeFor(p) = VolumeIn(mounts, p) /\ VolumeFor(p)' = VolumeIn(mounts', p)
  <2> TAKE p
  <2>1. /\ Covers(p) # {} => VolumeFor(p) = Longest(mounts, Covers(p))
        /\ Covers(p) = {} => VolumeFor(p) = NoVolume
    BY Zenon DEF VolumeFor, Longest
  <2>2. /\ Covers(p)' # {} => VolumeFor(p)' = Longest(mounts', Covers(p)')
        /\ Covers(p)' = {} => VolumeFor(p)' = NoVolume
    BY Zenon DEF VolumeFor, Longest
  <2> QED BY <1>3, <2>1, <2>2 DEF VolumeIn
<1>5. Seen = SeenIn(mounts, dirs) /\ Seen' = SeenIn(mounts', dirs')
  BY <1>4 DEF Seen, SeenIn, Local, Rel, Vol
<1> QED BY <1>1, <1>2, <1>4, <1>5

-----------------------------------------------------------------------------
(* What a command does to the tree *)

(* Every volume has a root, and mount points differ. *)
NameInv == VfsInv /\ TableIs(mounts) /\ \A v \in Volumes : Root \in dirs[v]

Unmounted(p) == \A k \in DOMAIN Attached : ~N!Beneath(k, p)

Adds(p) == \E m \in DOMAIN Attached :
  /\ Over(Attached, p, m) /\ Rel(p, m) # <<>>
  /\ N!Parent(Rel(p, m)) \in dirs[Attached[m]] /\ Rel(p, m) \notin dirs[Attached[m]]
  /\ dirs' = [dirs EXCEPT ![Attached[m]] = @ \cup {Rel(p, m)}]

Removes(p) == \E m \in DOMAIN Attached :
  /\ Over(Attached, p, m) /\ Rel(p, m) # <<>> /\ Unmounted(p) /\ Rel(p, m) \in dirs[Attached[m]]
  /\ \A y \in dirs[Attached[m]] : N!Beneath(y, Rel(p, m)) => y = Rel(p, m)
  /\ dirs' = [dirs EXCEPT ![Attached[m]] = @ \ {Rel(p, m)}]

Moves(p, q) == \E m \in DOMAIN Attached, T \in SUBSET Seq(Word) :
  /\ Over(Attached, p, m) /\ Over(Attached, q, m) /\ Rel(p, m) # <<>> /\ Rel(q, m) # <<>>
  /\ Unmounted(p) /\ N!Parent(p) = N!Parent(q)
  /\ Rel(p, m) \in dirs[Attached[m]] /\ Rel(q, m) \notin dirs[Attached[m]]
  /\ Replanted(dirs[Attached[m]], T, Rel(p, m), Rel(q, m))
  /\ dirs' = [dirs EXCEPT ![Attached[m]] = T]

(* The engine is in the directory of p, on the volume that p leads to. *)
Inside(r, p, m) ==
  /\ m \in DOMAIN Attached /\ Over(Attached, p, m) /\ Rel(p, m) # <<>>
  /\ Entry(r, p) = Rel(p, m) /\ r.cwd = N!Parent(Rel(p, m))
  /\ Vol(r.selected) = Attached[m] /\ Attached[m] \in Volumes
  /\ N!Parent(Rel(p, m)) \in dirs[Attached[m]]

LEMMA PathInside ==
  ASSUME NameInv, NEW e, Sound(e), NEW p \in Seq(Word), RoutedParent(RouteParent(e, p), p)
  PROVE  VolumeFor(p) \in Used /\ Inside(RouteParent(e, p), p, mounts[VolumeFor(p)].path)
<1> DEFINE r == RouteParent(e, p)
           v == VolumeFor(p)
           m == mounts[v].path
<1>1. TableOK /\ TableIs(mounts)
  BY DEF NameInv, VfsInv
<1>2. /\ Entry(r, p) = Local(p, v) /\ Vol(r.selected) = Vol(mounts[v].disk)
      /\ Vol(r.selected) \in Volumes /\ v \in Used
  BY <1>1, EntryLocal
<1>3. /\ r.cwd = N!Parent(Local(p, v)) /\ Local(p, v) # Root
      /\ N!Parent(Local(p, v)) \in dirs[Vol(r.selected)]
  BY <1>1, RouteSound DEF RoutedParent, Shown
<1>4. v # NoVolume
  BY <1>2 DEF Used, Table, NoVolume
<1>5. Over(Attached, p, m)
  BY <1>1, <1>4, VolumeIs, SeenNow
<1>6. Attached[m] = Vol(mounts[v].disk)
  BY <1>1, <1>2, AttachedAre, SeenNow
<1>7. Local(p, v) = Rel(p, m) /\ Root = <<>>
  BY DEF Local, Rel, Root
<1>8. m \in DOMAIN Attached
  BY <1>5 DEF Over
<1> HIDE DEF r, v, m
<1> QED BY <1>2, <1>3, <1>5, <1>6, <1>7, <1>8 DEF Inside, r, v, m

LEMMA UnprotectedIs == ASSUME NameInv, NEW p, ~Protected(p) PROVE Unmounted(p)
<1>1. \A m : m \in DOMAIN Attached <=> \E i \in Used : mounts[i].path = m
  BY AttachedAre, SeenNow DEF NameInv
<1> QED BY <1>1 DEF Protected, Unmounted

LEMMA MkdirDoes ==
  ASSUME NameInv, NEW p \in Seq(Word), Mkdir(p)
  PROVE  UNCHANGED mounts /\ (dirs' = dirs \/ Adds(p))
<1> DEFINE r == RouteParent(eng, p)
           m == mounts[VolumeFor(p)].path
<1>1. /\ UNCHANGED mounts
      /\ \/ dirs' = dirs
         \/ /\ RoutedParent(r, p) /\ Entry(r, p) \notin dirs[Vol(r.selected)]
            /\ dirs' = [dirs EXCEPT ![Vol(r.selected)] = @ \cup {Entry(r, p)}]
  BY DEF Mkdir, Commit, Shown
<1>2. RoutedParent(r, p) => Inside(r, p, m)
  BY PathInside DEF NameInv, VfsInv
<1> HIDE DEF r, m
<1> QED BY <1>1, <1>2 DEF Adds, Inside

LEMMA RmdirDoes ==
  ASSUME NameInv, NEW p \in Seq(Word), Rmdir(p)
  PROVE  UNCHANGED mounts /\ (dirs' = dirs \/ Removes(p))
<1> DEFINE r == RouteParent(eng, p)
           m == mounts[VolumeFor(p)].path
           x == Entry(r, p)
           D == dirs[Vol(r.selected)]
<1>1. /\ UNCHANGED mounts /\ ~Protected(p)
      /\ \/ dirs' = dirs
         \/ /\ RoutedParent(r, p) /\ {y \in D : N!Beneath(y, x)} = {x}
            /\ dirs' = [dirs EXCEPT ![Vol(r.selected)] = @ \ {x}]
  BY DEF Rmdir, Commit, Shown
<1>2. RoutedParent(r, p) => Inside(r, p, m)
  BY PathInside DEF NameInv, VfsInv
<1>3. Unmounted(p)
  BY <1>1, UnprotectedIs
<1>4. {y \in D : N!Beneath(y, x)} = {x} => x \in D /\ \A y \in D : N!Beneath(y, x) => y = x
  <2> HIDE DEF x, D
  <2> QED OBVIOUS
<1>5. Inside(r, p, m) => x = Rel(p, m) /\ D = dirs[Attached[m]] /\ Vol(r.selected) = Attached[m]
  BY DEF Inside
<1> HIDE DEF r, m, x, D
<1> QED BY <1>1, <1>2, <1>3, <1>4, <1>5 DEF Removes, Inside

LEMMA MvDoes ==
  ASSUME NameInv, NEW p \in Seq(Word), NEW q \in Seq(Word), NEW acl \in BOOLEAN, Mv(p, q, acl)
  PROVE  UNCHANGED mounts /\ (dirs' = dirs \/ Moves(p, q))
<1>0. UNCHANGED mounts
  BY DEF Mv
<1> DEFINE e0 == Route(eng, AclFile)
<1>1. \/ dirs' = dirs
      \/ ~Protected(p) /\ VolumeFor(p) = VolumeFor(q) /\ MvWithin(p, q, acl, e0)
  BY DEF Mv
<1>2. TableOK /\ Sound(e0) /\ dirs \in [Volumes -> SUBSET Seq(Word)]
  BY RouteSound, AclFilePath DEF NameInv, VfsInv, MediaOK
<1> HIDE DEF e0
<1>3. SUFFICES ASSUME ~Protected(p), VolumeFor(p) = VolumeFor(q), MvWithin(p, q, acl, e0), dirs' # dirs
               PROVE  Moves(p, q)
  BY <1>0, <1>1
<1> DEFINE e1 == RouteParent(e0, p)
           e2 == RouteParent(e1, q)
           same == RoutedParent(e1, p) /\ RoutedParent(e2, q) /\ e2.cwd = e1.cwd
           e3 == IF acl THEN RouteParent(e2, AclFile) ELSE e2
           guarded == same /\ (acl => RoutedParent(e3, AclFile))
           e4 == RouteParent(e3, p)
           m == mounts[VolumeFor(p)].path
<1>4. MvEnd(p, q, acl, e1, e2, e3, e4, same, guarded)
  BY <1>3, MvEnds
<1>5. Sound(e1) /\ Sound(e2) /\ Sound(e3)
  BY <1>2, RouteSound, AclFilePath
<1>6. /\ RoutedParent(e1, p) => Inside(e1, p, m)
      /\ RoutedParent(e4, p) => Inside(e4, p, m)
  BY <1>2, <1>5, PathInside
<1>7. RoutedParent(e2, q) => Inside(e2, q, m)
  BY <1>3, <1>5, PathInside
<1> DEFINE from == Entry(e4, p)
           to == Append(e4.cwd, q[Len(q)])
           X == Shown(e4)
           moved == {N!Replant(r, from, to) : r \in {s \in X : N!Beneath(s, from)}}
           T == {r \in X : ~N!Beneath(r, from)} \cup moved
<1>8. /\ guarded /\ RoutedParent(e4, p) /\ from \in X /\ to \notin X /\ moved \subseteq Paths
      /\ dirs' = [dirs EXCEPT ![Vol(e4.selected)] = {r \in @ : ~N!Beneath(r, from)} \cup moved]
  <2> HIDE DEF e1, e2, e3, e4, same, guarded
  <2> QED BY <1>3, <1>4, Zenon DEF MvEnd, Commit
<1>9. RoutedParent(e1, p) /\ RoutedParent(e2, q) /\ e2.cwd = e1.cwd
  BY <1>8
<1> HIDE DEF e1, e2, e3, e4, same, guarded
<1>10. Inside(e1, p, m) /\ Inside(e2, q, m) /\ Inside(e4, p, m)
  BY <1>6, <1>7, <1>8, <1>9
<1>11. /\ Over(Attached, p, m) /\ Over(Attached, q, m) /\ Rel(p, m) # <<>> /\ Rel(q, m) # <<>>
       /\ from = Rel(p, m) /\ to = Rel(q, m) /\ Vol(e4.selected) = Attached[m] /\ m \in DOMAIN Attached
       /\ N!Parent(Rel(p, m)) = N!Parent(Rel(q, m)) /\ Attached[m] \in Volumes
  BY <1>9, <1>10 DEF Inside, Entry
<1>12. m \in Seq(Word)
  <2>1. DOMAIN Attached \in SUBSET Paths
    BY AttachedAre, SeenNow DEF NameInv
  <2> QED BY <1>11, <2>1, PathsType
<1>13. N!Parent(p) = N!Parent(q)
  <2>1. N!Beneath(p, m) /\ N!Beneath(q, m)
    BY <1>11 DEF Over
  <2>2. N!Parent(p) = m \o N!Parent(Rel(p, m)) /\ N!Parent(q) = m \o N!Parent(Rel(q, m))
    BY <1>11, <1>12, <2>1, RelParent
  <2> QED BY <1>11, <2>2
<1>14. X = dirs[Attached[m]] /\ X \in SUBSET Seq(Word)
  BY <1>2, <1>11 DEF Shown
<1>15. T \in SUBSET Seq(Word)
  <2> HIDE DEF moved, X, from
  <2> QED BY <1>8, <1>14, PathsType
<1>16. Replanted(X, T, from, to)
  <2> HIDE DEF X, from, to
  <2> QED BY Zenon DEF Replanted
<1>17. dirs' = [dirs EXCEPT ![Attached[m]] = T]
  <2>1. dirs' = [dirs EXCEPT ![Attached[m]] = {r \in dirs[Attached[m]] : ~N!Beneath(r, from)} \cup moved]
    <3> HIDE DEF moved, from, m, X
    <3> QED BY <1>8, <1>11
  <2> HIDE DEF moved, from, m, X
  <2> QED BY <1>14, <2>1
<1>18. Unmounted(p)
  BY <1>3, UnprotectedIs
<1> HIDE DEF T, X, from, to, m
<1> QED BY <1>8, <1>11, <1>13, <1>14, <1>15, <1>16, <1>17, <1>18 DEF Moves

(* Two tables that differ in what is mounted at p *)
Elsewhere(A, B, p) ==
  /\ \A k : k # p => (k \in DOMAIN A <=> k \in DOMAIN B)
  /\ \A k \in DOMAIN A : k # p => B[k] = A[k]

LEMMA OverElsewhere ==
  ASSUME NEW A, NEW B, DOMAIN A \in SUBSET Seq(Word), NEW p \in Seq(Word),
         \A k : k # p => (k \in DOMAIN A <=> k \in DOMAIN B),
         NEW x \in Seq(Word), ~N!Beneath(x, p) \/ Hidden(A, x, p), NEW m, Over(A, x, m)
  PROVE  m # p /\ Over(B, x, m)
<1>1. m \in DOMAIN A /\ m \in Seq(Word) /\ N!Beneath(x, m) /\ Len(m) \in Nat /\ Len(p) \in Nat
  BY DEF Over
<1>2. m # p /\ (N!Beneath(x, p) => Len(p) <= Len(m))
  <2>1. CASE ~N!Beneath(x, p)
    BY <1>1, <2>1
  <2>2. CASE Hidden(A, x, p)
    <3>1. PICK k \in DOMAIN A \ {p} : N!Beneath(k, p) /\ N!Beneath(x, k)
      BY <2>2 DEF Hidden
    <3>2. k \in Seq(Word) /\ Len(k) \in Nat /\ Len(p) <= Len(k) /\ Len(k) # Len(p)
      BY <3>1, BeneathOrder, BeneathNames
    <3>3. Len(k) <= Len(m)
      BY <3>1 DEF Over
    <3> QED BY <1>1, <3>2, <3>3
  <2> QED BY <2>1, <2>2
<1>3. \A k \in DOMAIN B : N!Beneath(x, k) => Len(k) <= Len(m)
  BY <1>2 DEF Over
<1> QED BY <1>1, <1>2, <1>3 DEF Over

LEMMA PlaceElsewhere ==
  ASSUME NEW A, NEW B, NEW D, DOMAIN A \in SUBSET Seq(Word), DOMAIN B \in SUBSET Seq(Word),
         NEW p \in Seq(Word), Elsewhere(A, B, p),
         NEW x \in Seq(Word), ~N!Beneath(x, p) \/ Hidden(A, x, p)
  PROVE  Place(B, D, x) <=> Place(A, D, x)
<1>1. \A k : k # p => (k \in DOMAIN A <=> k \in DOMAIN B)
  BY DEF Elsewhere
<1>2. ~N!Beneath(x, p) \/ Hidden(B, x, p)
  BY <1>1 DEF Hidden
<1>3. \A m : Over(A, x, m) => m # p /\ Over(B, x, m)
  BY <1>1, OverElsewhere
<1>4. \A m : Over(B, x, m) => m # p /\ Over(A, x, m)
  BY <1>1, <1>2, OverElsewhere
<1>5. \A m : Over(A, x, m) => m \in DOMAIN A /\ m \in DOMAIN B /\ B[m] = A[m]
  BY <1>1, <1>3 DEF Over, Elsewhere
<1> QED BY <1>3, <1>4, <1>5, Zenon DEF Place

(* A mount point is a directory, the root of its volume. *)
LEMMA PlacePoint ==
  ASSUME NEW A, NEW D, DOMAIN A \in SUBSET Seq(Word), NEW p \in DOMAIN A, <<>> \in D[A[p]]
  PROVE  Place(A, D, p)
<1>1. p \in Seq(Word) /\ N!Beneath(p, p)
  BY BeneathSelf
<1>2. Rel(p, p) = <<>>
  BY <1>1, RelRoot
<1>3. \A k \in DOMAIN A : N!Beneath(p, k) => Len(k) <= Len(p)
  BY <1>1, BeneathNames
<1>4. Over(A, p, p)
  BY <1>1, <1>3 DEF Over
<1> QED BY <1>2, <1>4 DEF Place

(* Slots of the table: one is given to a volume at p, or is given up. *)
Mounted(M, B, i, p) ==
  /\ i \in Table /\ B \in [Table -> [used : BOOLEAN, disk : Disks, path : Seq(Word)]]
  /\ B[i].used /\ B[i].path = p /\ Vol(B[i].disk) \in Volumes
  /\ \A j \in Table : j # i => B[j] = M[j]
  /\ \A j \in UsedIn(M) : j # i => Vol(M[j].disk) # Vol(B[i].disk)
  /\ IF p = Root THEN /\ \A j \in UsedIn(M) : M[j].path = Root
                      /\ (\E j \in UsedIn(M) : M[j].path = Root) => i \in UsedIn(M)
     ELSE i \notin UsedIn(M) /\ \A j \in UsedIn(M) : M[j].path # p

LEMMA MountedTable ==
  ASSUME NEW M, TableIs(M), NEW B, NEW i, NEW p \in Paths, Mounted(M, B, i, p)
  PROVE  /\ TableIs(B) /\ p \in DOMAIN AttachedIn(B)
         /\ Elsewhere(AttachedIn(M), AttachedIn(B), p)
         /\ p = Root => DOMAIN AttachedIn(M) \in SUBSET {Root}
         /\ p # Root => p \notin DOMAIN AttachedIn(M)
<1>1. \A j : j \in UsedIn(B) <=> j = i \/ (j \in UsedIn(M) /\ j # i)
  BY DEF UsedIn, Mounted
<1>2. \A j \in UsedIn(M) : j # i => B[j] = M[j] /\ M[j].path # p
  <2>1. CASE p = Root
    <3>1. \A j \in UsedIn(M) : j = i
      BY <2>1 DEF Mounted, TableIs
    <3> QED BY <3>1
  <2>2. CASE p # Root
    BY <2>2 DEF Mounted, UsedIn
  <2> QED BY <2>1, <2>2
<1>3. B[i].path = p /\ Vol(B[i].disk) \in Volumes
  BY DEF Mounted
<1>4. TableIs(B)
  <2>1. \A j \in UsedIn(B) : Vol(B[j].disk) \in Volumes /\ B[j].path \in Paths
    BY <1>1, <1>2, <1>3 DEF TableIs
  <2>2. ASSUME NEW j \in UsedIn(B), NEW k \in UsedIn(B), j # k
        PROVE  Vol(B[j].disk) # Vol(B[k].disk) /\ B[j].path # B[k].path
    <3>1. CASE j = i
      BY <1>1, <1>2, <1>3, <2>2, <3>1 DEF Mounted
    <3>2. CASE k = i
      BY <1>1, <1>2, <1>3, <2>2, <3>2 DEF Mounted
    <3>3. CASE j # i /\ k # i
      BY <1>1, <1>2, <2>2, <3>3 DEF TableIs
    <3> QED BY <3>1, <3>2, <3>3
  <2>3. B \in [Table -> [used : BOOLEAN, disk : Disks, path : Seq(Word)]]
    BY DEF Mounted
  <2> QED BY <2>1, <2>2, <2>3 DEF TableIs
<1> DEFINE A == AttachedIn(M)
           C == AttachedIn(B)
<1>5. /\ \A m : m \in DOMAIN A <=> \E j \in UsedIn(M) : M[j].path = m
      /\ \A j \in UsedIn(M) : A[M[j].path] = Vol(M[j].disk)
      /\ \A m : m \in DOMAIN C <=> \E j \in UsedIn(B) : B[j].path = m
      /\ \A j \in UsedIn(B) : C[B[j].path] = Vol(B[j].disk)
  BY <1>4, AttachedAre
<1> HIDE DEF A, C
<1>6. p \in DOMAIN C
  BY <1>1, <1>3, <1>5
<1>7. p = Root => DOMAIN A \in SUBSET {Root}
  BY <1>5 DEF Mounted
<1>8. p # Root => p \notin DOMAIN A
  BY <1>5 DEF Mounted
<1>9. ASSUME NEW k, k # p PROVE k \in DOMAIN A <=> k \in DOMAIN C
  <2>1. ASSUME k \in DOMAIN A PROVE k \in DOMAIN C
    <3>1. PICK j \in UsedIn(M) : M[j].path = k
      BY <1>5, <2>1
    <3>2. j # i
      <4>1. SUFFICES ASSUME j = i PROVE FALSE
        OBVIOUS
      <4>2. p = Root => k = Root
        BY <3>1 DEF Mounted
      <4> QED BY <1>9, <3>1, <4>1, <4>2 DEF Mounted
    <3> QED BY <1>1, <1>2, <1>5, <3>1, <3>2
  <2>2. ASSUME k \in DOMAIN C PROVE k \in DOMAIN A
    <3>1. PICK j \in UsedIn(B) : B[j].path = k
      BY <1>5, <2>2
    <3> QED BY <1>1, <1>2, <1>3, <1>5, <1>9, <3>1
  <2> QED BY <2>1, <2>2
<1>10. ASSUME NEW k \in DOMAIN A, k # p PROVE C[k] = A[k]
  <2>1. k \in DOMAIN C
    BY <1>9, <1>10
  <2>2. PICK j \in UsedIn(B) : B[j].path = k
    BY <1>5, <2>1
  <2>3. j \in UsedIn(M) /\ B[j] = M[j]
    BY <1>1, <1>2, <1>3, <1>10, <2>2
  <2> QED BY <1>5, <2>2, <2>3
<1> QED BY <1>4, <1>6, <1>7, <1>8, <1>9, <1>10 DEF Elsewhere, A, C

Dismounted(M, B, i) ==
  /\ i \in UsedIn(M) /\ B \in [Table -> [used : BOOLEAN, disk : Disks, path : Seq(Word)]]
  /\ ~B[i].used /\ \A j \in Table : j # i => B[j] = M[j]
  /\ \A j \in UsedIn(M) : j # i => ~N!Beneath(M[j].path, M[i].path)

LEMMA DismountedTable ==
  ASSUME NEW M, TableIs(M), NEW B, NEW i, Dismounted(M, B, i), NEW p, p = M[i].path
  PROVE  /\ TableIs(B) /\ p \in DOMAIN AttachedIn(M) /\ p \notin DOMAIN AttachedIn(B)
         /\ Elsewhere(AttachedIn(M), AttachedIn(B), p)
         /\ \A k \in DOMAIN AttachedIn(M) : k # p => ~N!Beneath(k, p)
<1>1. /\ \A j : j \in UsedIn(B) <=> j \in UsedIn(M) /\ j # i
      /\ \A j \in UsedIn(B) : B[j] = M[j]
      /\ i \in UsedIn(M)
  BY DEF UsedIn, Dismounted
<1>2. TableIs(B)
  <2>1. B \in [Table -> [used : BOOLEAN, disk : Disks, path : Seq(Word)]]
    BY DEF Dismounted
  <2> QED BY <1>1, <2>1 DEF TableIs
<1> DEFINE A == AttachedIn(M)
           C == AttachedIn(B)
<1>5. /\ \A m : m \in DOMAIN A <=> \E j \in UsedIn(M) : M[j].path = m
      /\ \A j \in UsedIn(M) : A[M[j].path] = Vol(M[j].disk)
      /\ \A m : m \in DOMAIN C <=> \E j \in UsedIn(B) : B[j].path = m
      /\ \A j \in UsedIn(B) : C[B[j].path] = Vol(B[j].disk)
  BY <1>2, AttachedAre
<1> HIDE DEF A, C
<1>6. \A j \in UsedIn(M) : j # i => M[j].path # p
  BY <1>1 DEF TableIs
<1>7. p \in DOMAIN A /\ p \notin DOMAIN C
  BY <1>1, <1>5, <1>6
<1>8. \A k : k # p => (k \in DOMAIN A <=> k \in DOMAIN C)
  BY <1>1, <1>5
<1>9. \A k \in DOMAIN A : k # p => C[k] = A[k]
  BY <1>1, <1>5, <1>8
<1>10. \A k \in DOMAIN A : k # p => ~N!Beneath(k, p)
  BY <1>5 DEF Dismounted
<1> QED BY <1>2, <1>7, <1>8, <1>9, <1>10 DEF Elsewhere, A, C

(* fs_mount() takes the slot of the root again, or a free one. *)
LEMMA SlotForIs ==
  ASSUME NEW p, SlotFor(p) # NoVolume
  PROVE  /\ SlotFor(p) \in Table
         /\ p # Root => SlotFor(p) \notin Used /\ \A j \in Used : mounts[j].path # p
         /\ (\E j \in Used : mounts[j].path = p) => SlotFor(p) \in Used
<1> DEFINE same == {i \in Used : mounts[i].path = p}
           free == Table \ Used
<1>1. SlotFor(p) = IF same # {} THEN (IF p = Root THEN CHOOSE i \in same : TRUE ELSE NoVolume)
                   ELSE IF free = {} THEN NoVolume ELSE Least(free)
  BY DEF SlotFor
<1>0. SlotFor(p) \in Table
  BY SlotForTable
<1>2. CASE same # {}
  <2>1. SlotFor(p) = (CHOOSE i \in same : TRUE) /\ p = Root
    BY <1>1, <1>2
  <2>2. (CHOOSE i \in same : TRUE) \in same
    BY <1>2, Zenon
  <2> QED BY <1>0, <2>1, <2>2
<1>3. CASE same = {}
  <2>1. free # {} /\ SlotFor(p) = Least(free) /\ free \in SUBSET Nat
    BY <1>1, <1>3, VfsAssumption DEF Table
  <2>2. \E x \in free : \A y \in free : x <= y
    BY <2>1, LeastNat
  <2>3. Least(free) \in free
    BY <2>2, Zenon DEF Least
  <2> QED BY <1>0, <1>3, <2>1, <2>3
<1> QED BY <1>2, <1>3

LEMMA MountDoes ==
  ASSUME NameInv, WholeDevices, NEW name \in Names, NEW p \in Paths, Mount(name, p)
  PROVE  /\ UNCHANGED dirs
         /\ \/ UNCHANGED mounts
            \/ /\ \E i \in Table : Mounted(mounts, mounts', i, p)
               /\ p # Root => p \in Seen
<1> DEFINE e == IF p = Root THEN eng ELSE Route(eng, p)
           i == SlotFor(p)
           s == Selection(e, name, FALSE)
           d == s.disk
<1>1. UNCHANGED dirs
  BY DEF Mount, mediaVars
<1>2. \/ UNCHANGED mounts
      \/ /\ i # NoVolume /\ MountOn(e, name, p, i)
         /\ p = Root => \A j \in Used : mounts[j].path = Root
         /\ p # Root => IsDir(e, p)
  BY DEF Mount
<1>3. SUFFICES ASSUME ~UNCHANGED mounts, i # NoVolume, MountOn(e, name, p, i),
                      p = Root => \A j \in Used : mounts[j].path = Root,
                      p # Root => IsDir(e, p)
               PROVE  (\E k \in Table : Mounted(mounts, mounts', k, p)) /\ (p # Root => p \in Seen)
  BY <1>1, <1>2
<1>4. /\ s.ok /\ ~(\E j \in Used \ {i} : Vol(mounts[j].disk) = Vol(d))
      /\ mounts' = [mounts EXCEPT ![i] = [used |-> TRUE, disk |-> d, path |-> p]]
  <2> HIDE DEF s, i, e
  <2> QED BY <1>3, Zenon DEF MountOn, s
<1>5. d \in Disks /\ Vol(d) \in Volumes
  BY <1>4, SelectionWhole DEF NameInv
<1>6. /\ i \in Table
      /\ p # Root => i \notin Used /\ \A j \in Used : mounts[j].path # p
      /\ (\E j \in Used : mounts[j].path = p) => i \in Used
  BY <1>3, SlotForIs
<1>7. p \in Seq(Word) /\ mounts \in [Table -> [used : BOOLEAN, disk : Disks, path : Seq(Word)]]
  BY PathsType DEF NameInv, TableIs
<1>8. Used = UsedIn(mounts)
  BY SeenNow
<1>9. p # Root => p \in Seen
  <2> SUFFICES ASSUME p # Root PROVE p \in Seen
    OBVIOUS
  <2>1. e = Route(eng, p) /\ IsDir(e, p) /\ TableOK /\ Sound(eng)
    BY <1>3 DEF NameInv, VfsInv
  <2> DEFINE v == VolumeFor(p)
  <2>2. Active(e, v) /\ Local(p, v) \in dirs[Vol(e.selected)]
    BY <2>1 DEF IsDir, Routed, Shown
  <2>3. Loaded(e) /\ e.active = v /\ v # NoVolume
    BY <1>7, <2>1, <2>2, RouteSound DEF Routed, Active
  <2>4. e.selected = mounts[v].disk
    BY <2>3 DEF Loaded
  <2> HIDE DEF e
  <2> QED BY <2>2, <2>3, <2>4 DEF Seen
<1> HIDE DEF s, d, i, e
<1>10. Mounted(mounts, mounts', i, p)
  <2>1. /\ mounts' \in [Table -> [used : BOOLEAN, disk : Disks, path : Seq(Word)]]
        /\ mounts'[i].used /\ mounts'[i].path = p /\ mounts'[i].disk = d
        /\ \A j \in Table : j # i => mounts'[j] = mounts[j]
    BY <1>4, <1>5, <1>6, <1>7
  <2>2. \A j \in Used : j # i => Vol(mounts[j].disk) # Vol(d)
    BY <1>4
  <2>3. CASE p = Root
    BY <1>3, <1>5, <1>6, <1>8, <2>1, <2>2, <2>3 DEF Mounted
  <2>4. CASE p # Root
    BY <1>5, <1>6, <1>8, <2>1, <2>2, <2>4 DEF Mounted
  <2> QED BY <2>3, <2>4
<1> QED BY <1>6, <1>9, <1>10

LEMMA UnmountDoes ==
  ASSUME NameInv, NEW p \in Seq(Word), NEW named \in BOOLEAN, Unmount(p, named)
  PROVE  UNCHANGED dirs /\ (UNCHANGED mounts \/ \E i \in Used : Dismounted(mounts, mounts', i))
<1> DEFINE v == VolumeFor(p)
<1>1. UNCHANGED dirs /\ v # NoVolume /\ ~Nested(v)
      /\ (UNCHANGED mounts \/ mounts' = [mounts EXCEPT ![v] = Unused])
  BY DEF Unmount, mediaVars
<1>2. TableOK /\ mounts \in [Table -> [used : BOOLEAN, disk : Disks, path : Seq(Word)]]
  BY DEF NameInv, VfsInv, TableIs
<1>3. v \in Used /\ Used = UsedIn(mounts) /\ Used \in SUBSET Table
  BY <1>1, <1>2, VolumeForCovers, SeenNow DEF Used
<1>4. Unused \in [used : BOOLEAN, disk : Disks, path : Seq(Word)] /\ ~Unused.used
  BY DEF Unused, Disks, NoDisk, Root
<1>5. \A j \in Used : j # v => ~N!Beneath(mounts[j].path, mounts[v].path)
  BY <1>1 DEF Nested
<1> HIDE DEF v
<1>6. mounts' = [mounts EXCEPT ![v] = Unused] => Dismounted(mounts, mounts', v)
  BY <1>2, <1>3, <1>4, <1>5 DEF Dismounted
<1> QED BY <1>1, <1>3, <1>6

(* One step changes one directory, what one mount point leads to, or        *)
(* nothing that is mounted.                                                 *)
Stays ==
  /\ UNCHANGED mounts
  /\ \A i \in Used : dirs'[Vol(mounts[i].disk)] = dirs[Vol(mounts[i].disk)]
  /\ \A v \in Volumes : Root \in dirs'[v]
TreeChange ==
  /\ UNCHANGED mounts
  /\ \/ \E p \in Paths : Adds(p) \/ Removes(p)
     \/ \E p, q \in Paths : Moves(p, q)
PointChange ==
  /\ UNCHANGED dirs
  /\ \/ \E p \in Paths, i \in Table : Mounted(mounts, mounts', i, p) /\ (p # Root => p \in Seen)
     \/ \E i \in Used : Dismounted(mounts, mounts', i)
Does == Stays \/ TreeChange \/ PointChange

LEMMA FormatStays == ASSUME NameInv, WholeDevices, NEW name \in Names, Format(name) PROVE Stays
<1> DEFINE s == Selection(eng, name, TRUE)
           v == Vol(s.disk)
<1>1. /\ UNCHANGED mounts
      /\ \/ dirs' = dirs
         \/ /\ s.ok /\ \A i \in Used : ~Overlap(Vol(mounts[i].disk), v)
            /\ dirs' = [dirs EXCEPT ![v] = {Root}]
  BY DEF Format, Formatted, HalfFormatted
<1>2. s.ok => v \in Volumes
  BY SelectionWhole DEF NameInv
<1>3. /\ TableOK /\ dirs \in [Volumes -> SUBSET Seq(Word)]
      /\ \A w \in Volumes : Root \in dirs[w]
  BY DEF NameInv, VfsInv, MediaOK
<1> HIDE DEF s, v
<1>4. \A i \in Used : Vol(mounts[i].disk) \in Volumes
  BY <1>3 DEF TableOK
<1>5. (\A i \in Used : ~Overlap(Vol(mounts[i].disk), v)) => \A i \in Used : Vol(mounts[i].disk) # v
  BY DEF Overlap
<1>6. \A i \in Used : dirs'[Vol(mounts[i].disk)] = dirs[Vol(mounts[i].disk)]
  BY <1>1, <1>2, <1>3, <1>4, <1>5
<1>7. \A w \in Volumes : Root \in dirs'[w]
  BY <1>1, <1>2, <1>3
<1> QED BY <1>1, <1>6, <1>7 DEF Stays

LEMMA NextDoes == ASSUME NameInv, WholeDevices, [Next]_vars PROVE Does
<1>0. ASSUME UNCHANGED <<mounts, dirs>> PROVE Does
  <2>1. \A v \in Volumes : Root \in dirs'[v]
    BY <1>0 DEF NameInv
  <2> QED BY <1>0, <2>1 DEF Does, Stays
<1>1. ASSUME NEW p \in Paths, Mkdir(p) \/ Rmdir(p) \/ Cd(p) \/ Access(p) PROVE Does
  <2>1. p \in Seq(Word)
    BY PathsType
  <2>2. CASE Mkdir(p)
    BY <1>0, <2>1, <2>2, MkdirDoes DEF Does, TreeChange
  <2>3. CASE Rmdir(p)
    BY <1>0, <2>1, <2>3, RmdirDoes DEF Does, TreeChange
  <2>4. CASE Cd(p) \/ Access(p)
    BY <1>0, <2>4 DEF Cd, Access, mediaVars
  <2> QED BY <1>1, <2>2, <2>3, <2>4
<1>2. ASSUME NEW p \in Paths, NEW q \in Paths, NEW acl \in BOOLEAN, Mv(p, q, acl) PROVE Does
  <2>1. p \in Seq(Word) /\ q \in Seq(Word)
    BY PathsType
  <2>2. UNCHANGED mounts /\ (dirs' = dirs \/ Moves(p, q))
    BY <1>2, <2>1, MvDoes
  <2> QED BY <1>0, <2>2 DEF Does, TreeChange
<1>3. ASSUME NEW p, NEW q, WriteFile(q, p) PROVE Does
  BY <1>0, <1>3 DEF WriteFile, Commit
<1>4. ASSUME NEW name \in Names, NEW p \in Paths, Mount(name, p) PROVE Does
  <2>1. /\ UNCHANGED dirs
        /\ \/ UNCHANGED mounts
           \/ /\ \E i \in Table : Mounted(mounts, mounts', i, p)
              /\ p # Root => p \in Seen
    BY <1>4, MountDoes
  <2> QED BY <1>0, <2>1 DEF Does, PointChange
<1>5. ASSUME NEW p \in Paths, NEW named \in BOOLEAN, Unmount(p, named) PROVE Does
  <2>1. p \in Seq(Word)
    BY PathsType
  <2>2. UNCHANGED dirs /\ (UNCHANGED mounts \/ \E i \in Used : Dismounted(mounts, mounts', i))
    BY <1>5, <2>1, UnmountDoes
  <2> QED BY <1>0, <2>2 DEF Does, PointChange
<1>6. ASSUME NEW name \in Names, Format(name) PROVE Does
  BY <1>6, FormatStays DEF Does
<1>7. ASSUME NEW d, NEW P, Fdisk(d, P) \/ Unplug(d) \/ Plug(d) PROVE Does
  BY <1>0, <1>7 DEF Fdisk, Unplug, Plug, mediaVars
<1>8. CASE Sync \/ UNCHANGED vars
  BY <1>0, <1>8 DEF Sync, vars, mediaVars
<1> QED BY <1>1, <1>2, <1>3, <1>4, <1>5, <1>6, <1>7, <1>8 DEF Next

LEMMA NameInit == Init => NameInv
<1> SUFFICES ASSUME Init PROVE NameInv
  OBVIOUS
<1>1. VfsInv
  BY VfsInit
<1>2. mounts \in [Table -> [used : BOOLEAN, disk : Disks, path : Seq(Word)]]
      /\ \A i \in Used : Vol(mounts[i].disk) \in Volumes
  BY <1>1 DEF VfsInv, TableOK
<1>3. \A i \in Table : i # 0 => ~mounts[i].used
  BY DEF Init, Unused
<1>4. mounts[0].path = Root
  BY VfsAssumption DEF Init, Unused, Table
<1>5. Used = UsedIn(mounts)
  BY SeenNow
<1>6. \A i \in UsedIn(mounts) : i = 0
  BY <1>3 DEF UsedIn
<1>7. Root \in Paths
  BY VfsAssumption DEF Root
<1>8. TableIs(mounts)
  BY <1>2, <1>4, <1>5, <1>6, <1>7 DEF TableIs
<1>9. \A v \in Volumes : Root \in dirs[v]
  BY DEF Init
<1> QED BY <1>1, <1>8, <1>9 DEF NameInv

LEMMA NameNext == ASSUME NameInv, WholeDevices, [Next]_vars PROVE NameInv'
<1>1. VfsInv' /\ Does
  BY VfsNext, NextDoes DEF NameInv
<1>2. /\ TableIs(mounts) /\ dirs \in [Volumes -> SUBSET Seq(Word)]
      /\ \A v \in Volumes : Root \in dirs[v]
  BY DEF NameInv, VfsInv, MediaOK
<1>3. TableIs(mounts')
  <2>1. CASE UNCHANGED mounts
    BY <1>2, <2>1
  <2>2. CASE PointChange
    BY <1>2, <2>2, MountedTable, DismountedTable DEF PointChange
  <2> QED BY <1>1, <2>1, <2>2 DEF Does, Stays, TreeChange
<1>4. \A v \in Volumes : Root \in dirs'[v]
  <2>1. CASE Stays
    BY <2>1 DEF Stays
  <2>2. CASE PointChange
    BY <1>2, <2>2 DEF PointChange
  <2>3. CASE TreeChange
    <3>0. /\ Root = <<>> /\ DOMAIN Attached \in SUBSET Seq(Word)
          /\ \A m \in DOMAIN Attached : Attached[m] \in Volumes
      BY <1>2, AttachedAre, SeenNow DEF Volumed, Root
    <3>1. ASSUME NEW p, Adds(p) PROVE \A v \in Volumes : Root \in dirs'[v]
      BY <1>2, <3>0, <3>1 DEF Adds
    <3>2. ASSUME NEW p, Removes(p) PROVE \A v \in Volumes : Root \in dirs'[v]
      BY <1>2, <3>0, <3>2 DEF Removes
    <3>3. ASSUME NEW p \in Paths, NEW q \in Paths, Moves(p, q) PROVE \A v \in Volumes : Root \in dirs'[v]
      <4>1. PICK m \in DOMAIN Attached, T \in SUBSET Seq(Word) :
              /\ Over(Attached, p, m) /\ Rel(p, m) # <<>>
              /\ Replanted(dirs[Attached[m]], T, Rel(p, m), Rel(q, m))
              /\ dirs' = [dirs EXCEPT ![Attached[m]] = T]
        BY <3>3 DEF Moves
      <4>2. p \in Seq(Word) /\ m \in Seq(Word) /\ N!Beneath(p, m) /\ Attached[m] \in Volumes
        BY <3>0, <4>1, PathsType DEF Over
      <4>3. Rel(p, m) \in Seq(Word) /\ Len(Rel(p, m)) > 0
        <5>1. Rel(p, m) \in Seq(Word) /\ Len(Rel(p, m)) = Len(p) - Len(m) /\ Len(p) \in Nat /\ Len(m) \in Nat
          BY <4>2, RelNames
        <5>2. Len(m) < Len(p)
          BY <4>1, <4>2, RelRoot
        <5> QED BY <5>1, <5>2
      <4>4. ~N!Beneath(<<>>, Rel(p, m))
        <5>1. Len(<<>>) = 0
          OBVIOUS
        <5>2. ~(Len(<<>>) >= Len(Rel(p, m)))
          BY <4>3, <5>1
        <5> QED BY <5>2, Zenon DEF N!Beneath
      <4>5. <<>> \in T
        BY <1>2, <3>0, <4>1, <4>2, <4>4 DEF Replanted
      <4> QED BY <1>2, <3>0, <4>1, <4>2, <4>5
    <3> QED BY <2>3, <3>1, <3>2, <3>3 DEF TreeChange
  <2> QED BY <1>1, <2>1, <2>2, <2>3 DEF Does
<1> QED BY <1>1, <1>3, <1>4 DEF NameInv

-----------------------------------------------------------------------------
(* Refinement.  The paths are those of a name space: what holds a path is   *)
(* one of them, and so is a path below a directory with another last name.  *)
PathsClosed ==
  /\ \A p \in Paths : p # Root => N!Parent(p) \in Paths
  /\ \A p, q, r \in Paths : /\ p # Root /\ q # Root
                            /\ N!Parent(p) = N!Parent(q) /\ N!Beneath(r, p)
                            => N!Replant(r, p, q) \in Paths

(* Before and after a step that leaves the mount points alone *)
LEMMA SeenPlaces ==
  ASSUME NameInv, NameInv', NEW x \in Paths
  PROVE  /\ x \in Seq(Word) /\ Volumed(Attached, dirs) /\ Volumed(Attached', dirs')
         /\ DOMAIN Attached \in SUBSET Seq(Word) /\ DOMAIN Attached' \in SUBSET Seq(Word)
         /\ x \in Seen <=> Place(Attached, dirs, x)
         /\ x \in Seen' <=> Place(Attached', dirs', x)
<1>1. TableIs(mounts) /\ dirs \in [Volumes -> SUBSET Seq(Word)]
  BY DEF NameInv, VfsInv, MediaOK
<1>2. TableIs(mounts') /\ dirs' \in [Volumes -> SUBSET Seq(Word)]
  BY DEF NameInv, VfsInv, MediaOK
<1>3. Volumed(AttachedIn(mounts), dirs) /\ Volumed(AttachedIn(mounts'), dirs')
  BY <1>1, <1>2, AttachedAre
<1>4. /\ x \in SeenIn(mounts, dirs) <=> Place(AttachedIn(mounts), dirs, x)
      /\ x \in SeenIn(mounts', dirs') <=> Place(AttachedIn(mounts'), dirs', x)
  BY <1>1, <1>2, SeenAre
<1>5. x \in Seq(Word)
  BY PathsType
<1> QED BY <1>3, <1>4, <1>5, SeenNow DEF Volumed

LEMMA SeenPaths == Seen \in SUBSET Paths /\ Seen' \in SUBSET Paths
  BY DEF Seen

LEMMA AttachedSame == ASSUME UNCHANGED mounts PROVE Attached' = Attached
  BY SeenNow

Step == \/ Seen' = Seen /\ Attached' = Attached
        \/ View!NamespaceNext

LEMMA StaysStep == ASSUME NameInv, NameInv', Stays PROVE Step
<1>1. Attached' = Attached
  BY AttachedSame DEF Stays
<1>2. \A m \in DOMAIN Attached : dirs'[Attached[m]] = dirs[Attached[m]]
  <2>1. /\ \A m \in DOMAIN Attached : \E i \in Used : mounts[i].path = m
        /\ \A i \in Used : Attached[mounts[i].path] = Vol(mounts[i].disk)
    BY AttachedAre, SeenNow DEF NameInv
  <2> QED BY <2>1 DEF Stays
<1>3. ASSUME NEW x \in Paths PROVE x \in Seen' <=> x \in Seen
  <2>1. /\ x \in Seen <=> Place(Attached, dirs, x)
        /\ x \in Seen' <=> Place(Attached', dirs', x)
    BY SeenPlaces
  <2>2. PICK A : A = Attached
    OBVIOUS
  <2>3. Place(A, dirs', x) <=> Place(A, dirs, x)
    BY <1>2, <2>2 DEF Place
  <2> QED BY <1>1, <2>1, <2>2, <2>3
<1>4. Seen' = Seen
  BY <1>3, SeenPaths
<1> QED BY <1>1, <1>4 DEF Step

LEMMA AddStep ==
  ASSUME NameInv, NameInv', PathsClosed, UNCHANGED mounts, NEW p \in Paths, Adds(p)
  PROVE  Step
<1>1. PICK m \in DOMAIN Attached :
        /\ Over(Attached, p, m) /\ Rel(p, m) # <<>>
        /\ N!Parent(Rel(p, m)) \in dirs[Attached[m]] /\ Rel(p, m) \notin dirs[Attached[m]]
        /\ dirs' = [dirs EXCEPT ![Attached[m]] = @ \cup {Rel(p, m)}]
  BY DEF Adds
<1>2. Attached' = Attached
  BY AttachedSame
<1>3. p \in Seq(Word) /\ Volumed(Attached, dirs) /\ DOMAIN Attached \in SUBSET Seq(Word)
  BY SeenPlaces
<1>4. m \in Seq(Word) /\ N!Beneath(p, m)
  BY <1>1, <1>3 DEF Over
<1>5. p # Root
  <2>1. Len(m) < Len(p) /\ Len(m) \in Nat
    BY <1>1, <1>3, <1>4, RelRoot
  <2> QED BY <2>1 DEF Root
<1>6. p \notin Seen
  <2>1. ~Place(Attached, dirs, p)
    BY <1>1, <1>3, PlaceAt
  <2> QED BY <2>1, SeenPlaces
<1>7. N!Parent(p) \in Seen
  <2>1. N!Parent(p) \in Paths
    BY <1>5 DEF PathsClosed
  <2>2. Rel(N!Parent(p), m) = N!Parent(Rel(p, m)) /\ N!Parent(p) \in Seq(Word)
    BY <1>1, <1>3, <1>4, RelParent
  <2>3. Over(Attached, N!Parent(p), m)
    BY <1>1, <1>3, OverParent
  <2>4. Place(Attached, dirs, N!Parent(p))
    BY <1>1, <1>3, <2>2, <2>3, PlaceAt
  <2> QED BY <2>1, <2>4, SeenPlaces
<1>8. ASSUME NEW x \in Paths PROVE x \in Seen' <=> x \in Seen \/ x = p
  <2>1. /\ x \in Seq(Word)
        /\ x \in Seen <=> Place(Attached, dirs, x)
        /\ x \in Seen' <=> Place(Attached, dirs', x)
    BY <1>2, SeenPlaces
  <2>2. Place(Attached, dirs', x) <=> Place(Attached, dirs, x) \/ x = p
    <3>1. PICK A, D, E : A = Attached /\ D = dirs /\ E = dirs'
      OBVIOUS
    <3>2. Volumed(A, D) /\ Over(A, p, m) /\ E = Plus(D, A[m], Rel(p, m))
      BY <1>1, <1>3, <3>1 DEF Plus
    <3>3. Place(A, E, x) <=> Place(A, D, x) \/ x = p
      BY <1>3, <2>1, <3>2, PlaceAdd
    <3> QED BY <3>1, <3>3
  <2> QED BY <2>1, <2>2
<1>9. Seen' = Seen \cup {p} /\ Seen' # Seen
  BY <1>6, <1>8, SeenPaths
<1>10. View!Add(p)
  BY <1>5, <1>6, <1>7, <1>9 DEF View!Add, View!Root, View!Parent, N!Parent, Root
<1> QED BY <1>2, <1>9, <1>10 DEF Step, View!NamespaceNext

LEMMA FreeIs == ASSUME NEW p, Unmounted(p) PROVE View!Free(p)
  BY DEF Unmounted, View!Free, View!Beneath, N!Beneath

LEMMA RemoveStep ==
  ASSUME NameInv, NameInv', UNCHANGED mounts, NEW p \in Paths, Removes(p)
  PROVE  Step
<1>1. PICK m \in DOMAIN Attached :
        /\ Over(Attached, p, m) /\ Rel(p, m) # <<>> /\ Unmounted(p) /\ Rel(p, m) \in dirs[Attached[m]]
        /\ \A y \in dirs[Attached[m]] : N!Beneath(y, Rel(p, m)) => y = Rel(p, m)
        /\ dirs' = [dirs EXCEPT ![Attached[m]] = @ \ {Rel(p, m)}]
  BY DEF Removes
<1>2. Attached' = Attached
  BY AttachedSame
<1>3. p \in Seq(Word) /\ Volumed(Attached, dirs) /\ DOMAIN Attached \in SUBSET Seq(Word)
  BY SeenPlaces
<1>4. m \in Seq(Word) /\ N!Beneath(p, m)
  BY <1>1, <1>3 DEF Over
<1>5. p # Root
  <2>1. Len(m) < Len(p) /\ Len(m) \in Nat
    BY <1>1, <1>3, <1>4, RelRoot
  <2> QED BY <2>1 DEF Root
<1>6. p \in Seen
  <2>1. Place(Attached, dirs, p)
    BY <1>1, <1>3, PlaceAt
  <2> QED BY <2>1, SeenPlaces
<1>7. ASSUME NEW x \in Seen, N!Beneath(x, p) PROVE x = p
  <2>1. x \in Paths /\ x \in Seq(Word) /\ Place(Attached, dirs, x)
    BY SeenPaths, SeenPlaces
  <2>2. Over(Attached, x, m)
    BY <1>1, <1>3, <1>7, <2>1, OverBelow DEF Unmounted
  <2>3. Rel(x, m) \in dirs[Attached[m]] /\ N!Beneath(x, m)
    BY <1>3, <2>1, <2>2, PlaceAt DEF Over
  <2>4. N!Beneath(Rel(x, m), Rel(p, m)) /\ (Rel(x, m) = Rel(p, m) => x = p)
    BY <1>3, <1>4, <1>7, <2>1, <2>3, RelOrder
  <2> QED BY <1>1, <2>3, <2>4
<1>8. ASSUME NEW x \in Paths PROVE x \in Seen' <=> x \in Seen /\ x # p
  <2>1. /\ x \in Seq(Word)
        /\ x \in Seen <=> Place(Attached, dirs, x)
        /\ x \in Seen' <=> Place(Attached, dirs', x)
    BY <1>2, SeenPlaces
  <2>2. Place(Attached, dirs', x) <=> Place(Attached, dirs, x) /\ x # p
    <3>1. PICK A, D, E : A = Attached /\ D = dirs /\ E = dirs'
      OBVIOUS
    <3>2. Volumed(A, D) /\ Over(A, p, m) /\ E = Minus(D, A[m], Rel(p, m))
      BY <1>1, <1>3, <3>1 DEF Minus
    <3>3. Place(A, E, x) <=> Place(A, D, x) /\ x # p
      BY <1>3, <2>1, <3>2, PlaceRemove
    <3> QED BY <3>1, <3>3
  <2> QED BY <2>1, <2>2
<1>9. Seen' = Seen \ {p} /\ Seen' # Seen
  BY <1>6, <1>8, SeenPaths
<1>10. {x \in Seen : N!Beneath(x, p)} = {p}
  <2>1. N!Beneath(p, p)
    BY <1>3, BeneathSelf
  <2> QED BY <1>6, <1>7, <2>1
<1>11. View!Remove(p)
  BY <1>1, <1>5, <1>6, <1>9, <1>10, FreeIs DEF View!Remove, View!Root, Root, View!Beneath, N!Beneath
<1> QED BY <1>2, <1>9, <1>11 DEF Step, View!NamespaceNext

(* What View's names stand for *)
LEMMA ViewIs ==
  /\ View!Root = Root /\ \A p : View!Parent(p) = N!Parent(p) /\ (View!Free(p) <=> Unmounted(p))
  /\ \A r, p : /\ View!Beneath(r, p) <=> N!Beneath(r, p)
               /\ View!Covered(r, p) <=> Hidden(Attached, r, p)
  /\ \A r, p, q : View!Replant(r, p, q) = N!Replant(r, p, q)
<1>1. View!Root = Root
  BY DEF View!Root, Root
<1>2. \A p : View!Parent(p) = N!Parent(p)
  BY DEF View!Parent, N!Parent
<1>3. \A r, p : View!Beneath(r, p) <=> N!Beneath(r, p)
  BY DEF View!Beneath, N!Beneath
<1>4. \A p : View!Free(p) <=> Unmounted(p)
  BY <1>3 DEF View!Free, Unmounted
<1>5. \A r, p : View!Covered(r, p) <=> Hidden(Attached, r, p)
  BY <1>3 DEF View!Covered, Hidden
<1>6. \A r, p, q : View!Replant(r, p, q) = N!Replant(r, p, q)
  BY DEF View!Replant, N!Replant
<1> QED BY <1>1, <1>2, <1>3, <1>4, <1>5, <1>6

LEMMA RelTop == ASSUME NEW p \in Seq(Word), NEW m \in Seq(Word), N!Beneath(p, m), Rel(p, m) # <<>>
                PROVE  p # Root
<1>1. Len(m) < Len(p) /\ Len(m) \in Nat
  BY RelRoot
<1> QED BY <1>1 DEF Root

LEMMA MoveStep ==
  ASSUME NameInv, NameInv', PathsClosed, UNCHANGED mounts, NEW p \in Paths, NEW q \in Paths,
         Moves(p, q)
  PROVE  Step
<1>1. PICK m \in DOMAIN Attached, T \in SUBSET Seq(Word) :
        /\ Over(Attached, p, m) /\ Over(Attached, q, m) /\ Rel(p, m) # <<>> /\ Rel(q, m) # <<>>
        /\ Unmounted(p) /\ N!Parent(p) = N!Parent(q)
        /\ Rel(p, m) \in dirs[Attached[m]] /\ Rel(q, m) \notin dirs[Attached[m]]
        /\ Replanted(dirs[Attached[m]], T, Rel(p, m), Rel(q, m))
        /\ dirs' = [dirs EXCEPT ![Attached[m]] = T]
  BY DEF Moves
<1>2. Attached' = Attached
  BY AttachedSame
<1>3. /\ p \in Seq(Word) /\ q \in Seq(Word) /\ Volumed(Attached, dirs)
      /\ DOMAIN Attached \in SUBSET Seq(Word)
  BY SeenPlaces
<1>4. m \in Seq(Word) /\ N!Beneath(p, m) /\ N!Beneath(q, m)
  BY <1>1, <1>3 DEF Over
<1>5. p # Root /\ q # Root
  BY <1>1, <1>3, <1>4, RelTop
<1>6. p \in Seen
  <2>1. Place(Attached, dirs, p)
    BY <1>1, <1>3, PlaceAt
  <2> QED BY <2>1, SeenPlaces
<1>7. q \notin Seen
  <2>1. ~Place(Attached, dirs, q)
    BY <1>1, <1>3, PlaceAt
  <2> QED BY <2>1, SeenPlaces
<1>8. ASSUME NEW x \in Paths
      PROVE  x \in Seen' <=> \/ x \in Seen /\ ~N!Beneath(x, p)
                             \/ Brought(Attached, dirs, x, p, q)
  <2>1. x \in Seq(Word)
    BY SeenPlaces
  <2>2. x \in Seen <=> Place(Attached, dirs, x)
    BY SeenPlaces
  <2>3. x \in Seen' <=> Place(Attached, dirs', x)
    BY <1>2, SeenPlaces
  <2>4. PICK A, D, E : A = Attached /\ D = dirs /\ E = dirs'
    OBVIOUS
  <2>5. /\ Volumed(A, D) /\ Over(A, p, m) /\ Over(A, q, m)
        /\ Replanted(D[A[m]], T, Rel(p, m), Rel(q, m)) /\ E = Put(D, A[m], T)
        /\ \A k \in DOMAIN A : ~N!Beneath(k, p)
    BY <1>1, <1>3, <2>4 DEF Put, Unmounted
  <2>6. Place(A, E, x) <=> (Place(A, D, x) /\ ~N!Beneath(x, p)) \/ Brought(A, D, x, p, q)
    BY <1>1, <1>3, <2>1, <2>5, PlaceMove
  <2> QED BY <2>2, <2>3, <2>4, <2>6
<1>9. ASSUME NEW x \in Paths
      PROVE  Brought(Attached, dirs, x, p, q)
               <=> \E r \in Seen : /\ N!Beneath(r, p) /\ x = N!Replant(r, p, q)
                                   /\ ~Hidden(Attached, x, q)
  <2>1. ASSUME NEW r \in Seq(Word), Place(Attached, dirs, r), N!Beneath(r, p), x = N!Replant(r, p, q)
        PROVE  r \in Seen
    <3>1. N!Beneath(x, q) /\ N!Replant(x, q, p) = r
      BY <1>3, <2>1, ReplantIs
    <3>2. r \in Paths
      BY <1>1, <1>5, <3>1 DEF PathsClosed
    <3> QED BY <2>1, <3>2, SeenPlaces
  <2>2. \A r \in Seen : r \in Seq(Word) /\ Place(Attached, dirs, r)
    BY SeenPaths, SeenPlaces
  <2>3. ASSUME Brought(Attached, dirs, x, p, q)
        PROVE  \E r \in Seen : /\ N!Beneath(r, p) /\ x = N!Replant(r, p, q)
                               /\ ~Hidden(Attached, x, q)
    BY <2>1, <2>3 DEF Brought
  <2>4. ASSUME NEW r \in Seen, N!Beneath(r, p), x = N!Replant(r, p, q), ~Hidden(Attached, x, q)
        PROVE  Brought(Attached, dirs, x, p, q)
    BY <2>2, <2>4 DEF Brought
  <2> QED BY <2>3, <2>4
<1>10. \A r \in Seen : N!Beneath(r, p) => N!Replant(r, p, q) \in Paths
  BY <1>1, <1>5, SeenPaths DEF PathsClosed
<1>11. Seen' = {r \in Seen : ~N!Beneath(r, p)}
               \cup {s \in {N!Replant(r, p, q) : r \in {o \in Seen : N!Beneath(o, p)}} :
                       ~Hidden(Attached, s, q)}
  <2>1. ASSUME NEW x PROVE x \in Seen' <=>
           \/ x \in Seen /\ ~N!Beneath(x, p)
           \/ \E r \in Seen : N!Beneath(r, p) /\ x = N!Replant(r, p, q) /\ ~Hidden(Attached, x, q)
    <3>1. CASE x \in Paths
      BY <1>8, <1>9, <3>1
    <3>2. CASE x \notin Paths
      BY <1>10, <3>2, SeenPaths
    <3> QED BY <3>1, <3>2
  <2> QED BY <2>1
<1>12. p \notin Seen'
  <2>1. N!Beneath(p, p)
    BY <1>3, BeneathSelf
  <2>2. ASSUME NEW r \in Seen, N!Beneath(r, p), p = N!Replant(r, p, q) PROVE FALSE
    <3>1. r \in Seq(Word)
      BY SeenPaths, PathsType
    <3>2. N!Beneath(p, q)
      BY <1>3, <2>2, <3>1, ReplantIs
    <3>3. p = Append(N!Parent(p), p[Len(p)]) /\ q = Append(N!Parent(q), q[Len(q)])
          /\ N!Parent(p) \in Seq(Word) /\ p[Len(p)] \in Word /\ q[Len(q)] \in Word
      BY <1>3, <1>5, ParentIs DEF Root
    <3>4. Len(p) = Len(q)
      BY <1>1, <3>3
    <3>5. p = q
      BY <1>3, <3>2, <3>4, BeneathOrder
    <3> QED BY <1>6, <1>7, <3>5
  <2> QED BY <1>11, <2>1, <2>2
<1>13. View!Rename(p, q)
  <2>1. View!Parent(p) = View!Parent(q) /\ p # View!Root /\ q # View!Root /\ View!Free(p)
    BY <1>1, <1>5, ViewIs
  <2>2. Seen' = {r \in Seen : ~View!Beneath(r, p)}
               \cup {s \in {View!Replant(r, p, q) : r \in {o \in Seen : View!Beneath(o, p)}} :
                       ~View!Covered(s, q)}
    BY <1>11, ViewIs
  <2> QED BY <1>6, <1>7, <2>1, <2>2 DEF View!Rename
<1> QED BY <1>2, <1>6, <1>12, <1>13 DEF Step, View!NamespaceNext

(* Volumes come and go at one mount point. *)
LEMMA GraftStep ==
  ASSUME NameInv, NameInv', UNCHANGED dirs, NEW p \in Paths,
         Elsewhere(Attached, Attached', p), View!Attach(p) \/ View!Detach(p)
  PROVE  Step
<1>1. /\ p \in Seq(Word) /\ DOMAIN Attached \in SUBSET Seq(Word)
      /\ DOMAIN Attached' \in SUBSET Seq(Word)
  BY SeenPlaces
<1>2. ASSUME NEW x \in Paths, ~N!Beneath(x, p) \/ Hidden(Attached, x, p)
      PROVE  x \in Seen' <=> x \in Seen
  <2>1. x \in Seq(Word)
    BY SeenPlaces
  <2>2. x \in Seen <=> Place(Attached, dirs, x)
    BY SeenPlaces
  <2>3. x \in Seen' <=> Place(Attached', dirs, x)
    BY SeenPlaces
  <2>4. PICK A, B, D : A = Attached /\ B = Attached' /\ D = dirs
    OBVIOUS
  <2>5. /\ DOMAIN A \in SUBSET Seq(Word) /\ DOMAIN B \in SUBSET Seq(Word)
        /\ Elsewhere(A, B, p) /\ (~N!Beneath(x, p) \/ Hidden(A, x, p))
    BY <1>1, <1>2, <2>4
  <2>6. Place(B, D, x) <=> Place(A, D, x)
    BY <1>1, <2>1, <2>5, PlaceElsewhere
  <2> QED BY <2>2, <2>3, <2>4, <2>6
<1>3. View!Graft(p)
  <2>1. \A m \in DOMAIN Attached \ {p} : Attached'[m] = Attached[m]
    BY DEF Elsewhere
  <2>2. \A r \in Paths : ~View!Beneath(r, p) \/ View!Covered(r, p) => (r \in Seen' <=> r \in Seen)
    BY <1>2, ViewIs
  <2> QED BY <2>1, <2>2 DEF View!Graft
<1>4. CASE Attached' = Attached
  <2>1. ASSUME NEW x \in Paths PROVE x \in Seen' <=> x \in Seen
    BY <1>4, SeenPlaces
  <2>2. Seen' = Seen
    BY <2>1, SeenPaths
  <2> QED BY <1>4, <2>2 DEF Step
<1>5. CASE Attached' # Attached
  BY <1>3, <1>5 DEF Step, View!NamespaceNext
<1> QED BY <1>4, <1>5

LEMMA RootHeld ==
  ASSUME NameInv, NEW p \in DOMAIN Attached
  PROVE  Place(Attached, dirs, p)
<1>1. Volumed(AttachedIn(mounts), dirs)
  BY AttachedAre DEF NameInv, VfsInv, MediaOK
<1>2. /\ DOMAIN Attached \in SUBSET Seq(Word) /\ Attached[p] \in Volumes
  BY <1>1, SeenNow DEF Volumed
<1>3. <<>> \in dirs[Attached[p]]
  BY <1>2 DEF NameInv, Root
<1> QED BY <1>2, <1>3, PlacePoint

LEMMA PointSeen ==
  ASSUME NameInv, NameInv', NEW p \in Paths
  PROVE  /\ p \in DOMAIN Attached => p \in Seen
         /\ p \in DOMAIN Attached' => p \in Seen'
<1>1. p \in DOMAIN Attached => Place(Attached, dirs, p)
  BY RootHeld
<1>2. p \in DOMAIN Attached' => Place(Attached', dirs', p)
  <2>1. Volumed(AttachedIn(mounts'), dirs')
    BY AttachedAre DEF NameInv, VfsInv, MediaOK
  <2>2. PICK B, D : B = Attached' /\ D = dirs'
    OBVIOUS
  <2>3. Volumed(B, D) /\ \A v \in Volumes : <<>> \in D[v]
    BY <2>1, <2>2, SeenNow DEF NameInv, Root
  <2>4. p \in DOMAIN B => Place(B, D, p)
    BY <2>3, PlacePoint DEF Volumed
  <2> QED BY <2>2, <2>4
<1> QED BY <1>1, <1>2, SeenPlaces

LEMMA MountStep ==
  ASSUME NameInv, NameInv', UNCHANGED dirs, NEW p \in Paths, NEW i \in Table,
         Mounted(mounts, mounts', i, p), p # Root => p \in Seen
  PROVE  Step
<1>1. /\ p \in DOMAIN Attached' /\ Elsewhere(Attached, Attached', p)
      /\ p = Root => DOMAIN Attached \in SUBSET {Root}
      /\ p # Root => p \notin DOMAIN Attached
  <2>1. TableIs(mounts)
    BY DEF NameInv
  <2>2. PICK M, B : M = mounts /\ B = mounts'
    OBVIOUS
  <2>3. TableIs(M) /\ Mounted(M, B, i, p)
    BY <2>1, <2>2
  <2>4. /\ p \in DOMAIN AttachedIn(B) /\ Elsewhere(AttachedIn(M), AttachedIn(B), p)
        /\ p = Root => DOMAIN AttachedIn(M) \in SUBSET {Root}
        /\ p # Root => p \notin DOMAIN AttachedIn(M)
    BY <2>3, MountedTable
  <2> QED BY <2>2, <2>4, SeenNow
<1>2. DOMAIN Attached' = DOMAIN Attached \cup {p}
  BY <1>1 DEF Elsewhere
<1>3. View!Attach(p)
  <2>1. p \in Seen'
    BY <1>1, PointSeen
  <2> QED BY <1>1, <1>2, <2>1, ViewIs DEF View!Attach
<1> QED BY <1>1, <1>3, GraftStep

LEMMA UnmountStep ==
  ASSUME NameInv, NameInv', UNCHANGED dirs, NEW i \in Used, Dismounted(mounts, mounts', i)
  PROVE  Step
<1>1. PICK p : p = mounts[i].path
  OBVIOUS
<1>2. /\ p \in DOMAIN Attached /\ p \notin DOMAIN Attached' /\ Elsewhere(Attached, Attached', p)
      /\ \A k \in DOMAIN Attached : k # p => ~N!Beneath(k, p)
  <2>1. TableIs(mounts)
    BY DEF NameInv
  <2>2. PICK M, B : M = mounts /\ B = mounts'
    OBVIOUS
  <2>3. TableIs(M) /\ Dismounted(M, B, i) /\ p = M[i].path
    BY <1>1, <2>1, <2>2
  <2>4. /\ p \in DOMAIN AttachedIn(M) /\ p \notin DOMAIN AttachedIn(B)
        /\ Elsewhere(AttachedIn(M), AttachedIn(B), p)
        /\ \A k \in DOMAIN AttachedIn(M) : k # p => ~N!Beneath(k, p)
    BY <2>3, DismountedTable
  <2> QED BY <2>2, <2>4, SeenNow
<1>3. p \in Paths
  BY <1>1, SeenNow DEF NameInv, TableIs
<1>4. DOMAIN Attached' = DOMAIN Attached \ {p}
  BY <1>2 DEF Elsewhere
<1>5. View!Detach(p)
  <2>1. p \in Seen
    BY <1>2, <1>3, PointSeen
  <2>2. \A m \in DOMAIN Attached \ {p} : ~View!Beneath(m, p)
    BY <1>2, ViewIs
  <2> QED BY <1>2, <1>4, <2>1, <2>2 DEF View!Detach
<1> QED BY <1>2, <1>3, <1>5, GraftStep

LEMMA DoesStep == ASSUME NameInv, NameInv', PathsClosed, Does PROVE Step
  BY StaysStep, AddStep, RemoveStep, MoveStep, MountStep, UnmountStep
     DEF Does, TreeChange, PointChange

LEMMA ViewInit == Init => View!NamespaceInit
<1> SUFFICES ASSUME Init PROVE View!NamespaceInit
  OBVIOUS
<1>1. \A i \in Used : i = 0
  <2>1. \A i \in Table : i # 0 => ~mounts[i].used
    BY DEF Init, Unused
  <2> QED BY <2>1 DEF Used
<1>2. mounts[0].path = Root
  BY VfsAssumption DEF Init, Unused, Table
<1>3. DOMAIN Attached \subseteq {Root}
  BY <1>1, <1>2 DEF Attached
<1> QED BY <1>3, SeenPaths, ViewIs DEF View!NamespaceInit

(* The mount table implements one tree of directories (vfs.inc): at every   *)
(* step of the shell, a command adds, removes or renames one directory of   *)
(* it, or attaches or detaches a volume at one directory, and leaves alone  *)
(* everything else, for any set of devices, paths and table length.  The    *)
(* devices are mounted whole, as the theorems above have it, and the paths  *)
(* are closed under taking the parent and under renaming within it.         *)
THEOREM NamespaceAlwaysRefined == ASSUME WholeDevices, PathsClosed PROVE Spec => NamespaceRefined
<1>1. Init => NameInv /\ View!NamespaceInit
  BY NameInit, ViewInit
<1>2. NameInv /\ [Next]_vars => NameInv' /\ [View!NamespaceNext]_<<Seen, Attached>>
  <2> SUFFICES ASSUME NameInv, [Next]_vars PROVE NameInv' /\ [View!NamespaceNext]_<<Seen, Attached>>
    OBVIOUS
  <2>1. NameInv' /\ Does
    BY NameNext, NextDoes
  <2>2. Step
    BY <2>1, DoesStep
  <2> QED BY <2>1, <2>2 DEF Step
<1> QED BY <1>1, <1>2, PTL DEF Spec, NamespaceRefined, View!NamespaceSpec

=============================================================================
