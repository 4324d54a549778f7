--------------------------------- MODULE Vfs ---------------------------------
(***************************************************************************)
(* The mount table over the one ext2 engine (vfs.inc), the device          *)
(* selection under it (disk.c) and the rename protocol of permissions.c.   *)
(* The engine holds superblock and descriptors of one volume at a time; a  *)
(* path is routed to the volume of its longest mount point, and the engine *)
(* is reloaded when that is not the active one.                            *)
(*                                                                         *)
(* The model starts after login: switch_user has called namespace_start,   *)
(* so the namespace is active, and the user is root.  Commands run one at  *)
(* a time; removable devices come and go between them.                     *)
(*                                                                         *)
(* Data abstractions: a path is its sequence of names, already normalized; *)
(* a volume is its set of directories; files are not kept, but a write of  *)
(* one is a write.  The offset of a partition is its slot number (so a     *)
(* slot always has the same place, after the first superblock of the raw   *)
(* device), 0 for the whole device; every partition is a Linux one.  What  *)
(* no code reads again is cleared: a slot that is not used, the image of   *)
(* an engine that is not mounted, and the engine's cwd, which route sets,  *)
(* between commands.                                                       *)
(***************************************************************************)
EXTENDS Integers, Sequences, FiniteSets

CONSTANTS
  MOUNT_COUNT,   \* slots of the mount table (8)
  Devices,       \* names of devices
  Usb,           \* the removable ones
  BootDevice,    \* what the root was mounted from at boot
  Slots,         \* partition slots in use (1..4)
  Names,         \* <<device, n>>: the names a user may type, n = 0 for no suffix
  Paths,         \* the paths a user may type
  MAX_GENERATION \* bound: enumerations of a USB device

ASSUME VfsAssumption ==
  /\ MOUNT_COUNT \in Nat \ {0}
  /\ Usb \subseteq Devices /\ BootDevice \in Devices \ Usb
  /\ Slots \subseteq 1..4
  /\ Names \subseteq Devices \X (0..4)
  /\ <<>> \in Paths /\ Paths \subseteq Seq(STRING)
  /\ MAX_GENERATION \in Nat

Table == 0..(MOUNT_COUNT - 1)
Volumes == Devices \X (Slots \cup {0})
NoVolume == -1
NoDisk == [id |-> "none", offset |-> 0, generation |-> 0]

VARIABLES
  mounts,      \* [slot]: used, disk, path
  working,     \* the working directory
  eng,         \* the engine: selected (disk.c), mounted, loaded (whose
               \*   superblock and descriptors are in memory), active_volume
               \*   and cwd
  present,     \* [device]: it is there
  generation,  \* [device]: enumerations so far
  mbr,         \* devices whose first sector has the signature of an MBR
  parts,       \* [device]: the slots of its partition table
  ext2,        \* volumes with an ext2 superblock
  unclean,     \* those whose state word is not clean
  dirs,        \* [volume]: its directories
  overwritten  \* volumes written with the image of another

mediaVars == <<mbr, parts, ext2, unclean, dirs, overwritten>>
plugVars == <<present, generation>>
vars == <<mounts, working, eng, plugVars, mediaVars>>

N == INSTANCE Namespace WITH tree <- {}, attached <- <<>>
Root == <<>>

Unused == [used |-> FALSE, disk |-> NoDisk, path |-> Root]
BootDisk == [id |-> BootDevice, offset |-> 0, generation |-> 0]

Init ==
  /\ mounts = [i \in Table |-> IF i = 0 THEN [Unused EXCEPT !.used = TRUE, !.disk = BootDisk]
                                        ELSE Unused]
  /\ working = Root
  /\ eng = [selected |-> BootDisk, mounted |-> TRUE, loaded |-> BootDisk,
            active |-> 0, cwd |-> Root]
  /\ present = [d \in Devices |-> TRUE]
  /\ generation = [d \in Devices |-> 0]
  /\ parts \in {P \in [Devices -> SUBSET Slots] : P[BootDevice] = {}}
  /\ mbr = {d \in Devices : parts[d] # {}}
  /\ ext2 = {<<BootDevice, 0>>} \cup {v \in Volumes : v[2] \in parts[v[1]]}
  /\ unclean = {}
  /\ dirs = [v \in Volumes |-> {Root}]
  /\ overwritten = {}

-----------------------------------------------------------------------------
(* disk.c *)

Vol(disk) == <<disk.id, disk.offset>>
Disk(d, n) == [id |-> d, offset |-> n, generation |-> generation[d]]

(* disk_present: a device that went and came back is another one. *)
Present(disk) ==
  disk.id \in Devices /\ present[disk.id] /\ generation[disk.id] = disk.generation

Least(S) == CHOOSE n \in S : \A m \in S : n <= m

(* select_device without raw: a raw ext2, else the first partition of an   *)
(* MBR, else the whole device; an MBR without a partition is refused.      *)
Selectable(d) == <<d, 0>> \in ext2 \/ d \notin mbr \/ parts[d] # {}
Found(d) == IF <<d, 0>> \in ext2 \/ d \notin mbr THEN 0 ELSE Least(parts[d])

(* select_named: whether it succeeds, and the selection it leaves.  A name *)
(* with a partition suffix selects the whole device before it looks for    *)
(* the partition.                                                          *)
Selection(e, name, raw) ==
  LET d == name[1]
      n == name[2]
  IN  IF ~present[d] \/ (n = 0 /\ ~raw /\ ~Selectable(d))
      THEN [ok |-> FALSE, disk |-> e.selected]
      ELSE IF n = 0 THEN [ok |-> TRUE, disk |-> Disk(d, IF raw THEN 0 ELSE Found(d))]
      ELSE [ok |-> n \in parts[d], disk |-> Disk(d, IF n \in parts[d] THEN n ELSE 0)]

-----------------------------------------------------------------------------
(* The engine: operators take its state e and give the next one.           *)

(* mounted = 0 *)
Lost(e) == [e EXCEPT !.mounted = FALSE, !.loaded = NoDisk]

(* engine_ready notices that the device went. *)
Ready(e) == IF Present(e.selected) THEN e ELSE Lost(e)

(* ext_init of the selected volume *)
ExtInit(e) ==
  IF Present(e.selected) /\ Vol(e.selected) \in ext2 \ unclean
  THEN [e EXCEPT !.mounted = TRUE, !.loaded = e.selected, !.cwd = Root]
  ELSE Lost(e)

Used == {i \in Table : mounts[i].used}
Covers(p) == {i \in Used : N!Beneath(p, mounts[i].path)}

(* Mutant of VolumeFor: the lengths are not compared, and the last slot wins. *)
VolumeForLast(p) ==
  LET covers == Covers(p)
  IN  IF covers = {} THEN NoVolume ELSE CHOOSE i \in covers : \A j \in covers : j <= i

(* volume_for: the longest mount point above the path *)
VolumeFor(p) ==
  LET covers == Covers(p)
  IN  IF covers = {} THEN NoVolume
      ELSE CHOOSE i \in covers : \A j \in covers : Len(mounts[j].path) <= Len(mounts[i].path)

(* Mutants of Activate: disk_restore and ext_init are forgotten. *)
ActivateNoRestore(e, v) ==
  IF v = NoVolume THEN e
  ELSE IF e.active = v THEN Ready(e) ELSE [ExtInit(e) EXCEPT !.active = v]

ActivateNoReload(e, v) ==
  IF v = NoVolume THEN e
  ELSE IF e.active = v THEN Ready(e)
  ELSE [e EXCEPT !.selected = mounts[v].disk, !.active = v]

Activate(e, v) ==
  IF v = NoVolume THEN e
  ELSE IF e.active = v THEN Ready(e)
  ELSE LET r == ExtInit([e EXCEPT !.selected = mounts[v].disk, !.active = NoVolume])
       IN  IF r.mounted THEN [r EXCEPT !.active = v] ELSE r

Active(e, v) == v # NoVolume /\ e.active = v /\ e.mounted

Local(p, v) == SubSeq(p, Len(mounts[v].path) + 1, Len(p))

(* The directories that reads of the selected medium show *)
Shown(e) == dirs[Vol(e.selected)]

(* route of a path, and route of its parent with ext_cd *)
Route(e, p) ==
  LET v == VolumeFor(p)
      r == Activate(e, v)
  IN  IF Active(r, v) THEN [r EXCEPT !.cwd = Root] ELSE r
Routed(r, p) == Active(r, VolumeFor(p))

RoutedParent(r, p) ==
  LET v == VolumeFor(p)
  IN  /\ Active(r, v)
      /\ Local(p, v) # Root
      /\ N!Parent(Local(p, v)) \in Shown(r)

RouteParent(e, p) ==
  LET r == Route(e, p)
  IN  IF RoutedParent(r, p) THEN [r EXCEPT !.cwd = N!Parent(Local(p, VolumeFor(p)))] ELSE r

(* The entry that an operation on the base name of p reaches from the cwd *)
Entry(r, p) == Append(r.cwd, p[Len(p)])

IsDir(r, p) == Routed(r, p) /\ Local(p, VolumeFor(p)) \in Shown(r)

(* The engine after a command *)
Rest(e) == [e EXCEPT !.cwd = Root]

(* A write of the engine lands on the selected medium. *)
Written(r) == overwritten' = IF r.selected = r.loaded THEN overwritten
                             ELSE overwritten \cup {Vol(r.selected)}

(* finish: the change D of the directories is committed, after which the   *)
(* engine is in the state e; or an I/O error unmounts the volume and       *)
(* leaves it unclean.                                                      *)
Fails(r) ==
  /\ eng' = Rest(Lost(r))
  /\ unclean' = unclean \cup {Vol(r.selected)}

Commit(r, D, e) ==
  /\ Written(r)
  /\ \/ eng' = Rest(e) /\ dirs' = D /\ UNCHANGED unclean
     \/ Fails(r) /\ dirs' \in {dirs, D}

(* Mutant of Protected: the working directory is not looked at. *)
ProtectedMounts(p) == \E i \in Used : N!Beneath(mounts[i].path, p)

(* protects_mount *)
Protected(p) == (\E i \in Used : N!Beneath(mounts[i].path, p)) \/ N!Beneath(working, p)

-----------------------------------------------------------------------------
(* Commands on paths.  A command that fails may still have switched the    *)
(* engine to another volume.                                               *)

Mkdir(p) ==
  /\ \E r \in {RouteParent(eng, p)} :
     \E done \in {RoutedParent(r, p) /\ Entry(r, p) \notin Shown(r) /\ Entry(r, p) \in Paths} :
       \/ /\ done
          /\ Commit(r, [dirs EXCEPT ![Vol(r.selected)] = @ \cup {Entry(r, p)}], r)
       \/ /\ ~done
          /\ eng' = Rest(r)
          /\ UNCHANGED <<dirs, unclean, overwritten>>
  /\ UNCHANGED <<mounts, working, plugVars, mbr, parts, ext2>>

Rmdir(p) ==
  /\ ~Protected(p)
  /\ \E r \in {RouteParent(eng, p)} :
     \E done \in {/\ RoutedParent(r, p)
                  /\ {q \in Shown(r) : N!Beneath(q, Entry(r, p))} = {Entry(r, p)}} :
       \/ /\ done
          /\ Commit(r, [dirs EXCEPT ![Vol(r.selected)] = @ \ {Entry(r, p)}], r)
       \/ /\ ~done
          /\ eng' = Rest(r)
          /\ UNCHANGED <<dirs, unclean, overwritten>>
  /\ UNCHANGED <<mounts, working, plugVars, mbr, parts, ext2>>

(***************************************************************************)
(* fs_mv.  permissions_move_prepare reads /etc/access.cfg, which routes to *)
(* the volume of /etc; when the rename concerns its records (acl),         *)
(* permissions_move_commit and permissions_move_finish write it, before    *)
(* and after ext_mv, and leave the engine in /etc.                         *)
(***************************************************************************)
AclFile == <<"etc", "access.cfg">>

(* "Publishing ACLs changes the cached directory; select the source again." *)
Reselect(e, p) == RouteParent(e, p)

(* How the rename ends once the engine has been e1, ..., e4 after each of   *)
(* the routed calls.                                                        *)
MvEnd(p, q, acl, e1, e2, e3, e4, same, guarded) ==
  LET from == Entry(e4, p)
      to == Append(e4.cwd, q[Len(q)])
      done == guarded /\ RoutedParent(e4, p) /\ from \in Shown(e4) /\ to \notin Shown(e4)
      moved == {N!Replant(r, from, to) : r \in {s \in Shown(e4) : N!Beneath(s, from)}}
      D == [dirs EXCEPT ![Vol(e4.selected)] = {r \in @ : ~N!Beneath(r, from)} \cup moved]
      e5 == IF acl THEN RouteParent(e4, AclFile) ELSE e4
  IN  \/ /\ done
         /\ moved \subseteq Paths
         /\ \/ Commit(e4, D, e5)
            \/ acl /\ dirs' = D /\ Fails(e5) /\ Written(e5)
      \/ /\ guarded /\ acl                 \* permissions_move_commit fails
         /\ Fails(e3) /\ Written(e3)
         /\ UNCHANGED dirs
      \/ /\ ~done
         /\ eng' = Rest(IF ~RoutedParent(e1, p) THEN e1
                        ELSE IF ~same THEN e2 ELSE IF ~guarded THEN e3 ELSE e4)
         /\ UNCHANGED <<dirs, unclean, overwritten>>

MvWithin(p, q, acl, e0) ==
  \E e1 \in {RouteParent(e0, p)} :
  \E e2 \in {RouteParent(e1, q)} :
  \E same \in {RoutedParent(e1, p) /\ RoutedParent(e2, q) /\ e2.cwd = e1.cwd} :
  \E e3 \in {IF acl THEN RouteParent(e2, AclFile) ELSE e2} :
  \E guarded \in {same /\ (acl => RoutedParent(e3, AclFile))} :
  \E e4 \in {Reselect(e3, p)} :
    MvEnd(p, q, acl, e1, e2, e3, e4, same, guarded)

Mv(p, q, acl) ==
  /\ \E e0 \in {Route(eng, AclFile)} :
       /\ acl => Routed(e0, AclFile)          \* records exist only if the file was read
       /\ \/ /\ Protected(p) \/ VolumeFor(p) # VolumeFor(q)
             /\ eng' = e0
             /\ UNCHANGED <<dirs, unclean, overwritten>>
          \/ /\ ~Protected(p) /\ VolumeFor(p) = VolumeFor(q)
             /\ MvWithin(p, q, acl, e0)
  /\ UNCHANGED <<mounts, working, plugVars, mbr, parts, ext2>>

Cd(p) ==
  /\ \E r \in {Route(eng, p)} :
       /\ eng' = Rest(r)
       /\ working' = IF IsDir(r, p) THEN p ELSE working
  /\ UNCHANGED <<mounts, plugVars, mediaVars>>

(* fs_size, fs_read, fs_ls, fs_stat, ...: nothing changes but the engine. *)
Access(p) ==
  /\ eng' = Route(eng, p)
  /\ UNCHANGED <<mounts, working, plugVars, mediaVars>>

(* fs_write, fs_append, fs_touch, fs_rm of the file p, or fs_cp to it from  *)
(* the file q (q = p for the others) *)
WriteFile(q, p) ==
  /\ \E e \in {Route(eng, q)} :
     \E r \in {RouteParent(e, p)} :
       /\ Routed(e, q) /\ RoutedParent(r, p)
       /\ Commit(r, dirs, r)
  /\ UNCHANGED <<mounts, working, plugVars, mbr, parts, ext2>>

(* fs_sync visits every mounted volume. *)
Sync ==
  LET visit[i \in 0..MOUNT_COUNT] ==
        IF i = 0 THEN eng
        ELSE IF i - 1 \in Used THEN Activate(visit[i - 1], i - 1) ELSE visit[i - 1]
  IN  /\ eng' = visit[MOUNT_COUNT]
      /\ UNCHANGED <<mounts, working, plugVars, mediaVars>>

-----------------------------------------------------------------------------
(* Commands on volumes *)

SlotFor(p) ==
  LET same == {i \in Used : mounts[i].path = p}
      free == Table \ Used
  IN  IF same # {} THEN (IF p = Root THEN CHOOSE i \in same : TRUE ELSE NoVolume)
      ELSE IF free = {} THEN NoVolume ELSE Least(free)

(* The rest of fs_mount after the mount point has been accepted: the       *)
(* device is selected, compared with what is mounted, and loaded.          *)
MountOn(e, name, p, slot) ==
  LET s == Selection(e, name, FALSE)
      next == [e EXCEPT !.selected = s.disk, !.active = NoVolume]
      twice == \E i \in Used \ {slot} : Vol(mounts[i].disk) = Vol(s.disk)
      r == ExtInit(next)
  IN  IF ~s.ok
      THEN eng' = [e EXCEPT !.selected = s.disk] /\ UNCHANGED <<mounts, working>>
      ELSE IF twice THEN eng' = next /\ UNCHANGED <<mounts, working>>
      ELSE IF ~r.mounted THEN eng' = r /\ UNCHANGED <<mounts, working>>
      ELSE /\ eng' = [r EXCEPT !.active = slot]
           /\ mounts' = [mounts EXCEPT ![slot] = [used |-> TRUE, disk |-> s.disk, path |-> p]]
           /\ working' = IF p = Root THEN Root ELSE working

Mount(name, p) ==
  /\ SlotFor(p) # NoVolume
  /\ \E e \in {IF p = Root THEN eng ELSE Route(eng, p)} :
       \/ /\ p # Root /\ ~IsDir(e, p)
          /\ eng' = e
          /\ UNCHANGED <<mounts, working>>
       \/ /\ p = Root => \A i \in Used : mounts[i].path = Root
          /\ p # Root => IsDir(e, p)
          /\ MountOn(e, name, p, SlotFor(p))
  /\ UNCHANGED <<plugVars, mediaVars>>

(* Another volume is mounted below this one. *)
Nested(v) == \E i \in Used \ {v} : N!Beneath(mounts[i].path, mounts[v].path)

(* fs_unmount_path; without an argument p is the working directory. *)
Unmount(p, named) ==
  LET v == VolumeFor(p)
      back == [eng EXCEPT !.selected = mounts[v].disk, !.active = NoVolume]
      r == Activate(back, v)
  IN  /\ named \/ p = working
      /\ v # NoVolume
      /\ named => mounts[v].path = p
      /\ ~Nested(v)
      /\ IF Present(back.selected) /\ ~Active(r, v)
         THEN eng' = r /\ UNCHANGED <<mounts, working>>
         ELSE /\ mounts' = [mounts EXCEPT ![v] = Unused]
              /\ eng' = [eng EXCEPT !.selected = NoDisk, !.mounted = FALSE, !.loaded = NoDisk,
                                    !.active = NoVolume]
              /\ working' = IF N!Beneath(working, mounts[v].path) THEN Root ELSE working
      /\ UNCHANGED <<plugVars, mediaVars>>

(***************************************************************************)
(* fs_format and what fs_format_selected (Ext2Commit has its steps) leaves *)
(* on the medium.  A volume that overlaps v keeps its superblock unless    *)
(* the new metadata happen to cover it; a whole device loses its MBR.      *)
(***************************************************************************)
Overlap(v, w) == v[1] = w[1] /\ (v[2] = w[2] \/ v[2] = 0 \/ w[2] = 0)

\* Block 0 is zeroed; the metadata may cover superblocks of other volumes.
Covered(v) == SUBSET {w \in ext2 : v[2] = 0 /\ w[1] = v[1]}
Unsigned(v) == /\ mbr' = IF v[2] = 0 THEN mbr \ {v[1]} ELSE mbr
               /\ parts' = IF v[2] = 0 THEN [parts EXCEPT ![v[1]] = {}] ELSE parts

Formatted(v) ==
  /\ \E lost \in Covered(v) : /\ ext2' = (ext2 \ lost) \cup {v}
                              /\ unclean' = unclean \ (lost \cup {v})
  /\ dirs' = [dirs EXCEPT ![v] = {Root}]
  /\ Unsigned(v)

(* A write fails, at block 0 or later: the volume is left marked unclean. *)
HalfFormatted(v) ==
  /\ \E lost \in Covered(v) : /\ ext2' = (ext2 \ lost) \cup {v}
                              /\ unclean' = (unclean \ lost) \cup {v}
                              /\ Unsigned(v) \/ (lost = {} /\ UNCHANGED <<mbr, parts>>)
  /\ UNCHANGED dirs

Format(name) ==
  LET s == Selection(eng, name, TRUE)
      v == Vol(s.disk)
      next == [eng EXCEPT !.selected = s.disk, !.active = NoVolume]
  IN  /\ \/ /\ ~s.ok
            /\ eng' = [eng EXCEPT !.selected = s.disk]
            /\ UNCHANGED <<mbr, parts, ext2, unclean, dirs>>
         \/ /\ s.ok
            /\ \E i \in Used : Overlap(Vol(mounts[i].disk), v)
            /\ eng' = next
            /\ UNCHANGED <<mbr, parts, ext2, unclean, dirs>>
         \/ /\ s.ok
            /\ \A i \in Used : ~Overlap(Vol(mounts[i].disk), v)
            /\ eng' = Lost(next)
            /\ Formatted(v) \/ HalfFormatted(v)
      /\ UNCHANGED <<mounts, working, plugVars, overwritten>>

(***************************************************************************)
(* fs_fdisk: new, auto and delete change one entry of the table that       *)
(* partition_read accepts, wipe clears all; partition_write signs the      *)
(* sector.  A disk with a mounted volume is refused, and the selection is  *)
(* left as it was.                                                         *)
(***************************************************************************)
TableReadable(d) == d \in mbr \/ <<d, 0>> \notin ext2

Fdisk(d, P) ==
  /\ present[d]
  /\ \A i \in Used : mounts[i].disk.id # d
  /\ \/ P = {}
     \/ TableReadable(d) /\ \E n \in Slots : P \in {parts[d] \cup {n}, parts[d] \ {n}}
  /\ parts' = [parts EXCEPT ![d] = P]
  /\ mbr' = mbr \cup {d}
  /\ UNCHANGED <<mounts, working, eng, plugVars, ext2, unclean, dirs, overwritten>>

-----------------------------------------------------------------------------
(* A USB device is pulled out, or found again by the next enumeration. *)
Unplug(d) ==
  /\ present[d]
  /\ present' = [present EXCEPT ![d] = FALSE]
  /\ UNCHANGED <<mounts, working, eng, generation, mediaVars>>

Plug(d) ==
  /\ ~present[d]
  /\ generation[d] < MAX_GENERATION
  /\ present' = [present EXCEPT ![d] = TRUE]
  /\ generation' = [generation EXCEPT ![d] = @ + 1]
  /\ UNCHANGED <<mounts, working, eng, mediaVars>>

Next ==
  \/ \E p \in Paths : Mkdir(p) \/ Rmdir(p) \/ Cd(p) \/ Access(p)
  \/ \E p, q \in Paths, acl \in BOOLEAN : Mv(p, q, acl)
  \/ \E p, q \in Paths : WriteFile(Append(q, "file"), Append(p, "file"))
  \/ Sync
  \/ \E name \in Names, p \in Paths : Mount(name, p)
  \/ \E p \in Paths, named \in BOOLEAN : Unmount(p, named)
  \/ \E name \in Names : Format(name)
  \/ \E name \in Names, P \in SUBSET Slots : Fdisk(name[1], P)
  \/ \E d \in Usb : Unplug(d) \/ Plug(d)

Spec == Init /\ [][Next]_vars

-----------------------------------------------------------------------------
(* Properties *)

(* "Only one image is cached: switching volumes reloads it": when the       *)
(* engine counts as loaded with an active volume, the device that disk.c    *)
(* has selected and the superblock in memory are both that volume's.  The   *)
(* test after fs_mount("missing", ...) expects the same of a failed mount.  *)
EngineCoherent ==
  (eng.mounted /\ eng.active # NoVolume) =>
    /\ mounts[eng.active].used
    /\ eng.selected = mounts[eng.active].disk
    /\ eng.loaded = mounts[eng.active].disk

(* No volume is ever written with blocks that belong to another. *)
NeverOverwritten == overwritten = {}

(* Two slots never hold the same path, nor the same or an overlapping piece *)
(* of a device: nothing is mounted twice under two caches.                  *)
MountsApart ==
  \A i, j \in Used : i # j =>
    /\ mounts[i].path # mounts[j].path
    /\ ~Overlap(Vol(mounts[i].disk), Vol(mounts[j].disk))

(* What the user sees: a path is where its longest mount point leads. *)
Seen == {p \in Paths : \E v \in {VolumeFor(p)} :
           v # NoVolume /\ Local(p, v) \in dirs[Vol(mounts[v].disk)]}
Attached == [m \in {mounts[i].path : i \in Used} |->
               Vol(mounts[CHOOSE i \in Used : mounts[i].path = m].disk)]

(* The working directory is never removed or renamed away, not even on      *)
(* another volume than the active one; only a mount above it can hide it.   *)
WorkingKept ==
  [][(dirs' # dirs /\ UNCHANGED <<working, mounts>> /\ working \in Seen)
       => working \in Seen']_vars

(* The mount table implements one tree of directories: wherever the volumes *)
(* are, a command adds, removes or renames one directory, or attaches or    *)
(* detaches a volume and changes nothing outside its mount point.           *)
View == INSTANCE Namespace WITH tree <- Seen, attached <- Attached
NamespaceRefined == View!NamespaceSpec

=============================================================================
