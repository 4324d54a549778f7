-------------------------------- MODULE Setup --------------------------------
(***************************************************************************)
(* Barnix Setup (Setup/wizard.c): the pages of the wizard, the layout that *)
(* is built from the MBR of the chosen disk, and install_image(), which    *)
(* writes boot area, EFI partition and root and publishes sector 0 last;   *)
(* with fdisk.inc, which makes the tables Setup meets.  Pages are left by  *)
(* Enter or ESC, drives may be swapped in the socket at any moment (a new  *)
(* generation), also between the comparison of a disk operation and its    *)
(* transfer, every operation on the disk may fail, and power may go        *)
(* while writes are still in the drive's cache.  A drive is its sector 0   *)
(* (table and origin), the boot area behind it, the ESP and the root, each *)
(* as cached and as stored.  The files of the template are one write.      *)
(***************************************************************************)
EXTENDS Partitions

CONSTANTS Drives, Capacity,   \* the drives and their sectors
          Edited,             \* drives fdisk was used on before
          RootMin, RootMax,   \* ROOT_SECTORS, FS_MAX_BLOCKS * 2
          EspSize,            \* ESP_SECTORS
          Sizes,              \* sizes that new partitions are given by hand
          Foreign,            \* bound on the slots fdisk uses
          Swaps               \* bound on the generation

ASSUME SetupAssumption == /\ Edited \subseteq Drives /\ Sizes \subseteq Nat
                          /\ RootMin \in Nat /\ RootMax \in Nat /\ EspSize \in Nat
                          /\ \A d \in Drives : Capacity[d] \in Nat

VARIABLES
  efi,      \* the build: BARNIX_EFI or not
  socket,   \* the drive in the socket and its generation
  disk,     \* per drive, what is stored and what its cache holds
  page,     \* where setup_run is
  target,   \* targets[selected].disk: the generation and size scanned
  plan,     \* layout, layout_mode, root_slot, esp_slot
  people,   \* user_count
  harmed,   \* history: drives on which a partition to be kept was written
  astray,   \* history: drives hit by a write that was compared with another
  begun     \* history: mode and build of the last installation on a drive

setupVars == <<efi, socket, disk, page, target, plan, people, harmed, astray, begun>>

Parts == {"mbr", "boot", "esp", "root"}
Fresh == [mbr  |-> [table |-> NoTable, by |-> "none"], boot |-> "bad", esp |-> "bad",
          root |-> [step |-> 0, users |-> 0]]
Never == 3   \* no installation was begun
NoPlan == [table |-> NoTable, sectors |-> 0, mode |-> 0, root |-> NoSlot, esp |-> NoSlot]

\* Commits of the root: format, template with identity and names, accounts.
Complete == 3

\* A drive fdisk was not used on carries a system of an earlier Setup.
Earlier ==
  [mbr |-> [table |-> Added(NoTable, 1, Align, RootMin, Data), by |-> "setup"],
   boot |-> "new", esp |-> "bad", root |-> [step |-> Complete, users |-> 2]]

SetupInit ==
  /\ efi = FALSE
  /\ \E d \in Drives : socket = [drive |-> d, generation |-> 0]
  /\ disk = [d \in Drives |-> IF d \in Edited THEN [stored |-> Fresh, cached |-> Fresh]
                             ELSE [stored |-> Earlier, cached |-> Earlier]]
  /\ page = "live" /\ target = [generation |-> 0, sectors |-> 0]
  /\ plan = NoPlan /\ people = 0
  /\ harmed = {} /\ astray = {}
  /\ begun = [d \in Drives |-> [mode |-> Never, efi |-> FALSE]]

Here == socket.drive
Put(p, v) == [disk EXCEPT ![Here].cached[p] = v]
PutFlushed(p, v) ==
  LET c == [disk[Here].cached EXCEPT ![p] = v]
  IN  [disk EXCEPT ![Here] = [stored |-> c, cached |-> c]]

\* Writes still in the cache of a drive may be lost, each on its own.
Settled(d, kept) ==
  LET v == [p \in Parts |-> IF p \in kept THEN disk[d].cached[p] ELSE disk[d].stored[p]]
  IN  [stored |-> v, cached |-> v]
Unflushed(d) == {p \in Parts : disk[d].cached[p] # disk[d].stored[p]}

---------------------------------------------------------------------------
(* fdisk, on a drive with nothing mounted, before Setup is used on it.     *)

\* Nothing of the drive is mounted, and Setup has not used it yet (a bound).
FdiskFree(d) == page = "live" /\ begun[d].mode = Never /\ socket.generation = 0
fdisk(d, t) ==
  LET v == [disk[d].cached EXCEPT !.mbr = [table |-> t, by |-> "fdisk"]]
  IN  /\ FdiskFree(d)
      /\ partition_validate(t, Capacity[d]) /\ InUse(t) \subseteq 1..Foreign
      /\ disk' = [disk EXCEPT ![d] = [stored |-> v, cached |-> v]]
      /\ UNCHANGED <<efi, socket, page, target, plan, people, harmed, astray, begun>>

FdiskNew(d, s, start, size) ==
  LET t == disk[d].cached.mbr.table
  IN  /\ FdiskFree(d) /\ CanAdd(t, Capacity[d], s, start, size, Data)
      /\ fdisk(d, Added(t, s, start, size, Data))
FdiskAuto(d, size) ==
  LET t == disk[d].cached.mbr.table
  IN  /\ FdiskFree(d) /\ AutoSlot(t, Capacity[d], size, Data) # NoSlot
      /\ fdisk(d, AutoAdded(t, Capacity[d], size, Data))
FdiskDelete(d, s) ==
  LET t == disk[d].cached.mbr.table
  IN  fdisk(d, [t EXCEPT ![s] = Unused])
FdiskWipe(d) == fdisk(d, NoTable)

---------------------------------------------------------------------------
(* The pages.                                                              *)

Turn(from, to) ==
  /\ page = from /\ page' = to
  /\ UNCHANGED <<efi, socket, disk, target, plan, harmed, astray, begun>>

StartSetup(build) ==
  /\ page = "live" /\ page' = "welcome" /\ efi' = build
  /\ UNCHANGED <<socket, disk, target, plan, people, harmed, astray, begun>>

\* choose_disk(): scan_targets() on entry and at R, Enter when it is large enough.
ScanTargets(from) ==
  /\ page = from /\ page' = "disk"
  /\ target' = [generation |-> socket.generation, sectors |-> Capacity[Here]]
  /\ plan' = NoPlan /\ people' = 0   \* both are made anew before they are used
  /\ UNCHANGED <<efi, socket, disk, harmed, astray, begun>>

InstallSectors == Align + (IF efi THEN EspSize ELSE 0) + RootMin

Pages ==
  \/ /\ \/ Turn("welcome", "live") \/ Turn("disk", "welcome")
        \/ target.sectors >= InstallSectors /\ Turn("disk", "layout")
        \/ Turn("profile", "settings") \/ Turn("settings", "profile")
        \/ Turn("review", "settings") \/ Turn("manual", "layout")
        \/ Turn("review", "check") \/ Turn("ready", "live")
     /\ UNCHANGED people
  \* configure_users() starts from nobody and counts two at its end.
  \/ Turn("settings", "users") /\ people' = 0
  \/ Turn("users", "review") /\ people' = 2
  \/ Turn("users", "settings") /\ UNCHANGED people
  \/ \E from \in {"welcome", "disk", "layout", "profile", "error"} : ScanTargets(from)

valid_layout(p) ==
  /\ partition_validate(p.table, p.sectors) /\ p.root # NoSlot
  /\ p.table[p.root].type = Data /\ p.table[p.root].size \in RootMin..RootMax
  /\ \A s \in InUse(p.table) : p.table[s].start >= Align
  /\ efi => p.esp # NoSlot /\ p.table[p.esp].type = Efi /\ p.table[p.esp].size >= EspSize

\* choose_layout(): the table of the drive that is in the socket now.
Automatic(mode) ==
  LET n  == IF mode = 0 THEN target.sectors ELSE Capacity[Here]
      t0 == IF mode = 0 THEN NoTable ELSE disk[Here].cached.mbr.table
      e  == AutoSlot(t0, n, EspSize, Efi)
      t1 == IF efi THEN AutoAdded(t0, n, EspSize, Efi) ELSE t0
      r  == AutoSlot(t1, n, 0, Data)
      t2 == AutoAdded(t1, n, 0, Data)
      p  == [table |-> IF r = NoSlot THEN t2
                       ELSE [t2 EXCEPT ![r].size = IF @ > RootMax THEN RootMax ELSE @],
             sectors |-> n, mode |-> mode, root |-> r, esp |-> IF efi THEN e ELSE NoSlot]
  IN  /\ page = "layout" /\ valid_layout(p)
      /\ plan' = p /\ page' = "profile"
      /\ UNCHANGED <<efi, socket, disk, target, people, harmed, astray, begun>>

Edit(p, to) == plan' = p /\ page' = to
               /\ UNCHANGED <<efi, socket, disk, target, people, harmed, astray, begun>>

ManualOpen == page = "layout" /\
  Edit([table |-> disk[Here].cached.mbr.table, sectors |-> Capacity[Here], mode |-> 2,
        root |-> NoSlot, esp |-> NoSlot], "manual")
ManualNew(s, start, size, type) ==
  page = "manual" /\ CanAdd(plan.table, plan.sectors, s, start, size, type)
  /\ Edit([plan EXCEPT !.table = Added(@, s, start, size, type)], "manual")
ManualDelete(s) ==
  page = "manual" /\ Edit([plan EXCEPT !.table[s] = Unused], "manual")
ManualClear == page = "manual" /\ Edit([plan EXCEPT !.table = NoTable], "manual")
\* r and e only set numbers that w checks, so they are taken together with w.
ManualAccept(r, e) ==
  LET p == [plan EXCEPT !.root = r, !.esp = e]
  IN  page = "manual" /\ valid_layout(p) /\ Edit(p, "profile")

---------------------------------------------------------------------------
(* install_image().  The pages from "check" on are its positions.          *)

\* Mutant of SameDrive: the generation is not compared.
SameDriveSectors == target.sectors = Capacity[Here]

\* disk_select_raw() and the comparison with what was scanned.
SameDrive == target.generation = socket.generation /\ target.sectors = Capacity[Here]

\* The partitions on the drive that the plan keeps.
Kept == LET found == disk[Here].cached.mbr.table
        IN  IF plan.mode = 0 THEN {}
            ELSE {s \in InUse(found) \ {plan.root, plan.esp} :
                    plan.mode = 1 \/ plan.table[s] = found[s]}

\* Every disk operation is refused when the generation has moved on.  Here
\* the transfer follows at once; LateExchange has the other case.
Go(from, to, d, sectors) ==
  /\ page = from /\ SameDrive /\ page' = to /\ disk' = d
  /\ harmed' = IF \E s \in Kept : sectors \cap Sectors(disk[Here].cached.mbr.table[s]) # {}
               THEN harmed \cup {Here} ELSE harmed
  /\ UNCHANGED <<efi, socket, target, plan, people, astray, begun>>

Check == page = "check" /\ valid_layout(plan) /\ target.sectors >= InstallSectors
         /\ SameDrive /\ page' = "erase"
         /\ UNCHANGED <<efi, socket, disk, target, plan, people, harmed, astray, begun>>

\* Erase mode clears sector 0 first.
Cleared == IF plan.mode = 0 THEN PutFlushed("mbr", Fresh.mbr) ELSE disk
EraseFirst ==
  /\ page = "erase" /\ SameDrive /\ page' = "boot"
  /\ disk' = Cleared
  /\ begun' = [begun EXCEPT ![Here] = [mode |-> plan.mode, efi |-> efi]]
  /\ UNCHANGED <<efi, socket, target, plan, people, harmed, astray>>

\* A long write ends whole or wrong: silently, or because InstallFails next.
WriteBoot ==
  \E v \in {"new", "bad"} :
    Go("boot", IF efi THEN "esp" ELSE "verify", Put("boot", v), 1..(Align - 1))
WriteEsp ==
  LET start == plan.table[plan.esp].start
  IN  \E v \in {"new", "bad"} :
        Go("esp", "verify", Put("esp", v), start .. (start + EspSize - 1))

\* Mutant of Verified: what was written is not read back.
VerifiedNot == TRUE

\* disk_flush(), then what the build boots from is read back.
Verified == disk[Here].cached[IF efi THEN "esp" ELSE "boot"] = "new"
Verify ==
  Verified /\ Go("verify", "root", [disk EXCEPT ![Here].stored = disk[Here].cached], {})

\* Each step of the root ends in a commit of the filesystem.
WriteRoot ==
  LET now == disk[Here].cached.root
      new == IF page = "root" THEN 1 ELSE now.step + 1
      users == IF new = Complete THEN people ELSE 0
  IN  /\ page \in {"root", "files"}
      /\ Go(page, IF new = Complete THEN "publish" ELSE "files",
            PutFlushed("root", [step |-> new, users |-> users]),
            Sectors(plan.table[plan.root]))

PublishWrite == valid_layout(plan) /\
  Go("publish", "flush", Put("mbr", [table |-> plan.table, by |-> "setup"]), {0})
PublishFlush == Go("flush", "ready", [disk EXCEPT ![Here].stored = disk[Here].cached], {})

Positions == {"check", "erase", "boot", "esp", "verify", "root", "files", "publish", "flush"}

\* Any disk operation or check fails: restore_live and the error page, from
\* where layout and users are asked for again.
InstallFails ==
  /\ page \in Positions /\ page' = "error" /\ plan' = NoPlan /\ people' = 0
  /\ UNCHANGED <<efi, socket, disk, target, harmed, astray, begun>>

---------------------------------------------------------------------------
(* The world around.                                                       *)

Swap(d) ==
  /\ socket.generation < Swaps
  /\ socket' = [drive |-> d, generation |-> socket.generation + 1]
  /\ \E kept \in SUBSET Unflushed(Here) : disk' = [disk EXCEPT ![Here] = Settled(Here, kept)]
  /\ UNCHANGED <<efi, page, target, plan, people, harmed, astray, begun>>

\* What one sector of the installation does to a drive it was not meant for.
Misplaced(x) ==
  CASE page = "erase" /\ plan.mode = 0 -> {[x EXCEPT !.cached["mbr"] = Fresh.mbr]}
    [] page = "publish" ->
         {[x EXCEPT !.cached["mbr"] = [table |-> plan.table, by |-> "setup"]]}
    [] page = "boot" -> {x, [x EXCEPT !.cached["boot"] = Fresh.boot]}
    [] page \in {"esp", "root", "files"} ->
         {x} \cup {[x EXCEPT !.cached[p] = Fresh[p]] : p \in {"esp", "root"}}
    [] OTHER -> {x}

\* disk_present() compares the generation, and the transfer polls the ports
\* once more: the drive that this poll finds takes the operation.  The next
\* one is refused, which ends the installation; after the last disk_flush
\* there is no next one.
LateExchange(d) ==
  /\ page \in Positions \ {"check"} /\ SameDrive /\ socket.generation < Swaps
  /\ socket' = [drive |-> d, generation |-> socket.generation + 1]
  /\ \E kept \in SUBSET Unflushed(Here) :
       LET left == [disk EXCEPT ![Here] = Settled(Here, kept)]
       IN  \E x \in Misplaced(left[d]) : disk' = [left EXCEPT ![d] = x]
  /\ astray' = astray \cup {d} /\ harmed' = harmed \cup {d}
  /\ IF page = "flush" THEN page' = "ready" /\ UNCHANGED <<plan, people>>
     ELSE page' = "error" /\ plan' = NoPlan /\ people' = 0
  /\ UNCHANGED <<efi, target, begun>>

SetupPowerLoss ==
  /\ page # "live" /\ page' = "live" /\ plan' = NoPlan /\ people' = 0
  /\ \E kept \in SUBSET Unflushed(Here) : disk' = [disk EXCEPT ![Here] = Settled(Here, kept)]
  /\ UNCHANGED <<efi, socket, target, harmed, astray, begun>>

Starts == {n \in UNION {1..Capacity[d] : d \in Drives} : n % Align = 0}
SetupNext ==
  \/ \E d \in Edited, s \in 1..Slots, a \in Starts, n \in Sizes : FdiskNew(d, s, a, n)
  \/ \E d \in Edited, n \in Sizes : FdiskAuto(d, n)
  \/ \E d \in Edited, s \in 1..Slots : FdiskDelete(d, s)
  \/ \E d \in Edited : FdiskWipe(d)
  \/ \E build \in BOOLEAN : StartSetup(build)
  \/ Pages \/ ManualOpen
  \/ \E mode \in 0..1 : Automatic(mode)
  \/ \E s \in 1..Slots, a \in Starts, n \in Sizes :
       \E type \in IF efi THEN {Data, Efi} ELSE {Data} : ManualNew(s, a, n, type)
  \/ \E s \in 1..Slots : ManualDelete(s)
  \/ ManualClear
  \/ \E r \in 1..Slots, e \in IF efi THEN 1..Slots ELSE {NoSlot} : ManualAccept(r, e)
  \/ Check \/ EraseFirst \/ WriteBoot \/ WriteEsp \/ Verify \/ WriteRoot
  \/ PublishWrite \/ PublishFlush \/ InstallFails
  \/ \E d \in Drives : Swap(d) \/ LateExchange(d)
  \/ SetupPowerLoss

SetupSpec == SetupInit /\ [][SetupNext]_setupVars

---------------------------------------------------------------------------
\* When Setup keeps partitions, the ones that were on the drive and are not
\* chosen for root or ESP lose no sector, whatever was edited on the pages
\* and whichever drive was in the socket when it was scanned, when its table
\* was read and when the generation was compared.  Set aside are drives that
\* were exchanged between that comparison and the transfer of one sector.
ForeignKept == harmed \subseteq astray

\* After an erasing installation has begun, sector 0 names a bootable system
\* only when everything else of it is stored and whole: no failure, removal,
\* silent bad write of the boot data or power loss publishes less, and no
\* second attempt either.  A drive that took a sector meant for another one
\* is set aside.
PublishedIsWhole ==
  \A d \in Drives \ astray :
    LET v == disk[d].stored
    IN  begun[d].mode = 0 /\ v.mbr.by = "setup" =>
          /\ v.root = [step |-> Complete, users |-> 2]
          /\ IF begun[d].efi THEN v.esp = "new" ELSE v.boot = "new"
===============================================================================
