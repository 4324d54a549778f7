# A TLA+ model of Barnix

Barnix is a small 32-bit x86 operating system: a kernel with a built-in shell
(Bssh), an ext2 file system over ATA, AHCI, NVMe, VirtIO and USB disks, a mount
table, user accounts with an ACL file, and a Linux i386 system-call layer with
three cooperative processes, pipes and `execve`.  This directory models the
parts whose correctness depends on the order of steps: the processes and pipes
of the Linux layer with the pipeline runner, the structures and the commit
protocol of the file system, the mount table over its single engine, the
storage and USB drivers below it, and access records, sessions and the
installer above it.  TLC checks small instances; TLAPS proves all safety
properties but one for all of them.

## 1. The system

| part | state it keeps | operations | talks to |
|---|---|---|---|
| Linux processes (`linux_task.c`, `linux_idt.c`) | `tasks[3]`, `current`, `next_pid`, `root_status`, one snapshot of memory per slot | fork, waitpid, exit, yield, fault, `schedule` | descriptors (`linux_files_*`, `linux_io_*`), `fs_cd` on a switch, returns to Bssh by `linux_leave_user` |
| Descriptors and pipes (`linux_syscall.c`) | descriptor table and flags per slot, `descriptions`, `pipes`, `pending_io` | open, close, dup, dup2, fcntl, pipe, read/write and their vector forms, lseek, getdents | called by the trap handler and by the scheduler; files through `fs_*` |
| Launch and execve (`linux_exec.c`, `linux_memory.c`) | staged image and arguments, brk, page tables | `linux_run_image`, `linux_execve` | resets both parts above |
| ext2 engine (`fs.c`, `ext2_format.inc`, `ext2_import.inc`) | `superblock`, `descriptors`, a block cache with before images, `mounted` | `begin`/`finish` around every change, `engine_init`, format, allocation, directories, inodes | `disk_read`, `disk_write`, `disk_flush` |
| Mount table (`vfs.inc`) | `mounts[8]`, `working`, `active_volume` | `route`, `activate`, mount, unmount, format, every `fs_*` call | the engine (`ext_*`), `disk_select`, `disk_restore` |
| Device selection (`disk.c`) and partitions (`partition.c`, `fdisk.inc`) | the selected device, offset, generation | select by name, restore, presence; fdisk new, auto, delete, wipe | drivers |
| Accounts and permissions (`permissions.c`, `password.c`) | the current user, `/etc/passwd.cfg` and `/etc/access.cfg` | check, set, move records with a rename, switch user | the mount table |
| PCI storage (`storage_pci.c`) | queues with phase bits or indices, a bounce buffer, the table of reserved memory | read, write, flush; place a BAR | `disk.c` |
| USB hosts and disks (`usb_xhci.c`, `usb_legacy.c`, `usb_storage.c`) | command, transfer and event rings with cycle bits; slots, hubs, the table of disks with generations; schedules; units with tags and data toggles | enumerate, poll, transfer, recover, disconnect | `disk.c`, the mouse |
| Setup (`Setup/wizard.c`) | the chosen drive and its generation, the planned table | pages, layout, install, restore | `partition.c`, `disk.c`, the engine |
| Input (`keyboard.c`, `mouse.c`, `usb_hid.c`) | scan-code state, event queue | interrupts and polls | Bssh |
| Bssh (`bssh.c`, `shell_parse.c`, `barnix.c`) and the pipeline runner (`userland/bssh-run.c`) | session stack; children and pipe ends | su, sudo, exit; fork, dup2, exec, wait | everything above |
| Program loading (`elf.c`, `elf_format.c`), boot (`kernel.c`), network (`net*.c`), console and text | little that outlives a call | | |

What is hard to test in it:

* **Processes in any order.**  A child may exit before, during or after its
  parent's wait; a parent may die first; the root may die before all others;
  everyone may be blocked.  `schedule()` calls itself in the middle of this.
* **Shared descriptions.**  Reference counts are changed by fork, dup, dup2,
  close, execve, exit, a fault, SIGPIPE and the end of the launch; end of file
  and SIGPIPE depend on them being exact.
* **A blocked transfer** keeps a cursor over several vectors while others use
  the pipe, change its flags or close its other end.
* **Power loss and I/O errors** between any two sector writes, with a device
  that reorders what it has cached.
* **Space runs out half way.**  A write or a mkdir takes an inode, an indirect
  block, data blocks and perhaps a block for the directory; any of these can
  fail, and bitmaps, three kinds of counts, pointers and links must still agree
  after any sequence of calls.
* **One engine for many volumes.**  Superblock, selected device and
  `active_volume` are three pieces of state that must name the same volume,
  through failed commands and USB devices that vanish and return.
* **Hardware that answers late, twice or never.**  An answer that comes after
  the driver has given up must not be taken for the next one; rings wrap with
  answers still queued; a schedule is edited while the controller walks it.
* **Devices exchanged** between a check and the use of what was checked, by a
  write or by an installation.
* **Several files or writes for one change**: a rename with its access records,
  an account with its home, an installation with its partition table.
* **Pipe ends in three processes** of a pipeline, each of which holds both for
  a while.

PROJECT.json lists each hazard at its line, with the properties that cover it
or the reason why none does.

## 2. Modules

| module | models |
|---|---|
| `LinuxFiles` | descriptors, descriptions, pipes as byte counts: the calls of `linux_syscall.c` that change state, one action each, and `FilesSpec`, what this layer expects of its caller |
| `LinuxTask` | extends `LinuxFiles` with the process table and `schedule()` |
| `PipeRing`, `PipeStream` | the bytes of one pipe, loop iteration by loop iteration, and the stream it promises |
| `Ext2Commit` | `begin`, `finish`, mount and format, sector by sector, over a device with a volatile cache |
| `Ext2Tree`, `FileTree` | what an operation changes before it is committed: bitmaps, counts, inodes, directory records and contents, and the tree of files it promises |
| `Vfs`, `Namespace` | mount table, device selection, format, fdisk and the rename protocol, and the one tree of directories they promise |
| `Pipeline` | `shell_parse` on tokens, and the runner as a program on top of `LinuxTask` |
| `XhciRings` | the command ring, one transfer ring and the event ring of an xHCI host, with timeouts and recovery |
| `XhciPorts` | root port, hub, slots, the table of disks with generations, and `disk_write` on top of it |
| `UsbBot` | one port of `usb_storage.c`: enumeration and the three phases of a command |
| `UsbLegacy` | the asynchronous and periodic schedules of EHCI and OHCI |
| `PciStorage` | AHCI, NVMe and VirtIO requests, and the transfer loop over native sectors |
| `PciBars` | placement of memory BARs |
| `Access` | access records, chmod, and the rename that carries them along |
| `Sessions` | accounts, login, su, sudo, exit and logout |
| `Partitions`, `Setup` | MBR arithmetic; fdisk, the pages of Setup and the installation |
| `LinuxProofs` (also of `PipeRing`), `Ext2Proofs` (`Ext2Commit`, and the operators of `Ext2Tree`), `Ext2TreeProofs`, `VfsProofs`, `DriverProofs`, `XhciProofs`, `AdminProofs` | the theorems; `LeastNumber` has what they need of the natural numbers |
| `MC*` | instances for TLC; `MCPipes`, `MCExt2`, `MCDrivers` and `MCAdmin` each put several components that share no state into one run, of which one is chosen in the initial state and runs alone |

### LinuxFiles and LinuxTask

The variables keep the names of the C code (`task_files`, `refs`, `pending_io`,
`state`, `parent`, `wait_pid`, `current`, ...).  Kernel code is never preempted
(system calls enter through a trap with interrupts off, and user programs run
with interrupts off), so a system call is one step.  `schedule()` is several:
`WakeWaiters`, then `PickReady`, `PickBlocked` or `Leave`, because it recurses
after a resumed writer blocked again or was killed; between these steps no
program runs (`mode`).  A call that fails with an error code changes nothing
and is a stuttering step.

Abstractions: registers and memory are only "saved or not"; file contents and
positions are left out; descriptions that are not pipe ends have no further
state; fields that the code rewrites before reading are cleared.
`linux_files_exit` over a set of slots closes all their references at once.

### PipeRing

`Start` is `pipe_transfer`, `ResumeCopy` is `linux_io_resume` of a blocked
transfer, and `NextVector`, `CopyChunk` and `Finish` are the iterations of the
copying loop.  Every byte carries its writer and its number, so loss,
duplication, reordering and interleaving are visible.  Closing of ends and
O_NONBLOCK are in LinuxFiles; here both ends stay open and a reader never goes
away.

### Ext2Commit

An operation changes any set of sectors in memory; the content of a sector is
the number of the operation that wrote it.  `durable` is what a power loss
leaves, `latest` what a read returns, `lagging` the sectors in between; the
device may move any of them at any time (`Destage`, external).  `Crash`
(external) forgets memory and device cache.  A failing write may or may not
have happened.  A sector is written whole or not at all, and the second half of
the superblock, which no code of the engine changes, is left out.
`Operate(D, FALSE)` is the transaction of `set_file_permissions`, which starts
on the cache of the write before it without a reset.

### Ext2Tree and FileTree

`vol` is the volume as the next operation finds it, with `allocation_hint`.
Each C function is an operator from a volume to a volume, so an operation is
the composition of the calls it makes; `ok` says that none has failed and `ret`
is the number `allocate` returned.  `FinishWith` (`finish`) keeps the result or goes
back to the volume before, except for the hint, which is not restored.  `Remount`
is `engine_init` on what is there.  The
engine runs one call at a time, so an operation is one step.  A read error in
the middle ends in the same rollback and in an unmounted volume (Ext2Commit).

A block is a row of words: units of file contents, or pointers if it is an
indirect block; a directory block is a sequence of records with lengths of their
own scale.  A released block holds `Junk` until it is allocated again, so a
stale word that became visible would show.  Group descriptors keep their
counts; bitmaps are sets.  The metadata of a group is its first `META` blocks.
Directories are found by `lookup_path` from the root, as the mount table and
`engine_write` do.  Initially the volume is freshly formatted, or comes from
another system with a sparse file that has two names (`HostVolume`, external).

`FileTree` knows directories, entries and texts only.  Failure is a stuttering
step there, so `OverwriteFits` and the counts say when a call must succeed.

### Vfs and Namespace

A path is a normalized sequence of names, a volume is its set of directories, a
partition's offset is its slot number.  `eng` is the engine: what `disk.c` has
selected, whose superblock is loaded, `mounted`, `active_volume` and its
current directory.  The operators `Activate`, `Route`, `RouteParent` and
`ExtInit` take an engine and give the next one, so that a command is the
composition of calls that the code makes, including the one that fails half
way.  `overwritten` records volumes that were written under a superblock of
another.  The user is root and has logged in, so `check_permission` returns
at once and `namespace_start` has run.  A USB device that returns has the
contents it left with but a new generation.  An I/O error in a commit leaves
the volume unclean and the engine unmounted, as `Ext2Commit` shows in detail.

`Namespace` is one tree of directories with volumes attached at some of them.
`Attach` and `Detach` change what is at and below their mount point, except
below mount points further down: `fs_mount` does not ask whether other volumes
are mounted below, and routing by the longest path still finds them.  A rename
onto a name below which a volume is mounted brings what that volume does not
cover.

### Pipeline

The text of `main` is a sequence of instructions, nearly all system calls, and
each process has what is left of its text; `fork` gives the child the text of
its branch.  An instruction is the action of `LinuxTask` or `LinuxFiles` for
its call, so it may block, resume or die there.  What `run_command` finds under
the name of its program is a free choice among the five cases it tells apart.
After `execve` a process is any program that reads descriptor 0, writes
descriptor 1, forks, waits for its children, yields, exits or faults.  `got`
and `ended` record which status waitpid delivered and how the stages ended.
Tokens stand for words; quotes and escapes inside them are left out.

### The drivers

The drivers poll and run one call at a time; the hardware is a set of external
actions that may fall between any two of their steps or never come.

`XhciRings` has the rings entry by entry with their cycle bits, so wrapping is
visible; a request that was given up turns what it posted and caused `old`.
`Configure` makes the one endpoint a control, bulk or interrupt endpoint.  A
wait is a number of polls (`Polls`), a command that times out stops the host.
A rejected Disable Slot leaves a mouse or hub active, to be polled and
disconnected again; a disk has left the table of disks by then and is not used.

`XhciPorts` follows a poll port by port: root port, then, on the polls that
reach the 128th count (a free choice), the hub.  Devices are plugged and pulled
at every step; `Attaches` bounds the insertions.  A Disable Slot command may
fail, for a hub or for its child.  What hangs below a hub is found by the place
of its port (`Children`); the code compares the parent's slot as well, which is
the same as long as one hub occupies a place.
`disk_write` is its three polls, with the comparison after the second.

`UsbBot` keeps the data toggles of both ends, the tag of the command and the
generation of the unit.  The device is an automaton that waits for a command
block, moves data, and sends a status block, and may keep repeating it.

`UsbLegacy` has one shared transfer and one descriptor per mouse.  A descriptor
is *owned* by the controller while its schedule is on; the driver's steps say
what they turn off and back on.  The frame list of UHCI (`usb_storage.c`) is
left out; its transfers are those of `UsbBot`.

`PciStorage` gives a sector its number and a version as content and cuts a
request into native sectors as `transfer` does.  All three completion paths are
there: the slot bit of AHCI, the phase bit of NVMe, the wrapping index of
VirtIO.  After a timeout the controller may have stopped or may still complete
the command: nobody waits for it.  There is one disk, so a late read into the
bounce buffer that another disk uses by then is not seen.  `PciBars` places BARs
in small units of memory beside boot ranges and firmware assignments, which may
nest and overlap one another as windows of bridges, BARs and the framebuffer do.

### Access, Sessions, Setup

`Access` has the table as a sequence of records and `fs_mv` as its four steps
(`MvCommit`, `MvEntry`, `MvFails`, `MvFinish`), between which power may go.
`given` and `secured` are histories of what chmod was told.  `leftover` is the
history of records whose path is, for now, the name of another object than the
one they were made for: the object was removed or has moved away, or it is the
source of a rename that has not come to its end.  `RightsFollowObjects` sets
those names aside.  The last kind, on an object that was there before the
rename, is kept apart (`struck`) and is the subject of `FailedRenameRestricts`,
which does not hold (section 6).  A salted digest equals its password.

`Sessions` has the stack of users and the recursion of `execute` for sudo as a
stack of what each level has to restore.  `account_create` is its writes, the
record last; at the first start root is asked for before anybody else.

`Partitions` is arithmetic without state of its own.  `Setup` has drives with a
cached and a stored part of each of their areas, the pages in the order of
`setup_run`, and `install_image` write by write, as often as the user comes back
from the error page.  A drive is exchanged before an operation (`Swap`), which
`disk_present` notices, or between its comparison and the transfer
(`LateExchange`): then one sector goes astray, and the next operation is refused.
Before Setup, fdisk makes the tables it meets (`FdiskFree`), of up to `Foreign`
slots; the drive is exchanged at most `Swaps` times.

## 3. Runs

| run | asks |
|---|---|
| `pipes` | processes: three slots, a pipe of two bytes, writes that fit exactly and writes that do not.  A switch loses nothing (`SwitchSound`), pids are not reused (`UniquePids`), no wakeup is lost (`NoLostWakeup`), no orphan of a dead parent (`ParentAlive`); blocked transfers can be resumed (`TransfersResumable`); every launch returns with nothing open, with 125 if someone was blocked (`CleanReturn`); the scheduler keeps to `FilesSpec` (`FilesImplemented`).  Bytes: two writers and a reader on a ring of three bytes, with vectors that cross its end, an empty vector and a write longer than the ring: short writes whole, all delivered (`WritesIntact`), one stream (`StreamRefined`) |
| `descriptors` | two processes and every descriptor call at the limits of both tables: references and pipe ends counted exactly, the pool of descriptions never the limit (`SharingExact`) |
| `progress` | liveness: a READY process runs (`ReadyRuns`) and `schedule()` comes back (`ScheduleReturns`) |
| `ext2` | commit: three operations, mounts, formats, errors and crashes at every step (`CleanIsWhole`, `AckedIsDurable`, `MemoryFresh`).  Tree: files and directories come and go on a volume with four free blocks: no block leaked or shared, counts equal to bitmaps (`AllocationExact`), links, records and reachability (`TreeSound`), a full volume can still be rewritten (`OverwriteFits`), contents and names as promised (`FileTreeRefined`) |
| `vfs_media` | boot disk and USB disk, mount, unmount, format, fdisk, removal and return, by names of whole devices: `EngineCoherent`, `NeverOverwritten` |
| `vfs_tree` | two volumes with two levels of directories, or three above and below one another in any order: one tree (`NamespaceRefined`) in which the working directory stays (`WorkingKept`) |
| `drivers` | xHCI: no wait is ended by an old event (`NoStaleAnswer`), both sides agree on who owns what (`RingsAgree`), every call returns (`CallsReturn`), a generation names one enumeration (`GenerationNames`).  Bulk-Only: a ready unit is in step with its device (`ReadyInSync`), success means that the mounted disk did this command (`AckedByMounted`).  EHCI and OHCI: nothing is touched while the controller may use it, and no mouse is left unserved (`SchedulesSound`).  PCI: no old answer is taken (`AnswersOwn`), no sector beside a request changes (`NeighboursKept`), BARs overlap nothing (`BarsDisjoint`) |
| `administration` | rights stay with the objects they were given to (`RightsFollowObjects`) and a lock is never lost (`LocksStay`) through renames, failures and power loss; each session gets its user back (`SessionsNest`); root has an account before anybody can log in, and only names with an account run commands (`OnlyAccountsAct`); a pipeline ends with the status of its right command (`PipelineEnds`); an installation touches only the ranges it was allowed on the drive whose generation it compared (`ForeignKept`), and an erasing one publishes only areas that were written and verified (`PublishedIsWhole`); a drive that came in between comparison and transfer is set aside in both |
| `vfs_failed_mount` | **violation** of `EngineCoherent`, see section 6 |
| `vfs_overlap` | **violation** of `MountsApart`, see section 6 |
| `usb_reconnect` | **violation** of `WritesStayOnSelected`, see section 6 |
| `access_rename` | **violation** of `FailedRenameRestricts`, see section 6 |

Several properties are conjunctions of named parts that the modules state one
by one (`SwitchSound` of `OneRunner` and `SavedWhenStopped`, `SharingExact` of
`RefsExact`, `EndsExact` and `DescriptionsSuffice`, and so on).

Bounds.  Three slots are what the kernel has: the root, a child and its own
child make an orphan, and a pid is left to fork again after reaping; the
theorems say the same for any number of slots.  A pipe of one to three bytes has every relation
between length, room and ring end that 4096 bytes have, since the code compares
these only.  Two descriptors per process hold the two ends of a pipe or two
copies of one end; together with fork a description gets up to four references.
In the commit half of `ext2` the superblock, a descriptor sector and one other
sector make every order of two writes across the loops; three operations give a
committed one, one that is interrupted and one that starts from what is left.
In the tree half two direct pointers and two words per block make files of four blocks; the text
ends inside its second block, appended to itself it needs the indirect block,
and a third time it exceeds the limit.  Four free blocks in two groups are fewer
than two such files need, three free inodes fewer than the names, three links
one subdirectory; a short and a long name split, reuse and outgrow a directory
block of three units.  The space of the tree is explored completely (17,991 states).  In `vfs_media`
one mount point beside the root, one partition and two enumerations of the USB
disk show every switch of the engine between two volumes; in `vfs_tree` a
second level lets a mounted volume have directories and a mount hide some.  A third
disk makes two volumes lie above and below each other, mounted in either order;
states with three volumes are only followed with the nested paths, without
failed writes and from the root (`TwoOrNested`).  The two disks beside the boot
disk are interchangeable (symmetry).
In `drivers` a ring of four entries has a link and wraps after three requests,
which is fewer than the recovery of an endpoint and the calls around it need;
four events are fewer than a driver that does not poll can collect.  Two disks,
one hub port and two slots give an exchange at the root port and behind the
hub, and a hub pulled with its disk.  Two native sectors of two sectors make
requests that are whole, begin inside, end inside, and span both; a queue of
two and an index of three values wrap in every run.  Firmware ranges of one and
of three units (`Lengths`) are disjoint, nested or overlapping; the window and
the table of ranges (`Ranges`) both fill up.  In `administration` one user has
two directories with a file in each, so a directory can be renamed with or
without records below it and onto the name of the other; three records fill
the table.  `AccessBounds` follows states with at most three of these four
objects and one locked one; the rights given are none or `w`, the one that
renames ask for.  Two people and two levels each of su and sudo nest in both orders.
A drive of eight sectors with three slots has room for a foreign partition
beside an installation, and not always.  `SetupBounds` lets partitions be edited
by hand before an exchange only, in the order of the slots and with one ESP, and
follows a further installation when the one before was an erasing one of the same
build on a drive that nothing went astray to, and erases too.  The theorems know
none of these bounds.  The pipeline has the tables it needs
(six descriptors, one pipe of two bytes), writes shorter and longer than the
pipe, and pids for one more fork by either stage: a command that forks before
the second stage exists makes the runner's second fork fail.

`MAX_PID`, `MAX_OPS`, `MAX_BYTES`, `MAX_GENERATION`, `Generations`, `Attaches`,
`Polls`, `MaxDepth`, `MaxSudo` and `Swaps` bound counters; `MAX_PID` and
`MaxDepth` are bounds of the code too.

`pipes` allows deadlock: writers that have passed `MAX_BYTES` stop and a reader
waits for more.  So does `drivers`: a host that was stopped, or a machine that
has placed all its BARs, does nothing more.  All other runs check for it.

Fairness.  Safety needs none.  `KernelSpec` makes scheduler steps weakly fair:
the kernel runs with interrupts off and nothing can stop it between two steps.
`CooperativeSpec` adds that whoever runs gives the processor up in the end,
which is an assumption about programs: there is no timer interrupt, and a
program that loops keeps the machine.  `ReadyRuns` needs it.  `ScheduleReturns`
does not: while `schedule()` runs the second assumption is idle.  `CallsReturn`
needs weak fairness of the xHCI driver's own steps only: it is code that runs in
a loop, and the controller may do nothing at all.

## 4. Theorems

Every theorem holds for all values of the constants that the module's ASSUME
admits: any number of slots, pids, sectors, ports, paths, records, any ring and
queue size.  Each is proved from an inductive invariant, one lemma per action.
The assumptions say that sizes are natural numbers, that names differ from the
marks the model uses (`"none"`, `"root"`), that paths are sequences of names;
TLC evaluates them in every run.  The theorems of one module have hypotheses of
their own, `WholeDevices` and `PathsClosed`, explained below.

### LinuxProofs

* `NoLostWakeupAlways`: outside `wake_waiters`, a process in waitpid has a
  child to wait for and none of those is a zombie.
* `ParentAliveAlways`: orphans have a living parent or the root has exited.
* `ProcessTableSound`, `SwitchSoundAlways`: types, one runner on its own
  descriptors, unique pids, a snapshot exactly for who is stopped.
* `SharingExactInFiles`, `SharingExactAlways`: reference counts and counts of
  pipe ends equal the descriptors that name them, and the pool of descriptions
  suffices; for the descriptor layer under any caller, and in the composition.
* `TransfersResumableAlways`: exactly the processes in IO_WAITING have a
  pending transfer, on a descriptor that is still a pipe end of its direction.
* `CleanReturnAlways`: a launch that returns leaves nothing open, and its
  status is 125 exactly if somebody was still blocked.
* `FilesImplementedAlways`: every step of `LinuxTask` is a step of `FilesSpec`.

The inductive invariant `TaskInv` adds two facts to the properties themselves.
`RootInv` (the root has pid 1, parent 0 and is never unused) is needed because
`exit_task` reads `tasks[0].state` and names pid 1 as the new parent.
`WaitersHaveChildren` is what remains of `NoLostWakeup` between an exit and the
`wake_waiters` that notices it: without it the wakeup step could leave a waiter
with no child at all.  `UniquePids` carries the argument: since no two processes
share a pid, two waiters never compete for one zombie, so all of `wake_waiters`
may be one step.

`FilesInv` counts: a call changes the set of descriptors that name a description
by one element, or by one slot's table, and the lemmas on cardinalities turn
that into the change of the count.  That closing a slot with a blocked transfer
stays exact needs `PendingOnPipe` with it.  `LaunchInv` links the two layers:
blocked means pending, and after the end of a launch the tables are empty.

The bytes of a pipe (`PipeRing`):

* `WritesIntactAlways`: bytes arrive once and in order, a write of at most
  `PIPE_SIZE` bytes in one piece.
* `StreamRefinedAlways`: the ring implements `PipeStream`.

`RingInv` describes the ring by the stream that was put into it.  `RingOK` says
that the bytes between read position and write position are the unread end of
the stream, also while the loop is between two chunks and position, length and
cursor have moved by the same amount.  `Counted` ties the cursor (vector,
offset) to the bytes moved so far, by running sums over the vectors.  `ShortOK`
is what atomicity rests on: a short write that has begun to copy finds room for
the rest, so it is moved by one run of the loop, in which nobody else copies.
`StreamOK` says of the stream that each writer's bytes are numbered without a
gap and that finished short writes are contiguous.

### Ext2Proofs: the commit

* `CleanIsWholeAlways`: a medium whose state word is clean is one whole image.
* `AckedIsDurableAlways`: success means durable.
* `MemoryFreshAlways`: what the next operation starts from is what the disk
  holds, after failed operations too.

The inductive invariant `CommitInv` says how far each phase has brought the
disk: `LagOK` (what is not in the device cache is on the medium), `StateOK`
(while either copy of the state word is clean, at most the superblock is in
flight), `PhaseOK` (all sectors outside `todo` equal the target; the medium is
marked unclean before the first of them moves), `AckOK`.  The flush between the
mark and the first data sector, and the one before the clean mark, are each
used in one place of the proof.

### Ext2Proofs and Ext2TreeProofs: the volume

For every number and size of groups, every `DIRECT`, `WORDS` and directory
block, every set of names and texts, from a formatted volume or a foreign one,
after any sequence of successful and failed calls:

* `EngineSound`: the inductive invariant `TreeInv` below.
* `AllocationAlwaysExact`: no block is leaked or shared, and every count equals
  its bitmap.
* `TreeAlwaysSound`: one tree, unique names, records that fill their blocks,
  right `..` and link counts, nothing in use that is out of reach.
* `FileTreeAlwaysRefined`: every call is the step of `FileTree` it promises.
* `OverwriteAlwaysFits`: a file can be replaced by contents that need no more
  blocks than it holds, on a full volume too.

`TreeInv` is `Sound` of the volume between two calls: `Base` and the tree.
`Base` has three layers, each of which the operators of `fs.c` keep by
themselves, so that one lemma per operator suffices:

* `Core`: free counts are cardinalities (`Counted`), and every block in use is
  metadata or in exactly one *cell* (`Owned`).  A cell is a direct pointer, a
  word of the indirect block or the pointer to it; ownership of cells, unlike
  the sets of blocks in `AllocationExact`, says what one assignment to a pointer
  does.  `Take`, `Release` and the truncation change one cell and one bit.
* `NodeShape`: which cells a directory or a free inode has, the limit of a file.
* `Shape`: the records of a directory fill their blocks and have unique names.

`insert` and `remove_node` are described by what they do to the *set* of entries
(`Gains`, `Drops`), whichever record is split or reused.  The tree (`TreeOK`) is
then a statement on modes, links and entries alone: `EntriesOK`, `ParentsOK`
(one parent, which `..` names), `LinksOK`, and `Rooted` (every set that has the
root and is closed under entries has every inode), which needs no induction
when a leaf comes or goes.  `DirsCounted` and `UsedOK` tie it to the bitmaps.

A call that fails half way leaves a volume that is not sound, but `FinishWith`
goes back; only `VolumeOK` of the hint is needed of it.  Calls that succeed are
proved sound step by step: a new inode is `Born`, gets its block (`Opens`) and
its name; a file is `Filled`.  The contents of the others are untouched because
their cells are (`Alike`), which is the core of the refinement; that a file
reads what was written follows from where `write_range` puts each unit.

For `OverwriteFits` the loop of `write_range` is followed by how many blocks are
free: truncation leaves the blocks that are kept, each allocation finds a free
block while the sum over the groups is positive, and the sum of what the new
contents need is at most what the old ones gave back.

### VfsProofs

* `EngineCoherentAlways`: an engine that counts as loaded has its volume's
  device selected and its superblock in memory.
* `NeverOverwrittenAlways`: no volume is written under another's superblock.
* `WorkingKeptAlways` (an action property): no operation removes or renames the
  working directory away.
* `NamespaceAlwaysRefined`: the volumes are one tree (`Namespace`); a command
  adds, removes or renames one directory of it, or brings or takes one volume.

`VfsInv` is the soundness of the mount table (`TableOK`), of the media
(`MediaOK`), of the engine (`Sound`), and that nothing was overwritten.  The
calls compose, so the lemmas are about the operators: `Activate`, `Route` and
`ExtInit` take a sound engine to a sound engine, whether they succeed or not.
The hypothesis `WholeDevices` (users name devices without a partition suffix)
cannot be dropped: run `vfs_failed_mount` is the counterexample without it.

The refinement needs more of the table: mount points are paths that are named
once, and every volume has its root (`NameInv`).  A path is where the longest
mount point above it leads (`Over`), so the user's tree is a function of the
mount points and of the directories of each volume (`Place`).  Each command
either leaves the mount points alone and changes the directories of one volume
(`PlaceAdd`, `PlaceRemove`, `PlaceMove`), or leaves the directories and changes
one mount point (`PlaceElsewhere`): what is not below that point, or is below
one further down, keeps its volume.  `PathsClosed` says that the set of paths has
the parent of a path, and a path below a renamed directory under its new name;
all paths together are such a set, and so are those of the runs.

### DriverProofs

* `SchedulesSoundAlways` (`UsbLegacy`): no descriptor is touched while a
  controller may use it, and an awaited report is in a schedule that is on.
* `ReadyInSyncAlways`, `AckedByMountedAlways` (`UsbBot`): a ready unit is in
  step with its device; only the mounted disk's execution of this very command
  is reported as success.  The invariant says how far host and device are in
  each stage of a command, and that a unit in the table has the generation of
  the device at the port unless the port has changed.
* `GenerationNamesAlways` (`XhciPorts`): an entry with the remembered generation
  is the disk that was selected.  Needs that generations in the table are
  distinct, at most the counter, and that the slots of hub and child nest.
* `BarsDisjointAlways` (`PciBars`): a moved BAR is aligned, in the window, and
  meets no other range, however the firmware's ranges nest; the search is an
  invariant of its own.
* `AnswersOwnAlways`, `NeighboursKeptAlways` (`PciStorage`): a wait ends with the
  answer to its own command, through any wrap of queue and phase; a transfer
  over native sectors of any size changes only its own range, also by a command
  that is completed after its timeout.

### XhciProofs

* `NoStaleAnswerAlways`: no wait is ended by the event of a request that is over.
* `RingsAgreeAlways`: while a call waits its answer is queued or can still come;
  between calls a running endpoint has nothing to do but a pending mouse report.

`Shape` and `InLap` describe a ring by its cycle bits: one lap carries the
producer's bit up to `next`, and the consumer is in this lap or, if a link TRB
is at the end, still in the one before.  From that the TRBs the controller owns
are exactly the `Out` outstanding ones, through every link and wrap; this needs
that a call never fills the ring (`RingSize > 3`: `control()` posts three TRBs
and `RING_SIZE` is 64).  `RingsInv` then follows each request: the one command
that is posted, answered or done (`CommandsOK`); a transfer, all of whose queued
events are its own and whose ending event is the last (`TransferOK`); the single
report of a mouse (`MouseOK`); and an endpoint outside its transfers, which has
nothing to do unless it is about to be stopped (`PairOK`).  That `bulk()` may
take any event of its endpoint rests on the last two.  A device whose Disable
Slot was rejected stays active with rings that are in order (`UsedOK`), so what
`poll` does with it afterwards is no special case.  The invariant is only
claimed of a live host: after `stop_host()` late events change nothing.

### AdminProofs

* `OnlyAccountsActAlways`, `SessionsNestAlways` (`Sessions`): root has an account
  before anybody can log in, and whoever acts has one; user, depth and saved
  users are those of the sessions really open.  The first needs that every user
  in a saved entry and in the frames of sudo has an account, where the initial
  entries count as root's.
* `PublishedIsWholeAlways`, `ForeignKeptAlways` (`Setup`, `Partitions`): after an
  erasing installation has begun, sector 0 names a bootable system only when all
  of it is stored; partitions that are kept lose no sector.  Both set the drives
  aside that were exchanged between a comparison and its transfer.  The second
  needs that every table that fdisk, `partition_auto` and the pages of Setup
  produce has disjoint areas.
* `RightsFollowAlways`, `LocksStayAlways` (`Access`): rights and locks follow
  the object through renames and what can break them off, except under names
  that carry another object's record; the lock that stays need not be the same
  one, since a failed rename onto the name replaces it.  A table enters the
  invariant only as its set of records: where no mark of another object is left,
  all records of a path and a user agree with what chmod gave (`Faithful`), so
  the order in the file does not matter.  Between the two writes of a rename the
  table is the old one with copies, and the final one is right for the names to
  come (`EntryOK`, `FinishOK`).  That a rename finds no rights under its new
  name needs that the tree is closed upwards and that only objects have rights.

### How, and what is not proved

Facts about all sequences or all numbers are proved by the least
counterexample: `LeastNumber` gives a non-empty set of naturals its least
element.  The same gives recursive functions their existence.  Theorems that
take an operator as parameter and RECURSIVE operators cannot be used.

Only model-checked:

* liveness (`ScheduleReturns`, `ReadyRuns`, `CallsReturn`): outside the prover;
* `PipelineEnds`.  Its program is a table of instructions on top of `LinuxTask`,
  and it says what was reached when a pipeline is over: that the runner got the
  status of the process it started last, which relates every position in the
  texts of three processes to the states of all descriptors.  An inductive
  invariant would list these positions one by one, as TLC does.

`PathsClosed` and `WholeDevices` are hypotheses on constants; the instances of
`vfs_media` and `vfs_tree` satisfy them.

## 5. What the models showed

Beyond the properties that hold:

* The description pool cannot run out: `open` and `create_pipe` meet the end of
  the descriptor table first, so two of their error returns are dead code.  The
  pool of pipes can run out.
* Round robin gives no bound on waiting other than the number of pids, because
  fork runs the child first: a process that forks and waits overtakes others.
* The orphans of an exited root are never reaped; they end with the launch.
* `finish` does not refresh the before images of the cache, so the second
  transaction of `set_file_permissions` writes some sectors again.  Harmless:
  `ChainedFresh`, a part of `MemoryFresh`.
* Directory records are split and reused but never merged, so a directory that
  has seen many long and short names can be full of records too short for the
  next name until it is removed.
* `engine_append` and `engine_cp` look for their target as one name, and hand a
  path with a slash to `engine_write`, which would replace the file.  The mount
  table gives them plain names only.
* A mount above the working directory hides it until it is unmounted.
* `fs_mount` accepts a directory above another mount point.  The lower volume
  stays in use at its path, whose directory the user can no longer see, and the
  upper one cannot be unmounted before it.  The first version of `Namespace`
  said that a mount replaces everything below it; the proof of the refinement
  failed there, and three disks show it (`vfs_tree`).
* The three task slots are just enough for a pipeline; a left command that
  forks at once makes the runner's second fork fail, and the runner then still
  closes its end, waits, and returns 125.
* A rename that fails after the new records were published leaves them behind,
  and they win over the records of an object that has the new name (section 6).
  Records of a removed object stay too, and apply to the next object under that
  path.
* An AHCI command that times out clears ST without waiting for the port to
  stop, NVMe does not look at the result of its wait, and an AHCI command that fails leaves its slot in use, so the drive answers nothing
  more until the next start; no wrong answer comes of it.
* "Make the disk unbootable first" in `install_image` is done only when the
  whole disk is erased: with a kept table a failed installation leaves the old
  boot sector, and the old system as far as its areas were not overwritten.
* `partition_auto` makes five rounds, and one that skips a gap or a partition
  uses one up: behind three partitions with a small gap before each it does not
  find the space that is left (`Partitions!Search` has the rounds).

## 6. Disagreements between code and documentation

* **A failed mount or format by partition name** (`vfs_failed_mount`).
  `select_named` selects the whole device before it looks for the partition.  If
  there is none, `fs_mount` and `fs_format` return with that selection and with
  `active_volume` unchanged, so the next command uses the old superblock on the
  other device.  `tests/vfs_test.c:61-62` expects a failed mount to leave the
  mounted volume usable, but tries only a name whose device is missing.
* **Overlapping mounts** (`vfs_overlap`).  After `fdisk wipe` a raw ext2
  superblock is still there; a partition can be made inside it, and both can be
  mounted, since `fs_mount` compares offsets for equality where `fs_format`
  tests for overlap.

* **A disk exchanged behind a hub** (`usb_reconnect`).  `disk_write` compares
  the generation, and the transfer polls the ports once more before it uses the
  table entry; every 128th poll scans the hubs.  If that is this poll, a disk
  that was exchanged before the call is enumerated into the same entry and takes
  the write.  `USB.md:47-48` says that generations prevent this.  No cable moves
  during the call.

* **A rename onto a name that is taken** (`access_rename`).  `fs_mv` publishes
  the records of the source under the new name before `engine_mv` sees that the
  name is taken and refuses.  Of two records on one path the later one decides,
  so the object with that name now has the rights and the lock of the source,
  and these may be more than its own.  `permissions.c:255-256` says "If the
  rename fails, the extra ACL is restrictive rather than a bypass".

The first two are excluded from `vfs_media` by letting users type names of whole
devices only; the same properties hold there.  `GenerationNames` holds in
`drivers`: the table is right, its user checks it too early.  `administration`
has the third and the fourth case in its state space; the properties there set
aside the drive that a write went astray to and the names that carry another
object's records, and hold for all the rest.

## 7. Not modelled

* `Ext2Tree` and `Ext2Commit` are not composed: an operation of the first is
  one transaction of the second.  `fs_import_template` is one write in `Setup`.
* The removal of a device under a stopped process, whose working directory
  `schedule()` enters again: it needs `LinuxTask` and `Vfs` in one state space.
* The engine's current directory during a rename in `/etc`: `Vfs!Reselect` has
  it, but it takes six names to see it, more than `vfs_tree` has.
* That 2048 cached blocks are enough for every operation, and file positions
  near 2^31 (`lseek`, `pwrite`): no small instance has them.
* ATA PIO commands, the UHCI frame list, the handover of USB hosts from the firmware and the
  parsing of descriptors: straight-line register code.
* Staging of arguments and page tables of `execve`, ELF validation, quotes and
  escapes of a word, password hashing, the text of the configuration files:
  computation on one input.
* An `/etc/access.cfg` that cannot be read: chmod and rename take it for an empty
  one (`permissions.c:131` and `:229`), `check_permission` refuses everything
  (`:101`).  In `Access` the table can always be read.
* Types of partitions that fdisk refuses (GPT protective, extended).
* Keyboard, mouse and HID decoding: one event at a time, no shared state.
* Boot (straight-line code with fallbacks), the network drivers (one polled
  request and answer, no state that outlives a command), console, fonts,
  languages and settings (formatting and drawing).

