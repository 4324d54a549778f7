----------------------------- MODULE PciStorage -----------------------------
(***************************************************************************)
(* The AHCI, NVMe and VirtIO disks of storage_pci.c.  A transfer of 512     *)
(* byte sectors is cut into native sectors of Ratio of them; a partial one  *)
(* is read into the bounce buffer, patched and written back.  One command   *)
(* is outstanding at a time, on a completion queue with phase bits (NVMe),  *)
(* a used ring with a running index (VirtIO) or one slot (AHCI).  The       *)
(* controller may answer, fail, fail half way, or never answer.             *)
(*                                                                          *)
(* The content of a sector is <<the sector it belongs to, its version>>.    *)
(***************************************************************************)
EXTENDS Naturals

CONSTANTS Natives,    \* native sectors of the disk
          Ratio,      \* 512 byte sectors in a native one (1 on VirtIO)
          Depth,      \* QDEPTH
          IndexWidth  \* VirtIO ring indices are modulo this (2^16)

ASSUME PciAssumption == /\ Natives \in Nat \ {0} /\ Ratio \in Nat \ {0}
                        /\ Depth \in Nat /\ Depth > 1
                        /\ IndexWidth \in Nat /\ IndexWidth > 1

VARIABLES
  drv,     \* Device, Nvme, Virtio: kind, ready, head, phase, used, available
  hw,      \* controller: the command it holds, where it posts answers
  cq,      \* NVMe completion queue: phase and, as history, whose answer
  disk,    \* content of every sector
  bounce,  \* content of the bounce buffer
  job,     \* transfer() or storage_pci_flush() in progress; on a disk that is
           \* no longer used, the one it was given up in
  mixed    \* history: an old answer was taken for the current command

pciVars == <<drv, hw, cq, disk, bounce, job, mixed>>

Sectors == 0..Natives * Ratio - 1
NoRequest == [op |-> "none", native |-> 0]
NoTransfer == [op |-> "none", stage |-> "idle", sent |-> FALSE, lba |-> 0,
               left |-> 0, top |-> 0]
Powered == [cmd |-> NoRequest, status |-> "none", at |-> 0, phase |-> 1, index |-> 0]

PciInit ==
  /\ drv = [kind |-> "none", ready |-> FALSE, head |-> 0, phase |-> 1, used |-> 0]
  /\ hw = Powered /\ cq = [i \in 0..Depth - 1 |-> [phase |-> 0, own |-> FALSE, ok |-> FALSE]]
  /\ disk = [s \in Sectors |-> <<s, 0>>]
  /\ bounce = [i \in 0..Ratio - 1 |-> <<i, 0>>]
  /\ job = NoTransfer /\ mixed = FALSE

(* A controller is found and its disk identified. *)
Found(kind) == /\ drv.kind = "none"
               /\ drv' = [drv EXCEPT !.kind = kind, !.ready = TRUE]
               /\ UNCHANGED <<hw, cq, disk, bounce, job, mixed>>
AhciInit == Found("sata")
NvmeInit == Found("nvme")
VirtioInit == Found("virtio")

-----------------------------------------------------------------------------
(* transfer(): the loop over native sectors *)

Width == IF drv.kind = "virtio" THEN 1 ELSE Ratio
Native(j) == j.lba \div Width
Offset(j) == j.lba % Width
Count(j) == IF Width - Offset(j) > j.left THEN j.left ELSE Width - Offset(j)

(* Mutant of NeedsRead: only the offset makes a write partial. *)
NeedsReadStart(j) == j.op = "read" \/ Offset(j) # 0

NeedsRead(j) == j.op = "read" \/ Offset(j) # 0 \/ Count(j) # Width

(* What a write puts into sector s: its own sector, the other version. *)
NewData(s) == <<s, 1 - disk[s][2]>>

Patched(j) == [i \in DOMAIN bounce |->
                 IF i \in Offset(j)..Offset(j) + Count(j) - 1
                 THEN NewData(Native(j) * Width + i) ELSE bounce[i]]

Entered(j) == [j EXCEPT !.sent = FALSE,
                        !.stage = IF j.left = 0 THEN "idle"
                                 ELSE IF NeedsRead(j) THEN "read" ELSE "write"]
Chunk(j) == Entered([j EXCEPT !.lba = @ + Count(j), !.left = @ - Count(j)])

BeginTransfer ==
  /\ job.stage = "idle" /\ drv.ready
  /\ \E op \in {"read", "write"}, lba \in Sectors : \E n \in 1..Natives * Ratio - lba :
       job' = Entered([NoTransfer EXCEPT !.op = op, !.lba = lba, !.left = n, !.top = lba + n])
  /\ UNCHANGED <<drv, hw, cq, disk, bounce, mixed>>

Flush == /\ job.stage = "idle" /\ drv.ready
         /\ job' = [NoTransfer EXCEPT !.op = "flush", !.stage = "flush"]
         /\ UNCHANGED <<drv, hw, cq, disk, bounce, mixed>>

(* native_io(): post the command and ring the doorbell.  An AHCI port that  *)
(* reported an error keeps its slot and does not start again.               *)
Issue == /\ job.stage # "idle" /\ ~job.sent
         /\ bounce' = IF job.stage = "write" THEN Patched(job) ELSE bounce
         /\ hw' = IF hw.status = "stuck" THEN hw
                  ELSE [hw EXCEPT !.cmd = [op |-> job.stage, native |-> Native(job)],
                                  !.status = "none"]
         /\ job' = [job EXCEPT !.sent = TRUE]
         /\ UNCHANGED <<drv, cq, disk, mixed>>

-----------------------------------------------------------------------------
(* The controller (external). *)

Posted(ok) ==
  \/ /\ drv.kind = "nvme"
     /\ cq' = [cq EXCEPT ![hw.at] = [phase |-> hw.phase, own |-> TRUE, ok |-> ok]]
     /\ hw' = [hw EXCEPT !.cmd = NoRequest, !.at = (@ + 1) % Depth,
                         !.phase = IF hw.at = Depth - 1 THEN 1 - @ ELSE @]
  \/ /\ drv.kind = "virtio" /\ UNCHANGED cq
     /\ hw' = [hw EXCEPT !.cmd = NoRequest, !.index = (@ + 1) % IndexWidth,
                         !.status = IF ok THEN "ok" ELSE "error"]
  \/ /\ drv.kind = "sata" /\ UNCHANGED cq
     /\ hw' = [hw EXCEPT !.cmd = NoRequest, !.status = IF ok THEN "ok" ELSE "error"]

Execute ==
  /\ hw.cmd.op # "none"
  /\ \E ok \in BOOLEAN, effect \in BOOLEAN :
       /\ ok => effect
       /\ Posted(ok)
       /\ bounce' = IF effect /\ hw.cmd.op = "read"
                    THEN [i \in DOMAIN bounce |-> IF i < Width THEN disk[hw.cmd.native * Width + i]
                                                  ELSE bounce[i]] ELSE bounce
       /\ disk' = IF effect /\ hw.cmd.op = "write"
                  THEN [s \in Sectors |-> IF s \div Width = hw.cmd.native
                                          THEN bounce[s % Width] ELSE disk[s]] ELSE disk
  /\ UNCHANGED <<drv, job, mixed>>

-----------------------------------------------------------------------------
(* The wait loops of ahci_command(), nvme_command() and virtio_request() *)

Awaiting == job.sent /\ drv.ready

Continue(ok) ==
  job' = CASE ~ok \/ job.op = "flush" -> NoTransfer
           [] ok /\ job.stage = "read" /\ job.op = "write" ->
                [job EXCEPT !.stage = "write", !.sent = FALSE]
           [] OTHER -> Chunk(job)

AhciAnswer == /\ Awaiting /\ drv.kind = "sata" /\ hw.status \in {"ok", "error"}
              /\ Continue(hw.status = "ok")
              /\ hw' = [hw EXCEPT !.status = IF @ = "error" THEN "stuck" ELSE "none"]
              /\ UNCHANGED <<drv, cq, disk, bounce, mixed>>

(* Mutant of NextHead: the phase is not toggled when the queue wraps. *)
NextHeadSamePhase == [drv EXCEPT !.head = (@ + 1) % Depth]

NextHead == [drv EXCEPT !.head = (@ + 1) % Depth,
                        !.phase = IF drv.head = Depth - 1 THEN 1 - @ ELSE @]

NvmeAnswer == /\ Awaiting /\ drv.kind = "nvme" /\ cq[drv.head].phase = drv.phase
              /\ drv' = NextHead
              /\ mixed' = (mixed \/ ~cq[drv.head].own)
              /\ Continue(cq[drv.head].own /\ cq[drv.head].ok)
              /\ cq' = [cq EXCEPT ![drv.head].own = FALSE, ![drv.head].ok = FALSE]
              /\ UNCHANGED <<hw, disk, bounce>>

VirtioAnswer == /\ Awaiting /\ drv.kind = "virtio" /\ hw.index # drv.used
                /\ drv' = [drv EXCEPT !.used = hw.index]
                /\ mixed' = (mixed \/ hw.cmd.op # "none")
                /\ Continue(hw.status = "ok")
                /\ UNCHANGED <<hw, cq, disk, bounce>>

(* No answer within WAIT_LIMIT: the controller is told to stop and the      *)
(* device not used again.  Nobody makes sure that it has stopped, so it may *)
(* still complete the command.                                              *)
Timeout == /\ Awaiting /\ drv' = [drv EXCEPT !.ready = FALSE]
           /\ \/ job' = NoTransfer /\ hw' = Powered
              \/ UNCHANGED <<job, hw>>
           /\ UNCHANGED <<cq, disk, bounce, mixed>>

PciNext == \/ AhciInit \/ NvmeInit \/ VirtioInit \/ BeginTransfer \/ Flush \/ Issue \/ Execute
           \/ AhciAnswer \/ NvmeAnswer \/ VirtioAnswer \/ Timeout

PciSpec == PciInit /\ [][PciNext]_pciVars

-----------------------------------------------------------------------------
(* A transfer changes no sector outside its own range, puts into each the   *)
(* data meant for it, and changes nothing once it has returned: the read,   *)
(* patch and write back of a native sector keeps its other sectors,         *)
(* whichever command of the transfer fails, is left unanswered, or is       *)
(* completed after the driver gave the disk up.                             *)
NeighboursKept ==
  [][\A s \in Sectors : disk'[s] # disk[s] =>
       /\ job.op = "write" /\ s \in job.lba..job.top - 1
       /\ disk'[s] = NewData(s)]_pciVars

(* No answer of an earlier command is taken for the current one, however    *)
(* often the queue or the ring index has wrapped.                           *)
AnswersOwn == ~mixed
=============================================================================
