----------------------------- MODULE XhciPorts -----------------------------
(***************************************************************************)
(* Enumeration in usb_xhci.c, from the port registers to the table of       *)
(* disks, and the way disk.c uses that table.  One root port takes a disk   *)
(* or a hub, whose ports take disks.  A poll looks at the root port; only   *)
(* every 128th also scans the hub.  disk_write() polls three times: to ask  *)
(* whether the entry is in use, for its generation, and to transfer.        *)
(* Devices come and go between any two steps.                               *)
(***************************************************************************)
EXTENDS Naturals, FiniteSets, FiniteSetsExt

CONSTANTS Sticks,       \* disks that may be plugged in
          HubPorts,     \* ports of the hub
          Slots,        \* device slots of the controller
          Entries,      \* entries of the storage table
          Attaches      \* bound on storage_generation

ASSUME PortsAssumption == /\ HubPorts \in Nat /\ Slots \in Nat \ {0} /\ Entries \in Nat \ {0}
                          /\ Attaches \in Nat /\ "hub" \notin Sticks

VARIABLES
  plug,     \* what is in the root port and in the ports of the hub, and the
            \* connect change bit of each
  hostTab,  \* devices[], seen_ports and hub_seen, storage[], the generation
  sel,      \* the selection of disk.c, and as history the disk it selected
  op,       \* the call of disk.c in progress: its position, the hub port to
            \* look at, and as history whether a cable moved since it began
  landed    \* history: the disk that took the last write, and that mark

portsVars == <<plug, hostTab, sel, op, landed>>

Root == 0
Places == Root..HubPorts
Empty == [dev |-> "none", changed |-> FALSE]
FreeSlot == [active |-> FALSE, place |-> Root, dev |-> "none"]
NoEntry == [slot |-> 0, gen |-> 0]
NoSelection == [index |-> 0, gen |-> 0, dev |-> "none"]
NoWrite == [dev |-> "none", moved |-> FALSE]
NoOp == [at |-> "idle", next |-> "idle", port |-> Root, moved |-> FALSE]

Moved == op' = [op EXCEPT !.moved = op.at # "idle"]

PortsInit == /\ plug = [p \in Places |-> Empty]
             /\ hostTab = [slots |-> [n \in 1..Slots |-> FreeSlot],
                           seen |-> [p \in Places |-> FALSE],
                           storage |-> [i \in 1..Entries |-> NoEntry], generation |-> 0]
             /\ sel = NoSelection /\ op = NoOp /\ landed = NoWrite

-----------------------------------------------------------------------------
(* The cables (external). *)

PlugIn(p, d) == /\ plug[p].dev = "none"
                /\ p # Root => plug[Root].dev = "hub" /\ d # "hub"
                /\ \A q \in Places : plug[q].dev # d
                /\ plug' = [plug EXCEPT ![p] = [dev |-> d, changed |-> TRUE]]
                /\ Moved /\ UNCHANGED <<hostTab, sel, landed>>

PullOut(p) == /\ plug[p].dev # "none"
              /\ plug' = [q \in Places |-> IF q = p THEN [dev |-> "none", changed |-> TRUE]
                                           ELSE IF p = Root THEN Empty ELSE plug[q]]
              /\ Moved /\ UNCHANGED <<hostTab, sel, landed>>

-----------------------------------------------------------------------------
(* The tables of the host *)

(* child_slot() *)
Attached(t, p) == {n \in 1..Slots : t.slots[n].active /\ t.slots[n].place = p}
ChildSlot(t, p) == IF Attached(t, p) = {} THEN 0 ELSE Min(Attached(t, p))

Children(t, n) == {n} \cup (IF t.slots[n].dev = "hub"
                            THEN UNION {Attached(t, p) : p \in 1..HubPorts} ELSE {})

\* The ports that may be tried again: a port of the hub at once, the root port
\* when a Disable Slot command below it is confirmed.
Reseen(t, n, ok) ==
  [p \in Places |-> t.seen[p] /\ IF p = Root THEN ok \cap Children(t, n) = {}
                                ELSE \A m \in Children(t, n) : t.slots[m].place # p]
Disabled(t, n, ok) ==
  [m \in 1..Slots |-> IF m \in ok \cap Children(t, n) THEN FreeSlot ELSE t.slots[m]]

(* Mutant of disconnect: the entry of the storage table stays. *)
DisconnectKeeps(t, n, ok) ==
  [t EXCEPT !.slots = Disabled(t, n, ok), !.seen = Reseen(t, n, ok)]

(* disconnect(): children first; the table entry goes at once, a slot only  *)
(* when the controller confirms its Disable Slot command (those in ok).     *)
disconnect(t, n, ok) ==
  [t EXCEPT !.slots = Disabled(t, n, ok), !.seen = Reseen(t, n, ok),
            !.storage = [i \in 1..Entries |->
                           IF @[i].slot \in Children(t, n) THEN NoEntry ELSE @[i]]]
Confirmed == SUBSET (1..Slots)

FreeEntries(t) == {i \in 1..Entries : t.storage[i].slot = 0}

(* setup_storage(): a new generation, the first free entry. *)
SetupStorage(t, n) ==
  [t EXCEPT !.generation = @ + 1,
            !.storage[Min(FreeEntries(t))] = [slot |-> n, gen |-> t.generation + 1]]

(* attach(): a free slot takes the device; the ports of a hub are new. *)
FreeSlots(t) == {n \in 1..Slots : ~t.slots[n].active}
Taken(t, n, p, d) ==
  [t EXCEPT !.slots[n] = [active |-> TRUE, place |-> p, dev |-> d],
            !.seen = [q \in Places |-> @[q] /\ (d = "hub" => q = Root)]]

(* attach() and configure(): what may become of a device that was found. *)
Attach(t, p, d) ==
  {t} \cup {disconnect(Taken(t, n, p, d), n, ok) : n \in FreeSlots(t), ok \in Confirmed}
      \cup {IF d = "hub" THEN Taken(t, n, p, d) ELSE SetupStorage(Taken(t, n, p, d), n) :
              n \in {m \in FreeSlots(t) : d = "hub" \/ FreeEntries(t) # {}}}

(* One port of usb_xhci_poll() or scan_hub(). *)
Gone(t, p, ok) ==
  LET n == ChildSlot(t, p)
      u == IF n = 0 THEN t ELSE disconnect(t, n, ok)
  IN  [u EXCEPT !.seen[p] = FALSE]
Lost(p) == plug[p].dev = "none" \/ plug[p].changed
Left(p, ok) == IF Lost(p) THEN Gone(hostTab, p, ok) ELSE hostTab
Untried(t, p) == /\ plug[p].dev # "none" /\ ~t.seen[p]
                 /\ Lost(p) \/ ChildSlot(t, p) = 0

Looked(p) ==
  /\ \E t \in {Left(p, ok) : ok \in Confirmed} :
       IF Untried(t, p) /\ t.generation < Attaches
       THEN \E u \in Attach(t, p, plug[p].dev) : hostTab' = [u EXCEPT !.seen[p] = TRUE]
       ELSE hostTab' = t
  /\ plug' = [plug EXCEPT ![p].changed = FALSE]

-----------------------------------------------------------------------------
(* usb_xhci_poll(), called for its own sake or by get_storage(). *)

Poll(next) == op' = [op EXCEPT !.at = "root", !.next = next]

IdlePoll == op.at = "idle" /\ Poll("idle") /\ UNCHANGED <<plug, hostTab, sel, landed>>

After(o) == IF o.next = "idle" THEN NoOp ELSE [o EXCEPT !.at = o.next, !.port = Root]

PollRoot == /\ op.at = "root" /\ Looked(Root)
            /\ op' = [op EXCEPT !.at = "hub", !.port = 1] /\ UNCHANGED <<sel, landed>>

(* A poll that does not scan: poll_counter, no hub, or a request fails. *)
PollEnds == /\ op.at = "hub" /\ op' = After(op)
            /\ UNCHANGED <<plug, hostTab, sel, landed>>

(* scan_hub(): one port after the other while the hub answers. *)
PollHub == /\ op.at = "hub" /\ op.port <= HubPorts
           /\ \E n \in 1..Slots : hostTab.slots[n].active /\ hostTab.slots[n].dev = "hub"
           /\ plug[Root] = [dev |-> "hub", changed |-> FALSE]
           /\ Looked(op.port)
           /\ op' = [op EXCEPT !.port = @ + 1] /\ UNCHANGED <<sel, landed>>

-----------------------------------------------------------------------------
(* disk.c on top of it *)

Entry == hostTab.storage[sel.index]
Reaches(n) == /\ plug[hostTab.slots[n].place] = [dev |-> hostTab.slots[n].dev, changed |-> FALSE]
              /\ hostTab.slots[n].place # Root => plug[Root] = [dev |-> "hub", changed |-> FALSE]

(* disk_select(): the entry and its generation are remembered. *)
Select(i) == /\ op.at = "idle" /\ hostTab.storage[i].slot # 0
             /\ sel' = [index |-> i, gen |-> hostTab.storage[i].gen,
                        dev |-> hostTab.slots[hostTab.storage[i].slot].dev]
             /\ landed' = NoWrite /\ sel' # sel /\ UNCHANGED <<plug, hostTab, op>>

(* disk_write(): disk_present(), then the transfer. *)
DiskWrite == /\ op.at = "idle" /\ sel # NoSelection /\ Poll("present")
             /\ landed' = NoWrite /\ UNCHANGED <<plug, hostTab, sel>>

CheckPresent == /\ op.at = "present"
                /\ IF Entry.slot = 0 THEN op' = NoOp ELSE Poll("generation")
                /\ UNCHANGED <<plug, hostTab, sel, landed>>

Generation == /\ op.at = "generation"
              /\ IF Entry.slot = 0 \/ Entry.gen # sel.gen THEN op' = NoOp ELSE Poll("transfer")
              /\ UNCHANGED <<plug, hostTab, sel, landed>>

(* usb_xhci_storage_transfer(): a failed exchange disconnects the device. *)
Transferred ==
  /\ op.at = "transfer" /\ op' = NoOp
  /\ \/ Entry.slot = 0 /\ UNCHANGED <<hostTab, landed>>
     \/ /\ Entry.slot # 0 /\ Reaches(Entry.slot)
        /\ landed' = [dev |-> hostTab.slots[Entry.slot].dev, moved |-> op.moved]
        /\ UNCHANGED hostTab
     \/ /\ Entry.slot # 0 /\ \E ok \in Confirmed : hostTab' = disconnect(hostTab, Entry.slot, ok)
        /\ UNCHANGED landed
  /\ UNCHANGED <<plug, sel>>

PortsNext == \/ \E p \in Places, d \in Sticks \cup {"hub"} : PlugIn(p, d)
             \/ \E p \in Places : PullOut(p)
             \/ IdlePoll \/ PollRoot \/ PollHub \/ PollEnds
             \/ \E i \in 1..Entries : Select(i)
             \/ DiskWrite \/ CheckPresent \/ Generation \/ Transferred

PortsSpec == PortsInit /\ [][PortsNext]_portsVars

-----------------------------------------------------------------------------
(* A generation names one enumeration: an entry in use refers to an active  *)
(* slot, and one whose generation is the remembered one is the very disk    *)
(* that was selected, after any order of removals, insertions, scans and    *)
(* Disable Slot commands that fail for a hub, a child or both.              *)
GenerationNames ==
  /\ \A i \in 1..Entries : hostTab.storage[i].slot # 0 =>
       hostTab.slots[hostTab.storage[i].slot].active
  /\ sel # NoSelection /\ Entry.slot # 0 /\ Entry.gen = sel.gen =>
       hostTab.slots[Entry.slot].dev = sel.dev

(* "Disk enumeration generations prevent reusing an old filesystem mount    *)
(* after a reconnect" (USB.md): what disk_write() wrote went to the disk    *)
(* that was selected, at least if no cable moved during the call itself.    *)
(* The third poll of disk_write() comes after the check of the generation,  *)
(* so a hub scan that falls on it can put another disk into the entry.      *)
WritesStayOnSelected == landed.dev \in {"none", sel.dev} \/ landed.moved
=============================================================================
