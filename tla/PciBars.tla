------------------------------- MODULE PciBars -------------------------------
(***************************************************************************)
(* The low MMIO allocator of storage_pci.c.  At boot every range the        *)
(* firmware reports and every assigned BAR or bridge window is recorded;    *)
(* later a 64 bit BAR of a root bus device above 4 GiB is moved into the    *)
(* first free aligned gap of the window.  Addresses are small units.        *)
(***************************************************************************)
EXTENDS Naturals, FiniteSets

CONSTANTS Base, Top,    \* the window [0x90000000, 0xf0000000)
          Limit,        \* addresses from here on (4 GiB) are not recorded
          Sizes,        \* powers of two a BAR may have
          Table,        \* entries of pci_reserved
          Lengths,      \* lengths of the ranges taken before
          Ranges,       \* bound on their number
          Devices       \* functions whose BAR lies above Limit

ASSUME BarsAssumption == /\ Base \in Nat /\ Top \in Nat /\ Limit \in Nat
                         /\ Base < Top /\ Top <= Limit
                         /\ Sizes \subseteq Nat \ {0} /\ Table \in Nat
                         /\ Lengths \subseteq Nat \ {0} /\ Ranges \in Nat

VARIABLES
  reserved,  \* pci_reserved: the ranges <<first, end>> recorded
  usable,    \* pci_allocator_ready: "unset" before the memory map is read
  firmware,  \* the ranges that were taken before the kernel started
  bars,      \* the BAR each moved device has now: <<first, end>>
  search     \* storage_pci_mmio_bar() in progress: device, size, candidate

barsVars == <<reserved, usable, firmware, bars, search>>

NoSearch == [dev |-> "none"]
Aligned(a, size) == ((a + size - 1) \div size) * size
Meet(r, q) == r[1] < q[2] /\ q[1] < r[2]

BarsInit == /\ reserved = {} /\ usable = "unset" /\ firmware = {} /\ search = NoSearch
            /\ bars = [d \in {} |-> <<0, 0>>]

(* storage_pci_boot_memory(): an unreadable map leaves the allocator off. *)
BootMemory == /\ usable = "unset" /\ usable' \in {"yes", "no"}
              /\ UNCHANGED <<reserved, firmware, bars, search>>

(* reserve_mmio(): the table never forgets, it stops all moves when full. *)
ReserveMmio(r) ==
  IF r[1] >= Limit THEN UNCHANGED <<reserved, usable>>
  ELSE IF Cardinality(reserved) = Table THEN usable' = "no" /\ UNCHANGED reserved
  ELSE reserved' = reserved \cup {r} /\ UNCHANGED usable

(* One record of the memory map, framebuffer, BAR or bridge window; they    *)
(* may lie inside each other.                                               *)
BootRange == /\ usable # "unset" /\ search = NoSearch /\ bars = [d \in {} |-> <<0, 0>>]
             /\ Cardinality(firmware) < Ranges
             /\ \E a \in 0..Limit, n \in Lengths :
                  /\ firmware' = firmware \cup {<<a, a + n>>}
                  /\ ReserveMmio(<<a, a + n>>)
             /\ UNCHANGED <<bars, search>>

(* storage_pci_mmio_bar(): size the BAR and start at the window's base. *)
MmioBar(d, size) ==
  /\ search = NoSearch /\ usable = "yes" /\ Cardinality(reserved) < Table
  /\ d \notin DOMAIN bars
  /\ search' = [dev |-> d, size |-> size, at |-> Aligned(Base, size)]
  /\ UNCHANGED <<reserved, usable, firmware, bars>>

Candidate == <<search.at, search.at + search.size>>
Hits == {r \in reserved : Meet(Candidate, r)}

(* A collision moves the candidate past the range it met. *)
Collision == /\ search # NoSearch /\ Candidate[2] <= Top
             /\ \E r \in Hits : search' = [search EXCEPT !.at = Aligned(r[2], search.size)]
             /\ UNCHANGED <<reserved, usable, firmware, bars>>

GiveUp == /\ search # NoSearch /\ Candidate[2] > Top /\ search' = NoSearch
          /\ UNCHANGED <<reserved, usable, firmware, bars>>

(* Mutant of Assign: the moved range is not recorded. *)
AssignUnrecorded == /\ search # NoSearch /\ Candidate[2] <= Top /\ Hits = {}
                    /\ bars' = [d \in DOMAIN bars \cup {search.dev} |->
                                  IF d = search.dev THEN Candidate ELSE bars[d]]
                    /\ search' = NoSearch /\ UNCHANGED <<firmware, reserved, usable>>

(* The BAR is written and read back; a device that does not take it keeps   *)
(* its old one.                                                             *)
Assign == /\ search # NoSearch /\ Candidate[2] <= Top /\ Hits = {}
          /\ \/ /\ bars' = [d \in DOMAIN bars \cup {search.dev} |->
                              IF d = search.dev THEN Candidate ELSE bars[d]]
                /\ ReserveMmio(Candidate)
             \/ UNCHANGED <<bars, reserved, usable>>
          /\ search' = NoSearch /\ UNCHANGED firmware

BarsNext == \/ BootMemory \/ BootRange \/ Collision \/ GiveUp \/ Assign
            \/ \E d \in Devices, size \in Sizes : MmioBar(d, size)

BarsSpec == BarsInit /\ [][BarsNext]_barsVars

-----------------------------------------------------------------------------
(* "A conflict-free low MMIO range": a moved BAR lies aligned inside the    *)
(* window and overlaps neither RAM, a firmware range, an assigned BAR nor   *)
(* another moved one, also when the table of ranges has filled up.          *)
BarsDisjoint ==
  \A d \in DOMAIN bars :
    /\ Base <= bars[d][1] /\ bars[d][2] <= Top
    /\ bars[d][1] % (bars[d][2] - bars[d][1]) = 0
    /\ \A f \in firmware : ~Meet(bars[d], f)
    /\ \A e \in DOMAIN bars \ {d} : ~Meet(bars[d], bars[e])
=============================================================================
