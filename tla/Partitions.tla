------------------------------ MODULE Partitions ------------------------------
(***************************************************************************)
(* The MBR arithmetic of partition.c: a table is a function from slots to  *)
(* entries [start, size, type]; a free entry is all zero.  Positions are   *)
(* sectors and partitions are aligned to Align of them (2048).             *)
(***************************************************************************)
EXTENDS Naturals, FiniteSets, FiniteSetsExt

CONSTANTS Slots,     \* entries of a table (4)
          Align,     \* 2048
          Attempts   \* rounds of partition_auto (5)

ASSUME PartitionAssumption == Slots \in Nat /\ Align \in Nat \ {0} /\ Attempts \in Nat

Data == "83"
Efi == "ef"
Unused == [start |-> 0, size |-> 0, type |-> "free"]
NoTable == [s \in 1..Slots |-> Unused]
InUse(t) == {s \in 1..Slots : t[s].type # "free"}
Sectors(e) == e.start .. (e.start + e.size - 1)

Overlap(a, b) == a.start < b.start + b.size /\ b.start < a.start + a.size

partition_validate(t, sectors) ==
  \A i \in InUse(t) :
    /\ t[i].start > 0 /\ t[i].size > 0
    /\ t[i].start < sectors /\ t[i].size <= sectors - t[i].start
    /\ \A j \in InUse(t) : j < i => ~Overlap(t[i], t[j])

\* partition_add: the table with a new entry, and when it is accepted.
Added(t, s, start, size, type) ==
  [t EXCEPT ![s] = [start |-> start, size |-> size, type |-> type]]
CanAdd(t, sectors, s, start, size, type) ==
  /\ t[s].type = "free" /\ start >= Align /\ start % Align = 0 /\ size > 0
  /\ partition_validate(Added(t, s, start, size, type), sectors)

AlignUp(n) == ((n + Align - 1) \div Align) * Align

\* One round of the search from start: past the partition that covers it,
\* or the gap up to the next one is taken, or its end is tried.
Round(t, sectors, s, size, type, start) ==
  LET covering == {i \in InUse(t) : t[i].start <= start /\ t[i].start + t[i].size > start}
      end  == Min({sectors} \cup {t[i].start : i \in {j \in InUse(t) : t[j].start > start}})
      room == IF end > start THEN end - start ELSE 0
      wanted == IF size > 0 THEN size ELSE room
  IN  IF covering # {}
      THEN [is |-> "search", start |-> AlignUp(Max({t[i].start + t[i].size : i \in covering})),
            size |-> 0]
      ELSE IF wanted > 0 /\ room >= wanted /\ CanAdd(t, sectors, s, start, wanted, type)
      THEN [is |-> "found", start |-> start, size |-> wanted]
      ELSE IF end = sectors THEN [is |-> "full", start |-> start, size |-> 0]
      ELSE [is |-> "search", start |-> end, size |-> 0]

NoSlot == 0   \* -1 in the code
FreeSlot(t) == IF InUse(t) = 1..Slots THEN NoSlot ELSE Min((1..Slots) \ InUse(t))

Search(t, sectors, size, type) ==
  LET s == FreeSlot(t)
      at[n \in 0..Attempts] ==
        IF n = 0 THEN [is |-> "search", start |-> Align, size |-> 0]
        ELSE IF at[n - 1].is # "search" THEN at[n - 1]
        ELSE Round(t, sectors, s, size, type, at[n - 1].start)
  IN  at[Attempts]

\* partition_auto: the slot it fills, and the table with it filled.
AutoSlot(t, sectors, size, type) ==
  IF FreeSlot(t) # NoSlot /\ Search(t, sectors, size, type).is = "found"
  THEN FreeSlot(t) ELSE NoSlot
AutoAdded(t, sectors, size, type) ==
  LET r == Search(t, sectors, size, type)
  IN  IF AutoSlot(t, sectors, size, type) = NoSlot THEN t
      ELSE Added(t, FreeSlot(t), r.start, r.size, type)
===============================================================================
