------------------------------- MODULE UsbBot -------------------------------
(***************************************************************************)
(* One root port of usb_storage.c: enumeration and the Bulk-Only Transport *)
(* of a disk behind a UHCI, OHCI or EHCI controller.  A command is three   *)
(* transfers, CBW, data and CSW, with data toggles kept at both ends.  Any *)
(* transfer may fail with the device having taken part of it or not, and   *)
(* devices come and go at every step.  The device (gadget) is external: it *)
(* is the automaton the host code relies on.                               *)
(***************************************************************************)
EXTENDS Naturals

CONSTANTS Disks, Mice,  \* devices that may be put into the port
          Generations   \* bound on d_generation

ASSUME BotAssumption == Disks \cap Mice = {} /\ "none" \notin Disks \cup Mice
                        /\ Generations \in Nat

VARIABLES
  port,    \* status register: the device in it, enabled, connect change
  unit,    \* UsbDevice: ready, seen, mouse, generation, toggles
  cmd,     \* command() in progress: its stage, whom it serves, direction
  gadget,  \* the device's side: phase, toggles, whether it runs this command
  held,    \* the disk and generation a mount remembers
  acked    \* history: what was returned as complete was, for the mount

botVars == <<port, unit, cmd, gadget, held, acked>>

NoCmd == [stage |-> "idle", for |-> "none", via |-> "none", size |-> FALSE, input |-> FALSE]
Fresh == [phase |-> "off", own |-> FALSE, inT |-> 0, outT |-> 0]
NoMount == [dev |-> "none", gen |-> 0]

BotInit == /\ port = [dev |-> "none", enabled |-> FALSE, changed |-> FALSE]
           /\ unit = [ready |-> FALSE, seen |-> FALSE, mouse |-> FALSE, gen |-> 0,
                      inT |-> 0, outT |-> 0]
           /\ cmd = NoCmd /\ gadget = Fresh /\ held = NoMount /\ acked = TRUE

(* A device is pulled out or put in; the port is then no longer enabled. *)
Unplug == /\ port.dev # "none"
          /\ port' = [dev |-> "none", enabled |-> FALSE, changed |-> TRUE]
          /\ gadget' = Fresh /\ UNCHANGED <<unit, cmd, held, acked>>
Plug == /\ port.dev = "none"
        /\ \E d \in Disks \cup Mice : port' = [dev |-> d, enabled |-> FALSE, changed |-> TRUE]
        /\ UNCHANGED <<unit, cmd, gadget, held, acked>>

Connected == port.dev # "none" /\ port.enabled /\ ~port.changed
NoCommand == cmd.stage = "idle"

(* usb_storage_present(): readiness is dropped once the port is not ours. *)
DiskPresent == unit.ready /\ Connected
NotPresent == /\ NoCommand /\ unit.ready /\ ~Connected
              /\ unit' = [unit EXCEPT !.ready = FALSE]
              /\ UNCHANGED <<port, cmd, gadget, held, acked>>

-----------------------------------------------------------------------------
(* enumerate_port(): port reset, address, configuration, BOT reset; then   *)
(* the first commands.  A reset puts the device into its default state and *)
(* the configuration clears the toggles of both ends.                      *)

SendCommand(for, via, size, input) ==
  cmd' = [stage |-> "cbw", for |-> for, via |-> via, size |-> size, input |-> input]

Reset(via) ==
  /\ unit' = [unit EXCEPT !.ready = FALSE, !.seen = TRUE, !.inT = 0, !.outT = 0,
                          !.mouse = @ \/ port.dev \in Mice]
  /\ port' = [port EXCEPT !.enabled = TRUE, !.changed = FALSE]
  /\ gadget' = [Fresh EXCEPT !.phase = "cbw"]
  /\ IF port.dev \in Mice THEN cmd' = NoCmd ELSE SendCommand("test", via, FALSE, FALSE)

(* It fails before the first command: only the probe disables the port. *)
NotFound(via) ==
  /\ unit' = [unit EXCEPT !.ready = FALSE, !.seen = TRUE]
  /\ port' \in IF via = "probe" THEN {[port EXCEPT !.enabled = FALSE]}
              ELSE {port, [port EXCEPT !.enabled = TRUE, !.changed = FALSE]}
  /\ gadget' \in {gadget, Fresh} /\ UNCHANGED cmd

(* usb_storage_probe(): what a mount does with a unit that is not present. *)
Probe == /\ NoCommand /\ ~DiskPresent /\ ~(unit.mouse /\ Connected)
         /\ \/ port.dev # "none" /\ unit.gen < Generations /\ Reset("probe")
            \/ NotFound("probe")
         /\ UNCHANGED <<held, acked>>

(* usb_mouse_poll(), the part that watches the port. *)
PollGone == /\ NoCommand /\ (port.dev = "none" \/ port.changed)
            /\ port.changed \/ unit.seen \/ unit.ready \/ unit.mouse
            /\ unit' = [unit EXCEPT !.mouse = FALSE, !.seen = FALSE, !.ready = FALSE]
            /\ port' = [port EXCEPT !.changed = FALSE]
            /\ UNCHANGED <<cmd, gadget, held, acked>>
PollNew == /\ NoCommand /\ port.dev # "none" /\ ~port.changed /\ ~unit.seen /\ ~unit.ready
           /\ \/ unit.gen < Generations /\ Reset("poll")
              \/ NotFound("poll")
           /\ UNCHANGED <<held, acked>>

-----------------------------------------------------------------------------
(* transfer(): an OUT is dropped by a device whose toggle differs, an IN    *)
(* with the wrong toggle is dropped by the host.                            *)

(* What the device makes of a CBW or of data sent to it. *)
TakesOut(msg) ==
  CASE gadget.phase = "cbw" /\ msg = "cbw" ->
         [gadget EXCEPT !.own = TRUE, !.outT = 1 - @,
                        !.phase = IF ~cmd.size THEN "csw" ELSE IF cmd.input THEN "in" ELSE "out"]
    [] gadget.phase = "out" -> [gadget EXCEPT !.phase = "csw", !.outT = 1 - @]
    [] OTHER -> gadget
Accepts(msg) == gadget.phase = (IF msg = "cbw" THEN "cbw" ELSE "out") \/ gadget.phase = "out"

SendsIn == [gadget EXCEPT !.phase = IF @ = "in" THEN "csw" ELSE "cbw", !.inT = 1 - @]

(* Mutant of Failed: the unit stays ready after a broken exchange. *)
FailedReady == cmd' = NoCmd /\ UNCHANGED <<unit, port>>

(* The error exit of command(), and of the enumeration it was part of. *)
Failed == /\ cmd' = NoCmd
          /\ unit' = [unit EXCEPT !.ready = FALSE]
          /\ port' = IF cmd.via = "probe" THEN [port EXCEPT !.enabled = FALSE] ELSE port

Broken(after) == /\ Failed
                 /\ gadget' \in {gadget, after,
                                 [after EXCEPT !.inT = 1 - @], [after EXCEPT !.outT = 1 - @]}
                 /\ UNCHANGED <<held, acked>>

OutDone(next, msg) ==
  /\ gadget' = IF gadget.outT = unit.outT THEN TakesOut(msg) ELSE gadget
  /\ unit' = [unit EXCEPT !.outT = 1 - @]
  /\ cmd' = [cmd EXCEPT !.stage = next]
  /\ UNCHANGED <<port, held, acked>>

Cbw == /\ cmd.stage = "cbw"
       /\ \/ Connected /\ Accepts("cbw") /\ OutDone(IF cmd.size THEN "data" ELSE "csw", "cbw")
          \/ Broken(TakesOut("cbw"))

Data == /\ cmd.stage = "data"
        /\ \/ Connected /\ ~cmd.input /\ Accepts("data") /\ OutDone("csw", "data")
           \/ /\ Connected /\ cmd.input /\ gadget.phase = "in" /\ gadget.inT = unit.inT
              /\ gadget' = SendsIn
              /\ unit' = [unit EXCEPT !.inT = 1 - @]
              /\ cmd' = [cmd EXCEPT !.stage = "csw"] /\ UNCHANGED <<port, held, acked>>
           \/ Broken(SendsIn)

(* A status block is accepted by its length, signature, tag and residue; a *)
(* device may also repeat the block of an earlier command.                 *)
Genuine == gadget.own

(* Mutant of Registered: a new enumeration keeps the generation. *)
RegisteredAgain(u) == [u EXCEPT !.ready = TRUE]

(* The end of a successful enumeration. *)
Registered(u) == [u EXCEPT !.ready = TRUE, !.gen = @ + 1]

(* What the command was for: enumerate_port() or sectors_command(). *)
Completed(status) ==
  /\ \/ /\ cmd.for = "test"
        /\ IF status = 0 THEN SendCommand("capacity", cmd.via, TRUE, TRUE)
           ELSE SendCommand("sense", cmd.via, TRUE, TRUE)
     \/ cmd.for = "sense" /\ SendCommand("test", cmd.via, FALSE, FALSE)
     \/ cmd.for \in {"capacity", "io"} /\ cmd' = NoCmd
  /\ unit' = IF cmd.for = "capacity" /\ status = 0
             THEN Registered([unit EXCEPT !.inT = 1 - @]) ELSE [unit EXCEPT !.inT = 1 - @]
  /\ port' = IF cmd.for = "capacity" /\ cmd.via = "probe" /\ status = 1
             THEN [port EXCEPT !.enabled = FALSE] ELSE port
  /\ acked' = IF cmd.for = "io" /\ status = 0
              THEN acked /\ gadget.own /\ port.dev = held.dev ELSE acked
  /\ UNCHANGED held

Csw == /\ cmd.stage = "csw"
       /\ \/ /\ Connected /\ gadget.phase = "csw" /\ gadget.inT = unit.inT /\ Genuine
             /\ \E status \in {0, 1} : Completed(status)
             /\ gadget' = [SendsIn EXCEPT !.own = FALSE]
          \/ Broken(SendsIn)

(* A device that answers with the status of an earlier command. *)
Repeats == /\ cmd.stage = "csw" /\ gadget.phase = "csw"
           /\ gadget' = [gadget EXCEPT !.own = FALSE]
           /\ gadget' # gadget /\ UNCHANGED <<port, unit, cmd, held, acked>>

-----------------------------------------------------------------------------
(* A mount remembers the generation; every later transfer is refused when   *)
(* it changed (disk.c).                                                     *)
Mount == /\ NoCommand /\ DiskPresent /\ held' = [dev |-> port.dev, gen |-> unit.gen]
         /\ held' # held /\ UNCHANGED <<port, unit, cmd, gadget, acked>>

(* sectors_command() and usb_storage_flush(). *)
Io == /\ NoCommand /\ DiskPresent /\ held.gen = unit.gen
      /\ \E size, input \in BOOLEAN : SendCommand("io", "io", size, input)
      /\ UNCHANGED <<port, unit, gadget, held, acked>>

BotNext == Unplug \/ Plug \/ NotPresent \/ Probe \/ PollGone \/ PollNew
           \/ Cbw \/ Data \/ Csw \/ Repeats \/ Mount \/ Io

BotSpec == BotInit /\ [][BotNext]_botVars

-----------------------------------------------------------------------------
(* A unit that is ready has its device waiting for a CBW with equal toggles *)
(* at both ends: whatever broke off before, the next command starts clean   *)
(* because the error exit of command() forces a new enumeration.            *)
ReadyInSync == NoCommand /\ DiskPresent =>
                 /\ gadget.phase = "cbw"
                 /\ gadget.inT = unit.inT /\ gadget.outT = unit.outT

(* A read, write or flush is returned as complete only when the very disk   *)
(* the mount remembers executed that very command: "Short transfers and BOT *)
(* status/signature/tag errors cannot be returned as successful complete    *)
(* block reads", and "Disk enumeration generations prevent reusing an old   *)
(* filesystem mount after a reconnect".                                     *)
AckedByMounted == acked
=============================================================================
