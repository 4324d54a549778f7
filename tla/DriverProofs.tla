----------------------------- MODULE DriverProofs -----------------------------
(***************************************************************************)
(* The storage and USB drivers, each for every size of its tables.  EHCI   *)
(* and OHCI schedules are sound and the Bulk-Only Transport stays in step; *)
(* a generation names one enumeration of the xHCI driver; the MMIO         *)
(* allocator never hands out an address twice, and a transfer to a PCI     *)
(* disk changes its own sectors only.                                      *)
(***************************************************************************)
EXTENDS UsbLegacy, UsbBot, XhciPorts, PciBars, PciStorage, Integers, LeastNumber, TLAPS

---------------------------------------------------------------------------
(* EHCI, OHCI and the Bulk-Only Transport                                  *)

(* The types of one host. *)
HostOK == /\ kind \in {"none", "ehci", "ohci"}
          /\ live \in BOOLEAN /\ async \in BOOLEAN /\ periodic \in BOOLEAN /\ torn \in BOOLEAN
Mouse == [pending : BOOLEAN, td : {"idle", "active", "done", "error"}, skip : BOOLEAN]
MiceOK == mice \in [Ports -> Mouse]
StepOK == step = Rest \/ \E o \in {"fill", "on", "wait", "arm", "drop"}, p \in Ports :
                           step = At(o, p)

(* The call at a mouse, during which its schedule is off. *)
AtMouse == step.op \in {"arm", "drop"}

(* While the host is live: the async schedule is on only while a transfer is  *)
(* awaited; a mouse that is worked on is silenced; and every other mouse that *)
(* is waited for is served, or will be when the call at the mouse ends.       *)
LiveInv ==
  /\ async => step.op = "wait"
  /\ AtMouse => IF kind = "ehci" THEN ~periodic ELSE mice[step.port].skip
  /\ \A p \in Ports : mice[p].pending =>
       /\ kind = "ehci" /\ ~AtMouse => periodic
       /\ kind = "ohci" /\ ~(AtMouse /\ step.port = p) => ~mice[p].skip

KindInv == (kind = "none" => ~live) /\ (kind = "ohci" => periodic)

LegacyInv == HostOK /\ MiceOK /\ StepOK /\ ~torn /\ KindInv /\ (live => LiveInv)

(* Nothing is done with a host that was not found. *)
Untouched == kind = "none" => /\ ~live /\ ~async /\ step = Rest
                              /\ \A p \in Ports : ~mice[p].pending

(* The host before initialize() satisfies the invariant. *)
LEMMA InitLegacyInv == LegacyInit => LegacyInv /\ Untouched
<1> SUFFICES ASSUME LegacyInit PROVE LegacyInv /\ Untouched
  OBVIOUS
<1>1. HostOK /\ KindInv /\ ~torn
  BY DEF LegacyInit, HostOK, KindInv
<1>2. MiceOK
  BY DEF LegacyInit, MiceOK, Mouse
<1>3. StepOK /\ (live => LiveInv)
  BY DEF LegacyInit, StepOK
<1>4. Untouched
  BY DEF LegacyInit, Untouched
<1> QED BY <1>1, <1>2, <1>3, <1>4 DEF LegacyInv

(* The invariant says what a reader wants to know between two calls. *)
LEMMA LegacyInvSound == LegacyInv => SchedulesSound
  BY DEF LegacyInv, HostOK, KindInv, LiveInv, AtMouse, SchedulesSound, Rest

(* A host that was stopped has nothing more to lose. *)
LEMMA StopLegacyInv ==
  ASSUME LegacyInv, live' = FALSE, UNCHANGED <<kind, async, periodic, torn>>, MiceOK', StepOK'
  PROVE  LegacyInv'
  BY DEF LegacyInv, HostOK, KindInv

(* usb_legacy_transfer() keeps the invariant, stopped half way or not. *)
LEMMA TransferLegacyInv ==
  ASSUME LegacyInv,
         \/ \E p \in Ports : TransferOff(p)
         \/ TransferFill \/ TransferOn \/ TransferEnd
  PROVE  LegacyInv'
<1>1. PICK p \in Ports : TransferOff(p) \/ (step = At(step.op, p)
                           /\ (TransferFill \/ TransferOn \/ TransferEnd))
  BY DEF LegacyInv, StepOK, TransferFill, TransferOn, TransferEnd, Rest, At
<1>2. MiceOK' /\ StepOK'
  BY <1>1 DEF LegacyInv, StopLegacy, Rest, At, MiceOK, StepOK,
              TransferOff, TransferFill, TransferOn, TransferEnd
<1>3. ASSUME StopLegacy(Rest), UNCHANGED kind PROVE LegacyInv'
  BY <1>2, <1>3, StopLegacyInv DEF StopLegacy
<1>4. CASE TransferFill
  <2>1. HostOK' /\ KindInv'
    BY <1>4 DEF LegacyInv, HostOK, KindInv, TransferFill
  <2>2. ~torn'
    BY <1>4 DEF LegacyInv, LiveInv, TransferFill
  <2>3. live' => LiveInv'
    BY <1>4 DEF LegacyInv, LiveInv, AtMouse, TransferFill, At
  <2> QED BY <1>2, <2>1, <2>2, <2>3 DEF LegacyInv
<1>5. ASSUME UNCHANGED <<kind, live, periodic, torn, mice>>,
             \/ async' = FALSE /\ step = Rest /\ step' = At("fill", p)
             \/ async' = TRUE /\ step.op = "on" /\ step' = At("wait", p)
             \/ async' = FALSE /\ step.op = "wait" /\ step' = Rest
      PROVE  LegacyInv'
  <2>1. HostOK' /\ KindInv' /\ ~torn'
    BY <1>5 DEF LegacyInv, HostOK, KindInv
  <2>2. live' => LiveInv'
    BY <1>5 DEF LegacyInv, LiveInv, AtMouse, Rest, At
  <2> QED BY <1>2, <2>1, <2>2 DEF LegacyInv
<1>6. CASE TransferOff(p)
  BY <1>3, <1>5, <1>6, Zenon DEF TransferOff
<1>7. CASE step = At(step.op, p) /\ TransferOn
  <2>1. step.port = p
    BY <1>7 DEF At
  <2> QED BY <1>3, <1>5, <1>7, <2>1, Zenon DEF TransferOn
<1>8. CASE TransferEnd
  BY <1>3, <1>5, <1>8, Zenon DEF TransferEnd
<1> QED BY <1>1, <1>4, <1>6, <1>7, <1>8

(* Silencing a port, the head of usb_legacy_mouse() and of the way to remove  *)
(* a mouse, keeps the invariant.                                              *)
LEMMA SilencedLegacyInv ==
  ASSUME LegacyInv, NEW p \in Ports, NEW o \in {"arm", "drop"},
         step = Rest, Silenced(p, At(o, p)), UNCHANGED kind
  PROVE  LegacyInv'
<1>1. CASE /\ kind = "ehci" /\ periodic' = FALSE /\ step' = At(o, p)
           /\ UNCHANGED <<live, async, mice, torn>>
  <2>1. HostOK' /\ KindInv' /\ MiceOK' /\ ~torn'
    BY <1>1 DEF LegacyInv, HostOK, KindInv, MiceOK
  <2>2. StepOK' /\ (live' => LiveInv')
    BY <1>1 DEF LegacyInv, LiveInv, AtMouse, Rest, At, StepOK
  <2> QED BY <2>1, <2>2 DEF LegacyInv
<1>2. CASE StopLegacy(At("drop", p)) /\ UNCHANGED mice
  <2>1. MiceOK' /\ StepOK'
    BY <1>2 DEF LegacyInv, StopLegacy, MiceOK, StepOK
  <2> QED BY <1>2, <2>1, StopLegacyInv DEF StopLegacy
<1>3. CASE /\ kind = "ohci" /\ mice' = [mice EXCEPT ![p].skip = TRUE] /\ step' = At(o, p)
           /\ UNCHANGED <<live, async, periodic, torn>>
  <2>1. HostOK' /\ KindInv' /\ ~torn'
    BY <1>3 DEF LegacyInv, HostOK, KindInv
  <2>2. MiceOK'
    BY <1>3 DEF LegacyInv, MiceOK, Mouse
  <2>3. StepOK' /\ (live' => LiveInv')
    BY <1>3 DEF LegacyInv, MiceOK, Mouse, LiveInv, AtMouse, Rest, At, StepOK
  <2> QED BY <2>1, <2>2, <2>3 DEF LegacyInv
<1> QED BY <1>1, <1>2, <1>3, Zenon DEF Silenced

(* A mouse is armed or dropped only while its schedule is off. *)
LEMMA NotRunning ==
  ASSUME LegacyInv, step.op \in {"arm", "drop"}
  PROVE  ~Runs(step.port)
  BY DEF LegacyInv, HostOK, KindInv, LiveInv, AtMouse, Runs

(* Arming the endpoint and posting its descriptor keeps the invariant. *)
LEMMA ArmLegacyInv == ASSUME LegacyInv, MouseArm PROVE LegacyInv'
<1>1. PICK p \in Ports : step = At("arm", p)
  BY DEF LegacyInv, StepOK, MouseArm, Rest, At
<1>2. /\ step.port = p /\ step.op = "arm" /\ torn' = FALSE /\ UNCHANGED <<kind, async>>
      /\ mice' = [mice EXCEPT ![p] = [pending |-> TRUE, td |-> "active", skip |-> FALSE]]
  BY <1>1, NotRunning DEF LegacyInv, MouseArm, At
<1>3. MiceOK'
  BY <1>2 DEF LegacyInv, MiceOK, Mouse
<1>4. CASE periodic' = TRUE /\ step' = Rest /\ UNCHANGED live
  <2>1. HostOK' /\ KindInv'
    BY <1>2, <1>4 DEF LegacyInv, HostOK, KindInv
  <2>2. StepOK' /\ (live' => LiveInv')
    BY <1>1, <1>2, <1>4 DEF LegacyInv, MiceOK, Mouse, LiveInv, AtMouse, Rest, At, StepOK
  <2> QED BY <1>2, <1>3, <2>1, <2>2 DEF LegacyInv
<1>5. CASE kind = "ehci" /\ live' = FALSE /\ step' = At("drop", p) /\ UNCHANGED periodic
  <2>1. HostOK' /\ KindInv' /\ StepOK'
    BY <1>2, <1>5 DEF LegacyInv, HostOK, KindInv, StepOK
  <2> QED BY <1>2, <1>3, <1>5, <2>1 DEF LegacyInv
<1> QED BY <1>2, <1>4, <1>5, Zenon DEF MouseArm

(* Dropping a mouse gives the periodic schedule back to the others. *)
LEMMA DropLegacyInv == ASSUME LegacyInv, MouseDrop PROVE LegacyInv'
<1>1. PICK p \in Ports : step = At("drop", p)
  BY DEF LegacyInv, StepOK, MouseDrop, Rest, At
<1>2. /\ step.port = p /\ step.op = "drop" /\ torn' = FALSE /\ step' = Rest
      /\ UNCHANGED <<kind, async>>
      /\ mice' = [mice EXCEPT ![p] = [pending |-> FALSE, td |-> "idle", skip |-> TRUE]]
  BY <1>1, NotRunning DEF LegacyInv, MouseDrop, At
<1>3. MiceOK' /\ StepOK'
  BY <1>2 DEF LegacyInv, MiceOK, Mouse, StepOK
<1>4. CASE UNCHANGED live /\ kind = "ehci" /\ live
           /\ periodic' = (\E q \in Ports : mice'[q].pending)
  <2>1. HostOK' /\ KindInv'
    BY <1>2, <1>4 DEF LegacyInv, HostOK, KindInv
  <2>2. LiveInv'
    BY <1>1, <1>2, <1>4 DEF LegacyInv, LiveInv, AtMouse, Rest, At
  <2> QED BY <1>2, <1>3, <2>1, <2>2 DEF LegacyInv
<1>5. CASE UNCHANGED <<live, periodic>> /\ ~(kind = "ehci" /\ live)
  <2>1. HostOK' /\ KindInv'
    BY <1>2, <1>5 DEF LegacyInv, HostOK, KindInv
  <2>2. live' => LiveInv'
    BY <1>1, <1>2, <1>5 DEF LegacyInv, HostOK, KindInv, MiceOK, Mouse, LiveInv, AtMouse, Rest, At
  <2> QED BY <1>2, <1>3, <2>1, <2>2 DEF LegacyInv
<1>6. CASE live' = FALSE /\ UNCHANGED periodic
  <2>1. HostOK' /\ KindInv'
    BY <1>2, <1>6 DEF LegacyInv, HostOK, KindInv
  <2> QED BY <1>2, <1>3, <1>6, <2>1 DEF LegacyInv
<1> QED BY <1>4, <1>5, <1>6, Zenon DEF MouseDrop

(* What the controller does to scheduled descriptors, and initialize(). *)
LEMMA RunsLegacyInv == ASSUME LegacyInv, LegacyRuns PROVE LegacyInv'
<1>1. UNCHANGED <<kind, live, async, periodic, step, torn>>
  BY DEF LegacyRuns
<1>2. HostOK' /\ KindInv' /\ StepOK' /\ ~torn'
  BY <1>1 DEF LegacyInv, HostOK, KindInv, StepOK
<1>3. \/ UNCHANGED mice
      \/ \E p \in Ports, r \in {"done", "error"} : mice' = [mice EXCEPT ![p].td = r]
  BY DEF LegacyRuns
<1>4. MiceOK' /\ \A p \in Ports : /\ mice'[p].pending = mice[p].pending
                                  /\ mice'[p].skip = mice[p].skip
  BY <1>3 DEF LegacyInv, MiceOK, Mouse
<1>5. AtMouse => step.port \in Ports
  BY DEF LegacyInv, StepOK, AtMouse, Rest, At
<1>6. live' => LiveInv'
  BY <1>1, <1>4, <1>5 DEF LegacyInv, LiveInv, AtMouse
<1> QED BY <1>2, <1>4, <1>6 DEF LegacyInv

(* initialize() links the endpoints of all ports, all of them skipped. *)
LEMMA InitializeLegacyInv == ASSUME LegacyInv, Untouched, Initialize PROVE LegacyInv'
<1>1. /\ kind = "none" /\ kind' \in {"ehci", "ohci"} /\ live' = TRUE
      /\ periodic' = (kind' = "ohci") /\ UNCHANGED <<async, mice, step, torn>>
  BY DEF Initialize
<1>2. HostOK' /\ KindInv'
  BY <1>1 DEF LegacyInv, HostOK, KindInv
<1>3. MiceOK' /\ StepOK' /\ ~torn'
  BY <1>1 DEF LegacyInv, MiceOK, StepOK
<1>4. LiveInv'
  BY <1>1 DEF Untouched, LiveInv, AtMouse, Rest
<1> QED BY <1>2, <1>3, <1>4 DEF LegacyInv

(* Every step of the driver and of the controller keeps the invariant. *)
LEMMA StepLegacyInv ==
  ASSUME LegacyInv, Untouched, [LegacyNext]_legacyVars PROVE LegacyInv' /\ Untouched'
<1>1. CASE UNCHANGED legacyVars
  BY <1>1 DEF legacyVars, LegacyInv, HostOK, MiceOK, StepOK, KindInv, LiveInv, AtMouse, Untouched
<1>2. CASE Initialize
  <2>1. Untouched'
    BY <1>2 DEF Initialize, Untouched
  <2> QED BY <1>2, <2>1, InitializeLegacyInv
<1>3. ASSUME UNCHANGED kind, live \/ step.op # "idle" PROVE Untouched'
  <2>1. kind # "none"
    BY <1>3 DEF Untouched, Rest
  <2> QED BY <1>3, <2>1 DEF Untouched
<1>4. CASE LegacyRuns
  <2>1. live /\ UNCHANGED kind
    BY <1>4 DEF LegacyRuns, Runs
  <2> QED BY <1>3, <1>4, <2>1, RunsLegacyInv
<1>5. CASE (\E p \in Ports : TransferOff(p)) \/ TransferFill \/ TransferOn \/ TransferEnd
  <2>1. UNCHANGED kind /\ (live \/ step.op # "idle")
    BY <1>5 DEF TransferOff, TransferFill, TransferOn, TransferEnd
  <2> QED BY <1>3, <1>5, <2>1, TransferLegacyInv
<1>6. ASSUME NEW p \in Ports, MousePoll(p) \/ MouseStop(p) PROVE LegacyInv' /\ Untouched'
  <2>1. UNCHANGED kind /\ live /\ step = Rest
    BY <1>6, Zenon DEF MousePoll, MouseStop
  <2>2. \E o \in {"arm", "drop"} : Silenced(p, At(o, p))
    BY <1>6 DEF MousePoll, MouseStop
  <2> QED BY <1>3, <2>1, <2>2, SilencedLegacyInv
<1>7. CASE MouseArm
  <2>1. UNCHANGED kind /\ step.op # "idle"
    BY <1>7 DEF MouseArm
  <2> QED BY <1>3, <1>7, <2>1, ArmLegacyInv
<1>8. CASE MouseDrop
  <2>1. UNCHANGED kind /\ step.op # "idle"
    BY <1>8 DEF MouseDrop
  <2> QED BY <1>3, <1>8, <2>1, DropLegacyInv
<1> QED BY <1>1, <1>2, <1>4, <1>5, <1>6, <1>7, <1>8 DEF LegacyNext

(* usb_legacy_transfer(), usb_legacy_mouse() and stop(), on a host with any   *)
(* number of ports: no descriptor is rewritten under the controller, and      *)
(* every mouse that is waited for stays in a schedule that is on.             *)
THEOREM SchedulesSoundAlways == LegacySpec => []SchedulesSound
<1>1. LegacyInv /\ Untouched /\ [LegacyNext]_legacyVars => (LegacyInv /\ Untouched)'
  BY StepLegacyInv
<1> QED BY <1>1, InitLegacyInv, LegacyInvSound, PTL DEF LegacySpec

--------------------------------------------------------------------------------
(* The Bulk-Only Transport. *)

ToggleBit == {0, 1}
PortOK == port \in [dev : Disks \cup Mice \cup {"none"}, enabled : BOOLEAN, changed : BOOLEAN]
Units == [ready : BOOLEAN, seen : BOOLEAN, mouse : BOOLEAN, gen : Nat,
          inT : ToggleBit, outT : ToggleBit]
UnitOK == unit \in Units
Cmds == [stage : {"idle", "cbw", "data", "csw"},
         for : {"none", "test", "sense", "capacity", "io"},
         via : {"none", "probe", "poll", "io"}, size : BOOLEAN, input : BOOLEAN]
CmdOK == cmd \in Cmds
Gadgets == [phase : {"off", "cbw", "in", "out", "csw"}, own : BOOLEAN,
            inT : ToggleBit, outT : ToggleBit]
GadgetOK == gadget \in Gadgets
HeldOK == held \in [dev : Disks \cup Mice \cup {"none"}, gen : Nat]
BotTypeOK == PortOK /\ UnitOK /\ CmdOK /\ GadgetOK /\ HeldOK

(* The device expects what the host sends next, with the same toggles. *)
Expects == CASE cmd.stage = "data" -> IF cmd.input THEN "in" ELSE "out"
             [] cmd.stage = "csw" -> "csw"
             [] OTHER -> "cbw"
InStep == /\ gadget.phase = Expects
          /\ gadget.inT = unit.inT /\ gadget.outT = unit.outT
SyncInv == (unit.ready \/ cmd.stage # "idle") /\ Connected => InStep

(* A ready unit of the remembered generation is the remembered disk, and a *)
(* transfer for the mount runs only on such a unit.                        *)
MountInv ==
  /\ held.gen <= unit.gen
  /\ unit.ready /\ Connected /\ held.gen = unit.gen => port.dev = held.dev
  /\ cmd.stage # "idle" /\ cmd.for = "io" => unit.ready /\ held.gen = unit.gen
  /\ cmd.stage = "data" => cmd.size

BotInv == BotTypeOK /\ SyncInv /\ MountInv /\ acked

(* What the device makes of a transfer is a state of the device. *)
LEMMA GadgetStates ==
  ASSUME GadgetOK, CmdOK
  PROVE  Fresh \in Gadgets /\ SendsIn \in Gadgets /\ \A m \in {"cbw", "data"} : TakesOut(m) \in Gadgets
<1>1. Fresh \in Gadgets
  BY DEF Fresh, Gadgets, ToggleBit
<1>0. 1 - gadget.inT \in ToggleBit /\ 1 - gadget.outT \in ToggleBit
  BY DEF GadgetOK, Gadgets, ToggleBit
<1>2. SendsIn \in Gadgets
  BY <1>0 DEF SendsIn, GadgetOK, Gadgets
<1>3. ASSUME NEW m \in {"cbw", "data"} PROVE TakesOut(m) \in Gadgets
  <2>1. CASE gadget.phase = "cbw" /\ m = "cbw"
    BY <1>0, <2>1 DEF TakesOut, GadgetOK, Gadgets
  <2>2. CASE gadget.phase = "out"
    BY <1>0, <2>2 DEF TakesOut, GadgetOK, Gadgets
  <2>3. CASE ~(gadget.phase = "cbw" /\ m = "cbw") /\ gadget.phase # "out"
    BY <2>3 DEF TakesOut, GadgetOK
  <2> QED BY <2>1, <2>2, <2>3
<1> QED BY <1>1, <1>2, <1>3

(* An empty port, nothing enumerated and nothing mounted. *)
LEMMA InitBotInv == BotInit => BotInv
<1> SUFFICES ASSUME BotInit PROVE BotInv
  OBVIOUS
<1>1. BotTypeOK
  BY DEF BotInit, BotTypeOK, PortOK, UnitOK, CmdOK, GadgetOK, HeldOK,
         Cmds, Gadgets, Units, NoCmd, Fresh, NoMount, ToggleBit
<1>2. SyncInv /\ MountInv /\ acked
  BY DEF BotInit, SyncInv, MountInv, Connected, NoCmd, NoMount
<1> QED BY <1>1, <1>2 DEF BotInv

(* The cable: after it moved the port is not connected. *)
LEMMA CableBotInv == ASSUME BotInv, Unplug \/ Plug PROVE BotInv'
<1>1. /\ \E d \in Disks \cup Mice \cup {"none"} :
           port' = [dev |-> d, enabled |-> FALSE, changed |-> TRUE]
      /\ gadget' = Fresh \/ gadget' = gadget
      /\ UNCHANGED <<unit, cmd, held, acked>>
  BY DEF Unplug, Plug
<1>2. BotTypeOK'
  <2>1. PortOK' /\ GadgetOK'
    BY <1>1, GadgetStates DEF BotInv, BotTypeOK, PortOK, GadgetOK
  <2>2. UnitOK' /\ CmdOK' /\ HeldOK'
    BY <1>1 DEF BotInv, BotTypeOK, UnitOK, CmdOK, HeldOK
  <2> QED BY <2>1, <2>2 DEF BotTypeOK
<1>3. SyncInv' /\ MountInv' /\ acked'
  BY <1>1 DEF BotInv, SyncInv, MountInv, Connected
<1> QED BY <1>2, <1>3 DEF BotInv

(* Between two commands a unit may always be given up. *)
LEMMA DropBotInv ==
  ASSUME BotInv, NoCommand, PortOK', UnitOK', GadgetOK',
         unit'.ready = FALSE, unit'.gen = unit.gen, UNCHANGED <<cmd, held, acked>>
  PROVE  BotInv'
<1>1. CmdOK' /\ HeldOK'
  BY DEF BotInv, BotTypeOK, CmdOK, HeldOK
<1>2. SyncInv' /\ MountInv' /\ acked'
  BY DEF BotInv, SyncInv, MountInv, NoCommand
<1> QED BY <1>1, <1>2 DEF BotInv, BotTypeOK

(* The ways of usb_storage_present(), the poll and a failed enumeration. *)
LEMMA GoneBotInv ==
  ASSUME BotInv, NoCommand,
         \/ NotPresent \/ PollGone
         \/ (NotFound("probe") \/ NotFound("poll")) /\ UNCHANGED <<held, acked>>
  PROVE  BotInv'
<1>1. PortOK'
  BY DEF BotInv, BotTypeOK, PortOK, NotPresent, PollGone, NotFound
<1>2. UnitOK' /\ unit'.ready = FALSE /\ unit'.gen = unit.gen
  BY DEF BotInv, BotTypeOK, UnitOK, Units, NotPresent, PollGone, NotFound
<1>3. GadgetOK' /\ UNCHANGED <<cmd, held, acked>>
  BY GadgetStates DEF BotInv, BotTypeOK, GadgetOK, NotPresent, PollGone, NotFound
<1> QED BY <1>1, <1>2, <1>3, DropBotInv

(* A port reset starts both ends anew. *)
LEMMA ResetBotInv ==
  ASSUME BotInv, NoCommand, port.dev # "none", Reset("probe") \/ Reset("poll"),
         UNCHANGED <<held, acked>>
  PROVE  BotInv'
<1>1. PICK via \in {"probe", "poll"} : Reset(via)
  OBVIOUS
<1>2. PortOK'
  BY <1>1 DEF BotInv, BotTypeOK, PortOK, Reset
<1>3. UnitOK' /\ unit'.ready = FALSE /\ unit'.gen = unit.gen /\ unit'.inT = 0 /\ unit'.outT = 0
  BY <1>1 DEF BotInv, BotTypeOK, UnitOK, Units, Reset, ToggleBit
<1>4. GadgetOK' /\ gadget'.phase = "cbw" /\ gadget'.inT = 0 /\ gadget'.outT = 0
  BY <1>1 DEF GadgetOK, Gadgets, Reset, Fresh, ToggleBit
<1>5. CmdOK' /\ cmd'.stage \in {"idle", "cbw"} /\ cmd'.for # "io"
  <2>1. NoCmd \in Cmds /\ NoCmd.stage = "idle" /\ NoCmd.for # "io"
    BY DEF Cmds, NoCmd
  <2>2. SendCommand("test", via, FALSE, FALSE) =>
          cmd' \in Cmds /\ cmd'.stage = "cbw" /\ cmd'.for # "io"
    BY DEF Cmds, SendCommand
  <2> QED BY <1>1, <2>1, <2>2 DEF CmdOK, Reset
<1>6. HeldOK' /\ acked'
  BY DEF BotInv, BotTypeOK, HeldOK
<1>7. SyncInv'
  BY <1>3, <1>4, <1>5 DEF SyncInv, InStep, Expects
<1>8. MountInv'
  BY <1>3, <1>5 DEF BotInv, MountInv
<1> QED BY <1>2, <1>3, <1>4, <1>5, <1>6, <1>7, <1>8 DEF BotInv, BotTypeOK

(* The error exit of command() leaves a unit that must be enumerated anew,   *)
(* whatever the device has made of the transfer.                             *)
LEMMA BrokenBotInv ==
  ASSUME BotInv, Broken(TakesOut("cbw")) \/ Broken(SendsIn)
  PROVE  BotInv'
<1>1. Gadgets = [phase : {"off", "cbw", "in", "out", "csw"}, own : BOOLEAN,
                 inT : ToggleBit, outT : ToggleBit]
  BY DEF Gadgets
<1>3. PICK after \in {TakesOut("cbw"), SendsIn} : Broken(after)
  OBVIOUS
<1>4. GadgetOK'
  BY <1>1, <1>3, GadgetStates DEF BotInv, BotTypeOK, GadgetOK, Broken, ToggleBit
<1>5. PortOK'
  BY <1>3 DEF BotInv, BotTypeOK, PortOK, Broken, Failed
<1>6. UnitOK' /\ unit'.ready = FALSE /\ unit'.gen = unit.gen
  BY <1>3 DEF BotInv, BotTypeOK, UnitOK, Units, Broken, Failed
<1>7. CmdOK' /\ cmd'.stage = "idle"
  BY <1>3 DEF CmdOK, Cmds, Broken, Failed, NoCmd
<1>8. HeldOK' /\ acked' /\ UNCHANGED held
  BY <1>3 DEF BotInv, BotTypeOK, HeldOK, Broken
<1>9. SyncInv' /\ MountInv'
  BY <1>6, <1>7, <1>8 DEF BotInv, SyncInv, MountInv
<1> QED BY <1>4, <1>5, <1>6, <1>7, <1>8, <1>9 DEF BotInv, BotTypeOK

(* The host's toggles after a transfer. *)
LEMMA UnitToggles ==
  ASSUME UnitOK
  PROVE  /\ 1 - unit.inT \in ToggleBit /\ 1 - unit.outT \in ToggleBit
         /\ [unit EXCEPT !.inT = 1 - @] \in Units /\ [unit EXCEPT !.outT = 1 - @] \in Units
<1>1. 1 - unit.inT \in ToggleBit /\ 1 - unit.outT \in ToggleBit
  BY DEF UnitOK, Units, ToggleBit
<1> QED BY <1>1 DEF UnitOK, Units

(* A transfer that completed on a connected port advances both ends. *)
LEMMA AdvanceBotInv ==
  ASSUME BotInv, Connected, cmd.stage # "idle",
         NEW next \in {"data", "csw"}, next = "data" => cmd.size,
         cmd' = [cmd EXCEPT !.stage = next], UNCHANGED <<port, held, acked>>,
         UnitOK', GadgetOK', unit'.ready = unit.ready, unit'.gen = unit.gen, InStep'
  PROVE  BotInv'
<1>1. PortOK' /\ HeldOK' /\ acked'
  BY DEF BotInv, BotTypeOK, PortOK, HeldOK
<1>2. CmdOK' /\ cmd'.stage = next /\ cmd'.for = cmd.for /\ cmd'.size = cmd.size
  BY DEF BotInv, BotTypeOK, CmdOK, Cmds
<1>3. SyncInv'
  BY DEF SyncInv
<1>4. Connected' <=> Connected
  BY DEF Connected
<1>5. MountInv'
  BY <1>2, <1>4 DEF BotInv, MountInv
<1> QED BY <1>1, <1>2, <1>3, <1>5 DEF BotInv, BotTypeOK

(* The command block, and data sent to the device. *)
LEMMA OutBotInv ==
  ASSUME BotInv, Connected,
         \/ cmd.stage = "cbw" /\ OutDone(IF cmd.size THEN "data" ELSE "csw", "cbw")
         \/ cmd.stage = "data" /\ ~cmd.input /\ OutDone("csw", "data")
  PROVE  BotInv'
<1>1. InStep /\ cmd.stage \in {"cbw", "data"}
  BY DEF BotInv, SyncInv
<1>2. PICK m \in {"cbw", "data"}, next \in {"data", "csw"} :
         /\ cmd.stage = m /\ OutDone(next, m)
         /\ m = "cbw" => next = IF cmd.size THEN "data" ELSE "csw"
         /\ m = "data" => next = "csw" /\ ~cmd.input
  OBVIOUS
<1>3. /\ gadget' = TakesOut(m) /\ unit' = [unit EXCEPT !.outT = 1 - @]
      /\ cmd' = [cmd EXCEPT !.stage = next] /\ UNCHANGED <<port, held, acked>>
  BY <1>1, <1>2 DEF OutDone, InStep
<1>4. UnitOK' /\ GadgetOK' /\ unit'.ready = unit.ready /\ unit'.gen = unit.gen
  BY <1>3, UnitToggles, GadgetStates DEF BotInv, BotTypeOK, UnitOK, Units, GadgetOK
<1>5. /\ gadget'.inT = gadget.inT /\ gadget'.outT = 1 - gadget.outT
      /\ unit'.inT = unit.inT /\ unit'.outT = 1 - unit.outT
      /\ cmd'.stage = next /\ cmd'.input = cmd.input
  BY <1>1, <1>2, <1>3 DEF BotInv, BotTypeOK, UnitOK, Units, GadgetOK, Gadgets, CmdOK, Cmds,
                          TakesOut, InStep, Expects
<1>6. gadget'.phase = Expects'
  BY <1>1, <1>2, <1>3, <1>5 DEF BotInv, BotTypeOK, GadgetOK, Gadgets, TakesOut, InStep, Expects
<1>7. InStep'
  BY <1>1, <1>5, <1>6 DEF InStep
<1>8. next = "data" => cmd.size
  BY <1>2
<1> QED BY <1>1, <1>3, <1>4, <1>7, <1>8, AdvanceBotInv

(* Data read from the device. *)
LEMMA InBotInv ==
  ASSUME BotInv, Connected, cmd.stage = "data", cmd.input, gadget' = SendsIn,
         unit' = [unit EXCEPT !.inT = 1 - @], cmd' = [cmd EXCEPT !.stage = "csw"],
         UNCHANGED <<port, held, acked>>
  PROVE  BotInv'
<1>1. InStep /\ gadget.phase = "in"
  BY DEF BotInv, SyncInv, InStep, Expects
<1>2. UnitOK' /\ GadgetOK' /\ unit'.ready = unit.ready /\ unit'.gen = unit.gen
  BY UnitToggles, GadgetStates DEF BotInv, BotTypeOK, UnitOK, Units, GadgetOK
<1>3. InStep'
  BY <1>1 DEF BotInv, BotTypeOK, UnitOK, Units, GadgetOK, Gadgets, CmdOK, Cmds,
              SendsIn, InStep, Expects
<1> QED BY <1>2, <1>3, AdvanceBotInv

(* A status block was accepted: both ends are back where a command starts,   *)
(* and what is returned for a mount was done by the disk it remembers.       *)
LEMMA CswBotInv ==
  ASSUME BotInv, cmd.stage = "csw", Connected, gadget.phase = "csw", Genuine,
         NEW status \in {0, 1}, Completed(status), gadget' = [SendsIn EXCEPT !.own = FALSE]
  PROVE  BotInv'
<1>1. InStep
  BY DEF BotInv, SyncInv
<1>2. GadgetOK' /\ gadget'.phase = "cbw" /\ gadget'.inT = 1 - gadget.inT
      /\ gadget'.outT = gadget.outT
  BY GadgetStates DEF BotInv, BotTypeOK, GadgetOK, Gadgets, SendsIn
<1>3. /\ UnitOK' /\ unit'.inT = 1 - unit.inT /\ unit'.outT = unit.outT
      /\ \/ unit'.gen = unit.gen /\ unit'.ready = unit.ready
         \/ unit'.gen = unit.gen + 1 /\ cmd.for = "capacity"
  <2>1. UnitOK /\ 1 - unit.inT \in ToggleBit
    BY UnitToggles DEF BotInv, BotTypeOK
  <2>2. CASE cmd.for = "capacity" /\ status = 0
    <3>1. unit' = [unit EXCEPT !.inT = 1 - @, !.ready = TRUE, !.gen = @ + 1]
      BY <2>1, <2>2 DEF UnitOK, Units, Completed, Registered
    <3>2. unit.gen + 1 \in Nat
      BY <2>1 DEF UnitOK, Units
    <3>3. UnitOK'
      BY <2>1, <3>1, <3>2 DEF UnitOK, Units
    <3> QED BY <2>1, <2>2, <3>1, <3>3 DEF UnitOK, Units
  <2>3. CASE ~(cmd.for = "capacity" /\ status = 0)
    BY <2>1, <2>3 DEF UnitOK, Units, Completed
  <2> QED BY <2>2, <2>3
<1>4. /\ CmdOK' /\ cmd'.stage \in {"idle", "cbw"} /\ cmd'.for # "io"
  <2>1. NoCmd \in Cmds /\ NoCmd.stage = "idle" /\ NoCmd.for # "io"
    BY DEF Cmds, NoCmd
  <2>2. ASSUME NEW f \in {"test", "sense", "capacity"}, NEW z \in BOOLEAN,
               SendCommand(f, cmd.via, z, z)
        PROVE  cmd' \in Cmds /\ cmd'.stage = "cbw" /\ cmd'.for # "io"
    BY <2>2 DEF BotInv, BotTypeOK, CmdOK, Cmds, SendCommand
  <2> QED BY <2>1, <2>2 DEF CmdOK, Completed
<1>5. PortOK' /\ port'.dev = port.dev /\ (Connected' => Connected)
  BY DEF BotInv, BotTypeOK, PortOK, Completed, Connected
<1>6. HeldOK' /\ UNCHANGED held
  BY DEF BotInv, BotTypeOK, HeldOK, Completed
<1>7. acked'
  <2>1. cmd.for = "io" => port.dev = held.dev
    BY DEF BotInv, MountInv
  <2> QED BY <2>1 DEF BotInv, Completed, Genuine
<1>8. SyncInv'
  BY <1>1, <1>2, <1>3, <1>4 DEF SyncInv, InStep, Expects
<1>9. MountInv'
  <2>1. held.gen \in Nat /\ unit.gen \in Nat /\ held.gen <= unit.gen
    BY DEF BotInv, BotTypeOK, HeldOK, UnitOK, Units, MountInv
  <2>2. CASE unit'.gen = unit.gen + 1
    BY <1>4, <1>6, <2>1, <2>2 DEF MountInv
  <2>3. CASE unit'.gen = unit.gen /\ unit'.ready = unit.ready
    BY <1>4, <1>5, <1>6, <2>3 DEF BotInv, MountInv
  <2> QED BY <1>3, <2>2, <2>3
<1> QED BY <1>2, <1>3, <1>4, <1>5, <1>6, <1>7, <1>8, <1>9 DEF BotInv, BotTypeOK

(* A repeated status block, mount, and the start of a transfer for it. *)
LEMMA MountBotInv == ASSUME BotInv, Repeats \/ Mount \/ Io PROVE BotInv'
<1>1. CASE Repeats
  <2>1. GadgetOK' /\ gadget'.phase = gadget.phase /\ gadget'.inT = gadget.inT
        /\ gadget'.outT = gadget.outT
    BY <1>1 DEF BotInv, BotTypeOK, GadgetOK, Gadgets, Repeats
  <2>2. UNCHANGED <<port, unit, cmd, held, acked>>
    BY <1>1 DEF Repeats
  <2>3. PortOK' /\ UnitOK' /\ CmdOK' /\ HeldOK' /\ MountInv' /\ acked'
    BY <2>2 DEF BotInv, BotTypeOK, PortOK, UnitOK, CmdOK, HeldOK, MountInv, Connected
  <2>4. SyncInv'
    BY <2>1, <2>2 DEF BotInv, SyncInv, InStep, Expects, Connected
  <2> QED BY <2>1, <2>3, <2>4 DEF BotInv, BotTypeOK
<1>2. CASE Mount
  <2>1. UNCHANGED <<port, unit, cmd, gadget, acked>> /\ cmd.stage = "idle"
        /\ held' = [dev |-> port.dev, gen |-> unit.gen]
    BY <1>2 DEF Mount, NoCommand
  <2>2. HeldOK'
    BY <2>1 DEF BotInv, BotTypeOK, PortOK, UnitOK, Units, HeldOK
  <2>3. PortOK' /\ UnitOK' /\ CmdOK' /\ GadgetOK' /\ SyncInv' /\ acked'
    BY <2>1 DEF BotInv, BotTypeOK, PortOK, UnitOK, CmdOK, GadgetOK, SyncInv, InStep, Expects,
                Connected
  <2>4. MountInv'
    BY <2>1 DEF BotInv, BotTypeOK, UnitOK, Units, MountInv
  <2> QED BY <2>2, <2>3, <2>4 DEF BotInv, BotTypeOK
<1>3. CASE Io
  <2>1. UNCHANGED <<port, unit, gadget, held, acked>> /\ unit.ready /\ held.gen = unit.gen
    BY <1>3 DEF Io, DiskPresent
  <2>2. CmdOK' /\ cmd'.stage = "cbw"
    BY <1>3 DEF Io, SendCommand, CmdOK, Cmds
  <2>3. PortOK' /\ UnitOK' /\ GadgetOK' /\ HeldOK' /\ acked'
    BY <2>1 DEF BotInv, BotTypeOK, PortOK, UnitOK, GadgetOK, HeldOK
  <2>4. Connected /\ InStep /\ gadget.phase = "cbw"
    BY <1>3 DEF Io, DiskPresent, NoCommand, BotInv, SyncInv, InStep, Expects
  <2>5. SyncInv'
    BY <2>1, <2>2, <2>4 DEF SyncInv, InStep, Expects
  <2>6. MountInv'
    BY <2>1, <2>2 DEF BotInv, MountInv, Connected
  <2> QED BY <2>2, <2>3, <2>5, <2>6 DEF BotInv, BotTypeOK
<1> QED BY <1>1, <1>2, <1>3

(* Every step of the host, the device and the cable keeps the invariant. *)
LEMMA StepBotInv == ASSUME BotInv, [BotNext]_botVars PROVE BotInv'
<1>1. CASE UNCHANGED botVars
  BY <1>1 DEF botVars, BotInv, BotTypeOK, PortOK, UnitOK, CmdOK, GadgetOK, HeldOK,
              SyncInv, MountInv, InStep, Expects, Connected
<1>2. CASE Unplug \/ Plug
  BY <1>2, CableBotInv
<1>3. CASE NotPresent \/ PollGone
  BY <1>3, GoneBotInv DEF NotPresent, PollGone
<1>4. CASE Probe
  BY <1>4, GoneBotInv, ResetBotInv DEF Probe
<1>5. CASE PollNew
  BY <1>5, GoneBotInv, ResetBotInv DEF PollNew
<1>6. CASE Cbw
  BY <1>6, OutBotInv, BrokenBotInv DEF Cbw
<1>7. CASE Data
  BY <1>7, OutBotInv, InBotInv, BrokenBotInv DEF Data
<1>8. CASE Csw
  BY <1>8, CswBotInv, BrokenBotInv DEF Csw
<1>9. CASE Repeats \/ Mount \/ Io
  BY <1>9, MountBotInv
<1> QED BY <1>1, <1>2, <1>3, <1>4, <1>5, <1>6, <1>7, <1>8, <1>9 DEF BotNext

(* The transport invariant holds always. *)
LEMMA BotInvariant == BotSpec => []BotInv
<1>1. BotInv /\ [BotNext]_botVars => BotInv'
  BY StepBotInv
<1> QED BY <1>1, InitBotInv, PTL DEF BotSpec

(* command() and enumerate_port(), for any devices and any number of          *)
(* enumerations: a ready unit has its device waiting for a command block with *)
(* equal toggles at both ends, whatever broke off before.                     *)
THEOREM ReadyInSyncAlways == BotSpec => []ReadyInSync
<1>1. BotInv => ReadyInSync
  BY DEF BotInv, SyncInv, InStep, Expects, ReadyInSync, NoCommand, DiskPresent
<1> QED BY <1>1, BotInvariant, PTL

(* sectors_command() reports success only when the disk that the mount        *)
(* remembers has executed that very command.                                  *)
THEOREM AckedByMountedAlways == BotSpec => []AckedByMounted
<1>1. BotInv => AckedByMounted
  BY DEF BotInv, AckedByMounted
<1> QED BY <1>1, BotInvariant, PTL

---------------------------------------------------------------------------
(* Enumeration of the xHCI driver                                          *)

Plugs == Sticks \cup {"hub", "none"}
SlotRecs == [active : BOOLEAN, place : Places, dev : Plugs]
EntryRecs == [slot : 0..Slots, gen : Nat]
Tabs == [slots : [1..Slots -> SlotRecs], seen : [Places -> BOOLEAN],
         storage : [1..Entries -> EntryRecs], generation : Nat]

(* The table of disks refers to slots in use, with generations given out.  *)
TabOK(t) ==
  \A i \in 1..Entries : t.storage[i].slot # 0 =>
    /\ t.slots[t.storage[i].slot].active
    /\ t.storage[i].gen <= t.generation

(* Between t and u no entry changed its meaning: one that is in use is as   *)
(* it was, on a slot with the same device, or has a new generation.         *)
Follows(t, u) ==
  /\ t.generation <= u.generation
  /\ \A i \in 1..Entries : u.storage[i].slot # 0 =>
       \/ /\ u.storage[i] = t.storage[i]
          /\ u.slots[t.storage[i].slot].dev = t.slots[t.storage[i].slot].dev
       \/ u.storage[i].gen > t.generation

Good(t, u) == u \in Tabs /\ TabOK(u) /\ Follows(t, u)

(* What disk.c remembers is a generation given out. *)
SelOK == sel = NoSelection \/ (sel.index \in 1..Entries /\ sel.gen \in 0..hostTab.generation)

(* disk_write() goes on only for a disk that was selected. *)
Steps == {"idle", "root", "hub", "present", "generation", "transfer"}
OpRecs == [at : Steps, next : Steps, port : Nat, moved : BOOLEAN]
Continues(o) == o.next # "idle" \/ o.at \in {"present", "generation", "transfer"}
OpOK == op \in OpRecs /\ (Continues(op) => sel # NoSelection)
PortsInv ==
  /\ hostTab \in Tabs /\ TabOK(hostTab)
  /\ plug \in [Places -> [dev : Plugs, changed : BOOLEAN]]
  /\ OpOK /\ SelOK /\ GenerationNames

---------------------------------------------------------------------------
(* Operations on the tables                                                *)

(* Steps on the tables compose. *)
LEMMA GoodTrans ==
  ASSUME NEW t \in Tabs, NEW u, NEW v, Good(t, u), Good(u, v)
  PROVE  Good(t, v)
<1>1. /\ u \in Tabs /\ v \in Tabs /\ TabOK(v)
      /\ t.generation \in Nat /\ u.generation \in Nat /\ v.generation \in Nat
      /\ t.generation <= u.generation /\ u.generation <= v.generation
  BY DEF Good, Follows, Tabs
<1>2. ASSUME NEW i \in 1..Entries, v.storage[i].slot # 0
      PROVE  \/ /\ v.storage[i] = t.storage[i]
                /\ v.slots[t.storage[i].slot].dev = t.slots[t.storage[i].slot].dev
             \/ v.storage[i].gen > t.generation
  <2>1. v.storage[i].gen \in Nat
    BY <1>1 DEF Tabs, EntryRecs
  <2>2. CASE v.storage[i].gen > u.generation
    BY <1>1, <2>1, <2>2
  <2>3. CASE /\ v.storage[i] = u.storage[i]
             /\ v.slots[u.storage[i].slot].dev = u.slots[u.storage[i].slot].dev
    BY <1>2, <2>3 DEF Good, Follows
  <2> QED BY <1>2, <2>2, <2>3 DEF Good, Follows
<1> QED BY <1>1, <1>2 DEF Good, Follows

(* Nothing changes. *)
LEMMA GoodRefl == ASSUME NEW t \in Tabs, TabOK(t) PROVE Good(t, t)
  BY DEF Good, Follows, Tabs

(* The notes about ports do not matter to the table of disks. *)
LEMMA GoodSeen ==
  ASSUME NEW t \in Tabs, TabOK(t), NEW seen \in [Places -> BOOLEAN]
  PROVE  Good(t, [t EXCEPT !.seen = seen])
<1> DEFINE u == [t EXCEPT !.seen = seen]
<1>1. /\ u \in Tabs /\ u.slots = t.slots /\ u.storage = t.storage
      /\ u.generation = t.generation /\ t.generation \in Nat
  BY DEF Tabs
<1> HIDE DEF u
<1>2. Good(t, u)
  BY <1>1 DEF Good, Follows, TabOK
<1> QED BY <1>2 DEF u

(* child_slot() finds a slot or nothing. *)
LEMMA ChildSlotOK ==
  ASSUME NEW t, NEW p PROVE ChildSlot(t, p) \in 0..Slots
<1>1. CASE Attached(t, p) = {}
  BY <1>1, PortsAssumption DEF ChildSlot
<1>2. CASE Attached(t, p) # {}
  <2> DEFINE S == Attached(t, p)
  <2>1. S \in SUBSET Nat /\ S \in SUBSET (1..Slots) /\ S # {}
    BY <1>2 DEF Attached
  <2> HIDE DEF S
  <2>2. \E x \in S : \A y \in S : x <= y
    BY <2>1, LeastNat
  <2>3. Min(S) \in S
    BY <2>2, Zenon DEF Min
  <2> QED BY <1>2, <2>1, <2>3, PortsAssumption DEF ChildSlot, S
<1> QED BY <1>1, <1>2

(* disconnect() drops the entries of the slots that may go. *)
LEMMA DisconnectGood ==
  ASSUME NEW t \in Tabs, TabOK(t), NEW n \in 1..Slots, NEW ok
  PROVE  Good(t, disconnect(t, n, ok))
<1> DEFINE C == Children(t, n)
           A == Disabled(t, n, ok)
           B == Reseen(t, n, ok)
           S == [i \in 1..Entries |-> IF t.storage[i].slot \in C THEN NoEntry ELSE t.storage[i]]
           u == disconnect(t, n, ok)
<1>0. /\ t.slots \in [1..Slots -> SlotRecs] /\ t.storage \in [1..Entries -> EntryRecs]
      /\ t.generation \in Nat
  BY DEF Tabs
<1>1. u = [t EXCEPT !.slots = A, !.seen = B, !.storage = S]
  BY DEF disconnect
<1>2. A \in [1..Slots -> SlotRecs]
  <2>1. FreeSlot \in SlotRecs
    BY PortsAssumption DEF FreeSlot, SlotRecs, Plugs, Places, Root
  <2> QED BY <1>0, <2>1 DEF Disabled
<1>3. B \in [Places -> BOOLEAN]
  <2>1. t.seen \in [Places -> BOOLEAN]
    BY DEF Tabs
  <2> QED BY <2>1, Zenon DEF Reseen
<1>4. S \in [1..Entries -> EntryRecs]
  <2>1. NoEntry \in EntryRecs
    BY PortsAssumption DEF NoEntry, EntryRecs
  <2> QED BY <1>0, <2>1
<1>5. \A m \in 1..Slots : m \notin C => A[m] = t.slots[m]
  BY DEF Disabled
<1>6. \A i \in 1..Entries : S[i].slot # 0 => S[i] = t.storage[i] /\ t.storage[i].slot \notin C
  BY DEF NoEntry
<1> HIDE DEF A, B, S, C, u
<1>7. /\ u \in Tabs /\ u.slots = A /\ u.storage = S /\ u.generation = t.generation
  BY <1>1, <1>2, <1>3, <1>4 DEF Tabs
<1>8. ASSUME NEW i \in 1..Entries, S[i].slot # 0
      PROVE  /\ S[i] = t.storage[i] /\ A[t.storage[i].slot] = t.slots[t.storage[i].slot]
             /\ t.slots[t.storage[i].slot].active /\ t.storage[i].gen <= t.generation
  <2>1. S[i] = t.storage[i] /\ t.storage[i].slot \notin C /\ t.storage[i].slot # 0
    BY <1>6, <1>8
  <2>2. t.storage[i].slot \in 1..Slots
    BY <1>0, <2>1, PortsAssumption DEF EntryRecs
  <2> QED BY <1>5, <2>1, <2>2 DEF TabOK
<1>9. TabOK(u) /\ Follows(t, u)
  BY <1>0, <1>7, <1>8 DEF TabOK, Follows
<1>10. Good(t, u)
  BY <1>7, <1>9 DEF Good
<1> QED BY <1>10 DEF u
(* A slot that is not in use takes a new device; the hub's ports are to be *)
(* looked at again.                                                        *)
TakeSlot(t, n, p, d, seen) ==
  [t EXCEPT !.slots[n] = [active |-> TRUE, place |-> p, dev |-> d], !.seen = seen]

(* No entry refers to a slot that is not in use. *)
LEMMA TakeSlotGood ==
  ASSUME NEW t \in Tabs, TabOK(t), NEW n \in 1..Slots, ~t.slots[n].active,
         NEW p \in Places, NEW d \in Plugs, NEW seen \in [Places -> BOOLEAN]
  PROVE  /\ Good(t, TakeSlot(t, n, p, d, seen))
         /\ TakeSlot(t, n, p, d, seen).slots[n].active
         /\ TakeSlot(t, n, p, d, seen).storage = t.storage
<1> DEFINE s == [active |-> TRUE, place |-> p, dev |-> d]
           A == [t.slots EXCEPT ![n] = s]
           u == TakeSlot(t, n, p, d, seen)
<1>0. /\ t.slots \in [1..Slots -> SlotRecs] /\ t.storage \in [1..Entries -> EntryRecs]
      /\ t.generation \in Nat
  BY DEF Tabs
<1>1. s \in SlotRecs /\ s.active
  BY DEF SlotRecs
<1>2. u = [t EXCEPT !.slots = A, !.seen = seen]
  BY DEF TakeSlot
<1> HIDE DEF s, u
<1>3. A \in [1..Slots -> SlotRecs] /\ A[n] = s /\ \A m \in 1..Slots : m # n => A[m] = t.slots[m]
  BY <1>0, <1>1
<1> HIDE DEF A
<1>4. u \in Tabs /\ u.slots = A /\ u.storage = t.storage /\ u.generation = t.generation
  BY <1>2, <1>3 DEF Tabs
<1>5. ASSUME NEW i \in 1..Entries, t.storage[i].slot # 0
      PROVE  /\ A[t.storage[i].slot] = t.slots[t.storage[i].slot]
             /\ t.slots[t.storage[i].slot].active /\ t.storage[i].gen <= t.generation
  <2>1. t.storage[i].slot \in 1..Slots
    BY <1>0, <1>5, PortsAssumption DEF EntryRecs
  <2>2. t.slots[t.storage[i].slot].active /\ t.storage[i].gen <= t.generation
    BY <1>5 DEF TabOK
  <2> QED BY <1>3, <2>1, <2>2
<1>6. TabOK(u) /\ Follows(t, u)
  BY <1>0, <1>4, <1>5 DEF TabOK, Follows
<1>7. Good(t, u) /\ u.slots[n].active /\ u.storage = t.storage
  BY <1>1, <1>3, <1>4, <1>6 DEF Good
<1> QED BY <1>7 DEF u

(* setup_storage() gives a generation that was never given before. *)
LEMMA SetupStorageGood ==
  ASSUME NEW t \in Tabs, TabOK(t), NEW n \in 1..Slots, t.slots[n].active, FreeEntries(t) # {}
  PROVE  Good(t, SetupStorage(t, n))
<1> DEFINE F == FreeEntries(t)
           e == Min(F)
           r == [slot |-> n, gen |-> t.generation + 1]
           S == [t.storage EXCEPT ![e] = r]
           u == SetupStorage(t, n)
<1>0. /\ t.slots \in [1..Slots -> SlotRecs] /\ t.storage \in [1..Entries -> EntryRecs]
      /\ t.generation \in Nat
  BY DEF Tabs
<1>1. F \in SUBSET (1..Entries) /\ F \in SUBSET Nat /\ F # {}
  BY DEF FreeEntries
<1>2. u = [t EXCEPT !.generation = t.generation + 1, !.storage = S]
  BY DEF SetupStorage
<1> HIDE DEF F
<1>3. e \in F
  <2>1. \E x \in F : \A y \in F : x <= y
    BY <1>1, LeastNat
  <2> QED BY <2>1, Zenon DEF Min
<1> HIDE DEF e, u
<1>4. r \in EntryRecs
  BY <1>0 DEF EntryRecs
<1>5. r.slot = n /\ r.gen = t.generation + 1
  OBVIOUS
<1> HIDE DEF r
<1>6. /\ S \in [1..Entries -> EntryRecs] /\ S[e] = r
      /\ \A i \in 1..Entries : i # e => S[i] = t.storage[i]
  BY <1>0, <1>1, <1>3, <1>4
<1> HIDE DEF S
<1>7. u \in Tabs /\ u.slots = t.slots /\ u.storage = S /\ u.generation = t.generation + 1
  <2> DEFINE g == t.generation + 1
  <2>1. g \in Nat
    BY <1>0
  <2>2. u = [t EXCEPT !.generation = g, !.storage = S]
    BY <1>2
  <2> HIDE DEF g
  <2>3. u \in Tabs /\ u.slots = t.slots /\ u.storage = S /\ u.generation = g
    BY <2>1, <2>2, <1>6 DEF Tabs
  <2> QED BY <2>3 DEF g
<1>8. ASSUME NEW i \in 1..Entries, S[i].slot # 0
      PROVE  /\ t.slots[S[i].slot].active /\ S[i].gen <= t.generation + 1
             /\ \/ S[i] = t.storage[i]
                \/ S[i].gen > t.generation
  <2>1. CASE i = e
    BY <1>0, <1>5, <1>6, <2>1
  <2>2. CASE i # e
    <3>1. S[i] = t.storage[i] /\ t.storage[i].gen \in Nat
      BY <1>0, <1>6, <2>2 DEF EntryRecs
    <3> QED BY <1>0, <1>8, <3>1 DEF TabOK
  <2> QED BY <2>1, <2>2
<1>9. TabOK(u) /\ Follows(t, u)
  BY <1>0, <1>7, <1>8 DEF TabOK, Follows
<1>10. Good(t, u)
  BY <1>7, <1>9 DEF Good
<1> QED BY <1>10 DEF u

(* attach() and configure(), however they end. *)
LEMMA AttachGood ==
  ASSUME NEW t \in Tabs, TabOK(t), NEW p \in Places, NEW d \in Plugs, NEW u \in Attach(t, p, d)
  PROVE  Good(t, u)
<1> DEFINE seen == [q \in Places |-> t.seen[q] /\ (d = "hub" => q = Root)]
           new(n) == TakeSlot(t, n, p, d, seen)
           free == {n \in 1..Slots : ~t.slots[n].active}
<1>1. seen \in [Places -> BOOLEAN]
  <2>1. t.seen \in [Places -> BOOLEAN]
    BY DEF Tabs
  <2> QED BY <2>1, Zenon
<1>2. \/ u = t
      \/ \E n \in free, ok \in Confirmed : u = disconnect(new(n), n, ok)
      \/ \E n \in free : u = new(n)
      \/ \E n \in free : FreeEntries(t) # {} /\ u = SetupStorage(new(n), n)
  <2>1. ASSUME NEW n PROVE Taken(t, n, p, d) = new(n)
    BY DEF Taken, TakeSlot
  <2> HIDE DEF new, free
  <2>2. FreeSlots(t) = free
    BY DEF FreeSlots, free
  <2> QED BY <2>1, <2>2 DEF Attach
<1>3. ASSUME NEW n \in free
      PROVE  /\ new(n) \in Tabs /\ TabOK(new(n)) /\ Good(t, new(n))
             /\ new(n).slots[n].active /\ new(n).storage = t.storage
  <2> HIDE DEF seen
  <2>1. Good(t, new(n)) /\ new(n).slots[n].active /\ new(n).storage = t.storage
    BY <1>1, TakeSlotGood
  <2> QED BY <2>1 DEF Good
<1> HIDE DEF new
<1>4. CASE u = t
  BY <1>4, GoodRefl
<1>5. ASSUME NEW n \in free, NEW ok \in Confirmed, u = disconnect(new(n), n, ok)
      PROVE  Good(t, u)
  BY <1>3, <1>5, DisconnectGood, GoodTrans
<1>6. ASSUME NEW n \in free, u = new(n) PROVE Good(t, u)
  BY <1>3, <1>6
<1>7. ASSUME NEW n \in free, FreeEntries(t) # {}, u = SetupStorage(new(n), n)
      PROVE  Good(t, u)
  <2>1. FreeEntries(new(n)) = FreeEntries(t)
    BY <1>3 DEF FreeEntries
  <2>2. Good(new(n), u)
    BY <1>3, <1>7, <2>1, SetupStorageGood
  <2> QED BY <1>3, <2>2, GoodTrans
<1> QED BY <1>2, <1>4, <1>5, <1>6, <1>7

(* One port is looked at: what was lost goes, what was found comes. *)
LEMMA LookedGood ==
  ASSUME PortsInv, NEW p \in Places, Looked(p)
  PROVE  Good(hostTab, hostTab') /\ plug' \in [Places -> [dev : Plugs, changed : BOOLEAN]]
<1>0. /\ hostTab \in Tabs /\ TabOK(hostTab)
      /\ plug \in [Places -> [dev : Plugs, changed : BOOLEAN]]
  BY DEF PortsInv
<1>1. PICK ok \in Confirmed :
        IF Untried(Left(p, ok), p) /\ Left(p, ok).generation < Attaches
        THEN \E u \in Attach(Left(p, ok), p, plug[p].dev) : hostTab' = [u EXCEPT !.seen[p] = TRUE]
        ELSE hostTab' = Left(p, ok)
  BY DEF Looked
<1> DEFINE t == Left(p, ok)
<1>2. ASSUME NEW u \in Tabs, TabOK(u), NEW b \in BOOLEAN
      PROVE  Good(u, [u EXCEPT !.seen[p] = b])
  <2> DEFINE seen == [u.seen EXCEPT ![p] = b]
  <2>1. seen \in [Places -> BOOLEAN]
    <3>1. u.seen \in [Places -> BOOLEAN]
      BY DEF Tabs
    <3> QED BY <3>1, Zenon
  <2>2. [u EXCEPT !.seen[p] = b] = [u EXCEPT !.seen = seen]
    OBVIOUS
  <2> HIDE DEF seen
  <2> QED BY <1>2, <2>1, <2>2, GoodSeen
<1>3. Good(hostTab, t)
  <2>1. CASE ~Lost(p)
    BY <1>0, <2>1, GoodRefl DEF Left
  <2>2. CASE Lost(p)
    <3> DEFINE n == ChildSlot(hostTab, p)
               v == IF n = 0 THEN hostTab ELSE disconnect(hostTab, n, ok)
    <3>1. n \in 0..Slots
      BY ChildSlotOK
    <3>2. t = [v EXCEPT !.seen[p] = FALSE]
      BY <2>2 DEF Left, Gone
    <3> HIDE DEF n
    <3>3. Good(hostTab, v)
      <4>1. CASE n = 0
        BY <1>0, <4>1, GoodRefl
      <4>2. CASE n # 0
        <5>1. n \in 1..Slots
          BY <3>1, <4>2, PortsAssumption
        <5> QED BY <1>0, <4>2, <5>1, DisconnectGood
      <4> QED BY <4>1, <4>2
    <3> HIDE DEF v, t
    <3>4. Good(v, t)
      BY <1>2, <3>2, <3>3 DEF Good
    <3> QED BY <1>0, <3>3, <3>4, GoodTrans
  <2> QED BY <2>1, <2>2
<1> HIDE DEF t
<1>4. t \in Tabs /\ TabOK(t) /\ plug[p].dev \in Plugs
  BY <1>0, <1>3 DEF Good
<1>5. Good(hostTab, hostTab')
  <2>1. CASE hostTab' = t
    BY <1>3, <2>1
  <2>2. ASSUME NEW u \in Attach(t, p, plug[p].dev), hostTab' = [u EXCEPT !.seen[p] = TRUE]
        PROVE  Good(hostTab, hostTab')
    <3>1. Good(t, u)
      BY <1>4, AttachGood
    <3>2. Good(u, hostTab')
      BY <1>2, <2>2, <3>1 DEF Good
    <3> QED BY <1>0, <1>3, <1>4, <3>1, <3>2, GoodTrans
  <2> QED BY <1>1, <2>1, <2>2 DEF t
<1>6. plug' \in [Places -> [dev : Plugs, changed : BOOLEAN]]
  <2>1. plug' = [plug EXCEPT ![p] = [plug[p] EXCEPT !.changed = FALSE]]
    BY DEF Looked
  <2>2. [plug[p] EXCEPT !.changed = FALSE] \in [dev : Plugs, changed : BOOLEAN]
    <3>1. plug[p] \in [dev : Plugs, changed : BOOLEAN]
      BY <1>0
    <3> QED BY <3>1
  <2> DEFINE r == [plug[p] EXCEPT !.changed = FALSE]
             R == [dev : Plugs, changed : BOOLEAN]
  <2> HIDE DEF r, R
  <2>3. plug' = [plug EXCEPT ![p] = r] /\ r \in R /\ plug \in [Places -> R]
    BY <1>0, <2>1, <2>2 DEF r, R
  <2>4. plug' \in [Places -> R]
    BY <2>3
  <2> QED BY <2>4 DEF R
<1> QED BY <1>5, <1>6

(* A remembered generation stays with its disk when the tables change. *)
LEMMA GoodKeeps ==
  ASSUME PortsInv, Good(hostTab, hostTab'), sel' = sel
  PROVE  hostTab' \in Tabs /\ TabOK(hostTab)' /\ SelOK' /\ GenerationNames'
<1>1. /\ hostTab \in Tabs /\ TabOK(hostTab) /\ SelOK /\ GenerationNames
      /\ hostTab' \in Tabs /\ TabOK(hostTab) /\ Follows(hostTab, hostTab')
  BY DEF PortsInv, Good
<1>2. /\ hostTab.generation \in Nat /\ hostTab.generation <= hostTab'.generation
      /\ hostTab'.generation \in Nat
  BY <1>1 DEF Tabs, Follows
<1>3. TabOK(hostTab)'
  BY DEF Good, TabOK
<1>4. SelOK'
  BY <1>1, <1>2 DEF SelOK
<1>5. ASSUME sel # NoSelection, hostTab'.storage[sel.index].slot # 0,
             hostTab'.storage[sel.index].gen = sel.gen
      PROVE  hostTab'.slots[hostTab'.storage[sel.index].slot].dev = sel.dev
  <2>1. sel.index \in 1..Entries /\ sel.gen \in 0..hostTab.generation
    BY <1>1, <1>5 DEF SelOK
  <2>2. ~(hostTab'.storage[sel.index].gen > hostTab.generation)
    BY <1>2, <1>5, <2>1
  <2>3. /\ hostTab'.storage[sel.index] = hostTab.storage[sel.index]
        /\ hostTab'.slots[hostTab.storage[sel.index].slot].dev
             = hostTab.slots[hostTab.storage[sel.index].slot].dev
    BY <1>1, <1>5, <2>1, <2>2 DEF Follows
  <2> QED BY <1>1, <1>5, <2>3 DEF GenerationNames, Entry
<1>6. GenerationNames'
  BY <1>3, <1>5 DEF GenerationNames, TabOK, Entry
<1> QED BY <1>1, <1>3, <1>4, <1>6

(* A step keeps the tables sound and the remembered generation true. *)
LEMMA NextPortsInv == PortsInv /\ [PortsNext]_portsVars => PortsInv'
<1> SUFFICES ASSUME PortsInv, [PortsNext]_portsVars PROVE PortsInv'
  OBVIOUS
<1>0. /\ hostTab \in Tabs /\ TabOK(hostTab) /\ op \in OpRecs
      /\ plug \in [Places -> [dev : Plugs, changed : BOOLEAN]]
  BY DEF PortsInv, OpOK
<1>keep. ASSUME Good(hostTab, hostTab'), sel' = sel, OpOK',
                plug' \in [Places -> [dev : Plugs, changed : BOOLEAN]]
         PROVE  PortsInv'
  BY <1>keep, GoodKeeps DEF PortsInv
<1>same. hostTab' = hostTab => Good(hostTab, hostTab')
  BY <1>0, GoodRefl
<1>op. /\ op.at \in Steps /\ op.next \in Steps /\ op.port \in Nat /\ op.moved \in BOOLEAN
       /\ Continues(op) => sel # NoSelection
  BY <1>0 DEF OpRecs, PortsInv, OpOK
<1>moved. Moved /\ sel' = sel => OpOK'
  <2> SUFFICES ASSUME Moved, sel' = sel PROVE OpOK'
    OBVIOUS
  <2>1. op' = [op EXCEPT !.moved = op.at # "idle"] /\ (op.at # "idle") \in BOOLEAN
    BY DEF Moved
  <2>2. op' \in OpRecs /\ op'.at = op.at /\ op'.next = op.next
    BY <1>0, <2>1 DEF OpRecs
  <2> QED BY <1>op, <2>2 DEF OpOK, Continues
<1>noop. op' = NoOp => OpOK'
  BY DEF NoOp, Root, OpOK, OpRecs, Steps, Continues
<1>poll. ASSUME NEW next \in Steps, Poll(next), next # "idle" => sel # NoSelection, sel' = sel
         PROVE  OpOK'
  <2>1. op' = [op EXCEPT !.at = "root", !.next = next]
    BY <1>poll DEF Poll
  <2>2. op' \in OpRecs /\ op'.at = "root" /\ op'.next = next
    BY <1>0, <2>1 DEF OpRecs, Steps
  <2> QED BY <1>poll, <2>2 DEF OpOK, Continues
<1>1. ASSUME NEW p \in Places, NEW d \in Sticks \cup {"hub"}, PlugIn(p, d) PROVE PortsInv'
  <2>1. plug' = [plug EXCEPT ![p] = [dev |-> d, changed |-> TRUE]] /\ UNCHANGED <<hostTab, sel>>
    BY <1>1 DEF PlugIn
  <2>2. plug' \in [Places -> [dev : Plugs, changed : BOOLEAN]]
    BY <1>0, <2>1 DEF Plugs
  <2>3. OpOK'
    BY <1>1, <1>moved DEF PlugIn
  <2> QED BY <1>keep, <1>same, <2>1, <2>2, <2>3
<1>2. ASSUME NEW p \in Places, PullOut(p) PROVE PortsInv'
  <2>1. /\ plug' = [q \in Places |-> IF q = p THEN [dev |-> "none", changed |-> TRUE]
                                     ELSE IF p = Root THEN Empty ELSE plug[q]]
        /\ UNCHANGED <<hostTab, sel>>
    BY <1>2 DEF PullOut
  <2>2. plug' \in [Places -> [dev : Plugs, changed : BOOLEAN]]
    BY <1>0, <2>1 DEF Plugs, Empty
  <2>3. OpOK'
    BY <1>2, <1>moved DEF PullOut
  <2> QED BY <1>keep, <1>same, <2>1, <2>2, <2>3
<1>3. CASE IdlePoll \/ DiskWrite
  <2>1. UNCHANGED <<hostTab, plug, sel>> /\ OpOK'
    <3>1. CASE IdlePoll
      BY <1>poll, <3>1 DEF IdlePoll, Steps
    <3>2. CASE DiskWrite
      BY <1>poll, <3>2 DEF DiskWrite, Steps
    <3> QED BY <1>3, <3>1, <3>2
  <2> QED BY <1>0, <1>keep, <1>same, <2>1
<1>4. CASE PollRoot
  <2>1. Looked(Root) /\ Root \in Places /\ sel' = sel /\ OpOK'
    <3>1. op.at = "root" /\ op' = [op EXCEPT !.at = "hub", !.port = 1] /\ Looked(Root) /\ sel' = sel
      BY <1>4 DEF PollRoot
    <3>2. op' \in OpRecs /\ op'.at = "hub" /\ op'.next = op.next
      BY <1>0, <3>1 DEF OpRecs, Steps
    <3> QED BY <1>op, <3>1, <3>2, PortsAssumption DEF OpOK, Continues, Places, Root
  <2> QED BY <1>keep, <2>1, LookedGood
<1>5. CASE PollHub
  <2>1. Looked(op.port) /\ op.port \in Places /\ sel' = sel /\ OpOK'
    <3>1. /\ op.at = "hub" /\ op' = [op EXCEPT !.port = @ + 1] /\ Looked(op.port) /\ sel' = sel
          /\ op.port <= HubPorts
      BY <1>5 DEF PollHub
    <3>2. op' \in OpRecs /\ op'.at = "hub" /\ op'.next = op.next
      BY <1>0, <1>op, <3>1 DEF OpRecs, Steps
    <3> QED BY <1>op, <3>1, <3>2, PortsAssumption DEF OpOK, Continues, Places, Root
  <2> QED BY <1>keep, <2>1, LookedGood
<1>6. CASE PollEnds
  <2>1. UNCHANGED <<hostTab, plug, sel>> /\ OpOK'
    <3>1. op.at = "hub" /\ op' = After(op) /\ UNCHANGED <<hostTab, plug, sel>>
      BY <1>6 DEF PollEnds
    <3>2. CASE op.next = "idle"
      BY <1>noop, <3>1, <3>2 DEF After
    <3>3. CASE op.next # "idle"
      <4>1. op' = [op EXCEPT !.at = op.next, !.port = Root] /\ Root \in Nat
        BY <3>1, <3>3 DEF After, Root
      <4>2. op' \in OpRecs
        BY <1>0, <1>op, <4>1 DEF OpRecs
      <4> QED BY <1>op, <3>1, <3>3, <4>2 DEF OpOK, Continues
    <3> QED BY <3>1, <3>2, <3>3
  <2> QED BY <1>0, <1>keep, <1>same, <2>1
<1>7. ASSUME NEW i \in 1..Entries, Select(i) PROVE PortsInv'
  <2>1. /\ sel' = [index |-> i, gen |-> hostTab.storage[i].gen,
                   dev |-> hostTab.slots[hostTab.storage[i].slot].dev]
        /\ hostTab.storage[i].slot # 0 /\ UNCHANGED <<plug, hostTab, op>>
    BY <1>7 DEF Select
  <2>2. /\ hostTab.storage[i].gen \in 0..hostTab.generation
        /\ hostTab.slots[hostTab.storage[i].slot].active
    <3>1. hostTab.storage[i] \in EntryRecs /\ hostTab.generation \in Nat
      BY <1>0 DEF Tabs
    <3>2. hostTab.storage[i].gen <= hostTab.generation
      BY <1>0, <2>1 DEF TabOK
    <3>3. hostTab.storage[i].gen \in Nat
      BY <3>1 DEF EntryRecs
    <3> QED BY <1>0, <2>1, <3>1, <3>2, <3>3 DEF TabOK
  <2>3. SelOK'
    BY <2>1, <2>2 DEF SelOK
  <2>4. GenerationNames'
    BY <1>0, <2>1 DEF GenerationNames, TabOK, Entry
  <2>5. sel' # NoSelection
    BY <2>1 DEF NoSelection
  <2> QED BY <1>0, <1>op, <2>1, <2>3, <2>4, <2>5 DEF PortsInv, TabOK, OpOK
<1>8. CASE CheckPresent \/ Generation
  <2>1. UNCHANGED <<hostTab, plug, sel>> /\ OpOK'
    <3>1. /\ op.at \in {"present", "generation"} /\ UNCHANGED <<hostTab, plug, sel>>
          /\ op' = NoOp \/ Poll("generation") \/ Poll("transfer")
      BY <1>8 DEF CheckPresent, Generation
    <3>2. sel # NoSelection
      BY <1>op, <3>1 DEF Continues
    <3> QED BY <1>noop, <1>poll, <3>1, <3>2 DEF Steps
  <2> QED BY <1>0, <1>keep, <1>same, <2>1
<1>9. CASE Transferred
  <2>1. sel' = sel /\ plug' = plug /\ OpOK'
    BY <1>9, <1>noop DEF Transferred
  <2>2. CASE hostTab' = hostTab
    BY <1>0, <1>keep, <1>same, <2>1, <2>2
  <2>3. ASSUME NEW ok \in Confirmed, Entry.slot # 0, hostTab' = disconnect(hostTab, Entry.slot, ok)
        PROVE  PortsInv'
    <3>0. sel # NoSelection
      BY <1>9, <1>op DEF Transferred, Continues
    <3>1. sel.index \in 1..Entries
      BY <3>0 DEF PortsInv, SelOK
    <3>2. Entry.slot \in 1..Slots
      BY <1>0, <2>3, <3>1, PortsAssumption DEF Entry, Tabs, EntryRecs
    <3>3. Good(hostTab, hostTab')
      BY <1>0, <2>3, <3>2, DisconnectGood
    <3> QED BY <1>0, <1>keep, <2>1, <3>3
  <2> QED BY <1>9, <2>2, <2>3 DEF Transferred
<1>10. CASE UNCHANGED portsVars
  <2>1. UNCHANGED <<hostTab, plug, sel, op>>
    BY <1>10 DEF portsVars
  <2> QED BY <1>0, <1>op, <1>keep, <1>same, <2>1 DEF OpOK
<1> QED BY <1>1, <1>2, <1>3, <1>4, <1>5, <1>6, <1>7, <1>8, <1>9, <1>10 DEF PortsNext


(***************************************************************************)
(* A generation names one enumeration, after any order of removals,        *)
(* insertions, scans and Disable Slot commands (usb_xhci.c, disk.c).       *)
(***************************************************************************)
THEOREM GenerationNamesAlways == PortsSpec => []GenerationNames
<1>1. PortsInit => PortsInv
  <2> SUFFICES ASSUME PortsInit PROVE PortsInv
    OBVIOUS
  <2>1. /\ plug = [p \in Places |-> Empty] /\ sel = NoSelection /\ op = NoOp
        /\ hostTab = [slots |-> [n \in 1..Slots |-> FreeSlot],
                      seen |-> [p \in Places |-> FALSE],
                      storage |-> [i \in 1..Entries |-> NoEntry], generation |-> 0]
    BY DEF PortsInit
  <2>2. FreeSlot \in SlotRecs /\ NoEntry \in EntryRecs
    BY PortsAssumption DEF FreeSlot, SlotRecs, Plugs, Places, Root, NoEntry, EntryRecs
  <2>3. hostTab \in Tabs /\ \A i \in 1..Entries : hostTab.storage[i].slot = 0
    BY <2>1, <2>2 DEF Tabs, NoEntry
  <2>4. OpOK
    BY <2>1 DEF NoOp, Root, OpOK, OpRecs, Steps, Continues
  <2>5. plug \in [Places -> [dev : Plugs, changed : BOOLEAN]]
    BY <2>1 DEF Empty, Plugs
  <2> QED BY <2>1, <2>3, <2>4, <2>5 DEF PortsInv, TabOK, SelOK, GenerationNames
<1>2. PortsInv => GenerationNames
  BY DEF PortsInv
<1> QED BY <1>1, <1>2, NextPortsInv, PTL DEF PortsSpec

---------------------------------------------------------------------------
(* PCI windows and disks                                                   *)

(* Rounding up to a multiple of a BAR's size. *)
LEMMA AlignedUp ==
  ASSUME NEW a \in Nat, NEW s \in Nat \ {0}
  PROVE  Aligned(a, s) \in Nat /\ Aligned(a, s) >= a /\ Aligned(a, s) % s = 0
<1>1. Aligned(a, s) >= a
  BY DEF Aligned
<1>2. PICK k \in Nat : k = (a + s - 1) \div s
  OBVIOUS
<1>3. k * s \in Nat /\ (k * s) % s = 0
  OBVIOUS
<1> QED BY <1>1, <1>2, <1>3 DEF Aligned

AddressRange == Nat \X Nat
BarsTypeOK == /\ reserved \subseteq AddressRange /\ firmware \subseteq AddressRange
              /\ bars \in [DOMAIN bars -> AddressRange]
              /\ usable \in {"unset", "yes", "no"}

(* Inside the window and aligned, as the search keeps its candidate. *)
Placed(r) == Base <= r[1] /\ r[1] < r[2] /\ r[1] % (r[2] - r[1]) = 0
SearchOK == search = NoSearch \/
  /\ usable = "yes"
  /\ search = [dev |-> search.dev, size |-> search.size, at |-> search.at]
  /\ search.at \in Nat /\ search.size \in Nat \ {0}
  /\ Placed(Candidate)

(* As long as a BAR may still be moved, the table knows all that is taken.   *)
Known == usable = "yes" => /\ \A f \in firmware : f[1] < Limit => f \in reserved
                           /\ \A d \in DOMAIN bars : bars[d] \in reserved

Early == usable = "unset" => firmware = {} /\ DOMAIN bars = {} /\ search = NoSearch

BarsInv == BarsTypeOK /\ SearchOK /\ Known /\ Early /\ BarsDisjoint

(* Before the memory map is read nothing is known and nothing moved. *)
LEMMA InitBarsInv == BarsInit => BarsInv
  BY DEF BarsInit, BarsInv, BarsTypeOK, SearchOK, Known, Early, BarsDisjoint

(* What the boot code records is known to the allocator. *)
LEMMA BootBarsInv == ASSUME BarsInv, BootMemory \/ BootRange PROVE BarsInv'
<1>1. CASE BootMemory
  BY <1>1 DEF BootMemory, BarsInv, BarsTypeOK, SearchOK, Known, Early, BarsDisjoint
<1>2. CASE BootRange
  <2>1. PICK a \in 0..Limit, n \in Lengths :
          firmware' = firmware \cup {<<a, a + n>>} /\ ReserveMmio(<<a, a + n>>)
    BY <1>2 DEF BootRange
  <2>2. /\ usable # "unset" /\ search' = NoSearch /\ bars' = bars
        /\ bars = [d \in {} |-> <<0, 0>>] /\ DOMAIN bars = {}
    BY <1>2 DEF BootRange
  <2>3. <<a, a + n>> \in AddressRange /\ <<a, a + n>>[1] = a
    BY BarsAssumption DEF AddressRange
  <2>4. /\ reserved' \subseteq AddressRange /\ usable' \in {"yes", "no"}
        /\ usable' = "yes" => /\ usable = "yes" /\ reserved \subseteq reserved'
                              /\ a < Limit => <<a, a + n>> \in reserved'
    BY <2>1, <2>2, <2>3, BarsAssumption DEF BarsInv, BarsTypeOK, ReserveMmio
  <2>5. BarsTypeOK' /\ SearchOK' /\ Early'
    BY <2>1, <2>2, <2>3, <2>4 DEF BarsInv, BarsTypeOK, SearchOK, Early
  <2>6. Known'
    BY <2>1, <2>2, <2>3, <2>4 DEF BarsInv, Known
  <2>7. BarsDisjoint'
    BY <2>2 DEF BarsDisjoint
  <2> QED BY <2>5, <2>6, <2>7 DEF BarsInv
<1> QED BY <1>1, <1>2

(* The search keeps its candidate aligned and inside the window. *)
LEMMA SearchBarsInv ==
  ASSUME BarsInv,
         \/ \E d \in Devices, size \in Sizes : MmioBar(d, size)
         \/ Collision \/ GiveUp
  PROVE  BarsInv'
<1>1. UNCHANGED <<reserved, usable, firmware, bars>> /\ (search' = NoSearch \/ usable = "yes")
  BY DEF BarsInv, SearchOK, MmioBar, Collision, GiveUp
<1>2. BarsTypeOK' /\ Known' /\ BarsDisjoint'
  BY <1>1 DEF BarsInv, BarsTypeOK, Known, BarsDisjoint
<1>3. SearchOK'
  <2>1. ASSUME NEW a \in Nat, NEW s \in Nat \ {0}, NEW d, a >= Base, usable = "yes",
               search' = [dev |-> d, size |-> s, at |-> Aligned(a, s)]
        PROVE  SearchOK'
    <3>1. search'.at = Aligned(a, s) /\ search'.size = s /\ usable' = "yes"
      BY <1>1, <2>1
    <3>2. /\ Candidate'[1] = Aligned(a, s) /\ Candidate'[2] = Aligned(a, s) + s
          /\ Aligned(a, s) \in Nat /\ Aligned(a, s) >= Base /\ Aligned(a, s) % s = 0
      BY <2>1, <3>1, AlignedUp, BarsAssumption DEF Candidate
    <3>3. Candidate'[2] - Candidate'[1] = s
      BY <3>2
    <3>4. Placed(Candidate')
      BY <3>2, <3>3 DEF Placed
    <3> QED BY <2>1, <3>1, <3>2, <3>4 DEF SearchOK, Placed
  <2>2. ASSUME NEW d \in Devices, NEW size \in Sizes, MmioBar(d, size) PROVE SearchOK'
    BY <2>1, <2>2, BarsAssumption DEF MmioBar
  <2>3. CASE Collision
    <3>1. PICK r \in reserved : Meet(Candidate, r)
                                /\ search' = [search EXCEPT !.at = Aligned(r[2], search.size)]
      BY <2>3 DEF Collision, Hits
    <3>2. usable = "yes" /\ search.at \in Nat /\ search.size \in Nat \ {0} /\ search.at >= Base
      BY <2>3 DEF Collision, BarsInv, SearchOK, Placed, Candidate
    <3>3. r[2] \in Nat /\ r[2] >= Base
      BY <3>1, <3>2, BarsAssumption DEF BarsInv, BarsTypeOK, AddressRange, Meet, Candidate
    <3>4. search' = [dev |-> search.dev, size |-> search.size,
                     at |-> Aligned(r[2], search.size)]
      BY <2>3, <3>1 DEF Collision, BarsInv, SearchOK
    <3> QED BY <2>1, <3>2, <3>3, <3>4
  <2>4. CASE GiveUp
    BY <2>4 DEF GiveUp, SearchOK
  <2> QED BY <2>2, <2>3, <2>4
<1>4. Early'
  BY <1>1 DEF BarsInv, Early
<1> QED BY <1>2, <1>3, <1>4 DEF BarsInv

(* The candidate that met nothing is free, and is recorded when it is taken. *)
LEMMA AssignBarsInv == ASSUME BarsInv, Assign PROVE BarsInv'
<1> DEFINE c == Candidate
<1>1. /\ search # NoSearch /\ c[2] <= Top /\ \A r \in reserved : ~Meet(c, r)
      /\ search' = NoSearch /\ UNCHANGED firmware
  BY DEF Assign, Hits
<1>2. usable = "yes" /\ c \in AddressRange /\ Placed(c)
  BY <1>1, BarsAssumption DEF BarsInv, SearchOK, Placed, Candidate, AddressRange
<1>3. CASE UNCHANGED <<bars, reserved, usable>>
  BY <1>1, <1>2, <1>3 DEF BarsInv, BarsTypeOK, SearchOK, Known, Early, BarsDisjoint
<1>4. CASE /\ bars' = [d \in DOMAIN bars \cup {search.dev} |->
                         IF d = search.dev THEN c ELSE bars[d]]
           /\ ReserveMmio(c)
  <2>1. /\ reserved' \subseteq AddressRange /\ usable' \in {"yes", "no"}
        /\ usable' = "yes" => c \in reserved' /\ reserved \subseteq reserved'
    BY <1>1, <1>2, <1>4, BarsAssumption DEF ReserveMmio, BarsInv, BarsTypeOK, AddressRange, Placed
  <2>2. BarsTypeOK' /\ SearchOK' /\ Early'
    BY <1>1, <1>2, <1>4, <2>1 DEF BarsInv, BarsTypeOK, SearchOK, Early
  <2>3. Known'
    BY <1>1, <1>2, <1>4, <2>1 DEF BarsInv, Known
  <2>4. \A f \in firmware : ~Meet(c, f)
    BY <1>1, <1>2, BarsAssumption DEF BarsInv, BarsTypeOK, Known, Meet, AddressRange
  <2>5. \A d \in DOMAIN bars : ~Meet(c, bars[d]) /\ ~Meet(bars[d], c)
    BY <1>1, <1>2 DEF BarsInv, Known, Meet
  <2>6. BarsDisjoint'
    BY <1>1, <1>2, <1>4, <2>4, <2>5 DEF BarsInv, BarsDisjoint, Placed
  <2> QED BY <2>2, <2>3, <2>6 DEF BarsInv
<1> QED BY <1>3, <1>4 DEF Assign

(* storage_pci_mmio_bar(), for every window, table and set of devices: a BAR *)
(* that was moved is aligned, inside the window and overlaps nothing else.   *)
THEOREM BarsDisjointAlways == BarsSpec => []BarsDisjoint
<1>1. BarsInv /\ [BarsNext]_barsVars => BarsInv'
  <2> SUFFICES ASSUME BarsInv, [BarsNext]_barsVars PROVE BarsInv'
    OBVIOUS
  <2>1. CASE UNCHANGED barsVars
    BY <2>1 DEF barsVars, BarsInv, BarsTypeOK, SearchOK, Candidate, Known, Early, BarsDisjoint
  <2> QED BY <2>1, BootBarsInv, SearchBarsInv, AssignBarsInv DEF BarsNext
<1>2. BarsInv => BarsDisjoint
  BY DEF BarsInv
<1> QED BY <1>1, <1>2, InitBarsInv, PTL DEF BarsSpec

-----------------------------------------------------------------------------
(* The queues of the PCI disks                                             *)

Toggle == 0..1
Queue == 0..Depth - 1
Kinds == {"none", "sata", "nvme", "virtio"}
Drivers == [kind : Kinds, ready : BOOLEAN, head : Queue, phase : Toggle,
            used : 0..IndexWidth - 1]
Requests == [op : {"none", "read", "write", "flush"}, native : Nat]
Controllers == [cmd : Requests, status : {"none", "ok", "error", "stuck"}, at : Queue,
                phase : Toggle, index : 0..IndexWidth - 1]
AnswersOf == [phase : Toggle, own : BOOLEAN, ok : BOOLEAN]
Transfers == [op : {"none", "read", "write", "flush"},
              stage : {"idle", "read", "write", "flush"}, sent : BOOLEAN,
              lba : Nat, left : Nat, top : Nat]
PciTypeOK == /\ drv \in Drivers /\ hw \in Controllers /\ cq \in [Queue -> AnswersOf]
             /\ job \in Transfers

(* The controller posts where the driver looks, or has just posted there. *)
SamePlace == hw.at = drv.head /\ hw.phase = drv.phase
OneAhead == /\ hw.at = (drv.head + 1) % Depth
            /\ hw.phase = IF drv.head = Depth - 1 THEN 1 - drv.phase ELSE drv.phase
NvmeQueue ==
  /\ \A i \in Queue : cq[i].phase = IF i < hw.at THEN hw.phase ELSE 1 - hw.phase
  /\ SamePlace \/ (OneAhead /\ job.sent /\ hw.cmd.op = "none" /\ cq[drv.head].own)
VirtioRing == hw.cmd.op # "none" \/ ~job.sent => hw.index = drv.used

(* One command is outstanding; on a device that is not used it is the one   *)
(* that was left unanswered.                                                *)
OneCommand == /\ hw.cmd.op # "none" => job.sent /\ hw.status = "none"
              /\ job.sent => job.stage # "idle"
              /\ job.stage # "idle" => drv.kind # "none" /\ (job.sent \/ drv.ready)
              /\ drv.ready => drv.kind # "none"
Unfound == drv.kind = "none" => drv.head = 0 /\ drv.phase = 1 /\ drv.used = 0 /\ hw = Powered
                                /\ \A i \in Queue : cq[i].phase = 0

QueueInv == /\ PciTypeOK /\ OneCommand /\ Unfound /\ ~mixed
            /\ drv.ready /\ drv.kind = "nvme" => NvmeQueue
            /\ drv.ready /\ drv.kind = "virtio" => VirtioRing

(* The loop over native sectors as the wait loops leave it. *)
LEMMA ContinueCases ==
  ASSUME NEW ok \in BOOLEAN, Continue(ok)
  PROVE  \/ job' = NoTransfer
         \/ ok /\ job.stage = "read" /\ job.op = "write"
            /\ job' = [job EXCEPT !.stage = "write", !.sent = FALSE]
         \/ ok /\ job.op # "flush" /\ ~(job.stage = "read" /\ job.op = "write")
            /\ job' = Chunk(job)
<1>1. CASE ~ok \/ job.op = "flush"
  BY <1>1, Zenon DEF Continue
<1>2. CASE ok /\ job.op # "flush" /\ job.stage = "read" /\ job.op = "write"
  BY <1>2, Zenon DEF Continue
<1>3. CASE ok /\ job.op # "flush" /\ ~(job.stage = "read" /\ job.op = "write")
  BY <1>3, Zenon DEF Continue
<1> QED BY <1>1, <1>2, <1>3

(* Quotient and remainder. *)
LEMMA DivMod ==
  ASSUME NEW a \in Nat, NEW w \in Nat \ {0}
  PROVE  a \div w \in Nat /\ a % w \in 0..w - 1 /\ a = (a \div w) * w + (a % w)
<1>1. a \div w \in Nat /\ a % w \in 0..w - 1
  OBVIOUS
<1>2. a = (a \div w) * w + (a % w)
  <2>1. a \in Int /\ w \in Int /\ w > 0
    OBVIOUS
  <2> QED BY <2>1
<1> QED BY <1>1, <1>2

(* A native sector has at least one sector, and a chunk stays inside it. *)
LEMMA WidthType == Width \in Nat \ {0}
  BY PciAssumption DEF Width
(* A chunk is at least a sector and does not pass the native sector. *)
LEMMA ChunkSize ==
  ASSUME NEW j \in Transfers
  PROVE  /\ Native(j) \in Nat /\ Offset(j) \in 0..Width - 1
         /\ j.lba = Native(j) * Width + Offset(j)
         /\ Count(j) \in Nat /\ Count(j) <= j.left /\ Offset(j) + Count(j) <= Width
         /\ j.left > 0 => Count(j) > 0
<1> DEFINE w == Width
<1>1. w \in Nat \ {0} /\ j.lba \in Nat /\ j.left \in Nat
  BY WidthType DEF Transfers
<1> HIDE DEF w
<1>2. j.lba \div w \in Nat /\ j.lba % w \in 0..w - 1 /\ j.lba = (j.lba \div w) * w + (j.lba % w)
  BY <1>1, DivMod
<1>3. /\ Native(j) = j.lba \div w /\ Offset(j) = j.lba % w
      /\ Count(j) = IF w - Offset(j) > j.left THEN j.left ELSE w - Offset(j)
  BY DEF Native, Offset, Count, w
<1>4. /\ Count(j) \in Nat /\ Count(j) <= j.left /\ Offset(j) + Count(j) <= w
      /\ j.left > 0 => Count(j) > 0
  <2>1. Offset(j) \in 0..w - 1
    BY <1>2, <1>3
  <2> QED BY <1>1, <1>3, <2>1
<1> QED BY <1>2, <1>3, <1>4 DEF w

(* The next chunk, if any, has not been sent. *)
LEMMA EnteredType ==
  ASSUME NEW j \in Transfers
  PROVE  /\ Entered(j) \in Transfers /\ ~Entered(j).sent
         /\ Entered(j).lba = j.lba /\ Entered(j).left = j.left /\ Entered(j).top = j.top
         /\ Entered(j).op = j.op
         /\ Entered(j).stage = IF j.left = 0 THEN "idle" ELSE IF NeedsRead(j) THEN "read" ELSE "write"
  BY DEF Entered, Transfers
(* The transfer that is left after a chunk is a transfer. *)
LEMMA ChunkType ==
  ASSUME NEW j \in Transfers
  PROVE  /\ Chunk(j) \in Transfers /\ ~Chunk(j).sent /\ Chunk(j).op = j.op
         /\ Chunk(j).lba = j.lba + Count(j) /\ Chunk(j).left = j.left - Count(j)
         /\ Chunk(j).top = j.top
         /\ Chunk(j).stage = "idle" => j.left = Count(j)
         /\ Chunk(j).stage # "idle" => Chunk(j).left > 0
         /\ Chunk(j).stage \in {"idle", "read", "write"}
         /\ Chunk(j).stage = "write" => ~NeedsRead(Chunk(j))
<1> DEFINE k == [j EXCEPT !.lba = @ + Count(j), !.left = @ - Count(j)]
<1>1. /\ k \in Transfers /\ k.op = j.op /\ k.lba = j.lba + Count(j) /\ k.left = j.left - Count(j)
      /\ k.top = j.top
  <2>1. Count(j) \in Nat /\ Count(j) <= j.left
    BY ChunkSize
  <2> HIDE DEF Count
  <2>2. j.lba + Count(j) \in Nat /\ j.left - Count(j) \in Nat
    BY <2>1 DEF Transfers
  <2> QED BY <2>2 DEF Transfers
<1>2. Chunk(j) = Entered(k)
  BY DEF Chunk
<1> HIDE DEF k
<1>3. NeedsRead(Entered(k)) <=> NeedsRead(k)
  BY <1>1, EnteredType DEF NeedsRead, Offset, Count
<1>4. k.left \in Nat
  BY <1>1 DEF Transfers
<1>5. /\ Entered(k).stage = "idle" => j.left = Count(j)
      /\ Entered(k).stage # "idle" => Entered(k).left > 0
  <2>1. Count(j) \in Nat /\ j.left \in Nat
    BY ChunkSize DEF Transfers
  <2> QED BY <1>1, <1>4, <2>1, EnteredType
<1>6. /\ Entered(k).stage \in {"idle", "read", "write"}
      /\ Entered(k).stage = "write" => ~NeedsRead(Entered(k))
  BY <1>1, <1>3, EnteredType
<1> QED BY <1>1, <1>2, <1>5, <1>6, EnteredType

(* Rings wrap inside their range. *)
LEMMA Wrap ==
  ASSUME NEW n \in Nat, n > 1, NEW i \in 0..n - 1
  PROVE  (i + 1) % n \in 0..n - 1 /\ (i + 1) % n # i
         /\ (i + 1) % n = IF i = n - 1 THEN 0 ELSE i + 1
<1>1. CASE i = n - 1
  BY <1>1
<1>2. CASE i < n - 1
  BY <1>2
<1> QED BY <1>1, <1>2
(* A phase bit has two values. *)
LEMMA ToggleType == ASSUME NEW b \in Toggle PROVE 1 - b \in Toggle /\ 1 - b # b /\ 1 - (1 - b) = b
  BY DEF Toggle

(* Before a controller is found nothing is outstanding. *)
LEMMA InitQueueInv == PciInit => QueueInv
<1> SUFFICES ASSUME PciInit PROVE QueueInv
  OBVIOUS
<1> USE PciAssumption
<1>1. 0 \in Queue /\ 0 \in Toggle /\ 1 \in Toggle /\ 0 \in 0..IndexWidth - 1 /\ 0 \in Nat
  BY DEF Queue, Toggle
<1>2. drv \in Drivers
  BY <1>1 DEF PciInit, Drivers, Kinds
<1>3. hw \in Controllers
  BY <1>1 DEF PciInit, Powered, NoRequest, Controllers, Requests
<1>4. cq \in [Queue -> AnswersOf]
  BY <1>1 DEF PciInit, AnswersOf, Queue
<1>5. job \in Transfers
  BY <1>1 DEF PciInit, NoTransfer, Transfers
<1>6. OneCommand /\ Unfound /\ ~mixed /\ ~drv.ready
  BY DEF PciInit, OneCommand, Unfound, NoTransfer, Powered, NoRequest, Queue
<1> QED BY <1>2, <1>3, <1>4, <1>5, <1>6 DEF QueueInv, PciTypeOK

(* A controller that was found answers at the start of its queue. *)
LEMMA FoundQueueInv ==
  ASSUME QueueInv, NEW model \in {"sata", "nvme", "virtio"}, Found(model)
  PROVE  QueueInv'
<1>1. /\ drv.kind = "none" /\ drv' = [drv EXCEPT !.kind = model, !.ready = TRUE]
      /\ hw' = hw /\ cq' = cq /\ job' = job /\ mixed' = mixed
  BY DEF Found
<1>2. drv' \in Drivers /\ drv'.kind = model /\ drv'.ready
      /\ drv'.head = 0 /\ drv'.phase = 1 /\ drv'.used = 0
  BY <1>1 DEF QueueInv, PciTypeOK, Drivers, Kinds, Unfound
<1>3. hw = Powered /\ ~job.sent /\ job.stage = "idle" /\ \A i \in Queue : cq[i].phase = 0
  BY <1>1 DEF QueueInv, PciTypeOK, Unfound, OneCommand, Transfers, Controllers, Requests
<1>4. PciTypeOK' /\ OneCommand' /\ Unfound' /\ ~mixed'
  BY <1>1, <1>2, <1>3 DEF QueueInv, PciTypeOK, OneCommand, Unfound, Powered, NoRequest
<1>5. NvmeQueue' /\ VirtioRing'
  BY <1>1, <1>2, <1>3 DEF NvmeQueue, VirtioRing, SamePlace, Powered, Queue
<1> QED BY <1>4, <1>5 DEF QueueInv

(* A transfer begins and sends its command while the queue is empty. *)
LEMMA SendQueueInv ==
  ASSUME QueueInv, BeginTransfer \/ Flush \/ Issue
  PROVE  QueueInv'
<1> USE PciAssumption
<1>1. /\ drv' = drv /\ cq' = cq /\ mixed' = mixed /\ ~job.sent /\ drv.ready
      /\ drv.kind \in {"sata", "nvme", "virtio"}
  <2>1. drv.ready /\ ~job.sent
    BY DEF BeginTransfer, Flush, Issue, QueueInv, OneCommand
  <2> QED BY <2>1 DEF BeginTransfer, Flush, Issue, QueueInv, OneCommand, PciTypeOK, Drivers, Kinds
<1>2. hw.cmd.op = "none" /\ (drv.kind = "nvme" => SamePlace) /\ (drv.kind = "virtio" => hw.index = drv.used)
  BY <1>1 DEF QueueInv, OneCommand, NvmeQueue, VirtioRing
<1>3. /\ job' \in Transfers /\ hw' \in Controllers
      /\ hw'.at = hw.at /\ hw'.phase = hw.phase /\ hw'.index = hw.index
      /\ (hw'.cmd.op # "none" => job'.sent /\ hw'.status = "none") /\ (job'.sent => job'.stage # "idle")
  <2>1. CASE BeginTransfer
    <3>1. PICK dir \in {"read", "write"}, lba \in Sectors : \E n \in 1..Natives * Ratio - lba :
            job' = Entered([NoTransfer EXCEPT !.op = dir, !.lba = lba, !.left = n, !.top = lba + n])
      BY <2>1 DEF BeginTransfer
    <3>2. PICK n \in 1..Natives * Ratio - lba :
            job' = Entered([NoTransfer EXCEPT !.op = dir, !.lba = lba, !.left = n, !.top = lba + n])
      BY <3>1
    <3>3. [NoTransfer EXCEPT !.op = dir, !.lba = lba, !.left = n, !.top = lba + n] \in Transfers
      <4>1. lba \in Nat /\ n \in Nat /\ lba + n \in Nat
        BY DEF Sectors
      <4> QED BY <4>1 DEF NoTransfer, Transfers
    <3>4. job' \in Transfers /\ ~job'.sent
      BY <3>2, <3>3, EnteredType
    <3> QED BY <2>1, <3>4, <1>2 DEF BeginTransfer, QueueInv, PciTypeOK
  <2>2. CASE Flush
    BY <2>2, <1>2 DEF Flush, NoTransfer, Transfers, QueueInv, PciTypeOK
  <2>3. CASE Issue
    <3>1. Native(job) \in Nat
      BY ChunkSize DEF QueueInv, PciTypeOK
    <3>2. [op |-> job.stage, native |-> Native(job)] \in Requests
      BY <2>3, <3>1 DEF Issue, QueueInv, PciTypeOK, Transfers, Requests
    <3>3. job' \in Transfers /\ job'.sent /\ job'.stage = job.stage /\ job.stage # "idle"
      BY <2>3 DEF Issue, QueueInv, PciTypeOK, Transfers
    <3>4. hw' \in Controllers /\ hw'.at = hw.at /\ hw'.phase = hw.phase /\ hw'.index = hw.index
      BY <2>3, <3>2 DEF Issue, QueueInv, PciTypeOK, Controllers
    <3>5. hw'.cmd.op # "none" => hw'.status = "none"
      BY <2>3, <1>2 DEF Issue, QueueInv, PciTypeOK, Controllers
    <3> QED BY <3>3, <3>4, <3>5
  <2> QED BY <2>1, <2>2, <2>3
<1>4. PciTypeOK' /\ OneCommand' /\ Unfound' /\ ~mixed'
  BY <1>1, <1>3 DEF QueueInv, PciTypeOK, OneCommand, Unfound
<1>5. (drv.kind = "nvme" => NvmeQueue') /\ (drv.kind = "virtio" => VirtioRing')
  BY <1>1, <1>2, <1>3 DEF QueueInv, NvmeQueue, VirtioRing, SamePlace
<1> QED BY <1>1, <1>4, <1>5 DEF QueueInv

(* The controller posts where the driver looks, once for one command. *)
LEMMA ExecuteQueueInv ==
  ASSUME QueueInv, Execute
  PROVE  QueueInv'
<1> USE PciAssumption
<1>1. /\ hw.cmd.op # "none" /\ drv' = drv /\ job' = job /\ mixed' = mixed /\ job.sent
      /\ \E ok \in BOOLEAN : Posted(ok)
  BY DEF Execute, QueueInv, OneCommand
<1>2. PICK ok \in BOOLEAN : Posted(ok)
  BY <1>1
<1>3. NoRequest \in Requests /\ NoRequest.op = "none"
  BY DEF NoRequest, Requests
<1>4. CASE drv.kind = "nvme"
  <2>0. /\ hw.at \in Queue /\ hw.phase \in Toggle /\ 1 - hw.phase \in Toggle
        /\ (hw.at + 1) % Depth \in Queue
    BY <1>1, <1>4, Wrap, ToggleType DEF QueueInv, PciTypeOK, Controllers, Queue
  <2>1. /\ cq' = [cq EXCEPT ![hw.at] = [phase |-> hw.phase, own |-> TRUE, ok |-> ok]]
        /\ hw' = [hw EXCEPT !.cmd = NoRequest, !.at = (@ + 1) % Depth,
                            !.phase = IF hw.at = Depth - 1 THEN 1 - @ ELSE @]
    BY <1>2, <1>4 DEF Posted
  <2>2. drv.ready => SamePlace
    BY <1>1, <1>4 DEF QueueInv, NvmeQueue
  <2>3. /\ hw' \in Controllers /\ hw'.at = (hw.at + 1) % Depth /\ hw'.cmd = NoRequest
        /\ hw'.phase = IF hw.at = Depth - 1 THEN 1 - hw.phase ELSE hw.phase
    BY <1>3, <2>0, <2>1 DEF QueueInv, PciTypeOK, Controllers
  <2>4. [phase |-> hw.phase, own |-> TRUE, ok |-> ok] \in AnswersOf
    BY <2>0 DEF AnswersOf
  <2>5. /\ cq' \in [Queue -> AnswersOf]
        /\ \A i \in Queue : cq'[i].phase = IF i = hw.at THEN hw.phase ELSE cq[i].phase
        /\ cq'[hw.at].own
    BY <2>0, <2>1, <2>4 DEF QueueInv, PciTypeOK
  <2>6. PciTypeOK' /\ OneCommand' /\ Unfound'
    BY <1>1, <1>3, <1>4, <2>3, <2>5 DEF QueueInv, PciTypeOK, OneCommand, Unfound
  <2>7. drv.ready => OneAhead' /\ cq'[drv'.head].own
    BY <1>1, <2>2, <2>3, <2>5 DEF SamePlace, OneAhead
  <2>8. drv.ready => \A i \in Queue : cq'[i].phase = IF i < hw'.at THEN hw'.phase ELSE 1 - hw'.phase
    <3>1. (hw.at + 1) % Depth = IF hw.at = Depth - 1 THEN 0 ELSE hw.at + 1
      BY <2>0, Wrap DEF Queue
    <3>2. drv.ready => \A i \in Queue : cq[i].phase = IF i < hw.at THEN hw.phase ELSE 1 - hw.phase
      BY <1>1, <1>4 DEF QueueInv, NvmeQueue
    <3> QED BY <2>0, <2>3, <2>5, <3>1, <3>2, ToggleType DEF Queue
  <2> QED BY <1>1, <1>3, <1>4, <2>3, <2>6, <2>7, <2>8 DEF QueueInv, NvmeQueue
<1>5. CASE drv.kind = "virtio"
  <2>1. /\ cq' = cq
        /\ hw' = [hw EXCEPT !.cmd = NoRequest, !.index = (@ + 1) % IndexWidth,
                            !.status = IF ok THEN "ok" ELSE "error"]
    BY <1>2, <1>5 DEF Posted
  <2>2. (hw.index + 1) % IndexWidth \in 0..IndexWidth - 1
    BY Wrap DEF QueueInv, PciTypeOK, Controllers
  <2>3. hw' \in Controllers /\ hw'.cmd = NoRequest
    BY <1>3, <2>1, <2>2 DEF QueueInv, PciTypeOK, Controllers
  <2> QED BY <1>1, <1>3, <1>5, <2>1, <2>3 DEF QueueInv, PciTypeOK, OneCommand, Unfound, VirtioRing
<1>6. CASE drv.kind = "sata"
  <2>1. cq' = cq /\ hw' = [hw EXCEPT !.cmd = NoRequest, !.status = IF ok THEN "ok" ELSE "error"]
    BY <1>2, <1>6 DEF Posted
  <2>2. hw' \in Controllers /\ hw'.cmd = NoRequest
    BY <1>3, <2>1 DEF QueueInv, PciTypeOK, Controllers
  <2> QED BY <1>1, <1>3, <1>6, <2>1, <2>2 DEF QueueInv, PciTypeOK, OneCommand, Unfound
<1> QED BY <1>2, <1>4, <1>5, <1>6 DEF Posted

(* What the wait loops leave behind: the next chunk, or no transfer. *)
LEMMA ContinueType ==
  ASSUME QueueInv, job.sent, NEW ok \in BOOLEAN, Continue(ok)
  PROVE  job' \in Transfers /\ ~job'.sent
<1>1. NoTransfer \in Transfers /\ ~NoTransfer.sent
  BY DEF NoTransfer, Transfers
<1>2. job \in Transfers
  BY DEF QueueInv, PciTypeOK
<1>3. [job EXCEPT !.stage = "write", !.sent = FALSE] \in Transfers
      /\ ~[job EXCEPT !.stage = "write", !.sent = FALSE].sent
  BY <1>2 DEF Transfers
<1> QED BY <1>1, <1>2, <1>3, ContinueCases, ChunkType

(* An answer is taken when there is one for the command sent, and then the  *)
(* queue is empty again.                                                    *)
LEMMA AnswerQueueInv ==
  ASSUME QueueInv, AhciAnswer \/ NvmeAnswer \/ VirtioAnswer \/ Timeout
  PROVE  QueueInv'
<1> USE PciAssumption
<1>1. job.sent /\ drv.ready /\ drv.kind # "none" /\ drv \in Drivers /\ hw \in Controllers
  BY DEF AhciAnswer, NvmeAnswer, VirtioAnswer, Timeout, Awaiting, QueueInv, OneCommand, PciTypeOK
<1>2. CASE AhciAnswer
  <2>1. job' \in Transfers /\ ~job'.sent
    BY <1>1, <1>2, ContinueType DEF AhciAnswer
  <2>2. hw' \in Controllers /\ hw'.cmd = hw.cmd /\ drv' = drv /\ cq' = cq /\ mixed' = mixed
        /\ drv.kind = "sata" /\ hw.cmd.op = "none"
    BY <1>1, <1>2 DEF AhciAnswer, Controllers, QueueInv, OneCommand
  <2> QED BY <1>1, <2>1, <2>2 DEF QueueInv, PciTypeOK, OneCommand, Unfound
<1>3. CASE NvmeAnswer
  <2>1. /\ drv.kind = "nvme" /\ cq[drv.head].phase = drv.phase /\ drv' = NextHead
        /\ mixed' = (mixed \/ ~cq[drv.head].own) /\ hw' = hw
        /\ cq' = [cq EXCEPT ![drv.head].own = FALSE, ![drv.head].ok = FALSE]
    BY <1>3 DEF NvmeAnswer
  <2>2. drv.head \in Queue /\ drv.phase \in Toggle /\ cq \in [Queue -> AnswersOf] /\ NvmeQueue
    BY <1>1, <2>1 DEF QueueInv, PciTypeOK, Drivers
  <2>3. ~SamePlace
    BY <2>1, <2>2, ToggleType DEF NvmeQueue, SamePlace, Queue
  <2>4. OneAhead /\ hw.cmd.op = "none" /\ cq[drv.head].own
    BY <2>2, <2>3 DEF NvmeQueue
  <2>5. /\ drv' \in Drivers /\ drv'.kind = "nvme" /\ drv'.ready
        /\ drv'.head = (drv.head + 1) % Depth
        /\ drv'.phase = IF drv.head = Depth - 1 THEN 1 - drv.phase ELSE drv.phase
    <3>1. (drv.head + 1) % Depth \in Queue /\ 1 - drv.phase \in Toggle
      BY <2>2, Wrap, ToggleType DEF Queue
    <3> QED BY <1>1, <2>1, <3>1 DEF NextHead, Drivers
  <2>6. cq' \in [Queue -> AnswersOf] /\ \A i \in Queue : cq'[i].phase = cq[i].phase
    BY <2>1, <2>2 DEF AnswersOf
  <2>7. job' \in Transfers /\ ~job'.sent
    <3>1. Continue(cq[drv.head].own /\ cq[drv.head].ok)
      BY <1>3 DEF NvmeAnswer
    <3> QED BY <1>1, <3>1, ContinueType
  <2>8. ~mixed'
    BY <2>1, <2>4 DEF QueueInv
  <2>9. SamePlace'
    BY <2>1, <2>4, <2>5 DEF SamePlace, OneAhead
  <2>10. NvmeQueue'
    BY <2>1, <2>2, <2>6, <2>9 DEF NvmeQueue
  <2>11. PciTypeOK' /\ OneCommand' /\ Unfound'
    BY <2>1, <2>4, <2>5, <2>6, <2>7 DEF QueueInv, PciTypeOK, OneCommand, Unfound
  <2> QED BY <2>5, <2>8, <2>10, <2>11 DEF QueueInv
<1>4. CASE VirtioAnswer
  <2>1. /\ drv.kind = "virtio" /\ hw.index # drv.used /\ drv' = [drv EXCEPT !.used = hw.index]
        /\ mixed' = (mixed \/ hw.cmd.op # "none") /\ hw' = hw /\ cq' = cq
    BY <1>4 DEF VirtioAnswer
  <2>2. hw.cmd.op = "none"
    BY <1>1, <2>1 DEF QueueInv, VirtioRing
  <2>3. drv' \in Drivers /\ drv'.kind = "virtio" /\ drv'.ready /\ drv'.used = hw.index
    BY <1>1, <2>1 DEF Drivers, Controllers
  <2>4. job' \in Transfers /\ ~job'.sent
    BY <1>1, <1>4, ContinueType DEF VirtioAnswer
  <2>5. ~mixed'
    BY <2>1, <2>2 DEF QueueInv
  <2>6. PciTypeOK' /\ OneCommand' /\ Unfound' /\ VirtioRing'
    BY <2>1, <2>2, <2>3, <2>4 DEF QueueInv, PciTypeOK, OneCommand, Unfound, VirtioRing
  <2> QED BY <2>3, <2>5, <2>6 DEF QueueInv
<1>5. CASE Timeout
  <2>1. Powered \in Controllers /\ NoTransfer \in Transfers /\ job \in Transfers
    <3>1. 0 \in Queue /\ 1 \in Toggle /\ 0 \in 0..IndexWidth - 1
      BY DEF Queue, Toggle
    <3> QED BY <3>1 DEF Powered, NoRequest, Controllers, Requests, NoTransfer, Transfers,
                        QueueInv, PciTypeOK
  <2>2. drv' \in Drivers /\ drv'.kind = drv.kind /\ ~drv'.ready
    BY <1>1, <1>5 DEF Timeout, Drivers
  <2>3. PciTypeOK' /\ OneCommand' /\ Unfound' /\ ~mixed'
    <3>1. PciTypeOK'
      BY <1>1, <1>5, <2>1, <2>2 DEF Timeout, QueueInv, PciTypeOK
    <3>2. CASE job' = NoTransfer /\ hw' = Powered
      BY <1>1, <1>5, <2>2, <3>1, <3>2
         DEF Timeout, QueueInv, OneCommand, Unfound, Powered, NoRequest, NoTransfer
    <3>3. CASE UNCHANGED <<job, hw>>
      BY <1>1, <1>5, <2>2, <3>1, <3>3 DEF Timeout, QueueInv, OneCommand, Unfound
    <3> QED BY <1>5, <3>2, <3>3 DEF Timeout
  <2> QED BY <2>2, <2>3 DEF QueueInv
<1> QED BY <1>2, <1>3, <1>4, <1>5

(* The queue of a disk keeps its place, whatever happens. *)
LEMMA NextQueueInv == ASSUME QueueInv, [PciNext]_pciVars PROVE QueueInv'
<1>1. CASE UNCHANGED pciVars
  BY <1>1 DEF pciVars, QueueInv, PciTypeOK, OneCommand, Unfound, NvmeQueue, VirtioRing, SamePlace,
              OneAhead
<1>2. CASE AhciInit \/ NvmeInit \/ VirtioInit
  BY <1>2, FoundQueueInv DEF AhciInit, NvmeInit, VirtioInit
<1> QED BY <1>1, <1>2, SendQueueInv, ExecuteQueueInv, AnswerQueueInv DEF PciNext

(* No answer of an earlier command is taken for the current one, for every  *)
(* depth of the NVMe queue and width of the VirtIO index (nvme_command(),   *)
(* virtio_request()).                                                       *)
THEOREM AnswersOwnAlways == PciSpec => []AnswersOwn
<1>1. QueueInv => AnswersOwn
  BY DEF QueueInv, AnswersOwn
<1> QED BY <1>1, InitQueueInv, NextQueueInv, PTL DEF PciSpec

-----------------------------------------------------------------------------
(* The data of a transfer                                                  *)

(* The wait loop would take a good answer now. *)
GoodAnswer == /\ drv.ready
              /\ \/ drv.kind = "sata" /\ hw.status = "ok"
                 \/ drv.kind = "nvme" /\ cq[drv.head].phase = drv.phase /\ cq[drv.head].ok
                 \/ drv.kind = "virtio" /\ hw.index # drv.used /\ hw.status = "ok"

(* Sector i of the native sector the job is at. *)
Place(i) == Native(job) * Width + i
Whole == \A i \in 0..Width - 1 : bounce[i] = disk[Place(i)]
WholePatched == \A i \in 0..Width - 1 :
  bounce[i] = IF i \in Offset(job)..Offset(job) + Count(job) - 1
              THEN NewData(Place(i)) ELSE disk[Place(i)]

InRange == /\ job.stage \in {"read", "write"} =>
                /\ job.left > 0 /\ job.lba + job.left = job.top /\ job.top <= Natives * Ratio
                /\ job.op \in {"read", "write"} /\ (job.stage = "write" => job.op = "write")
           /\ job.stage = "flush" => job.op = "flush"
Ordered == hw.cmd.op # "none" => hw.cmd = [op |-> job.stage, native |-> Native(job)]
Buffered ==
  /\ hw.cmd.op = "write" => WholePatched
  /\ job.stage = "write" /\ ~job.sent /\ NeedsRead(job) => Whole
  /\ job.stage = "read" /\ job.sent /\ hw.cmd.op = "none" /\ GoodAnswer => Whole

DataInv == /\ DOMAIN disk = Sectors /\ DOMAIN bounce = 0..Ratio - 1
           /\ InRange /\ Ordered /\ Buffered

(* A multiple below a multiple is one whole sector below it. *)
LEMMA MultiplesBelow ==
  ASSUME NEW q \in Nat, NEW n \in Nat, NEW r \in Nat \ {0}, NEW o \in 0..r - 1,
         NEW i \in 0..r - 1, q * r + o < n * r
  PROVE  q * r + i < n * r
<1>1. q < n
  <2> SUFFICES ASSUME q >= n PROVE FALSE
    OBVIOUS
  <2>1. q * r >= n * r /\ q * r \in Nat /\ n * r \in Nat
    OBVIOUS
  <2> QED BY <2>1
<1>2. (q + 1) * r <= n * r /\ (q + 1) * r = q * r + r
  BY <1>1
<1> QED BY <1>2

(* The native sector a job is at lies on the disk. *)
LEMMA PlaceOnDisk ==
  ASSUME QueueInv, InRange, job.stage \in {"read", "write"}, NEW i \in 0..Width - 1
  PROVE  Place(i) \in Sectors /\ Place(i) \div Width = Native(job) /\ Place(i) % Width = i
<1>1. job \in Transfers /\ job.lba < Natives * Ratio /\ job.lba \in Nat
  BY PciAssumption DEF QueueInv, PciTypeOK, InRange, Transfers
<1>2. Native(job) \in Nat /\ Width \in Nat \ {0} /\ i \in Nat
  BY <1>1, ChunkSize, WidthType
<1> DEFINE q == Native(job) w == Width
<1>3. q * w + i \in Nat /\ (q * w + i) \div w = q /\ (q * w + i) % w = i
  <2> HIDE DEF q, w
  <2>1. q \in Nat /\ w \in Nat \ {0} /\ i \in 0..w - 1
    BY <1>2 DEF q, w
  <2>2. q * w \in Nat
    BY <2>1
  <2> QED BY <2>1, <2>2
<1>4. q * w + i < Natives * Ratio
  <2>1. job.lba = q * w + Offset(job) /\ Offset(job) \in 0..w - 1
    BY <1>1, ChunkSize
  <2> HIDE DEF q
  <2>2. CASE w = 1
    BY <1>1, <1>2, <2>1, <2>2, PciAssumption DEF q
  <2>3. CASE w = Ratio
    BY <1>1, <1>2, <2>1, <2>3, PciAssumption, MultiplesBelow DEF q
  <2> QED BY <2>2, <2>3 DEF Width
<1>5. Place(i) = q * w + i
  BY DEF Place
<1> QED BY <1>3, <1>4, <1>5, PciAssumption DEF Sectors

(* Where a job is depends on its place and the kind of the disk only. *)
LEMMA SameChunk ==
  ASSUME drv'.kind = drv.kind, job'.lba = job.lba, job'.left = job.left, job'.op = job.op
  PROVE  /\ Width' = Width /\ Native(job)' = Native(job) /\ Offset(job)' = Offset(job)
         /\ Count(job)' = Count(job) /\ (NeedsRead(job)' <=> NeedsRead(job))
         /\ \A i : Place(i)' = Place(i)
<1>1. Width' = Width
  BY DEF Width
<1>2. Native(job)' = Native(job) /\ Offset(job)' = Offset(job)
  BY <1>1 DEF Native, Offset
<1>3. Count(job)' = Count(job)
  BY <1>1, <1>2 DEF Count
<1>4. NeedsRead(job)' <=> NeedsRead(job)
  BY <1>1, <1>2, <1>3 DEF NeedsRead
<1>5. \A i : Place(i)' = Place(i)
  BY <1>1, <1>2 DEF Place
<1> QED BY <1>1, <1>2, <1>3, <1>4, <1>5

(* At first there is no transfer. *)
LEMMA InitDataInv == PciInit => DataInv
  BY DEF PciInit, DataInv, InRange, Ordered, Buffered, NoTransfer, Powered, NoRequest

(* A transfer starts inside the disk; a write that starts without reading   *)
(* covers its native sector.                                                *)
LEMMA BeginDataInv ==
  ASSUME QueueInv, DataInv, BeginTransfer \/ Flush
  PROVE  DataInv'
<1> USE PciAssumption
<1>1. UNCHANGED <<drv, hw, cq, disk, bounce>> /\ job.stage = "idle" /\ hw.cmd.op = "none"
  BY DEF BeginTransfer, Flush, QueueInv, OneCommand
<1>2. DOMAIN disk' = Sectors /\ DOMAIN bounce' = 0..Ratio - 1 /\ Ordered'
  BY <1>1 DEF DataInv, Ordered
<1>3. CASE Flush
  BY <1>1, <1>2, <1>3 DEF Flush, DataInv, InRange, Buffered, NoTransfer
<1>4. CASE BeginTransfer
  <2>1. PICK dir \in {"read", "write"}, lba \in Sectors : \E n \in 1..Natives * Ratio - lba :
          job' = Entered([NoTransfer EXCEPT !.op = dir, !.lba = lba, !.left = n, !.top = lba + n])
    BY <1>4 DEF BeginTransfer
  <2>2. PICK n \in 1..Natives * Ratio - lba :
          job' = Entered([NoTransfer EXCEPT !.op = dir, !.lba = lba, !.left = n, !.top = lba + n])
    BY <2>1
  <2> DEFINE j == [NoTransfer EXCEPT !.op = dir, !.lba = lba, !.left = n, !.top = lba + n]
  <2>3. /\ lba \in Nat /\ n \in Nat /\ n > 0 /\ lba + n \in Nat /\ lba + n <= Natives * Ratio
    BY DEF Sectors
  <2>4. j \in Transfers /\ j.op = dir /\ j.lba = lba /\ j.left = n /\ j.top = lba + n
    BY <2>3 DEF NoTransfer, Transfers
  <2> HIDE DEF j
  <2>5. /\ job'.op = dir /\ job'.lba = lba /\ job'.left = n /\ job'.top = lba + n /\ ~job'.sent
        /\ job'.stage = IF NeedsRead(j) THEN "read" ELSE "write"
    <3>1. job' = Entered(j)
      BY <2>2 DEF j
    <3> QED BY <2>3, <2>4, <3>1, EnteredType
  <2>6. NeedsRead(job)' <=> NeedsRead(j)
    BY <1>1, <2>4, <2>5 DEF NeedsRead, Offset, Count, Width
  <2>7. InRange'
    BY <2>3, <2>4, <2>5 DEF InRange, NeedsRead
  <2>8. Buffered'
    BY <1>1, <2>5, <2>6 DEF Buffered
  <2> QED BY <1>2, <2>7, <2>8 DEF DataInv
<1> QED BY <1>3, <1>4

(* The answers a driver has not taken. *)
LEMMA NoGoodAnswer == ASSUME QueueInv, drv.ready, ~job.sent, hw.status # "ok" PROVE ~GoodAnswer
<1>1. CASE drv.kind = "nvme"
  <2>1. SamePlace /\ drv.head \in Queue /\ drv.phase \in Toggle
    BY <1>1 DEF QueueInv, NvmeQueue, PciTypeOK, Drivers
  <2>2. cq[drv.head].phase = 1 - drv.phase
    BY <1>1, <2>1 DEF QueueInv, NvmeQueue, SamePlace, Queue
  <2> QED BY <1>1, <2>1, <2>2, ToggleType DEF GoodAnswer
<1>2. CASE drv.kind # "nvme"
  BY <1>2 DEF GoodAnswer
<1> QED BY <1>1, <1>2

(* The command that is sent has the native sector of the job and, when it   *)
(* is a write, its other sectors in the buffer as they are on the disk.     *)
LEMMA IssueDataInv == ASSUME QueueInv, DataInv, Issue PROVE DataInv'
<1> USE PciAssumption
<1>1. /\ drv' = drv /\ cq' = cq /\ disk' = disk /\ job.stage # "idle" /\ ~job.sent /\ drv.ready
      /\ job' = [job EXCEPT !.sent = TRUE] /\ job \in Transfers /\ hw \in Controllers
      /\ hw.cmd.op = "none"
  BY DEF Issue, QueueInv, OneCommand, PciTypeOK
<1>2. /\ job'.sent /\ job'.op = job.op /\ job'.stage = job.stage /\ job'.lba = job.lba
      /\ job'.left = job.left /\ job'.top = job.top
  BY <1>1 DEF Transfers
<1>3. /\ Width' = Width /\ Native(job)' = Native(job) /\ Offset(job)' = Offset(job)
      /\ Count(job)' = Count(job) /\ \A i : Place(i)' = Place(i)
  BY <1>1, <1>2, SameChunk
<1>4. bounce' = IF job.stage = "write" THEN Patched(job) ELSE bounce
  BY DEF Issue
<1>5. DOMAIN bounce' = 0..Ratio - 1
  BY <1>4 DEF DataInv, Patched
<1>6. InRange'
  BY <1>2 DEF DataInv, InRange
<1>7. CASE hw.status = "stuck"
  <2>1. hw' = hw
    BY <1>7 DEF Issue
  <2>2. ~GoodAnswer'
    BY <1>1, <1>7, <2>1, NoGoodAnswer DEF GoodAnswer
  <2>3. Buffered' /\ Ordered'
    BY <1>1, <1>2, <2>1, <2>2 DEF Buffered, Ordered
  <2> QED BY <1>1, <1>5, <1>6, <2>3 DEF DataInv
<1>8. CASE hw.status # "stuck"
  <2>1. hw'.cmd = [op |-> job.stage, native |-> Native(job)]
    BY <1>1, <1>8 DEF Issue, Controllers
  <2>2. Ordered'
    BY <1>2, <1>3, <2>1 DEF Ordered
  <2>3. ASSUME job.stage = "write" PROVE WholePatched'
    <3>1. SUFFICES ASSUME NEW i \in 0..Width - 1
                   PROVE  Patched(job)[i] = IF i \in Offset(job)..Offset(job) + Count(job) - 1
                                            THEN NewData(Place(i)) ELSE disk[Place(i)]
      BY <1>1, <1>3, <1>4, <2>3 DEF WholePatched, NewData
    <3>2. i \in DOMAIN bounce
      BY DEF DataInv, Width
    <3>3. Patched(job)[i] = IF i \in Offset(job)..Offset(job) + Count(job) - 1
                            THEN NewData(Place(i)) ELSE bounce[i]
      BY <3>2 DEF Patched, Place
    <3>4. CASE NeedsRead(job)
      BY <1>1, <2>3, <3>3, <3>4 DEF DataInv, Buffered, Whole
    <3>5. CASE ~NeedsRead(job)
      <4>1. Offset(job) = 0 /\ Count(job) = Width
        BY <3>5 DEF NeedsRead
      <4>2. i \in Offset(job)..Offset(job) + Count(job) - 1
        BY <4>1, WidthType
      <4> QED BY <3>3, <4>2
    <3> QED BY <3>4, <3>5
  <2>4. Buffered'
    BY <1>1, <1>2, <2>1, <2>3 DEF Buffered
  <2> QED BY <1>1, <1>5, <1>6, <2>2, <2>4 DEF DataInv
<1> QED BY <1>7, <1>8

(* What a controller did to a command is a good answer only when all of it  *)
(* was done.                                                                *)
LEMMA PostedGood ==
  ASSUME QueueInv, hw.cmd.op # "none", NEW ok \in BOOLEAN, Posted(ok), drv' = drv, GoodAnswer'
  PROVE  ok
<1>1. drv.ready /\ hw \in Controllers /\ cq \in [Queue -> AnswersOf]
  BY DEF QueueInv, PciTypeOK, GoodAnswer
<1>2. CASE drv.kind = "nvme"
  <2>1. SamePlace /\ hw.at \in Queue
    BY <1>1, <1>2 DEF QueueInv, NvmeQueue, Controllers
  <2>2. cq'[drv.head].ok = ok
    BY <1>1, <1>2, <2>1 DEF Posted, SamePlace
  <2> QED BY <1>2, <2>2 DEF GoodAnswer
<1>3. CASE drv.kind # "nvme"
  <2>1. hw'.status = IF ok THEN "ok" ELSE "error"
    BY <1>1, <1>3 DEF Posted, Controllers
  <2>2. hw'.status = "ok"
    BY <1>3 DEF GoodAnswer
  <2> QED BY <2>1, <2>2
<1> QED BY <1>2, <1>3

(* After a good answer to a read the buffer holds the native sector. *)
LEMMA ExecuteDataInv == ASSUME QueueInv, DataInv, Execute PROVE DataInv'
<1> USE PciAssumption
<1>1. /\ drv' = drv /\ job' = job /\ hw.cmd.op # "none" /\ job.sent /\ job \in Transfers
      /\ hw \in Controllers
  BY DEF Execute, QueueInv, OneCommand, PciTypeOK
<1>2. PICK ok \in BOOLEAN, effect \in BOOLEAN :
        /\ ok => effect
        /\ Posted(ok)
        /\ bounce' = IF effect /\ hw.cmd.op = "read"
                     THEN [i \in DOMAIN bounce |-> IF i < Width THEN disk[hw.cmd.native * Width + i]
                                                   ELSE bounce[i]] ELSE bounce
        /\ disk' = IF effect /\ hw.cmd.op = "write"
                   THEN [s \in Sectors |-> IF s \div Width = hw.cmd.native
                                           THEN bounce[s % Width] ELSE disk[s]] ELSE disk
  BY DEF Execute
<1>3. hw.cmd.op = job.stage /\ hw.cmd.native = Native(job)
  BY <1>1 DEF DataInv, Ordered
<1>4. hw'.cmd = NoRequest /\ hw'.cmd.op = "none"
  <2>1. Posted(ok)
    BY <1>2
  <2>2. hw'.cmd = NoRequest
    BY <1>1, <2>1 DEF Posted, Controllers
  <2> QED BY <2>2 DEF NoRequest
<1>5. DOMAIN disk' = Sectors /\ DOMAIN bounce' = 0..Ratio - 1 /\ InRange' /\ Ordered'
  <2>1. DOMAIN disk' = Sectors
    BY <1>2 DEF DataInv
  <2>2. DOMAIN bounce' = 0..Ratio - 1
    BY <1>2 DEF DataInv
  <2>3. InRange' /\ Ordered'
    BY <1>1, <1>4 DEF DataInv, InRange, Ordered
  <2> QED BY <2>1, <2>2, <2>3
<1>6. ASSUME job.stage = "read", GoodAnswer' PROVE Whole'
  <2>1. effect /\ ok
    BY <1>1, <1>2, <1>6, PostedGood
  <2>2. disk' = disk
    BY <1>2, <1>3, <1>6
  <2>3. bounce' = [i \in DOMAIN bounce |-> IF i < Width THEN disk[hw.cmd.native * Width + i]
                                                      ELSE bounce[i]]
    BY <1>2, <1>3, <1>6, <2>1
  <2>4. \A i \in 0..Width - 1 : i \in DOMAIN bounce /\ i < Width
    BY WidthType DEF DataInv, Width
  <2>5. \A i \in 0..Width - 1 : bounce'[i] = disk[Place(i)]
    BY <1>3, <2>3, <2>4 DEF Place
  <2> QED BY <1>1, <2>2, <2>5, SameChunk DEF Whole
<1>7. Buffered'
  BY <1>1, <1>4, <1>6 DEF Buffered
<1> QED BY <1>5, <1>7 DEF DataInv

(* The transfer goes on with what was read, or with the next native sector. *)
LEMMA AnswerDataInv ==
  ASSUME QueueInv, DataInv, AhciAnswer \/ NvmeAnswer \/ VirtioAnswer \/ Timeout
  PROVE  DataInv'
<1> USE PciAssumption
<1>1. job.sent /\ job.stage # "idle" /\ job \in Transfers /\ drv.ready /\ disk' = disk
      /\ bounce' = bounce
  BY DEF AhciAnswer, NvmeAnswer, VirtioAnswer, Timeout, Awaiting, QueueInv, OneCommand, PciTypeOK
<1>2. QueueInv' /\ drv'.kind = drv.kind
  <2>1. drv \in Drivers
    BY DEF QueueInv, PciTypeOK
  <2> QED BY <2>1, AnswerQueueInv
             DEF AhciAnswer, NvmeAnswer, VirtioAnswer, Timeout, NextHead, Drivers
<1>3. CASE Timeout
  <2>1. CASE job' = NoTransfer /\ hw' = Powered
    BY <1>1, <2>1 DEF DataInv, InRange, Ordered, Buffered, NoTransfer, Powered, NoRequest
  <2>2. CASE job' = job /\ hw' = hw
    <3>1. ~drv'.ready
      BY <1>3, <1>2 DEF Timeout, QueueInv, PciTypeOK, Drivers
    <3>2. (WholePatched' <=> WholePatched) /\ InRange' /\ Ordered'
      BY <1>1, <1>2, <2>2, SameChunk DEF WholePatched, NewData, DataInv, InRange, Ordered
    <3>3. Buffered'
      BY <1>1, <2>2, <3>1, <3>2 DEF DataInv, Buffered, GoodAnswer
    <3> QED BY <1>1, <3>2, <3>3 DEF DataInv
  <2> QED BY <1>3, <2>1, <2>2 DEF Timeout
<1>4. CASE AhciAnswer \/ NvmeAnswer \/ VirtioAnswer
  <2>1. PICK ok \in BOOLEAN : Continue(ok) /\ (ok => GoodAnswer)
    <3>1. CASE AhciAnswer
      BY <1>1, <3>1 DEF AhciAnswer, GoodAnswer
    <3>2. CASE NvmeAnswer
      BY <1>1, <3>2 DEF NvmeAnswer, GoodAnswer
    <3>3. CASE VirtioAnswer
      BY <1>1, <3>3 DEF VirtioAnswer, GoodAnswer
    <3> QED BY <1>4, <3>1, <3>2, <3>3
  <2>2. ~job'.sent /\ hw'.cmd.op = "none"
    BY <1>1, <1>2, <2>1, ContinueType DEF QueueInv, OneCommand
  <2>3. Ordered'
    BY <2>2 DEF Ordered
  <2>4. CASE job' = NoTransfer
    BY <1>1, <2>2, <2>3, <2>4 DEF DataInv, InRange, Buffered, NoTransfer
  <2>5. CASE ok /\ job.stage = "read" /\ job.op = "write"
             /\ job' = [job EXCEPT !.stage = "write", !.sent = FALSE]
    <3>1. /\ job'.op = job.op /\ job'.lba = job.lba /\ job'.left = job.left /\ job'.top = job.top
          /\ job'.stage = "write"
      BY <1>1, <2>5 DEF Transfers
    <3>2. hw.cmd.op = "none"
      BY <1>4, <2>2 DEF AhciAnswer, NvmeAnswer, VirtioAnswer, QueueInv, PciTypeOK, Controllers
    <3>3. Whole
      BY <1>1, <2>1, <2>5, <3>2 DEF DataInv, Buffered
    <3>4. Whole'
      BY <1>1, <1>2, <3>1, <3>3, SameChunk DEF Whole
    <3>5. InRange' /\ Buffered'
      BY <2>2, <2>5, <3>1, <3>4 DEF DataInv, InRange, Buffered
    <3> QED BY <1>1, <2>3, <3>5 DEF DataInv
  <2>6. CASE /\ ok /\ job.op # "flush" /\ ~(job.stage = "read" /\ job.op = "write")
             /\ job' = Chunk(job)
    <3>1. job.stage \in {"read", "write"}
      BY <1>1, <2>6 DEF DataInv, InRange, Transfers
    <3>2. /\ job'.op = job.op /\ job'.lba = job.lba + Count(job) /\ job'.left = job.left - Count(job)
          /\ job'.top = job.top /\ job'.stage \in {"idle", "read", "write"}
          /\ job'.stage # "idle" => job'.left > 0
          /\ job'.stage = "write" => ~NeedsRead(Chunk(job))
      BY <1>1, <2>6, ChunkType
    <3>3. job'.stage = "write" => ~NeedsRead(job)'
      BY <1>2, <2>6, <3>2 DEF NeedsRead, Offset, Count, Width
    <3>4. Buffered'
      BY <2>2, <3>3 DEF Buffered
    <3>5. Count(job) \in Nat /\ job.lba \in Nat /\ job.left \in Nat
      BY <1>1, ChunkSize DEF Transfers
    <3>6. job'.stage = "write" => job.op # "read"
      BY <3>2, <3>3 DEF NeedsRead
    <3>7. InRange'
      BY <3>1, <3>2, <3>5, <3>6 DEF DataInv, InRange
    <3> QED BY <1>1, <2>3, <3>4, <3>7 DEF DataInv
  <2> QED BY <2>1, <2>4, <2>5, <2>6, ContinueCases
<1> QED BY <1>3, <1>4

(* The buffer and the job agree, whatever happens. *)
LEMMA NextDataInv == ASSUME QueueInv, DataInv, [PciNext]_pciVars PROVE DataInv'
<1>1. CASE UNCHANGED pciVars
  <2>1. /\ drv' = drv /\ hw' = hw /\ cq' = cq /\ disk' = disk /\ bounce' = bounce /\ job' = job
    BY <1>1 DEF pciVars
  <2>2. InRange' /\ Ordered' /\ (GoodAnswer' <=> GoodAnswer)
    BY <2>1, SameChunk DEF DataInv, InRange, Ordered, GoodAnswer
  <2>3. (Whole' <=> Whole) /\ (WholePatched' <=> WholePatched)
    BY <2>1, SameChunk DEF Whole, WholePatched, NewData
  <2>4. Buffered'
    BY <2>1, <2>2, <2>3, SameChunk DEF DataInv, Buffered
  <2> QED BY <2>1, <2>2, <2>4 DEF DataInv
<1>2. CASE AhciInit \/ NvmeInit \/ VirtioInit
  <2>1. UNCHANGED <<hw, cq, disk, bounce, job>> /\ job.stage = "idle" /\ hw.cmd.op = "none"
    BY <1>2 DEF AhciInit, NvmeInit, VirtioInit, Found, QueueInv, OneCommand
  <2> QED BY <2>1 DEF DataInv, InRange, Ordered, Buffered
<1> QED BY <1>1, <1>2, BeginDataInv, IssueDataInv, ExecuteDataInv, AnswerDataInv DEF PciNext

(* Only a write that the controller executes changes the disk, and then     *)
(* only the sectors of the transfer, with the data meant for them.          *)
LEMMA WriteKeeps ==
  ASSUME QueueInv, DataInv, [PciNext]_pciVars, NEW s \in Sectors, disk'[s] # disk[s]
  PROVE  job.op = "write" /\ s \in job.lba..job.top - 1 /\ disk'[s] = NewData(s)
<1> USE PciAssumption
<1>1. Execute
  BY DEF PciNext, pciVars, AhciInit, NvmeInit, VirtioInit, Found, BeginTransfer, Flush, Issue,
         AhciAnswer, NvmeAnswer, VirtioAnswer, Timeout
<1>2. hw.cmd.op = "write" /\ disk' = [t \in Sectors |-> IF t \div Width = hw.cmd.native
                                                       THEN bounce[t % Width] ELSE disk[t]]
  BY <1>1 DEF Execute
<1>3. /\ job.stage = "write" /\ hw.cmd.native = Native(job) /\ job \in Transfers
      /\ job.lba + job.left = job.top /\ job.op = "write" /\ WholePatched
  BY <1>2 DEF DataInv, Ordered, InRange, Buffered, QueueInv, PciTypeOK
<1>4. s \div Width = Native(job) /\ disk'[s] = bounce[s % Width] /\ s \in Nat
  BY <1>2, <1>3 DEF Sectors
<1> DEFINE w == Width i == s % Width q == Native(job)
<1>5. i \in 0..w - 1 /\ s = q * w + i
  BY <1>4, WidthType, DivMod
<1>6. Place(i) = s
  BY <1>5 DEF Place
<1>7. bounce[i] = IF i \in Offset(job)..Offset(job) + Count(job) - 1
                  THEN NewData(s) ELSE disk[s]
  BY <1>3, <1>5, <1>6 DEF WholePatched
<1>8. i \in Offset(job)..Offset(job) + Count(job) - 1 /\ disk'[s] = NewData(s)
  BY <1>4, <1>7
<1>9. /\ job.lba = q * w + Offset(job) /\ Count(job) \in Nat /\ Count(job) <= job.left
      /\ Offset(job) \in 0..w - 1 /\ q \in Nat /\ job.left \in Nat
  BY <1>3, ChunkSize DEF Transfers
<1>10. s \in job.lba..job.top - 1
  <2> HIDE DEF w, i, q
  <2>1. w \in Nat /\ q * w \in Nat
    BY <1>9, WidthType DEF w
  <2> QED BY <1>3, <1>5, <1>8, <1>9, <2>1
<1> QED BY <1>3, <1>8, <1>10

(* A transfer changes no sector outside its own range, for every disk,      *)
(* native sector size and place in it (transfer() of storage_pci.c).        *)
THEOREM NeighboursKeptAlways == PciSpec => NeighboursKept
<1> DEFINE Step == \A s \in Sectors : disk'[s] # disk[s] =>
                     /\ job.op = "write" /\ s \in job.lba..job.top - 1
                     /\ disk'[s] = NewData(s)
<1>1. PciInit => QueueInv /\ DataInv
  BY InitQueueInv, InitDataInv
<1>2. QueueInv /\ DataInv /\ [PciNext]_pciVars => QueueInv' /\ DataInv'
  BY NextQueueInv, NextDataInv
<1>3. QueueInv /\ DataInv /\ [PciNext]_pciVars => [Step]_pciVars
  BY WriteKeeps
<1> QED BY <1>1, <1>2, <1>3, PTL DEF PciSpec, NeighboursKept
=============================================================================
