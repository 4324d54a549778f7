------------------------------ MODULE UsbLegacy ------------------------------
(***************************************************************************)
(* The schedules of one EHCI or OHCI host (usb_legacy.c).  Bulk and control *)
(* transfers of all ports share one descriptor and one buffer; every mouse  *)
(* has a descriptor of its own, which stays posted between two polls.  The  *)
(* controller reads what is scheduled at any time, so a descriptor may be   *)
(* rewritten only while its schedule is off (EHCI) or its endpoint skipped  *)
(* (OHCI), and turning the shared periodic schedule off for one mouse must  *)
(* not leave the other mice unserved.                                       *)
(***************************************************************************)
EXTENDS Naturals

CONSTANT Ports   \* the ports of the host

VARIABLES
  kind,      \* Host.kind: "none" before initialize(), then "ehci" or "ohci"
  live,      \* Host.live, and the controller runs
  async,     \* the async schedule, or the control and bulk lists
  periodic,  \* the periodic schedule
  td,        \* the shared descriptor: "idle", "active", "done", "error"
  mice,      \* Port: pending, its descriptor, the skip bit of its endpoint
  step,      \* the call in progress and the port it is for
  torn       \* history: a descriptor was rewritten under the controller

legacyVars == <<kind, live, async, periodic, td, mice, step, torn>>

Rest == [op |-> "idle"]
At(op, p) == [op |-> op, port |-> p]

LegacyInit == /\ kind = "none" /\ live = FALSE /\ async = FALSE /\ periodic = FALSE
              /\ td = "idle" /\ step = Rest /\ torn = FALSE
              /\ mice = [p \in Ports |-> [pending |-> FALSE, td |-> "idle", skip |-> TRUE]]

(* initialize(): the endpoints of all ports are linked once, all skipped. *)
Initialize == /\ kind = "none" /\ kind' \in {"ehci", "ohci"}
              /\ live' = TRUE /\ periodic' = (kind' = "ohci")
              /\ UNCHANGED <<async, td, mice, step, torn>>

(* stop(): a schedule did not follow its switch within 100 ms. *)
StopLegacy(then) == live' = FALSE /\ step' = then /\ UNCHANGED <<async, periodic, torn>>

Runs(p) == live /\ periodic /\ mice[p].td = "active" /\ (kind = "ohci" => ~mice[p].skip)

-----------------------------------------------------------------------------
(* usb_legacy_transfer() *)

TransferOff(p) == /\ step = Rest /\ live
                  /\ \/ async' = FALSE /\ step' = At("fill", p) /\ UNCHANGED <<live, periodic, torn>>
                     \/ kind = "ehci" /\ StopLegacy(Rest)
                  /\ UNCHANGED <<kind, td, mice>>

TransferFill == /\ step.op = "fill"
                /\ td' = "active" /\ torn' = (torn \/ (live /\ async))
                /\ step' = At("on", step.port)
                /\ UNCHANGED <<kind, live, async, periodic, mice>>

TransferOn == /\ step.op = "on"
              /\ \/ async' = TRUE /\ step' = At("wait", step.port)
                    /\ UNCHANGED <<live, periodic, torn>>
                 \/ kind = "ehci" /\ StopLegacy(Rest)
              /\ UNCHANGED <<kind, td, mice>>

(* Mutant of TransferEnd: a transfer that timed out stays scheduled. *)
TransferEndLeft == /\ step.op = "wait"
                   /\ async' = (td = "active") /\ step' = Rest
                   /\ UNCHANGED <<kind, live, periodic, td, mice, torn>>

(* Completed, failed or timed out after a second, the schedule goes off    *)
(* before the result is looked at and the buffer handed on.                *)
TransferEnd == /\ step.op = "wait"
               /\ \/ async' = FALSE /\ step' = Rest /\ UNCHANGED <<live, periodic, torn>>
                  \/ kind = "ehci" /\ StopLegacy(Rest)
               /\ UNCHANGED <<kind, td, mice>>

-----------------------------------------------------------------------------
(* usb_legacy_mouse() and the poll loop around it *)

(* Silence port p: the whole periodic schedule, or its own endpoint. *)
Silenced(p, then) ==
  \/ /\ kind = "ehci" /\ periodic' = FALSE /\ step' = then
     /\ UNCHANGED <<live, async, mice, torn>>
  \/ kind = "ehci" /\ StopLegacy(At("drop", p)) /\ UNCHANGED mice
  \/ /\ kind = "ohci" /\ mice' = [mice EXCEPT ![p].skip = TRUE] /\ step' = then
     /\ UNCHANGED <<live, async, periodic, torn>>

(* A poll finds nothing new, a report, an error, or an endpoint to arm. *)
MousePoll(p) == /\ step = Rest /\ live
                /\ ~(mice[p].pending /\ mice[p].td = "active")
                /\ Silenced(p, At(IF mice[p].pending /\ mice[p].td = "error"
                                  THEN "drop" ELSE "arm", p))
                /\ UNCHANGED <<kind, td>>

MouseArm == /\ step.op = "arm"
            /\ torn' = (torn \/ Runs(step.port))
            /\ mice' = [mice EXCEPT ![step.port] = [pending |-> TRUE, td |-> "active",
                                                    skip |-> FALSE]]
            /\ \/ periodic' = TRUE /\ step' = Rest /\ UNCHANGED live
               \/ kind = "ehci" /\ live' = FALSE /\ step' = At("drop", step.port)
                  /\ UNCHANGED periodic
            /\ UNCHANGED <<kind, async, td>>

(* usb_legacy_mouse_stop(): the device left, is reset, or answered with an  *)
(* error.  The shared schedule comes back if another mouse needs it.        *)
MouseStop(p) == /\ step = Rest /\ live /\ mice[p].pending
                /\ Silenced(p, At("drop", p)) /\ UNCHANGED <<kind, td>>

(* Mutant of MouseDrop: the periodic schedule stays off for every port. *)
MouseDropAll == /\ step.op = "drop"
                /\ mice' = [mice EXCEPT ![step.port] = [pending |-> FALSE, td |-> "idle",
                                                        skip |-> TRUE]]
                /\ torn' = (torn \/ Runs(step.port)) /\ step' = Rest
                /\ UNCHANGED <<kind, live, async, periodic, td>>

MouseDrop == /\ step.op = "drop"
             /\ mice' = [mice EXCEPT ![step.port] = [pending |-> FALSE, td |-> "idle",
                                                     skip |-> TRUE]]
             /\ torn' = (torn \/ Runs(step.port)) /\ step' = Rest
             /\ \/ /\ periodic' = IF kind = "ehci" /\ live THEN \E q \in Ports : mice'[q].pending
                                  ELSE periodic
                   /\ UNCHANGED live
                \/ /\ kind = "ehci" /\ live /\ \E q \in Ports : mice'[q].pending
                   /\ live' = FALSE /\ UNCHANGED periodic
             /\ UNCHANGED <<kind, async, td>>

(* The controller (external) works on whatever is scheduled. *)
LegacyRuns ==
  /\ \/ live /\ async /\ td = "active" /\ td' \in {"done", "error"} /\ UNCHANGED mice
     \/ \E p \in Ports, r \in {"done", "error"} :
          Runs(p) /\ mice' = [mice EXCEPT ![p].td = r] /\ UNCHANGED td
  /\ UNCHANGED <<kind, live, async, periodic, step, torn>>

LegacyNext == \/ Initialize \/ TransferFill \/ TransferOn \/ TransferEnd
              \/ \E p \in Ports : TransferOff(p) \/ MousePoll(p) \/ MouseStop(p)
              \/ MouseArm \/ MouseDrop \/ LegacyRuns

LegacySpec == LegacyInit /\ [][LegacyNext]_legacyVars

-----------------------------------------------------------------------------
(* No descriptor or buffer is touched by the driver while the controller may *)
(* be using it, not after a timeout either; and between two calls every      *)
(* mouse whose report is awaited is in a schedule that is on, whatever was   *)
(* done meanwhile for the other ports of the host.                           *)
SchedulesSound ==
  /\ ~torn
  /\ live /\ step = Rest => ~async /\ \A p \in Ports : mice[p].pending =>
                              periodic /\ (kind = "ohci" => ~mice[p].skip)
=============================================================================
