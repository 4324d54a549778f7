----------------------------- MODULE XhciRings -----------------------------
(***************************************************************************)
(* The xHCI driver's rings (usb_xhci.c): the command ring, the transfer    *)
(* ring of one endpoint (control, bulk or interrupt, as configured) and    *)
(* the event ring that answers both.  The driver is single threaded and    *)
(* polls; the controller runs by itself, so every step of it may fall      *)
(* between two steps of the driver, or never come.                         *)
(*                                                                         *)
(* Ownership of a TRB travels in its cycle bit.  "old" is a history mark:  *)
(* the request that posted the TRB, or caused the event, is over.  Of what *)
(* was executed or consumed only the cycle bit is remembered: nothing else *)
(* of it is read again.                                                    *)
(***************************************************************************)
EXTENDS Naturals

CONSTANTS RingSize,  \* RING_SIZE: the last TRB is kept for the link
          Events,    \* EVENTS
          Polls      \* rounds of the bounded wait loops (500 or 1000)

ASSUME RingsAssumption == RingSize \in Nat /\ RingSize > 3
                          /\ Events \in Nat \ {0} /\ Polls \in Nat \ {0}

VARIABLES
  ring,    \* the driver's Ring of each name: [trbs, next, cycle]
  deq,     \* controller: where it reads each ring, and its cycle state
  evs,     \* host->events
  evAt,    \* host->event_index and event_cycle
  evPut,   \* controller: where it writes the next event
  ready,   \* host->ready
  ep,      \* controller: endpoint state in the output context
  dev,     \* Device: [kind, active, pending, failed]; active: it is in use
  call     \* the wait loop the driver is in

ringsVars == <<ring, deq, evs, evAt, evPut, ready, ep, dev, call>>

Names == {"commands", "endpoint"}
NoTrb == [cycle |-> 0, what |-> "zero", old |-> TRUE]
NoEvent == [cycle |-> 0, name |-> "commands", at |-> 0, code |-> "ok", old |-> TRUE]
RingInit == [trbs |-> [i \in 0..RingSize - 1 |-> NoTrb], next |-> 0, cycle |-> 1]
NoDevice == [kind |-> "none", active |-> FALSE, pending |-> FALSE, failed |-> FALSE]
Idle == [pc |-> "idle", name |-> "none", what |-> "none", at |-> 0,
         done |-> FALSE, ok |-> FALSE, left |-> 0, mixed |-> FALSE]
Start == [at |-> 0, cycle |-> 1]

RingsInit == /\ ring = [n \in Names |-> RingInit] /\ deq = [n \in Names |-> Start]
             /\ evs = [i \in 0..Events - 1 |-> NoEvent]
             /\ evAt = Start /\ evPut = Start
             /\ ready = TRUE /\ ep = "disabled" /\ dev = NoDevice /\ call = Idle

-----------------------------------------------------------------------------
(* The driver's side of a ring. *)

(* Mutant of Linked: the producer's cycle bit is not toggled at the link. *)
LinkedSameCycle(r) ==
  IF r.next = RingSize - 1
  THEN [r EXCEPT !.trbs[r.next] = [cycle |-> r.cycle, what |-> "link", old |-> FALSE],
                 !.next = 0]
  ELSE r

Linked(r) ==
  IF r.next = RingSize - 1
  THEN [r EXCEPT !.trbs[r.next] = [cycle |-> r.cycle, what |-> "link", old |-> FALSE],
                 !.next = 0, !.cycle = 1 - @]
  ELSE r

Put(r, what) == [r EXCEPT !.trbs[r.next] = [cycle |-> r.cycle, what |-> what, old |-> FALSE],
                          !.next = @ + 1]

Enqueue(r, what) == Put(Linked(r), what)

Aged(r) == [r EXCEPT !.trbs = [i \in DOMAIN r.trbs |-> [r.trbs[i] EXCEPT !.old = TRUE]]]
AgedEvents(n) == [i \in DOMAIN evs |-> IF evs[i].name = n THEN [evs[i] EXCEPT !.old = TRUE]
                                       ELSE evs[i]]

Wait(n, what, at) == [pc |-> "poll", name |-> n, what |-> what, at |-> at, done |-> FALSE,
                      ok |-> FALSE, left |-> Polls, mixed |-> call.mixed]

(* command(): post one command, ring the doorbell and start to wait. *)
Command(what, endpoint, events) ==
  \E r \in {Enqueue(Aged(ring["commands"]), what)} :
    /\ ring' = [ring EXCEPT !["commands"] = r, !["endpoint"] = endpoint]
    /\ evs' = [i \in DOMAIN events |-> IF events[i].name = "commands"
                                       THEN [events[i] EXCEPT !.old = TRUE] ELSE events[i]]
    /\ call' = Wait("commands", what, r.next - 1)

Hardware == <<deq, evAt, evPut>>

(* A call returns: what it posted on ring n is over, unless it may stay    *)
(* posted (an interrupt transfer).                                         *)
Return(n) ==
  /\ call' = [Idle EXCEPT !.mixed = call.mixed]
  /\ IF n = "none" THEN UNCHANGED <<ring, evs>>
     ELSE ring' = [ring EXCEPT ![n] = Aged(@)] /\ evs' = AgedEvents(n)

(* stop_host(): nothing of this host is used again until the next boot. *)
StopHost == ready' = FALSE /\ Return("commands") /\ UNCHANGED dev

-----------------------------------------------------------------------------
(* Operations that begin while the driver is idle. *)

(* attach(), setup_mouse(), setup_storage(): a fresh ring, then the command *)
(* that makes the controller read it.                                       *)
Configure(k) ==
  /\ call.pc = "idle" /\ ready /\ dev.kind = "none"
  /\ dev' = [NoDevice EXCEPT !.kind = k]
  /\ Command("configure", RingInit, AgedEvents("endpoint"))
  /\ UNCHANGED <<Hardware, ready, ep>>

Doorbell == ep' = IF ep = "stopped" THEN "running" ELSE ep

Transfer(r) ==
  /\ ring' = [ring EXCEPT !["endpoint"] = r]
  /\ call' = Wait("endpoint", "transfer", r.next - 1)
  /\ Doorbell
  /\ UNCHANGED <<Hardware, evs, ready, dev>>

Usable(k) == call.pc = "idle" /\ ready /\ dev.active /\ dev.kind = k

(* control(): setup, an optional data stage, status. *)
Control == /\ Usable("control")
           /\ \/ Transfer(Enqueue(Enqueue(ring["endpoint"], "setup"), "status"))
              \/ Transfer(Enqueue(Enqueue(Enqueue(ring["endpoint"], "setup"), "data"), "status"))

(* bulk(): one Normal TRB into or out of the bounce buffer. *)
Bulk == Usable("bulk") /\ Transfer(Enqueue(ring["endpoint"], "normal"))

(* usb_xhci_poll(): drain the events, then look at the mouse. *)
PollMouse == /\ Usable("interrupt")
             /\ call' = Wait("none", "mouse", 0)
             /\ UNCHANGED <<Hardware, ring, evs, ready, ep, dev>>

(* disconnect(): the port reported a change; the slot is still taken when   *)
(* an earlier Disable Slot command was refused.                             *)
Disconnect == /\ call.pc = "idle" /\ ready /\ dev.kind # "none"
              /\ Command("disable", ring["endpoint"], evs)
              /\ UNCHANGED <<Hardware, ready, ep, dev>>

-----------------------------------------------------------------------------
(* events(): one event per step, until the cycle bit says the rest is old. *)

Visible == evs[evAt.at].cycle = evAt.cycle
Step(p, size) == IF p.at = size - 1 THEN [at |-> 0, cycle |-> 1 - p.cycle]
                 ELSE [p EXCEPT !.at = @ + 1]

Answers(e) ==
  /\ call.name = e.name
  /\ \/ e.name = "commands" /\ e.at = call.at
     \/ e.name = "endpoint" /\ dev.kind = "control" /\ (e.code = "error" \/ e.at = call.at)
     \/ e.name = "endpoint" /\ dev.kind = "bulk"

Reported(e) == e.name = "endpoint" /\ dev.kind = "interrupt" /\ dev.pending

Consume ==
  /\ call.pc = "poll" /\ Visible
  /\ \E e \in {evs[evAt.at]} :
       /\ call' = IF Answers(e)
                  THEN [call EXCEPT !.done = TRUE, !.ok = e.code # "error",
                                    !.mixed = @ \/ e.old]
                  ELSE [call EXCEPT !.mixed = @ \/ (Reported(e) /\ e.old)]
       /\ dev' = IF Reported(e)
                 THEN [dev EXCEPT !.pending = FALSE, !.failed = e.code = "error"] ELSE dev
       /\ evs' = [evs EXCEPT ![evAt.at] = [NoEvent EXCEPT !.cycle = e.cycle]]
  /\ evAt' = Step(evAt, Events)
  /\ UNCHANGED <<ring, deq, evPut, ready, ep>>

Drained == /\ call.pc = "poll" /\ ~Visible
           /\ call' = [call EXCEPT !.pc = "check"]
           /\ UNCHANGED <<Hardware, ring, evs, ready, ep, dev>>

(* Mutant of Again: the wait loop does not count its rounds. *)
AgainForever == /\ call.pc = "check" /\ ~call.done /\ call.left > 1 /\ call.name # "none"
                /\ call' = [call EXCEPT !.pc = "poll"]
                /\ UNCHANGED <<Hardware, ring, evs, ready, ep, dev>>

Again == /\ call.pc = "check" /\ ~call.done /\ call.left > 1 /\ call.name # "none"
         /\ call' = [call EXCEPT !.pc = "poll", !.left = @ - 1]
         /\ UNCHANGED <<Hardware, ring, evs, ready, ep, dev>>

Done == call.pc = "check" /\ call.done
TimedOut == call.pc = "check" /\ ~call.done /\ call.left = 1

(* usb_xhci_poll(): a finished report is taken and the endpoint re-armed. *)
CheckMouse ==
  /\ call.pc = "check" /\ call.name = "none"
  /\ \/ dev.pending /\ Return("none") /\ UNCHANGED <<dev, ep>>
     \/ ~dev.pending /\ dev.failed /\ Command("disable", ring["endpoint"], evs)
        /\ UNCHANGED <<dev, ep>>
     \/ /\ ~dev.pending /\ ~dev.failed
        /\ ring' = [ring EXCEPT !["endpoint"] = Enqueue(@, "normal")]
        /\ dev' = [dev EXCEPT !.pending = TRUE]
        /\ Doorbell
        /\ call' = [Idle EXCEPT !.mixed = call.mixed] /\ UNCHANGED evs
  /\ UNCHANGED <<Hardware, ready>>

(* Mutant of Recover: the ring is used again without stopping the endpoint. *)
RecoverNothing == Return("endpoint") /\ UNCHANGED <<ready, dev>>

(* recover_endpoint(): stop or reset the endpoint before its ring is       *)
(* reinitialised and the controller's dequeue pointer moved.               *)
Recover ==
  /\ \/ ep = "running" /\ Command("stop", Aged(ring["endpoint"]), AgedEvents("endpoint"))
     \/ ep = "halted" /\ Command("reset", Aged(ring["endpoint"]), AgedEvents("endpoint"))
     \/ ep \in {"stopped", "disabled"}
        /\ Command("dequeue", RingInit, AgedEvents("endpoint"))
  /\ UNCHANGED <<ready, dev>>

(* The end of control(): an error or a timeout recovers the endpoint. *)
CheckControl ==
  /\ call.name = "endpoint" /\ dev.kind = "control"
  /\ \/ Done /\ call.ok /\ Return("endpoint") /\ UNCHANGED <<ready, dev>>
     \/ (TimedOut \/ (Done /\ ~call.ok)) /\ Recover
  /\ UNCHANGED <<Hardware, ep>>

(* The end of bulk(): a timeout recovers the endpoint; after any failure   *)
(* the caller disconnects the device.                                      *)
CheckBulk ==
  /\ call.name = "endpoint" /\ dev.kind = "bulk"
  /\ \/ Done /\ call.ok /\ Return("endpoint") /\ UNCHANGED <<ready, dev>>
     \/ Done /\ ~call.ok /\ Command("disable", Aged(ring["endpoint"]), AgedEvents("endpoint"))
        /\ UNCHANGED <<ready, dev>>
     \/ TimedOut /\ Recover
  /\ UNCHANGED <<Hardware, ep>>

(* What follows a command that completed, by the call it belongs to.  A     *)
(* refused Disable Slot leaves the mouse polled and the hub scanned; a disk *)
(* is out of the table of disks already.                                    *)
AfterCommand(ok) ==
  CASE call.what = "configure" /\ ok ->
         dev' = [dev EXCEPT !.active = TRUE] /\ Return("commands") /\ UNCHANGED ready
    [] call.what = "configure" /\ ~ok ->
         Command("disable", ring["endpoint"], evs) /\ UNCHANGED <<ready, dev>>
    [] call.what = "disable" ->
         /\ dev' = IF ok THEN NoDevice ELSE [dev EXCEPT !.active = @ /\ dev.kind # "bulk"]
         /\ Return("commands") /\ UNCHANGED ready
    [] call.what \in {"stop", "reset"} /\ ok ->
         Command("dequeue", RingInit, AgedEvents("endpoint")) /\ UNCHANGED <<ready, dev>>
    [] call.what = "dequeue" /\ ok /\ dev.kind = "bulk" ->
         Command("disable", ring["endpoint"], evs) /\ UNCHANGED <<ready, dev>>
    [] call.what = "dequeue" /\ ok /\ dev.kind # "bulk" ->
         Return("commands") /\ UNCHANGED <<ready, dev>>
    [] OTHER -> StopHost

CommandTimeout == call.name = "commands" /\ TimedOut /\ StopHost /\ UNCHANGED <<Hardware, ep>>
CheckCommand == /\ call.name = "commands" /\ Done /\ AfterCommand(call.ok)
                /\ UNCHANGED <<Hardware, ep>>

-----------------------------------------------------------------------------
(* The controller (external): it takes the TRBs whose cycle bit is its own. *)

Ahead(n) == IF ring[n].trbs[deq[n].at].what = "link"
               /\ ring[n].trbs[deq[n].at].cycle = deq[n].cycle
            THEN [at |-> 0, cycle |-> 1 - deq[n].cycle] ELSE deq[n]
Owned(n) == ring[n].trbs[Ahead(n).at].cycle = Ahead(n).cycle
Room == evPut.at # evAt.at \/ evPut.cycle = evAt.cycle
Post(n, code, old) ==
  /\ evs' = [evs EXCEPT ![evPut.at] = [cycle |-> evPut.cycle, name |-> n, at |-> Ahead(n).at,
                                       code |-> code, old |-> old]]
  /\ evPut' = Step(evPut, Events)
Spent(n) == ring' = [ring EXCEPT ![n].trbs[Ahead(n).at] = [NoTrb EXCEPT !.cycle = Ahead(n).cycle]]
Beyond(n) == [at |-> Ahead(n).at + 1, cycle |-> Ahead(n).cycle]
Advance(n) == deq' = [deq EXCEPT ![n] = Beyond(n)] /\ Spent(n)

(* One command; a stop that interrupts a transfer first reports it. *)
HcCommand ==
  /\ Owned("commands") /\ Room
  /\ \E t \in {ring["commands"].trbs[Ahead("commands").at]} :
       \/ /\ t.what = "stop" /\ ep = "running" /\ Owned("endpoint")
          /\ ep' = "stopped" /\ UNCHANGED <<deq, ring>>
          /\ Post("endpoint", "error", ring["endpoint"].trbs[Ahead("endpoint").at].old)
       \/ /\ t.what = "stop" /\ (ep = "stopped" \/ (ep = "running" /\ ~Owned("endpoint")))
          /\ ep' = "stopped" /\ Advance("commands") /\ Post("commands", "ok", t.old)
       \/ /\ t.what = "reset" /\ ep = "halted"
          /\ ep' = "stopped" /\ Advance("commands") /\ Post("commands", "ok", t.old)
       \/ /\ t.what \in {"dequeue", "configure"}
          /\ ep = (IF t.what = "configure" THEN "disabled" ELSE "stopped")
          /\ ep' = IF t.what = "configure" THEN "running" ELSE ep
          /\ deq' = [endpoint |-> Start, commands |-> Beyond("commands")]
          /\ Spent("commands") /\ Post("commands", "ok", t.old)
       \/ /\ t.what = "disable"
          /\ ep' = "disabled" /\ Advance("commands") /\ Post("commands", "ok", t.old)
       \/ Advance("commands") /\ Post("commands", "error", t.old) /\ UNCHANGED ep
  /\ UNCHANGED <<evAt, ready, dev, call>>

(* One TRB of a running endpoint: silent, completed, short, or in error. *)
HcTransfer ==
  /\ ep = "running" /\ Owned("endpoint") /\ Room
  /\ \E t \in {ring["endpoint"].trbs[Ahead("endpoint").at]} :
       \/ /\ t.what \in {"setup", "data"} /\ Advance("endpoint")
          /\ UNCHANGED <<evs, evPut, ep>>
       \/ /\ t.what \in {"data", "status", "normal"} /\ Advance("endpoint")
          /\ Post("endpoint", IF t.what = "data" THEN "short" ELSE "ok", t.old)
          /\ UNCHANGED ep
       \/ Post("endpoint", "error", t.old) /\ ep' = "halted" /\ UNCHANGED <<deq, ring>>
  /\ UNCHANGED <<evAt, ready, dev, call>>

Driver == Consume \/ Drained \/ Again \/ CheckMouse \/ CheckControl \/ CheckBulk
          \/ CommandTimeout \/ CheckCommand

RingsNext == \/ \E k \in {"control", "bulk", "interrupt"} : Configure(k)
             \/ Control \/ Bulk \/ PollMouse \/ Disconnect
             \/ Driver \/ HcCommand \/ HcTransfer

RingsSpec == RingsInit /\ [][RingsNext]_ringsVars /\ WF_ringsVars(Driver)

-----------------------------------------------------------------------------
(* No wait is ended by the event of a request that is over: bulk() accepts *)
(* any event of its endpoint and control() any error, so an abandoned      *)
(* transfer must be stopped, and its events drained, before the next call. *)
NoStaleAnswer == ~call.mixed

(* Driver and controller agree on who owns what.  While a call waits, the  *)
(* controller can reach what it posted, or its answer is queued, or the    *)
(* endpoint halted on it; and once no call is in progress on a live host,  *)
(* a running endpoint has nothing left to do that could touch the shared   *)
(* bounce buffers, except the report of a pending mouse.                   *)
Queued(n) == \E i \in DOMAIN evs : evs[i].name = n /\ ~evs[i].old
Waiting(n) == call.pc # "idle" /\ call.name = n /\ ~call.done
RingsAgree ==
  ready => /\ \A n \in Names : Waiting(n) =>
                Owned(n) \/ Queued(n) \/ (n = "endpoint" /\ ep # "running")
           /\ call.pc = "idle" /\ ep = "running" /\ Owned("endpoint") =>
                dev.kind = "interrupt" /\ dev.pending

(* "All transfers have finite waits": whatever the controller does or      *)
(* leaves undone, every call returns.                                      *)
CallsReturn == (call.pc # "idle") ~> (call.pc = "idle")
=============================================================================
