----------------------------- MODULE XhciProofs -----------------------------
(***************************************************************************)
(* The rings of the xHCI driver, for every size of the rings and every     *)
(* interleaving with the controller: no wait is ended by an old event, and *)
(* driver and controller agree on who owns what.                           *)
(***************************************************************************)
EXTENDS XhciRings, Integers, TLAPS

(* Types of the rings, of the events and of the call in progress. *)
Posts == 0..RingSize - 1
Whats == {"zero", "link", "setup", "data", "status", "normal", "configure", "disable", "stop",
          "reset", "dequeue"}
Trbs == [cycle : 0..1, what : Whats, old : BOOLEAN]
RingRecs == [trbs : [Posts -> Trbs], next : Posts, cycle : 0..1]
Marks(size) == [at : 0..size - 1, cycle : 0..1]
EventRecs == [cycle : 0..1, name : Names, at : Posts, code : {"ok", "short", "error"},
              old : BOOLEAN]
Calls == [pc : {"idle", "poll", "check"}, name : Names \cup {"none"},
          what : Whats \cup {"none", "transfer", "mouse"}, at : Posts, done : BOOLEAN,
          ok : BOOLEAN, left : Nat, mixed : BOOLEAN]
Devices == [kind : {"none", "control", "bulk", "interrupt"}, active : BOOLEAN,
            pending : BOOLEAN, failed : BOOLEAN]

(* One lap of a ring has the producer's cycle bit up to next, the other one behind it. *)
Shape(r) == /\ r \in RingRecs
            /\ \A i \in Posts : /\ r.trbs[i].cycle = IF i < r.next THEN r.cycle ELSE 1 - r.cycle
                                /\ i # RingSize - 1 => r.trbs[i].what # "link"
(* The consumer is in the same lap, or still in the one before. *)
InLap(r, d) == /\ Shape(r) /\ d \in Marks(RingSize)
               /\ \/ d.cycle = r.cycle /\ d.at <= r.next
                  \/ /\ d.cycle # r.cycle /\ 1 <= r.next /\ r.next <= d.at
                     /\ r.trbs[RingSize - 1].what = "link"
(* How many TRBs are posted and not executed, and where they are. *)
Out(r, d) == IF d.cycle = r.cycle THEN r.next - d.at ELSE RingSize - 1 - d.at + r.next
Outst(r, d) == {i \in 0..RingSize - 2 : IF d.cycle = r.cycle THEN d.at <= i /\ i < r.next
                                                             ELSE d.at <= i \/ i < r.next}

(* The event ring likewise: the controller is at most one lap ahead of the driver. *)
(* EvP are the places of the queued events, Of(n) those of ring n.                 *)
EventsOK == /\ evs \in [0..Events - 1 -> EventRecs] /\ evAt \in Marks(Events)
            /\ evPut \in Marks(Events)
            /\ \A i \in 0..Events - 1 :
                 evs[i].cycle = IF i < evPut.at THEN evPut.cycle ELSE 1 - evPut.cycle
            /\ \/ evAt.cycle = evPut.cycle /\ evAt.at <= evPut.at
               \/ evAt.cycle # evPut.cycle /\ evPut.at <= evAt.at
EvP == {i \in 0..Events - 1 : IF evAt.cycle = evPut.cycle THEN evAt.at <= i /\ i < evPut.at
                                                          ELSE evAt.at <= i \/ i < evPut.at}
LastEv == IF evPut.at = 0 THEN Events - 1 ELSE evPut.at - 1
Of(n) == {i \in EvP : evs[i].name = n}

(* The two rings and where the controller reads them. *)
Cr == ring["commands"]
Cd == deq["commands"]
Er == ring["endpoint"]
Ed == deq["endpoint"]

(* The endpoint ring: in step, how many TRBs the controller has to do, none of *)
(* them of a request that is over, and freshly initialised.                    *)
Synced == InLap(Er, Ed)
Left == Out(Er, Ed)
Fresh == \A i \in Outst(Er, Ed) : ~Er.trbs[i].old
Blank == Shape(Er) /\ Er.next = 0 /\ Er.cycle = 1
Settled == Synced /\ Left = 0
Quiet == ep # "running" \/ Settled

(* The last TRB of the call is the one that interrupts. *)
TailOK == call.at = Er.next - 1 /\ (Left > 0 => Er.trbs[call.at].what \notin {"setup", "data"})

(* The command ring likewise. *)
CSynced == InLap(Cr, Cd)
CLeft == Out(Cr, Cd)
CTailOK == /\ call.at = Cr.next - 1 /\ Cr.trbs[call.at].what = call.what
           /\ ~Cr.trbs[call.at].old

(* What a command that succeeded has done. *)
AfterOk == /\ call.what = "configure" => ep = "running" /\ Settled
           /\ call.what = "disable" => ep = "disabled"
           /\ call.what \in {"stop", "reset"} => ep = "stopped"
           /\ call.what = "dequeue" => ep = "stopped" /\ Settled

(* The command that is waited for: posted, answered, or its answer taken. *)
Posted == /\ ~call.done /\ CLeft = 1 /\ Of("commands") = {} /\ CTailOK
          /\ (call.what = "dequeue" => ep # "running" /\ Blank)
          /\ (call.what = "configure" => ep = "disabled" /\ Blank)
Answered == /\ ~call.done /\ CLeft = 0
            /\ \E i \in EvP : /\ Of("commands") = {i} /\ evs[i].at = call.at /\ ~evs[i].old
                              /\ evs[i].code # "error" => i = LastEv /\ AfterOk
            /\ (call.what = "dequeue" => ep # "running")
DoneCommand == /\ call.done /\ CLeft = 0 /\ Of("commands") = {}
               /\ (call.ok => EvP = {} /\ AfterOk)
               /\ (call.what = "dequeue" => ep # "running")

(* At most one command is outstanding, and it is the one that is waited for. *)
CommandNames == {"configure", "disable", "stop", "reset", "dequeue"}
CommandsOK ==
  /\ CSynced
  /\ IF call.name = "commands"
     THEN call.what \in CommandNames /\ (Posted \/ Answered \/ DoneCommand)
     ELSE CLeft = 0 /\ Of("commands") = {}

(* An event that ends the wait for a transfer. *)
Ends(i) == evs[i].code = "error" \/ evs[i].at = call.at

(* A transfer that is waited for: everything outstanding and everything queued is its *)
(* own; an event that ends the wait is the last one, and the endpoint is then halted  *)
(* or has nothing left to do.                                                         *)
TransferOK ==
  call.name = "endpoint" =>
    /\ dev.kind \in {"control", "bulk"} /\ dev.active /\ ep \in {"running", "halted"}
    /\ Synced /\ Left <= 3 /\ (dev.kind = "bulk" => Left <= 1)
    /\ TailOK /\ Fresh /\ \A i \in EvP : ~evs[i].old
    /\ call.done => EvP = {} /\ (call.ok => Left = 0) /\ (~call.ok => ep = "halted")
    /\ ~call.done =>
         /\ \A i \in EvP : Ends(i) => /\ i = LastEv
                                      /\ evs[i].code = "error" => ep = "halted"
                                      /\ evs[i].code # "error" => Left = 0
         /\ \A i \in EvP : dev.kind = "bulk" => Ends(i)
         /\ Left > 0 \/ \E i \in EvP : Ends(i)

(* A mouse: at most one report, outstanding or queued, exactly while it is pending. *)
MouseOK ==
  dev.kind = "interrupt" =>
    /\ \A i \in Of("endpoint") : /\ ~evs[i].old /\ dev.pending
                                 /\ \A j \in Of("endpoint") : i = j
                                 /\ ep # "disabled" /\ evs[i].code = "error" => ep = "halted"
                                 /\ ep # "disabled" /\ evs[i].code # "error" => Left = 0
    /\ dev.failed => ~dev.pending /\ ep \in {"halted", "disabled"}
    /\ ep # "disabled" => /\ Synced /\ Left <= 1 /\ Fresh
                          /\ ~dev.pending /\ ~dev.failed => Left = 0
    /\ call.name = "none" /\ dev.active => ep # "disabled"
    /\ call.name # "endpoint" /\ call.what \notin {"stop", "reset", "dequeue"}

(* A control or bulk endpoint outside its transfers has nothing to do unless it is *)
(* about to be stopped.                                                            *)
PairOK ==
  dev.kind \in {"control", "bulk"} =>
    /\ call.pc = "idle" /\ dev.active => Settled /\ ep # "disabled"
    /\ call.name # "endpoint" /\ call.what \notin {"stop", "reset"} =>
         Quiet /\ Of("endpoint") = {}
    /\ call.what # "mouse" /\ ~dev.pending
    /\ call.what \in {"stop", "reset"} => Synced /\ ep # "disabled"

(* No device, no endpoint. *)
NoneOK == dev.kind = "none" => ep = "disabled" /\ call.pc = "idle" /\ ~dev.active /\ EvP = {}

(* Which waits go together with which devices. *)
CallOK == /\ call.pc = "idle" => call.name = "none"
          /\ call.pc # "idle" /\ call.name = "none" =>
               dev.kind = "interrupt" /\ dev.active /\ call.what = "mouse"
          /\ call.name = "none" => call.what \in {"none", "mouse"} /\ ~call.done
          /\ call.name = "endpoint" => call.what = "transfer"
          /\ call.what = "configure" => ~dev.pending /\ ~dev.failed /\ ~dev.active

(* A mouse or a hub whose Disable Slot command is not accepted is used on, so *)
(* its endpoint is still as the idle driver needs it.                         *)
Accepted == (call.done /\ call.ok) \/ \E i \in Of("commands") : evs[i].code # "error"
UsedOK == call.what = "disable" /\ dev.active /\ dev.kind # "bulk" /\ ~Accepted =>
            ep # "disabled" /\ (dev.kind = "control" => Settled)

RingsTypeOK == /\ Shape(Er) /\ call \in Calls /\ dev \in Devices
               /\ ep \in {"disabled", "running", "stopped", "halted"}
               /\ DOMAIN ring = Names /\ DOMAIN deq = Names /\ EventsOK

(* All of it, on a host that was not stopped. *)
LiveRings == /\ RingsTypeOK /\ CallOK /\ CommandsOK /\ TransferOK /\ MouseOK /\ PairOK /\ NoneOK
             /\ UsedOK
RingsInv == /\ call.mixed = FALSE
            /\ ~ready => call.pc = "idle"
            /\ ready => LiveRings

-----------------------------------------------------------------------------
(* Where the consumer reads next, past a link. *)
AheadOf(r, d) == IF r.trbs[d.at].what = "link" /\ r.trbs[d.at].cycle = d.cycle
                 THEN [at |-> 0, cycle |-> 1 - d.cycle] ELSE d

(* One TRB written. *)
Written(r, i, t) == [r EXCEPT !.trbs[i] = t]

(* Writing one TRB of a ring. *)
LEMMA WrittenIs ==
  ASSUME NEW r \in RingRecs, NEW i \in Posts, NEW t \in Trbs
  PROVE  /\ Written(r, i, t) \in RingRecs /\ Written(r, i, t).next = r.next
         /\ Written(r, i, t).cycle = r.cycle /\ Written(r, i, t).trbs[i] = t
         /\ \A j \in Posts : j # i => Written(r, i, t).trbs[j] = r.trbs[j]
BY DEF Written, RingRecs

(* A fresh ring. *)
LEMMA RingInitIs == Shape(RingInit) /\ RingInit.next = 0 /\ RingInit.cycle = 1
BY RingsAssumption DEF Shape, RingInit, RingRecs, Posts, Trbs, Whats, NoTrb

(* Type and arithmetic of a ring in step. *)
LEMMA InLapIs ==
  ASSUME NEW r, NEW d, InLap(r, d)
  PROVE  /\ r \in RingRecs /\ r.next \in Posts /\ r.cycle \in 0..1
         /\ d.at \in Posts /\ d.cycle \in 0..1
         /\ \A i \in Posts : r.trbs[i] \in Trbs
         /\ Out(r, d) \in Nat /\ Out(r, d) <= RingSize - 1
<1>1. /\ r \in RingRecs /\ r.next \in Posts /\ r.cycle \in 0..1
      /\ d.at \in Posts /\ d.cycle \in 0..1
      /\ \A i \in Posts : r.trbs[i] \in Trbs
  BY DEF InLap, Shape, RingRecs, Marks, Posts
<1>2. \/ d.cycle = r.cycle /\ d.at <= r.next
      \/ d.cycle # r.cycle /\ 1 <= r.next /\ r.next <= d.at
  BY DEF InLap
<1> QED BY <1>1, <1>2, RingsAssumption DEF Out, Posts

(* The consumer owns a TRB exactly if one is outstanding, and it is the last *)
(* one exactly if it is the only one.                                        *)
LEMMA AheadIs ==
  ASSUME NEW r, NEW d, InLap(r, d)
  PROVE  LET a == AheadOf(r, d)
         IN  /\ a \in Marks(RingSize)
             /\ r.trbs[a.at].cycle = a.cycle <=> Out(r, d) > 0
             /\ Out(r, d) > 0 => /\ a.at \in Outst(r, d) /\ a.at \in Posts /\ a.at # RingSize - 1
                                 /\ a.cycle \in 0..1 /\ (Out(r, d) = 1 <=> a.at = r.next - 1)
<1> DEFINE a == AheadOf(r, d)
           N == RingSize - 1
<1>1. /\ r.next \in 0..N /\ r.cycle \in 0..1 /\ d.at \in 0..N /\ d.cycle \in 0..1 /\ N \in Nat /\ N > 2
      /\ RingSize \in Nat /\ d \in Marks(RingSize)
  BY InLapIs, RingsAssumption DEF Posts, InLap
<1>2. \A i \in 0..N : r.trbs[i].cycle = IF i < r.next THEN r.cycle ELSE 1 - r.cycle
  BY DEF InLap, Shape, Posts
<1>3. \A i \in 0..N : i # N => r.trbs[i].what # "link"
  BY DEF InLap, Shape, Posts
<1>4. CASE d.cycle = r.cycle /\ d.at <= r.next
  <2>1. a = d
    <3>1. d.at = N => r.trbs[d.at].cycle # d.cycle
      BY <1>1, <1>2, <1>4
    <3> QED BY <1>1, <1>3, <3>1 DEF AheadOf
  <2>2. r.trbs[d.at].cycle = d.cycle <=> d.at < r.next
    BY <1>1, <1>2, <1>4
  <2>3. Out(r, d) = r.next - d.at
    BY <1>4 DEF Out
  <2>4. d.at < r.next => d.at \in Outst(r, d)
    BY <1>1, <1>4 DEF Outst
  <2> HIDE DEF a
  <2> QED BY <1>1, <2>1, <2>2, <2>3, <2>4 DEF Posts, a
<1>5. CASE d.cycle # r.cycle /\ 1 <= r.next /\ r.next <= d.at /\ r.trbs[N].what = "link"
  <2>1. Out(r, d) = N - d.at + r.next /\ d.cycle = 1 - r.cycle
    BY <1>1, <1>5 DEF Out
  <2>2. r.trbs[d.at].cycle = d.cycle
    BY <1>1, <1>2, <1>5, <2>1
  <2>3. CASE d.at = N
    <3>1. a = [at |-> 0, cycle |-> r.cycle]
      BY <1>1, <1>5, <2>1, <2>2, <2>3 DEF AheadOf
    <3>2. r.trbs[0].cycle = r.cycle /\ 0 \in Outst(r, d)
      BY <1>1, <1>2, <1>5 DEF Outst
    <3>3. a \in Marks(RingSize) /\ a.at = 0 /\ a.cycle = r.cycle
      BY <1>1, <3>1 DEF Marks
    <3> HIDE DEF a
    <3> QED BY <1>1, <1>5, <2>1, <2>3, <3>2, <3>3 DEF Posts, a
  <2>4. CASE d.at # N
    <3>1. a = d
      BY <1>1, <1>3, <2>4 DEF AheadOf
    <3>2. d.at \in Outst(r, d)
      BY <1>1, <1>5, <2>4 DEF Outst
    <3> HIDE DEF a
    <3> QED BY <1>1, <1>5, <2>1, <2>2, <2>4, <3>1, <3>2 DEF Posts, a
  <2> QED BY <2>3, <2>4
<1> QED BY <1>4, <1>5 DEF InLap

(* Executing a TRB moves the consumer past it and nothing else. *)
LEMMA AdvanceIs ==
  ASSUME NEW r, NEW d, InLap(r, d), Out(r, d) > 0
  PROVE  LET a == AheadOf(r, d)
             r2 == Written(r, a.at, [NoTrb EXCEPT !.cycle = a.cycle])
             d2 == [at |-> a.at + 1, cycle |-> a.cycle]
         IN  /\ InLap(r2, d2) /\ Out(r2, d2) = Out(r, d) - 1 /\ r2.next = r.next
             /\ \A i \in Outst(r2, d2) : i \in Outst(r, d) /\ r2.trbs[i] = r.trbs[i]
             /\ \A i \in Posts : i # a.at => r2.trbs[i] = r.trbs[i]
<1> DEFINE a == AheadOf(r, d)
           t == [NoTrb EXCEPT !.cycle = a.cycle]
           r2 == Written(r, a.at, t)
           d2 == [at |-> a.at + 1, cycle |-> a.cycle]
           N == RingSize - 1
<1>1. /\ r \in RingRecs /\ r.next \in 0..N /\ r.cycle \in 0..1 /\ d.at \in 0..N /\ d.cycle \in 0..1
      /\ N \in Nat /\ N > 2 /\ 0..N = Posts /\ RingSize \in Nat
  BY InLapIs, RingsAssumption DEF Posts
<1>2. /\ r.trbs[a.at].cycle = a.cycle /\ a.at \in Posts /\ a.at # N /\ a.cycle \in 0..1
      /\ a.at \in Outst(r, d)
  BY AheadIs
<1>3. t \in Trbs /\ t.cycle = a.cycle /\ t.what = "zero"
  BY <1>2 DEF Trbs, NoTrb, Whats
<1>4. a = IF d.at = N /\ d.cycle # r.cycle THEN [at |-> 0, cycle |-> r.cycle] ELSE d
  <2>1. \A i \in 0..N : r.trbs[i].cycle = IF i < r.next THEN r.cycle ELSE 1 - r.cycle
    BY DEF InLap, Shape, Posts
  <2>2. \A i \in 0..N : i # N => r.trbs[i].what # "link"
    BY DEF InLap, Shape, Posts
  <2>3. d.cycle # r.cycle => r.trbs[N].what = "link"
    BY DEF InLap
  <2> QED BY <1>1, <2>1, <2>2, <2>3 DEF AheadOf
<1>5. \/ d.cycle = r.cycle /\ d.at <= r.next
      \/ d.cycle # r.cycle /\ 1 <= r.next /\ r.next <= d.at /\ r.trbs[N].what = "link"
  BY DEF InLap
<1>6. a.cycle = r.cycle => a.at < r.next
  <2>1. \A i \in 0..N : r.trbs[i].cycle = IF i < r.next THEN r.cycle ELSE 1 - r.cycle
    BY DEF InLap, Shape, Posts
  <2> QED BY <1>1, <1>2, <2>1
<1> HIDE DEF t
<1>7. /\ r2 \in RingRecs /\ r2.next = r.next /\ r2.cycle = r.cycle /\ r2.trbs[a.at] = t
      /\ \A j \in Posts : j # a.at => r2.trbs[j] = r.trbs[j]
  BY <1>1, <1>2, <1>3, WrittenIs
<1> HIDE DEF r2
<1>8. Shape(r2)
  <2> SUFFICES ASSUME NEW i \in Posts
               PROVE  /\ r2.trbs[i].cycle = IF i < r2.next THEN r2.cycle ELSE 1 - r2.cycle
                      /\ i # RingSize - 1 => r2.trbs[i].what # "link"
    BY <1>7 DEF Shape
  <2>1. /\ r.trbs[i].cycle = IF i < r.next THEN r.cycle ELSE 1 - r.cycle
        /\ i # RingSize - 1 => r.trbs[i].what # "link"
    BY DEF InLap, Shape
  <2>2. CASE i = a.at
    BY <1>2, <1>3, <1>7, <2>1, <2>2
  <2>3. CASE i # a.at
    BY <1>7, <2>1, <2>3
  <2> QED BY <2>2, <2>3
<1>9. d2.at = a.at + 1 /\ d2.cycle = a.cycle /\ d2 \in Marks(RingSize)
  BY <1>1, <1>2 DEF Marks, Posts
<1> HIDE DEF d2
<1>10. CASE d.cycle = r.cycle
  <2>1. a.at = d.at /\ a.cycle = d.cycle
    BY <1>4, <1>10
  <2>2. d2.cycle = r2.cycle /\ d2.at <= r2.next
    BY <1>1, <1>6, <1>7, <1>9, <1>10, <2>1
  <2>3. InLap(r2, d2)
    BY <1>8, <1>9, <2>2 DEF InLap
  <2>4. Out(r2, d2) = Out(r, d) - 1
    BY <1>1, <1>7, <1>9, <1>10, <2>1, <2>2 DEF Out
  <2>5. \A i \in Outst(r2, d2) : i \in Outst(r, d) /\ i # a.at
    BY <1>1, <1>7, <1>9, <1>10, <2>1, <2>2 DEF Outst
  <2>6. \A i \in Outst(r2, d2) : i \in Posts
    BY <1>1 DEF Outst, Posts
  <2> QED BY <1>7, <2>3, <2>4, <2>5, <2>6 DEF r2, d2, t
<1>11. CASE d.cycle # r.cycle /\ d.at = N
  <2>1. a.at = 0 /\ a.cycle = r.cycle
    BY <1>4, <1>11
  <2>2. d2.cycle = r2.cycle /\ d2.at <= r2.next
    BY <1>1, <1>5, <1>7, <1>9, <1>11, <2>1
  <2>3. InLap(r2, d2)
    BY <1>8, <1>9, <2>2 DEF InLap
  <2>4. Out(r2, d2) = Out(r, d) - 1
    BY <1>1, <1>7, <1>9, <1>11, <2>1, <2>2 DEF Out
  <2>5. \A i \in Outst(r2, d2) : i \in Outst(r, d) /\ i # a.at
    BY <1>1, <1>7, <1>9, <1>11, <2>1, <2>2 DEF Outst
  <2>6. \A i \in Outst(r2, d2) : i \in Posts
    BY <1>1 DEF Outst, Posts
  <2> QED BY <1>7, <2>3, <2>4, <2>5, <2>6 DEF r2, d2, t
<1>12. CASE d.cycle # r.cycle /\ d.at # N
  <2>1. a.at = d.at /\ a.cycle = d.cycle
    BY <1>4, <1>12
  <2>2. d2.cycle # r2.cycle /\ 1 <= r2.next /\ r2.next <= d2.at /\ r2.trbs[N].what = "link"
    BY <1>1, <1>2, <1>5, <1>7, <1>9, <1>12, <2>1
  <2>3. InLap(r2, d2)
    BY <1>8, <1>9, <2>2 DEF InLap
  <2>4. Out(r2, d2) = Out(r, d) - 1
    BY <1>1, <1>7, <1>9, <1>12, <2>1, <2>2 DEF Out
  <2>5. \A i \in Outst(r2, d2) : i \in Outst(r, d) /\ i # a.at
    BY <1>1, <1>5, <1>7, <1>9, <1>12, <2>1, <2>2 DEF Outst
  <2>6. \A i \in Outst(r2, d2) : i \in Posts
    BY <1>1 DEF Outst, Posts
  <2> QED BY <1>7, <2>3, <2>4, <2>5, <2>6 DEF r2, d2, t
<1> QED BY <1>10, <1>11, <1>12

(* At the last TRB the producer writes a link and starts the next lap. *)
LEMMA LinkedIs ==
  ASSUME NEW r, NEW d, InLap(r, d), Out(r, d) < RingSize - 1
  PROVE  LET l == Linked(r)
         IN  /\ Shape(l) /\ l.next # RingSize - 1
             /\ Out(l, d) = Out(r, d) /\ Outst(l, d) = Outst(r, d)
             /\ \A i \in Posts : i # RingSize - 1 => l.trbs[i] = r.trbs[i]
             /\ \/ d.cycle = l.cycle /\ d.at <= l.next
                \/ d.cycle # l.cycle /\ l.next < d.at /\ l.trbs[RingSize - 1].what = "link"
<1> DEFINE N == RingSize - 1
           l == Linked(r)
<1>1. /\ r \in RingRecs /\ r.next \in 0..N /\ r.cycle \in 0..1 /\ d.at \in 0..N /\ d.cycle \in 0..1
      /\ N \in Nat /\ N > 2 /\ 0..N = Posts /\ RingSize \in Nat
  BY InLapIs, RingsAssumption DEF Posts
<1>2. \/ d.cycle = r.cycle /\ d.at <= r.next
      \/ d.cycle # r.cycle /\ 1 <= r.next /\ r.next <= d.at /\ r.trbs[N].what = "link"
  BY DEF InLap
<1>3. /\ \A i \in Posts : r.trbs[i].cycle = IF i < r.next THEN r.cycle ELSE 1 - r.cycle
      /\ \A i \in Posts : i # N => r.trbs[i].what # "link"
  BY DEF InLap, Shape
<1>4. CASE r.next = N
  <2> DEFINE t == [cycle |-> r.cycle, what |-> "link", old |-> FALSE]
             w == Written(r, N, t)
  <2>1. t \in Trbs /\ t.cycle = r.cycle /\ t.what = "link"
    BY <1>1 DEF Trbs, Whats
  <2>2. l = [w EXCEPT !.next = 0, !.cycle = 1 - r.cycle]
    BY <1>1, <1>4 DEF Linked, Written, RingRecs
  <2> HIDE DEF t
  <2>3. /\ w \in RingRecs /\ w.next = r.next /\ w.cycle = r.cycle /\ w.trbs[N] = t
        /\ \A j \in Posts : j # N => w.trbs[j] = r.trbs[j]
    <3>1. N \in Posts
      BY <1>1
    <3> QED BY <1>1, <2>1, <3>1, WrittenIs
  <2> HIDE DEF w
  <2>4. l \in RingRecs /\ l.next = 0 /\ l.cycle = 1 - r.cycle /\ l.trbs = w.trbs
    <3>1. 0 \in Posts /\ 1 - r.cycle \in 0..1
      BY <1>1
    <3> QED BY <2>2, <2>3, <3>1 DEF RingRecs
  <2> HIDE DEF l
  <2>5. ASSUME NEW i \in Posts PROVE l.trbs[i].cycle = r.cycle /\ (i # N => l.trbs[i] = r.trbs[i])
    <3>1. CASE i = N
      BY <2>1, <2>3, <2>4, <3>1
    <3>2. CASE i # N
      BY <1>1, <1>3, <1>4, <2>3, <2>4, <3>2
    <3> QED BY <3>1, <3>2
  <2>6. Shape(l)
    <3>1. \A i \in Posts : /\ l.trbs[i].cycle = IF i < l.next THEN l.cycle ELSE 1 - l.cycle
                           /\ i # N => l.trbs[i].what # "link"
      BY <1>1, <1>3, <2>4, <2>5
    <3> QED BY <2>4, <3>1 DEF Shape
  <2>7. d.cycle = r.cycle
    <3> SUFFICES ASSUME d.cycle # r.cycle PROVE FALSE
      OBVIOUS
    <3>1. d.at = N /\ Out(r, d) = N - d.at + r.next
      BY <1>1, <1>2, <1>4 DEF Out
    <3> QED BY <1>1, <1>4, <3>1
  <2>8. d.cycle # l.cycle /\ d.at # 0
    <3>1. Out(r, d) = N - d.at
      BY <1>4, <2>7 DEF Out
    <3> QED BY <1>1, <2>4, <2>7, <3>1
  <2>9. Out(l, d) = Out(r, d) /\ Outst(l, d) = Outst(r, d)
    BY <1>1, <1>4, <2>4, <2>7, <2>8 DEF Out, Outst
  <2>10. l.next < d.at /\ l.trbs[N].what = "link" /\ l.next # N
    BY <1>1, <2>1, <2>3, <2>4, <2>8
  <2> QED BY <2>5, <2>6, <2>8, <2>9, <2>10 DEF l
<1>5. CASE r.next # N
  <2>1. l = r
    BY <1>5 DEF Linked
  <2>2. d.cycle # r.cycle => r.next < d.at
    BY <1>1, <1>2 DEF Out
  <2> HIDE DEF l
  <2>3. Shape(l)
    BY <2>1 DEF InLap
  <2> QED BY <1>2, <1>5, <2>1, <2>2, <2>3 DEF l
<1> QED BY <1>4, <1>5

(* enqueue(): one more is outstanding, at the end. *)
LEMMA EnqueueIs ==
  ASSUME NEW r, NEW d, InLap(r, d), Out(r, d) < RingSize - 1, NEW what \in Whats \ {"link"}
  PROVE  LET q == Enqueue(r, what)
         IN  /\ InLap(q, d) /\ Out(q, d) = Out(r, d) + 1 /\ q.next - 1 \in Posts
             /\ q.trbs[q.next - 1].what = what /\ ~q.trbs[q.next - 1].old
             /\ \A i \in Outst(q, d) : \/ i = q.next - 1
                                       \/ i \in Outst(r, d) /\ q.trbs[i] = r.trbs[i]
<1> DEFINE N == RingSize - 1
           l == Linked(r)
           q == Enqueue(r, what)
           k == l.next
           t == [cycle |-> l.cycle, what |-> what, old |-> FALSE]
           w == Written(l, k, t)
<1>1. /\ d.at \in 0..N /\ d.cycle \in 0..1 /\ N \in Nat /\ N > 2 /\ 0..N = Posts /\ RingSize \in Nat
      /\ d \in Marks(RingSize)
  BY InLapIs, RingsAssumption DEF Posts, InLap
<1>2. /\ Shape(l) /\ k # N /\ Out(l, d) = Out(r, d) /\ Outst(l, d) = Outst(r, d)
      /\ \A i \in Posts : i # N => l.trbs[i] = r.trbs[i]
      /\ \/ d.cycle = l.cycle /\ d.at <= k
         \/ d.cycle # l.cycle /\ k < d.at /\ l.trbs[N].what = "link"
  BY LinkedIs
<1>3. q = [w EXCEPT !.next = k + 1]
  BY <1>2 DEF Enqueue, Put, Written, Shape, RingRecs
<1> HIDE DEF l
<1>4. l \in RingRecs /\ k \in 0..N - 1 /\ l.cycle \in 0..1 /\ k \in Posts
  BY <1>1, <1>2 DEF Shape, RingRecs
<1>5. t \in Trbs /\ t.cycle = l.cycle /\ t.what = what /\ t.old = FALSE
  BY <1>4 DEF Trbs
<1> HIDE DEF t
<1>6. /\ w \in RingRecs /\ w.next = k /\ w.cycle = l.cycle /\ w.trbs[k] = t
      /\ \A j \in Posts : j # k => w.trbs[j] = l.trbs[j]
  BY <1>4, <1>5, WrittenIs
<1> HIDE DEF w
<1>7. q \in RingRecs /\ q.next = k + 1 /\ q.cycle = l.cycle /\ q.trbs = w.trbs
  BY <1>1, <1>3, <1>4, <1>6 DEF RingRecs
<1> HIDE DEF q, k
<1>8. Shape(q)
  <2> SUFFICES ASSUME NEW i \in Posts
               PROVE  /\ q.trbs[i].cycle = IF i < q.next THEN q.cycle ELSE 1 - q.cycle
                      /\ i # RingSize - 1 => q.trbs[i].what # "link"
    BY <1>7 DEF Shape
  <2>1. /\ l.trbs[i].cycle = IF i < k THEN l.cycle ELSE 1 - l.cycle
        /\ i # RingSize - 1 => l.trbs[i].what # "link"
    BY <1>2 DEF Shape, k
  <2>2. CASE i = k
    BY <1>4, <1>5, <1>6, <1>7, <2>2
  <2>3. CASE i # k
    BY <1>1, <1>4, <1>6, <1>7, <2>1, <2>3
  <2> QED BY <2>2, <2>3
<1>9. \/ d.cycle = q.cycle /\ d.at <= q.next
      \/ d.cycle # q.cycle /\ 1 <= q.next /\ q.next <= d.at /\ q.trbs[N].what = "link"
  BY <1>1, <1>2, <1>4, <1>6, <1>7
<1>10. InLap(q, d)
  BY <1>1, <1>8, <1>9 DEF InLap
<1>11. Out(q, d) = Out(l, d) + 1
  BY <1>1, <1>4, <1>7 DEF Out, k
<1>12. q.next - 1 = k
  BY <1>4, <1>7
<1>13. ASSUME NEW i \in Outst(q, d), i # k PROVE i \in Outst(l, d) /\ q.trbs[i] = r.trbs[i]
  <2>1. i \in 0..RingSize - 2 /\ i \in Posts /\ i # N
    BY <1>1 DEF Outst
  <2>2. i \in Outst(l, d)
    BY <1>1, <1>4, <1>7, <1>13, <2>1 DEF Outst, k
  <2> QED BY <1>2, <1>6, <1>7, <1>13, <2>1, <2>2
<1> QED BY <1>2, <1>4, <1>5, <1>6, <1>7, <1>10, <1>11, <1>12, <1>13 DEF q

(* Marking what is over changes no ownership. *)
LEMMA AgedIs ==
  ASSUME NEW r, Shape(r)
  PROVE  /\ Shape(Aged(r)) /\ Aged(r).next = r.next /\ Aged(r).cycle = r.cycle
         /\ \A i \in Posts : Aged(r).trbs[i].what = r.trbs[i].what
         /\ \A d : /\ InLap(r, d) => InLap(Aged(r), d)
                   /\ Out(Aged(r), d) = Out(r, d) /\ Outst(Aged(r), d) = Outst(r, d)
<1> DEFINE f == [i \in DOMAIN r.trbs |-> [r.trbs[i] EXCEPT !.old = TRUE]]
           q == Aged(r)
<1>1. r \in RingRecs /\ DOMAIN r.trbs = Posts /\ \A i \in Posts : r.trbs[i] \in Trbs
  BY DEF Shape, RingRecs
<1>2. f \in [Posts -> Trbs] /\ \A i \in Posts : f[i].what = r.trbs[i].what /\ f[i].cycle = r.trbs[i].cycle
  BY <1>1 DEF Trbs
<1>3. q = [r EXCEPT !.trbs = f]
  BY DEF Aged
<1> HIDE DEF f
<1>4. q \in RingRecs /\ q.next = r.next /\ q.cycle = r.cycle /\ q.trbs = f
  BY <1>1, <1>2, <1>3 DEF RingRecs
<1> HIDE DEF q
<1>5. Shape(q)
  BY <1>2, <1>4 DEF Shape
<1>6. RingSize - 1 \in Posts
  BY RingsAssumption DEF Posts
<1>7. ASSUME NEW d, InLap(r, d) PROVE InLap(q, d)
  BY <1>2, <1>4, <1>5, <1>6, <1>7 DEF InLap
<1>8. \A d : Out(q, d) = Out(r, d) /\ Outst(q, d) = Outst(r, d)
  BY <1>4 DEF Out, Outst
<1> QED BY <1>2, <1>4, <1>5, <1>7, <1>8 DEF q

-----------------------------------------------------------------------------
(* The event ring. *)

(* The controller posts behind what is queued. *)
LEMMA PostIs ==
  ASSUME EventsOK, Room, NEW e \in EventRecs, e.cycle = evPut.cycle,
         evs' = [evs EXCEPT ![evPut.at] = e], evPut' = Step(evPut, Events), evAt' = evAt
  PROVE  /\ EventsOK' /\ EvP' = EvP \cup {evPut.at} /\ evPut.at \notin EvP /\ LastEv' = evPut.at
         /\ evs'[evPut.at] = e /\ evPut.at \in 0..Events - 1
         /\ \A i \in EvP : evs'[i] = evs[i] /\ i \in 0..Events - 1
<1> DEFINE p == evPut.at
           c == evPut.cycle
           E == Events - 1
<1>1. /\ p \in 0..E /\ c \in 0..1 /\ evAt.at \in 0..E /\ evAt.cycle \in 0..1 /\ E \in Nat
      /\ Events \in Nat /\ evPut \in Marks(Events)
  BY RingsAssumption DEF EventsOK, Marks
<1>2. /\ evs' \in [0..E -> EventRecs] /\ evs'[p] = e
      /\ \A i \in 0..E : i # p => evs'[i] = evs[i]
  BY <1>1 DEF EventsOK
<1>3. \A i \in 0..E : evs[i].cycle = IF i < p THEN c ELSE 1 - c
  BY DEF EventsOK
<1>4. \/ evAt.cycle = c /\ evAt.at <= p
      \/ evAt.cycle # c /\ p < evAt.at
  BY <1>1 DEF EventsOK, Room
<1>5. p \notin EvP
  BY <1>1, <1>4 DEF EvP
<1>6. \A i \in EvP : evs'[i] = evs[i] /\ i \in 0..E
  BY <1>2, <1>5 DEF EvP
<1>7. CASE p = E
  <2>1. evPut' = [at |-> 0, cycle |-> 1 - c]
    BY <1>7 DEF Step
  <2>2. evPut'.at = 0 /\ evPut'.cycle = 1 - c /\ evPut' \in Marks(Events)
    BY <1>1, <2>1 DEF Marks
  <2>3. evAt.cycle = c /\ evAt.cycle # evPut'.cycle
    BY <1>1, <1>4, <1>7, <2>2
  <2>4. \A i \in 0..E : evs'[i].cycle = c
    BY <1>1, <1>2, <1>3, <1>7
  <2>5. EventsOK'
    BY <1>1, <1>2, <2>2, <2>3, <2>4 DEF EventsOK
  <2>6. EvP' = EvP \cup {p}
    BY <1>1, <1>4, <1>7, <2>2, <2>3 DEF EvP
  <2>7. LastEv' = p
    BY <1>7, <2>2 DEF LastEv
  <2> QED BY <1>1, <1>2, <1>5, <1>6, <2>5, <2>6, <2>7
<1>8. CASE p # E
  <2>1. evPut' = [evPut EXCEPT !.at = @ + 1]
    BY <1>8 DEF Step
  <2>2. evPut'.at = p + 1 /\ evPut'.cycle = c /\ evPut' \in Marks(Events)
    BY <1>1, <1>8, <2>1 DEF Marks
  <2>3. \A i \in 0..E : evs'[i].cycle = IF i < p + 1 THEN c ELSE 1 - c
    <3> TAKE i \in 0..E
    <3>1. CASE i = p
      BY <1>1, <1>2, <3>1
    <3>2. CASE i # p
      BY <1>1, <1>2, <1>3, <3>2
    <3> QED BY <3>1, <3>2
  <2>4. \/ evAt.cycle = evPut'.cycle /\ evAt.at <= evPut'.at
        \/ evAt.cycle # evPut'.cycle /\ evPut'.at <= evAt.at
    BY <1>1, <1>4, <2>2
  <2>5. EventsOK'
    BY <1>2, <2>2, <2>3, <2>4 DEF EventsOK
  <2>6. EvP' = EvP \cup {p}
    BY <1>1, <1>4, <2>2 DEF EvP
  <2>7. LastEv' = p
    BY <1>1, <2>2 DEF LastEv
  <2> QED BY <1>1, <1>2, <1>5, <1>6, <2>5, <2>6, <2>7
<1> QED BY <1>7, <1>8

(* The driver sees an event exactly if one is queued, and takes the oldest. *)
LEMMA VisibleIs ==
  ASSUME EventsOK
  PROVE  /\ evAt.at \in 0..Events - 1
         /\ Visible <=> EvP # {}
         /\ Visible => evAt.at \in EvP /\ (evAt.at = LastEv => EvP = {evAt.at})
<1> DEFINE p == evPut.at
           c == evPut.cycle
           E == Events - 1
           a == evAt.at
<1>1. /\ p \in 0..E /\ c \in 0..1 /\ a \in 0..E /\ evAt.cycle \in 0..1 /\ E \in Nat
      /\ Events \in Nat
  BY RingsAssumption DEF EventsOK, Marks
<1>2. evs[a].cycle = IF a < p THEN c ELSE 1 - c
  BY <1>1 DEF EventsOK
<1>3. \/ evAt.cycle = c /\ a <= p
      \/ evAt.cycle # c /\ p <= a
  BY DEF EventsOK
<1>4. Visible <=> (evAt.cycle = c => a < p)
  BY <1>1, <1>2, <1>3 DEF Visible
<1>5. Visible => a \in EvP
  BY <1>1, <1>3, <1>4 DEF EvP
<1>6. ~Visible => EvP = {}
  BY <1>1, <1>3, <1>4 DEF EvP
<1>7. Visible /\ a = LastEv => EvP = {a}
  BY <1>1, <1>3, <1>4 DEF EvP, LastEv
<1> QED BY <1>1, <1>5, <1>6, <1>7

(* events() takes that one and leaves the others. *)
LEMMA ConsumeIs ==
  ASSUME EventsOK, Visible,
         evs' = [evs EXCEPT ![evAt.at] = [NoEvent EXCEPT !.cycle = evs[evAt.at].cycle]],
         evAt' = Step(evAt, Events), evPut' = evPut
  PROVE  /\ EventsOK' /\ EvP' = EvP \ {evAt.at} /\ LastEv' = LastEv
         /\ \A i \in EvP' : evs'[i] = evs[i]
<1> DEFINE p == evPut.at
           c == evPut.cycle
           E == Events - 1
           a == evAt.at
           e == [NoEvent EXCEPT !.cycle = evs[a].cycle]
<1>1. /\ p \in 0..E /\ c \in 0..1 /\ a \in 0..E /\ evAt.cycle \in 0..1 /\ E \in Nat
      /\ Events \in Nat /\ evs[a] \in EventRecs /\ evAt \in Marks(Events)
  BY RingsAssumption DEF EventsOK, Marks
<1>2. e \in EventRecs /\ e.cycle = evs[a].cycle
  <2>1. evs[a].cycle \in 0..1 /\ 0 \in Posts
    BY <1>1, RingsAssumption DEF EventRecs, Posts
  <2> QED BY <2>1 DEF EventRecs, NoEvent, Names
<1> HIDE DEF e
<1>3. /\ evs' \in [0..E -> EventRecs] /\ evs'[a] = e
      /\ \A i \in 0..E : i # a => evs'[i] = evs[i]
  BY <1>1, <1>2 DEF EventsOK, e
<1>4. \A i \in 0..E : evs'[i].cycle = IF i < p THEN c ELSE 1 - c
  BY <1>1, <1>2, <1>3 DEF EventsOK
<1>5. \/ evAt.cycle = c /\ a < p
      \/ evAt.cycle # c /\ p <= a
  <2>1. evs[a].cycle = IF a < p THEN c ELSE 1 - c
    BY <1>1 DEF EventsOK
  <2> QED BY <1>1, <2>1 DEF EventsOK, Visible
<1>6. LastEv' = LastEv
  BY DEF LastEv
<1>7. CASE a = E
  <2>1. evAt' = [at |-> 0, cycle |-> 1 - evAt.cycle]
    BY <1>7 DEF Step
  <2>2. evAt'.at = 0 /\ evAt'.cycle = 1 - evAt.cycle /\ evAt' \in Marks(Events)
    BY <1>1, <2>1 DEF Marks
  <2>3. evAt.cycle # c /\ evAt'.cycle = c
    BY <1>1, <1>5, <1>7, <2>2
  <2>4. EventsOK'
    BY <1>1, <1>3, <1>4, <2>2, <2>3 DEF EventsOK
  <2>5. EvP' = EvP \ {a}
    BY <1>1, <1>5, <1>7, <2>2, <2>3 DEF EvP
  <2>6. \A i \in EvP' : evs'[i] = evs[i]
    BY <1>3, <2>5 DEF EvP
  <2> QED BY <1>6, <2>4, <2>5, <2>6
<1>8. CASE a # E
  <2>1. evAt' = [evAt EXCEPT !.at = @ + 1]
    BY <1>8 DEF Step
  <2>2. evAt'.at = a + 1 /\ evAt'.cycle = evAt.cycle /\ evAt' \in Marks(Events)
    BY <1>1, <1>8, <2>1 DEF Marks
  <2>3. \/ evAt'.cycle = c /\ evAt'.at <= p
        \/ evAt'.cycle # c /\ p <= evAt'.at
    BY <1>1, <1>5, <2>2
  <2>4. EventsOK'
    BY <1>3, <1>4, <2>2, <2>3 DEF EventsOK
  <2>5. EvP' = EvP \ {a}
    BY <1>1, <1>5, <2>2 DEF EvP
  <2>6. \A i \in EvP' : evs'[i] = evs[i]
    BY <1>3, <2>5 DEF EvP
  <2> QED BY <1>6, <2>4, <2>5, <2>6
<1> QED BY <1>7, <1>8

-----------------------------------------------------------------------------
(* Events that differ at most in the history mark of those of the rings ns. *)
Kept(es, ns) ==
  /\ es \in [0..Events - 1 -> EventRecs]
  /\ \A i \in 0..Events - 1 : /\ es[i].cycle = evs[i].cycle /\ es[i].name = evs[i].name
                              /\ es[i].at = evs[i].at /\ es[i].code = evs[i].code
                              /\ evs[i].name \notin ns => es[i].old = evs[i].old
(* The same with those of ring n marked. *)
Older(es, n) == [i \in DOMAIN es |-> IF es[i].name = n THEN [es[i] EXCEPT !.old = TRUE]
                                     ELSE es[i]]

(* Marking the events of one more ring. *)
LEMMA OlderKept ==
  ASSUME NEW es, NEW ns, NEW n, Kept(es, ns)
  PROVE  Kept(Older(es, n), ns \cup {n})
<1> DEFINE os == Older(es, n)
<1>1. DOMAIN es = 0..Events - 1 /\ \A i \in 0..Events - 1 : es[i] \in EventRecs
  BY DEF Kept
<1>2. os = [i \in 0..Events - 1 |-> os[i]]
  BY <1>1 DEF Older
<1>3. ASSUME NEW i \in 0..Events - 1
      PROVE  /\ os[i] \in EventRecs /\ os[i].cycle = es[i].cycle /\ os[i].name = es[i].name
             /\ os[i].at = es[i].at /\ os[i].code = es[i].code
             /\ es[i].name # n => os[i].old = es[i].old
  BY <1>1 DEF Older, EventRecs
<1> HIDE DEF os
<1>4. os \in [0..Events - 1 -> EventRecs]
  BY <1>2, <1>3
<1>5. \A i \in 0..Events - 1 : /\ os[i].cycle = evs[i].cycle /\ os[i].name = evs[i].name
                               /\ os[i].at = evs[i].at /\ os[i].code = evs[i].code
                               /\ evs[i].name \notin ns \cup {n} => os[i].old = evs[i].old
  BY <1>3 DEF Kept
<1> QED BY <1>4, <1>5 DEF Kept, os

(* The events as they are. *)
LEMMA SameKept == ASSUME EventsOK PROVE Kept(evs, {})
BY DEF Kept, EventsOK

(* What the return of a call does to the events of its ring. *)
LEMMA AgedKept == ASSUME EventsOK, NEW n PROVE Kept(AgedEvents(n), {n})
<1>1. Kept(Older(evs, n), {} \cup {n})
  BY SameKept, OlderKept
<1>2. Older(evs, n) = AgedEvents(n) /\ {} \cup {n} = {n}
  BY DEF Older, AgedEvents
<1> QED BY <1>1, <1>2

(* Marking events moves neither end of their ring. *)
LEMMA EventsKept ==
  ASSUME EventsOK, NEW ns, Kept(evs', ns), evAt' = evAt, evPut' = evPut
  PROVE  /\ EventsOK' /\ EvP' = EvP /\ LastEv' = LastEv
         /\ \A n : Of(n)' = Of(n)
         /\ \A i \in EvP : /\ evs'[i].name = evs[i].name /\ evs'[i].at = evs[i].at
                           /\ evs'[i].code = evs[i].code
                           /\ evs[i].name \notin ns => evs'[i].old = evs[i].old
<1>1. EventsOK'
  BY DEF EventsOK, Kept
<1>2. EvP' = EvP /\ LastEv' = LastEv
  BY DEF EvP, LastEv
<1>3. \A i \in EvP : i \in 0..Events - 1
  BY DEF EvP
<1>4. \A i \in EvP : /\ evs'[i].name = evs[i].name /\ evs'[i].at = evs[i].at
                     /\ evs'[i].code = evs[i].code
                     /\ evs[i].name \notin ns => evs'[i].old = evs[i].old
  BY <1>3 DEF Kept
<1>5. ASSUME NEW n PROVE Of(n)' = Of(n)
  BY <1>2, <1>4 DEF Of
<1> QED BY <1>1, <1>2, <1>4, <1>5

(* A queued event is of one of the two rings. *)
LEMMA QueuedIs ==
  ASSUME EventsOK
  PROVE  /\ EvP = Of("commands") \cup Of("endpoint")
         /\ \A i \in EvP : evs[i] \in EventRecs /\ i \in 0..Events - 1
<1>1. \A i \in EvP : evs[i] \in EventRecs /\ i \in 0..Events - 1
  BY DEF EvP, EventsOK
<1>2. \A i \in EvP : evs[i].name \in {"commands", "endpoint"}
  BY <1>1 DEF EventRecs, Names
<1> QED BY <1>1, <1>2 DEF Of

(* The endpoint ring and its consumer are left alone, or only marked. *)
LEMMA EndpointKept ==
  ASSUME Shape(Er), Er' = Er \/ Er' = Aged(Er), Ed' = Ed
  PROVE  /\ Shape(Er') /\ Left' = Left /\ (Synced => Synced') /\ (Settled => Settled')
         /\ (Er' = Er /\ Fresh => Fresh') /\ (Blank => Blank')
<1>1. CASE Er' = Er
  <2>1. Shape(Er') /\ Left' = Left /\ (Synced => Synced') /\ (Fresh => Fresh') /\ (Blank => Blank')
    BY <1>1 DEF Left, Synced, Fresh, Blank
  <2> QED BY <2>1 DEF Settled
<1>2. CASE Er' = Aged(Er) /\ Er' # Er
  <2>1. Shape(Er') /\ Left' = Left /\ (Synced => Synced') /\ (Blank => Blank')
    BY <1>2, AgedIs DEF Left, Synced, Blank
  <2> QED BY <1>2, <2>1 DEF Settled
<1> QED BY <1>1, <1>2

(* The same of the command ring. *)
LEMMA CommandRingKept ==
  ASSUME CSynced, Cr' = Cr \/ Cr' = Aged(Cr), Cd' = Cd
  PROVE  CSynced' /\ CLeft' = CLeft
<1>1. Shape(Cr)
  BY DEF CSynced, InLap
<1> QED BY <1>1, AgedIs DEF CSynced, CLeft

(* command() on a settled command ring: the command is posted. *)
LEMMA CommandIs ==
  ASSUME RingsTypeOK, CSynced, CLeft = 0, Of("commands") = {}, call.mixed = FALSE,
         NEW what \in CommandNames, NEW endpoint, Shape(endpoint),
         NEW events, NEW ns, Kept(events, ns),
         Command(what, endpoint, events), UNCHANGED Hardware, ep' = ep,
         what = "dequeue" => ep # "running" /\ endpoint = RingInit,
         what = "configure" => ep = "disabled" /\ endpoint = RingInit
  PROVE  /\ CommandsOK' /\ call' \in Calls /\ call'.mixed = FALSE /\ call'.name = "commands"
         /\ call'.what = what /\ call'.pc = "poll" /\ ~call'.done
         /\ Er' = endpoint /\ Ed' = Ed /\ Shape(Er)' /\ DOMAIN ring' = Names /\ DOMAIN deq' = Names
         /\ Kept(evs', ns \cup {"commands"}) /\ EventsOK' /\ evAt' = evAt /\ evPut' = evPut
<1> DEFINE a == Aged(Cr)
           r == Enqueue(a, what)
<1>1. /\ ring' = [ring EXCEPT !["commands"] = r, !["endpoint"] = endpoint]
      /\ evs' = Older(events, "commands")
      /\ call' = Wait("commands", what, r.next - 1)
      /\ deq' = deq /\ evAt' = evAt /\ evPut' = evPut
  BY DEF Command, Older, Hardware, Cr
<1>2. InLap(a, Cd) /\ Out(a, Cd) = 0
  <2>1. Shape(Cr)
    BY DEF CSynced, InLap
  <2> QED BY <2>1, AgedIs DEF CSynced, CLeft
<1>3. what \in Whats \ {"link"}
  BY DEF CommandNames, Whats
<1> HIDE DEF a
<1>4. /\ InLap(r, Cd) /\ Out(r, Cd) = 1 /\ r.next - 1 \in Posts
      /\ r.trbs[r.next - 1].what = what /\ ~r.trbs[r.next - 1].old
  <2> DEFINE o == Out(a, Cd)
             p == Out(r, Cd)
  <2>1. o = 0
    BY <1>2
  <2>2. o < RingSize - 1
    <3> HIDE DEF o
    <3> QED BY <2>1, RingsAssumption
  <2>3. /\ InLap(r, Cd) /\ p = o + 1 /\ r.next - 1 \in Posts
        /\ r.trbs[r.next - 1].what = what /\ ~r.trbs[r.next - 1].old
    BY <1>2, <1>3, <2>2, EnqueueIs
  <2>4. p = 1
    <3> HIDE DEF o, p
    <3> QED BY <2>1, <2>3
  <2> QED BY <2>3, <2>4
<1> HIDE DEF r
<1>5. Cr' = r /\ Cd' = Cd /\ Er' = endpoint /\ Ed' = Ed /\ DOMAIN ring' = Names /\ DOMAIN deq' = Names
  BY <1>1 DEF Cr, Er, Cd, Ed, RingsTypeOK, Names
<1>6. /\ call' \in Calls /\ call'.mixed = FALSE /\ call'.name = "commands"
      /\ call'.what = what /\ call'.pc = "poll" /\ ~call'.done /\ call'.at = r.next - 1
  BY <1>1, <1>3, <1>4, RingsAssumption DEF Wait, Calls, Names
<1>7. Kept(evs', ns \cup {"commands"})
  BY <1>1, OlderKept
<1>8. EventsOK' /\ Of("commands")' = {}
  BY <1>1, <1>7, EventsKept DEF RingsTypeOK
<1>9. CSynced' /\ CLeft' = 1 /\ CTailOK'
  BY <1>4, <1>5, <1>6 DEF CSynced, CLeft, CTailOK
<1>10. /\ what = "dequeue" => ep' # "running" /\ Blank'
       /\ what = "configure" => ep' = "disabled" /\ Blank'
  BY <1>5, RingInitIs DEF Blank
<1>11. Posted'
  BY <1>6, <1>8, <1>9, <1>10 DEF Posted
<1>12. CommandsOK'
  BY <1>6, <1>9, <1>11 DEF CommandsOK
<1> QED BY <1>1, <1>5, <1>6, <1>7, <1>8, <1>12

(* The kinds of endpoints a call waits for. *)
Pair == {"control", "bulk"}

(* A command that leaves the endpoint as the device needs it keeps the invariant. *)
LEMMA CommandLive ==
  ASSUME ready, RingsTypeOK, CSynced, CLeft = 0, Of("commands") = {}, call.mixed = FALSE,
         NEW what \in CommandNames, NEW endpoint, Shape(endpoint),
         NEW events, NEW ns, Kept(events, ns),
         Command(what, endpoint, events), UNCHANGED <<Hardware, ep, ready>>,
         what = "dequeue" => ep # "running" /\ endpoint = RingInit,
         what = "configure" => /\ ep = "disabled" /\ endpoint = RingInit
                               /\ ~dev'.pending /\ ~dev'.failed /\ ~dev'.active,
         what = "disable" /\ dev'.active /\ dev'.kind # "bulk" =>
           ep # "disabled" /\ (dev'.kind = "control" => Settled /\ endpoint = Er),
         dev' \in Devices, dev'.kind # "none",
         dev'.kind = "interrupt" =>
           \/ what = "disable" /\ MouseOK /\ dev' = dev /\ endpoint = Er /\ ns = {}
           \/ what = "configure" /\ EvP = {},
         dev'.kind \in Pair =>
           /\ ~dev'.pending
           /\ what \in {"stop", "reset"} => Synced /\ endpoint = Aged(Er) /\ ep # "disabled"
           /\ what \notin {"stop", "reset"} =>
                /\ Of("endpoint") = {}
                /\ ep # "running" \/ (Settled /\ (endpoint = Er \/ endpoint = Aged(Er)))
  PROVE  RingsInv'
<1>1. /\ CommandsOK' /\ call' \in Calls /\ call'.mixed = FALSE /\ call'.name = "commands"
      /\ call'.what = what /\ call'.pc = "poll" /\ ~call'.done
      /\ Er' = endpoint /\ Ed' = Ed /\ Shape(Er)' /\ DOMAIN ring' = Names /\ DOMAIN deq' = Names
      /\ Kept(evs', ns \cup {"commands"}) /\ EventsOK' /\ evAt' = evAt /\ evPut' = evPut
  BY CommandIs
<1>2. /\ EvP' = EvP /\ Of("endpoint")' = Of("endpoint")
      /\ \A i \in EvP : /\ evs'[i].name = evs[i].name /\ evs'[i].code = evs[i].code
                        /\ evs[i].name \notin ns \cup {"commands"} => evs'[i].old = evs[i].old
  BY <1>1, EventsKept DEF RingsTypeOK
<1>3. RingsTypeOK'
  BY <1>1 DEF RingsTypeOK
<1>4. CallOK' /\ TransferOK' /\ NoneOK'
  BY <1>1 DEF CallOK, TransferOK, NoneOK
<1>5. endpoint = Er \/ endpoint = Aged(Er) =>
        Left' = Left /\ (Synced => Synced') /\ (Settled => Settled') /\ (Er' = Er /\ Fresh => Fresh')
  BY <1>1, EndpointKept DEF RingsTypeOK
<1>6. MouseOK'
  <2> SUFFICES ASSUME dev'.kind = "interrupt" PROVE MouseOK'
    BY DEF MouseOK
  <2>1. CASE what = "disable" /\ MouseOK /\ dev' = dev /\ endpoint = Er /\ ns = {}
    <3>1. \A i \in Of("endpoint") : evs'[i].old = evs[i].old /\ evs'[i].code = evs[i].code
      BY <1>2, <2>1 DEF Of
    <3>2. Left' = Left /\ (Synced => Synced') /\ (Fresh => Fresh')
      BY <1>1, <1>5, <2>1
    <3> QED BY <1>1, <1>2, <2>1, <3>1, <3>2 DEF MouseOK
  <2>2. CASE what = "configure" /\ EvP = {}
    <3>1. Of("endpoint")' = {}
      BY <1>2, <2>2 DEF Of
    <3> QED BY <1>1, <2>2, <3>1 DEF MouseOK
  <2> QED BY <2>1, <2>2
<1>7. PairOK'
  <2> SUFFICES ASSUME dev'.kind \in Pair PROVE PairOK'
    BY DEF PairOK, Pair
  <2>1. CASE what \in {"stop", "reset"}
    BY <1>1, <1>5, <2>1 DEF PairOK
  <2>2. CASE what \notin {"stop", "reset"}
    BY <1>1, <1>2, <1>5, <2>2 DEF PairOK, Quiet, CommandNames
  <2> QED BY <2>1, <2>2
<1>8. UsedOK'
  BY <1>1, <1>5 DEF UsedOK
<1> QED BY <1>1, <1>3, <1>4, <1>6, <1>7, <1>8 DEF RingsInv, LiveRings

(* A call that returns to an endpoint at rest keeps it. *)
LEMMA ReturnLive ==
  ASSUME RingsTypeOK, CSynced, CLeft = 0, Of("commands") = {}, call.mixed = FALSE,
         NEW n \in Names \cup {"none"}, Return(n), UNCHANGED <<Hardware, ep, ready>>,
         dev' \in Devices,
         dev'.kind = "none" => ep = "disabled" /\ EvP = {} /\ ~dev'.active,
         dev'.kind = "interrupt" =>
           /\ n # "endpoint" /\ MouseOK /\ dev.kind = "interrupt"
           /\ dev'.pending = dev.pending /\ dev'.failed = dev.failed
           /\ dev'.active => ep # "disabled",
         dev'.kind \in Pair => /\ ~dev'.pending /\ Of("endpoint") = {} /\ Quiet
                               /\ dev'.active => Settled /\ ep # "disabled"
  PROVE  RingsInv'
<1>1. /\ call'.mixed = FALSE /\ call'.pc = "idle" /\ call'.name = "none" /\ call'.what = "none"
      /\ ~call'.done /\ call' \in Calls
  <2>1. 0 \in Posts /\ 0 \in Nat
    BY RingsAssumption DEF Posts
  <2> QED BY <2>1 DEF Return, Idle, Calls, Names
<1>2. /\ Er' = Er \/ (n = "endpoint" /\ Er' = Aged(Er))
      /\ Cr' = Cr \/ Cr' = Aged(Cr)
      /\ DOMAIN ring' = Names /\ DOMAIN deq' = Names /\ Ed' = Ed /\ Cd' = Cd
  BY DEF Return, Er, Cr, Ed, Cd, RingsTypeOK, Names, Hardware
<1>3. evAt' = evAt /\ evPut' = evPut /\ Kept(evs', {n})
  <2>1. CASE n = "none"
    BY <2>1, SameKept DEF Return, Hardware, Kept, RingsTypeOK
  <2>2. CASE n # "none"
    BY <2>2, AgedKept DEF Return, Hardware, RingsTypeOK
  <2> QED BY <2>1, <2>2
<1>4. /\ EventsOK' /\ EvP' = EvP /\ \A m : Of(m)' = Of(m)
      /\ \A i \in EvP : /\ evs'[i].name = evs[i].name /\ evs'[i].code = evs[i].code
                        /\ evs[i].name # n => evs'[i].old = evs[i].old
  <2>1. \A m : m # n => m \notin {n}
    OBVIOUS
  <2>2. EventsOK
    BY DEF RingsTypeOK
  <2> QED BY <1>3, <2>1, <2>2, EventsKept
<1>5. /\ Shape(Er') /\ Left' = Left /\ (Synced => Synced') /\ (Settled => Settled')
      /\ (Er' = Er /\ Fresh => Fresh')
  BY <1>2, EndpointKept DEF RingsTypeOK
<1>6. CommandsOK'
  BY <1>1, <1>2, <1>4, CommandRingKept DEF CommandsOK
<1>7. RingsTypeOK'
  BY <1>1, <1>2, <1>4, <1>5 DEF RingsTypeOK
<1>8. CallOK' /\ TransferOK' /\ NoneOK'
  BY <1>1, <1>4 DEF CallOK, TransferOK, NoneOK
<1>9. MouseOK'
  <2> SUFFICES ASSUME dev'.kind = "interrupt" PROVE MouseOK'
    BY DEF MouseOK
  <2>1. \A i \in Of("endpoint") : evs'[i].old = evs[i].old /\ evs'[i].code = evs[i].code
    BY <1>4 DEF Of
  <2> QED BY <1>1, <1>2, <1>4, <1>5, <2>1 DEF MouseOK
<1>10. PairOK'
  BY <1>1, <1>4, <1>5 DEF PairOK, Quiet, Pair
<1> QED BY <1>1, <1>6, <1>7, <1>8, <1>9, <1>10 DEF RingsInv, LiveRings, UsedOK

(* Between two calls: nothing is outstanding on the command ring. *)
LEMMA NoCommand ==
  ASSUME LiveRings, call.name # "commands"
  PROVE  RingsTypeOK /\ CSynced /\ CLeft = 0 /\ Of("commands") = {} /\ EventsOK
BY DEF LiveRings, CommandsOK, RingsTypeOK

(* No call in progress: nothing is waited for. *)
LEMMA IdleName == ASSUME LiveRings, call.pc = "idle" PROVE call.name = "none"
BY DEF LiveRings, CallOK

(* attach() and the setup functions start from an endpoint that is disabled. *)
LEMMA ConfigureRings ==
  ASSUME RingsInv, ready, NEW k \in {"control", "bulk", "interrupt"}, Configure(k)
  PROVE  RingsInv'
<1>1. LiveRings /\ call.mixed = FALSE
  BY DEF RingsInv
<1>2. call.pc = "idle" /\ dev.kind = "none" /\ ep = "disabled" /\ EvP = {}
  BY <1>1 DEF Configure, LiveRings, NoneOK
<1>3. RingsTypeOK /\ CSynced /\ CLeft = 0 /\ Of("commands") = {} /\ EventsOK
  BY <1>1, <1>2, NoCommand, IdleName
<1>4. Shape(RingInit) /\ Kept(AgedEvents("endpoint"), {"endpoint"})
  BY <1>3, RingInitIs, AgedKept
<1>5. dev' \in Devices /\ dev'.kind = k /\ ~dev'.pending /\ ~dev'.failed /\ ~dev'.active
  BY DEF Configure, NoDevice, Devices
<1>6. Of("endpoint") = {}
  BY <1>2 DEF Of
<1>7. /\ Command("configure", RingInit, AgedEvents("endpoint"))
      /\ UNCHANGED <<Hardware, ep, ready>>
  BY DEF Configure
<1>8. "configure" \in CommandNames
  BY DEF CommandNames
<1> QED BY <1>1, <1>2, <1>3, <1>4, <1>5, <1>6, <1>7, <1>8, CommandLive

(* disconnect() disables a device at rest. *)
LEMMA DisconnectRings == ASSUME RingsInv, ready, Disconnect PROVE RingsInv'
<1>1. LiveRings /\ call.mixed = FALSE
  BY DEF RingsInv
<1>2. call.pc = "idle" /\ call.name = "none" /\ dev.kind # "none"
  BY <1>1, IdleName DEF Disconnect
<1>3. RingsTypeOK /\ CSynced /\ CLeft = 0 /\ Of("commands") = {} /\ EventsOK
  BY <1>1, <1>2, NoCommand
<1>4. dev' = dev /\ dev' \in Devices /\ dev'.kind # "none"
  BY <1>1, <1>2, <1>3 DEF Disconnect, RingsTypeOK, LiveRings, NoneOK
<1>5. /\ Command("disable", Er, evs) /\ UNCHANGED <<Hardware, ep, ready>>
      /\ Kept(evs, {}) /\ Shape(Er) /\ "disable" \in CommandNames
  BY <1>3, SameKept DEF Disconnect, Er, RingsTypeOK, CommandNames
<1>6. MouseOK
  BY <1>1 DEF LiveRings
<1>7. dev'.kind \in Pair => ~dev'.pending /\ Of("endpoint") = {} /\ (ep # "running" \/ Settled)
  BY <1>1, <1>2, <1>4 DEF LiveRings, PairOK, Pair, CallOK, Quiet
<1>8. dev'.active => ep # "disabled" /\ (dev'.kind = "control" => Settled)
  BY <1>1, <1>2, <1>3, <1>4 DEF LiveRings, PairOK, MouseOK, RingsTypeOK, Devices
<1> QED BY <1>1, <1>3, <1>4, <1>5, <1>6, <1>7, <1>8, CommandLive

(* usb_xhci_poll() begins to drain the events. *)
LEMMA PollMouseRings == ASSUME RingsInv, ready, PollMouse PROVE RingsInv'
<1>1. LiveRings /\ call.mixed = FALSE
  BY DEF RingsInv
<1>2. /\ call.pc = "idle" /\ call.name = "none" /\ dev.active /\ dev.kind = "interrupt"
      /\ ring' = ring /\ deq' = deq /\ evs' = evs /\ evAt' = evAt /\ evPut' = evPut
      /\ ep' = ep /\ dev' = dev /\ ready' = ready /\ call' = Wait("none", "mouse", 0)
  BY <1>1, IdleName DEF PollMouse, Usable, Hardware
<1>3. /\ call' \in Calls /\ call'.mixed = FALSE /\ call'.name = "none" /\ call'.what = "mouse"
      /\ ~call'.done /\ call'.pc = "poll"
  <2>1. 0 \in Posts /\ Polls \in Nat
    BY RingsAssumption DEF Posts
  <2> QED BY <1>1, <1>2, <2>1 DEF Wait, Calls
<1>4. RingsTypeOK /\ CSynced /\ CLeft = 0 /\ Of("commands") = {} /\ EventsOK
  BY <1>1, <1>2, NoCommand
<1>5. /\ EventsOK' /\ EvP' = EvP /\ Of("commands")' = Of("commands")
      /\ Of("endpoint")' = Of("endpoint") /\ Left' = Left /\ Synced' = Synced /\ Fresh' = Fresh
      /\ CSynced' /\ CLeft' = 0
  BY <1>2, <1>4 DEF EventsOK, EvP, Of, Left, Synced, Fresh, Er, Ed, CSynced, CLeft, Cr, Cd
<1>6. RingsTypeOK'
  BY <1>2, <1>3, <1>4, <1>5 DEF RingsTypeOK, Er
<1>7. CallOK' /\ TransferOK' /\ NoneOK' /\ PairOK' /\ CommandsOK'
  BY <1>2, <1>3, <1>4, <1>5 DEF CallOK, TransferOK, NoneOK, PairOK, CommandsOK
<1>8. MouseOK'
  BY <1>1, <1>2, <1>3, <1>5 DEF LiveRings, MouseOK
<1> QED BY <1>2, <1>3, <1>6, <1>7, <1>8 DEF RingsInv, LiveRings, UsedOK

(* control() and bulk() on a settled ring: what they post is all there is. *)
LEMMA TransferRings ==
  ASSUME RingsInv, ready, NEW k \in Pair, Usable(k), NEW r, Transfer(r),
         InLap(r, Ed), Out(r, Ed) \in 1..3, k = "bulk" => Out(r, Ed) = 1,
         r.next - 1 \in Posts, r.trbs[r.next - 1].what \notin {"setup", "data"},
         \A i \in Outst(r, Ed) : ~r.trbs[i].old
  PROVE  RingsInv'
<1>1. LiveRings /\ call.mixed = FALSE
  BY DEF RingsInv
<1>2. /\ call.pc = "idle" /\ call.name = "none" /\ dev.active /\ dev.kind = k
      /\ ring' = [ring EXCEPT !["endpoint"] = r] /\ deq' = deq /\ evs' = evs
      /\ evAt' = evAt /\ evPut' = evPut /\ dev' = dev /\ ready' = ready
      /\ call' = Wait("endpoint", "transfer", r.next - 1)
      /\ ep' = IF ep = "stopped" THEN "running" ELSE ep
  BY <1>1, IdleName DEF Transfer, Usable, Hardware, Doorbell
<1>3. /\ call' \in Calls /\ call'.mixed = FALSE /\ call'.name = "endpoint" /\ call'.what = "transfer"
      /\ ~call'.done /\ call'.pc = "poll" /\ call'.at = r.next - 1
  BY <1>1, <1>2, RingsAssumption DEF Wait, Calls, Names
<1>4. RingsTypeOK /\ CSynced /\ CLeft = 0 /\ Of("commands") = {} /\ EventsOK
  BY <1>1, <1>2, NoCommand
<1>5. ep # "disabled" /\ Of("endpoint") = {}
  BY <1>1, <1>2 DEF LiveRings, PairOK, Pair, CallOK
<1>6. EvP = {}
  BY <1>4, <1>5, QueuedIs
<1>7. /\ Er' = r /\ Ed' = Ed /\ Cr' = Cr /\ Cd' = Cd /\ DOMAIN ring' = Names /\ DOMAIN deq' = Names
  BY <1>2, <1>4 DEF Er, Ed, Cr, Cd, RingsTypeOK, Names
<1>8. EventsOK' /\ EvP' = {} /\ Of("commands")' = {}
  BY <1>2, <1>4, <1>6 DEF EventsOK, EvP, Of
<1>9. CSynced' /\ CLeft' = 0
  BY <1>4, <1>7 DEF CSynced, CLeft
<1>10. /\ Synced' /\ Left' \in 1..3 /\ (k = "bulk" => Left' = 1) /\ Fresh' /\ TailOK'
       /\ Shape(Er')
  BY <1>3, <1>7 DEF Synced, Left, Fresh, TailOK, InLap
<1>11. RingsTypeOK'
  BY <1>2, <1>3, <1>4, <1>7, <1>8, <1>10 DEF RingsTypeOK
<1>12. CallOK' /\ NoneOK' /\ CommandsOK' /\ MouseOK'
  BY <1>2, <1>3, <1>8, <1>9 DEF CallOK, NoneOK, CommandsOK, MouseOK, Pair
<1>13. PairOK'
  BY <1>1, <1>2, <1>3 DEF LiveRings, PairOK, Pair
<1>14. ep' \in {"running", "halted"}
  BY <1>2, <1>4, <1>5 DEF RingsTypeOK
<1>15. TransferOK'
  <2>1. Left' <= 3 /\ (k = "bulk" => Left' <= 1) /\ Left' > 0
    <3> DEFINE o == Left'
    <3>1. o \in 1..3 /\ (k = "bulk" => o = 1)
      BY <1>10
    <3> HIDE DEF o
    <3>2. o <= 3 /\ (k = "bulk" => o <= 1) /\ o > 0
      BY <3>1
    <3> QED BY <3>2 DEF o
  <2> QED BY <1>2, <1>3, <1>8, <1>10, <1>14, <2>1 DEF TransferOK, Pair
<1> QED BY <1>2, <1>3, <1>11, <1>12, <1>13, <1>15 DEF RingsInv, LiveRings, UsedOK

(* enqueue() behind TRBs of the same call. *)
LEMMA EnqueueFresh ==
  ASSUME NEW r, NEW d, NEW o \in 0..2, InLap(r, d), Out(r, d) = o,
         \A i \in Outst(r, d) : ~r.trbs[i].old, NEW what \in Whats \ {"link"}
  PROVE  LET q == Enqueue(r, what)
         IN  /\ InLap(q, d) /\ Out(q, d) = o + 1 /\ q.next - 1 \in Posts
             /\ q.trbs[q.next - 1].what = what
             /\ \A i \in Outst(q, d) : ~q.trbs[i].old
<1>1. Out(r, d) < RingSize - 1
  <2>1. o < RingSize - 1
    BY RingsAssumption
  <2> QED BY <2>1
<1> QED BY <1>1, EnqueueIs

(* With nothing left to do, no TRB is the controller's. *)
LEMMA NothingOut == ASSUME NEW r, NEW d, InLap(r, d), Out(r, d) = 0 PROVE Outst(r, d) = {}
<1> DEFINE n == r.next
           c == r.cycle
           a == d.at
           b == d.cycle
<1>1. n \in Posts /\ c \in 0..1 /\ a \in Posts /\ b \in 0..1
  BY InLapIs
<1>2. (b = c /\ a <= n) \/ (b # c /\ 1 <= n /\ n <= a)
  BY DEF InLap
<1>3. 0 = (IF b = c THEN n - a ELSE RingSize - 1 - a + n)
  BY DEF Out
<1>4. Outst(r, d) = {i \in 0..RingSize - 2 : IF b = c THEN a <= i /\ i < n ELSE a <= i \/ i < n}
  BY DEF Outst
<1> HIDE DEF n, c, a, b
<1>5. b = c /\ n = a /\ n \in Int
  BY <1>1, <1>2, <1>3, RingsAssumption DEF Posts
<1> QED BY <1>4, <1>5

(* In particular on a settled endpoint. *)
LEMMA SettledEmpty == ASSUME Settled PROVE Outst(Er, Ed) = {}
BY NothingOut DEF Settled, Synced, Left

(* control() posts two or three TRBs, bulk() one. *)
LEMMA ControlRings == ASSUME RingsInv, ready, Control \/ Bulk PROVE RingsInv'
<1>1. LiveRings /\ call.mixed = FALSE
  BY DEF RingsInv
<1>2. ASSUME NEW k \in Pair, Usable(k)
      PROVE  /\ InLap(Er, Ed) /\ Out(Er, Ed) = 0
             /\ \A i \in Outst(Er, Ed) : ~Er.trbs[i].old
  <2>1. Settled
    BY <1>1, <1>2 DEF Usable, LiveRings, PairOK, Pair
  <2> QED BY <2>1, SettledEmpty DEF Settled, Synced, Left
<1> DEFINE w == {"setup", "data", "status", "normal"}
<1>3. w \subseteq Whats \ {"link"}
  BY DEF Whats
<1>4. "control" \in Pair /\ "bulk" \in Pair
  BY DEF Pair
<1> DEFINE q1 == Enqueue(Er, "setup")
           q2 == Enqueue(q1, "status")
           q3 == Enqueue(q1, "data")
           q4 == Enqueue(q3, "status")
           q5 == Enqueue(Er, "normal")
<1>5. 0 \in 0..2 /\ 1 \in 0..2 /\ 2 \in 0..2 /\ 0 + 1 = 1 /\ 1 + 1 = 2 /\ 2 + 1 = 3
      /\ 1 \in 1..3 /\ 2 \in 1..3 /\ 3 \in 1..3
  OBVIOUS
<1>6. CASE Control
  <2>1. Usable("control") /\ (Transfer(q2) \/ Transfer(q4))
    BY <1>6 DEF Control, Er
  <2>2. InLap(q1, Ed) /\ Out(q1, Ed) = 1 /\ \A i \in Outst(q1, Ed) : ~q1.trbs[i].old
    BY <1>2, <1>3, <1>4, <1>5, <2>1, EnqueueFresh
  <2> HIDE DEF q1
  <2>3. CASE Transfer(q2)
    <3>1. /\ InLap(q2, Ed) /\ Out(q2, Ed) = 2 /\ q2.next - 1 \in Posts
          /\ q2.trbs[q2.next - 1].what = "status"
          /\ \A i \in Outst(q2, Ed) : ~q2.trbs[i].old
      BY <1>3, <1>5, <2>2, EnqueueFresh
    <3> HIDE DEF q2
    <3> QED BY <1>4, <1>5, <2>1, <2>3, <3>1, TransferRings
  <2>4. CASE Transfer(q4)
    <3>1. InLap(q3, Ed) /\ Out(q3, Ed) = 2 /\ \A i \in Outst(q3, Ed) : ~q3.trbs[i].old
      BY <1>3, <1>5, <2>2, EnqueueFresh
    <3> HIDE DEF q3
    <3>2. /\ InLap(q4, Ed) /\ Out(q4, Ed) = 3 /\ q4.next - 1 \in Posts
          /\ q4.trbs[q4.next - 1].what = "status"
          /\ \A i \in Outst(q4, Ed) : ~q4.trbs[i].old
      BY <1>3, <1>5, <3>1, EnqueueFresh
    <3> HIDE DEF q4
    <3> QED BY <1>4, <1>5, <2>1, <2>4, <3>2, TransferRings
  <2> QED BY <2>1, <2>3, <2>4
<1>7. CASE Bulk
  <2>1. Usable("bulk") /\ Transfer(q5)
    BY <1>7 DEF Bulk, Er
  <2>2. /\ InLap(q5, Ed) /\ Out(q5, Ed) = 1 /\ q5.next - 1 \in Posts
        /\ q5.trbs[q5.next - 1].what = "normal"
        /\ \A i \in Outst(q5, Ed) : ~q5.trbs[i].old
    BY <1>2, <1>3, <1>4, <1>5, <2>1, EnqueueFresh
  <2> HIDE DEF q5
  <2> QED BY <1>4, <1>5, <2>1, <2>2, TransferRings
<1> QED BY <1>6, <1>7

(* events() finds nothing more, or the wait goes on. *)
LEMMA WaitRings == ASSUME RingsInv, ready, Drained \/ Again PROVE RingsInv'
<1>1. LiveRings /\ call.mixed = FALSE /\ call \in Calls
  BY DEF RingsInv, LiveRings, RingsTypeOK
<1>2. /\ ring' = ring /\ deq' = deq /\ evs' = evs /\ evAt' = evAt /\ evPut' = evPut
      /\ ep' = ep /\ dev' = dev /\ ready' = ready
  BY DEF Drained, Again, Hardware
<1>3. /\ call' \in Calls /\ call'.mixed = FALSE /\ call'.name = call.name
      /\ call'.what = call.what /\ call'.at = call.at /\ call'.done = call.done
      /\ call'.ok = call.ok /\ call'.pc # "idle" /\ call.pc # "idle"
  <2>1. CASE Drained
    BY <1>1, <2>1 DEF Drained, Calls
  <2>2. CASE Again
    <3>1. call.left \in Nat /\ call.left > 1
      BY <1>1, <2>2 DEF Again, Calls
    <3>2. call.left - 1 \in Nat
      BY <3>1
    <3> QED BY <1>1, <2>2, <3>2 DEF Again, Calls
  <2> QED BY <2>1, <2>2
<1>4. /\ EventsOK' = EventsOK /\ EvP' = EvP /\ LastEv' = LastEv /\ Of("commands")' = Of("commands")
      /\ Of("endpoint")' = Of("endpoint") /\ Left' = Left /\ Synced' = Synced /\ Fresh' = Fresh
      /\ CSynced' = CSynced /\ CLeft' = CLeft /\ Blank' = Blank /\ Shape(Er)' = Shape(Er)
  BY <1>2 DEF EventsOK, EvP, LastEv, Of, Left, Synced, Fresh, Er, Ed, CSynced, CLeft, Cr, Cd, Blank
<1>5. TailOK' = TailOK /\ CTailOK' = CTailOK
  BY <1>2, <1>3, <1>4 DEF TailOK, CTailOK, Er, Cr
<1>6. RingsTypeOK'
  BY <1>1, <1>2, <1>3, <1>4 DEF LiveRings, RingsTypeOK
<1>7. CallOK' /\ NoneOK' /\ TransferOK' /\ PairOK' /\ MouseOK'
  BY <1>1, <1>2, <1>3, <1>4, <1>5
     DEF LiveRings, CallOK, NoneOK, TransferOK, PairOK, MouseOK, Quiet, Settled, Ends
<1>8. CommandsOK'
  <2>1. AfterOk' = AfterOk
    BY <1>2, <1>3, <1>4 DEF AfterOk, Settled
  <2>2. (Posted => Posted') /\ (DoneCommand => DoneCommand')
    BY <1>2, <1>3, <1>4, <1>5, <2>1 DEF Posted, DoneCommand
  <2>3. Answered => Answered'
    BY <1>2, <1>3, <1>4, <1>5, <2>1 DEF Answered
  <2> QED BY <1>1, <1>3, <1>4, <2>2, <2>3 DEF LiveRings, CommandsOK
<1>9. UsedOK'
  BY <1>1, <1>2, <1>3, <1>4 DEF LiveRings, UsedOK, Accepted, Settled
<1> QED BY <1>2, <1>3, <1>6, <1>7, <1>8, <1>9 DEF RingsInv, LiveRings

(* recover_endpoint() stops or resets the endpoint of a failed transfer. *)
LEMMA RecoverRings ==
  ASSUME RingsInv, ready, call.name = "endpoint", call.done => ~call.ok,
         Recover, UNCHANGED <<Hardware, ep>>
  PROVE  RingsInv'
<1>1. LiveRings /\ call.mixed = FALSE
  BY DEF RingsInv
<1>2. dev.kind \in Pair /\ ep \in {"running", "halted"} /\ Synced
  BY <1>1 DEF LiveRings, TransferOK, Pair
<1>3. RingsTypeOK /\ CSynced /\ CLeft = 0 /\ Of("commands") = {} /\ EventsOK
  BY <1>1, NoCommand
<1>4. PICK what \in {"stop", "reset"} : Command(what, Aged(Er), AgedEvents("endpoint"))
  BY <1>2 DEF Recover, Er
<1>5. /\ dev' = dev /\ dev' \in Devices /\ UNCHANGED <<Hardware, ep, ready>>
  BY <1>3 DEF Recover, RingsTypeOK
<1>6. Shape(Aged(Er)) /\ Kept(AgedEvents("endpoint"), {"endpoint"}) /\ what \in CommandNames
  BY <1>3, AgedIs, AgedKept DEF RingsTypeOK, CommandNames
<1>7. ~dev'.pending /\ dev'.kind \in Pair /\ dev'.kind \notin {"none", "interrupt"}
  BY <1>1, <1>2, <1>5 DEF LiveRings, PairOK, Pair
<1>8. what \notin {"configure", "dequeue"} /\ ep # "disabled"
  BY <1>2
<1> QED BY <1>1, <1>2, <1>3, <1>4, <1>5, <1>6, <1>7, <1>8, CommandLive

(* The end of control() and bulk(). *)
LEMMA CheckTransferRings ==
  ASSUME RingsInv, ready, CheckControl \/ CheckBulk
  PROVE  RingsInv'
<1>1. LiveRings /\ call.mixed = FALSE
  BY DEF RingsInv
<1>2. call.name = "endpoint" /\ dev.kind \in Pair /\ UNCHANGED <<Hardware, ep>>
  BY DEF CheckControl, CheckBulk, Pair
<1>3. RingsTypeOK /\ CSynced /\ CLeft = 0 /\ Of("commands") = {} /\ EventsOK
  BY <1>1, <1>2, NoCommand
<1>4. ep \in {"running", "halted"} /\ Synced /\ ~dev.pending
  BY <1>1, <1>2 DEF LiveRings, TransferOK, PairOK, Pair
<1>5. call.done => EvP = {} /\ Of("endpoint") = {}
                   /\ (call.ok => Left = 0) /\ (~call.ok => ep = "halted")
  BY <1>1, <1>2 DEF LiveRings, TransferOK, Of
<1>6. CASE Done /\ call.ok /\ Return("endpoint") /\ UNCHANGED <<ready, dev>>
  <2>1. Settled /\ Quiet /\ Of("endpoint") = {}
    BY <1>4, <1>5, <1>6 DEF Settled, Quiet, Done
  <2>2. dev' = dev /\ dev' \in Devices /\ dev'.kind \notin {"none", "interrupt"} /\ ~dev'.pending
    BY <1>2, <1>3, <1>4, <1>6 DEF RingsTypeOK, Pair
  <2>3. ep # "disabled" /\ UNCHANGED <<Hardware, ep, ready>> /\ "endpoint" \in Names \cup {"none"}
    BY <1>2, <1>4, <1>6 DEF Names
  <2> QED BY <1>1, <1>3, <1>6, <2>1, <2>2, <2>3, ReturnLive
<1>7. CASE (TimedOut \/ (Done /\ ~call.ok)) /\ Recover
  BY <1>2, <1>7, RecoverRings DEF TimedOut
<1>8. CASE Done /\ ~call.ok /\ Command("disable", Aged(ring["endpoint"]), AgedEvents("endpoint"))
           /\ UNCHANGED <<ready, dev>> /\ dev.kind = "bulk"
  <2>1. Command("disable", Aged(Er), AgedEvents("endpoint")) /\ UNCHANGED <<Hardware, ep, ready>>
    BY <1>2, <1>8 DEF Er
  <2>2. dev' = dev /\ dev' \in Devices /\ dev'.kind \notin {"none", "interrupt"} /\ ~dev'.pending
    BY <1>2, <1>3, <1>4, <1>8 DEF RingsTypeOK, Pair
  <2>3. ep # "running" /\ Of("endpoint") = {}
    BY <1>5, <1>8 DEF Done
  <2>4. Shape(Aged(Er)) /\ Kept(AgedEvents("endpoint"), {"endpoint"}) /\ "disable" \in CommandNames
    BY <1>3, AgedIs, AgedKept DEF RingsTypeOK, CommandNames
  <2> QED BY <1>1, <1>3, <1>8, <2>1, <2>2, <2>3, <2>4, CommandLive
<1> QED BY <1>6, <1>7, <1>8 DEF CheckControl, CheckBulk

(* stop_host(): the rings are not used again. *)
LEMMA StopRings == ASSUME RingsInv, StopHost PROVE RingsInv'
BY DEF RingsInv, StopHost, Return, Idle

(* A command that was answered has done what it says. *)
LEMMA DoneCommandIs ==
  ASSUME LiveRings, call.name = "commands", Done
  PROVE  /\ RingsTypeOK /\ CSynced /\ CLeft = 0 /\ Of("commands") = {} /\ EventsOK
         /\ call.what \in CommandNames /\ call.pc = "check"
         /\ call.ok => EvP = {} /\ Of("endpoint") = {} /\ AfterOk
         /\ call.what = "dequeue" => ep # "running"
<1>1. DoneCommand
  BY DEF LiveRings, CommandsOK, Posted, Answered, Done
<1> QED BY <1>1 DEF LiveRings, CommandsOK, DoneCommand, RingsTypeOK, Of, Done

(* What follows a command, by the call it belongs to. *)
LEMMA CheckCommandRings == ASSUME RingsInv, ready, CheckCommand PROVE RingsInv'
<1>1. LiveRings /\ call.mixed = FALSE /\ call.name = "commands" /\ Done
  BY DEF RingsInv, CheckCommand
<1>2. /\ RingsTypeOK /\ CSynced /\ CLeft = 0 /\ Of("commands") = {} /\ EventsOK
      /\ call.what \in CommandNames /\ call.pc = "check"
      /\ call.ok => EvP = {} /\ Of("endpoint") = {} /\ AfterOk
      /\ call.what = "dequeue" => ep # "running"
  BY <1>1, DoneCommandIs
<1>3. dev.kind # "none" /\ dev \in Devices /\ MouseOK /\ PairOK /\ Shape(Er) /\ CallOK /\ UsedOK
  BY <1>1, <1>2 DEF LiveRings, NoneOK, RingsTypeOK
<1>4. "commands" \in Names \cup {"none"} /\ "disable" \in CommandNames /\ "dequeue" \in CommandNames
  BY DEF Names, CommandNames
<1>5. Kept(evs, {}) /\ Kept(AgedEvents("endpoint"), {"endpoint"}) /\ Shape(RingInit)
  BY <1>2, SameKept, AgedKept, RingInitIs
<1>6. UNCHANGED Hardware /\ ep' = ep /\ AfterCommand(call.ok)
  BY DEF CheckCommand
<1>7. \/ /\ call.what = "configure" /\ call.ok
         /\ dev' = [dev EXCEPT !.active = TRUE] /\ Return("commands") /\ ready' = ready
      \/ /\ call.what = "configure" /\ ~call.ok
         /\ Command("disable", Er, evs) /\ ready' = ready /\ dev' = dev
      \/ /\ call.what = "disable"
         /\ dev' = IF call.ok THEN NoDevice ELSE [dev EXCEPT !.active = @ /\ dev.kind # "bulk"]
         /\ Return("commands") /\ ready' = ready
      \/ /\ call.what \in {"stop", "reset"} /\ call.ok
         /\ Command("dequeue", RingInit, AgedEvents("endpoint")) /\ ready' = ready /\ dev' = dev
      \/ /\ call.what = "dequeue" /\ call.ok /\ dev.kind = "bulk"
         /\ Command("disable", Er, evs) /\ ready' = ready /\ dev' = dev
      \/ /\ call.what = "dequeue" /\ call.ok /\ dev.kind # "bulk"
         /\ Return("commands") /\ ready' = ready /\ dev' = dev
      \/ StopHost
  BY <1>6 DEF AfterCommand, Er
<1>8. CASE /\ call.what = "configure" /\ call.ok
           /\ dev' = [dev EXCEPT !.active = TRUE] /\ Return("commands") /\ ready' = ready
  <2>1. /\ dev' \in Devices /\ dev'.kind = dev.kind /\ dev'.pending = dev.pending
        /\ dev'.failed = dev.failed
    BY <1>3, <1>8 DEF Devices
  <2>2. ep = "running" /\ Settled /\ Quiet
    BY <1>2, <1>8 DEF AfterOk, Quiet
  <2>3. ~dev.pending
    BY <1>3, <1>8 DEF CallOK
  <2> QED BY <1>1, <1>2, <1>3, <1>4, <1>6, <1>8, <2>1, <2>2, <2>3, ReturnLive
<1>9. CASE /\ call.what = "configure" /\ ~call.ok
           /\ Command("disable", Er, evs) /\ ready' = ready /\ dev' = dev
  <2>1. (dev.kind \in Pair => ~dev.pending /\ Of("endpoint") = {} /\ Quiet) /\ ~dev.active
    BY <1>1, <1>3, <1>9 DEF PairOK, Pair, CallOK
  <2> QED BY <1>1, <1>2, <1>3, <1>4, <1>5, <1>6, <1>9, <2>1, CommandLive DEF Quiet
<1>10. CASE /\ call.what = "disable"
            /\ dev' = IF call.ok THEN NoDevice ELSE [dev EXCEPT !.active = @ /\ dev.kind # "bulk"]
            /\ Return("commands") /\ ready' = ready
  <2>1. CASE call.ok
    <3>1. dev' \in Devices /\ dev'.kind = "none" /\ ~dev'.active
      BY <1>10, <2>1 DEF NoDevice, Devices
    <3>2. ep = "disabled" /\ EvP = {} /\ dev'.kind \notin Pair
      BY <1>2, <1>10, <2>1, <3>1 DEF AfterOk, Pair
    <3> QED BY <1>1, <1>2, <1>4, <1>6, <1>10, <3>1, <3>2, ReturnLive
  <2>2. CASE ~call.ok
    <3>1. /\ dev' \in Devices /\ dev'.kind = dev.kind /\ dev'.pending = dev.pending
          /\ dev'.failed = dev.failed /\ (dev'.active => dev.active /\ dev.kind # "bulk")
      <4>1. (dev.active /\ dev.kind # "bulk") \in BOOLEAN
        BY <1>3 DEF Devices
      <4> QED BY <1>3, <1>10, <2>2, <4>1 DEF Devices
    <3>2. dev.kind \in Pair => ~dev.pending /\ Of("endpoint") = {} /\ Quiet
      BY <1>1, <1>3, <1>10 DEF PairOK, Pair
    <3>3. dev'.active => ep # "disabled" /\ (dev.kind \in Pair => Settled)
      BY <1>2, <1>3, <1>10, <2>2, <3>1 DEF UsedOK, Accepted, Pair
    <3> QED BY <1>1, <1>2, <1>3, <1>4, <1>6, <1>10, <3>1, <3>2, <3>3, ReturnLive
  <2> QED BY <2>1, <2>2
<1>11. CASE /\ call.what \in {"stop", "reset"} /\ call.ok
            /\ Command("dequeue", RingInit, AgedEvents("endpoint")) /\ ready' = ready /\ dev' = dev
  <2>1. dev.kind \in Pair /\ dev.kind # "interrupt"
    BY <1>3, <1>11 DEF MouseOK, Devices, Pair
  <2>2. ~dev.pending /\ Of("endpoint") = {} /\ ep = "stopped"
    BY <1>2, <1>3, <1>11, <2>1 DEF PairOK, Pair, AfterOk
  <2> QED BY <1>1, <1>2, <1>3, <1>4, <1>5, <1>6, <1>11, <2>1, <2>2, CommandLive
<1>12. CASE /\ call.what = "dequeue" /\ call.ok /\ dev.kind = "bulk"
            /\ Command("disable", Er, evs) /\ ready' = ready /\ dev' = dev
  <2>1. ~dev.pending /\ Of("endpoint") = {} /\ ep # "running"
    BY <1>2, <1>3, <1>12 DEF PairOK
  <2> QED BY <1>1, <1>2, <1>3, <1>4, <1>5, <1>6, <1>12, <2>1, CommandLive
<1>13. CASE /\ call.what = "dequeue" /\ call.ok /\ dev.kind # "bulk"
            /\ Return("commands") /\ ready' = ready /\ dev' = dev
  <2>1. dev.kind = "control"
    BY <1>3, <1>13 DEF MouseOK, Devices
  <2>2. ~dev.pending /\ Of("endpoint") = {} /\ ep = "stopped" /\ Settled /\ Quiet
    BY <1>2, <1>3, <1>13, <2>1 DEF PairOK, AfterOk, Quiet
  <2> QED BY <1>1, <1>2, <1>3, <1>4, <1>6, <1>13, <2>1, <2>2, ReturnLive
<1> QED BY <1>7, <1>8, <1>9, <1>10, <1>11, <1>12, <1>13, StopRings

(* usb_xhci_poll(): a failed mouse is disabled, a finished report asked for again. *)
LEMMA CheckMouseRings == ASSUME RingsInv, ready, CheckMouse PROVE RingsInv'
<1>1. LiveRings /\ call.mixed = FALSE /\ call.name = "none" /\ call.pc = "check"
  BY DEF RingsInv, CheckMouse
<1>2. RingsTypeOK /\ CSynced /\ CLeft = 0 /\ Of("commands") = {} /\ EventsOK /\ MouseOK
  BY <1>1, NoCommand DEF LiveRings
<1>3. dev.kind = "interrupt" /\ dev.active /\ ep # "disabled" /\ dev \in Devices /\ Shape(Er)
  BY <1>1, <1>2 DEF LiveRings, CallOK, MouseOK, RingsTypeOK
<1>4. UNCHANGED Hardware /\ ready' = ready
  BY DEF CheckMouse
<1>5. CASE dev.pending /\ Return("none") /\ UNCHANGED <<dev, ep>>
  <2>1. "none" \in Names \cup {"none"} /\ "interrupt" \notin Pair
    BY DEF Pair
  <2> QED BY <1>1, <1>2, <1>3, <1>4, <1>5, <2>1, ReturnLive
<1>6. CASE ~dev.pending /\ dev.failed /\ Command("disable", ring["endpoint"], evs)
           /\ UNCHANGED <<dev, ep>>
  <2>1. Command("disable", Er, evs) /\ Kept(evs, {}) /\ "disable" \in CommandNames
        /\ "interrupt" \notin Pair
    BY <1>2, <1>6, SameKept DEF Er, CommandNames, Pair
  <2> QED BY <1>1, <1>2, <1>3, <1>4, <1>6, <2>1, CommandLive
<1>7. CASE /\ ~dev.pending /\ ~dev.failed
           /\ ring' = [ring EXCEPT !["endpoint"] = Enqueue(@, "normal")]
           /\ dev' = [dev EXCEPT !.pending = TRUE]
           /\ Doorbell
           /\ call' = [Idle EXCEPT !.mixed = call.mixed] /\ UNCHANGED evs
  <2> DEFINE q == Enqueue(Er, "normal")
  <2>1. Of("endpoint") = {} /\ Settled
    BY <1>2, <1>3, <1>7 DEF MouseOK, Settled
  <2>2. EvP = {}
    BY <1>2, <2>1, QueuedIs
  <2>3. /\ InLap(q, Ed) /\ Out(q, Ed) = 1 /\ \A i \in Outst(q, Ed) : ~q.trbs[i].old
    <3>1. "normal" \in Whats \ {"link"} /\ 0 \in 0..2 /\ 0 + 1 = 1
      BY DEF Whats
    <3> QED BY <2>1, <3>1, SettledEmpty, EnqueueFresh DEF Settled, Synced, Left
  <2>4. /\ Er' = q /\ Cr' = Cr /\ Ed' = Ed /\ Cd' = Cd /\ DOMAIN ring' = Names /\ DOMAIN deq' = Names
    BY <1>2, <1>4, <1>7 DEF Er, Ed, Cr, Cd, RingsTypeOK, Names, Hardware
  <2> HIDE DEF q
  <2>5. Synced' /\ Left' = 1 /\ Fresh' /\ Shape(Er')
    BY <2>3, <2>4 DEF Synced, Left, Fresh, InLap
  <2>6. EventsOK' /\ EvP' = {} /\ Of("commands")' = {} /\ Of("endpoint")' = {}
    BY <1>2, <1>4, <1>7, <2>2 DEF EventsOK, EvP, Of, Hardware
  <2>7. CSynced' /\ CLeft' = 0
    BY <1>2, <2>4 DEF CSynced, CLeft
  <2>8. /\ call'.mixed = FALSE /\ call'.pc = "idle" /\ call'.name = "none" /\ call'.what = "none"
        /\ ~call'.done /\ call' \in Calls
    <3>1. 0 \in Posts /\ 0 \in Nat
      BY RingsAssumption DEF Posts
    <3> QED BY <1>1, <1>7, <3>1 DEF Idle, Calls, Names
  <2>9. dev' \in Devices /\ dev'.kind = "interrupt" /\ dev'.pending /\ ~dev'.failed
    BY <1>3, <1>7 DEF Devices
  <2>10. ep' \in {"running", "halted"}
    BY <1>2, <1>3, <1>7 DEF Doorbell, RingsTypeOK
  <2>11. RingsTypeOK'
    BY <2>4, <2>5, <2>6, <2>8, <2>9, <2>10 DEF RingsTypeOK
  <2>12. CallOK' /\ NoneOK' /\ CommandsOK' /\ TransferOK' /\ PairOK'
    BY <2>6, <2>7, <2>8, <2>9 DEF CallOK, NoneOK, CommandsOK, TransferOK, PairOK
  <2>13. MouseOK'
    <3>1. 1 <= 1
      OBVIOUS
    <3> QED BY <2>5, <2>6, <2>8, <2>9, <2>10, <3>1 DEF MouseOK
  <2> QED BY <1>4, <2>8, <2>11, <2>12, <2>13 DEF RingsInv, LiveRings, UsedOK
<1> QED BY <1>5, <1>6, <1>7 DEF CheckMouse

(* events() takes the oldest event: a wait it ends is ended by its own answer. *)
LEMMA ConsumeRings == ASSUME RingsInv, ready, Consume PROVE RingsInv'
<1> DEFINE a == evAt.at
           e == evs[a]
<1>1. LiveRings /\ call.mixed = FALSE /\ call \in Calls /\ dev \in Devices /\ EventsOK
  BY DEF RingsInv, LiveRings, RingsTypeOK
<1>2. /\ call.pc = "poll" /\ Visible /\ ring' = ring /\ deq' = deq /\ evPut' = evPut
      /\ ready' = ready /\ ep' = ep /\ evAt' = Step(evAt, Events)
      /\ call' = IF Answers(e)
                 THEN [call EXCEPT !.done = TRUE, !.ok = e.code # "error",
                                   !.mixed = @ \/ e.old]
                 ELSE [call EXCEPT !.mixed = @ \/ (Reported(e) /\ e.old)]
      /\ dev' = IF Reported(e)
                THEN [dev EXCEPT !.pending = FALSE, !.failed = e.code = "error"] ELSE dev
      /\ evs' = [evs EXCEPT ![evAt.at] = [NoEvent EXCEPT !.cycle = e.cycle]]
  BY DEF Consume
<1>3. a \in EvP /\ (a = LastEv => EvP = {a}) /\ e \in EventRecs
  BY <1>1, <1>2, VisibleIs, QueuedIs
<1>4. EventsOK' /\ EvP' = EvP \ {a} /\ LastEv' = LastEv /\ \A i \in EvP' : evs'[i] = evs[i]
  BY <1>1, <1>2, ConsumeIs
<1>5. ASSUME NEW n PROVE Of(n)' = Of(n) \ {a}
  BY <1>4 DEF Of
<1>6. a \in Of(e.name) /\ e.name \in {"commands", "endpoint"}
  BY <1>3 DEF Of, EventRecs, Names
<1>7. /\ Left' = Left /\ Synced' = Synced /\ Fresh' = Fresh /\ CSynced' = CSynced
      /\ CLeft' = CLeft /\ Blank' = Blank /\ Shape(Er)' = Shape(Er) /\ Er' = Er /\ Cr' = Cr
  BY <1>2 DEF Left, Synced, Fresh, Er, Ed, CSynced, CLeft, Cr, Cd, Blank
<1> HIDE DEF e, a
<1>8. e.name = "commands" => /\ call.name = "commands" /\ Answered /\ Of("commands") = {a}
                             /\ e.at = call.at /\ ~e.old
                             /\ e.code # "error" => EvP = {a} /\ AfterOk
  BY <1>1, <1>3, <1>6 DEF LiveRings, CommandsOK, Posted, Answered, DoneCommand, e
<1>9. e.name = "endpoint" /\ call.name = "endpoint" =>
        /\ dev.kind \in Pair /\ ~call.done /\ ~e.old
        /\ Ends(a) => /\ EvP = {a}
                      /\ e.code = "error" => ep = "halted"
                      /\ e.code # "error" => Left = 0
        /\ dev.kind = "bulk" => Ends(a)
  BY <1>1, <1>3 DEF LiveRings, TransferOK, Pair, e
<1>10. Reported(e) => /\ call.name # "endpoint" /\ ~e.old /\ Of("endpoint") = {a}
                      /\ ep # "disabled" /\ e.code = "error" => ep = "halted"
                      /\ ep # "disabled" /\ e.code # "error" => Left = 0
  BY <1>1, <1>6 DEF Reported, LiveRings, MouseOK, e
<1>11. Answers(e) => ~e.old /\ ~Reported(e)
  BY <1>8, <1>9 DEF Answers, Reported, Pair
<1>12. /\ call'.mixed = FALSE /\ call' \in Calls /\ call'.pc = "poll" /\ call'.name = call.name
       /\ call'.what = call.what /\ call'.at = call.at
       /\ Answers(e) => call'.done = TRUE /\ call'.ok = (e.code # "error")
       /\ ~Answers(e) => call'.done = call.done /\ call'.ok = call.ok
  <2>1. CASE Answers(e)
    BY <1>1, <1>2, <1>11, <2>1 DEF Calls
  <2>2. CASE ~Answers(e)
    BY <1>1, <1>2, <1>10, <2>2 DEF Calls
  <2> QED BY <2>1, <2>2
<1>13. /\ dev' \in Devices /\ dev'.kind = dev.kind /\ dev'.active = dev.active
       /\ Reported(e) => ~dev'.pending /\ (dev'.failed <=> e.code = "error")
       /\ ~Reported(e) => dev'.pending = dev.pending /\ dev'.failed = dev.failed
  <2>1. (e.code = "error") \in BOOLEAN
    OBVIOUS
  <2> QED BY <1>1, <1>2, <2>1 DEF Devices
<1>14. RingsTypeOK'
  BY <1>1, <1>2, <1>4, <1>7, <1>12, <1>13 DEF LiveRings, RingsTypeOK
<1>15. CallOK'
  BY <1>1, <1>2, <1>6, <1>12, <1>13 DEF LiveRings, CallOK, Answers, Reported
<1>16. NoneOK'
  BY <1>1, <1>2, <1>13 DEF LiveRings, NoneOK
<1>17. PairOK'
  BY <1>1, <1>2, <1>5, <1>7, <1>12, <1>13 DEF LiveRings, PairOK, Quiet, Settled, Reported
<1>18. MouseOK'
  <2> SUFFICES ASSUME dev'.kind = "interrupt" PROVE MouseOK'
    BY DEF MouseOK
  <2>1. MouseOK /\ dev.kind = "interrupt"
    BY <1>1, <1>13 DEF LiveRings
  <2>2. CASE Reported(e)
    <3>1. Of("endpoint")' = {}
      BY <1>5, <1>10, <2>2
    <3> QED BY <1>2, <1>7, <1>10, <1>12, <1>13, <2>1, <2>2, <3>1 DEF MouseOK
  <2>3. CASE ~Reported(e)
    <3>1. \A i \in Of("endpoint")' : i \in Of("endpoint") /\ evs'[i] = evs[i]
      BY <1>4, <1>5 DEF Of
    <3>2. \A i \in Of("endpoint")' :
            /\ ~evs'[i].old /\ dev'.pending /\ \A j \in Of("endpoint")' : i = j
            /\ ep' # "disabled" /\ evs'[i].code = "error" => ep' = "halted"
            /\ ep' # "disabled" /\ evs'[i].code # "error" => Left' = 0
      BY <1>2, <1>7, <1>13, <2>1, <2>3, <3>1 DEF MouseOK
    <3> QED BY <1>2, <1>7, <1>12, <1>13, <2>1, <2>3, <3>2 DEF MouseOK
  <2> QED BY <2>2, <2>3
<1>19. TransferOK'
  <2> SUFFICES ASSUME call.name = "endpoint" PROVE TransferOK'
    BY <1>12 DEF TransferOK
  <2>1. TransferOK /\ e.name = "endpoint"
    BY <1>1, <1>6, <1>8 DEF LiveRings
  <2>2. TailOK'
    BY <1>7, <1>12, <2>1 DEF TransferOK, TailOK
  <2>3. Answers(e) <=> Ends(a)
    BY <1>9, <2>1 DEF Answers, Ends, e, Pair
  <2>4. \A i \in EvP' : i \in EvP /\ i # a /\ evs'[i] = evs[i] /\ (Ends(i)' <=> Ends(i))
    BY <1>4, <1>12 DEF Ends
  <2>5. CASE Ends(a)
    <3>1. EvP' = {}
      BY <1>4, <1>9, <2>1, <2>5
    <3> QED BY <1>2, <1>7, <1>9, <1>12, <1>13, <2>1, <2>2, <2>3, <2>5, <3>1 DEF TransferOK
  <2>6. CASE ~Ends(a)
    <3>1. ~call.done /\ ~call'.done
      BY <1>9, <1>12, <2>1, <2>3, <2>6
    <3>2. (\E i \in EvP : Ends(i)) => \E i \in EvP' : Ends(i)'
      BY <1>4, <2>4, <2>6
    <3>3. \A i \in EvP' : Ends(i)' =>
            /\ i = LastEv'
            /\ evs'[i].code = "error" => ep' = "halted"
            /\ evs'[i].code # "error" => Left' = 0
      BY <1>2, <1>4, <1>7, <2>1, <2>4, <3>1 DEF TransferOK
    <3>4. \A i \in EvP' : ~evs'[i].old /\ (dev.kind = "bulk" => Ends(i)')
      BY <2>1, <2>4, <3>1 DEF TransferOK
    <3>5. Left' > 0 \/ \E i \in EvP' : Ends(i)'
      BY <1>7, <2>1, <3>1, <3>2 DEF TransferOK
    <3> QED BY <1>2, <1>7, <1>12, <1>13, <2>1, <2>2, <3>1, <3>3, <3>4, <3>5 DEF TransferOK
  <2> QED BY <2>5, <2>6
<1>20. CommandsOK'
  <2>1. CommandsOK
    BY <1>1 DEF LiveRings
  <2>2. CASE call.name # "commands"
    BY <1>5, <1>7, <1>12, <2>1, <2>2 DEF CommandsOK
  <2>3. CASE call.name = "commands"
    <3>1. AfterOk' = AfterOk /\ CTailOK' = CTailOK
      BY <1>2, <1>7, <1>12 DEF AfterOk, CTailOK, Settled
    <3>2. CASE e.name = "commands"
      <4>1. Answers(e) /\ Of("commands")' = {} /\ CLeft' = 0
        BY <1>5, <1>7, <1>8, <2>3, <3>2 DEF Answers, Answered
      <4>2. call'.ok => EvP' = {} /\ AfterOk'
        BY <1>4, <1>8, <1>12, <3>1, <3>2, <4>1
      <4>3. call.what = "dequeue" => ep # "running"
        BY <1>8, <3>2 DEF Answered
      <4>4. DoneCommand'
        BY <1>2, <1>12, <4>1, <4>2, <4>3 DEF DoneCommand
      <4> QED BY <1>7, <1>12, <2>1, <2>3, <4>4 DEF CommandsOK
    <3>3. CASE e.name = "endpoint"
      <4>1. ~Answers(e) /\ a \notin Of("commands")
        BY <2>3, <3>3 DEF Answers, Of, e
      <4>2. Of("commands")' = Of("commands")
        BY <1>5, <4>1
      <4>3. Posted => Posted'
        BY <1>2, <1>7, <1>12, <3>1, <4>1, <4>2 DEF Posted
      <4>4. Answered => Answered'
        <5> SUFFICES ASSUME Answered PROVE Answered'
          OBVIOUS
        <5>1. PICK i \in EvP : /\ Of("commands") = {i} /\ evs[i].at = call.at /\ ~evs[i].old
                               /\ evs[i].code # "error" => i = LastEv /\ AfterOk
          BY DEF Answered
        <5>2. i \in EvP' /\ evs'[i] = evs[i]
          BY <1>4, <4>1, <5>1
        <5> QED BY <1>2, <1>4, <1>7, <1>12, <3>1, <4>1, <4>2, <5>1, <5>2 DEF Answered
      <4>5. ~(DoneCommand /\ call.ok)
        BY <1>3 DEF DoneCommand
      <4>6. DoneCommand => DoneCommand'
        BY <1>2, <1>7, <1>12, <4>1, <4>2, <4>5 DEF DoneCommand
      <4> QED BY <1>7, <1>12, <2>1, <2>3, <4>3, <4>4, <4>6 DEF CommandsOK
    <3> QED BY <1>6, <3>2, <3>3
  <2> QED BY <2>2, <2>3
<1>21. UsedOK'
  <2>1. UsedOK /\ (call.what = "disable" /\ Accepted => Accepted')
    <3>1. CASE e.name = "commands"
      <4>1. Answers(e)
        BY <1>8, <3>1 DEF Answers
      <4>2. Accepted => e.code # "error"
        BY <1>8, <3>1 DEF Accepted, Answered, e
      <4> QED BY <1>1, <1>12, <4>1, <4>2 DEF LiveRings, Accepted
    <3>2. CASE e.name = "endpoint"
      <4>1. Of("commands")' = Of("commands") /\ \A i \in Of("commands")' : evs'[i] = evs[i]
        BY <1>4, <1>5, <3>2 DEF Of, e
      <4>2. call.done /\ call.ok /\ call.what = "disable" => call'.done /\ call'.ok
        BY <1>1, <1>12, <3>2 DEF Answers, LiveRings, CallOK
      <4> QED BY <1>1, <4>1, <4>2 DEF LiveRings, Accepted
    <3> QED BY <1>6, <3>1, <3>2
  <2> QED BY <1>2, <1>7, <1>12, <1>13, <2>1 DEF UsedOK, Settled
<1> QED BY <1>2, <1>12, <1>14, <1>15, <1>16, <1>17, <1>18, <1>19, <1>20, <1>21
    DEF RingsInv, LiveRings

-----------------------------------------------------------------------------
(* The controller. *)

(* Where the controller reads, in the terms of the lemmas on rings. *)
LEMMA AheadSame == Ahead("endpoint") = AheadOf(Er, Ed) /\ Ahead("commands") = AheadOf(Cr, Cd)
BY DEF Ahead, AheadOf, Er, Ed, Cr, Cd

(* The controller owns a TRB of the endpoint exactly if one is left to do. *)
LEMMA OwnedEndpoint ==
  ASSUME Synced
  PROVE  /\ Owned("endpoint") <=> Left > 0
         /\ Left > 0 => /\ Ahead("endpoint").at \in Posts
                        /\ Er.trbs[Ahead("endpoint").at] \in Trbs
                        /\ Fresh => ~Er.trbs[Ahead("endpoint").at].old
                        /\ Left = 1 <=> Ahead("endpoint").at = Er.next - 1
                        /\ Left \in Nat
<1>1. LET a == AheadOf(Er, Ed)
      IN  /\ Er.trbs[a.at].cycle = a.cycle <=> Out(Er, Ed) > 0
          /\ Out(Er, Ed) > 0 => /\ a.at \in Outst(Er, Ed) /\ a.at \in Posts
                                /\ (Out(Er, Ed) = 1 <=> a.at = Er.next - 1)
  BY AheadIs DEF Synced
<1>2. (\A i \in Posts : Er.trbs[i] \in Trbs) /\ Out(Er, Ed) \in Nat
  BY InLapIs DEF Synced
<1>3. Owned("endpoint") <=> Er.trbs[Ahead("endpoint").at].cycle = Ahead("endpoint").cycle
  BY DEF Owned, Er
<1> QED BY <1>1, <1>2, <1>3, AheadSame DEF Left, Fresh

(* Likewise of the command ring. *)
LEMMA OwnedCommands ==
  ASSUME CSynced
  PROVE  /\ Owned("commands") <=> CLeft > 0
         /\ CLeft > 0 => /\ Ahead("commands").at \in Posts
                         /\ Cr.trbs[Ahead("commands").at] \in Trbs
                         /\ CLeft = 1 <=> Ahead("commands").at = Cr.next - 1
<1>1. LET a == AheadOf(Cr, Cd)
      IN  /\ Cr.trbs[a.at].cycle = a.cycle <=> Out(Cr, Cd) > 0
          /\ Out(Cr, Cd) > 0 => /\ a.at \in Posts
                                /\ (Out(Cr, Cd) = 1 <=> a.at = Cr.next - 1)
  BY AheadIs DEF CSynced
<1>2. \A i \in Posts : Cr.trbs[i] \in Trbs
  BY InLapIs DEF CSynced
<1>3. Owned("commands") <=> Cr.trbs[Ahead("commands").at].cycle = Ahead("commands").cycle
  BY DEF Owned, Cr
<1> QED BY <1>1, <1>2, <1>3, AheadSame DEF CLeft

(* The controller executes a TRB of the endpoint. *)
LEMMA AdvanceEndpoint ==
  ASSUME DOMAIN ring = Names, DOMAIN deq = Names, Synced, Left > 0, Advance("endpoint")
  PROVE  /\ Synced' /\ Left' = Left - 1 /\ Er'.next = Er.next /\ (Fresh => Fresh') /\ Shape(Er)'
         /\ \A i \in Posts : i # Ahead("endpoint").at => Er'.trbs[i] = Er.trbs[i]
         /\ Cr' = Cr /\ Cd' = Cd /\ DOMAIN ring' = Names /\ DOMAIN deq' = Names
<1> DEFINE a == AheadOf(Er, Ed)
           r2 == Written(Er, a.at, [NoTrb EXCEPT !.cycle = a.cycle])
           d2 == [at |-> a.at + 1, cycle |-> a.cycle]
<1>1. /\ InLap(r2, d2) /\ Out(r2, d2) = Out(Er, Ed) - 1 /\ r2.next = Er.next
      /\ \A i \in Outst(r2, d2) : i \in Outst(Er, Ed) /\ r2.trbs[i] = Er.trbs[i]
      /\ \A i \in Posts : i # a.at => r2.trbs[i] = Er.trbs[i]
  BY AdvanceIs DEF Synced, Left
<1>2. Er' = r2
  BY AheadSame DEF Advance, Spent, Written, Er, Names
<1>3. Ed' = d2
  BY AheadSame DEF Advance, Beyond, Ed, Names
<1>4. Cr' = Cr /\ Cd' = Cd /\ DOMAIN ring' = Names /\ DOMAIN deq' = Names
  BY DEF Advance, Spent, Cr, Cd, Names
<1> HIDE DEF a, r2, d2
<1>5. Shape(r2)
  BY <1>1 DEF InLap
<1> QED BY <1>1, <1>2, <1>3, <1>4, <1>5, AheadSame DEF Synced, Left, Fresh, a

(* The controller executes the command that is posted. *)
LEMMA AdvanceCommands ==
  ASSUME DOMAIN ring = Names, DOMAIN deq = Names, CSynced, CLeft = 1, Spent("commands"),
         DOMAIN deq' = Names, deq'["commands"] = Beyond("commands")
  PROVE  CSynced' /\ CLeft' = 0 /\ Er' = Er /\ DOMAIN ring' = Names
<1> DEFINE a == AheadOf(Cr, Cd)
           r2 == Written(Cr, a.at, [NoTrb EXCEPT !.cycle = a.cycle])
           d2 == [at |-> a.at + 1, cycle |-> a.cycle]
           o == Out(Cr, Cd)
           p == Out(r2, d2)
<1>1. o = 1
  BY DEF CLeft
<1>2. o > 0
  <2> HIDE DEF o
  <2> QED BY <1>1
<1>3. InLap(r2, d2) /\ p = o - 1
  BY <1>2, AdvanceIs DEF CSynced
<1>4. p = 0
  <2> HIDE DEF o, p
  <2> QED BY <1>1, <1>3
<1>5. Cr' = r2
  BY AheadSame DEF Spent, Written, Cr, Names
<1>6. Cd' = d2
  BY AheadSame DEF Beyond, Cd, Names
<1>7. Er' = Er /\ DOMAIN ring' = Names
  BY DEF Spent, Er, Names
<1> HIDE DEF r2, d2
<1> QED BY <1>3, <1>4, <1>5, <1>6, <1>7 DEF CSynced, CLeft

(* An event behind the queued ones. *)
LEMMA PostEvent ==
  ASSUME EventsOK, Room, NEW n \in Names, NEW code \in {"ok", "short", "error"},
         NEW old \in BOOLEAN, Ahead(n).at \in Posts, Post(n, code, old), evAt' = evAt
  PROVE  LET p == evPut.at
         IN  /\ EventsOK' /\ EvP' = EvP \cup {p} /\ p \notin EvP /\ LastEv' = p
             /\ evs'[p].name = n /\ evs'[p].at = Ahead(n).at /\ evs'[p].code = code
             /\ evs'[p].old = old /\ Of(n)' = Of(n) \cup {p}
             /\ \A m : m # n => Of(m)' = Of(m)
             /\ \A i \in EvP : evs'[i] = evs[i]
<1> DEFINE p == evPut.at
           e == [cycle |-> evPut.cycle, name |-> n, at |-> Ahead(n).at, code |-> code, old |-> old]
<1>1. evPut.cycle \in 0..1
  BY DEF EventsOK, Marks
<1>2. e \in EventRecs /\ e.cycle = evPut.cycle
  BY <1>1 DEF EventRecs
<1>3. evs' = [evs EXCEPT ![evPut.at] = e] /\ evPut' = Step(evPut, Events)
  BY DEF Post
<1>4. e.name = n /\ e.at = Ahead(n).at /\ e.code = code /\ e.old = old
  OBVIOUS
<1> HIDE DEF e
<1>5. /\ EventsOK' /\ EvP' = EvP \cup {p} /\ p \notin EvP /\ LastEv' = p
      /\ evs'[p] = e /\ \A i \in EvP : evs'[i] = evs[i]
  BY <1>2, <1>3, PostIs
<1> HIDE DEF p
<1>6. Of(n)' = Of(n) \cup {p}
  BY <1>4, <1>5 DEF Of
<1>7. ASSUME NEW m, m # n PROVE Of(m)' = Of(m)
  BY <1>4, <1>5, <1>7 DEF Of
<1> QED BY <1>4, <1>5, <1>6, <1>7 DEF p

(* A command under way is not disturbed by a transfer: none of those that *)
(* succeeded leaves a running endpoint with something to do.              *)
LEMMA TransferAside ==
  ASSUME CommandsOK, ep = "running", Left > 0, Cr' = Cr, Cd' = Cd, call' = call,
         Of("commands")' = Of("commands"), EvP \subseteq EvP', \A i \in EvP : evs'[i] = evs[i]
  PROVE  CommandsOK'
<1>1. CSynced' /\ CLeft' = CLeft /\ CTailOK' = CTailOK
  BY DEF CommandsOK, CSynced, CLeft, CTailOK
<1>2. CASE call.name # "commands"
  BY <1>1, <1>2 DEF CommandsOK
<1>3. CASE call.name = "commands"
  <2>1. call.what \in CommandNames /\ (Posted \/ Answered \/ DoneCommand)
    BY <1>3 DEF CommandsOK
  <2>2. ~AfterOk
    <3>1. Left # 0
      <4> DEFINE o == Left
      <4>1. o > 0
        OBVIOUS
      <4> HIDE DEF o
      <4>2. o # 0
        BY <4>1
      <4> QED BY <4>2 DEF o
    <3> QED BY <2>1, <3>1 DEF AfterOk, CommandNames, Settled
  <2>3. Posted => Posted'
    BY <1>1 DEF Posted
  <2>4. Answered => Answered'
    <3> SUFFICES ASSUME Answered PROVE Answered'
      OBVIOUS
    <3>1. PICK i \in EvP : /\ Of("commands") = {i} /\ evs[i].at = call.at /\ ~evs[i].old
                           /\ evs[i].code = "error"
      BY <2>2 DEF Answered
    <3>2. i \in EvP' /\ evs'[i] = evs[i]
      BY <3>1
    <3> QED BY <1>1, <3>1, <3>2 DEF Answered
  <2>5. DoneCommand => DoneCommand'
    BY <1>1, <2>2 DEF DoneCommand
  <2> QED BY <1>1, <1>3, <2>1, <2>3, <2>4, <2>5 DEF CommandsOK
<1> QED BY <1>2, <1>3

(* Whose TRBs a running endpoint can have left to do. *)
LEMMA RunningIs ==
  ASSUME LiveRings, ep = "running", Owned("endpoint")
  PROVE  /\ Synced /\ Left > 0
         /\ \/ call.name = "endpoint" /\ dev.kind \in Pair /\ ~call.done
            \/ /\ dev.kind = "interrupt" /\ dev.pending /\ ~dev.failed /\ Of("endpoint") = {}
               /\ call.name # "endpoint"
            \/ dev.kind \in Pair /\ call.name # "endpoint" /\ call.what \in {"stop", "reset"}
<1>1. ~Settled
  <2> SUFFICES ASSUME Settled PROVE FALSE
    OBVIOUS
  <2> DEFINE o == Left
  <2>1. o > 0 /\ o = 0
    BY OwnedEndpoint DEF Settled
  <2> HIDE DEF o
  <2> QED BY <2>1
<1>2. dev.kind \in Pair \/ dev.kind = "interrupt"
  BY DEF LiveRings, NoneOK, RingsTypeOK, Devices, Pair
<1>3. CASE dev.kind = "interrupt"
  <2>1. Synced /\ call.name # "endpoint" /\ ~dev.failed
    BY <1>3 DEF LiveRings, MouseOK
  <2>2. Left > 0 /\ Left # 0
    BY <1>1, <2>1, OwnedEndpoint DEF Settled
  <2> QED BY <1>3, <2>1, <2>2 DEF LiveRings, MouseOK
<1>4. CASE dev.kind \in Pair /\ call.name = "endpoint"
  <2>1. Synced
    BY <1>4 DEF LiveRings, TransferOK
  <2>2. Left > 0 /\ Left # 0
    BY <1>1, <2>1, OwnedEndpoint DEF Settled
  <2> QED BY <1>4, <2>1, <2>2 DEF LiveRings, TransferOK
<1>5. CASE dev.kind \in Pair /\ call.name # "endpoint"
  <2>1. call.what \in {"stop", "reset"} /\ Synced
    BY <1>1, <1>5 DEF LiveRings, PairOK, Pair, Quiet
  <2>2. Left > 0
    BY <2>1, OwnedEndpoint
  <2> QED BY <1>5, <2>1, <2>2
<1> QED BY <1>2, <1>3, <1>4, <1>5

(* One TRB of a running endpoint. *)
LEMMA HcTransferRings == ASSUME RingsInv, ready, HcTransfer PROVE RingsInv'
<1> DEFINE a == Ahead("endpoint").at
           t == Er.trbs[a]
           K == \/ call.name = "endpoint" /\ dev.kind \in Pair /\ ~call.done
                \/ /\ dev.kind = "interrupt" /\ dev.pending /\ ~dev.failed /\ Of("endpoint") = {}
                   /\ call.name # "endpoint"
                \/ dev.kind \in Pair /\ call.name # "endpoint" /\ call.what \in {"stop", "reset"}
<1>0. PICK p : p = evPut.at
  OBVIOUS
<1>1. LiveRings /\ call.mixed = FALSE
  BY DEF RingsInv
<1>2. /\ ep = "running" /\ Owned("endpoint") /\ Room /\ evAt' = evAt /\ ready' = ready
      /\ dev' = dev /\ call' = call
      /\ \/ /\ t.what \in {"setup", "data"} /\ Advance("endpoint")
            /\ evs' = evs /\ evPut' = evPut /\ ep' = ep
         \/ /\ t.what \in {"data", "status", "normal"} /\ Advance("endpoint")
            /\ Post("endpoint", IF t.what = "data" THEN "short" ELSE "ok", t.old) /\ ep' = ep
         \/ Post("endpoint", "error", t.old) /\ ep' = "halted" /\ deq' = deq /\ ring' = ring
  BY DEF HcTransfer, Er
<1>3. Synced /\ Left > 0 /\ K
  BY <1>1, <1>2, RunningIs
<1>4. /\ RingsTypeOK /\ CommandsOK /\ CallOK /\ TransferOK /\ MouseOK /\ PairOK /\ EventsOK
      /\ DOMAIN ring = Names /\ DOMAIN deq = Names /\ Shape(Er)
  BY <1>1 DEF LiveRings, RingsTypeOK
<1>5. /\ a \in Posts /\ t \in Trbs /\ (Fresh => ~t.old) /\ (Left = 1 <=> a = Er.next - 1)
      /\ Left \in Nat
  BY <1>3, OwnedEndpoint
<1>6. /\ Left # 0 /\ Left - 1 \in Nat /\ (Left # 1 => Left - 1 > 0) /\ (Left = 1 => Left - 1 = 0)
      /\ (Left <= 1 => Left = 1) /\ (Left <= 1 => Left - 1 <= 1) /\ (Left <= 3 => Left - 1 <= 3)
  <2> DEFINE o == Left
  <2>1. o > 0 /\ o \in Nat
    BY <1>3, <1>5
  <2> HIDE DEF o
  <2>2. /\ o # 0 /\ o - 1 \in Nat /\ (o # 1 => o - 1 > 0) /\ (o = 1 => o - 1 = 0)
        /\ (o <= 1 => o = 1) /\ (o <= 1 => o - 1 <= 1) /\ (o <= 3 => o - 1 <= 3)
    BY <2>1
  <2> QED BY <2>2 DEF o
<1>7. call.name = "endpoint" => /\ \A i \in EvP : ~Ends(i)
                                /\ dev.kind = "bulk" => EvP = {} /\ Left = 1
                                /\ ~t.old /\ (a = call.at <=> Left = 1) /\ call.at \in Posts
                                /\ t.what \in {"setup", "data"} => Left # 1
  <2> SUFFICES ASSUME call.name = "endpoint"
               PROVE  /\ \A i \in EvP : ~Ends(i)
                      /\ dev.kind = "bulk" => EvP = {} /\ Left = 1
                      /\ ~t.old /\ (a = call.at <=> Left = 1) /\ call.at \in Posts
                      /\ t.what \in {"setup", "data"} => Left # 1
    OBVIOUS
  <2>1. ~call.done
    BY <1>3
  <2>2. \A i \in EvP : ~Ends(i)
    BY <1>2, <1>4, <1>6, <2>1 DEF TransferOK
  <2>3. dev.kind = "bulk" => EvP = {} /\ Left = 1
    BY <1>4, <1>6, <2>1, <2>2 DEF TransferOK
  <2>4. ~t.old /\ (a = call.at <=> Left = 1)
    BY <1>4, <1>5 DEF TransferOK, TailOK
  <2>5. call.at \in Posts
    BY <1>4 DEF RingsTypeOK, Calls
  <2>6. t.what \in {"setup", "data"} => Left # 1
    BY <1>3, <1>4, <2>4 DEF TransferOK, TailOK
  <2> QED BY <2>2, <2>3, <2>4, <2>5, <2>6
<1> HIDE DEF K, t, a
<1>8. CASE /\ t.what \in {"setup", "data"} /\ Advance("endpoint")
           /\ evs' = evs /\ evPut' = evPut /\ ep' = ep
  <2>1. /\ Synced' /\ Left' = Left - 1 /\ Er'.next = Er.next /\ (Fresh => Fresh') /\ Shape(Er)'
        /\ \A i \in Posts : i # a => Er'.trbs[i] = Er.trbs[i]
        /\ Cr' = Cr /\ Cd' = Cd /\ DOMAIN ring' = Names /\ DOMAIN deq' = Names
    BY <1>3, <1>4, <1>8, AdvanceEndpoint DEF a
  <2>2. EventsOK' /\ EvP' = EvP /\ LastEv' = LastEv /\ \A n : Of(n)' = Of(n)
    BY <1>2, <1>4, <1>8 DEF EventsOK, EvP, LastEv, Of
  <2>3. RingsTypeOK' /\ CallOK'
    BY <1>2, <1>4, <1>8, <2>1, <2>2 DEF RingsTypeOK, CallOK
  <2>4. CommandsOK'
    BY <1>2, <1>3, <1>4, <1>8, <2>1, <2>2, TransferAside
  <2>5. TransferOK'
    <3> SUFFICES ASSUME call.name = "endpoint" PROVE TransferOK'
      BY <1>2 DEF TransferOK
    <3>1. TailOK' /\ Left' > 0 /\ dev.kind # "bulk" /\ Left' <= 3
      BY <1>2, <1>4, <1>6, <1>7, <1>8, <2>1 DEF TailOK, TransferOK
    <3>2. \A i \in EvP' : ~Ends(i)' /\ ~evs'[i].old
      BY <1>2, <1>4, <1>7, <1>8, <2>2 DEF Ends, TransferOK
    <3>3. ~call.done
      BY <1>3 DEF K
    <3> QED BY <1>2, <1>4, <1>8, <2>1, <3>1, <3>2, <3>3 DEF TransferOK
  <2>6. MouseOK'
    BY <1>2, <1>3, <1>4, <1>6, <1>8, <2>1, <2>2 DEF MouseOK, K, Pair
  <2>7. PairOK' /\ NoneOK'
    BY <1>2, <1>3, <1>4, <1>8, <2>1, <2>2 DEF PairOK, NoneOK, K, Pair, CallOK
  <2>8. UsedOK'
    BY <1>2, <1>3, <1>4, <1>8 DEF UsedOK, K, CallOK, Pair
  <2> QED BY <1>1, <1>2, <2>3, <2>4, <2>5, <2>6, <2>7, <2>8 DEF RingsInv, LiveRings
<1>9. ASSUME NEW code \in {"ok", "short", "error"}, Post("endpoint", code, t.old)
      PROVE  /\ EventsOK' /\ EvP' = EvP \cup {p} /\ p \notin EvP /\ LastEv' = p
             /\ evs'[p].at = a /\ evs'[p].code = code /\ evs'[p].old = t.old
             /\ Of("endpoint")' = Of("endpoint") \cup {p} /\ Of("commands")' = Of("commands")
             /\ \A i \in EvP : evs'[i] = evs[i]
  <2>1. t.old \in BOOLEAN /\ "endpoint" \in Names /\ Ahead("endpoint").at \in Posts
    BY <1>5 DEF Trbs, Names, a
  <2>2. "commands" # "endpoint"
    OBVIOUS
  <2> QED BY <1>0, <1>2, <1>4, <1>9, <2>1, <2>2, PostEvent DEF a
<1>10. CASE /\ t.what \in {"data", "status", "normal"} /\ Advance("endpoint")
            /\ Post("endpoint", IF t.what = "data" THEN "short" ELSE "ok", t.old) /\ ep' = ep
  <2> DEFINE code == IF t.what = "data" THEN "short" ELSE "ok"
  <2>1. /\ Synced' /\ Left' = Left - 1 /\ Er'.next = Er.next /\ (Fresh => Fresh') /\ Shape(Er)'
        /\ \A i \in Posts : i # a => Er'.trbs[i] = Er.trbs[i]
        /\ Cr' = Cr /\ Cd' = Cd /\ DOMAIN ring' = Names /\ DOMAIN deq' = Names
    BY <1>3, <1>4, <1>10, AdvanceEndpoint DEF a
  <2>2. code \in {"ok", "short", "error"} /\ code # "error"
    OBVIOUS
  <2> HIDE DEF code
  <2>3. /\ EventsOK' /\ EvP' = EvP \cup {p} /\ p \notin EvP /\ LastEv' = p
        /\ evs'[p].at = a /\ evs'[p].code # "error" /\ evs'[p].old = t.old
        /\ Of("endpoint")' = Of("endpoint") \cup {p} /\ Of("commands")' = Of("commands")
        /\ \A i \in EvP : evs'[i] = evs[i]
    BY <1>9, <1>10, <2>2 DEF code
  <2>4. RingsTypeOK' /\ CallOK'
    BY <1>2, <1>4, <1>10, <2>1, <2>3 DEF RingsTypeOK, CallOK
  <2>5. CommandsOK'
    BY <1>2, <1>3, <1>4, <2>1, <2>3, TransferAside
  <2>6. TransferOK'
    <3> SUFFICES ASSUME call.name = "endpoint" PROVE TransferOK'
      BY <1>2 DEF TransferOK
    <3>1. TailOK' /\ Left' <= 3 /\ (dev.kind = "bulk" => Left' <= 1)
      BY <1>2, <1>4, <1>6, <1>7, <2>1 DEF TailOK, TransferOK
    <3>2. ~call.done
      BY <1>3 DEF K
    <3>3. \A i \in EvP : ~Ends(i)' /\ ~evs'[i].old
      BY <1>2, <1>4, <1>7, <2>3 DEF Ends, TransferOK
    <3>4. Ends(p)' <=> Left = 1
      BY <1>2, <1>7, <2>3 DEF Ends
    <3>5. \A i \in EvP' : Ends(i)' => i = p /\ Left' = 0
      BY <1>6, <2>1, <2>3, <3>3, <3>4
    <3>6. \A i \in EvP' : ~evs'[i].old /\ (dev.kind = "bulk" => Ends(i)')
      BY <1>7, <2>3, <3>3, <3>4
    <3>7. Left' > 0 \/ \E i \in EvP' : Ends(i)'
      BY <1>6, <2>1, <2>3, <3>4
    <3>8. \A i \in EvP' : Ends(i)' => evs'[i].code # "error"
      BY <2>3, <3>5
    <3> QED BY <1>2, <1>4, <1>10, <2>1, <2>3, <3>1, <3>2, <3>5, <3>6, <3>7, <3>8 DEF TransferOK
  <2>7. MouseOK'
    <3> SUFFICES ASSUME dev.kind = "interrupt" PROVE MouseOK'
      BY <1>2 DEF MouseOK
    <3>1. Of("endpoint")' = {p} /\ dev.pending /\ ~dev.failed /\ Left = 1 /\ Left' = 0 /\ ~t.old
      BY <1>2, <1>3, <1>4, <1>5, <1>6, <2>1, <2>3 DEF K, Pair, MouseOK
    <3> QED BY <1>2, <1>4, <1>6, <1>10, <2>1, <2>3, <3>1 DEF MouseOK
  <2>8. PairOK' /\ NoneOK'
    BY <1>2, <1>3, <1>4, <1>10, <2>1 DEF PairOK, NoneOK, K, Pair, CallOK
  <2>9. UsedOK'
    BY <1>2, <1>3, <1>4, <1>10 DEF UsedOK, K, CallOK, Pair
  <2> QED BY <1>1, <1>2, <2>4, <2>5, <2>6, <2>7, <2>8, <2>9 DEF RingsInv, LiveRings
<1>11. CASE Post("endpoint", "error", t.old) /\ ep' = "halted" /\ deq' = deq /\ ring' = ring
  <2>1. /\ Synced' = Synced /\ Left' = Left /\ Er' = Er /\ Fresh' = Fresh /\ Cr' = Cr /\ Cd' = Cd
    BY <1>11 DEF Synced, Left, Fresh, Er, Ed, Cr, Cd
  <2>2. /\ EventsOK' /\ EvP' = EvP \cup {p} /\ p \notin EvP /\ LastEv' = p
        /\ evs'[p].code = "error" /\ evs'[p].old = t.old
        /\ Of("endpoint")' = Of("endpoint") \cup {p} /\ Of("commands")' = Of("commands")
        /\ \A i \in EvP : evs'[i] = evs[i]
    BY <1>9, <1>11
  <2>3. RingsTypeOK' /\ CallOK'
    BY <1>2, <1>4, <1>11, <2>1, <2>2 DEF RingsTypeOK, CallOK
  <2>4. CommandsOK'
    BY <1>2, <1>3, <1>4, <2>1, <2>2, TransferAside
  <2>5. TransferOK'
    <3> SUFFICES ASSUME call.name = "endpoint" PROVE TransferOK'
      BY <1>2 DEF TransferOK
    <3>1. TailOK' /\ ~call.done
      BY <1>2, <1>3, <1>4, <2>1 DEF TailOK, TransferOK, K
    <3>2. \A i \in EvP : ~Ends(i)' /\ ~evs'[i].old
      BY <1>2, <1>4, <1>7, <2>2 DEF Ends, TransferOK
    <3>3. \A i \in EvP' : /\ ~evs'[i].old /\ (dev.kind = "bulk" => i = p)
                          /\ Ends(i)' => i = p /\ evs'[i].code = "error"
      BY <1>7, <2>2, <3>2
    <3>4. p \in EvP' /\ Ends(p)'
      BY <2>2 DEF Ends
    <3> QED BY <1>2, <1>4, <1>11, <2>1, <2>2, <3>1, <3>3, <3>4 DEF TransferOK
  <2>6. MouseOK'
    <3> SUFFICES ASSUME dev.kind = "interrupt" PROVE MouseOK'
      BY <1>2 DEF MouseOK
    <3>1. Of("endpoint")' = {p} /\ dev.pending /\ ~dev.failed /\ ~t.old
      BY <1>2, <1>3, <1>4, <1>5, <2>2 DEF K, Pair, MouseOK
    <3> QED BY <1>2, <1>4, <1>11, <2>1, <2>2, <3>1 DEF MouseOK
  <2>7. PairOK' /\ NoneOK'
    BY <1>2, <1>3, <1>4, <1>11, <2>1 DEF PairOK, NoneOK, K, Pair, CallOK
  <2>8. UsedOK'
    BY <1>2, <1>3, <1>4, <1>11 DEF UsedOK, K, CallOK, Pair
  <2> QED BY <1>1, <1>2, <2>3, <2>4, <2>5, <2>6, <2>7, <2>8 DEF RingsInv, LiveRings
<1> QED BY <1>2, <1>8, <1>10, <1>11

(* The controller can only find the command that is waited for. *)
LEMMA CommandFound ==
  ASSUME LiveRings, Owned("commands")
  PROVE  LET t == Cr.trbs[Ahead("commands").at]
         IN  /\ call.name = "commands" /\ Posted /\ CSynced /\ CLeft = 1
             /\ call.what \in CommandNames /\ call.pc # "idle" /\ dev.kind # "none"
             /\ Ahead("commands").at = call.at /\ call.at \in Posts
             /\ t.what = call.what /\ ~t.old /\ t.old \in BOOLEAN
<1>1. CSynced /\ CommandsOK
  BY DEF LiveRings, CommandsOK
<1>2. CLeft # 0
  <2> DEFINE o == CLeft
  <2>1. o > 0
    BY <1>1, OwnedCommands
  <2> HIDE DEF o
  <2>2. o # 0
    BY <2>1
  <2> QED BY <2>2 DEF o
<1>3. call.name = "commands" /\ Posted /\ call.what \in CommandNames
  BY <1>1, <1>2 DEF CommandsOK, Answered, DoneCommand
<1>4. CLeft = 1 /\ CTailOK
  BY <1>3 DEF Posted
<1>5. Ahead("commands").at = call.at /\ Cr.trbs[call.at] \in Trbs /\ call.at \in Posts
  <2>1. Ahead("commands").at = Cr.next - 1 /\ Ahead("commands").at \in Posts
        /\ Cr.trbs[Ahead("commands").at] \in Trbs
    BY <1>1, <1>4, OwnedCommands
  <2> QED BY <1>4, <2>1 DEF CTailOK
<1>6. call.pc # "idle" /\ dev.kind # "none"
  BY <1>3 DEF LiveRings, CallOK, NoneOK
<1> QED BY <1>1, <1>3, <1>4, <1>5, <1>6 DEF CTailOK, Trbs

(* A command is executed: its answer is queued behind everything else. *)
LEMMA CommandExecuted ==
  ASSUME LiveRings, Owned("commands"), Room, call' = call, dev' = dev, evAt' = evAt,
         NEW code \in {"ok", "error"}, Post("commands", code, FALSE),
         Spent("commands"), DOMAIN deq' = Names, deq'["commands"] = Beyond("commands"),
         ep' \in {"disabled", "running", "stopped", "halted"},
         code # "error" => AfterOk', call.what = "dequeue" => ep' # "running"
  PROVE  /\ RingsTypeOK' /\ CallOK' /\ CommandsOK' /\ TransferOK' /\ NoneOK'
         /\ Er' = Er /\ Of("endpoint")' = Of("endpoint")
         /\ \A i \in Of("endpoint") : evs'[i] = evs[i]
         /\ \E i \in Of("commands")' : evs'[i].code = code
<1>1. /\ call.name = "commands" /\ Posted /\ CSynced /\ CLeft = 1
      /\ call.what \in CommandNames /\ call.pc # "idle" /\ dev.kind # "none"
      /\ Ahead("commands").at = call.at /\ call.at \in Posts
  BY CommandFound
<1>2. RingsTypeOK /\ EventsOK /\ CallOK
  BY DEF LiveRings, RingsTypeOK
<1>3. CSynced' /\ CLeft' = 0 /\ Er' = Er /\ DOMAIN ring' = Names
  BY <1>1, <1>2, AdvanceCommands DEF RingsTypeOK
<1>4. PICK p : p = evPut.at
  OBVIOUS
<1>5. /\ EventsOK' /\ EvP' = EvP \cup {p} /\ LastEv' = p
      /\ evs'[p].at = call.at /\ evs'[p].code = code /\ evs'[p].old = FALSE
      /\ Of("commands")' = Of("commands") \cup {p} /\ Of("endpoint")' = Of("endpoint")
      /\ \A i \in EvP : evs'[i] = evs[i]
  <2>1. "commands" \in Names /\ code \in {"ok", "short", "error"} /\ FALSE \in BOOLEAN
        /\ "endpoint" # "commands"
    BY DEF Names
  <2> QED BY <1>1, <1>2, <1>4, <2>1, PostEvent
<1>6. Of("commands")' = {p}
  BY <1>1, <1>5 DEF Posted
<1>7. \A i \in Of("endpoint") : evs'[i] = evs[i]
  BY <1>5 DEF Of
<1>8. RingsTypeOK'
  BY <1>2, <1>3, <1>5 DEF RingsTypeOK
<1>9. CallOK' /\ TransferOK' /\ NoneOK'
  BY <1>1, <1>2 DEF CallOK, TransferOK, NoneOK
<1>10. Answered'
  <2>1. ~call.done
    BY <1>1 DEF Posted
  <2> QED BY <1>3, <1>5, <1>6, <2>1 DEF Answered
<1>11. CommandsOK'
  BY <1>1, <1>3, <1>10 DEF CommandsOK
<1> QED BY <1>3, <1>5, <1>6, <1>7, <1>8, <1>9, <1>11

(* One command, done or refused; a stop first reports the transfer it interrupts. *)
LEMMA HcCommandRings == ASSUME RingsInv, ready, HcCommand PROVE RingsInv'
<1> DEFINE t == Cr.trbs[Ahead("commands").at]
<1>1. LiveRings /\ call.mixed = FALSE
  BY DEF RingsInv
<1>2. /\ Owned("commands") /\ Room /\ evAt' = evAt /\ ready' = ready /\ dev' = dev /\ call' = call
      /\ \/ /\ t.what = "stop" /\ ep = "running" /\ Owned("endpoint")
            /\ ep' = "stopped" /\ deq' = deq /\ ring' = ring
            /\ Post("endpoint", "error", ring["endpoint"].trbs[Ahead("endpoint").at].old)
         \/ /\ t.what = "stop" /\ (ep = "stopped" \/ (ep = "running" /\ ~Owned("endpoint")))
            /\ ep' = "stopped" /\ Advance("commands") /\ Post("commands", "ok", t.old)
         \/ /\ t.what = "reset" /\ ep = "halted"
            /\ ep' = "stopped" /\ Advance("commands") /\ Post("commands", "ok", t.old)
         \/ /\ t.what \in {"dequeue", "configure"}
            /\ ep = (IF t.what = "configure" THEN "disabled" ELSE "stopped")
            /\ ep' = IF t.what = "configure" THEN "running" ELSE ep
            /\ deq' = [endpoint |-> Start, commands |-> Beyond("commands")]
            /\ Spent("commands") /\ Post("commands", "ok", t.old)
         \/ /\ t.what = "disable"
            /\ ep' = "disabled" /\ Advance("commands") /\ Post("commands", "ok", t.old)
         \/ Advance("commands") /\ Post("commands", "error", t.old) /\ ep' = ep
  BY DEF HcCommand, Cr
<1>3. /\ call.name = "commands" /\ Posted /\ CSynced /\ CLeft = 1
      /\ call.what \in CommandNames /\ call.pc # "idle" /\ dev.kind # "none"
      /\ Ahead("commands").at = call.at /\ call.at \in Posts
      /\ t.what = call.what /\ t.old = FALSE
  BY <1>1, <1>2, CommandFound
<1> HIDE DEF t
<1>4. /\ RingsTypeOK /\ CommandsOK /\ CallOK /\ TransferOK /\ MouseOK /\ PairOK /\ EventsOK
      /\ DOMAIN ring = Names /\ DOMAIN deq = Names /\ Shape(Er)
      /\ ep \in {"disabled", "running", "stopped", "halted"}
      /\ dev.kind \in Pair \/ dev.kind = "interrupt"
  BY <1>1, <1>3 DEF LiveRings, RingsTypeOK, Devices, Pair
<1>5. /\ call.what \in {"stop", "reset", "dequeue"} => dev.kind \in Pair
      /\ call.what = "dequeue" => ep # "running" /\ Blank
      /\ call.what = "configure" => Blank /\ ~dev.pending /\ ~dev.failed
  BY <1>3, <1>4 DEF MouseOK, Posted, CallOK
<1>6. ASSUME Advance("commands")
      PROVE  /\ Spent("commands") /\ DOMAIN deq' = Names
             /\ deq'["commands"] = Beyond("commands") /\ Ed' = Ed
  BY <1>4, <1>6 DEF Advance, Names, Ed
<1>7. ASSUME Advance("commands"), Er' = Er
      PROVE  Left' = Left /\ (Synced => Synced') /\ (Settled => Settled') /\ (Fresh => Fresh')
  BY <1>4, <1>6, <1>7, EndpointKept
<1>8. CASE /\ t.what = "stop" /\ ep = "running" /\ Owned("endpoint")
           /\ ep' = "stopped" /\ deq' = deq /\ ring' = ring
           /\ Post("endpoint", "error", ring["endpoint"].trbs[Ahead("endpoint").at].old)
  <2> DEFINE u == Er.trbs[Ahead("endpoint").at].old
  <2>1. dev.kind \in Pair /\ Synced /\ call.what = "stop"
    BY <1>3, <1>4, <1>5, <1>8 DEF PairOK, Pair
  <2>2. u \in BOOLEAN /\ Ahead("endpoint").at \in Posts /\ Post("endpoint", "error", u)
    BY <1>8, <2>1, OwnedEndpoint DEF Trbs, Er
  <2> HIDE DEF u
  <2>3. EventsOK' /\ Of("commands")' = Of("commands")
    <3>1. "endpoint" \in Names /\ "error" \in {"ok", "short", "error"} /\ "commands" # "endpoint"
      BY DEF Names
    <3> QED BY <1>2, <1>4, <2>2, <3>1, PostEvent
  <2>4. Er' = Er /\ Cr' = Cr /\ Cd' = Cd /\ Synced'
    BY <1>8, <2>1 DEF Er, Cr, Cd, Ed, Synced
  <2>5. RingsTypeOK' /\ CallOK' /\ TransferOK' /\ NoneOK' /\ MouseOK'
    BY <1>2, <1>3, <1>4, <1>8, <2>1, <2>3, <2>4
       DEF RingsTypeOK, CallOK, TransferOK, NoneOK, MouseOK, Pair
  <2>6. PairOK'
    BY <1>2, <1>3, <1>4, <1>8, <2>1, <2>4 DEF PairOK
  <2>7. CSynced' /\ CLeft' = CLeft /\ CTailOK' = CTailOK
    BY <1>2, <1>3, <2>4 DEF CSynced, CLeft, CTailOK
  <2>8. Posted'
    BY <1>2, <1>3, <1>8, <2>1, <2>3, <2>7 DEF Posted
  <2>9. CommandsOK'
    BY <1>2, <1>3, <2>7, <2>8 DEF CommandsOK
  <2>10. UsedOK'
    BY <1>2, <2>1 DEF UsedOK
  <2> QED BY <1>1, <1>2, <2>5, <2>6, <2>9, <2>10 DEF RingsInv, LiveRings
<1>9. CASE /\ t.what \in {"stop", "reset"} /\ ep' = "stopped"
           /\ Advance("commands") /\ Post("commands", "ok", t.old)
  <2>1. dev.kind \in Pair /\ Synced /\ dev.kind # "interrupt"
    BY <1>3, <1>4, <1>5, <1>9 DEF PairOK, Pair
  <2>2. AfterOk'
    BY <1>2, <1>3, <1>9 DEF AfterOk
  <2>3. RingsTypeOK' /\ CallOK' /\ CommandsOK' /\ TransferOK' /\ NoneOK' /\ Er' = Er
    BY <1>1, <1>2, <1>3, <1>6, <1>9, <2>2, CommandExecuted
  <2>4. MouseOK'
    BY <1>2, <2>1 DEF MouseOK
  <2>5. PairOK'
    BY <1>2, <1>3, <1>4, <1>7, <1>9, <2>1, <2>3 DEF PairOK
  <2>6. UsedOK'
    BY <1>2, <1>3, <1>9 DEF UsedOK
  <2> QED BY <1>1, <1>2, <2>3, <2>4, <2>5, <2>6 DEF RingsInv, LiveRings
<1>10. CASE /\ t.what \in {"dequeue", "configure"}
            /\ ep = (IF t.what = "configure" THEN "disabled" ELSE "stopped")
            /\ ep' = IF t.what = "configure" THEN "running" ELSE ep
            /\ deq' = [endpoint |-> Start, commands |-> Beyond("commands")]
            /\ Spent("commands") /\ Post("commands", "ok", t.old)
  <2>1. DOMAIN deq' = Names /\ deq'["commands"] = Beyond("commands") /\ Ed' = Start
    BY <1>10 DEF Names, Ed
  <2>2. Er' = Er
    BY <1>4, <1>10 DEF Spent, Er, Names
  <2>3. InLap(Er, Start) /\ Out(Er, Start) = 0
    <3>1. Shape(Er) /\ Er.next = 0 /\ Er.cycle = 1
      BY <1>3, <1>5, <1>10 DEF Blank
    <3>2. Start \in Marks(RingSize) /\ Start.at = 0 /\ Start.cycle = 1
      BY RingsAssumption DEF Start, Marks
    <3> QED BY <3>1, <3>2 DEF InLap, Out
  <2>4. Synced' /\ Left' = 0 /\ Settled' /\ Fresh'
    BY <2>1, <2>2, <2>3, NothingOut DEF Synced, Left, Settled, Fresh
  <2>5. AfterOk' /\ (call.what = "dequeue" => ep' # "running")
        /\ ep' \in {"disabled", "running", "stopped", "halted"}
    BY <1>2, <1>3, <1>4, <1>10, <2>4 DEF AfterOk
  <2>6. /\ RingsTypeOK' /\ CallOK' /\ CommandsOK' /\ TransferOK' /\ NoneOK'
        /\ Of("endpoint")' = Of("endpoint")
    BY <1>1, <1>2, <1>3, <1>10, <2>1, <2>5, CommandExecuted
  <2>7. MouseOK'
    <3> SUFFICES ASSUME dev.kind = "interrupt" PROVE MouseOK'
      BY <1>2 DEF MouseOK
    <3>1. call.what = "configure" /\ Of("endpoint")' = {}
      BY <1>3, <1>4, <1>5, <1>10, <2>6 DEF MouseOK
    <3>2. 0 <= 1
      OBVIOUS
    <3> QED BY <1>2, <1>3, <1>5, <2>4, <3>1, <3>2 DEF MouseOK
  <2>8. PairOK'
    BY <1>2, <1>3, <1>4, <1>10, <2>4, <2>6 DEF PairOK, Quiet
  <2>9. UsedOK'
    BY <1>2, <1>3, <1>10 DEF UsedOK
  <2> QED BY <1>1, <1>2, <2>6, <2>7, <2>8, <2>9 DEF RingsInv, LiveRings
<1>11. CASE /\ t.what = "disable"
            /\ ep' = "disabled" /\ Advance("commands") /\ Post("commands", "ok", t.old)
  <2>1. AfterOk'
    BY <1>2, <1>3, <1>11 DEF AfterOk
  <2>2. /\ RingsTypeOK' /\ CallOK' /\ CommandsOK' /\ TransferOK' /\ NoneOK'
        /\ Of("endpoint")' = Of("endpoint") /\ \A i \in Of("endpoint") : evs'[i] = evs[i]
        /\ \E i \in Of("commands")' : evs'[i].code # "error"
    BY <1>1, <1>2, <1>3, <1>6, <1>11, <2>1, CommandExecuted
  <2>3. MouseOK'
    BY <1>2, <1>3, <1>4, <1>11, <2>2 DEF MouseOK
  <2>4. PairOK'
    BY <1>2, <1>3, <1>4, <1>11, <2>2 DEF PairOK, Quiet
  <2>5. UsedOK'
    BY <2>2 DEF UsedOK, Accepted
  <2> QED BY <1>1, <1>2, <2>2, <2>3, <2>4, <2>5 DEF RingsInv, LiveRings
<1>12. CASE Advance("commands") /\ Post("commands", "error", t.old) /\ ep' = ep
  <2>1. /\ RingsTypeOK' /\ CallOK' /\ CommandsOK' /\ TransferOK' /\ NoneOK' /\ Er' = Er
        /\ Of("endpoint")' = Of("endpoint") /\ \A i \in Of("endpoint") : evs'[i] = evs[i]
    BY <1>1, <1>2, <1>3, <1>4, <1>5, <1>6, <1>12, CommandExecuted
  <2>2. Left' = Left /\ (Synced => Synced') /\ (Settled => Settled') /\ (Fresh => Fresh')
    BY <1>7, <1>12, <2>1
  <2>3. MouseOK'
    BY <1>2, <1>4, <1>12, <2>1, <2>2 DEF MouseOK
  <2>4. PairOK'
    BY <1>2, <1>4, <1>12, <2>1, <2>2 DEF PairOK, Quiet
  <2>5. UsedOK'
    <3>1. UsedOK /\ ~Accepted
      BY <1>1, <1>3 DEF LiveRings, Accepted, Posted
    <3> QED BY <1>2, <1>12, <2>2, <3>1 DEF UsedOK
  <2> QED BY <1>1, <1>2, <2>1, <2>3, <2>4, <2>5 DEF RingsInv, LiveRings
<1> QED BY <1>2, <1>8, <1>9, <1>10, <1>11, <1>12

(* Fresh rings and no device. *)
LEMMA InitRings == RingsInit => RingsInv
<1> SUFFICES ASSUME RingsInit PROVE RingsInv
  OBVIOUS
<1>1. InLap(RingInit, Start) /\ Out(RingInit, Start) = 0
  <2>1. Start \in Marks(RingSize) /\ Start.at = 0 /\ Start.cycle = 1
    BY RingsAssumption DEF Start, Marks
  <2> QED BY <2>1, RingInitIs DEF InLap, Out
<1>2. Er = RingInit /\ Cr = RingInit /\ Ed = Start /\ Cd = Start
      /\ DOMAIN ring = Names /\ DOMAIN deq = Names
  BY DEF RingsInit, Er, Cr, Ed, Cd, Names
<1>3. CSynced /\ CLeft = 0 /\ Shape(Er)
  BY <1>1, <1>2, RingInitIs DEF CSynced, CLeft
<1>4. evAt.at = 0 /\ evAt.cycle = 1 /\ evPut.at = 0 /\ evPut.cycle = 1
      /\ evAt \in Marks(Events) /\ evPut \in Marks(Events)
  BY RingsAssumption DEF RingsInit, Start, Marks
<1>5. EvP = {} /\ Of("commands") = {}
  BY <1>4 DEF EvP, Of
<1>6. EventsOK
  <2>1. NoEvent \in EventRecs /\ NoEvent.cycle = 0
    <3>1. 0 \in Posts
      BY RingsAssumption DEF Posts
    <3> QED BY <3>1 DEF NoEvent, EventRecs, Names
  <2>2. evs \in [0..Events - 1 -> EventRecs] /\ \A i \in 0..Events - 1 : evs[i].cycle = 0
    BY <2>1 DEF RingsInit
  <2>3. \A i \in 0..Events - 1 : ~(i < 0)
    BY RingsAssumption
  <2> QED BY <1>4, <2>2, <2>3 DEF EventsOK
<1>7. /\ call \in Calls /\ call.pc = "idle" /\ call.name = "none" /\ call.what = "none" /\ ~call.done
      /\ call.mixed = FALSE
  <2>1. 0 \in Posts /\ 0 \in Nat
    BY RingsAssumption DEF Posts
  <2> QED BY <2>1 DEF RingsInit, Idle, Calls
<1>8. dev \in Devices /\ dev.kind = "none" /\ ~dev.active /\ ep = "disabled"
  BY DEF RingsInit, NoDevice, Devices
<1>9. RingsTypeOK /\ CommandsOK
  BY <1>2, <1>3, <1>5, <1>6, <1>7, <1>8 DEF RingsTypeOK, CommandsOK
<1>10. CallOK /\ TransferOK /\ MouseOK /\ PairOK /\ NoneOK
  BY <1>5, <1>7, <1>8 DEF CallOK, TransferOK, MouseOK, PairOK, NoneOK
<1> QED BY <1>7, <1>9, <1>10 DEF RingsInv, LiveRings, UsedOK

(* Every step of the driver or of the controller keeps the invariant.  Once *)
(* the host is stopped only the controller still moves.                     *)
LEMMA StepRings == ASSUME RingsInv, [RingsNext]_ringsVars PROVE RingsInv'
<1>1. CASE UNCHANGED ringsVars
  <2>1. /\ ring' = ring /\ deq' = deq /\ evs' = evs /\ evAt' = evAt /\ evPut' = evPut
        /\ ready' = ready /\ ep' = ep /\ dev' = dev /\ call' = call
    BY <1>1 DEF ringsVars
  <2>2. LiveRings' = LiveRings
    BY <2>1 DEF LiveRings, RingsTypeOK, CallOK, CommandsOK, TransferOK, MouseOK, PairOK, NoneOK,
                EventsOK, EvP, LastEv, Of, Left, Synced, Fresh, Er, Ed, CSynced, CLeft, Cr, Cd,
                Blank, TailOK, CTailOK, Settled, Quiet, AfterOk, Posted, Answered, DoneCommand, Ends,
                UsedOK, Accepted
  <2> QED BY <2>1, <2>2 DEF RingsInv
<1>2. CASE RingsNext /\ ~ready
  <2>1. call.pc = "idle" /\ call.mixed = FALSE
    BY <1>2 DEF RingsInv
  <2>2. HcCommand \/ HcTransfer
    BY <1>2, <2>1 DEF RingsNext, Configure, Control, Bulk, Usable, PollMouse, Disconnect, Driver,
                      Consume, Drained, Again, CheckMouse, CheckControl, CheckBulk, CommandTimeout,
                      CheckCommand, Done, TimedOut
  <2>3. ready' = ready /\ call' = call
    BY <2>2 DEF HcCommand, HcTransfer
  <2> QED BY <1>2, <2>1, <2>3 DEF RingsInv
<1>3. CASE RingsNext /\ ready
  <2>1. CASE \E k \in {"control", "bulk", "interrupt"} : Configure(k)
    BY <1>3, <2>1, ConfigureRings
  <2>2. CASE Control \/ Bulk \/ PollMouse \/ Disconnect
    BY <1>3, <2>2, ControlRings, PollMouseRings, DisconnectRings
  <2>3. CASE Consume \/ Drained \/ Again \/ CheckMouse
    BY <1>3, <2>3, ConsumeRings, WaitRings, CheckMouseRings
  <2>4. CASE CheckControl \/ CheckBulk \/ CheckCommand
    BY <1>3, <2>4, CheckTransferRings, CheckCommandRings
  <2>5. CASE CommandTimeout
    BY <2>5, StopRings DEF CommandTimeout
  <2>6. CASE HcCommand \/ HcTransfer
    BY <1>3, <2>6, HcCommandRings, HcTransferRings
  <2> QED BY <1>3, <2>1, <2>2, <2>3, <2>4, <2>5, <2>6 DEF RingsNext, Driver
<1> QED BY <1>1, <1>2, <1>3

(* The invariant says who owns what. *)
LEMMA RingsInvAgree == RingsInv => RingsAgree
<1> SUFFICES ASSUME RingsInv, ready
             PROVE  /\ \A n \in Names : Waiting(n) =>
                         Owned(n) \/ Queued(n) \/ (n = "endpoint" /\ ep # "running")
                    /\ call.pc = "idle" /\ ep = "running" /\ Owned("endpoint") =>
                         dev.kind = "interrupt" /\ dev.pending
  BY DEF RingsAgree
<1>1. LiveRings
  BY DEF RingsInv
<1>2. EventsOK /\ DOMAIN evs = 0..Events - 1
  BY <1>1 DEF LiveRings, RingsTypeOK, EventsOK
<1>3. \A n, i : i \in Of(n) /\ ~evs[i].old => Queued(n)
  BY <1>2, QueuedIs DEF Of, Queued
<1>4. Waiting("commands") => Owned("commands") \/ Queued("commands")
  <2> SUFFICES ASSUME Waiting("commands") PROVE Owned("commands") \/ Queued("commands")
    OBVIOUS
  <2>1. CSynced /\ (Posted \/ Answered)
    BY <1>1 DEF Waiting, LiveRings, CommandsOK, DoneCommand
  <2>2. CASE Posted
    <3> DEFINE o == CLeft
    <3>1. o = 1 /\ (Owned("commands") <=> o > 0)
      BY <2>1, <2>2, OwnedCommands DEF Posted
    <3> HIDE DEF o
    <3> QED BY <3>1
  <2>3. CASE Answered
    BY <1>3, <2>3 DEF Answered
  <2> QED BY <2>1, <2>2, <2>3
<1>5. Waiting("endpoint") => Owned("endpoint") \/ Queued("endpoint")
  <2> SUFFICES ASSUME Waiting("endpoint") PROVE Owned("endpoint") \/ Queued("endpoint")
    OBVIOUS
  <2>1. /\ Synced /\ (Left > 0 \/ \E i \in EvP : TRUE) /\ (\A i \in EvP : ~evs[i].old)
    BY <1>1 DEF Waiting, LiveRings, TransferOK
  <2>2. Of("commands") = {}
    BY <1>1 DEF Waiting, LiveRings, CommandsOK
  <2>3. CASE Left > 0
    BY <2>1, <2>3, OwnedEndpoint
  <2>4. CASE \E i \in EvP : TRUE
    BY <1>2, <1>3, <2>1, <2>2, <2>4, QueuedIs
  <2> QED BY <2>1, <2>3, <2>4
<1>6. call.pc = "idle" /\ ep = "running" /\ Owned("endpoint") =>
        dev.kind = "interrupt" /\ dev.pending
  BY <1>1, RunningIs, IdleName DEF LiveRings, CallOK
<1> QED BY <1>4, <1>5, <1>6 DEF Names

(* The invariant holds in every state of every behaviour. *)
LEMMA RingsInvariant == RingsSpec => []RingsInv
<1>1. RingsInit => RingsInv
  BY InitRings
<1>2. RingsInv /\ [RingsNext]_ringsVars => RingsInv'
  BY StepRings
<1> QED BY <1>1, <1>2, PTL DEF RingsSpec

(* Neither control(), bulk(), command() nor the mouse poll takes the event  *)
(* of a request that is over for its own: recover_endpoint() stops the      *)
(* endpoint, drains its events and replaces its ring before the next call.  *)
THEOREM NoStaleAnswerAlways == RingsSpec => []NoStaleAnswer
<1>1. RingsInv => NoStaleAnswer
  BY DEF RingsInv, NoStaleAnswer
<1> QED BY <1>1, RingsInvariant, PTL

(* While a call waits its answer is queued or can still come, and between   *)
(* calls a running endpoint has nothing to do but a pending mouse report:   *)
(* cycle bits, link TRBs and the dequeue pointer stay in agreement.         *)
THEOREM RingsAgreeAlways == RingsSpec => []RingsAgree
<1>1. RingsInv => RingsAgree
  BY RingsInvAgree
<1> QED BY <1>1, RingsInvariant, PTL
=============================================================================
