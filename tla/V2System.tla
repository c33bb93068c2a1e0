-------------------------------- MODULE V2System --------------------------------
(* The V2 driver on a bus with the controller it drives and a wall panel.     *)
(* In V2Driver a frame may hold anything; here it holds what the controller   *)
(* said, so that its zones can be compared with what the driver believes.     *)
(*                                                                            *)
(* The controller, the panel and the wire are not part of the code.  They do  *)
(* what its frames presuppose: a request toggles the zones of its mask and is *)
(* answered within a tick by a status with its sequence number, and only one  *)
(* exchange is on the wire at a time, which is what tx_idle_guard is for.     *)
(* Requests and statuses get lost, and statuses damaged.                      *)
EXTENDS V2Driver, Sequences

CONSTANTS
    MaxStall,   \* how many ticks a turn of loop() may take
    Budgets     \* how often each mishap and each request may happen

(* There is a controller, and it answers before its answer is given up: the   *)
(* poll interval is 500 ms at least (__init__.py:46).                         *)
ASSUME SystemAssumption ==
    /\ MaxStall \in Nat
    /\ Budgets \in [{"losses", "panel", "asks", "reboots"} -> Nat]
    /\ PollInterval # 0
    /\ Sources # {}

VARIABLES
    actual,    \* the open zones
    requests,  \* the requests on their way to the controller
    frames,    \* the content of the UART buffer, and who caused each frame
    unseen,    \* zones changed at the panel that no processed status shows yet
    stall,     \* ticks since the last turn of loop() began
    left       \* what is left of Budgets

world == <<actual, requests, frames, unseen, stall, left>>

TheController == CHOOSE source \in Sources : TRUE

SystemInit ==
    /\ Init
    /\ actual \in Masks
    /\ requests = <<>> /\ frames = <<>>
    /\ unseen = {}
    /\ stall = 0
    /\ left = Budgets

Spend(what) == left[what] > 0 /\ left' = [left EXCEPT ![what] = @ - 1]

-------------------------------------------------------------------------------
(* The driver.                                                                *)

\* A transmission reaches the controller, with the state it is meant to bring, or is lost.
Transmit ==
    /\ PollToggle \/ PollQuery
    /\ IF pc' = "sent"
       THEN \/ /\ requests' = Append(requests, [seq |-> lastTxSeq', bits |-> txBits', aim |-> desired])
               /\ UNCHANGED left
            \/ Spend("losses") /\ UNCHANGED requests
       ELSE UNCHANGED <<requests, left>>
    /\ UNCHANGED <<actual, frames, unseen, stall>>

\* A processed status shows what the panel did, unless more of it is still in the buffer.
Read ==
    /\ frames # <<>>
    /\ LET frame == Head(frames)
           behind == {Tail(frames)[i].by : i \in 1 .. Len(frames) - 1}
       IN  IF frame.damaged
           THEN ReceiveOther /\ UNCHANGED unseen
           ELSE \/ ReceiveUnconfirmed(frame.status) /\ UNCHANGED unseen
                \/ /\ ReceiveStatus(frame.status)
                   /\ unseen' = IF "panel" \in behind THEN unseen ELSE {}
    /\ frames' = Tail(frames)
    /\ UNCHANGED <<actual, requests, stall, left>>

\* The read loop empties the buffer, which holds fewer than 32 bytes.
StopReading == LoopEnd /\ frames = <<>> /\ UNCHANGED world

StartTurn ==
    /\ LoopExpires \/ LoopStart
    /\ stall' = 0
    /\ UNCHANGED <<actual, requests, frames, unseen, left>>

GoOn == (ResponseMissed \/ RecordSent \/ ConcludeMatch) /\ UNCHANGED world

DriverStep == StartTurn \/ GoOn \/ Transmit \/ Read \/ StopReading

Ask ==
    /\ \/ \E zone \in Zones, on \in BOOLEAN : QueueZoneState(zone, on)
       \/ RequestRefresh
    /\ Spend("asks")
    /\ UNCHANGED <<actual, requests, frames, unseen, stall>>

-------------------------------------------------------------------------------
(* Its surroundings.                                                          *)

\* What the controller says to whoever asked with seq, in the buffer of the driver.
Arrives(seq, by, damaged) ==
    /\ Arrive
    /\ frames' = Append(frames, [by |-> by, damaged |-> damaged, status |->
                                   [source |-> TheController, seq |-> seq, mask |-> actual']])

\* The controller takes a request, toggles its zones and answers.
Answer ==
    /\ requests # <<>>
    /\ requests' = Tail(requests)
    /\ actual' = Flip(actual, Head(requests).bits)
    /\ \/ Arrives(Head(requests).seq, "driver", FALSE) /\ UNCHANGED left
       \/ Arrives(Head(requests).seq, "driver", TRUE) /\ Spend("losses")
    /\ UNCHANGED <<unseen, stall>>

\* Somebody toggles a zone at the panel; the controller answers the panel.
Panel(zone) ==
    /\ requests = <<>>
    /\ actual' = Flip(actual, {zone})
    /\ unseen' = unseen \cup {zone}
    /\ \E seq \in Seqs, damaged \in BOOLEAN : Arrives(seq, "panel", damaged)
    /\ Spend("panel")
    /\ UNCHANGED <<requests, stall>>

Pass ==
    /\ Tick
    /\ requests = <<>>
    /\ stall < MaxStall
    /\ stall' = stall + 1
    /\ UNCHANGED <<actual, requests, frames, unseen, left>>

\* Booting takes longer than the answer to what was sent before, which is lost with it.
Restart ==
    /\ Reboot
    /\ requests = <<>>
    /\ Spend("reboots")
    /\ frames' = <<>>
    /\ stall' = 0
    /\ UNCHANGED <<actual, requests, unseen>>

SystemNext == DriverStep \/ Ask \/ Answer \/ (\E zone \in Zones : Panel(zone)) \/ Pass \/ Restart

(* loop() runs again and again, and time passes although its steps interrupt  *)
(* it; the controller answers.                                                *)
SystemFairness ==
    WF_<<vars, world>>(DriverStep) /\ WF_<<vars, world>>(Answer) /\ SF_<<vars, world>>(Pass)

SystemSpec == SystemInit /\ [][SystemNext]_<<vars, world>> /\ SystemFairness

-------------------------------------------------------------------------------
(* Properties.                                                                *)

Toggled == requests # <<>> /\ requests' = Tail(requests)

(* A toggle that reaches the controller brings its zone where it was asked to *)
(* be when it was sent, and never away from there: neither a lost answer nor  *)
(* a restart, a late status or a timeout makes the driver toggle twice.  Only *)
(* a change at the panel that the driver cannot know of is in its way (lines  *)
(* 102-120, 161-162, 484-488).                                                *)
TogglesTowardsAim ==
    [][Toggled => LET r == Head(requests)
                  IN  \A z \in r.bits : z \in unseen \/ (z \in actual' <=> z \in r.aim)]_<<vars, world>>

(* A request ends only when every zone asked for is where it was asked to be, *)
(* but for changes at the panel not yet seen (lines 102-124), and for the     *)
(* spill zone where closing it would have closed the last one.                *)
EndsInAgreement ==
    [][pending /\ ~pending' /\ pc' # "idle" =>
          \A z \in h.asked :
             \/ z \in unseen
             \/ z \in actual <=> z \in desired
             \/ z = SpillZone /\ desired = {}]_<<vars, world>>

(* The inductive invariant of the system.                                     *)

Agree(mask, other) == \A z \in Zones \ unseen : z \in mask <=> z \in other

SystemTypeOK ==
    /\ actual \in Masks /\ unseen \in Masks
    /\ requests \in Seq([seq : Seqs, bits : Masks, aim : Masks])
    /\ frames \in Seq([by : {"driver", "panel"}, damaged : BOOLEAN, status : Statuses])
    /\ buffered = Len(frames)
    /\ stall \in 0 .. MaxStall
    /\ left \in [{"losses", "panel", "asks", "reboots"} -> Nat]

(* One request at a time is on its way, and the driver awaits its answer: no  *)
(* frame is left to take for it, and neither time limit can be over.  What it *)
(* toggles is not yet where it shall be.                                      *)
InFlight ==
    /\ Len(requests) <= 1
    /\ requests # <<>> =>
          /\ frames = <<>>
          /\ pc = "sent" \/ (waiting /\ age["tx"] = 0 /\ pc \notin {"missed", "match"})
          /\ (online /\ StatusTimeout # 0) => age["status"] < StatusTimeout
          /\ LET r == Head(requests)
             IN  /\ r.bits # {} => h.toggle = "flying"
                 /\ \A z \in r.bits : z \in unseen \/ (z \in actual) # (z \in r.aim)

(* The buffer tells where every zone is that no unread change at the panel    *)
(* concerns, and the last frame of the panel and those behind it tell all.    *)
FramesAgree ==
    \A i \in 1 .. Len(frames) :
        /\ Agree(frames[i].status.mask, actual)
        /\ (\A j \in i + 1 .. Len(frames) : frames[j].by # "panel") => frames[i].status.mask = actual

(* While no toggle is open, the driver knows where the zones are.             *)
ViewAgrees == (hasStatus /\ h.toggle = "settled") => Agree(lastMask, actual)

SystemInv == SystemTypeOK /\ InFlight /\ FramesAgree /\ ViewAgrees

(* With polling on, an accepted request ends, whatever is lost on the way, as *)
(* long as mishaps are few (lines 123 and 126-138).                           *)
RequestEnds == pending ~> ~pending
================================================================================
