----------------------------- MODULE V2System_proofs -----------------------------
(* What holds of the V2 driver, its controller and the panel for every set of *)
(* zones, every configuration, and any number of losses, requests, restarts   *)
(* and changes at the panel.                                                  *)
EXTENDS V2System, V2Driver_proofs, SequenceTheorems

RequestSet == [seq : Seqs, bits : Masks, aim : Masks]
FrameSet == [by : {"driver", "panel"}, damaged : BOOLEAN, status : Statuses]

LEMMA ControllerType == TheController \in Sources
BY SystemAssumption DEF TheController

LEMMA FlipType ==
    ASSUME NEW mask \in Masks, NEW bits \in Masks
    PROVE  Flip(mask, bits) \in Masks
BY DEF Flip, Masks

LEMMA FlipDiffers ==
    ASSUME NEW mask, NEW bits, NEW zone
    PROVE  zone \in Flip(mask, bits) <=> (zone \in mask) # (zone \in bits)
BY DEF Flip

(* The first frame of the buffer, and what is left behind it.                 *)
LEMMA FirstFrame ==
    ASSUME SystemTypeOK, frames # <<>>
    PROVE  /\ Head(frames) \in FrameSet /\ Head(frames) = frames[1]
           /\ Head(frames).status \in Statuses
           /\ Tail(frames) \in Seq(FrameSet)
           /\ Len(frames) \in Nat \ {0}
           /\ Len(Tail(frames)) = Len(frames) - 1
           /\ \A i \in 1 .. Len(Tail(frames)) : Tail(frames)[i] = frames[i + 1]
<1>1. frames \in Seq(FrameSet)
  BY DEF SystemTypeOK, FrameSet
<1>2. /\ Head(frames) \in FrameSet /\ Tail(frames) \in Seq(FrameSet)
      /\ Len(Tail(frames)) = Len(frames) - 1
      /\ \A i \in 1 .. Len(Tail(frames)) : Tail(frames)[i] = frames[i + 1]
  BY <1>1, HeadTailProperties
<1>3. Len(frames) \in Nat \ {0} /\ Head(frames) = frames[1]
  BY <1>1
<1>4. QED
  BY <1>2, <1>3 DEF FrameSet

(* Each step of the system is a step of the driver.                           *)
LEMMA SystemStepIsDrivers ==
    ASSUME SystemTypeOK, [SystemNext]_<<vars, world>>
    PROVE  [Next]_vars
<1>1. CASE UNCHANGED <<vars, world>>
  BY <1>1
<1>2. CASE StartTurn
  BY <1>2 DEF StartTurn, Next, LoopStep
<1>3. CASE GoOn
  BY <1>3 DEF GoOn, Next, LoopStep
<1>4. CASE Transmit
  BY <1>4 DEF Transmit, Next, LoopStep
<1>5. CASE Read
  <2>1. Head(frames).status \in Statuses
    BY <1>5, FirstFrame DEF Read
  <2>2. ReceiveOther \/ ReceiveUnconfirmed(Head(frames).status) \/ ReceiveStatus(Head(frames).status)
    BY <1>5 DEF Read
  <2>3. QED
    BY <2>1, <2>2 DEF Next, LoopStep
<1>6. CASE StopReading
  BY <1>6 DEF StopReading, Next, LoopStep
<1>7. CASE Ask
  BY <1>7 DEF Ask, Next, Request
<1>8. CASE Answer
  BY <1>8 DEF Answer, Arrives, Next
<1>9. ASSUME NEW zone \in Zones, Panel(zone) PROVE Next
  BY <1>9 DEF Panel, Arrives, Next
<1>10. CASE Pass
  BY <1>10 DEF Pass, Next
<1>11. CASE Restart
  BY <1>11 DEF Restart, Next
<1>12. QED
  BY <1>1, <1>2, <1>3, <1>4, <1>5, <1>6, <1>7, <1>8, <1>9, <1>10, <1>11
     DEF SystemNext, DriverStep

--------------------------------------------------------------------------------

(* Type correctness.                                                          *)
LEMMA SpendType ==
    ASSUME SystemTypeOK, NEW what \in {"losses", "panel", "asks", "reboots"}, Spend(what)
    PROVE  left' \in [{"losses", "panel", "asks", "reboots"} -> Nat]
BY DEF SystemTypeOK, Spend

\* What arrives fills the buffer by one frame.
LEMMA ArrivesType ==
    ASSUME SystemTypeOK, actual' \in Masks, NEW seq \in Seqs,
           NEW by \in {"driver", "panel"}, NEW damaged \in BOOLEAN, Arrives(seq, by, damaged)
    PROVE  /\ frames' \in Seq(FrameSet)
           /\ Len(frames) \in Nat
           /\ Len(frames') = Len(frames) + 1
           /\ buffered' = Len(frames')
           /\ \A i \in 1 .. Len(frames) : frames'[i] = frames[i]
           /\ frames'[Len(frames) + 1].by = by
           /\ frames'[Len(frames) + 1].status.mask = actual'
<1> DEFINE status == [source |-> TheController, seq |-> seq, mask |-> actual']
           frame == [by |-> by, damaged |-> damaged, status |-> status]
<1>1. frame \in FrameSet /\ frames \in Seq(FrameSet)
  BY ControllerType DEF FrameSet, Statuses, SystemTypeOK
<1>2. frames' = Append(frames, frame) /\ buffered' = buffered + 1 /\ buffered = Len(frames)
  BY DEF Arrives, Arrive, SystemTypeOK
<1>3. frame.by = by /\ frame.status.mask = actual'
  OBVIOUS
<1> HIDE DEF frame
<1>4. /\ Append(frames, frame) \in Seq(FrameSet)
      /\ Len(Append(frames, frame)) = Len(frames) + 1
      /\ \A i \in 1 .. Len(frames) : Append(frames, frame)[i] = frames[i]
      /\ Append(frames, frame)[Len(frames) + 1] = frame
  BY <1>1, AppendProperties
<1>5. QED
  BY <1>1, <1>2, <1>3, <1>4

\* A request is either on its way or there is none.
LEMMA EmptyInFlight ==
    ASSUME requests = <<>>
    PROVE  InFlight
BY DEF InFlight

\* A step that sends, delivers and changes nothing keeps what the buffer tells.
LEMMA Undisturbed ==
    ASSUME SystemInv, UNCHANGED <<actual, requests, frames, unseen, buffered>>,
           stall' \in 0 .. MaxStall, left' \in [{"losses", "panel", "asks", "reboots"} -> Nat]
    PROVE  SystemTypeOK' /\ FramesAgree'
<1>1. SystemTypeOK'
  BY DEF SystemInv, SystemTypeOK
<1>2. FramesAgree'
  BY DEF SystemInv, FramesAgree, Agree
<1>3. QED
  BY <1>1, <1>2

\* Nor does it change what the driver knows, unless it learns from a status.
LEMMA NothingLearned ==
    ASSUME SystemInv, UNCHANGED <<actual, unseen, lastMask>>, hasStatus' => hasStatus,
           h'.toggle = "settled" => h.toggle = "settled"
    PROVE  ViewAgrees'
BY DEF SystemInv, ViewAgrees, Agree

\* A request stays on its way as long as the driver awaits its answer.
LEMMA StillInFlight ==
    ASSUME SystemInv, UNCHANGED <<actual, requests, frames, unseen>>,
           requests # <<>> =>
              /\ pc' = "sent" \/ (waiting' /\ age'["tx"] = 0 /\ pc' \notin {"missed", "match"})
              /\ online' => online
              /\ age'["status"] = age["status"]
              /\ h'.toggle = h.toggle
    PROVE  InFlight'
BY DEF SystemInv, InFlight

\* The turn of a driver that awaits an answer begins: neither time limit is over.
LEMMA StartKeeps == IInv /\ SystemInv /\ StartTurn => SystemInv'
<1> SUFFICES ASSUME IInv, SystemInv, StartTurn PROVE SystemInv'
  OBVIOUS
<1> USE DEF link, intent, view, clocks
<1>1. UNCHANGED <<actual, requests, frames, unseen, buffered, lastMask, hasStatus>> /\ left' = left
      /\ age' = age /\ stall' = 0
  BY DEF StartTurn, LoopExpires, LoopStart
<1>2. SystemTypeOK' /\ FramesAgree'
  BY <1>1, Undisturbed, SystemAssumption DEF SystemInv, SystemTypeOK
<1>3. h \in Histories /\ age \in [Clocks -> Nat]
  BY DEF IInv, TypeOK, Ages
<1>4. ViewAgrees'
  <2>1. h'.toggle = "settled" => h.toggle = "settled"
    BY <1>3 DEF StartTurn, LoopExpires, LoopStart, GivenUp, Histories
  <2>2. QED
    BY <1>1, <2>1, NothingLearned
<1>5. ASSUME requests # <<>>
      PROVE  /\ waiting' /\ age'["tx"] = 0 /\ pc' \notin {"missed", "match"}
             /\ online' => online
             /\ h'.toggle = h.toggle
  <2>1. /\ pc = "sent" \/ (waiting /\ age["tx"] = 0)
        /\ (online /\ StatusTimeout # 0) => age["status"] < StatusTimeout
    BY <1>5 DEF SystemInv, InFlight
  <2>2. ~LoopExpires
    BY <1>3, <2>1, TimesAssumption DEF LoopExpires, StatusExpired, Clocks
  <2>3. pc = "idle" /\ waiting /\ age["tx"] = 0 /\ ~(age["tx"] >= PollInterval)
    BY <2>1, <2>2, SystemAssumption, TimesAssumption DEF StartTurn, LoopStart
  <2>4. LoopStart /\ UNCHANGED <<waiting, online, h>>
    BY <2>2 DEF StartTurn, LoopStart
  <2>5. pc' \in {"drain", "poll"}
    BY <2>3, <2>4 DEF LoopStart, PastTimeouts
  <2>6. QED
    BY <1>1, <2>3, <2>4, <2>5
<1>6. InFlight'
  BY <1>1, <1>5, StillInFlight
<1>7. QED
  BY <1>2, <1>4, <1>6 DEF SystemInv

\* What it published is recorded, and the answer to it awaited or concluded.
LEMMA GoOnKeeps == IInv /\ SystemInv /\ GoOn => SystemInv'
<1> SUFFICES ASSUME IInv, SystemInv, GoOn PROVE SystemInv'
  OBVIOUS
<1> USE DEF link, intent, view, clocks
<1>1. UNCHANGED <<actual, requests, frames, unseen, buffered, lastMask, hasStatus, left, stall>>
  BY DEF GoOn, world, ResponseMissed, RecordSent, ConcludeMatch
<1>2. SystemTypeOK' /\ FramesAgree'
  BY <1>1, Undisturbed DEF SystemInv, SystemTypeOK
<1>3. h \in Histories /\ age \in [Clocks -> Nat]
  BY DEF IInv, TypeOK, Ages
<1>4. ViewAgrees'
  <2>1. h'.toggle = "settled" => h.toggle = "settled"
    BY <1>3 DEF GoOn, ResponseMissed, RecordSent, ConcludeMatch, GivenUp, Histories
  <2>2. QED
    BY <1>1, <2>1, NothingLearned
<1>5. ASSUME requests # <<>>
      PROVE  /\ waiting' /\ age'["tx"] = 0 /\ pc' \notin {"missed", "match"}
             /\ online' => online
             /\ age'["status"] = age["status"]
             /\ h'.toggle = h.toggle
  <2>1. RecordSent
    BY <1>5 DEF GoOn, SystemInv, InFlight, ResponseMissed, ConcludeMatch
  <2>2. QED
    BY <1>3, <2>1 DEF RecordSent, Clocks
<1>6. InFlight'
  BY <1>1, <1>5, StillInFlight
<1>7. QED
  BY <1>2, <1>4, <1>6 DEF SystemInv

\* The read loop is left with the buffer empty; what was sent is awaited on.
LEMMA StopKeeps == IInv /\ SystemInv /\ StopReading => SystemInv'
<1> SUFFICES ASSUME IInv, SystemInv, StopReading PROVE SystemInv'
  OBVIOUS
<1>1. /\ UNCHANGED <<actual, requests, frames, unseen, buffered, lastMask, hasStatus, left, stall>>
      /\ UNCHANGED <<waiting, online, age, h>> /\ pc = "drain" /\ pc' = "idle"
  BY DEF StopReading, world, LoopEnd, link, view, clocks
<1>2. SystemTypeOK' /\ FramesAgree'
  BY <1>1, Undisturbed DEF SystemInv, SystemTypeOK
<1>3. InFlight'
  BY <1>1, StillInFlight DEF SystemInv, InFlight
<1>4. QED
  BY <1>1, <1>2, <1>3, NothingLearned DEF SystemInv

\* A request of an entity or an automation sends nothing by itself.
LEMMA AskKeeps == IInv /\ SystemInv /\ Ask => SystemInv'
<1> SUFFICES ASSUME IInv, SystemInv, Ask PROVE SystemInv'
  OBVIOUS
<1>1. /\ UNCHANGED <<actual, requests, frames, unseen, buffered, lastMask, hasStatus, stall>>
      /\ UNCHANGED <<pc, waiting, online, age>>
  BY DEF Ask, RequestRefresh, QueueZoneState, link, view, clocks
<1>2. h'.toggle = h.toggle
  BY DEF Ask, RequestRefresh, QueueZoneState, IInv, TypeOK, Histories
<1>3. SystemTypeOK' /\ FramesAgree'
  BY <1>1, Undisturbed, SpendType DEF Ask, SystemInv, SystemTypeOK
<1>4. InFlight'
  BY <1>1, <1>2, StillInFlight DEF SystemInv, InFlight
<1>5. QED
  BY <1>1, <1>2, <1>3, <1>4, NothingLearned DEF SystemInv

--------------------------------------------------------------------------------

\* What run_poll_cycle_ acts on is settled.
LEMMA WriteIsSettled ==
    ASSUME IInv, pc = "poll", WriteDue
    PROVE  h.toggle = "settled" /\ hasStatus
<1>1. ~waiting /\ online /\ ~requireFresh /\ hasStatus
  BY DEF WriteDue
<1>2. h.toggle \in {"settled", "flying", "lost"}
  BY DEF IInv, TypeOK, Histories
<1>3. CASE h.toggle = "flying"
  <2>1. waitingWrite \/ pc = "sent"
    BY <1>3 DEF IInv, WriteAgrees
  <2>2. QED
    BY <1>1, <2>1 DEF IInv, WriteAgrees
<1>4. QED
  BY <1>1, <1>2, <1>3 DEF IInv, WriteAgrees

(* What is sent finds nothing else on its way or in the buffer, and if it is  *)
(* a toggle, it is for a zone that is not where it shall be.                  *)
LEMMA SentAlone ==
    ASSUME IInv, SystemInv, Transmit, pc' = "sent"
    PROVE  /\ requests = <<>> /\ frames = <<>>
           /\ (online /\ StatusTimeout # 0) => age["status"] < StatusTimeout
           /\ \/ txBits' = {} /\ h'.toggle = h.toggle
              \/ /\ h'.toggle = "flying"
                 /\ \A z \in txBits' : z \in unseen \/ (z \in actual) # (z \in desired)
<1>1. pc = "poll" /\ CanSend /\ ~waiting
  BY DEF Transmit, PollToggle, PollQuery, Send, Defer, WriteDue, QueryDue
<1>2. h \in Histories
  BY DEF IInv, TypeOK
<1>3. requests = <<>>
  BY <1>1 DEF SystemInv, InFlight
<1>4. frames = <<>>
  <2>1. frames \in Seq(FrameSet) /\ Len(frames) = 0
    BY <1>1 DEF CanSend, SystemInv, SystemTypeOK, FrameSet
  <2>2. QED
    BY <2>1
<1>5. (online /\ StatusTimeout # 0) => age["status"] < StatusTimeout
  BY <1>1 DEF IInv, StatusAgrees
<1>6. CASE PollToggle
  <2>1. WriteDue /\ Diff # {} /\ txBits' = {LowestZone(Diff)} /\ h'.toggle = "flying"
    BY <1>2, <1>6 DEF PollToggle, Send, Defer, Histories
  <2>2. LowestZone(Diff) \in Zones /\ LowestZone(Diff) \in Diff
    BY <2>1, DiffInZones, LowestZoneIn DEF IInv, TypeOK
  <2>3. Agree(lastMask, actual)
    BY <1>1, <2>1, WriteIsSettled DEF SystemInv, ViewAgrees
  <2>4. (LowestZone(Diff) \in desired) # (LowestZone(Diff) \in lastMask)
    BY <2>2, DiffDiffers
  <2>5. \A z \in txBits' : z \in unseen \/ (z \in actual) # (z \in desired)
    BY <2>1, <2>2, <2>3, <2>4 DEF Agree
  <2>6. QED
    BY <1>3, <1>4, <1>5, <2>1, <2>5
<1>7. CASE PollQuery
  BY <1>2, <1>3, <1>4, <1>5, <1>7 DEF PollQuery, Send, Defer, Histories
<1>8. QED
  BY <1>6, <1>7 DEF Transmit

\* A transmission keeps the invariant, arriving or lost; so does its refusal.
LEMMA TransmitKeeps == IInv /\ SystemInv /\ Transmit => SystemInv'
<1> SUFFICES ASSUME IInv, SystemInv, Transmit PROVE SystemInv'
  OBVIOUS
<1>1. /\ UNCHANGED <<actual, frames, unseen, stall, buffered, lastMask, hasStatus, online, waiting>>
      /\ pc = "poll" /\ pc' \in {"sent", "drain"}
  BY DEF Transmit, PollToggle, PollQuery, Send, Defer, view
<1>2. age'["tx"] = age["tx"] /\ age'["status"] = age["status"]
  BY DEF Transmit, PollToggle, PollQuery, Defer, clocks, IInv, TypeOK, Ages, Clocks
<1>3. left' \in [{"losses", "panel", "asks", "reboots"} -> Nat]
  BY SpendType DEF Transmit, SystemInv, SystemTypeOK
<1>4. CASE pc' = "drain"
  <2>1. requests' = requests
    BY <1>4 DEF Transmit
  <2>2. h'.toggle = h.toggle
    BY <1>4 DEF Transmit, PollToggle, PollQuery, Send, IInv, TypeOK, Histories
  <2>3. SystemTypeOK' /\ FramesAgree'
    BY <1>1, <1>3, <2>1, Undisturbed DEF SystemInv, SystemTypeOK
  <2>4. InFlight'
    BY <1>1, <1>2, <1>4, <2>1, <2>2, StillInFlight DEF SystemInv, InFlight
  <2>5. QED
    BY <1>1, <2>2, <2>3, <2>4, NothingLearned DEF SystemInv
<1>5. CASE pc' = "sent" /\ requests' = requests
  <2>1. SystemTypeOK' /\ FramesAgree'
    BY <1>1, <1>3, <1>5, Undisturbed DEF SystemInv, SystemTypeOK
  <2>2. InFlight'
    BY <1>5, SentAlone DEF InFlight
  <2>3. ViewAgrees'
    BY <1>1, <1>5, SentAlone, NothingLearned
  <2>4. QED
    BY <2>1, <2>2, <2>3 DEF SystemInv
<1>6. CASE /\ pc' = "sent"
           /\ requests' = Append(requests, [seq |-> lastTxSeq', bits |-> txBits', aim |-> desired])
  <2> DEFINE r == [seq |-> lastTxSeq', bits |-> txBits', aim |-> desired]
  <2>1. r \in RequestSet
    <3>1. lastTxSeq' \in Seqs
      BY <1>6 DEF Transmit, PollToggle, PollQuery, Send, Defer, IInv, TypeOK
    <3>2. txBits' \in Masks /\ desired \in Masks
      BY StepType DEF Transmit, IInv, TypeOK, Next, LoopStep
    <3>3. QED
      BY <3>1, <3>2 DEF RequestSet
  <2>2. requests' = <<r>>
    BY <1>6, SentAlone
  <2>3. requests' \in Seq(RequestSet) /\ Len(requests') = 1 /\ Head(requests') = r
    BY <2>1, <2>2
  <2>4. SystemTypeOK'
    BY <1>1, <1>3, <2>3 DEF SystemInv, SystemTypeOK, RequestSet
  <2>5. FramesAgree'
    BY <1>1 DEF SystemInv, FramesAgree, Agree
  <2>6. r.bits = txBits' /\ r.aim = desired
    OBVIOUS
  <2> HIDE DEF r
  <2>7. InFlight'
    BY <1>1, <1>2, <1>6, <2>3, <2>6, SentAlone DEF InFlight
  <2>8. ViewAgrees'
    BY <1>1, <1>6, SentAlone, NothingLearned
  <2>9. QED
    BY <2>4, <2>5, <2>7, <2>8 DEF SystemInv
<1>7. QED
  BY <1>1, <1>4, <1>5, <1>6 DEF Transmit

\* The frame that is read leaves a buffer that tells as much as it did.
LEMMA ReadKeeps == IInv /\ SystemInv /\ Read => SystemInv'
<1> SUFFICES ASSUME IInv, SystemInv, Read PROVE SystemInv'
  OBVIOUS
<1> DEFINE first == Head(frames)
<1>1. /\ frames # <<>> /\ frames' = Tail(frames) /\ UNCHANGED <<actual, requests, stall, left>>
      /\ SystemTypeOK
  BY DEF Read, SystemInv
<1>2. buffered' = buffered - 1
  BY DEF Read, ReceiveOther, ReceiveUnconfirmed, ReceiveStatus, TakeFrame
<1>3. requests = <<>>
  BY <1>1 DEF SystemInv, InFlight
<1>4. unseen' = unseen \/ (/\ unseen' = {}
                          /\ \A i \in 1 .. Len(frames) - 1 : Tail(frames)[i].by # "panel")
  BY DEF Read
<1>5. SystemTypeOK'
  <2>1. frames' \in Seq(FrameSet) /\ buffered' = Len(frames')
    BY <1>1, <1>2, FirstFrame DEF SystemTypeOK
  <2>2. unseen' \in Masks
    BY <1>1, <1>4 DEF SystemTypeOK, Masks
  <2>3. QED
    BY <1>1, <2>1, <2>2 DEF SystemTypeOK, FrameSet
<1>6. InFlight'
  BY <1>1, <1>3 DEF InFlight
<1>7. \A i \in 1 .. Len(frames) - 1 : Tail(frames)[i] = frames[i + 1]
  BY <1>1, FirstFrame
<1>8. Len(frames) \in Nat \ {0} /\ Len(frames') = Len(frames) - 1 /\ first = frames[1]
  BY <1>1, FirstFrame
<1>9. /\ Agree(first.status.mask, actual)
      /\ unseen' # unseen => first.status.mask = actual
  <2>1. (\A j \in 2 .. Len(frames) : frames[j].by # "panel") => first.status.mask = actual
    BY <1>8 DEF SystemInv, FramesAgree
  <2>2. ASSUME unseen' # unseen, NEW j \in 2 .. Len(frames)
        PROVE  frames[j].by # "panel"
    <3>1. j - 1 \in 1 .. Len(frames) - 1 /\ (j - 1) + 1 = j
      BY <1>8
    <3>2. QED
      BY <1>4, <1>7, <2>2, <3>1
  <2>3. QED
    BY <1>8, <2>1, <2>2 DEF SystemInv, FramesAgree
<1>10. FramesAgree'
  <2> SUFFICES ASSUME NEW i \in 1 .. Len(frames')
               PROVE  /\ Agree(frames[i].status.mask, actual)'
                      /\ (\A j \in i + 1 .. Len(frames') : frames'[j].by # "panel")
                            => frames'[i].status.mask = actual'
    BY DEF FramesAgree
  <2>1. i + 1 \in 1 .. Len(frames) /\ i \in 1 .. Len(frames) - 1 /\ frames'[i] = frames[i + 1]
    BY <1>1, <1>7, <1>8
  <2>2. ASSUME \A j \in i + 1 .. Len(frames') : frames'[j].by # "panel"
        PROVE  frames'[i].status.mask = actual
    <3>1. ASSUME NEW j \in (i + 1) + 1 .. Len(frames) PROVE frames[j].by # "panel"
      <4>1. j - 1 \in i + 1 .. Len(frames') /\ j - 1 \in 1 .. Len(frames) - 1 /\ (j - 1) + 1 = j
        BY <1>8
      <4>2. QED
        BY <1>1, <1>7, <2>2, <4>1
    <3>2. QED
      BY <2>1, <3>1 DEF SystemInv, FramesAgree
  <2>3. Agree(frames[i].status.mask, actual)'
    <3>1. CASE unseen' = unseen
      BY <1>1, <2>1, <3>1 DEF SystemInv, FramesAgree, Agree
    <3>2. CASE unseen' # unseen
      <4>1. \A j \in i + 1 .. Len(frames') : frames'[j].by # "panel"
        BY <1>1, <1>4, <1>8, <3>2
      <4>2. QED
        BY <1>1, <2>2, <4>1 DEF Agree
    <3>3. QED
      BY <3>1, <3>2
  <2>4. QED
    BY <1>1, <2>2, <2>3
<1>11. ViewAgrees'
  <2>1. CASE ReceiveStatus(first.status)
    <3>1. lastMask' = first.status.mask
      BY <2>1 DEF ReceiveStatus
    <3>2. QED
      BY <1>1, <1>9, <3>1 DEF ViewAgrees, Agree
  <2>2. CASE (ReceiveOther \/ ReceiveUnconfirmed(first.status)) /\ unseen' = unseen
    <3>1. UNCHANGED <<lastMask, hasStatus>> /\ h'.toggle = h.toggle
      BY <2>2 DEF ReceiveOther, ReceiveUnconfirmed, view, IInv, TypeOK, Histories
    <3>2. QED
      BY <1>1, <2>2, <3>1, NothingLearned
  <2>3. QED
    BY <2>1, <2>2 DEF Read
<1>12. QED
  BY <1>5, <1>6, <1>10, <1>11 DEF SystemInv

\* What arrives leaves the driver as it is.
LEMMA ArrivesUnnoticed ==
    ASSUME NEW seq, NEW by, NEW damaged, Arrives(seq, by, damaged)
    PROVE  UNCHANGED <<lastMask, hasStatus, h>>
BY DEF Arrives, Arrive, view

(* The request on its way, and what its zones come to.                        *)
LEMMA AnsweredAlone ==
    ASSUME SystemInv, Answer
    PROVE  /\ Head(requests) \in RequestSet
           /\ requests' = <<>> /\ frames = <<>>
           /\ actual' = Flip(actual, Head(requests).bits) /\ actual' \in Masks
           /\ \A z \in Head(requests).bits : z \in unseen \/ (z \in actual' <=> z \in Head(requests).aim)
<1>1. /\ requests # <<>> /\ requests' = Tail(requests)
      /\ actual' = Flip(actual, Head(requests).bits)
  BY DEF Answer
<1>2. requests \in Seq(RequestSet) /\ actual \in Masks
  BY DEF SystemInv, SystemTypeOK, RequestSet
<1>3. /\ Len(requests) <= 1 /\ frames = <<>>
      /\ \A z \in Head(requests).bits : z \in unseen \/ (z \in actual) # (z \in Head(requests).aim)
  BY <1>1 DEF SystemInv, InFlight
<1>4. /\ Head(requests) \in RequestSet /\ Tail(requests) \in Seq(RequestSet)
      /\ Len(Tail(requests)) = Len(requests) - 1
  BY <1>1, <1>2, HeadTailProperties
<1>5. Tail(requests) = <<>>
  <2>1. Len(requests) \in Nat /\ Len(Tail(requests)) \in Nat
    BY <1>2, <1>4
  <2>2. Len(Tail(requests)) = 0
    BY <1>3, <1>4, <2>1
  <2>3. QED
    BY <1>4, <2>2
<1>6. actual' \in Masks
  BY <1>1, <1>2, <1>4, FlipType DEF RequestSet
<1>7. \A z \in Head(requests).bits : z \in actual' <=> ~(z \in actual)
  BY <1>1, FlipDiffers
<1>8. QED
  BY <1>1, <1>3, <1>4, <1>5, <1>6, <1>7

\* The answer, damaged or not, is the only frame in the buffer.
LEMMA AnswerKeeps == IInv /\ SystemInv /\ Answer => SystemInv'
<1> SUFFICES ASSUME IInv, SystemInv, Answer PROVE SystemInv'
  OBVIOUS
<1>1. /\ Head(requests) \in RequestSet
      /\ requests' = <<>> /\ frames = <<>>
      /\ actual' = Flip(actual, Head(requests).bits) /\ actual' \in Masks
  BY AnsweredAlone
<1>2. UNCHANGED <<unseen, stall>>
  BY DEF Answer
<1>3. PICK damaged \in BOOLEAN : Arrives(Head(requests).seq, "driver", damaged)
  BY DEF Answer
<1>4. SystemTypeOK /\ Head(requests).seq \in Seqs
  BY <1>1 DEF SystemInv, RequestSet
<1>5. /\ frames' \in Seq(FrameSet) /\ Len(frames') = 1 /\ buffered' = 1
      /\ frames'[1].status.mask = actual'
  <2>1. Len(frames) = 0
    BY <1>1
  <2>2. /\ frames' \in Seq(FrameSet) /\ Len(frames') = Len(frames) + 1 /\ buffered' = Len(frames')
        /\ frames'[Len(frames) + 1].status.mask = actual'
    BY <1>1, <1>3, <1>4, ArrivesType
  <2>3. QED
    BY <2>1, <2>2
<1>6. left' \in [{"losses", "panel", "asks", "reboots"} -> Nat]
  BY <1>4, SpendType DEF Answer, SystemTypeOK
<1>7. SystemTypeOK'
  BY <1>1, <1>2, <1>4, <1>5, <1>6 DEF SystemTypeOK, FrameSet
<1>8. InFlight'
  BY <1>1 DEF InFlight
<1>9. FramesAgree'
  BY <1>5 DEF FramesAgree, Agree
<1>10. ViewAgrees'
  <2>1. UNCHANGED <<lastMask, hasStatus, h>>
    BY <1>3, ArrivesUnnoticed
  <2>2. CASE Head(requests).bits = {}
    <3>1. actual' = actual
      BY <1>1, <2>2 DEF Flip
    <3>2. QED
      BY <1>2, <2>1, <3>1, NothingLearned
  <2>3. CASE Head(requests).bits # {}
    <3>1. h.toggle = "flying"
      BY <2>3 DEF SystemInv, InFlight, Answer
    <3>2. QED
      BY <2>1, <3>1 DEF ViewAgrees
  <2>4. QED
    BY <2>2, <2>3
<1>11. QED
  BY <1>7, <1>8, <1>9, <1>10 DEF SystemInv

\* What is changed at the panel is unseen until its frame is read.
LEMMA PanelKeeps ==
    ASSUME IInv, SystemInv, NEW zone \in Zones, Panel(zone)
    PROVE  SystemInv'
<1>1. /\ requests = <<>> /\ requests' = <<>> /\ stall' = stall
      /\ actual' = Flip(actual, {zone}) /\ unseen' = unseen \cup {zone}
  BY DEF Panel
<1>2. PICK seq \in Seqs, damaged \in BOOLEAN : Arrives(seq, "panel", damaged)
  BY DEF Panel
<1>3. SystemTypeOK /\ actual' \in Masks /\ unseen' \in Masks
  BY <1>1, FlipType DEF SystemInv, SystemTypeOK, Masks
<1>4. /\ frames' \in Seq(FrameSet) /\ Len(frames) \in Nat
      /\ Len(frames') = Len(frames) + 1 /\ buffered' = Len(frames')
      /\ \A i \in 1 .. Len(frames) : frames'[i] = frames[i]
      /\ frames'[Len(frames) + 1].by = "panel"
      /\ frames'[Len(frames) + 1].status.mask = actual'
  BY <1>2, <1>3, ArrivesType
<1>5. left' \in [{"losses", "panel", "asks", "reboots"} -> Nat]
  BY <1>3, SpendType DEF Panel
<1>6. SystemTypeOK'
  BY <1>1, <1>3, <1>4, <1>5 DEF SystemTypeOK, FrameSet
<1>7. InFlight'
  BY <1>1 DEF InFlight
<1>8. \A z \in Zones \ unseen' : z \in Zones \ unseen /\ (z \in actual' <=> z \in actual)
  BY <1>1, FlipDiffers
<1>9. FramesAgree'
  <2> SUFFICES ASSUME NEW i \in 1 .. Len(frames')
               PROVE  /\ Agree(frames[i].status.mask, actual)'
                      /\ (\A j \in i + 1 .. Len(frames') : frames'[j].by # "panel")
                            => frames'[i].status.mask = actual'
    BY DEF FramesAgree
  <2>1. CASE i = Len(frames) + 1
    BY <1>4, <2>1 DEF Agree
  <2>2. CASE i \in 1 .. Len(frames)
    <3>1. Len(frames) + 1 \in i + 1 .. Len(frames')
      BY <1>4, <2>2
    <3>2. Agree(frames[i].status.mask, actual) /\ frames'[i] = frames[i]
      BY <1>4, <2>2 DEF SystemInv, FramesAgree
    <3>3. QED
      BY <1>4, <1>8, <3>1, <3>2 DEF Agree
  <2>3. QED
    BY <1>4, <2>1, <2>2
<1>10. ViewAgrees'
  <2>1. UNCHANGED <<lastMask, hasStatus, h>>
    BY <1>2, ArrivesUnnoticed
  <2>2. QED
    BY <1>8, <2>1 DEF SystemInv, ViewAgrees, Agree
<1>11. QED
  BY <1>6, <1>7, <1>9, <1>10 DEF SystemInv

\* Time passes while nothing is on its way.
LEMMA PassKeeps == SystemInv /\ Pass => SystemInv'
<1> SUFFICES ASSUME SystemInv, Pass PROVE SystemInv'
  OBVIOUS
<1>1. /\ requests = <<>> /\ UNCHANGED <<actual, requests, frames, unseen, left>>
      /\ UNCHANGED <<buffered, lastMask, hasStatus, h>> /\ stall < MaxStall /\ stall' = stall + 1
  BY DEF Pass, Tick, view
<1>2. SystemTypeOK' /\ FramesAgree'
  BY <1>1, Undisturbed, SystemAssumption DEF SystemInv, SystemTypeOK
<1>3. QED
  BY <1>1, <1>2, NothingLearned DEF SystemInv, InFlight

\* A restart forgets the frames, and knows no state until it has read another.
LEMMA RestartKeeps == SystemInv /\ Restart => SystemInv'
<1> SUFFICES ASSUME SystemInv, Restart PROVE SystemInv'
  OBVIOUS
<1>1. /\ requests' = <<>> /\ frames' = <<>> /\ buffered' = 0 /\ stall' = 0
      /\ UNCHANGED <<actual, unseen>> /\ hasStatus' = FALSE
      /\ left' \in [{"losses", "panel", "asks", "reboots"} -> Nat]
  BY SpendType DEF Restart, Reboot, SystemInv
<1>2. QED
  BY <1>1, SystemAssumption
     DEF SystemInv, SystemTypeOK, InFlight, FramesAgree, ViewAgrees

LEMMA SystemInitInv == SystemInit => SystemInv
BY SystemAssumption
   DEF SystemInit, Init, SystemInv, SystemTypeOK, InFlight, FramesAgree, ViewAgrees, Masks

LEMMA SystemStepInv ==
    IInv /\ SystemInv /\ [SystemNext]_<<vars, world>> => SystemInv'
<1> SUFFICES ASSUME IInv, SystemInv, [SystemNext]_<<vars, world>> PROVE SystemInv'
  OBVIOUS
<1>1. CASE UNCHANGED <<vars, world>>
  BY <1>1 DEF vars, world, view, clocks, link, SystemInv, SystemTypeOK, InFlight, FramesAgree,
              ViewAgrees, Agree
<1>2. CASE DriverStep
  BY <1>2, StartKeeps, GoOnKeeps, TransmitKeeps, ReadKeeps, StopKeeps DEF DriverStep
<1>3. QED
  BY <1>1, <1>2, AskKeeps, AnswerKeeps, PanelKeeps, PassKeeps, RestartKeeps DEF SystemNext

--------------------------------------------------------------------------------

LEMMA SystemInvariants == SystemSpec => [](IInv /\ SystemInv)
<1>1. SystemInit => IInv /\ SystemInv
  BY SystemInitInv, InitIInv DEF SystemInit
<1>2. IInv /\ SystemInv /\ [SystemNext]_<<vars, world>> => IInv' /\ SystemInv'
  BY SystemStepInv, SystemStepIsDrivers, StepIInv DEF SystemInv
<1>3. QED
  BY <1>1, <1>2, PTL DEF SystemSpec

(* One request at a time is on its way, the buffer tells where the zones are, *)
(* and so does the driver once a status has settled its last toggle.          *)
THEOREM SystemInvariance == SystemSpec => []SystemInv
BY SystemInvariants, PTL

(* On this bus the driver is the one of V2Driver: what holds of it there,     *)
(* holds here.                                                                *)
THEOREM SystemIsDriver == SystemSpec => Spec
<1>1. SystemInit => Init
  BY DEF SystemInit
<1>2. SystemInv /\ [SystemNext]_<<vars, world>> => [Next]_vars
  BY SystemStepIsDrivers DEF SystemInv
<1>3. QED
  BY <1>1, <1>2, SystemInvariance, PTL DEF SystemSpec, Spec

(* It therefore keeps the promise of Toggler towards a controller that has    *)
(* the zones.                                                                 *)
THEOREM SystemKeepsPromise == SystemSpec => KeepsPromise
BY SystemIsDriver, PromiseKept, PTL

(* Only Answer takes a request.                                               *)
LEMMA ToggledAnswers ==
    ASSUME IInv, SystemInv, [SystemNext]_<<vars, world>>, Toggled
    PROVE  Answer
<1>1. requests' # requests
  <2>1. requests \in Seq(RequestSet) /\ requests # <<>> /\ requests' = Tail(requests)
    BY DEF Toggled, SystemInv, SystemTypeOK, RequestSet
  <2>2. Len(requests') = Len(requests) - 1 /\ Len(requests) \in Nat
    BY <2>1, HeadTailProperties
  <2>3. QED
    BY <2>2
<1>2. requests # <<>>
  BY DEF Toggled
<1>3. ~UNCHANGED <<vars, world>> /\ ~StartTurn /\ ~GoOn /\ ~Read /\ ~StopReading /\ ~Ask
      /\ ~Pass /\ ~Restart /\ \A zone \in Zones : ~Panel(zone)
  BY <1>1 DEF world, StartTurn, GoOn, Read, StopReading, Ask, Pass, Restart, Panel
<1>4. ~Transmit
  BY <1>1, <1>2, SentAlone DEF Transmit
<1>5. QED
  BY <1>3, <1>4 DEF SystemNext, DriverStep

(* No toggle that reaches the controller takes its zone away from where it    *)
(* was asked to be, and none is repeated.                                     *)
THEOREM AllTowardsAim == SystemSpec => TogglesTowardsAim
<1>1. ASSUME IInv, SystemInv, [SystemNext]_<<vars, world>>, Toggled
      PROVE  \A z \in Head(requests).bits :
                z \in unseen \/ (z \in actual' <=> z \in Head(requests).aim)
  BY <1>1, ToggledAnswers, AnsweredAlone
<1>2. QED
  BY <1>1, SystemInvariants, PTL DEF SystemSpec, TogglesTowardsAim

(* Only run_poll_cycle_ ends a request, when nothing is left to toggle.       *)
LEMMA EndingPolls ==
    ASSUME SystemInv, [SystemNext]_<<vars, world>>, pending, ~pending', pc' # "idle"
    PROVE  pc = "poll" /\ WriteDue /\ Diff = {}
<1> USE DEF intent
<1>1. ~UNCHANGED <<vars, world>> /\ ~StartTurn /\ ~GoOn /\ ~StopReading
  BY DEF vars, StartTurn, LoopExpires, LoopStart, GoOn, ResponseMissed, RecordSent, ConcludeMatch,
         StopReading, LoopEnd
<1>2. ~Read
  BY DEF Read, ReceiveOther, ReceiveUnconfirmed, ReceiveStatus
<1>3. ~Ask /\ ~Answer /\ ~Pass /\ ~Restart /\ \A zone \in Zones : ~Panel(zone)
  BY DEF Ask, RequestRefresh, QueueZoneState, Answer, Panel, Arrives, Arrive, Pass, Tick, Restart, Reboot
<1>4. PollQuery
  BY <1>1, <1>2, <1>3 DEF SystemNext, DriverStep, Transmit, PollToggle
<1>5. QED
  BY <1>4 DEF PollQuery

(* When a request ends, the zones are where they were asked to be.            *)
THEOREM AllEndInAgreement == SystemSpec => EndsInAgreement
<1>1. ASSUME IInv, SystemInv, [SystemNext]_<<vars, world>>, pending, ~pending', pc' # "idle"
      PROVE  \A z \in h.asked :
                \/ z \in unseen
                \/ z \in actual <=> z \in desired
                \/ z = SpillZone /\ desired = {}
  <2>1. pc = "poll" /\ WriteDue /\ Diff = {}
    BY <1>1, EndingPolls
  <2>2. Agree(lastMask, actual)
    BY <1>1, <2>1, WriteIsSettled DEF SystemInv, ViewAgrees
  <2>3. h.asked \subseteq Zones
    BY <1>1 DEF IInv, TypeOK, Histories
  <2>4. ASSUME NEW z \in h.asked
        PROVE  (z \in lastMask <=> z \in desired) \/ (z = SpillZone /\ desired = {})
    BY <2>1, FlipDiffers DEF Diff, SpillGuard
  <2>5. QED
    BY <2>2, <2>3, <2>4 DEF Agree
<1>2. QED
  BY <1>1, SystemInvariants, PTL DEF SystemSpec, EndsInAgreement
================================================================================
