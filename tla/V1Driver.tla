-------------------------------- MODULE V1Driver --------------------------------
(* The V1 driver, V1ZoneSwitch: one call of loop() after another, requests    *)
(* that arrive between two calls or out of a callback inside one, and a       *)
(* shared bus.                                                                *)
(*                                                                            *)
(* loop() is cut where it hands control to somebody else, which is where it   *)
(* publishes: an automation on a published value may call request_zone_state  *)
(* or request_refresh before loop() goes on.  pc names the place:             *)
(*   idle      between two calls                                              *)
(*   drain     in the read loop                                               *)
(*   answer    in handle_v1_status_, "status_received" published              *)
(*   decide    past the status timeout, about to decide what to transmit      *)
(*   timedout  "response_timeout" published, transaction not yet abandoned    *)
(*   failed    a transport error published, transaction not yet abandoned     *)
(*   sent      "awaiting_status" published, transaction not yet recorded      *)
(* The received bytes are the frames they amount to; how the parser finds     *)
(* them is left to another module, and here it may also lose one.             *)
EXTENDS Hub, Sequences

CONSTANTS
    ResponseTimeout, \* RESPONSE_TIMEOUT_MS, in ticks
    TransactionGap,  \* TRANSACTION_GAP_MS, in ticks
    FrameTimeout,    \* FRAME_TIMEOUT_MS, in ticks
    AskedZones,      \* the zone numbers requests name, valid or not
    RxCap            \* how many frames may wait in the UART buffer

ASSUME V1TimesAssumption ==
    /\ ResponseTimeout \in Nat
    /\ TransactionGap \in Nat
    /\ FrameTimeout \in Nat
    /\ RxCap \in Nat
ASSUME AskedZonesAssumption == Zones \subseteq AskedZones /\ AskedZones \subseteq Nat

VARIABLES
    pc,           \* where loop() is
    rx,           \* frames in the UART buffer, oldest first
    partial,      \* rx_index_ # 0: the parser holds part of a frame
    waiting,      \* waiting_for_response_
    waitingWrite, \* waiting_for_write_response_
    pendingZone,  \* v1_pending_zone_
    targetOn,     \* v1_target_on_
    writeReady,   \* v1_write_ready_
    refresh,      \* refresh_requested_
    online,       \* online_
    hasStatus,    \* has_status_
    lastMask,     \* last_mask_
    hasTx,        \* v1_has_tx_
    result,       \* transaction_result_
    txMask,       \* the mask given to transact_v1_ by the transaction under way
    age,          \* time since last_rx_byte_ms_, last_tx_ms_, last_poll_ms_, last_status_ms_
    req           \* history: the last accepted request and what became of it

link == <<waiting, waitingWrite, hasTx, txMask>>
intent == <<pendingZone, targetOn, writeReady, refresh>>
view == <<online, hasStatus, lastMask>>
input == <<rx, partial>>
vars == <<pc, input, link, intent, view, result, age, req>>

PCs == {"idle", "drain", "answer", "decide", "timedout", "failed", "sent"}
Clocks == {"rx", "tx", "poll", "status"}
Horizon == [c \in Clocks |->
              CASE c = "rx" -> Larger(FrameTimeout, TxIdleGuard)
                [] c = "tx" -> Larger(ResponseTimeout, TransactionGap)
                [] c = "poll" -> IF EnablePolling THEN PollInterval ELSE 0
                [] c = "status" -> StatusTimeout]


(* transaction_result_.  "refused" stands for listen_only, invalid_zone and   *)
(* rejected_busy, "not_sent" for ack_timeout, ack_invalid and tx_failed.      *)
Results == {"none", "refused", "awaiting_status", "status_received",
            "status_timeout", "response_timeout", "not_sent"}

(* What arrives: a valid status, eight bytes that are none, or the beginning  *)
(* of a frame.                                                                *)
Status(mask) == [kind |-> "status", mask |-> mask]
Garbage == [kind |-> "garbage", mask |-> {}]
Fragment == [kind |-> "fragment", mask |-> {}]
Frames == {Status(m) : m \in Masks} \cup {Garbage, Fragment}

Ages == {a \in [Clocks -> Nat] : \A c \in Clocks : a[c] <= Horizon[c]}

Histories == [zone : Zones \cup {NoZone}, on : BOOLEAN, answered : BOOLEAN,
              spoiled : BOOLEAN, toggles : 0 .. 2]
NoRequest == [zone |-> NoZone, on |-> FALSE, answered |-> FALSE, spoiled |-> FALSE, toggles |-> 0]

Init ==
    /\ pc = "idle"
    /\ rx = <<>> /\ partial = FALSE
    /\ waiting = FALSE /\ waitingWrite = FALSE /\ hasTx = FALSE /\ txMask = {}
    /\ pendingZone = NoZone /\ targetOn = FALSE /\ writeReady = FALSE
    /\ refresh = ~ListenOnly
    /\ online = FALSE /\ hasStatus = FALSE /\ lastMask = {}
    /\ result = "none"
    /\ age = [c \in Clocks |-> 0]
    /\ req = NoRequest

-------------------------------------------------------------------------------
(* Requests, from an entity or an automation.                                 *)

\* request_refresh
RequestRefresh ==
    /\ IF ListenOnly
       THEN result' = "refused" /\ UNCHANGED refresh
       ELSE refresh' = TRUE /\ UNCHANGED result
    /\ UNCHANGED <<pc, input, link, pendingZone, targetOn, writeReady, view, age, req>>

\* Faulty: only zone 0 is invalid.
RefusedUpToNoZone(zone) ==
    ListenOnly \/ zone = NoZone \/ waiting \/ pendingZone # NoZone
\* Faulty: listen-only is forgotten.
RefusedUnlessListening(zone) ==
    zone \notin Zones \/ waiting \/ pendingZone # NoZone

\* Why request_zone_state, or queue_zone_state_, refuses a request.
Refused(zone) ==
    ListenOnly \/ zone \notin Zones \/ waiting \/ pendingZone # NoZone

\* request_zone_state, refused.
RefuseZoneState(zone) ==
    /\ Refused(zone)
    /\ result' = "refused"
    /\ UNCHANGED <<pc, input, link, intent, view, age, req>>

\* request_zone_state, accepted by queue_zone_state_.
QueueZoneState(zone, on) ==
    /\ ~Refused(zone)
    /\ pendingZone' = zone
    /\ targetOn' = on
    /\ writeReady' = FALSE
    /\ refresh' = TRUE
    /\ req' = [NoRequest EXCEPT !.zone = zone, !.on = on]
    /\ UNCHANGED <<pc, input, link, view, result, age>>

-------------------------------------------------------------------------------
(* loop().                                                                    *)

\* The entry: a frame that has been incomplete for too long is given up.
LoopStart ==
    /\ pc = "idle"
    /\ pc' = "drain"
    /\ partial' = (partial /\ age["rx"] < FrameTimeout)
    /\ UNCHANGED <<rx, link, intent, view, result, age, req>>

\* The read loop meets bytes that complete no valid status.
ReceiveOther ==
    /\ pc = "drain"
    /\ rx # <<>>
    /\ Head(rx).kind = "status" => partial
    /\ partial' \in IF Head(rx).kind = "fragment" THEN {TRUE} ELSE BOOLEAN
    /\ rx' = Tail(rx)
    /\ age' = [age EXCEPT !["rx"] = 0]
    /\ UNCHANGED <<pc, link, intent, view, result, req>>

\* handle_v1_status_, as far as the publication of its result.
ReceiveStatus ==
    /\ pc = "drain"
    /\ rx # <<>>
    /\ Head(rx).kind = "status"
    /\ rx' = Tail(rx)
    /\ partial' = FALSE
    /\ lastMask' = Head(rx).mask
    /\ hasStatus' = TRUE
    /\ online' = TRUE
    /\ age' = [age EXCEPT !["rx"] = 0, !["status"] = 0]
    /\ IF waiting
       THEN pc' = "answer" /\ result' = "status_received"
       ELSE UNCHANGED <<pc, result>>
    /\ req' = [req EXCEPT !.answered = @ \/ (waiting /\ txMask = {})]
    /\ UNCHANGED <<link, intent>>

\* Faulty: the status that follows a toggle counts as well.
AnswersAnything == pendingZone # NoZone

\* The answer makes a toggle due if it answers a query of a pending request.
AnswersQuery == ~waitingWrite /\ pendingZone # NoZone

\* The rest of handle_v1_status_: the status has answered the transaction.
Answered ==
    /\ pc = "answer"
    /\ pc' = "drain"
    /\ writeReady' = AnswersQuery
    /\ waiting' = FALSE
    /\ waitingWrite' = FALSE
    /\ txMask' = {}
    /\ UNCHANGED <<input, hasTx, pendingZone, targetOn, refresh, view, result, age, req>>

\* Faulty: the zone survives, without a query for it.
KeepZone == UNCHANGED pendingZone /\ writeReady' = FALSE /\ refresh' = FALSE

\* status_expired_, and the part of fail_v1_transaction_ about the intent.
CancelIntent == pendingZone' = NoZone /\ writeReady' = FALSE /\ refresh' = FALSE

(* The read loop ends: the buffer is empty, 64 bytes are read, or a read      *)
(* failed.  service_status_timeout_ follows; listen-only stops there.         *)
Service ==
    /\ pc = "drain"
    /\ pc' = IF ListenOnly THEN "idle" ELSE "decide"
    /\ IF StatusExpired(online, hasStatus, age["status"])
       THEN /\ online' = FALSE
            /\ waiting' = FALSE
            /\ waitingWrite' = FALSE
            /\ txMask' = {}
            /\ CancelIntent
            /\ result' = "status_timeout"
            /\ req' = [req EXCEPT !.spoiled = TRUE]
       ELSE UNCHANGED <<online, waiting, waitingWrite, txMask, pendingZone, writeReady, refresh, result, req>>
    /\ UNCHANGED <<input, hasTx, targetOn, hasStatus, lastMask, age>>

\* Faulty: the driver stays online.
FailOnline ==
    /\ waiting' = FALSE
    /\ waitingWrite' = FALSE
    /\ txMask' = {}
    /\ CancelIntent
    /\ partial' = FALSE
    /\ req' = [req EXCEPT !.spoiled = TRUE]
    /\ UNCHANGED <<rx, hasTx, targetOn, view, age>>

\* fail_v1_transaction_: the intent is abandoned with the transaction.
FailTransaction ==
    /\ waiting' = FALSE
    /\ waitingWrite' = FALSE
    /\ txMask' = {}
    /\ CancelIntent
    /\ partial' = FALSE
    /\ online' = FALSE
    /\ req' = [req EXCEPT !.spoiled = TRUE]
    /\ UNCHANGED <<rx, hasTx, targetOn, hasStatus, lastMask, age>>

\* A transaction is under way: nothing to decide until its time is up.
AwaitResponse ==
    /\ pc = "decide"
    /\ waiting
    /\ IF age["tx"] >= ResponseTimeout
       THEN pc' = "timedout" /\ result' = "response_timeout"
       ELSE pc' = "idle" /\ UNCHANGED result
    /\ UNCHANGED <<input, link, intent, view, age, req>>

AbandonTimedOut ==
    /\ pc = "timedout"
    /\ pc' = "idle"
    /\ FailTransaction
    /\ UNCHANGED result

BusHeld ==
    \/ rx # <<>>
    \/ partial
    \/ age["rx"] < TxIdleGuard
    \/ hasTx /\ age["tx"] < TransactionGap

PollDue == EnablePolling /\ age["poll"] >= PollInterval

WriteDue == pendingZone # NoZone /\ writeReady
QueryDue == refresh \/ PollDue

\* The toggle that brings the pending zone to its target; none if it is there.
ToggleFor(zone, on, last) ==
    LET desired == IF on THEN last \cup {zone} ELSE last \ {zone}
    IN  IF (zone \in last) = on THEN {} ELSE SpillGuard({zone}, desired, last)

\* Nothing is transmitted in this call.
Hold ==
    /\ pc = "decide"
    /\ ~waiting
    /\ BusHeld \/ (~WriteDue /\ ~QueryDue)
    /\ pc' = "idle"
    /\ UNCHANGED <<input, link, intent, view, result, age, req>>

\* The pending zone needs no toggle, or must not have one: the intent is done.
SettleWithoutToggle ==
    /\ pc = "decide"
    /\ ~waiting
    /\ ~BusHeld
    /\ WriteDue
    /\ pc' = "idle"
    /\ IF online
       THEN /\ ToggleFor(pendingZone, targetOn, lastMask) = {}
            /\ pendingZone' = NoZone
            /\ writeReady' = FALSE
            /\ UNCHANGED <<input, link, targetOn, refresh, view, age, req>>
       ELSE FailTransaction
    /\ UNCHANGED result

(* transact_v1_(mask): C0 out, 30 in, mask out.  Any failure is final; the    *)
(* mask may have reached the bus in a failure of its own send.                *)
Transact(mask) ==
    /\ txMask' = mask
    /\ refresh' = FALSE
    /\ age' = [age EXCEPT !["tx"] = 0, !["poll"] = 0]
    /\ hasTx' = TRUE
    /\ \/ pc' = "sent" /\ result' = "awaiting_status"
       \/ pc' = "failed" /\ result' = "not_sent"
    /\ UNCHANGED <<input, waiting, waitingWrite, targetOn, view>>

TransmitToggle ==
    /\ pc = "decide"
    /\ ~waiting
    /\ ~BusHeld
    /\ WriteDue
    /\ online
    /\ LET mask == ToggleFor(pendingZone, targetOn, lastMask)
       IN  mask # {} /\ Transact(mask)
    /\ pendingZone' = NoZone
    /\ writeReady' = FALSE
    /\ req' = [req EXCEPT !.toggles = IF @ < 2 THEN @ + 1 ELSE @]

TransmitQuery ==
    /\ pc = "decide"
    /\ ~waiting
    /\ ~BusHeld
    /\ ~WriteDue
    /\ QueryDue
    /\ Transact({})
    /\ UNCHANGED <<pendingZone, writeReady, req>>

AbandonFailed ==
    /\ pc = "failed"
    /\ pc' = "idle"
    /\ FailTransaction
    /\ UNCHANGED result

\* Faulty: a query does not wait for its status.
OpenForWrite(mask) == waiting' = (mask # {}) /\ waitingWrite' = (mask # {})

OpenTransaction(mask) == waiting' = TRUE /\ waitingWrite' = (mask # {})

\* The end of a successful transmission.
RecordSent ==
    /\ pc = "sent"
    /\ pc' = "idle"
    /\ OpenTransaction(txMask)
    /\ age' = [age EXCEPT !["tx"] = 0]
    /\ UNCHANGED <<input, hasTx, txMask, intent, view, result, req>>

-------------------------------------------------------------------------------
(* The surroundings.                                                          *)

\* The UART interrupt buffers a frame of the controller or of a wall panel.
Arrive(frame) ==
    /\ Len(rx) < RxCap
    /\ rx' = Append(rx, frame)
    /\ UNCHANGED <<pc, partial, link, intent, view, result, age, req>>

(* Time passes.  Deciding works on the millis() read at its beginning, so no  *)
(* tick falls into it.                                                        *)
Tick ==
    /\ pc # "decide"
    /\ age' = [c \in Clocks |-> Older(age[c], Horizon[c])]
    /\ UNCHANGED <<pc, input, link, intent, view, result, req>>

\* A restart loses everything: V1 stores nothing.
Reboot ==
    /\ pc' = "idle" /\ rx' = <<>> /\ partial' = FALSE
    /\ waiting' = FALSE /\ waitingWrite' = FALSE /\ hasTx' = FALSE /\ txMask' = {}
    /\ pendingZone' = NoZone /\ targetOn' = FALSE /\ writeReady' = FALSE
    /\ refresh' = ~ListenOnly
    /\ online' = FALSE /\ hasStatus' = FALSE /\ lastMask' = {}
    /\ result' = "none"
    /\ age' = [c \in Clocks |-> 0]
    /\ req' = NoRequest

LoopStep ==
    \/ LoopStart \/ ReceiveOther \/ ReceiveStatus \/ Answered \/ Service
    \/ AwaitResponse \/ AbandonTimedOut \/ Hold \/ SettleWithoutToggle
    \/ TransmitToggle \/ TransmitQuery \/ AbandonFailed \/ RecordSent

Request ==
    \/ RequestRefresh
    \/ \E zone \in AskedZones, on \in BOOLEAN :
          RefuseZoneState(zone) \/ QueueZoneState(zone, on)

Next ==
    \/ LoopStep
    \/ Request
    \/ \E frame \in Frames : Arrive(frame)
    \/ Tick
    \/ Reboot

Spec == Init /\ [][Next]_vars

-------------------------------------------------------------------------------
(* Properties.                                                                *)

\* Every variable holds a value of its field.
TypeOK ==
    /\ pc \in PCs
    /\ rx \in Seq(Frames)
    /\ partial \in BOOLEAN /\ waiting \in BOOLEAN /\ waitingWrite \in BOOLEAN
    /\ targetOn \in BOOLEAN /\ writeReady \in BOOLEAN /\ refresh \in BOOLEAN
    /\ online \in BOOLEAN /\ hasStatus \in BOOLEAN /\ hasTx \in BOOLEAN
    /\ pendingZone \in Zones \cup {NoZone}
    /\ lastMask \in Masks /\ txMask \in Masks
    /\ result \in Results
    /\ age \in Ages
    /\ req \in Histories

(* An accepted request is never stranded: while it is pending, its toggle is  *)
(* due, or a query it can be answered by is wanted or under way, or the       *)
(* failure that cancels it is being reported.  refresh_requested_ is shared   *)
(* by requests, refreshes and failures, and loop() clears it on every         *)
(* transmission (queue_zone_state_, lines 128-148).                           *)
NoStrandedRequest ==
    pendingZone # NoZone =>
        \/ writeReady
        \/ refresh
        \/ waiting /\ ~waitingWrite
        \/ pc = "sent" /\ txMask = {}
        \/ pc = "failed"

(* "awaiting_status" is published only while a transaction is: no path that   *)
(* ends one leaves the entity showing it (set_transaction_result_).           *)
AwaitingIsLive == result = "awaiting_status" /\ pc # "sent" => waiting

\* A listen-only driver never transmits, and never owes a transmission.
ListenerIsSilent == ListenOnly => ~hasTx /\ ~refresh /\ pendingZone = NoZone

Toggles == pc = "decide" /\ pc' \in {"sent", "failed"} /\ txMask' # {}

(* What a toggle may rest on (protocol_v1.cpp:128-148): one accepted request  *)
(* for exactly that zone, a status that answered a query of ours after the    *)
(* request was accepted, the last status still showing the other state, no    *)
(* failed or expired transaction since, and no toggle for that request yet.   *)
ToggleJustified ==
    [][Toggles =>
          /\ req.zone # NoZone
          /\ txMask' = {req.zone}
          /\ req.answered
          /\ ~req.spoiled
          /\ req.toggles = 0
          /\ (req.zone \in lastMask) # req.on]_vars

(* A toggle is relative, so it never rests on a state that the status timeout *)
(* already calls unknown (service_status_timeout_ runs before the decision).  *)
ToggleFromLiveStatus ==
    [][Toggles => online /\ (StatusTimeout # 0 => age["status"] < StatusTimeout)]_vars

(* The spill guard: the spill zone is never toggled while it is the only zone *)
(* known to be open (protocol_test.cpp:147).                                  *)
SpillStaysOpen == [][Toggles /\ lastMask = {SpillZone} => txMask' # {SpillZone}]_vars

(* The inductive invariant: how the phases of loop(), the transaction, the    *)
(* pending request and its history hang together.                             *)

PhasesAgree ==
    /\ pc \in {"answer", "timedout"} => waiting
    /\ pc \in {"sent", "failed"} => ~waiting /\ ~writeReady
    /\ pc \in {"answer", "timedout", "failed"} => result # "awaiting_status"
    /\ pc = "answer" => online
    /\ pc = "answer" => ((txMask = {} /\ pendingZone # NoZone) => req.answered)
    /\ ListenOnly => pc \in {"idle", "drain"} /\ ~waiting

TransactionAgrees ==
    /\ waiting => waitingWrite = (txMask # {})
    /\ txMask # {} => waiting \/ pc \in {"sent", "failed"}
    /\ online => hasStatus
    /\ (pc = "decide" /\ online /\ StatusTimeout # 0) => age["status"] < StatusTimeout

HistoryAgrees ==
    /\ writeReady => pendingZone # NoZone /\ online /\ ~waiting /\ req.answered
    /\ pendingZone # NoZone =>
          /\ req.zone = pendingZone
          /\ req.on = targetOn
          /\ ~req.spoiled
          /\ req.toggles = 0

(* A pending request is always the last accepted one, undamaged and not yet   *)
(* toggled for, and a due one has been answered; with TypeOK and the          *)
(* invariants above, this is what every step of the driver preserves.         *)
IInv ==
    /\ TypeOK
    /\ NoStrandedRequest
    /\ AwaitingIsLive
    /\ ListenerIsSilent
    /\ PhasesAgree
    /\ TransactionAgrees
    /\ HistoryAgrees

(* The promise of Toggler.  A status settles a toggle when it is accepted,    *)
(* which is before the transaction is closed; offline is unsure.              *)
Open == IF pc = "answer" THEN {} ELSE txMask

Promise == INSTANCE Toggler WITH
    out <- Open, sure <- online /\ Open = {}, age <- age["status"]

(* Whatever the bus and the callbacks do, the driver toggles one zone at a    *)
(* time, from a state it is sure of, and only a status that it accepts ends   *)
(* its doubt (handle_v1_status_, fail_v1_transaction_, status_expired_).      *)
KeepsPromise == Promise!Spec

(* The scheduling assumed for liveness: loop() is called again and again and  *)
(* runs on, time passes, and a decision that finds the bus free often enough  *)
(* is not always overtaken by the next byte.                                  *)
Fairness ==
    /\ WF_vars(LoopStep)
    /\ SF_vars(Tick)
    /\ SF_vars(TransmitQuery \/ TransmitToggle \/ SettleWithoutToggle)

QuietBus == pc = "decide" /\ rx = <<>> /\ ~partial /\ age["rx"] >= TxIdleGuard

(* On a bus with idle gaps every accepted request is decided one way or the   *)
(* other: toggled, found done, or cancelled.  Until then every further        *)
(* request is refused as busy, so nothing less would let the entities work.   *)
RequestResolves == []<>QuietBus => (pendingZone # NoZone ~> pendingZone = NoZone)
================================================================================
