-------------------------------- MODULE V2Driver --------------------------------
(* The V2 driver, V2ZoneSwitch: numbered request frames, a controller whose   *)
(* address is learned from its statuses, and a stored candidate for it.       *)
(*                                                                            *)
(* loop() is cut where it publishes in the middle of a change, because a      *)
(* callback may then call request_zone_state or request_refresh:              *)
(*   idle    between two calls                                                *)
(*   missed  "response_timeout" published, transaction not yet closed         *)
(*   poll    past the timeouts, about to decide what to transmit              *)
(*   sent    "awaiting_status" published, transaction not yet recorded        *)
(*   drain   in the read loop                                                 *)
(*   match   "status_received" published, status not yet fully processed      *)
(* The bus promises nothing here: what a buffered frame holds is chosen when  *)
(* it is read.  transaction_result_ and the counters are left out.            *)
EXTENDS Hub

CONSTANTS
    Sources,            \* [node, arg0] a status frame may carry (frame[1], frame[5])
    TxFallback,         \* tx_node_addr_
    RestoreNode,        \* restore_node_
    Confirmations,      \* node_confirmations_required_
    MismatchThreshold,  \* node_mismatch_threshold_
    OfflineThreshold,   \* offline_miss_threshold_
    FlowPin,            \* flow_control_pin_ # nullptr
    RetryInterval,      \* TX_RETRY_INTERVAL_MS, in ticks
    AssertDelay,        \* tx_de_assert_delay_ms_, in ticks
    SeqMax,             \* the last sequence number before 1 again: 255 in the code
    RxCap               \* how many frames may wait in the UART buffer

ASSUME SourcesAssumption == Sources \subseteq [node : Nat, arg0 : Nat]
ASSUME NodeFlagsAssumption == RestoreNode \in BOOLEAN /\ FlowPin \in BOOLEAN
ASSUME V2NumbersAssumption ==
    /\ TxFallback \in Nat
    /\ Confirmations \in Nat \ {0}
    /\ MismatchThreshold \in Nat \ {0}
    /\ OfflineThreshold \in Nat \ {0}
    /\ RetryInterval \in Nat
    /\ AssertDelay \in Nat
    /\ SeqMax \in Nat \ {0}
    /\ RxCap \in Nat

VARIABLES
    pc,            \* where loop() is
    buffered,      \* how many frames the UART buffer holds
    waiting,       \* waiting_for_response_
    waitingWrite,  \* waiting_for_write_response_
    txBits,        \* arg1 of the request being sent or awaited
    txSeq,         \* tx_seq_
    lastTxSeq,     \* last_tx_seq_; 0 while has_last_tx_seq_ is false
    refresh,       \* refresh_requested_
    pending,       \* pending_desired_
    desired,       \* desired_mask_
    requireFresh,  \* require_fresh_status_before_write_
    online,        \* online_
    hasStatus,     \* has_status_
    lastMask,      \* last_mask_
    misses,        \* consecutive_misses_, up to OfflineThreshold
    candidate,     \* candidate_node_addr_ and candidate_arg0_
    confirmations, \* candidate_confirmations_
    locked,        \* node_locked_
    nodeAddr,      \* node_addr_
    learnedArg0,   \* learned_arg0_
    mismatches,    \* node_mismatch_count_
    restored,      \* restored_node_addr_, restored_arg0_; NoSource if not restored_node_valid_
    stored,        \* the NodePreference in flash; it survives a restart
    de,            \* the level of the flow control pin
    dePending,     \* tx_de_assert_pending_
    timeLeft,      \* until next_tx_retry_ms_ and tx_de_assert_at_ms_
    age,           \* since last_rx_byte_ms_, last_tx_ms_, last_poll_ms_, last_status_ms_
    h              \* history: the last toggle, the asked zones, what was heard

link == <<waiting, waitingWrite, txBits, txSeq, lastTxSeq>>
intent == <<refresh, pending, desired, requireFresh>>
view == <<online, hasStatus, lastMask, misses>>
identity == <<candidate, confirmations, locked, nodeAddr, learnedArg0, mismatches>>
memory == <<restored, stored>>
direction == <<de, dePending>>
clocks == <<timeLeft, age>>
vars == <<pc, buffered, link, intent, view, identity, memory, direction, clocks, h>>

PCs == {"idle", "missed", "poll", "sent", "drain", "match"}
Clocks == {"rx", "tx", "poll", "status"}
Horizon == [c \in Clocks |->
              CASE c = "rx" -> TxIdleGuard
                [] c = "status" -> StatusTimeout
                [] OTHER -> PollInterval]
Ages == {a \in [Clocks -> Nat] : \A c \in Clocks : a[c] <= Horizon[c]}

NoSource == [node |-> 0, arg0 |-> 0]
Seqs == 1 .. SeqMax
Statuses == [source : Sources, seq : Seqs, mask : Masks]

(* toggle: what is known of the last toggle sent -- flying, lost, or settled  *)
(* by a status; asked: zones requested since pending; heard: statuses of the  *)
(* the source from in a row since the restart, or since the unlock.           *)
Fresh == [toggle |-> "settled", asked |-> {}, heard |-> 0, from |-> NoSource]

\* What save_locked_node_ may have written, and setup() takes: no zero in it.
Storable == {s \in Sources : s.node # 0 /\ s.arg0 # 0}

\* What setup() makes of the flash: nothing if it is empty or loading fails.
Loadable(flash) == IF RestoreNode THEN {flash, NoSource} ELSE {NoSource}

BootAges == [c \in Clocks |-> IF c = "rx" THEN Horizon[c] ELSE 0]

Init ==
    /\ pc = "idle" /\ buffered = 0
    /\ waiting = FALSE /\ waitingWrite = FALSE /\ txBits = {} /\ txSeq = 1 /\ lastTxSeq = 0
    /\ refresh = FALSE /\ pending = FALSE /\ desired = {} /\ requireFresh = FALSE
    /\ online = FALSE /\ hasStatus = FALSE /\ lastMask = {} /\ misses = 0
    /\ stored \in Storable \cup {NoSource}
    /\ restored \in Loadable(stored)
    /\ candidate = restored /\ nodeAddr = restored.node /\ confirmations = 0
    /\ locked = FALSE /\ learnedArg0 = 0 /\ mismatches = 0
    /\ de = FALSE /\ dePending = FALSE
    /\ timeLeft = [retry |-> 0, de |-> 0]
    /\ age = BootAges
    /\ h = Fresh

\* A restart, setup() included: all of RAM is lost, the flash is not.
Reboot ==
    /\ pc' = "idle" /\ buffered' = 0
    /\ waiting' = FALSE /\ waitingWrite' = FALSE /\ txBits' = {} /\ txSeq' = 1 /\ lastTxSeq' = 0
    /\ refresh' = FALSE /\ pending' = FALSE /\ desired' = {} /\ requireFresh' = FALSE
    /\ online' = FALSE /\ hasStatus' = FALSE /\ lastMask' = {} /\ misses' = 0
    /\ UNCHANGED stored
    /\ restored' \in Loadable(stored)
    /\ candidate' = restored' /\ nodeAddr' = restored'.node /\ confirmations' = 0
    /\ locked' = FALSE /\ learnedArg0' = 0 /\ mismatches' = 0
    /\ de' = FALSE /\ dePending' = FALSE
    /\ timeLeft' = [retry |-> 0, de |-> 0]
    /\ age' = BootAges
    /\ h' = Fresh

-------------------------------------------------------------------------------
(* Requests, from an entity or an automation.  A refused one changes nothing  *)
(* but the published result, so only the accepted ones are actions.           *)

\* Faulty: listen-only is forgotten.
AdmittedAlways == TRUE

\* What request_refresh and request_zone_state let pass.
Admitted == ~ListenOnly

\* request_refresh
RequestRefresh ==
    /\ Admitted
    /\ refresh' = TRUE
    /\ UNCHANGED <<pc, buffered, link, pending, desired, requireFresh, view, identity,
                   memory, direction, clocks, h>>

(* request_zone_state and queue_zone_state_: the requests that come while one *)
(* is pending are merged into one desired mask.                               *)
QueueZoneState(zone, on) ==
    LET base == IF pending THEN desired ELSE lastMask
    IN  /\ Admitted
        /\ hasStatus
        /\ online
        /\ desired' = IF on THEN base \cup {zone} ELSE base \ {zone}
        /\ pending' = TRUE
        /\ h' = [h EXCEPT !.asked = (IF pending THEN @ ELSE {}) \cup {zone}]
        /\ UNCHANGED <<pc, buffered, link, refresh, requireFresh, view, identity, memory,
                       direction, clocks>>

-------------------------------------------------------------------------------
(* loop(): flow control, status timeout, response timeout.                    *)

\* A toggle whose answer is no longer awaited may or may not have happened.
GivenUp(toggle) == IF toggle = "flying" THEN "lost" ELSE toggle

\* Faulty: the pin is lowered, but still counted as held.
ServiceFlowControlHalf ==
    /\ de' = (de /\ ~(dePending /\ timeLeft.de = 0))
    /\ UNCHANGED dePending
\* Faulty: the pin waits for an empty buffer.
ServiceFlowControlWhenQuiet ==
    LET due == dePending /\ timeLeft.de = 0 /\ buffered = 0
    IN  de' = (de /\ ~due) /\ dePending' = (dePending /\ ~due)

\* service_flow_control_
ServiceFlowControl ==
    LET due == dePending /\ timeLeft.de = 0
    IN  /\ de' = (de /\ ~due)
        /\ dePending' = (dePending /\ ~due)

\* Where run_poll_cycle_ goes on when the timeouts are served.
PastTimeouts == IF ListenOnly THEN "drain" ELSE "poll"

\* No status for too long: service_status_timeout_, status_expired_.
LoopExpires ==
    /\ pc = "idle"
    /\ StatusExpired(online, hasStatus, age["status"])
    /\ pc' = PastTimeouts
    /\ ServiceFlowControl
    /\ online' = FALSE
    /\ waiting' = FALSE
    /\ waitingWrite' = FALSE
    /\ txBits' = {}
    /\ requireFresh' = pending
    /\ h' = [h EXCEPT !.toggle = GivenUp(@)]
    /\ UNCHANGED <<buffered, txSeq, lastTxSeq, refresh, pending, desired, hasStatus, lastMask,
                   misses, identity, memory, clocks>>

\* service_response_timeout_ up to its publication, or nothing.
LoopStart ==
    /\ pc = "idle"
    /\ ~StatusExpired(online, hasStatus, age["status"])
    /\ pc' = IF waiting /\ age["tx"] >= PollInterval THEN "missed" ELSE PastTimeouts
    /\ ServiceFlowControl
    /\ UNCHANGED <<buffered, link, intent, view, identity, memory, clocks, h>>

\* Faulty: a missed answer is not remembered.
FreshIfAlready == requireFresh

\* A missed answer to a pending write calls for a fresh status before the next.
FreshAfterMiss == requireFresh \/ pending

\* The rest of service_response_timeout_.
ResponseMissed ==
    LET missed == IF misses < OfflineThreshold THEN misses + 1 ELSE misses
    IN  /\ pc = "missed"
        /\ pc' = PastTimeouts
        /\ waiting' = FALSE
        /\ waitingWrite' = FALSE
        /\ txBits' = {}
        /\ misses' = missed
        /\ online' = (online /\ missed < OfflineThreshold)
        /\ requireFresh' = FreshAfterMiss
        /\ h' = [h EXCEPT !.toggle = GivenUp(@)]
        /\ UNCHANGED <<buffered, txSeq, lastTxSeq, refresh, pending, desired, hasStatus,
                       lastMask, identity, memory, direction, clocks>>

-------------------------------------------------------------------------------
(* run_poll_cycle_: what to transmit.                                         *)

LowestZone(zones) == CHOOSE z \in zones : \A other \in zones : z <= other

\* get_tx_node_
TxNode == IF locked /\ nodeAddr # 0 THEN nodeAddr
          ELSE IF restored.node # 0 THEN restored.node
          ELSE TxFallback

\* Faulty: the direction pin is not looked at.
CanSendHolding ==
    ~ListenOnly /\ TxNode # 0 /\ buffered = 0 /\ age["rx"] >= TxIdleGuard

\* The conditions of send_request_.
CanSend ==
    /\ ~ListenOnly
    /\ TxNode # 0
    /\ ~(FlowPin /\ dePending)
    /\ buffered = 0
    /\ age["rx"] >= TxIdleGuard

\* Faulty: the answer to the last toggle is not waited for.
WriteDueAtOnce ==
    /\ pending
    /\ hasStatus
    /\ online
    /\ ~requireFresh
    /\ timeLeft.retry = 0

WriteDue ==
    /\ ~waiting
    /\ pending
    /\ hasStatus
    /\ online
    /\ ~requireFresh
    /\ timeLeft.retry = 0

Diff == SpillGuard(Flip(desired, lastMask), desired, lastMask)

\* Faulty: only an explicit refresh queries.
RefreshDue == ~waiting /\ refresh /\ timeLeft.retry = 0

QueryDue ==
    /\ ~waiting
    /\ refresh \/ (EnablePolling /\ age["poll"] >= PollInterval)
    /\ timeLeft.retry = 0

\* Faulty: 0 is not skipped.
NextSeqThroughZero(seq) == IF seq = SeqMax THEN 0 ELSE seq + 1

\* tx_seq_++, which skips 0.
NextSeq(seq) == IF seq = SeqMax THEN 1 ELSE seq + 1

\* send_request_ up to its publication.
Send(bits) ==
    /\ CanSend
    /\ pc' = "sent"
    /\ txBits' = bits
    /\ lastTxSeq' = txSeq
    /\ txSeq' = NextSeq(txSeq)
    /\ IF FlowPin
       THEN /\ de' = TRUE
            /\ dePending' = TRUE
            /\ timeLeft' = [timeLeft EXCEPT !.de = AssertDelay]
       ELSE UNCHANGED <<direction, timeLeft>>

\* send_request_ refused: another attempt when the retry interval is over.
Defer ==
    /\ ~CanSend
    /\ pc' = "drain"
    /\ timeLeft' = [timeLeft EXCEPT !.retry = RetryInterval]
    /\ UNCHANGED <<txBits, txSeq, lastTxSeq, direction>>

\* A write is due and something differs: toggle the lowest zone that does.
PollToggle ==
    /\ pc = "poll"
    /\ WriteDue
    /\ Diff # {}
    /\ \/ /\ Send({LowestZone(Diff)})
          /\ h' = [h EXCEPT !.toggle = "flying"]
       \/ Defer /\ UNCHANGED h
    /\ UNCHANGED <<buffered, waiting, waitingWrite, intent, view, identity, memory, age>>

(* No toggle: a pending write whose zones all agree by now is done.  Then a   *)
(* query may be due; last_poll_ms_ takes the time of this decision.           *)
PollQuery ==
    /\ pc = "poll"
    /\ WriteDue => Diff = {}
    /\ pending' = (pending /\ ~WriteDue)
    /\ IF QueryDue
       THEN \/ Send({}) /\ age' = [age EXCEPT !["poll"] = 0]
            \/ Defer /\ UNCHANGED age
       ELSE pc' = "drain" /\ UNCHANGED <<txBits, txSeq, lastTxSeq, direction, clocks>>
    /\ h' = [h EXCEPT !.asked = IF WriteDue THEN {} ELSE @]
    /\ UNCHANGED <<buffered, waiting, waitingWrite, refresh, desired, requireFresh, view,
                   identity, memory>>

\* Faulty: a toggle is awaited like a query.
AwaitsStatus == FALSE

\* What was sent is a toggle, and awaits its own answer.
AwaitsWrite == txBits # {}

\* The rest of send_request_, and of run_poll_cycle_ behind it.
RecordSent ==
    /\ pc = "sent"
    /\ pc' = "drain"
    /\ waiting' = TRUE
    /\ waitingWrite' = AwaitsWrite
    /\ timeLeft' = [timeLeft EXCEPT !.retry = 0]
    /\ age' = [age EXCEPT !["tx"] = 0]
    /\ refresh' = (refresh /\ txBits # {})
    /\ UNCHANGED <<buffered, txBits, txSeq, lastTxSeq, pending, desired, requireFresh, view,
                   identity, memory, direction, h>>

-------------------------------------------------------------------------------
(* The read loop and handle_frame_.                                           *)

TakeFrame ==
    /\ pc = "drain"
    /\ buffered > 0
    /\ buffered' = buffered - 1

\* A frame that is no status: damaged, of another family, or with a bad mask.
ReceiveOther ==
    /\ TakeFrame
    /\ age' = [age EXCEPT !["rx"] = 0]
    /\ UNCHANGED <<pc, link, intent, view, identity, memory, direction, timeLeft, h>>

\* Faulty: a new candidate does not start over.
ConfirmationsOfAny(f) == confirmations + 1

\* How often in a row the candidate has been seen, this status included.
ConfirmationsWith(f) == IF f.source = candidate THEN confirmations + 1 ELSE 1

HeardWith(f) == IF f.source = h.from /\ h.heard < Confirmations THEN h.heard + 1
                ELSE IF f.source = h.from THEN h.heard
                ELSE 1

(* save_locked_node_: only what is new and has no zero in it.  The save may   *)
(* fail, and so may the sync() behind it, whose result nobody looks at: RAM   *)
(* then calls restored what the flash does not hold, and since that is not    *)
(* new it is not saved again.                                                 *)
Save(source) ==
    \/ /\ RestoreNode /\ source \in Storable /\ source # restored
       /\ restored' = source
       /\ stored' \in {source, stored}
    \/ UNCHANGED memory

\* Faulty: the candidate is saved with every status.
ReceiveUnconfirmedSaving(f) ==
    /\ TakeFrame
    /\ ~locked
    /\ ConfirmationsWith(f) < Confirmations
    /\ candidate' = f.source
    /\ confirmations' = ConfirmationsWith(f)
    /\ nodeAddr' = f.source.node
    /\ Save(f.source)
    /\ age' = [age EXCEPT !["rx"] = 0]
    /\ h' = [h EXCEPT !.heard = HeardWith(f), !.from = f.source]
    /\ UNCHANGED <<pc, link, intent, view, locked, learnedArg0, mismatches, direction, timeLeft>>

\* A status while unlocked, not yet confirmed often enough: nothing else of it counts.
ReceiveUnconfirmed(f) ==
    /\ TakeFrame
    /\ ~locked
    /\ ConfirmationsWith(f) < Confirmations
    /\ candidate' = f.source
    /\ confirmations' = ConfirmationsWith(f)
    /\ nodeAddr' = f.source.node
    /\ age' = [age EXCEPT !["rx"] = 0]
    /\ h' = [h EXCEPT !.heard = HeardWith(f), !.from = f.source]
    /\ UNCHANGED <<pc, link, intent, view, locked, learnedArg0, mismatches, memory, direction, timeLeft>>

\* The status that confirms the candidate often enough locks it.
LockOn(f) ==
    /\ ~locked
    /\ ConfirmationsWith(f) >= Confirmations
    /\ locked' = TRUE
    /\ candidate' = f.source
    /\ confirmations' = ConfirmationsWith(f)
    /\ nodeAddr' = f.source.node
    /\ learnedArg0' = f.source.arg0
    /\ Save(f.source)

Known(f) == locked /\ f.source = [node |-> nodeAddr, arg0 |-> learnedArg0]

Matches(seq) == lastTxSeq # 0 /\ seq = lastTxSeq

\* Faulty: any sequence number answers a toggle.
AnswersAnyway(matches) == TRUE

\* While a toggle is unanswered, only a status with its sequence number answers it.
Answers(matches) == ~waitingWrite \/ matches

\* handle_frame_ behind the publication: the status answers, and brings online.
Conclude(matches) ==
    /\ IF Answers(matches)
       THEN /\ waiting' = FALSE
            /\ waitingWrite' = FALSE
            /\ txBits' = {}
            /\ requireFresh' = FALSE
       ELSE UNCHANGED <<waiting, waitingWrite, txBits, requireFresh>>
    /\ misses' = 0
    /\ online' = TRUE

\* What a processed status tells of the last toggle.
Settled(toggle, matches) ==
    IF matches \/ toggle = "lost" THEN "settled" ELSE toggle

\* A status of the locked controller.
ReceiveStatus(f) ==
    LET matches == Matches(f.seq)
    IN  /\ TakeFrame
        /\ \/ LockOn(f)
           \/ Known(f) /\ UNCHANGED <<candidate, confirmations, locked, nodeAddr, learnedArg0, memory>>
        /\ mismatches' = 0
        /\ lastMask' = f.mask
        /\ desired' = IF pending THEN desired ELSE f.mask
        /\ hasStatus' = TRUE
        /\ age' = [age EXCEPT !["rx"] = 0, !["status"] = 0]
        /\ IF waiting /\ matches
           THEN pc' = "match" /\ UNCHANGED <<waiting, waitingWrite, txBits, requireFresh, misses, online>>
           ELSE pc' = "drain" /\ Conclude(matches)
        /\ h' = [h EXCEPT !.heard = HeardWith(f), !.from = f.source,
                          !.toggle = Settled(@, matches)]
        /\ UNCHANGED <<txSeq, lastTxSeq, refresh, pending, direction, timeLeft>>

\* The rest of handle_frame_ for the status whose result is published.
ConcludeMatch ==
    /\ pc = "match"
    /\ pc' = "drain"
    /\ Conclude(TRUE)
    /\ UNCHANGED <<buffered, txSeq, lastTxSeq, refresh, pending, desired, hasStatus, lastMask,
                   identity, memory, direction, clocks, h>>

\* A status of another source while locked, seldom enough to stay locked.
ReceiveMismatch(f) ==
    /\ TakeFrame
    /\ locked
    /\ ~Known(f)
    /\ mismatches + 1 < MismatchThreshold
    /\ mismatches' = mismatches + 1
    /\ age' = [age EXCEPT !["rx"] = 0]
    /\ h' = [h EXCEPT !.heard = HeardWith(f), !.from = f.source]
    /\ UNCHANGED <<pc, link, intent, view, candidate, confirmations, locked, nodeAddr,
                   learnedArg0, memory, direction, timeLeft>>

\* Faulty: online_ is kept.
LoseStatusOnly == hasStatus' = FALSE /\ UNCHANGED online

\* Unlocked, the driver knows no state and takes no requests.
LoseStatus == hasStatus' = FALSE /\ online' = FALSE

\* One status too many of another source: start learning again, with that one.
ReceiveUnlock(f) ==
    /\ TakeFrame
    /\ locked
    /\ ~Known(f)
    /\ mismatches + 1 >= MismatchThreshold
    /\ locked' = FALSE
    /\ learnedArg0' = 0
    /\ candidate' = f.source
    /\ confirmations' = 1
    /\ nodeAddr' = f.source.node
    /\ mismatches' = 0
    /\ restored' = NoSource
    /\ LoseStatus
    /\ waiting' = FALSE
    /\ waitingWrite' = FALSE
    /\ txBits' = {}
    /\ pending' = FALSE
    /\ requireFresh' = TRUE
    /\ age' = [age EXCEPT !["rx"] = 0]
    /\ h' = [toggle |-> GivenUp(h.toggle), asked |-> {}, heard |-> 1, from |-> f.source]
    /\ UNCHANGED <<pc, txSeq, lastTxSeq, refresh, desired, lastMask, misses, stored, direction,
                   timeLeft>>

\* The read loop ends: the buffer is empty, 32 bytes are read, or a read failed.
LoopEnd ==
    /\ pc = "drain"
    /\ pc' = "idle"
    /\ UNCHANGED <<buffered, link, intent, view, identity, memory, direction, clocks, h>>

-------------------------------------------------------------------------------
(* The surroundings.                                                          *)

\* The UART interrupt buffers a frame of the controller or of a wall panel.
Arrive ==
    /\ buffered < RxCap
    /\ buffered' = buffered + 1
    /\ UNCHANGED <<pc, link, intent, view, identity, memory, direction, clocks, h>>

(* Time passes.  run_poll_cycle_ works on the millis() read at its beginning, *)
(* so no tick falls into its decision.                                        *)
Tick ==
    /\ pc \notin {"missed", "poll"}
    /\ age' = [c \in Clocks |-> Older(age[c], Horizon[c])]
    /\ timeLeft' = [t \in {"retry", "de"} |-> IF timeLeft[t] > 0 THEN timeLeft[t] - 1 ELSE 0]
    /\ UNCHANGED <<pc, buffered, link, intent, view, identity, memory, direction, h>>

LoopStep ==
    \/ LoopExpires \/ LoopStart \/ ResponseMissed
    \/ PollToggle \/ PollQuery \/ RecordSent
    \/ ReceiveOther
    \/ \E f \in Statuses : \/ ReceiveUnconfirmed(f) \/ ReceiveStatus(f)
                           \/ ReceiveMismatch(f) \/ ReceiveUnlock(f)
    \/ ConcludeMatch \/ LoopEnd

Request == RequestRefresh \/ \E zone \in Zones, on \in BOOLEAN : QueueZoneState(zone, on)

Next == LoopStep \/ Request \/ Arrive \/ Tick \/ Reboot

Spec == Init /\ [][Next]_vars

-------------------------------------------------------------------------------
(* Properties.                                                                *)

Identities == Sources \cup {NoSource}
Histories == [toggle : {"settled", "flying", "lost"}, asked : SUBSET Zones,
              heard : 0 .. Confirmations, from : Identities]

\* Every variable holds a value of its field.
TypeOK ==
    /\ pc \in PCs
    /\ buffered \in 0 .. RxCap
    /\ waiting \in BOOLEAN /\ waitingWrite \in BOOLEAN
    /\ txBits \in Masks /\ txSeq \in Seqs /\ lastTxSeq \in Seqs \cup {0}
    /\ refresh \in BOOLEAN /\ pending \in BOOLEAN /\ requireFresh \in BOOLEAN
    /\ desired \in Masks /\ lastMask \in Masks
    /\ online \in BOOLEAN /\ hasStatus \in BOOLEAN
    /\ misses \in 0 .. OfflineThreshold
    /\ candidate \in Identities /\ confirmations \in Nat
    /\ locked \in BOOLEAN /\ nodeAddr \in Nat /\ learnedArg0 \in Nat
    /\ mismatches \in 0 .. MismatchThreshold - 1
    /\ restored \in Storable \cup {NoSource} /\ stored \in Storable \cup {NoSource}
    /\ de \in BOOLEAN /\ dePending \in BOOLEAN
    /\ timeLeft \in [{"retry", "de"} -> Nat]
    /\ age \in Ages
    /\ h \in Histories

(* Online, so open to requests, is only a driver that has locked a controller *)
(* and holds a status of it (lines 399-491); losing the lock loses both.      *)
OnlineIsKnown == online => locked /\ hasStatus

(* Direction is only ever held for a transmission that is being seen out, and *)
(* a listen-only driver neither takes the bus nor owes a request.             *)
DirectionAgrees ==
    /\ de = dePending
    /\ de => FlowPin
    /\ ListenOnly => ~de /\ lastTxSeq = 0 /\ ~pending /\ ~refresh

Sends == pc = "poll" /\ pc' = "sent"
Toggles == Sends /\ txBits' # {}

(* A toggle is relative, so it needs to know where it starts from: whatever   *)
(* became of the last toggle, a status has settled it since -- the one that   *)
(* answers it, or any one after its answer was given up (lines 102-103,       *)
(* 161-162, 484-488).  Merged requests, callbacks, timeouts, unlocking and    *)
(* mismatched sequence numbers all come between.                              *)
NoBlindToggle == [][Toggles => h.toggle = "settled"]_vars

(* A toggle is sent while a controller is locked, for one zone that should    *)
(* differ from its last status, and that status is not older than the status  *)
(* timeout allows (touchpad2-plan.md:101).                                    *)
ToggleFromLiveStatus ==
    [][Toggles =>
          /\ locked
          /\ \E z \in Zones : txBits' = {z} /\ (z \in desired) # (z \in lastMask)
          /\ StatusTimeout # 0 => age["status"] < StatusTimeout]_vars

(* A controller is locked after enough statuses in a row that came from it    *)
(* since the restart or the unlock; the stored candidate does not count.      *)
LockIsEarned ==
    [][~locked /\ locked' =>
          /\ h'.heard >= Confirmations
          /\ h'.from = [node |-> nodeAddr', arg0 |-> learnedArg0']]_vars

(* Only a controller that was locked that way gets into the flash, where the  *)
(* next restart finds it as a candidate and as the address to send to.        *)
StoredIsEarned ==
    [][stored' # stored =>
          /\ locked'
          /\ h'.heard >= Confirmations
          /\ h'.from = stored']_vars

\* Nothing is transmitted while the direction pin is still held by the last frame.
SendsAfterRelease == [][Sends => ~de]_vars

(* The spill guard keeps the spill zone from being closed while it is the     *)
(* only zone open (docs/configuration.md:62).                                 *)
SpillStaysOpen == [][Toggles /\ lastMask = {SpillZone} => txBits' # {SpillZone}]_vars

(* Only zones somebody asked for are toggled: what the controller or a wall   *)
(* panel did to other zones stands (touchpad2-plan.md:113).                   *)
TogglesOnlyAsked == [][Toggles => txBits' \subseteq h.asked]_vars

(* The inductive invariant.                                                   *)

\* The toggle whose outcome is open; a status that answers it settles it at once.
Open == IF (waitingWrite /\ pc # "match") \/ pc = "sent" THEN txBits ELSE {}

\* The last toggle is in flight, or lost and distrusted, or settled.
WriteAgrees ==
    /\ waitingWrite => waiting /\ txBits # {}
    /\ pc = "sent" => ~waiting
    /\ pc \in {"missed", "match"} => waiting
    /\ pc = "match" => h.toggle = "settled"
    /\ h.toggle = "flying" => pending /\ (waitingWrite \/ (pc = "sent" /\ txBits # {}))
    /\ h.toggle = "lost" => requireFresh /\ (pending \/ ~online)
    /\ Open # {} => h.toggle = "flying"

\* A state past the timeouts is not older than they allow.
StatusAgrees ==
    (pc \in {"missed", "poll"} /\ online /\ StatusTimeout # 0) => age["status"] < StatusTimeout

\* Confirmations are statuses heard; the locked identity is the candidate's.
LockAgrees ==
    /\ (~locked /\ confirmations > 0) => candidate = h.from /\ confirmations <= h.heard
    /\ locked => candidate = [node |-> nodeAddr, arg0 |-> learnedArg0]
    /\ pc = "match" => locked /\ hasStatus

ListenerAgrees == ListenOnly => pc \notin {"poll", "sent"} /\ ~waiting

IInv ==
    /\ TypeOK
    /\ OnlineIsKnown
    /\ DirectionAgrees
    /\ WriteAgrees
    /\ StatusAgrees
    /\ LockAgrees
    /\ ListenerAgrees

(* The promise of Toggler: the driver is sure of its state while it is online *)
(* and asks for no fresh status, or is about to conclude from an answer.      *)
Promise == INSTANCE Toggler WITH
    out <- Open,
    sure <- pc = "match" \/ (online /\ ~requireFresh /\ Open = {}),
    age <- age["status"]

(* Whatever the bus and the callbacks do, the driver toggles one zone at a    *)
(* time, from a state it is sure of, and only a status ends its doubt: one    *)
(* with the sequence number of the toggle, or any one after it was given up   *)
(* (send_request_, service_response_timeout_, handle_frame_).                 *)
KeepsPromise == Promise!Spec

(* loop() is called again and again and runs on, time passes, and the read    *)
(* loop, which takes 32 bytes at most, is left again.                         *)
Fairness == WF_vars(LoopStep) /\ SF_vars(Tick) /\ SF_vars(LoopEnd)

FairSpec == Spec /\ Fairness

\* The direction pin is released again and again: the bus is never held for good.
DirectionReleased == []<>~de
================================================================================
