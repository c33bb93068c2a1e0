# A model of the ZoneSwitch component

This directory holds TLA+ modules that model the ESPHome component in
`src/esphome/components/zoneswitch`, TLC configurations that model-check them on
small instances, and proofs, checked by TLAPS, that the most important
properties hold for every instance. Paths without a directory below are in that
component; line numbers are given as `file:line`.

1. The system and its parts
2. Modules, and how they correspond to the code
3. What is abstracted, and where a model differs from the code
4. Runs: what each one checks and shows, bounds
5. Fairness
6. Proofs
7. Where the documentation and the code disagree
8. What is not modelled
9. Where it could go on

## 1. The system and its parts

A ZoneSwitch is the controller of the dampers of a ducted air conditioner. Its
wall panels talk to it over a shared half-duplex bus. The component puts an
ESPHome node on that bus, as one more panel: it reads the statuses the
controller sends, shows each zone as a switch, and asks the controller to
*toggle* a zone when Home Assistant asks for a state. There is no command that
sets a state. A command toggles, so it is only right if the state it starts from
is known, and repeating it undoes it. Most of what is hard in this code follows
from that.

| Part | State | Operations | Talks to |
|---|---|---|---|
| Hub (`zoneswitch.cpp`) | last mask, online, has status, desired mask, refresh flag, transaction result, counters, listeners | `request_refresh`, `request_zone_state`, `apply_spill_guard_`, `service_status_timeout_`, publication | base class of both drivers; entities call it and listen to it |
| V1 driver (`protocol_v1.cpp`) | one pending zone with its target, write-ready flag, transaction flags, timestamps | `loop`, `queue_zone_state_`, `handle_v1_status_`, `fail_v1_transaction_`, `status_expired_` | hub, V1 parser, V1 transport |
| V1 parser (`protocol_v1.cpp:62-95`) | index, 8-byte buffer, prefix index | `receive_v1_byte_` | UART, V1 driver |
| V1 transport (`transport_v1.cpp`) | none | `transact_v1`: C0 out, 30 in, mask out, direction pin, bounded waits | UART FIFO and pin registers |
| V2 driver (`protocol_v2.cpp`) | pending flag, desired mask, sequence numbers, fresh-status flag, misses, candidate and locked node, restored and stored node, direction pin, retry deadline | `loop`, `queue_zone_state_`, `run_poll_cycle_`, `send_request_`, `handle_frame_`, `service_response_timeout_`, `service_flow_control_`, `save_locked_node_`, `setup` | hub, V2 parser, flash preferences |
| V2 parser and CRC (`protocol_v2.cpp`) | index, 9-byte buffer | framing, `crc8_maxim_` | UART, V2 driver |
| Entities (`switch/`, `button/`, `binary_sensor/`, `sensor/`, `text_sensor/`) | last published values | `write_state`, `press_action`, listeners | hub |
| Configuration (`__init__.py` files) | none | validation, defaults, code generation | build |
| Tests, research tools | none | - | - |

**How the parts interact.** ESPHome calls `loop()` of the one driver again and
again from one task; nothing runs in parallel with it except the UART interrupt,
which fills the receive buffer. Entities and automations call `request_*`
between two calls of `loop()` - and *inside* one: whenever the hub publishes
(`set_transaction_result_`, `publish_mask_`, `publish_diagnostics_`), a listener
may run an automation that calls `request_zone_state` before `loop()` goes on.

**What is hard.**

- *Re-entrance.* V1 publishes `response_timeout`, transport errors,
  `awaiting_status` and `status_received` while the fields around the publication
  are not consistent yet. V2 does the same at three places.
- *Uncertain toggles.* An answer may be lost, late, or the answer to somebody
  else. V1 has no sequence numbers at all; V2 has 255 of them.
- *Staleness.* Status timeouts, response timeouts, unlocking of the controller
  and wall panels all change what a mask is worth between two steps.
- *One flag, many owners.* `refresh_requested_`, `pending_desired_` and
  `require_fresh_status_before_write_` are each set and cleared at many places.
- *Learning whom to obey.* V2 learns the controller's address from its statuses,
  stores it, and treats it after a restart as a mere candidate.
- *Time.* Everything is paced by elapsed milliseconds, measured when `loop()`
  runs and not when bytes arrive.

**What makes each part correct.**

- *V1 driver.* A toggle rests on exactly one accepted request, decided on a
  status that answered a query of ours after it was accepted; it is never
  repeated; an accepted request always ends; nothing shows "awaiting" for a
  transaction that is over; listen-only is silent.
- *V2 driver.* No toggle on top of one whose outcome is unknown; a toggle goes to
  a locked controller on a live status; locks and stored addresses are earned by
  statuses in a row; online means locked; the direction pin is released.
- *Hub.* The last open spill zone is not closed; expired status means offline
  before anything is decided.
- *Parsers.* Whatever precedes it, a whole valid frame is found, or lost only
  where the protocol is ambiguous. *Transport.* The direction pin is released on
  every path, waits are bounded, a mask is sent at most once. *Entities.* What is
  shown is the last thing accepted. *Configuration.* What the drivers rely on
  (thresholds of at least 1, no polling while listening) is enforced.

`PROJECT.json` lists every hazard found while reading, at its line, with the
properties that cover it or the reason why none does yet.

## 2. Modules, and how they correspond to the code

| Module | Models |
|---|---|
| `Toggler` | the abstract promise of a driver: one zone toggled at a time, from a state it is sure of, and no other before a status has told what became of it |
| `Hub` | what both drivers inherit: masks, ages, `apply_spill_guard_`, the condition of `service_status_timeout_` |
| `V1Driver` | `V1ZoneSwitch` with its `loop()`, requests, the bus, time, restarts; its properties and inductive invariant |
| `V2Driver` | `V2ZoneSwitch`, likewise |
| `V1Parser` | `receive_v1_byte_` and the check of `handle_v1_status_`, byte by byte |
| `V1Transport` | `transact_v1` and `send_byte`, step by step, with the UART and the direction pin |
| `V1Link` | V1's `loop()` around the two: parser, transport, and the timers and resets between them |
| `Crc8`, `V2Parser` | `crc8_maxim_`; the read loop of V2's `loop()` and the checks of `handle_frame_` |
| `Entities` | what switches, zone sensors, the online sensor and the node address sensor have shown, and `publish_mask_`, `publish_diagnostics_` |
| `V1Entities`, `V2Entities` | each driver composed with the entities: every step with what it publishes |
| `V2System` | `V2Driver` composed with the controller, a wall panel and the wire |
| `MC...` | small values of the constants for TLC |
| `V1Driver_proofs`, `V2Driver_proofs`, `V1Link_proofs`, `V2Parser_proofs`, `Entities_proofs`, `V1Entities_proofs`, `V2Entities_proofs`, `V2System_proofs` | theorems and lemmas with their proofs (`V2Parser_proofs` has those about `Crc8` too) |

    Toggler <== V1Driver + Entities = V1Entities        V1Parser + V1Transport = V1Link
            <== V2Driver + Entities = V2Entities        Crc8 in V2Parser
                V2Driver + controller, panel, wire = V2System

Each variable names the field it stands for in a comment where it is declared;
`PROJECT.json` maps each definition to its lines.

**One call of `loop()`, cut at its publications.** Both drivers carry a `pc`. It
does not follow the program line by line: it has one value for each place where
somebody else may act in the middle of `loop()`, and everything between two such
places is one action. V1: `LoopStart` (frame timeout), the read loop
(`ReceiveOther`, `ReceiveStatus`, `Answered`), `Service` (status timeout), then
one of `AwaitResponse`, `Hold`, `SettleWithoutToggle`, `TransmitToggle`,
`TransmitQuery`, followed by `AbandonTimedOut`, `AbandonFailed` or `RecordSent`
behind the publication. V2: `LoopExpires` or `LoopStart` (flow control, status
timeout, response timeout) and `ResponseMissed`, then `PollToggle` or `PollQuery`
and `RecordSent`, then the read loop with one action per outcome of
`handle_frame_`: `ReceiveUnconfirmed`, `ReceiveStatus` (with `LockOn` when it is
the one that locks), `ConcludeMatch`, `ReceiveMismatch`, `ReceiveUnlock`,
`ReceiveOther`, and `LoopEnd`.

**Requests** (`RequestRefresh`, `RefuseZoneState`, `QueueZoneState`) are enabled
in every phase, in particular in those named after a publication.

**The bus** promises nothing. In V1 any status, garbage or fragment may arrive at
any time; in V2 the content of a buffered frame (source, sequence number, mask)
is chosen when it is read. So lost, late, duplicated, reordered and foreign
statuses are all included, and so are a wall panel's toggles. A theorem that
needs the controller to be sane would have to say so; none here does.

**Failure.** `Transact` may fail with or without the mask having gone out.
`Save` may fail, or succeed in RAM only (`sync()` is not checked), after which the
early return at `protocol_v2.cpp:263` keeps it from trying again. `Reboot` is
enabled always and loses everything but the flash.

**The two levels of the bus.** The drivers work with frames, since nothing they
decide depends on a single byte; `V1Link` and `V2Parser` show which bytes are such
a frame. `V1Link` has V1's whole `loop()` again, with its decision abstracted to
"a transaction, whenever the code allows one", so that a handshake, its failure
and the parser's reset meet every state of the parser. Its actions are those of
the code: the frame timeout at the head of `loop()` (`LoopStart`), one action per
way a byte is taken (`ReadPrefix`, `SwallowMask`, `SkipByte`, `StoreByte`,
`TakeStatus`, `Slide`), and one per step of the handshake (`WriteByte`,
`FinishByte` or `GiveUpByte`, `ReadAck` or `MissAck`). The UART shifts its byte
out in an action of its own (`ShiftedOut`), at any time. A wait for an answer may
also end by the status timeout, which leaves the parser alone (`LoopEnd`).

**The entities** follow each driver step with what the code publishes in it:
`Publish(TRUE)` where `publish_diagnostics_` is forced, `Publish(FALSE)` where the
rate limit may drop it. A status that answers a query publishes its result in the
middle of its handling and the mask behind it; `due` holds the locals (`changed`,
`became_online`) that the code carries over the callback.

**The promise.** `Toggler` knows three things: which zones are toggled by a request
whose outcome is open, whether the driver is sure of the state, and the age of
what it knows. `V1Driver` maps them to the mask on the bus, to being online
without one, and to the age of the status; `V2Driver` to the bits in flight, and
to being online without a demand for a fresh status. `KeepsPromise` says that each
driver implements it.

**The V2 system.** `V2System` drives the actions of `V2Driver` with frames that say
what the controller really said. A request in flight carries the state it was
meant to bring (`aim`), an answered one toggles `actual`, and `unseen` holds the
zones changed at the panel that no processed status shows yet. Losses, panel
changes, requests and restarts have budgets.

**History.** `req` (V1) and `h` (V2) are not fields. They record what the
properties speak of: which request was accepted last, whether a query of ours was
answered since and whether a failure cancelled it; what became of the last
toggle, which zones were asked for, and how many statuses of one source came in a
row. No guard reads them.

**Faulty variants.** A definition commented `Faulty:` is the next one with a
mistake a maintainer could make. No specification uses it. Put in place of the
right one it makes the property named with it in `PROJECT.json` fail, which shows
that the property can tell the code from a plausible mistake. `window` in the
parsers, `unheard` in `V1Link` and `wire` in `V1Transport` are histories too: the
last bytes read, whether our own transaction is still unanswered, and what a
transaction has put on the bus.

## 3. What is abstracted, and where a model differs from the code

- *Masks* are sets of zones; `NoZone` is 0.
- *Timestamps* are ages in ticks that saturate at the largest threshold they are
  compared with; *deadlines* are times left. So wrap-around at 2^32 is out.
- *No tick inside a decision.* `loop()` and `run_poll_cycle_` read `millis()` once
  and decide with it, so `Tick` is disabled in `decide` (V1), `missed` and `poll`
  (V2). In all other phases time may pass.
- *Bytes*, in the drivers, are the frames they amount to. V1 keeps `partial` (a frame half read),
  since it holds up transmissions; V2 does not look at it before it transmits, so
  it is left out. The parser may lose a frame whenever it already holds a part of
  one. The read loop may end after any number of frames, as a byte limit ends it
  anywhere.
- *Results.* V1 merges `listen_only`, `invalid_zone` and `rejected_busy` into
  `refused`, and the three transport errors into `not_sent`. V2 leaves the result
  out; a refused request changes nothing else, and appears in `V2Entities` only, where
  it publishes.
- *Counters* are left out. `desired_mask_` in V1 is only an
  argument of the spill guard and is one here (`ToggleFor`). `misses` in V2 stops
  at its threshold.
- *The parsers' buffer* behind `rx_index_` is never read and holds a marker that is
  no byte. A swallowed 08 is remembered in `window` as that marker.
- *Limits of the read loops* (64 and 32 bytes, a failed read) end them after any
  number of bytes.
- *Microseconds* in the handshake are not counted: each bounded wait may end by
  success or by its timeout. A byte read as the ACK is not told from the
  controller's, exactly as in the code.
- *The controller in `V2System`* toggles the zones of a request and answers within
  a tick; a panel's exchange is one step; no exchange begins while another is on
  the wire, which is what `tx_idle_guard` is for. `loop()` takes at most `MaxStall`
  ticks. The answer comes before it is given up, which is after `poll_interval`, at
  least 500 ms (`__init__.py:46`, `PollInterval # 0`); booting takes longer than
  that, so that a restart finds no request on its way. These are assumptions about
  the surroundings and not about the code; the other modules make none.
- *Entities* are what they showed last; `publish_if_changed_` makes a repeated
  value invisible, so a set of equal publications is one.
- *Boot.* `last_rx_byte_ms_ == 0` (nothing received yet) counts as idle in V2: the
  age starts at its horizon. In V1 it is compared like any other time: the age
  starts at 0.
- `restored = NoSource` stands for `!restored_node_valid_`, and `lastTxSeq = 0` for
  `!has_last_tx_seq_`. No valid value is mistaken for either: nothing with a zero
  in it is saved, and no sequence number is 0 (part of `TypeOK`).
- The branch of `SettleWithoutToggle` for an offline driver
  (`protocol_v1.cpp:130-133`) is modelled as it stands and never taken: that
  `writeReady` implies `online` is a conjunct of the proved invariant.

## 4. Runs: what each one checks and shows, bounds

| Run | Instance | Properties | Distinct states (about) |
|---|---|---|---|
| `v1_driver` | 2 zones, spill zone 2, polling | `TypeOK`, `NoStrandedRequest`, `AwaitingIsLive`, `IInv`, `ToggleJustified`, `ToggleFromLiveStatus`, `SpillStaysOpen`, `KeepsPromise` | 1 230 000 |
| `v1_listener` | the same, listen-only | `ListenerIsSilent` | 4 600 |
| `v1_entities` | `V1Entities`, 1 zone, no polling, fair | `RequestResolves`, `EntitiesAgree` | 198 000 |
| `v1_link` | `V1Link`, statuses of 2 zones, 8 byte values, frame timeout and idle guard of 2 ticks | `TypeOK`, `Aligned`, `PrefixIsRecent`, `AnswerHeard`, `OutcomeTells`, `BusReleased`, `StatusesFound` | 73 000 |
| `v2_write` | 2 zones, 1 controller locked by its first status | `TypeOK`, `NoBlindToggle`, `ToggleFromLiveStatus`, `KeepsPromise` | 640 000 |
| `v2_node` | `V2Entities`, 1 zone, 2 controllers, 2 confirmations, 2 mismatches, flash | `IInv`, `OnlineIsKnown`, `EntitiesAgree`, `LockIsEarned`, `StoredIsEarned`, `NoBlindToggle` | 720 000 |
| `v2_direction` | 1 zone, direction pin, fair | `DirectionAgrees`, `SendsAfterRelease`, `DirectionReleased` | 61 000 |
| `v2_listener` | 2 zones, listen-only, direction pin, flash, 2 controllers | `DirectionAgrees` | 10 000 |
| `v2_parser` | the bytes 00, 55, AA | `TypeOK`, `Aligned`, `ChecksumAsDocumented`, `FramesFound` | 39 000 |
| `v2_system` | `V2System`, 1 zone, polling, 1 loss, 1 change at the panel, 2 requests, 1 restart, fair | `SystemInv`, `TogglesTowardsAim`, `EndsInAgreement`, `RequestEnds` | 473 000 |
| `v2_spill` | 2 zones, spill zone 1 | `SpillStaysOpen`: violated | - |
| `v2_unasked` | 2 zones, spill zone 2 | `TogglesOnlyAsked`: violated | - |

**V1.**

- `NoStrandedRequest`: a pending request always has something that will answer
  it: a due toggle, a query wanted or under way, or its cancellation. It takes a
  request from a callback at the wrong place to break it.
- `AwaitingIsLive`: `awaiting_status` is never left standing after its
  transaction.
- `ToggleJustified`: everything a toggle needs, over the whole history of the
  request. It subsumes "never repeated" and "never on an old status".
- `ToggleFromLiveStatus`, `SpillStaysOpen`: the guards of the hub do what they are
  for, in the order in which `loop()` calls them.
- `ListenerIsSilent`: checked in a run of its own, since listen-only is a constant.
- `RequestResolves`: liveness, see section 5.
- `StatusesFound`, `Aligned`: a status is taken exactly when the last bytes read
  are one, after any noise, false start or damaged frame. What is excepted are the
  places where the code gives bytes up on purpose: a header in the place of a
  mask, the frame timeout, the end of a failed transaction.
- `PrefixIsRecent`: such a header is swallowed only right behind C0 30.
- `AnswerHeard`: the answer to our own transaction never loses its header that way,
  provided that `tx_idle_guard` is at least the frame timeout of 20 ms, as it is by
  default. The configuration accepts less.
- `OutcomeTells`, `BusReleased`: what the driver is told of a handshake is what
  happened on the bus, and the direction pin is low whenever no byte is being
  waited for, timeouts included.

**V2.**

- `NoBlindToggle`: when a toggle is sent, a status has settled what became of the
  one before. Timeouts, unlocking, merged requests and foreign sequence numbers
  all work on the flag that ensures it.
- `ToggleFromLiveStatus`: while a controller is locked, one zone, on a status that
  is not expired. For a locked node 0 `get_tx_node_` falls back to another address
  (`protocol_v2.cpp:249`); `TxNode` models it and no property speaks of it.
- `OnlineIsKnown`, `LockIsEarned`, `StoredIsEarned`: who may be obeyed, written to
  and remembered.
- `DirectionAgrees`, `SendsAfterRelease`, `DirectionReleased`: the direction pin.
- `FramesFound`, `Aligned`: as in V1, with nothing excepted but the timeout.
- `ChecksumAsDocumented`: `crc8_maxim_` is the CRC-8/MAXIM of its comment
  (`protocol_v2.cpp:231-233`), defined as a remainder of polynomials.
- `TogglesTowardsAim`: a toggle that reaches the controller brings its zone to where
  it was asked to be, never away from there. This is what `NoBlindToggle` is for.
- `EndsInAgreement`: a request ends only in agreement with the controller's real
  zones, unseen changes at the panel excepted, and the guarded spill zone where
  nothing else is asked to be open. `RequestEnds`: see section 5.
- `SystemInv`: what the two rest on, see section 6: one request at a time is on its
  way, the frames in the buffer tell where the zones are, and so does the last mask
  once a status has settled the last toggle.

**Both.**

- `KeepsPromise`: the driver implements `Toggler`.
- `EntitiesAgree`: Home Assistant shows what the driver knows.
- `NoBlindToggle` is checked twice on purpose: `v2_write` has merged requests over
  two zones, `v2_node` has restarts, two controllers and unlocking.

**Bounds, and why they are enough.**

- *Zones.* Two zones suffice for one zone to differ while another does not, for
  merged requests, and for a spill zone with another zone to replace it. One zone
  is used where the question is not about zones. V1 requests also name 0 and 7,
  the two ways to be out of range.
- *Times.* One to three ticks each. The comparisons are only with thresholds, so
  what matters is which thresholds can be on which side at once. Ticks of different
  timers interleave with each other and with every step of `loop()`.
- *Buffer* (`RxCap = 1`). One frame can wait while another is processed, so a
  frame can arrive before, during and after every phase; a longer queue would only
  delay frames that are arbitrary anyway.
- *Sequence numbers* (`SeqMax = 2`). They wrap after two, so that an old number
  comes back at once: harsher than 255.
- *Controllers.* Two suffice for turns between the right and a wrong one; both a
  confirmation and a mismatch threshold of 2 make "in a row" matter.
- *Bytes.* `v1_link` has the bytes with a meaning: header 08 (which is zone 4's mask
  too), C0, 30, the bytes of zone 1 in either state (00, 80) and of zone 2 closed
  (01), and the checksums of these two statuses (09, 89). So real statuses, prefixes, masks
  and every overlap of them occur. Statuses of two zones instead of six keep the
  buffer at four bytes; a slide may still keep one, two or three of them. `v2_parser` has nine-byte
  frames of header, trailer and zero, some of them with a matching checksum; a
  header may be at every place.
- *Budgets.* Two requests so that one can be merged into, or follow, another; one of
  each mishap, at any moment, because each by itself must do no harm. `RxCap = 3`
  holds the answers of the driver and of the panel and one more.
- *Saturation.* `req.toggles` stops at 2 (`ToggleJustified` asks for 0 before),
  `h.heard` at `Confirmations`, `misses` at `OfflineThreshold`: nothing larger is
  compared with.
- `confirmations` is not bounded in `TypeOK` (it is a natural number there). It
  stops growing when the node is locked, so the runs are finite.

No run switches the deadlock check off: a driver can always be called again.

## 5. Fairness

- `WF(LoopStep)`: ESPHome calls `loop()` again and again, and no step of it
  blocks for ever (V1's waits are bounded, `transport_v1.cpp`).
- `SF(Tick)`: time passes. Strong, because the phases in which the model lets no
  tick happen come and go.
- V2 `SF(LoopEnd)`: the read loop is left; it takes 32 bytes at most per call.
- V1 `SF(TransmitQuery \/ TransmitToggle \/ SettleWithoutToggle)`: if the bus is
  found free infinitely often at the decision, the driver decides. In the code
  deciding follows at once; in the model a byte could always slip in between.

`RequestResolves` is conditional on `[]<>QuietBus`. The code does not promise more:
on a bus that is never idle for `tx_idle_guard` it never transmits, and the
request stays pending. The run turns polling off, because then only the request
itself can ask for the query it needs. Nothing is assumed about answers: no
answer is resolved by the response timeout, which cancels the request.

`DirectionReleased` needs no assumption about the bus.

`RequestEnds` is checked in the closed system under `SystemFairness`: the driver's
steps go on (weak), time passes (strong, since no tick happens inside a decision),
and the controller answers what it received (weak). Requests, losses, changes at
the panel and restarts are not fair: they need never happen. It needs polling:
with polling off, the fresh status that a missed answer to a write demands is
asked for by nobody (`protocol_v2.cpp:126`), and the request waits for other
traffic or a refresh. And it needs mishaps to end, which the budgets ensure: a
panel that undoes each toggle keeps a request alive for ever.

## 6. Proofs

The theorems hold for every value of the constants that satisfies the `ASSUME`s
of the modules: any set of positive zones, any times, any buffer size, any set of
controllers, any set of bytes, one to six zones in a V1 status, thresholds of at
least 1 (which the configuration enforces). TLC evaluates these assumptions in every run.

| Module | Theorem | Establishes |
|---|---|---|
| `V1Driver_proofs` | `TypeCorrect` | `Spec => []TypeOK` |
| | `Invariance` | `Spec => []IInv` |
| | `NoneStranded`, `AwaitingHonest`, `ListenerSilent` | the invariants of section 4 |
| | `TogglesJustified`, `TogglesFromLiveStatus`, `SpillOpen` | the action properties of section 4 |
| `V2Driver_proofs` | `TypeCorrect`, `Invariance` | `Spec => []TypeOK`, `Spec => []IInv` |
| | `OnlineKnown`, `DirectionHonest` | the invariants of section 4 |
| | `NoneBlind`, `TogglesFromLiveStatus`, `SendsReleased`, `LocksEarned`, `StoresEarned` | the action properties of section 4 |
| Both of these | `PromiseKept` | `Spec => KeepsPromise`: the driver implements `Toggler` |
| `V1Link_proofs` | `TypeCorrect`, `NothingDropped`, `OnlyMasksSwallowed`, `AnswersHeard` | the parser's invariants of section 4, in every state of the link |
| | `OutcomesTell`, `AlwaysReleased` | what the handshake reports and leaves behind |
| | `EveryStatusFound` | `StatusesFound` |
| `V2Parser_proofs` | `TypeCorrect`, `NothingDropped`, `EveryFrameFound` | the parser's invariants and `FramesFound` |
| | `Crc8IsMaxim`, `ChecksumIsMaxim` | `crc8_maxim_` is CRC-8/MAXIM for data of any length; `Spec => []ChecksumAsDocumented` |
| `V1Entities_proofs`, `V2Entities_proofs` | `EntitiesHonest` | `EntitySpec => []EntitiesAgree` |
| | `EntitiesFollowDriver` | `EntitySpec => Spec`: what is proved of the driver holds with its entities |
| `V2System_proofs` | `SystemInvariance` | `SystemSpec => []SystemInv` |
| | `SystemIsDriver`, `SystemKeepsPromise` | `SystemSpec => Spec`, and with it every theorem about the driver; `KeepsPromise` |
| | `AllTowardsAim`, `AllEndInAgreement` | the action properties of the closed system |

**The argument for the drivers.** Every property follows from an inductive invariant `IInv`,
which the runs `v1_driver` and `v2_node` check as well. The proof has one lemma
for the initial states and one step per action, split by the conjuncts the action
can disturb. An action property is then a matter of one action: in a state
that satisfies `IInv`, the only steps that toggle (or lock, or store) have what
the property asks for.

**Why the invariants need strengthening.** In V1 `NoStrandedRequest` alone is not
inductive: from a state with `waiting` set and the phase `sent`, recording the
transmission of a toggle would strand a request. `PhasesAgree` says which flags go
with which phase. `HistoryAgrees` ties the pending request to the history, so that
`ToggleJustified` can be read off at `TransmitToggle`; its core is that a due
toggle (`writeReady`) has been answered by a query of ours after acceptance, which
in turn needs `txMask = {}` to be exactly a query while one is waited for
(`TransactionAgrees`) and, behind `status_received`, the conjunct about `answer`.
In V2 the core is `WriteAgrees`: a toggle in flight is either being waited for or
just sent; one given up is covered by the flag that asks for a fresh status, or
the driver is offline and will get one before it is online again. `LockAgrees` ties
the confirmations counted by the code to the statuses heard, which is what
`LockIsEarned` needs, and `StatusAgrees` carries the freshness of the status from
the timeout check to the decision.

**The refinement.** Each step of a driver is shown to be a step of `Toggler` under
the mapping, or to leave it unchanged, given the invariant: a transmission with a
mask is a `Toggle` (its zone differs, nothing is in flight, the status is live), an
accepted status is `Learn` or `Hear`, every failure, timeout, unlock or restart is
`Doubt`, a tick is `Wait` or nothing. The steps that do not touch the mapped
variables go together.

**The parsers.** `Aligned` is nearly inductive by itself: it says what the buffer
holds in terms of the bytes received, and together with the types it makes
`FramesFound` a matter of one step, because buffer and window then hold the same
bytes. The central lemma of both (`SlideStep`) shows that keeping the bytes from
the first header on restores it. `V1Link_proofs` needs `PrefixIsRecent` as well,
and for `AnswerHeard` that as long as our transaction is unanswered the last byte
is older than the frame timeout, so that the next `loop()` clears the parser before
it reads.
The handshake's invariant gives for each `step` what is on the `wire`.

**The entities.** `EntitiesAgree` is strengthened by what is due: behind a published
result, the mask that is not shown yet is `due`, and whether to force the
diagnostics is decided by the online state that is still shown. Every step of the
composition is a step of the driver, so the driver's invariant is inherited.

**The closed system.** The theorems about `V2System` hold for any number of zones,
losses, panel changes, requests and restarts. `TogglesTowardsAim` is about
the moment a request reaches the controller, `ViewAgrees` about the moment it was
sent; what lies between is `InFlight`: as long as a request is on its way nothing
is in the buffer, no time limit has run out and no toggle is settled, so the zones
can only change at the panel. `ViewAgrees` (once a status has settled the last toggle,
the last mask is where the zones are, unseen changes excepted) is not inductive
without `FramesAgree`: the next status read becomes the mask, so every frame
in the buffer must tell the zones as they are now, although it may be older than the
last change at the panel. `h.toggle` connects the two with the driver's own
invariant `WriteAgrees`: that a toggle is sent only when the last one is settled.
Every step of the system is shown to be a step of the driver, and that `IInv`
holds along the way is taken from there.

**The checksum.** Induction is had over a set of numbers instead of a property:
the numbers up to the length for which the claim holds have no least one missing
(`InductionUpto`, from the well-foundedness of `<`). With it
`RecursionExists` shows that a function with a given recursive definition exists, so
that the functions named in `Crc8` meet theirs. The argument itself is
`RoundDivides`: one round of the inner loop, on the register, is one step of
the long division, on the powers the register stands for. `RoundsDivide` and
`Crc8Divides` go through the eight rounds and all bytes; the invariant of the outer
loop says that what is left of the division is the register and the bytes still
to come (`Behind`). `ChecksumAsDocumented` is the case of six bytes.

**Only model-checked.** `RequestResolves`, `DirectionReleased` and `RequestEnds`:
liveness under fairness is out of reach of the prover. `SpillStaysOpen` and
`TogglesOnlyAsked` are violated in V2, see section 7. Everything else the runs
check is proved.
The fair specifications (`V2Driver!FairSpec`, `V1Entities!EntitySpec`,
`V2System!SystemSpec`) imply the ones the theorems are about.

## 7. Where the documentation and the code disagree

1. *V2 may close the spill zone as the only open one* (`v2_spill`). The spill
   guard looks at where the zones shall end (`zoneswitch.cpp:59-61`), and the poll
   cycle toggles the lowest differing zone first (`protocol_v2.cpp:104-113`). With
   spill zone 1 open alone, and a request to open zone 2 and close zone 1, zone 1
   is toggled first. `docs/configuration.md:62` calls it a "last-open spill-zone
   guard". V1 toggles one zone per request and is not affected (`SpillOpen`).
2. *V2 toggles zones nobody asked for* (`v2_unasked`). A request copies the whole
   mask; statuses do not refresh the copy while it is pending; so a zone changed
   by the controller or by a wall panel meanwhile is toggled back.
   `docs/specs/protocols/v2/touchpad2-plan.md:113` asks to avoid that.

## 8. What is not modelled

- Wrap-around of the millisecond clock: ages saturate and deadlines are times left.
  Two hazards in `PROJECT.json` depend on it.
- The numeric diagnostic sensors (counters, status age) and the text sensor of the
  transaction result: they copy a field of the hub, and no decision reads them.
  V2's transaction result is left out for that reason, the one of V1 is kept because
  `AwaitingIsLive` speaks of it.
- How long the bounded waits of the handshake take, and what the critical section
  does to interrupts: the model says in which order things happen and not when.
- V1 in a closed system: without sequence numbers a status of another exchange
  answers a query just as well, so a system in which that cannot happen would assume
  away what V1 has to live with. `ToggleJustified` is what holds without the
  assumption.
- Configuration validation and code generation: a pure function on the host; what
  it guarantees is in the assumptions. Research tools and tests: not part of the
  running system.

## 9. Where it could go on

1. `Clock`: elapsed time and signed deadlines at a small width, against exact time;
   in particular the retry deadline that stays set (`protocol_v2.cpp:182`).
2. A controller in `V2System` that may refuse to follow, or that answers late: how
   often a zone is toggled for then, and that a status delayed beyond the response
   timeout is the only thing that makes a toggle repeat.
3. The transaction result of V2 and its text sensor (`protocol_v2.cpp:483`).
