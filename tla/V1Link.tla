--------------------------------- MODULE V1Link ---------------------------------
(* V1ZoneSwitch::loop between its driver and the bus: the parser that reads   *)
(* the bus, the transport that writes it, and the timers and resets by which  *)
(* they stay out of each other's way.  V1Driver decides what to transmit;     *)
(* here that is any transaction at any time the loop allows one.              *)
(*                                                                            *)
(* A byte is chosen when it is read, so that any master may have sent it.     *)
EXTENDS V1Parser, V1Transport

CONSTANT TxIdleGuard  \* tx_idle_guard_ms_, in ticks

ASSUME TxIdleGuardAssumption == TxIdleGuard \in Nat

VARIABLES
    pc,       \* "idle" between two calls of loop(), "drain" in its read loop,
              \* "decide" behind it, "transact" in transact_v1
    age,      \* time since last_rx_byte_ms_
    waiting,  \* waiting_for_response_
    unheard   \* history: the last transaction was sent, and no byte read since

vars == <<pc, age, waiting, unheard, parser, transport>>

AgeLimit == IF TxIdleGuard > FrameTimeout THEN TxIdleGuard ELSE FrameTimeout

Init ==
    /\ pc = "idle" /\ age = 0 /\ waiting = FALSE /\ unheard = FALSE
    /\ ParserInit
    /\ TransportInit

LoopStart ==
    /\ pc = "idle"
    /\ pc' = "drain"
    /\ GiveUpStale(age)
    /\ UNCHANGED <<age, waiting, unheard, transport>>

\* The read loop takes a byte; a status ends the wait for one.
ReadByte(byte) ==
    /\ pc = "drain"
    /\ Receive(byte)
    /\ age' = 0
    /\ waiting' = (waiting /\ ~TakeStatus(byte))
    /\ unheard' = FALSE
    /\ UNCHANGED <<pc, transport>>

(* The read loop ends: the buffer is empty, 64 bytes are read, or a read      *)
(* failed.  service_status_timeout_ behind it may end the wait for an answer, *)
(* and resets nothing of the parser.                                          *)
LoopEnd ==
    /\ pc = "drain"
    /\ pc' = "decide"
    /\ UNCHANGED waiting \/ waiting' = FALSE
    /\ UNCHANGED <<age, unheard, parser, transport>>

\* No answer yet, or none in time: then fail_v1_transaction_ resets the parser.
AwaitAnswer ==
    /\ pc = "decide"
    /\ waiting
    /\ pc' = "idle"
    /\ \/ UNCHANGED <<waiting, parser>>
       \/ waiting' = FALSE /\ ResetParser
    /\ UNCHANGED <<age, unheard, transport>>

\* There is nothing to send, or no time for it.
Hold ==
    /\ pc = "decide"
    /\ ~waiting
    /\ pc' = "idle"
    /\ UNCHANGED <<age, waiting, unheard, parser, transport>>

\* The bus is free for a transmission.
Quiet == index = 0 /\ age >= TxIdleGuard

\* transact_v1_ is called.
Transmit ==
    /\ pc = "decide"
    /\ ~waiting
    /\ Quiet
    /\ pc' = "transact"
    /\ EnterTransact
    /\ UNCHANGED <<age, waiting, unheard, parser>>

Transact ==
    /\ pc = "transact"
    /\ TransactStep
    /\ UNCHANGED <<pc, age, waiting, unheard, parser>>

\* transact_v1_ returns; fail_v1_transaction_ resets the parser if it failed.
Transacted ==
    /\ pc = "transact"
    /\ LeaveTransact
    /\ pc' = "idle"
    /\ waiting' = (outcome = "SENT")
    /\ unheard' = (outcome = "SENT")
    /\ IF outcome = "SENT" THEN UNCHANGED parser ELSE ResetParser
    /\ UNCHANGED age

Hardware == ShiftedOut /\ UNCHANGED <<pc, age, waiting, unheard, parser>>

Tick ==
    /\ pc # "decide"
    /\ age' = IF age < AgeLimit THEN age + 1 ELSE age
    /\ UNCHANGED <<pc, waiting, unheard, parser, transport>>

Next ==
    \/ LoopStart \/ (\E byte \in Bytes : ReadByte(byte)) \/ LoopEnd
    \/ AwaitAnswer \/ Hold \/ Transmit \/ Transact \/ Transacted
    \/ Hardware
    \/ Tick

Spec == Init /\ [][Next]_vars

-------------------------------------------------------------------------------
(* Properties.                                                                *)

Seen == Bytes \cup {NoByte}

\* Every variable holds a value of its field; the index never leaves the buffer.
TypeOK ==
    /\ pc \in {"idle", "drain", "decide", "transact"}
    /\ age \in 0 .. AgeLimit
    /\ waiting \in BOOLEAN /\ unheard \in BOOLEAN
    /\ frame \in [Places -> Seen]
    /\ index \in 0 .. Last
    /\ prefix \in 0 .. 2
    /\ got \in [Places -> Seen]
    /\ window \in [1 .. Last -> Seen]
    /\ step \in Steps /\ message \in Messages /\ outcome \in Outcomes
    /\ de \in BOOLEAN /\ shifting \in BOOLEAN
    /\ wire \in Seq(Pieces)

(* The buffer holds exactly the bytes since the oldest header among the last  *)
(* ones: whatever prefixes, noise and false starts came before, nothing that  *)
(* may still begin a status has been dropped, the swallowed mask excepted     *)
(* (receive_v1_byte_).                                                        *)
Aligned ==
    /\ index > 0 => window[index] = Header
    /\ \A k \in index + 1 .. Last : window[k] # Header
    /\ \A i \in Places : frame[i] = IF i < index THEN window[index - i] ELSE NoByte

(* A header is only ever taken for a mask, and lost, right behind C0 30, with *)
(* no byte and no frame timeout between them (lines 66-78, 99).               *)
PrefixIsRecent ==
    /\ prefix # 0 => index = 0
    /\ prefix = 1 => window[1] = Connect
    /\ prefix = 2 => window[1] = Ack /\ window[2] = Connect

\* The last bytes read, this one included, as many as a status has.
LastBytes(byte) == [i \in Places |-> IF i = Last THEN byte ELSE window[Last - i]]

(* A status is taken exactly when the last bytes read are a valid one, unless *)
(* its header was swallowed as a mask; what is missed otherwise is cut by the *)
(* frame timeout or by the end of a transaction (lines 62-95, 97-104).        *)
StatusesFound ==
    [][\A byte \in Bytes :
          ReadByte(byte) => got' = IF Valid(LastBytes(byte)) THEN LastBytes(byte) ELSE Blank]_vars

(* The controller's answer to a transaction of ours always meets an empty     *)
(* parser: no prefix of another master is left to swallow its header and no   *)
(* remainder of a frame to run into it, as long as the idle guard is no       *)
(* shorter than the frame timeout.  Transmitting itself does not look at the  *)
(* prefix; the next loop() clears it (lines 99, 124-126).                     *)
AnswerHeard ==
    TxIdleGuard >= FrameTimeout =>
        (unheard /\ pc = "drain" => index = 0 /\ prefix = 0)

\* A transaction as it should be.
Exchange == <<"connect", "ack", "mask">>

(* What the caller is told is what happened on the bus: SENT means that C0    *)
(* went out whole, 30 was read, and then the mask went out whole; a missing   *)
(* or wrong ACK that no mask did; TX_FAILED that the last byte is cut or was  *)
(* never begun (transact_v1, send_byte).                                      *)
OutcomeTells ==
    /\ outcome = "SENT" => wire = Exchange
    /\ outcome \in {"ACK_TIMEOUT", "ACK_INVALID"} => wire = <<"connect">>
    /\ outcome = "TX_FAILED" => wire # Exchange

(* The bus is released: outside the wait for a byte the pin is low, and then  *)
(* a byte may still be in the UART only if its transaction has failed for it. *)
BusReleased ==
    step # "shift" =>
        /\ ~de
        /\ shifting => step = "begin" \/ outcome = "TX_FAILED"
================================================================================
