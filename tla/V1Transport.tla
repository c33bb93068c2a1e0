------------------------------ MODULE V1Transport ------------------------------
(* transact_v1: C0 out, 30 in, mask out, each byte by send_byte, which drives *)
(* the direction pin around it.  The UART shifts a byte out by itself: when   *)
(* it is done is up to the hardware.  V1Link calls it.                        *)
(*                                                                            *)
(* step names the place:                                                      *)
(*   rest   not in transact_v1                                                *)
(*   begin  at the head of send_byte                                          *)
(*   shift  the byte is in the TX FIFO, and the code waits for TX idle        *)
(*   ack    in the wait for the controller's answer to C0                     *)
(*   end    about to return                                                   *)
EXTENDS Naturals, Sequences

VARIABLES
    step,     \* where transact_v1 is
    message,  \* what is sent next: C0 or the mask
    outcome,  \* the V1TransportResult returned last, "none" before the end
    de,       \* the level of the direction pin
    shifting, \* a byte of ours is in the UART's TX FIFO or shifter
    wire      \* history: what the transaction has put on the bus or read from it,
              \* and "cut" behind a byte that the pin was not held for to its end

transport == <<step, message, outcome, de, shifting, wire>>

Steps == {"rest", "begin", "shift", "ack", "end"}
Messages == {"connect", "mask"}
Pieces == Messages \cup {"ack", "cut"}
Outcomes == {"none", "SENT", "ACK_TIMEOUT", "ACK_INVALID", "TX_FAILED"}

TransportInit ==
    /\ step = "rest" /\ message = "connect" /\ outcome = "none"
    /\ de = FALSE /\ shifting = FALSE
    /\ wire = <<>>

\* transact_v1 is called.
EnterTransact ==
    /\ step = "rest"
    /\ step' = "begin" /\ message' = "connect" /\ outcome' = "none"
    /\ wire' = <<>>
    /\ UNCHANGED <<de, shifting>>

Return(result) == step' = "end" /\ outcome' = result

\* send_byte finds an earlier byte still going out.
RefuseBusy ==
    /\ step = "begin"
    /\ shifting
    /\ Return("TX_FAILED")
    /\ UNCHANGED <<message, de, shifting, wire>>

\* The pin goes high and the byte into the FIFO.
WriteByte ==
    /\ step = "begin"
    /\ ~shifting
    /\ step' = "shift"
    /\ de' = TRUE
    /\ shifting' = TRUE
    /\ wire' = Append(wire, message)
    /\ UNCHANGED <<message, outcome>>

\* The UART has sent the byte.
ShiftedOut ==
    /\ shifting
    /\ shifting' = FALSE
    /\ UNCHANGED <<step, message, outcome, de, wire>>

\* send_byte sees TX idle: the pin goes low, and transact_v1 goes on.
FinishByte ==
    /\ step = "shift"
    /\ ~shifting
    /\ de' = FALSE
    /\ IF message = "connect"
       THEN step' = "ack" /\ UNCHANGED outcome
       ELSE Return("SENT")
    /\ UNCHANGED <<message, shifting, wire>>

\* Faulty: the wait is left without a look at the pin.
GiveUpDriving ==
    /\ step = "shift"
    /\ shifting
    /\ wire' = Append(wire, "cut")
    /\ Return("TX_FAILED")
    /\ UNCHANGED <<message, de, shifting>>

\* 200 us have passed and TX is not idle: the pin goes low all the same.
GiveUpByte ==
    /\ step = "shift"
    /\ shifting
    /\ de' = FALSE
    /\ wire' = Append(wire, "cut")
    /\ Return("TX_FAILED")
    /\ UNCHANGED <<message, shifting>>

\* The first byte in the RX buffer is the controller's 30, or passes for it.
ReadAck ==
    /\ step = "ack"
    /\ step' = "begin"
    /\ message' = "mask"
    /\ wire' = Append(wire, "ack")
    /\ UNCHANGED <<outcome, de, shifting>>

\* Faulty: only silence is a failure.
MissAckInSilence ==
    /\ step = "ack"
    /\ \/ Return("ACK_TIMEOUT") /\ UNCHANGED message
       \/ step' = "begin" /\ message' = "mask" /\ UNCHANGED outcome
    /\ UNCHANGED <<de, shifting, wire>>

\* Nothing came for 10 ms, or the first byte is another, or the read failed.
MissAck ==
    /\ step = "ack"
    /\ Return("ACK_TIMEOUT") \/ Return("ACK_INVALID")
    /\ UNCHANGED <<message, de, shifting, wire>>

LeaveTransact ==
    /\ step = "end"
    /\ step' = "rest"
    /\ UNCHANGED <<message, outcome, de, shifting, wire>>

TransactStep ==
    \/ RefuseBusy \/ WriteByte \/ FinishByte \/ GiveUpByte \/ ReadAck \/ MissAck
================================================================================
