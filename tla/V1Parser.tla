-------------------------------- MODULE V1Parser --------------------------------
(* How the V1 driver finds statuses in the bytes it receives:                 *)
(* receive_v1_byte_ with rx_frame_, rx_index_ and v1_prefix_index_, and the   *)
(* check at the head of handle_v1_status_.  V1Link calls it.                  *)
(*                                                                            *)
(* The controller's frame has a header, a byte for each zone and a checksum;  *)
(* ZoneCount is 6 in the code.  Places of rx_frame_ behind rx_index_ are      *)
(* never read and hold NoByte here.                                           *)
EXTENDS Naturals, FiniteSetsExt

CONSTANTS
    ZoneCount,    \* zones in a status
    Bytes,        \* the bytes that may be received
    FrameTimeout  \* FRAME_TIMEOUT_MS, in ticks

ASSUME ZoneCountAssumption == ZoneCount \in 1 .. 6
ASSUME V1BytesAssumption == Bytes \subseteq 0 .. 255
ASSUME FrameTimeoutAssumption == FrameTimeout \in Nat \ {0}

VARIABLES
    frame,   \* rx_frame_
    index,   \* rx_index_
    prefix,  \* v1_prefix_index_
    got,     \* the frame handle_v1_status_ has taken with the last byte, or Blank
    window   \* history: the byte read k bytes ago, since the last status taken or given up

parser == <<frame, index, prefix, got, window>>

Header == 8
Connect == 192  \* C0h, which opens a transaction
Ack == 48       \* 30h, which the controller answers it with
NoByte == 256

Last == ZoneCount + 1
Places == 0 .. Last
Blank == [i \in Places |-> NoByte]
NoWindow == [k \in 1 .. Last |-> NoByte]

\* The bytes a master may send after the prefix: no zone, or one.
ZoneMasks == {0} \cup {2^z : z \in 0 .. 5}

\* The checksum over all bytes before it.
Sum(f) == MapThenSumSet(LAMBDA i : f[i], 0 .. ZoneCount) % 256

\* The check of handle_v1_status_: byte i is that of zone i, with its state on top.
Valid(f) ==
    /\ f[0] = Header
    /\ \A i \in 1 .. ZoneCount : f[i] % 128 = i - 1
    /\ f[Last] = Sum(f)

ParserInit ==
    /\ frame = Blank /\ index = 0 /\ prefix = 0
    /\ got = Blank
    /\ window = NoWindow

\* What fail_v1_transaction_ and a frame that waits too long leave.
ResetParser ==
    /\ frame' = Blank /\ index' = 0 /\ prefix' = 0
    /\ got' = Blank
    /\ window' = NoWindow

\* Faulty: the prefix is forgotten only with a frame.
GiveUpFrame(age) ==
    IF index # 0 /\ age >= FrameTimeout THEN ResetParser ELSE UNCHANGED parser

\* The head of loop(): what has waited too long is given up.
GiveUpStale(age) ==
    IF age >= FrameTimeout THEN ResetParser ELSE UNCHANGED parser

Remember(byte) == window' = [k \in 1 .. Last |-> IF k = 1 THEN byte ELSE window[k - 1]]

\* Faulty: either byte counts, whatever came before it.
ReadPrefixCounting(byte) ==
    /\ index = 0
    /\ byte = Connect \/ (prefix = 1 /\ byte = Ack)
    /\ prefix' = prefix + 1
    /\ got' = Blank
    /\ Remember(byte)
    /\ UNCHANGED <<frame, index>>

\* A byte of C0 30, the beginning of a transaction.
ReadPrefix(byte) ==
    /\ index = 0
    /\ byte = Connect \/ (prefix = 1 /\ byte = Ack)
    /\ prefix' = IF byte = Connect THEN 1 ELSE 2
    /\ got' = Blank
    /\ Remember(byte)
    /\ UNCHANGED <<frame, index>>

\* The mask after it, which may look like a header; the window shows that it was none.
SwallowMask(byte) ==
    /\ index = 0
    /\ prefix = 2
    /\ byte \in ZoneMasks
    /\ prefix' = 0
    /\ got' = Blank
    /\ Remember(IF byte = Header THEN NoByte ELSE byte)
    /\ UNCHANGED <<frame, index>>

OfPrefix(byte) ==
    byte = Connect \/ (prefix = 1 /\ byte = Ack) \/ (prefix = 2 /\ byte \in ZoneMasks)

\* Faulty: noise between C0 and 30 does not matter.
SkipKeepingPrefix(byte) ==
    /\ index = 0
    /\ ~OfPrefix(byte)
    /\ byte # Header
    /\ got' = Blank
    /\ Remember(byte)
    /\ UNCHANGED <<frame, index, prefix>>

\* Any other byte that begins no status.
SkipByte(byte) ==
    /\ index = 0
    /\ ~OfPrefix(byte)
    /\ byte # Header
    /\ prefix' = 0
    /\ got' = Blank
    /\ Remember(byte)
    /\ UNCHANGED <<frame, index>>

\* A byte that begins or continues one.
StoreByte(byte) ==
    /\ index < Last
    /\ index = 0 => byte = Header /\ ~OfPrefix(byte)
    /\ frame' = [frame EXCEPT ![index] = byte]
    /\ index' = index + 1
    /\ prefix' = IF index = 0 THEN 0 ELSE prefix
    /\ got' = Blank
    /\ Remember(byte)

Filled(byte) == [frame EXCEPT ![Last] = byte]

\* Faulty: the order of the zones is not looked at.
TakeUnordered(byte) ==
    /\ index = Last
    /\ byte = Sum(Filled(byte))
    /\ got' = Filled(byte)
    /\ frame' = Blank
    /\ index' = 0
    /\ window' = NoWindow
    /\ UNCHANGED prefix

\* The byte that completes a status.
TakeStatus(byte) ==
    /\ index = Last
    /\ Valid(Filled(byte))
    /\ got' = Filled(byte)
    /\ frame' = Blank
    /\ index' = 0
    /\ window' = NoWindow
    /\ UNCHANGED prefix

\* Faulty: the search for a header begins at the end.
KeepsFromLast(f, n) ==
    /\ n > 0 => f[Last + 1 - n] = Header
    /\ \A k \in 1 .. Last : f[Last + 1 - k] = Header => n > 0 /\ n <= k

\* The last n bytes are kept: those from the first header behind the first byte.
Keeps(f, n) ==
    /\ n > 0 => f[Last + 1 - n] = Header
    /\ \A k \in n + 1 .. Last : f[Last + 1 - k] # Header

\* A false start: go on with the next header among the bytes.
Slide(byte) ==
    LET f == Filled(byte)
    IN  /\ index = Last
        /\ ~Valid(f)
        /\ \E n \in 0 .. Last :
              /\ Keeps(f, n)
              /\ index' = n
              /\ frame' = [i \in Places |-> IF i < n THEN f[i + Last + 1 - n] ELSE NoByte]
        /\ got' = Blank
        /\ Remember(byte)
        /\ UNCHANGED prefix

\* receive_v1_byte_
Receive(byte) ==
    \/ ReadPrefix(byte) \/ SwallowMask(byte) \/ SkipByte(byte)
    \/ StoreByte(byte) \/ TakeStatus(byte) \/ Slide(byte)
================================================================================
