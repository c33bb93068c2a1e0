-------------------------------- MODULE V2Parser --------------------------------
(* How the V2 driver finds frames in the bytes it receives: the read loop of  *)
(* V2ZoneSwitch::loop with rx_frame_ and rx_index_, and the checks by which   *)
(* handle_frame_ tells a frame from bytes that only begin like one.           *)
(*                                                                            *)
(* V2Driver works with the frames; this module shows which ones it gets.      *)
(* Places of rx_frame_ behind rx_index_ are never read and hold NoByte here.  *)
EXTENDS Crc8

CONSTANTS
    Bytes,        \* the bytes that may be received
    FrameTimeout  \* RX_FRAME_TIMEOUT_MS, in ticks

ASSUME BytesAssumption == Bytes \subseteq 0 .. 255
ASSUME FrameTimeoutAssumption == FrameTimeout \in Nat

VARIABLES
    pc,     \* "idle" between two calls of loop(), "drain" in its read loop
    frame,  \* rx_frame_
    index,  \* rx_index_
    age,    \* time since last_rx_byte_ms_
    got,    \* the frame handle_frame_ has taken with the last byte, or Blank
    window  \* history: the byte received k bytes ago, since the last frame taken or given up

vars == <<pc, frame, index, age, got, window>>

Header == 170   \* AAh
Trailer == 85   \* 55h
NoByte == 256

Places == 0 .. 8
Blank == [i \in Places |-> NoByte]
NoWindow == [k \in 1 .. 8 |-> NoByte]

\* The first two checks of handle_frame_.
Valid(f) ==
    /\ f[0] = Header
    /\ f[8] = Trailer
    /\ Bits(f[7]) = Crc8(<<f[1], f[2], f[3], f[4], f[5], f[6]>>)

Init ==
    /\ pc = "idle"
    /\ frame = Blank /\ index = 0
    /\ age = 0
    /\ got = Blank
    /\ window = NoWindow

\* The entry of the read loop: part of a frame that has waited too long is given up.
LoopStart ==
    /\ pc = "idle"
    /\ pc' = "drain"
    /\ IF index # 0 /\ age >= FrameTimeout
       THEN frame' = Blank /\ index' = 0 /\ window' = NoWindow
       ELSE UNCHANGED <<frame, index, window>>
    /\ UNCHANGED <<age, got>>

Remember(byte) == window' = [k \in 1 .. 8 |-> IF k = 1 THEN byte ELSE window[k - 1]]

ReadByte == pc = "drain" /\ age' = 0 /\ UNCHANGED pc

\* A byte that begins no frame.
SkipByte(byte) ==
    /\ ReadByte
    /\ index = 0
    /\ byte # Header
    /\ got' = Blank
    /\ Remember(byte)
    /\ UNCHANGED <<frame, index>>

\* Faulty: a tenth place.
LastPlaceBehind == 9
LastPlace == 8

\* A byte that begins or continues one.
StoreByte(byte) ==
    /\ ReadByte
    /\ index = 0 => byte = Header
    /\ index < LastPlace
    /\ frame' = [frame EXCEPT ![index] = byte]
    /\ index' = index + 1
    /\ got' = Blank
    /\ Remember(byte)

Filled(byte) == [frame EXCEPT ![LastPlace] = byte]

\* The byte that completes a frame.
TakeFrame(byte) ==
    /\ ReadByte
    /\ index = LastPlace
    /\ Valid(Filled(byte))
    /\ got' = Filled(byte)
    /\ frame' = Blank
    /\ index' = 0
    /\ window' = NoWindow

\* Faulty: everything is thrown away.
KeepsNothing(f, n) == n = 0
\* Faulty: the search for a header begins at the end.
KeepsFromLast(f, n) ==
    /\ n > 0 => f[9 - n] = Header
    /\ \A k \in 1 .. 8 : f[9 - k] = Header => n > 0 /\ n <= k

\* The last n bytes are kept: those from the first header behind the first byte.
Keeps(f, n) ==
    /\ n > 0 => f[9 - n] = Header
    /\ \A k \in n + 1 .. 8 : f[9 - k] # Header

\* Nine bytes that are no frame: go on with the next header among them.
Slide(byte) ==
    LET f == Filled(byte)
    IN  /\ ReadByte
        /\ index = LastPlace
        /\ ~Valid(f)
        /\ \E n \in 0 .. 8 :
              /\ Keeps(f, n)
              /\ index' = n
              /\ frame' = [i \in Places |-> IF i < n THEN f[i + 9 - n] ELSE NoByte]
        /\ got' = Blank
        /\ Remember(byte)

\* The buffer is empty, 32 bytes are read, or a read failed.
LoopEnd ==
    /\ pc = "drain"
    /\ pc' = "idle"
    /\ got' = Blank
    /\ UNCHANGED <<frame, index, age, window>>

Tick ==
    /\ age' = IF age < FrameTimeout THEN age + 1 ELSE age
    /\ UNCHANGED <<pc, frame, index, got, window>>

Receive(byte) == SkipByte(byte) \/ StoreByte(byte) \/ TakeFrame(byte) \/ Slide(byte)

Next == LoopStart \/ (\E byte \in Bytes : Receive(byte)) \/ LoopEnd \/ Tick

Spec == Init /\ [][Next]_vars

-------------------------------------------------------------------------------
(* Properties.                                                                *)

\* Every variable holds a value of its field; the index never leaves the buffer.
TypeOK ==
    /\ pc \in {"idle", "drain"}
    /\ frame \in [Places -> Bytes \cup {NoByte}]
    /\ index \in 0 .. 8
    /\ age \in 0 .. FrameTimeout
    /\ got \in [Places -> Bytes \cup {NoByte}]
    /\ window \in [1 .. 8 -> Bytes \cup {NoByte}]

(* The buffer holds exactly the bytes since the oldest header among the last  *)
(* eight: after any noise, any damaged frame and any number of slides, nothing *)
(* that may still begin a frame has been dropped (lines 206-226).             *)
Aligned ==
    /\ index > 0 => window[index] = Header
    /\ \A k \in index + 1 .. 8 : window[k] # Header
    /\ \A i \in Places : frame[i] = IF i < index THEN window[index - i] ELSE NoByte

\* The last nine bytes on the wire, this one included.
LastNine(byte) == [i \in Places |-> IF i = 8 THEN byte ELSE window[8 - i]]

(* A frame is taken exactly when the last nine bytes on the wire are a valid  *)
(* one, wherever noise, headers inside other data or a false start have left  *)
(* the parser; what is missed overlaps a frame that was taken or was given up *)
(* at the timeout (lines 197-226, 361-376).                                   *)
FramesFound ==
    [][\A byte \in Bytes :
          Receive(byte) => got' = IF Valid(LastNine(byte)) THEN LastNine(byte) ELSE Blank]_vars

(* The checksum is CRC-8/MAXIM, as the comment in crc8_maxim_ has it, on      *)
(* whatever six bytes a frame to be checked holds.                            *)
ChecksumAsDocumented ==
    index = 8 => LET data == <<frame[1], frame[2], frame[3], frame[4], frame[5], frame[6]>>
                 IN  Crc8(data) = MaximCrc(data)
================================================================================
