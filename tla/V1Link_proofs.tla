------------------------------ MODULE V1Link_proofs ------------------------------
(* What V1Link promises for every number of zones, every alphabet and all     *)
(* times.  The checksum of a status is never expanded.                        *)
EXTENDS V1Link, SequenceTheorems, TLAPS

ParserType ==
    /\ frame \in [Places -> Seen]
    /\ index \in 0 .. Last
    /\ prefix \in 0 .. 2
    /\ got \in [Places -> Seen]
    /\ window \in [1 .. Last -> Seen]

\* What the parser preserves by itself, whoever calls it.
ParserInv == ParserType /\ Aligned /\ PrefixIsRecent

LEMMA LastType == Last \in 2 .. 7
  BY ZoneCountAssumption DEF Last


LEMMA InitParserInv == ParserInit => ParserInv
  <1> SUFFICES ASSUME ParserInit PROVE ParserInv
    OBVIOUS
  <1>1. ParserType
    BY LastType DEF ParserInit, ParserType, Blank, NoWindow, Places, NoByte, Seen
  <1>2. Aligned /\ PrefixIsRecent
    BY LastType
    DEF ParserInit, Aligned, PrefixIsRecent, Blank, NoWindow, Places, NoByte, Header
  <1> QED BY <1>1, <1>2 DEF ParserInv

LEMMA ResetParserInv == ResetParser => ParserInv'
  <1> SUFFICES ASSUME ResetParser PROVE ParserInv'
    OBVIOUS
  <1>1. ParserType'
    BY LastType DEF ResetParser, ParserType, Blank, NoWindow, Places, NoByte, Seen
  <1>2. Aligned' /\ PrefixIsRecent'
    BY LastType
    DEF ResetParser, Aligned, PrefixIsRecent, Blank, NoWindow, Places, NoByte, Header
  <1> QED BY <1>1, <1>2 DEF ParserInv

LEMMA KeptParserInv == ParserInv /\ UNCHANGED parser => ParserInv'
  BY DEF ParserInv, ParserType, Aligned, PrefixIsRecent, parser

\* What the window holds after one byte more.
LEMMA Remembered ==
    ASSUME ParserType, NEW byte \in Seen, Remember(byte)
    PROVE  /\ window' \in [1 .. Last -> Seen]
           /\ window'[1] = byte
           /\ \A k \in 2 .. Last : window'[k] = window[k - 1]
  BY LastType DEF ParserType, Remember

LEMMA FilledType ==
    ASSUME ParserType, NEW byte \in Bytes
    PROVE  Filled(byte) \in [Places -> Seen]
  BY DEF ParserType, Filled, Seen

\* With all but the last place filled and one byte read, the window shows them all.
LEMMA FilledShowsWindow ==
    ASSUME ParserInv, NEW byte \in Bytes, Remember(byte), index = Last
    PROVE  \A k \in 1 .. Last : Filled(byte)[Last + 1 - k] = window'[k]
  <1>1. Filled(byte) = [frame EXCEPT ![Last] = byte]
    BY DEF Filled
  <1>2. DOMAIN frame = 0 .. Last /\ Last \in 2 .. 7
    BY LastType DEF ParserInv, ParserType, Places
  <1>3. Filled(byte)[Last] = byte
    BY <1>1, <1>2
  <1>4. ASSUME NEW k \in 2 .. Last
        PROVE  Filled(byte)[Last + 1 - k] = window[k - 1]
    <2>1. /\ Last + 1 - k \in 0 .. Last
          /\ Last + 1 - k # Last /\ Last + 1 - k < Last
          /\ Last - (Last + 1 - k) = k - 1
      BY <1>2
    <2>2. Filled(byte)[Last + 1 - k] = frame[Last + 1 - k]
      BY <1>1, <1>2, <2>1
    <2>3. frame[Last + 1 - k] = window[Last - (Last + 1 - k)]
      BY <2>1 DEF ParserInv, Aligned, Places
    <2> QED BY <2>1, <2>2, <2>3
  <1>5. window'[1] = byte /\ \A k \in 2 .. Last : window'[k] = window[k - 1]
    BY Remembered DEF ParserInv, Seen
  <1>6. ASSUME NEW k \in 1 .. Last
        PROVE  Filled(byte)[Last + 1 - k] = window'[k]
    <2>1. CASE k = 1
      BY <1>2, <1>3, <1>5, <2>1
    <2>2. CASE k # 1
      <3>1. k \in 2 .. Last
        BY <1>2, <2>2
      <3> QED BY <1>4, <1>5, <3>1
    <2> QED BY <2>1, <2>2
  <1> QED BY <1>6

\* A byte that is not stored leaves an empty buffer empty.
LEMMA EmptyStep ==
    ASSUME ParserInv, NEW byte \in Seen, byte # Header, Remember(byte),
           index = 0, index' = index, frame' = frame
    PROVE  /\ window' \in [1 .. Last -> Seen]
           /\ window'[1] = byte /\ window'[2] = window[1]
           /\ Aligned'
  <1>1. /\ window' \in [1 .. Last -> Seen]
        /\ window'[1] = byte
        /\ \A k \in 2 .. Last : window'[k] = window[k - 1]
    BY Remembered DEF ParserInv
  <1>2. window'[2] = window[1]
    BY <1>1, LastType
  <1>3. \A k \in 1 .. Last : window[k] # Header
    BY DEF ParserInv, Aligned
  <1>4. \A k \in 1 .. Last : window'[k] # Header
    <2> SUFFICES ASSUME NEW k \in 1 .. Last PROVE window'[k] # Header
      OBVIOUS
    <2>1. CASE k = 1
      BY <1>1, <2>1
    <2>2. CASE k # 1
      <3>1. k \in 2 .. Last /\ k - 1 \in 1 .. Last
        BY <2>2, LastType
      <3> QED BY <1>1, <1>3, <3>1
    <2> QED BY <2>1, <2>2
  <1>5. \A i \in Places : frame'[i] = NoByte
    BY LastType DEF ParserInv, Aligned, Places
  <1>6. Aligned'
    BY <1>4, <1>5, LastType DEF Aligned, Places
  <1> QED BY <1>1, <1>2, <1>6

LEMMA ReadPrefixStep ==
    ASSUME ParserInv, NEW byte \in Bytes, ReadPrefix(byte)
    PROVE  ParserInv'
  <1>1. byte \in Seen /\ byte # Header
    BY DEF ReadPrefix, Seen, Connect, Ack, Header
  <1>2. /\ window' \in [1 .. Last -> Seen]
        /\ window'[1] = byte /\ window'[2] = window[1]
        /\ Aligned'
    BY <1>1, EmptyStep DEF ReadPrefix
  <1>3. ParserType'
    BY <1>2, LastType DEF ParserInv, ParserType, ReadPrefix, Blank, Places, NoByte, Seen
  <1>4. PrefixIsRecent'
    BY <1>2 DEF ParserInv, PrefixIsRecent, ReadPrefix
  <1> QED BY <1>2, <1>3, <1>4 DEF ParserInv

LEMMA SwallowMaskStep ==
    ASSUME ParserInv, NEW byte \in Bytes, SwallowMask(byte)
    PROVE  ParserInv'
  <1> DEFINE seen == IF byte = Header THEN NoByte ELSE byte
  <1>1. seen \in Seen /\ seen # Header
    BY DEF Seen, NoByte, Header
  <1>2. Remember(seen) /\ index = 0 /\ index' = index /\ frame' = frame
    BY DEF SwallowMask
  <1>3. window' \in [1 .. Last -> Seen] /\ Aligned'
    <2> HIDE DEF seen
    <2> QED BY <1>1, <1>2, EmptyStep
  <1>4. ParserType'
    BY <1>3, LastType DEF ParserInv, ParserType, SwallowMask, Blank, Places, NoByte, Seen
  <1>5. PrefixIsRecent'
    BY DEF PrefixIsRecent, SwallowMask
  <1> QED BY <1>3, <1>4, <1>5 DEF ParserInv

LEMMA SkipStep ==
    ASSUME ParserInv, NEW byte \in Bytes, SkipByte(byte)
    PROVE  ParserInv'
  <1>1. byte \in Seen /\ byte # Header
    BY DEF SkipByte, Seen
  <1>2. window' \in [1 .. Last -> Seen] /\ Aligned'
    BY <1>1, EmptyStep DEF SkipByte
  <1>3. ParserType'
    BY <1>2, LastType DEF ParserInv, ParserType, SkipByte, Blank, Places, NoByte, Seen
  <1>4. PrefixIsRecent'
    BY DEF PrefixIsRecent, SkipByte
  <1> QED BY <1>2, <1>3, <1>4 DEF ParserInv

LEMMA StoreStep ==
    ASSUME ParserInv, NEW byte \in Bytes, StoreByte(byte)
    PROVE  ParserInv'
  <1>1. /\ Remember(byte) /\ index' = index + 1
        /\ frame' = [frame EXCEPT ![index] = byte]
        /\ index \in 0 .. Last - 1
        /\ index = 0 => byte = Header
        /\ Last \in 2 .. 7
        /\ byte \in Seen
    BY LastType DEF ParserInv, ParserType, StoreByte, Seen
  <1>2. /\ window' \in [1 .. Last -> Seen]
        /\ window'[1] = byte
        /\ \A k \in 2 .. Last : window'[k] = window[k - 1]
    BY <1>1, Remembered DEF ParserInv
  <1>3. ParserType'
    BY <1>1, <1>2 DEF ParserInv, ParserType, StoreByte, Blank, Places, NoByte, Seen
  <1>4. window'[index'] = Header
    <2>1. CASE index = 0
      BY <1>1, <1>2, <2>1
    <2>2. CASE index # 0
      <3>1. index' \in 2 .. Last /\ index' - 1 = index
        BY <1>1, <2>2
      <3>2. window[index] = Header
        BY <1>1, <2>2 DEF ParserInv, Aligned
      <3> QED BY <1>2, <3>1, <3>2
    <2> QED BY <2>1, <2>2
  <1>5. \A k \in index' + 1 .. Last : window'[k] # Header
    <2> SUFFICES ASSUME NEW k \in index' + 1 .. Last PROVE window'[k] # Header
      OBVIOUS
    <2>1. k \in 2 .. Last /\ k - 1 \in index + 1 .. Last
      BY <1>1
    <2>2. window[k - 1] # Header
      BY <2>1 DEF ParserInv, Aligned
    <2> QED BY <1>2, <2>1, <2>2
  <1>6. ASSUME NEW i \in Places
        PROVE  frame'[i] = IF i < index' THEN window'[index' - i] ELSE NoByte
    <2>1. DOMAIN frame = 0 .. Last
      BY DEF ParserInv, ParserType, Places
    <2>2. frame[i] = IF i < index THEN window[index - i] ELSE NoByte
      BY DEF ParserInv, Aligned
    <2>3. CASE i = index
      <3>1. index' - i = 1 /\ i < index'
        BY <1>1, <2>3
      <3>2. frame'[i] = byte
        BY <1>1, <2>1, <2>3
      <3> QED BY <1>2, <3>1, <3>2
    <2>4. CASE i < index
      <3>1. index' - i \in 2 .. Last /\ (index' - i) - 1 = index - i /\ i < index'
        BY <1>1, <2>4 DEF Places
      <3>2. frame'[i] = frame[i]
        BY <1>1, <2>1, <2>4 DEF Places
      <3> QED BY <1>2, <2>2, <2>4, <3>1, <3>2
    <2>5. CASE i > index
      <3>1. frame'[i] = frame[i] /\ ~(i < index) /\ ~(i < index')
        BY <1>1, <2>1, <2>5 DEF Places
      <3> QED BY <2>2, <3>1
    <2> QED BY <1>1, <2>3, <2>4, <2>5 DEF Places
  <1>7. Aligned'
    BY <1>4, <1>5, <1>6 DEF Aligned
  <1>8. PrefixIsRecent'
    BY <1>1 DEF ParserInv, PrefixIsRecent, StoreByte
  <1> QED BY <1>3, <1>7, <1>8 DEF ParserInv

LEMMA TakeStep ==
    ASSUME ParserInv, NEW byte \in Bytes, TakeStatus(byte)
    PROVE  ParserInv'
  <1>1. prefix' = 0
    BY LastType DEF ParserInv, ParserType, PrefixIsRecent, TakeStatus
  <1>2. ParserType'
    BY <1>1, FilledType, LastType
    DEF ParserInv, ParserType, TakeStatus, Blank, NoWindow, Places, NoByte, Seen
  <1>3. Aligned'
    BY LastType DEF Aligned, TakeStatus, Blank, NoWindow, Places, NoByte, Header
  <1>4. PrefixIsRecent'
    BY <1>1 DEF PrefixIsRecent
  <1> QED BY <1>2, <1>3, <1>4 DEF ParserInv

LEMMA SlideStep ==
    ASSUME ParserInv, NEW byte \in Bytes, Slide(byte)
    PROVE  ParserInv'
  <1> DEFINE f == Filled(byte)
  <1>1. Remember(byte) /\ index = Last /\ prefix' = prefix /\ byte \in Seen
    BY DEF Slide, Seen
  <1>2. f \in [Places -> Seen] /\ Last \in 2 .. 7
    BY FilledType, LastType DEF ParserInv
  <1>3. PICK n \in 0 .. Last :
            /\ Keeps(f, n)
            /\ index' = n
            /\ frame' = [i \in Places |-> IF i < n THEN f[i + Last + 1 - n] ELSE NoByte]
    BY DEF Slide
  <1>4. \A k \in 1 .. Last : f[Last + 1 - k] = window'[k]
    BY <1>1, FilledShowsWindow
  <1>p. prefix' = 0
    BY <1>1, <1>2 DEF ParserInv, ParserType, PrefixIsRecent
  <1>5. ParserType'
    <2>1. window' \in [1 .. Last -> Seen]
      BY <1>1, Remembered DEF ParserInv
    <2>2. frame' \in [Places -> Seen]
      <3>1. ASSUME NEW i \in Places, i < n
            PROVE  f[i + Last + 1 - n] \in Seen
        <4>1. i + Last + 1 - n \in Places
          BY <1>2, <1>3, <3>1 DEF Places
        <4> QED BY <1>2, <4>1
      <3> HIDE DEF f
      <3> QED BY <1>3, <3>1 DEF Seen
    <2>3. got' = Blank
      BY DEF Slide
    <2> QED BY <1>2, <1>3, <1>p, <2>1, <2>2, <2>3 DEF ParserType, Blank, Places, NoByte, Seen
  <1> HIDE DEF f
  <1>6. n > 0 => window'[n] = Header
    BY <1>3, <1>4 DEF Keeps
  <1>7. \A k \in n + 1 .. Last : window'[k] # Header
    <2> SUFFICES ASSUME NEW k \in n + 1 .. Last PROVE window'[k] # Header
      OBVIOUS
    <2>1. k \in 1 .. Last
      BY <1>2, <1>3
    <2>2. f[Last + 1 - k] # Header
      BY <1>3 DEF Keeps
    <2> QED BY <1>4, <2>1, <2>2
  <1>8. ASSUME NEW i \in Places
        PROVE  frame'[i] = IF i < n THEN window'[n - i] ELSE NoByte
    <2>1. CASE i < n
      <3>1. n - i \in 1 .. Last /\ Last + 1 - (n - i) = i + Last + 1 - n
        BY <1>2, <1>3, <2>1 DEF Places
      <3>2. f[i + Last + 1 - n] = window'[n - i]
        BY <1>4, <3>1
      <3> QED BY <1>3, <2>1, <3>2
    <2>2. CASE ~(i < n)
      BY <1>3, <2>2
    <2> QED BY <2>1, <2>2
  <1>9. Aligned'
    BY <1>3, <1>6, <1>7, <1>8 DEF Aligned
  <1>10. PrefixIsRecent'
    BY <1>p DEF PrefixIsRecent
  <1> QED BY <1>5, <1>9, <1>10 DEF ParserInv

LEMMA ReceiveStep ==
    ASSUME ParserInv, NEW byte \in Bytes, Receive(byte)
    PROVE  ParserInv'
  BY ReadPrefixStep, SwallowMaskStep, SkipStep, StoreStep, TakeStep, SlideStep DEF Receive

-------------------------------------------------------------------------------
(* The transport, and the timers that keep the parser out of its way.         *)

LoopType ==
    /\ pc \in {"idle", "drain", "decide", "transact"}
    /\ age \in 0 .. AgeLimit
    /\ waiting \in BOOLEAN /\ unheard \in BOOLEAN

TransportType ==
    /\ step \in Steps /\ message \in Messages /\ outcome \in Outcomes
    /\ de \in BOOLEAN /\ shifting \in BOOLEAN
    /\ wire \in Seq(Pieces)

Connected == <<"connect">>
Acked == <<"connect", "ack">>

\* What each place of transact_v1 has put on the bus and knows of the UART.
TransportAgrees ==
    /\ step = "begin" =>
          /\ outcome = "none"
          /\ wire = IF message = "connect" THEN <<>> ELSE Acked
    /\ step = "shift" =>
          /\ outcome = "none"
          /\ wire = IF message = "connect" THEN Connected ELSE Exchange
    /\ step = "ack" =>
          /\ outcome = "none" /\ ~shifting
          /\ message = "connect" /\ wire = Connected

TransportInv == TransportType /\ TransportAgrees /\ OutcomeTells /\ BusReleased

\* Why the answer to a transaction is heard.
HeardInv ==
    TxIdleGuard >= FrameTimeout =>
        /\ pc = "transact" => age >= TxIdleGuard
        /\ unheard => age >= FrameTimeout
        /\ unheard /\ pc = "drain" => index = 0 /\ prefix = 0

IInv == LoopType /\ ParserInv /\ TransportInv /\ HeardInv

LEMMA WireFacts ==
    /\ <<>> \in Seq(Pieces) /\ Connected \in Seq(Pieces)
    /\ Acked \in Seq(Pieces) /\ Exchange \in Seq(Pieces)
    /\ <<>> # Exchange /\ Acked # Exchange
    /\ Append(<<>>, "connect") = Connected
    /\ Append(Connected, "ack") = Acked
    /\ Append(Acked, "mask") = Exchange
  <1>1. Len(<<>>) = 0 /\ Len(Acked) = 2 /\ Len(Exchange) = 3
    BY DEF Acked, Exchange
  <1>2. <<>> # Exchange /\ Acked # Exchange
    BY <1>1
  <1>3. /\ <<>> \in Seq(Pieces) /\ Connected \in Seq(Pieces)
        /\ Acked \in Seq(Pieces) /\ Exchange \in Seq(Pieces)
    <2>1. "connect" \in Pieces /\ "ack" \in Pieces /\ "mask" \in Pieces
      BY DEF Pieces, Messages
    <2> QED BY <2>1 DEF Connected, Acked, Exchange
  <1>4. /\ Append(<<>>, "connect") = Connected
        /\ Append(Connected, "ack") = Acked
        /\ Append(Acked, "mask") = Exchange
    <2>1. "connect" \in Pieces /\ "ack" \in Pieces /\ "mask" \in Pieces
      BY DEF Pieces, Messages
    <2>2. Append(<<>>, "connect") = Connected
      BY DEF Connected
    <2>3. Append(Connected, "ack") = Acked
      <3> DEFINE more == Append(Connected, "ack")
      <3>1. /\ more \in Seq(Pieces)
            /\ Len(more) = Len(Connected) + 1
            /\ \A i \in 1 .. Len(Connected) : more[i] = Connected[i]
            /\ more[Len(Connected) + 1] = "ack"
        BY <1>3, <2>1, AppendProperties
      <3>2. Len(Connected) = 1 /\ Connected[1] = "connect"
        BY DEF Connected
      <3>3. Len(Acked) = 2 /\ Acked[1] = "connect" /\ Acked[2] = "ack"
        BY DEF Acked
      <3> HIDE DEF more
      <3>4. Len(more) = Len(Acked) /\ \A i \in 1 .. Len(more) : more[i] = Acked[i]
        BY <3>1, <3>2, <3>3
      <3>5. more = Acked
        BY <1>3, <3>1, <3>4, SeqEqual
      <3> QED BY <3>5 DEF more
    <2>4. Append(Acked, "mask") = Exchange
      <3> DEFINE more == Append(Acked, "mask")
      <3>1. /\ more \in Seq(Pieces)
            /\ Len(more) = Len(Acked) + 1
            /\ \A i \in 1 .. Len(Acked) : more[i] = Acked[i]
            /\ more[Len(Acked) + 1] = "mask"
        BY <1>3, <2>1, AppendProperties
      <3>2. Len(Acked) = 2 /\ Acked[1] = "connect" /\ Acked[2] = "ack"
        BY DEF Acked
      <3>3. Len(Exchange) = 3 /\ Exchange[1] = "connect" /\ Exchange[2] = "ack" /\ Exchange[3] = "mask"
        BY DEF Exchange
      <3> HIDE DEF more
      <3>4. Len(more) = Len(Exchange) /\ \A i \in 1 .. Len(more) : more[i] = Exchange[i]
        BY <3>1, <3>2, <3>3
      <3>5. more = Exchange
        BY <1>3, <3>1, <3>4, SeqEqual
      <3> QED BY <3>5 DEF more
    <2> QED BY <2>2, <2>3, <2>4
  <1> QED BY <1>2, <1>3, <1>4

\* A byte that is cut spoils the exchange.
LEMMA CutFacts ==
    ASSUME NEW w, w = Connected \/ w = Exchange
    PROVE  Append(w, "cut") \in Seq(Pieces) /\ Append(w, "cut") # Exchange
  <1>1. w \in Seq(Pieces) /\ "cut" \in Pieces
    BY WireFacts DEF Pieces
  <1>2. Len(w) \in {1, 3} /\ Len(Exchange) = 3
    BY DEF Connected, Exchange
  <1>3. Len(Append(w, "cut")) = Len(w) + 1
    BY <1>1
  <1>4. Append(w, "cut") \in Seq(Pieces)
    BY <1>1
  <1>5. Append(w, "cut") # Exchange
    BY <1>2, <1>3
  <1> QED BY <1>4, <1>5

LEMMA AgeLimitType ==
    AgeLimit \in Nat /\ AgeLimit >= FrameTimeout /\ AgeLimit >= TxIdleGuard
  <1>1. FrameTimeout \in Nat /\ TxIdleGuard \in Nat
    BY FrameTimeoutAssumption, TxIdleGuardAssumption
  <1> QED BY <1>1 DEF AgeLimit

LEMMA InitIInv == Init => IInv
  <1> SUFFICES ASSUME Init PROVE IInv
    OBVIOUS
  <1>1. LoopType
    <2>1. age \in 0 .. AgeLimit
      BY AgeLimitType DEF Init
    <2> QED BY <2>1 DEF Init, LoopType
  <1>2. ParserInv
    BY InitParserInv DEF Init
  <1>3. TransportInv
    <2>1. wire = <<>> /\ <<>> \in Seq(Pieces)
      BY DEF Init, TransportInit
    <2> QED
      BY <2>1, WireFacts
      DEF Init, TransportInit, TransportInv, TransportType, TransportAgrees, OutcomeTells,
          BusReleased, Steps, Messages, Outcomes
  <1>4. HeardInv
    BY DEF Init, HeardInv
  <1> QED BY <1>1, <1>2, <1>3, <1>4 DEF IInv

LEMMA KeptTransportInv == TransportInv /\ UNCHANGED transport => TransportInv'
  BY DEF TransportInv, TransportType, TransportAgrees, OutcomeTells, BusReleased, transport

LEMMA EnterStep == TransportInv /\ EnterTransact => TransportInv'
  <1> SUFFICES ASSUME TransportInv, EnterTransact PROVE TransportInv'
    OBVIOUS
  <1>1. TransportType'
    BY DEF TransportInv, TransportType, EnterTransact, Steps, Messages, Outcomes
  <1>2. TransportAgrees' /\ OutcomeTells' /\ BusReleased'
    BY DEF TransportInv, TransportAgrees, OutcomeTells, BusReleased, EnterTransact
  <1> QED BY <1>1, <1>2 DEF TransportInv

LEMMA TransactStepInv == TransportInv /\ TransactStep => TransportInv'
  <1> SUFFICES ASSUME TransportInv, TransactStep PROVE TransportInv'
    OBVIOUS
  <1> USE DEF TransportInv
  <1>1. CASE RefuseBusy
    <2>1. TransportType'
      BY <1>1 DEF TransportType, RefuseBusy, Return, Steps, Outcomes
    <2>2. wire' # Exchange
      BY <1>1, WireFacts DEF TransportAgrees, RefuseBusy
    <2>3. TransportAgrees' /\ OutcomeTells' /\ BusReleased'
      BY <1>1, <2>2 DEF TransportAgrees, OutcomeTells, BusReleased, RefuseBusy, Return
    <2> QED BY <2>1, <2>3
  <1>2. CASE WriteByte
    <2>1. wire' = IF message = "connect" THEN Connected ELSE Exchange
      BY <1>2, WireFacts DEF TransportType, TransportAgrees, WriteByte, Messages
    <2>2. TransportType'
      BY <1>2, <2>1, WireFacts DEF TransportType, WriteByte, Steps
    <2>3. TransportAgrees' /\ OutcomeTells' /\ BusReleased'
      BY <1>2, <2>1 DEF TransportAgrees, OutcomeTells, BusReleased, WriteByte
    <2> QED BY <2>2, <2>3
  <1>3. CASE FinishByte
    <2>1. TransportType'
      BY <1>3 DEF TransportType, FinishByte, Return, Steps, Outcomes
    <2>2. TransportAgrees' /\ OutcomeTells' /\ BusReleased'
      BY <1>3, WireFacts
      DEF TransportType, TransportAgrees, OutcomeTells, BusReleased, FinishByte, Return
    <2> QED BY <2>1, <2>2
  <1>4. CASE GiveUpByte
    <2>1. wire' \in Seq(Pieces) /\ wire' # Exchange
      BY <1>4, CutFacts DEF TransportAgrees, GiveUpByte
    <2>2. TransportType'
      BY <1>4, <2>1 DEF TransportType, GiveUpByte, Return, Steps, Outcomes
    <2>3. TransportAgrees' /\ OutcomeTells' /\ BusReleased'
      BY <1>4, <2>1 DEF TransportAgrees, OutcomeTells, BusReleased, GiveUpByte, Return
    <2> QED BY <2>2, <2>3
  <1>5. CASE ReadAck
    <2>1. wire' = Acked
      BY <1>5, WireFacts DEF TransportAgrees, ReadAck
    <2>2. TransportType'
      BY <1>5, <2>1, WireFacts DEF TransportType, ReadAck, Steps, Messages
    <2>3. TransportAgrees' /\ OutcomeTells' /\ BusReleased'
      BY <1>5, <2>1 DEF TransportAgrees, OutcomeTells, BusReleased, ReadAck
    <2> QED BY <2>2, <2>3
  <1>6. CASE MissAck
    <2>1. TransportType'
      BY <1>6 DEF TransportType, MissAck, Return, Steps, Outcomes
    <2>2. TransportAgrees' /\ OutcomeTells' /\ BusReleased'
      BY <1>6 DEF TransportAgrees, OutcomeTells, BusReleased, MissAck, Return, Connected
    <2> QED BY <2>1, <2>2
  <1> QED BY <1>1, <1>2, <1>3, <1>4, <1>5, <1>6 DEF TransactStep

LEMMA LeaveStep == TransportInv /\ LeaveTransact => TransportInv'
  BY DEF TransportInv, TransportType, TransportAgrees, OutcomeTells, BusReleased,
         LeaveTransact, Steps

LEMMA HardwareStep == TransportInv /\ ShiftedOut => TransportInv'
  <1> SUFFICES ASSUME TransportInv, ShiftedOut PROVE TransportInv'
    OBVIOUS
  <1>1. TransportType' /\ BusReleased'
    BY DEF TransportInv, TransportType, BusReleased, ShiftedOut
  <1>2. TransportAgrees' /\ OutcomeTells'
    BY DEF TransportInv, TransportAgrees, OutcomeTells, ShiftedOut
  <1> QED BY <1>1, <1>2 DEF TransportInv

LEMMA NextIInv == IInv /\ [Next]_vars => IInv'
  <1> SUFFICES ASSUME IInv, [Next]_vars PROVE IInv'
    OBVIOUS
  <1> USE DEF IInv
  <1>1. CASE LoopStart
    <2>1. ParserInv'
      BY <1>1, ResetParserInv, KeptParserInv DEF LoopStart, GiveUpStale
    <2>2. TransportInv'
      BY <1>1, KeptTransportInv DEF LoopStart
    <2>3. LoopType'
      BY <1>1 DEF LoopType, LoopStart
    <2>4. HeardInv'
      BY <1>1 DEF HeardInv, LoopStart, GiveUpStale, ResetParser
    <2> QED BY <2>1, <2>2, <2>3, <2>4
  <1>2. ASSUME NEW byte \in Bytes, ReadByte(byte) PROVE IInv'
    <2>1. ParserInv'
      BY <1>2, ReceiveStep DEF ReadByte
    <2>2. TransportInv'
      BY <1>2, KeptTransportInv DEF ReadByte
    <2>3. age' \in 0 .. AgeLimit
      BY <1>2, AgeLimitType DEF ReadByte
    <2>4. LoopType'
      BY <1>2, <2>3 DEF LoopType, ReadByte
    <2>5. HeardInv'
      BY <1>2 DEF HeardInv, ReadByte
    <2> QED BY <2>1, <2>2, <2>4, <2>5
  <1>3. CASE LoopEnd \/ Hold
    <2>1. ParserInv' /\ TransportInv'
      BY <1>3, KeptParserInv, KeptTransportInv DEF LoopEnd, Hold
    <2>2. pc' \in {"decide", "idle"} /\ waiting' \in BOOLEAN /\ UNCHANGED <<age, unheard>>
      BY <1>3 DEF LoopType, LoopEnd, Hold
    <2>3. LoopType'
      BY <2>2 DEF LoopType
    <2>4. HeardInv'
      BY <1>3, <2>2 DEF HeardInv, LoopEnd, Hold
    <2> QED BY <2>1, <2>3, <2>4
  <1>4. CASE AwaitAnswer
    <2>1. ParserInv'
      BY <1>4, ResetParserInv, KeptParserInv DEF AwaitAnswer
    <2>2. TransportInv'
      BY <1>4, KeptTransportInv DEF AwaitAnswer
    <2>3. LoopType' /\ HeardInv'
      BY <1>4 DEF LoopType, HeardInv, AwaitAnswer
    <2> QED BY <2>1, <2>2, <2>3
  <1>5. CASE Transmit
    <2>1. ParserInv' /\ TransportInv'
      BY <1>5, KeptParserInv, EnterStep DEF Transmit
    <2>2. LoopType' /\ HeardInv'
      BY <1>5 DEF LoopType, HeardInv, Transmit, Quiet
    <2> QED BY <2>1, <2>2
  <1>6. CASE Transact
    <2>1. ParserInv' /\ TransportInv'
      BY <1>6, KeptParserInv, TransactStepInv DEF Transact
    <2>2. LoopType' /\ HeardInv'
      BY <1>6 DEF LoopType, HeardInv, Transact
    <2> QED BY <2>1, <2>2
  <1>7. CASE Transacted
    <2>1. ParserInv'
      BY <1>7, ResetParserInv, KeptParserInv DEF Transacted
    <2>2. TransportInv'
      BY <1>7, LeaveStep DEF Transacted
    <2>3. LoopType' /\ HeardInv'
      BY <1>7, FrameTimeoutAssumption, TxIdleGuardAssumption DEF LoopType, HeardInv, Transacted
    <2> QED BY <2>1, <2>2, <2>3
  <1>8. CASE Hardware
    <2>1. ParserInv' /\ TransportInv'
      BY <1>8, KeptParserInv, HardwareStep DEF Hardware
    <2>2. LoopType' /\ HeardInv'
      BY <1>8 DEF LoopType, HeardInv, Hardware, parser
    <2> QED BY <2>1, <2>2
  <1>9. CASE Tick
    <2>1. ParserInv' /\ TransportInv'
      BY <1>9, KeptParserInv, KeptTransportInv DEF Tick
    <2>2. LoopType' /\ HeardInv'
      BY <1>9, AgeLimitType, FrameTimeoutAssumption, TxIdleGuardAssumption
      DEF LoopType, HeardInv, Tick, parser
    <2> QED BY <2>1, <2>2
  <1>10. CASE UNCHANGED vars
    <2>1. ParserInv' /\ TransportInv'
      BY <1>10, KeptParserInv, KeptTransportInv DEF vars
    <2>2. LoopType' /\ HeardInv'
      BY <1>10 DEF LoopType, HeardInv, vars, parser
    <2> QED BY <2>1, <2>2
  <1> QED BY <1>1, <1>2, <1>3, <1>4, <1>5, <1>6, <1>7, <1>8, <1>9, <1>10 DEF Next

LEMMA SpecIInv == Spec => []IInv
  BY InitIInv, NextIInv, PTL DEF Spec

(* Every variable keeps to its field: the index of the parser never leaves    *)
(* rx_frame_, whatever is received, slid over and given up.                   *)
THEOREM TypeCorrect == Spec => []TypeOK
  <1>1. IInv => TypeOK
    BY DEF IInv, LoopType, ParserInv, ParserType, TransportInv, TransportType, TypeOK
  <1> QED BY <1>1, SpecIInv, PTL

(* No byte that may still begin a status is dropped, but a swallowed mask     *)
(* (receive_v1_byte_).                                                        *)
THEOREM NothingDropped == Spec => []Aligned
  BY SpecIInv, PTL DEF IInv, ParserInv

(* A header is lost as a mask only right behind C0 30 (lines 66-78).          *)
THEOREM OnlyMasksSwallowed == Spec => []PrefixIsRecent
  BY SpecIInv, PTL DEF IInv, ParserInv

(* The answer to our transaction meets an empty parser, for every idle guard  *)
(* that is no shorter than the frame timeout (lines 99, 124-126).             *)
THEOREM AnswersHeard == Spec => []AnswerHeard
  <1>1. IInv => AnswerHeard
    BY DEF IInv, HeardInv, AnswerHeard
  <1> QED BY <1>1, SpecIInv, PTL

(* transact_v1 reports what happened on the bus, wherever the UART or the     *)
(* controller fails it.                                                       *)
THEOREM OutcomesTell == Spec => []OutcomeTells
  BY SpecIInv, PTL DEF IInv, TransportInv

(* No path through transact_v1 leaves the direction pin driven.               *)
THEOREM AlwaysReleased == Spec => []BusReleased
  BY SpecIInv, PTL DEF IInv, TransportInv

LEMMA FoundStep ==
    ASSUME ParserInv, NEW byte \in Bytes, Receive(byte)
    PROVE  got' = IF Valid(LastBytes(byte)) THEN LastBytes(byte) ELSE Blank
  <1>0. Last \in 2 .. 7 /\ index \in 0 .. Last
    BY LastType DEF ParserInv, ParserType
  <1>1. CASE index < Last
    <2>1. got' = Blank
      BY <1>0, <1>1
      DEF Receive, ReadPrefix, SwallowMask, SkipByte, StoreByte, TakeStatus, Slide
    <2>2. window[Last] # Header
      BY <1>0, <1>1 DEF ParserInv, Aligned
    <2>3. LastBytes(byte)[0] = window[Last]
      BY <1>0 DEF LastBytes, Places
    <2>4. ~Valid(LastBytes(byte))
      BY <2>2, <2>3 DEF Valid
    <2> QED BY <2>1, <2>4
  <1>2. CASE index = Last
    <2>1. LastBytes(byte) = Filled(byte)
      <3>1. Filled(byte) = [i \in Places |-> IF i = Last THEN byte ELSE frame[i]]
        BY DEF ParserInv, ParserType, Filled
      <3>2. \A i \in Places : i # Last => frame[i] = window[Last - i]
        BY <1>0, <1>2 DEF ParserInv, Aligned, Places
      <3> QED BY <3>1, <3>2 DEF LastBytes
    <2>2. TakeStatus(byte) \/ Slide(byte)
      BY <1>0, <1>2 DEF Receive, ReadPrefix, SwallowMask, SkipByte, StoreByte
    <2>3. got' = IF Valid(Filled(byte)) THEN Filled(byte) ELSE Blank
      BY <2>2 DEF TakeStatus, Slide
    <2> QED BY <2>1, <2>3
  <1> QED BY <1>0, <1>1, <1>2

(* Whatever has been received before, a status is taken exactly when the last *)
(* bytes are a valid one (lines 62-95).                                       *)
THEOREM EveryStatusFound == Spec => StatusesFound
  <1> DEFINE Found ==
        \A byte \in Bytes :
            ReadByte(byte) => got' = IF Valid(LastBytes(byte)) THEN LastBytes(byte) ELSE Blank
  <1>1. IInv /\ [Next]_vars => [Found]_vars
    BY FoundStep DEF IInv, ReadByte
  <1>2. Spec => [][Found]_vars
    BY <1>1, SpecIInv, PTL DEF Spec
  <1> QED BY <1>2 DEF StatusesFound
================================================================================
