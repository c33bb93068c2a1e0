----------------------------- MODULE V2Parser_proofs -----------------------------
(* What V2Parser promises for every alphabet and every frame timeout, in two  *)
(* parts: the reader finds every frame, whatever the checks of a frame (Valid) *)
(* may be beyond the header; and the checksum among them is CRC-8/MAXIM.      *)
EXTENDS V2Parser, WellFoundedInduction, TLAPS

--------------------------------------------------------------------------------
(* The reader.                                                                *)

IInv == TypeOK /\ Aligned

LEMMA InitIInv == Init => IInv
  <1> SUFFICES ASSUME Init PROVE IInv
    OBVIOUS
  <1>1. TypeOK
    BY FrameTimeoutAssumption
    DEF Init, TypeOK, Blank, NoWindow, Places, NoByte
  <1>2. Aligned
    BY DEF Init, Aligned, Blank, NoWindow, Places, NoByte, Header
  <1> QED BY <1>1, <1>2 DEF IInv

\* What the window holds after one byte more.
LEMMA Remembered ==
    ASSUME TypeOK, NEW byte \in Bytes, Remember(byte)
    PROVE  /\ window' \in [1 .. 8 -> Bytes \cup {NoByte}]
           /\ window'[1] = byte
           /\ \A k \in 2 .. 8 : window'[k] = window[k - 1]
  BY DEF TypeOK, Remember

\* With eight bytes in the buffer and one read, the window shows all nine.
LEMMA FilledShowsWindow ==
    ASSUME IInv, NEW byte \in Bytes, Remember(byte), index = LastPlace
    PROVE  \A k \in 1 .. 8 : Filled(byte)[9 - k] = window'[k]
  <1>1. Filled(byte) = [frame EXCEPT ![8] = byte]
    BY DEF Filled, LastPlace
  <1>2. DOMAIN frame = 0 .. 8
    BY DEF IInv, TypeOK, Places
  <1>3. Filled(byte)[8] = byte
    BY <1>1, <1>2
  <1>4. ASSUME NEW k \in 2 .. 8
        PROVE  Filled(byte)[9 - k] = window[k - 1]
    <2>1. 9 - k \in 0 .. 8 /\ 9 - k # 8 /\ 9 - k < 8 /\ 8 - (9 - k) = k - 1
      OBVIOUS
    <2>2. Filled(byte)[9 - k] = frame[9 - k]
      BY <1>1, <1>2, <2>1
    <2>3. frame[9 - k] = window[8 - (9 - k)]
      BY <2>1 DEF IInv, Aligned, Places, LastPlace
    <2> QED BY <2>1, <2>2, <2>3
  <1>5. window'[1] = byte /\ \A k \in 2 .. 8 : window'[k] = window[k - 1]
    BY Remembered DEF IInv
  <1>6. ASSUME NEW k \in 1 .. 8
        PROVE  Filled(byte)[9 - k] = window'[k]
    <2>1. CASE k = 1
      BY <1>3, <1>5, <2>1
    <2>2. CASE k # 1
      <3>1. k \in 2 .. 8
        BY <2>2
      <3> QED BY <1>4, <1>5, <3>1
    <2> QED BY <2>1, <2>2
  <1> QED BY <1>6

LEMMA FilledType ==
    ASSUME TypeOK, NEW byte \in Bytes
    PROVE  Filled(byte) \in [Places -> Bytes \cup {NoByte}]
  BY DEF TypeOK, Filled

LEMMA StartStep == IInv /\ LoopStart => IInv'
  <1> SUFFICES ASSUME IInv, LoopStart PROVE IInv'
    OBVIOUS
  <1>1. TypeOK'
    BY DEF IInv, TypeOK, LoopStart, Blank, NoWindow, Places, NoByte
  <1>2. Aligned'
    BY DEF IInv, Aligned, LoopStart, Blank, NoWindow, Places, NoByte, Header
  <1> QED BY <1>1, <1>2 DEF IInv

LEMMA SkipStep ==
    ASSUME IInv, NEW byte \in Bytes, SkipByte(byte)
    PROVE  IInv'
  <1>1. Remember(byte) /\ index = 0 /\ index' = 0 /\ frame' = frame /\ byte # Header
    BY DEF SkipByte
  <1>2. /\ window' \in [1 .. 8 -> Bytes \cup {NoByte}]
        /\ window'[1] = byte
        /\ \A k \in 2 .. 8 : window'[k] = window[k - 1]
    BY <1>1, Remembered DEF IInv
  <1>3. TypeOK'
    BY <1>2, FrameTimeoutAssumption
    DEF IInv, TypeOK, SkipByte, ReadByte, Blank, Places, NoByte
  <1>4. \A k \in 1 .. 8 : window[k] # Header
    BY <1>1 DEF IInv, Aligned
  <1>5. \A k \in 1 .. 8 : window'[k] # Header
    <2> SUFFICES ASSUME NEW k \in 1 .. 8 PROVE window'[k] # Header
      OBVIOUS
    <2>1. CASE k = 1
      BY <1>1, <1>2, <2>1
    <2>2. CASE k # 1
      <3>1. k \in 2 .. 8 /\ k - 1 \in 1 .. 8
        BY <2>2
      <3> QED BY <1>2, <1>4, <3>1
    <2> QED BY <2>1, <2>2
  <1>6. \A i \in Places : frame'[i] = NoByte
    BY <1>1 DEF IInv, Aligned, Places
  <1>7. Aligned'
    BY <1>1, <1>5, <1>6 DEF Aligned, Places
  <1> QED BY <1>3, <1>7 DEF IInv

LEMMA StoreStep ==
    ASSUME IInv, NEW byte \in Bytes, StoreByte(byte)
    PROVE  IInv'
  <1>1. /\ Remember(byte) /\ index' = index + 1
        /\ frame' = [frame EXCEPT ![index] = byte]
        /\ index \in 0 .. 7
        /\ index = 0 => byte = Header
    BY DEF IInv, TypeOK, StoreByte, LastPlace
  <1>2. /\ window' \in [1 .. 8 -> Bytes \cup {NoByte}]
        /\ window'[1] = byte
        /\ \A k \in 2 .. 8 : window'[k] = window[k - 1]
    BY <1>1, Remembered DEF IInv
  <1>3. TypeOK'
    BY <1>1, <1>2, FrameTimeoutAssumption
    DEF IInv, TypeOK, StoreByte, ReadByte, Blank, Places, NoByte
  <1>4. window'[index + 1] = Header
    <2>1. CASE index = 0
      BY <1>1, <1>2, <2>1
    <2>2. CASE index # 0
      <3>1. index + 1 \in 2 .. 8 /\ (index + 1) - 1 = index
        BY <1>1, <2>2
      <3>2. window[index] = Header
        BY <1>1, <2>2 DEF IInv, Aligned
      <3> QED BY <1>2, <3>1, <3>2
    <2> QED BY <2>1, <2>2
  <1>5. \A k \in index + 2 .. 8 : window'[k] # Header
    <2> SUFFICES ASSUME NEW k \in index + 2 .. 8 PROVE window'[k] # Header
      OBVIOUS
    <2>1. k \in 2 .. 8 /\ k - 1 \in index + 1 .. 8
      BY <1>1
    <2>2. window[k - 1] # Header
      BY <2>1 DEF IInv, Aligned
    <2> QED BY <1>2, <2>1, <2>2
  <1>6. ASSUME NEW i \in Places
        PROVE  frame'[i] = IF i < index + 1 THEN window'[index + 1 - i] ELSE NoByte
    <2>1. DOMAIN frame = 0 .. 8
      BY DEF IInv, TypeOK, Places
    <2>2. frame[i] = IF i < index THEN window[index - i] ELSE NoByte
      BY DEF IInv, Aligned
    <2>3. CASE i = index
      <3>1. index + 1 - i = 1 /\ i < index + 1
        BY <1>1, <2>3
      <3>2. frame'[i] = byte
        BY <1>1, <2>1, <2>3
      <3> QED BY <1>2, <3>1, <3>2
    <2>4. CASE i < index
      <3>1. index + 1 - i \in 2 .. 8 /\ (index + 1 - i) - 1 = index - i /\ i < index + 1
        BY <1>1, <2>4 DEF Places
      <3>2. frame'[i] = frame[i]
        BY <1>1, <2>1, <2>4 DEF Places
      <3> QED BY <1>2, <2>2, <2>4, <3>1, <3>2
    <2>5. CASE i > index
      <3>1. frame'[i] = frame[i] /\ ~(i < index) /\ ~(i < index + 1)
        BY <1>1, <2>1, <2>5 DEF Places
      <3> QED BY <2>2, <3>1
    <2> QED BY <1>1, <2>3, <2>4, <2>5 DEF Places
  <1>7. Aligned'
    <2>1. index' = index + 1 /\ index' + 1 = index + 2
      BY <1>1
    <2>2. window'[index'] = Header
      BY <1>4, <2>1
    <2>3. \A k \in index' + 1 .. 8 : window'[k] # Header
      BY <1>5, <2>1
    <2>4. \A i \in Places :
              frame'[i] = IF i < index' THEN window'[index' - i] ELSE NoByte
      <3> TAKE i \in Places
      <3>1. CASE i < index + 1
        <4>1. frame'[i] = window'[index + 1 - i]
          BY <1>6, <3>1
        <4>2. i < index' /\ index' - i = index + 1 - i
          BY <1>1, <2>1, <3>1 DEF Places
        <4> QED BY <4>1, <4>2
      <3>2. CASE ~(i < index + 1)
        <4>1. frame'[i] = NoByte
          BY <1>6, <3>2
        <4>2. ~(i < index')
          BY <1>1, <2>1, <3>2 DEF Places
        <4> QED BY <4>1, <4>2
      <3> QED BY <3>1, <3>2
    <2> QED BY <2>2, <2>3, <2>4 DEF Aligned
  <1> QED BY <1>3, <1>7 DEF IInv

LEMMA TakeStep ==
    ASSUME IInv, NEW byte \in Bytes, TakeFrame(byte)
    PROVE  IInv'
  <1>1. TypeOK'
    BY FilledType, FrameTimeoutAssumption
    DEF IInv, TypeOK, TakeFrame, ReadByte, Blank, NoWindow, Places, NoByte
  <1>2. Aligned'
    BY DEF Aligned, TakeFrame, Blank, NoWindow, Places, NoByte, Header
  <1> QED BY <1>1, <1>2 DEF IInv

LEMMA SlideStep ==
    ASSUME IInv, NEW byte \in Bytes, Slide(byte)
    PROVE  IInv'
  <1> DEFINE f == Filled(byte)
  <1>1. Remember(byte) /\ index = LastPlace
    BY DEF Slide
  <1>2. f \in [Places -> Bytes \cup {NoByte}]
    BY FilledType DEF IInv
  <1>3. PICK n \in 0 .. 8 :
            /\ Keeps(f, n)
            /\ index' = n
            /\ frame' = [i \in Places |-> IF i < n THEN f[i + 9 - n] ELSE NoByte]
    BY DEF Slide
  <1>4. \A k \in 1 .. 8 : f[9 - k] = window'[k]
    BY <1>1, FilledShowsWindow
  <1>5. TypeOK'
    <2>1. window' \in [1 .. 8 -> Bytes \cup {NoByte}]
      BY <1>1, Remembered DEF IInv
    <2>2. frame' \in [Places -> Bytes \cup {NoByte}]
      <3>1. ASSUME NEW i \in Places, i < n
            PROVE  f[i + 9 - n] \in Bytes \cup {NoByte}
        <4>1. i + 9 - n \in Places
          BY <1>3, <3>1 DEF Places
        <4> QED BY <1>2, <4>1
      <3> HIDE DEF f
      <3> QED BY <1>3, <3>1
    <2> QED
      BY <1>3, <2>1, <2>2, FrameTimeoutAssumption
      DEF IInv, TypeOK, Slide, ReadByte, Blank, Places, NoByte
  <1> HIDE DEF f
  <1>6. n > 0 => window'[n] = Header
    BY <1>3, <1>4 DEF Keeps
  <1>7. \A k \in n + 1 .. 8 : window'[k] # Header
    <2> SUFFICES ASSUME NEW k \in n + 1 .. 8 PROVE window'[k] # Header
      OBVIOUS
    <2>1. k \in 1 .. 8
      BY <1>3
    <2>2. f[9 - k] # Header
      BY <1>3 DEF Keeps
    <2> QED BY <1>4, <2>1, <2>2
  <1>8. ASSUME NEW i \in Places
        PROVE  frame'[i] = IF i < n THEN window'[n - i] ELSE NoByte
    <2>1. CASE i < n
      <3>1. n - i \in 1 .. 8 /\ 9 - (n - i) = i + 9 - n
        BY <1>3, <2>1 DEF Places
      <3>2. f[i + 9 - n] = window'[n - i]
        BY <1>4, <3>1
      <3> QED BY <1>3, <2>1, <3>2
    <2>2. CASE ~(i < n)
      BY <1>3, <2>2
    <2> QED BY <2>1, <2>2
  <1>9. Aligned'
    BY <1>3, <1>6, <1>7, <1>8 DEF Aligned
  <1> QED BY <1>5, <1>9 DEF IInv

LEMMA RestStep == IInv /\ (LoopEnd \/ Tick) => IInv'
  <1>1. ASSUME IInv, LoopEnd PROVE IInv'
    BY <1>1 DEF IInv, TypeOK, Aligned, LoopEnd, Blank, Places, NoByte
  <1>2. ASSUME IInv, Tick PROVE IInv'
    BY <1>2, FrameTimeoutAssumption DEF IInv, TypeOK, Aligned, Tick
  <1> QED BY <1>1, <1>2

LEMMA NextIInv == IInv /\ [Next]_vars => IInv'
  <1> SUFFICES ASSUME IInv, [Next]_vars PROVE IInv'
    OBVIOUS
  <1>1. CASE LoopStart
    BY <1>1, StartStep
  <1>2. ASSUME NEW byte \in Bytes, Receive(byte) PROVE IInv'
    BY <1>2, SkipStep, StoreStep, TakeStep, SlideStep DEF Receive
  <1>3. CASE LoopEnd \/ Tick
    BY <1>3, RestStep
  <1>4. CASE UNCHANGED vars
    BY <1>4 DEF vars, IInv, TypeOK, Aligned
  <1> QED BY <1>1, <1>2, <1>3, <1>4 DEF Next

LEMMA SpecIInv == Spec => []IInv
  BY InitIInv, NextIInv, PTL DEF Spec

(* Every variable keeps to its field whatever is received: in particular the  *)
(* index never leaves rx_frame_, slides and timeouts included (lines 206-226). *)
THEOREM TypeCorrect == Spec => []TypeOK
  BY SpecIInv, PTL DEF IInv

(* No byte that may still begin a frame is dropped, on any sequence of bytes, *)
(* stalls and failed checks (lines 188, 206-226).                             *)
THEOREM NothingDropped == Spec => []Aligned
  BY SpecIInv, PTL DEF IInv

LEMMA FoundStep ==
    ASSUME IInv, NEW byte \in Bytes, Receive(byte)
    PROVE  got' = IF Valid(LastNine(byte)) THEN LastNine(byte) ELSE Blank
  <1>1. CASE index < 8
    <2>1. got' = Blank
      BY <1>1 DEF Receive, SkipByte, StoreByte, TakeFrame, Slide, LastPlace
    <2>2. window[8] # Header
      BY <1>1 DEF IInv, TypeOK, Aligned
    <2>3. LastNine(byte)[0] = window[8]
      BY DEF LastNine, Places
    <2>4. ~Valid(LastNine(byte))
      BY <2>2, <2>3 DEF Valid
    <2> QED BY <2>1, <2>4
  <1>2. CASE index = 8
    <2>1. LastNine(byte) = Filled(byte)
      <3>1. Filled(byte) = [i \in Places |-> IF i = 8 THEN byte ELSE frame[i]]
        BY DEF IInv, TypeOK, Filled, LastPlace
      <3>2. \A i \in Places : i # 8 => frame[i] = window[8 - i]
        BY <1>2 DEF IInv, Aligned, Places
      <3> QED BY <3>1, <3>2 DEF LastNine
    <2>2. TakeFrame(byte) \/ Slide(byte)
      BY <1>2 DEF Receive, SkipByte, StoreByte, LastPlace
    <2>3. got' = IF Valid(Filled(byte)) THEN Filled(byte) ELSE Blank
      BY <2>2 DEF TakeFrame, Slide
    <2> QED BY <2>1, <2>3
  <1> QED BY <1>1, <1>2 DEF IInv, TypeOK

(* Whatever has been received before, a frame is taken exactly when the last  *)
(* nine bytes are a valid one (lines 197-226, 361-376).                       *)
THEOREM EveryFrameFound == Spec => FramesFound
  <1> DEFINE Found ==
        \A byte \in Bytes :
            Receive(byte) => got' = IF Valid(LastNine(byte)) THEN LastNine(byte) ELSE Blank
  <1>1. IInv /\ [Next]_vars => [Found]_vars
    BY FoundStep
  <1>2. Spec => [][Found]_vars
    BY <1>1, SpecIInv, PTL DEF Spec
  <1> QED BY <1>2 DEF FramesFound

--------------------------------------------------------------------------------
(* Recursive functions over 0 .. last, by induction over a set of numbers: a  *)
(* function that meets its recursive definition exists, so the one Crc8 names *)
(* meets it.                                                                  *)

(* Induction up to a last number, over a set of numbers instead of a property. *)
LEMMA InductionUpto ==
    ASSUME NEW last \in Nat, NEW T, 0 \in T,
           \A n \in 1 .. last : n - 1 \in T => n \in T
    PROVE  \A n \in 0 .. last : n \in T
  <1> DEFINE Missing == {n \in 0 .. last : n \notin T}
             Less == {p \in Nat \X Nat : p[1] < p[2]}
  <1>1. IsWellFoundedOn(Less, Nat)
    BY NatLessThanWellFounded DEF OpToRel
  <1>2. ASSUME Missing # {} PROVE FALSE
    <2>1. Missing \subseteq Nat
      OBVIOUS
    <2>2. PICK n \in Missing : \A m \in Missing : <<m, n>> \notin Less
      <3> HIDE DEF Missing, Less
      <3>1. QED
        BY <1>1, <1>2, <2>1, WFMin
    <2>3. n \in 1 .. last
      BY <2>2
    <2>4. n - 1 \in 0 .. last /\ n - 1 \in Nat /\ n - 1 < n
      BY <2>3
    <2>5. n - 1 \notin Missing
      <3> HIDE DEF Missing
      <3>1. <<n - 1, n>> \in Less
        BY <2>3, <2>4
      <3>2. QED
        BY <2>2, <3>1
    <2>6. n - 1 \in T
      BY <2>4, <2>5
    <2>7. n \in T
      BY <2>3, <2>6
    <2>8. QED
      BY <2>2, <2>7
  <1>3. QED
    BY <1>2

(* f takes its first value at 0, and each further one by the step to there.   *)
Recursion(f, last, S, first, step) ==
    /\ f \in [0 .. last -> S]
    /\ f[0] = first
    /\ \A n \in 1 .. last : f[n] = step[n][f[n - 1]]

StepsOn(S, last) == [1 .. last -> [S -> S]]

(* There is such a function for any first value and any steps.                *)
LEMMA RecursionExists ==
    ASSUME NEW last \in Nat, NEW S, NEW first \in S, NEW step \in StepsOn(S, last)
    PROVE  \E f : Recursion(f, last, S, first, step)
  <1> DEFINE Upto(n) == {f \in [0 .. n -> S] : /\ f[0] = first
                                              /\ \A i \in 1 .. n : f[i] = step[i][f[i - 1]]}
             Reached == {n \in 0 .. last : Upto(n) # {}}
  <1> USE DEF Recursion, StepsOn
  <1>1. 0 \in Reached
    <2>1. [i \in 0 .. 0 |-> first] \in Upto(0)
      OBVIOUS
    <2>2. QED
      BY <2>1
  <1>2. ASSUME NEW n \in 1 .. last, n - 1 \in Reached
        PROVE  n \in Reached
    <2>1. PICK f \in [0 .. n - 1 -> S] :
             f[0] = first /\ \A i \in 1 .. n - 1 : f[i] = step[i][f[i - 1]]
      BY <1>2
    <2> DEFINE g == [i \in 0 .. n |-> IF i < n THEN f[i] ELSE step[n][f[n - 1]]]
    <2>2. g \in [0 .. n -> S]
      <3>1. step[n][f[n - 1]] \in S
        BY <2>1
      <3>2. QED
        BY <2>1, <3>1
    <2>3. g[0] = first /\ \A i \in 1 .. n : g[i] = step[i][g[i - 1]]
      BY <2>1
    <2> HIDE DEF g
    <2>4. g \in Upto(n)
      BY <2>2, <2>3
    <2>5. QED
      BY <2>4
  <1>3. Upto(last) # {}
    <2>1. \A n \in 0 .. last : n \in Reached
      <3> HIDE DEF Reached
      <3>1. \A n \in 1 .. last : n - 1 \in Reached => n \in Reached
        BY <1>2
      <3>2. QED
        BY <1>1, <3>1, InductionUpto
    <2>2. last \in Reached
      BY <2>1
    <2>3. QED
      BY <2>2
  <1>4. QED
    BY <1>3

(* It stays in a set its step does not leave.                                 *)
LEMMA StaysIn ==
    ASSUME NEW last \in Nat, NEW S, NEW f, f[0] \in S,
           \A n \in 1 .. last : f[n - 1] \in S => f[n] \in S
    PROVE  \A n \in 0 .. last : f[n] \in S
  <1> DEFINE Inside == {n \in 0 .. last : f[n] \in S}
  <1>1. 0 \in Inside /\ \A n \in 1 .. last : n - 1 \in Inside => n \in Inside
    OBVIOUS
  <1>2. \A n \in 0 .. last : n \in Inside
    <2> HIDE DEF Inside
    <2>1. QED
      BY <1>1, InductionUpto
  <1>3. QED
    BY <1>2

--------------------------------------------------------------------------------

Registers == SUBSET BitNumbers

LEMMA HalveType ==
    ASSUME NEW crc \in Registers
    PROVE  Halve(crc) \in Registers
  BY DEF Halve, Plus, Registers, BitNumbers

(* The inner loop of crc8_maxim_ goes through eight rounds.                   *)
LEMMA RoundsUnfold ==
    ASSUME NEW crc \in Registers
    PROVE  \E after \in [0 .. 8 -> Registers] :
              /\ after[0] = crc
              /\ \A n \in 1 .. 8 : after[n] = Halve(after[n - 1])
              /\ Rounds[crc] = after[8]
  <1> DEFINE Recurs(g) == g = [n \in 0 .. 8 |-> IF n = 0 THEN crc ELSE Halve(g[n - 1])]
             after == CHOOSE g : Recurs(g)
             step == [n \in 1 .. 8 |-> [c \in Registers |-> Halve(c)]]
  <1>1. PICK f : Recursion(f, 8, Registers, crc, step)
    <2>1. step \in StepsOn(Registers, 8) /\ 8 \in Nat
      BY HalveType DEF StepsOn
    <2>2. QED
      BY <2>1, RecursionExists
  <1>2. Recurs(f)
    BY <1>1 DEF Recursion
  <1>3. Recurs(after)
    <2> HIDE DEF Recurs
    <2>1. QED
      BY <1>2
  <1>4. Rounds[crc] = after[8]
    BY DEF Rounds, Registers
  <1> HIDE DEF after
  <1>5. after[0] = crc /\ \A n \in 1 .. 8 : after[n] = Halve(after[n - 1])
    BY <1>3
  <1>6. \A n \in 0 .. 8 : after[n] \in Registers
    BY <1>5, HalveType, StaysIn
  <1>7. QED
    BY <1>3, <1>4, <1>5, <1>6

LEMMA RoundsType ==
    ASSUME NEW crc \in Registers
    PROVE  Rounds[crc] \in Registers
  BY RoundsUnfold

LEMMA FeedType ==
    ASSUME NEW crc \in Registers, NEW byte
    PROVE  Plus(crc, Bits(byte)) \in Registers
  BY DEF Plus, Bits, Registers

(* The outer loop takes one byte after the other.                             *)
LEMMA Crc8Unfold ==
    ASSUME NEW data, NEW last \in Nat, last = Len(data)
    PROVE  \E crc \in [0 .. last -> Registers] :
              /\ crc[0] = {}
              /\ \A i \in 1 .. last : crc[i] = Rounds[Plus(crc[i - 1], Bits(data[i]))]
              /\ Crc8(data) = crc[last]
  <1> DEFINE Recurs(g) == g = [i \in 0 .. last |->
                                IF i = 0 THEN {} ELSE Rounds[Plus(g[i - 1], Bits(data[i]))]]
             crc == CHOOSE g : Recurs(g)
             step == [i \in 1 .. last |-> [c \in Registers |-> Rounds[Plus(c, Bits(data[i]))]]]
  <1>0. {} \in Registers
    BY DEF Registers
  <1>1. PICK f : Recursion(f, last, Registers, {}, step)
    <2>1. step \in StepsOn(Registers, last)
      BY FeedType, RoundsType DEF StepsOn
    <2>2. QED
      BY <1>0, <2>1, RecursionExists
  <1>2. Recurs(f)
    <2>1. f \in [0 .. last -> Registers] /\ f[0] = {}
      BY <1>1 DEF Recursion
    <2>2. ASSUME NEW i \in 1 .. last
          PROVE  f[i] = Rounds[Plus(f[i - 1], Bits(data[i]))]
      <3>1. f[i - 1] \in Registers
        BY <2>1
      <3>2. f[i] = step[i][f[i - 1]]
        BY <1>1 DEF Recursion
      <3>3. QED
        BY <3>1, <3>2
    <2>3. QED
      BY <2>1, <2>2
  <1>3. Recurs(crc)
    <2> HIDE DEF Recurs
    <2>1. QED
      BY <1>2
  <1>4. Crc8(data) = crc[last]
    BY DEF Crc8
  <1> HIDE DEF crc
  <1>5. crc[0] = {}
    BY <1>3
  <1>6. ASSUME NEW i \in 1 .. last
        PROVE  crc[i] = Rounds[Plus(crc[i - 1], Bits(data[i]))]
    <2>1. i \in 0 .. last /\ i # 0
      OBVIOUS
    <2>2. QED
      BY <1>3, <2>1, Zenon
  <1>7. \A i \in 0 .. last : crc[i] \in Registers
    <2>1. \A i \in 1 .. last : crc[i - 1] \in Registers => crc[i] \in Registers
      BY <1>6, FeedType, RoundsType
    <2>2. QED
      BY <1>0, <1>5, <2>1, StaysIn
  <1>8. crc \in [0 .. last -> Registers]
    BY <1>3, <1>7
  <1>9. QED
    BY <1>4, <1>5, <1>6, <1>8

Polynomials == SUBSET Int

LEMMA DivideType ==
    ASSUME NEW polynomial \in Polynomials, NEW power \in Int
    PROVE  Divide(polynomial, power) \in Polynomials
  <1>1. {power - 8 + g : g \in Generator} \subseteq Int
    BY DEF Generator
  <1>2. \A a, b : a \subseteq Int /\ b \subseteq Int => Plus(a, b) \subseteq Int
    BY DEF Plus
  <1>3. polynomial \subseteq Int
    BY DEF Polynomials
  <1>4. Divide(polynomial, power) \subseteq Int
    <2> HIDE DEF Polynomials
    <2>1. QED
      BY <1>1, <1>2, <1>3, Zenon DEF Divide
  <1>5. QED
    BY <1>4 DEF Polynomials

(* So does the long division, one power after the other.                      *)
LEMMA RemainderUnfold ==
    ASSUME NEW data, NEW last \in Nat, last = 8 * Len(data), Polynomial(data) \in Polynomials
    PROVE  \E rest \in [0 .. last -> Polynomials] :
              /\ rest[0] = Polynomial(data)
              /\ \A n \in 1 .. last : rest[n] = Divide(rest[n - 1], last + 8 - n)
              /\ Remainder(data) = rest[last]
  <1> DEFINE Recurs(g) == g = [n \in 0 .. last |->
                                IF n = 0 THEN Polynomial(data)
                                ELSE Divide(g[n - 1], last + 8 - n)]
             rest == CHOOSE g : Recurs(g)
             step == [n \in 1 .. last |-> [p \in Polynomials |-> Divide(p, last + 8 - n)]]
  <1>1. PICK f : Recursion(f, last, Polynomials, Polynomial(data), step)
    <2>1. step \in StepsOn(Polynomials, last)
      <3>1. \A n \in 1 .. last : last + 8 - n \in Int
        OBVIOUS
      <3>2. QED
        BY <3>1, DivideType DEF StepsOn
    <2> HIDE DEF step
    <2>2. QED
      BY <2>1, RecursionExists
  <1>2. Recurs(f)
    <2>1. f \in [0 .. last -> Polynomials] /\ f[0] = Polynomial(data)
      BY <1>1 DEF Recursion
    <2>2. ASSUME NEW n \in 1 .. last
          PROVE  f[n] = Divide(f[n - 1], last + 8 - n)
      <3>1. f[n - 1] \in Polynomials
        BY <2>1
      <3>2. f[n] = step[n][f[n - 1]]
        BY <1>1 DEF Recursion
      <3>3. QED
        BY <3>1, <3>2
    <2>3. QED
      BY <2>1, <2>2
  <1>3. Recurs(rest)
    <2> HIDE DEF Recurs
    <2>1. QED
      BY <1>2
  <1>4. Remainder(data) = rest[last]
    BY DEF Remainder
  <1> HIDE DEF rest
  <1>5. rest[0] = Polynomial(data)
    BY <1>3
  <1>6. ASSUME NEW n \in 1 .. last
        PROVE  rest[n] = Divide(rest[n - 1], last + 8 - n)
    <2>1. n \in 0 .. last /\ n # 0
      OBVIOUS
    <2>2. QED
      BY <1>3, <2>1, Zenon
  <1>7. \A n \in 0 .. last : rest[n] \in Polynomials
    <2>1. \A n \in 1 .. last : rest[n - 1] \in Polynomials => rest[n] \in Polynomials
      BY <1>6, DivideType
    <2>2. QED
      BY <1>5, <2>1, StaysIn
  <1>8. rest \in [0 .. last -> Polynomials]
    BY <1>3, <1>7
  <1>9. QED
    BY <1>4, <1>5, <1>6, <1>8

--------------------------------------------------------------------------------

(* A register holds the powers from top downwards.                            *)
Powers(crc, top) == {top - k : k \in crc}

LEMMA InPowers ==
    ASSUME NEW crc, NEW top, NEW p \in Powers(crc, top)
    PROVE  \E k \in crc : p = top - k
  BY Zenon DEF Powers

LEMMA PowersPlus ==
    ASSUME NEW a \in Registers, NEW b \in Registers, NEW top \in Int
    PROVE  Powers(Plus(a, b), top) = Plus(Powers(a, top), Powers(b, top))
  <1>1. \A k \in a \cup b : k \in Int
    BY DEF Registers, BitNumbers
  <1>2. \A k, l \in a \cup b : top - k = top - l => k = l
    BY <1>1
  <1>3. QED
    BY <1>2 DEF Powers, Plus

LEMMA PlusAssociates ==
    ASSUME NEW a, NEW b, NEW c
    PROVE  Plus(a, Plus(b, c)) = Plus(Plus(a, b), c)
  BY DEF Plus

LEMMA PlusNothing ==
    ASSUME NEW a
    PROVE  Plus(a, {}) = a /\ Plus({}, a) = a
  BY DEF Plus

(* What is added twice is gone.                                               *)
LEMMA PlusCancels ==
    ASSUME NEW a, NEW b, NEW c, NEW d
    PROVE  Plus(Plus(Plus(a, b), c), Plus(a, d)) = Plus(Plus(b, d), c)
  BY DEF Plus

(* One round of the inner loop is one step of the division: what falls out of *)
(* the register is the power divided, 8Ch the rest of the generator.          *)
LEMMA RoundDivides ==
    ASSUME NEW crc \in Registers, NEW top \in Int, NEW tail \in Polynomials, top \notin tail
    PROVE  Divide(Plus(Powers(crc, top), tail), top) = Plus(Powers(Halve(crc), top - 1), tail)
  <1> DEFINE down == {k - 1 : k \in crc \ {0}}
             low == Powers(crc \ {0}, top)
             taps == {top - 3, top - 4, top - 8}
  <1>1. \A k \in crc : k \in Int
    BY DEF Registers, BitNumbers
  <1>2. Powers(down, top - 1) = low
    <2>1. \A k \in crc : top - 1 - (k - 1) = top - k
      BY <1>1
    <2>2. Powers(down, top - 1) = {top - 1 - (k - 1) : k \in crc \ {0}}
      BY Zenon DEF Powers
    <2>3. {top - 1 - (k - 1) : k \in crc \ {0}} = {top - k : k \in crc \ {0}}
      BY <2>1, Zenon
    <2>4. QED
      BY <2>2, <2>3 DEF Powers
  <1>3. down \in Registers
    BY DEF Registers, BitNumbers
  <1>4. CASE 0 \in crc
    <2>1. Powers(crc, top) = Plus({top}, low)
      <3>1. top \notin low
        BY <1>1 DEF Powers
      <3>2. Powers(crc, top) = {top} \cup low
        BY <1>1, <1>4 DEF Powers
      <3> HIDE DEF low
      <3>3. QED
        BY <3>1, <3>2 DEF Plus
    <2>2. top \in Plus(Powers(crc, top), tail)
      <3>1. top \in Powers(crc, top)
        BY <1>4 DEF Powers
      <3>2. QED
        BY <3>1 DEF Plus
    <2>3. {top - 8 + g : g \in Generator} = Plus({top}, taps)
      BY DEF Generator, Plus
    <2>4. Powers(Halve(crc), top - 1) = Plus(low, taps)
      <3>1. Halve(crc) = Plus(down, {2, 3, 7})
        BY <1>4 DEF Halve
      <3>2. {2, 3, 7} \in Registers
        BY DEF Registers, BitNumbers
      <3>3. Powers({2, 3, 7}, top - 1) = taps
        <4>1. Powers({2, 3, 7}, top - 1) = {top - 1 - 2, top - 1 - 3, top - 1 - 7}
          BY Zenon DEF Powers
        <4>2. top - 1 - 2 = top - 3 /\ top - 1 - 3 = top - 4 /\ top - 1 - 7 = top - 8
          OBVIOUS
        <4>3. QED
          BY <4>1, <4>2
      <3> HIDE DEF down, low, taps
      <3>4. QED
        BY <1>2, <1>3, <3>1, <3>2, <3>3, PowersPlus
    <2>5. Divide(Plus(Powers(crc, top), tail), top)
            = Plus(Plus(Powers(crc, top), tail), Plus({top}, taps))
      <3> HIDE DEF taps
      <3>1. QED
        BY <2>2, <2>3 DEF Divide
    <2> HIDE DEF low, taps
    <2>6. QED
      BY <2>1, <2>4, <2>5, PlusCancels
  <1>5. CASE 0 \notin crc
    <2>1. top \notin Plus(Powers(crc, top), tail)
      BY <1>1, <1>5 DEF Plus, Powers
    <2>2. crc \ {0} = crc
      BY <1>5
    <2>3. Halve(crc) = down
      BY <1>5 DEF Halve
    <2>4. QED
      BY <1>2, <2>1, <2>2, <2>3 DEF Divide
  <1>6. QED
    BY <1>4, <1>5

(* So the inner loop is eight of them.                                        *)
LEMMA RoundsDivide ==
    ASSUME NEW crc \in Registers, NEW top \in Int, NEW tail \in Polynomials,
           \A p \in tail : p < top - 7,
           NEW first \in Nat, NEW rest, rest[first] = Plus(Powers(crc, top), tail),
           \A r \in 1 .. 8 : rest[first + r] = Divide(rest[first + r - 1], top + 1 - r)
    PROVE  rest[first + 8] = Plus(Powers(Rounds[crc], top - 8), tail)
  <1>1. PICK after \in [0 .. 8 -> Registers] :
           /\ after[0] = crc
           /\ \A n \in 1 .. 8 : after[n] = Halve(after[n - 1])
           /\ Rounds[crc] = after[8]
    BY RoundsUnfold
  <1> DEFINE Divided == {r \in 0 .. 8 : rest[first + r] = Plus(Powers(after[r], top - r), tail)}
  <1>2. 0 \in Divided
    <2>1. first + 0 = first /\ top - 0 = top
      OBVIOUS
    <2>2. QED
      BY <1>1, <2>1
  <1>3. ASSUME NEW r \in 1 .. 8, r - 1 \in Divided
        PROVE  r \in Divided
    <2>1. /\ r - 1 \in 0 .. 8
          /\ first + (r - 1) = first + r - 1
          /\ top - (r - 1) = top + 1 - r
          /\ top + 1 - r - 1 = top - r
          /\ top + 1 - r \in Int
      OBVIOUS
    <2>2. rest[first + r - 1] = Plus(Powers(after[r - 1], top + 1 - r), tail)
      BY <1>3, <2>1
    <2>3. top + 1 - r \notin tail
      <3>1. ~ (top + 1 - r < top - 7)
        OBVIOUS
      <3>2. QED
        BY <3>1
    <2>4. after[r - 1] \in Registers /\ after[r] = Halve(after[r - 1])
      BY <1>1, <2>1
    <2>5. rest[first + r] = Divide(rest[first + r - 1], top + 1 - r)
      OBVIOUS
    <2>6. Divide(Plus(Powers(after[r - 1], top + 1 - r), tail), top + 1 - r)
            = Plus(Powers(Halve(after[r - 1]), top + 1 - r - 1), tail)
      BY <2>1, <2>3, <2>4, RoundDivides
    <2>7. rest[first + r] = Plus(Powers(after[r], top - r), tail)
      BY <2>1, <2>2, <2>4, <2>5, <2>6
    <2>8. QED
      BY <2>7
  <1>4. \A r \in 0 .. 8 : r \in Divided
    <2> HIDE DEF Divided
    <2>1. \A r \in 1 .. 8 : r - 1 \in Divided => r \in Divided
      BY <1>3
    <2>2. QED
      BY <1>2, <2>1, InductionUpto
  <1>5. 8 \in Divided
    BY <1>4
  <1>6. QED
    BY <1>1, <1>5

(* What the division has still to take in behind the first i bytes.           *)
Behind(data, i) ==
    UNION {Powers(Bits(data[j]), 8 * (Len(data) - j) + 15) : j \in i + 1 .. Len(data)}

LEMMA BehindBelow ==
    ASSUME NEW data, Len(data) \in Nat, NEW i \in 0 .. Len(data), NEW p \in Behind(data, i)
    PROVE  p \in Int /\ p < 8 * (Len(data) - i) + 8
  <1>1. PICK j \in i + 1 .. Len(data) : p \in Powers(Bits(data[j]), 8 * (Len(data) - j) + 15)
    BY DEF Behind
  <1>2. PICK k \in Bits(data[j]) : p = (8 * (Len(data) - j) + 15) - k
    BY <1>1, InPowers
  <1>3. k \in 0 .. 7
    BY <1>2 DEF Bits, BitNumbers
  <1> HIDE DEF Behind
  <1>4. QED
    BY <1>2, <1>3

LEMMA BehindSplits ==
    ASSUME NEW data, Len(data) \in Nat, NEW i \in 1 .. Len(data)
    PROVE  Behind(data, i - 1)
             = Plus(Powers(Bits(data[i]), 8 * (Len(data) - i) + 15), Behind(data, i))
  <1> DEFINE Part(j) == Powers(Bits(data[j]), 8 * (Len(data) - j) + 15)
  <1>1. i - 1 + 1 .. Len(data) = {i} \cup (i + 1 .. Len(data))
    OBVIOUS
  <1>2. Behind(data, i - 1) = Part(i) \cup Behind(data, i)
    <2> HIDE DEF Part
    <2>1. Behind(data, i - 1) = UNION {Part(j) : j \in i - 1 + 1 .. Len(data)}
      BY DEF Behind, Part
    <2>2. Behind(data, i) = UNION {Part(j) : j \in i + 1 .. Len(data)}
      BY DEF Behind, Part
    <2>3. UNION {Part(j) : j \in {i} \cup (i + 1 .. Len(data))}
            = Part(i) \cup UNION {Part(j) : j \in i + 1 .. Len(data)}
      BY Zenon
    <2>4. QED
      BY <1>1, <2>1, <2>2, <2>3
  <1>3. ASSUME NEW p \in Part(i), p \in Behind(data, i) PROVE FALSE
    <2>1. PICK k \in Bits(data[i]) : p = (8 * (Len(data) - i) + 15) - k
      BY InPowers
    <2>2. k \in 0 .. 7
      BY DEF Bits, BitNumbers
    <2>3. p < 8 * (Len(data) - i) + 8
      BY <1>3, BehindBelow
    <2>4. QED
      BY <2>1, <2>2, <2>3
  <1>4. QED
    <2> HIDE DEF Part
    <2>1. Behind(data, i - 1) = Plus(Part(i), Behind(data, i))
      BY <1>2, <1>3, Zenon DEF Plus
    <2>2. QED
      BY <2>1 DEF Part

LEMMA AllBehind ==
    ASSUME NEW data, Len(data) \in Nat, DOMAIN data = 1 .. Len(data)
    PROVE  Polynomial(data) = Behind(data, 0)
  <1> DEFINE Part(j) == {8 * (Len(data) - j) + 15 - k : k \in Bits(data[j])}
  <1>1. ASSUME NEW j \in DOMAIN data
        PROVE  Part(j) = Powers(Bits(data[j]), 8 * (Len(data) - j) + 15)
    <2> DEFINE low == 8 * (Len(data) - j)
    <2>1. low \in Int
      OBVIOUS
    <2>2. \A k \in Bits(data[j]) : k \in Int
      BY DEF Bits, BitNumbers
    <2> HIDE DEF low
    <2>3. \A k \in Bits(data[j]) : low + 15 - k = (low + 15) - k
      BY <2>1, <2>2
    <2>4. {low + 15 - k : k \in Bits(data[j])} = {(low + 15) - k : k \in Bits(data[j])}
      BY <2>3, Zenon
    <2>5. QED
      BY <2>4, Zenon DEF Powers, low
  <1>2. 0 + 1 .. Len(data) = DOMAIN data
    OBVIOUS
  <1>3. Polynomial(data) = UNION {Part(j) : j \in DOMAIN data}
    BY Zenon DEF Polynomial
  <1>4. Behind(data, 0) = UNION {Powers(Bits(data[j]), 8 * (Len(data) - j) + 15) : j \in DOMAIN data}
    BY <1>2, Zenon DEF Behind
  <1> HIDE DEF Part
  <1>5. QED
    BY <1>1, <1>3, <1>4, Zenon

(* After i bytes, what is left of the division is the register, at the powers *)
(* of the next byte, and the bytes still to come.  crc8_maxim_ is the division.*)
LEMMA Crc8Divides ==
    ASSUME NEW data, NEW len \in Nat, len = Len(data), DOMAIN data = 1 .. len
    PROVE  Crc8(data) = MaximCrc(data)
  <1> DEFINE last == 8 * len
  <1>1. last \in Nat
    OBVIOUS
  <1>2. Polynomial(data) = Behind(data, 0)
    BY AllBehind
  <1>3. \A i \in 0 .. len : Behind(data, i) \in Polynomials
    BY BehindBelow DEF Polynomials
  <1>4. PICK crc \in [0 .. len -> Registers] :
           /\ crc[0] = {}
           /\ \A i \in 1 .. len : crc[i] = Rounds[Plus(crc[i - 1], Bits(data[i]))]
           /\ Crc8(data) = crc[len]
    BY Crc8Unfold
  <1>5. PICK rest \in [0 .. last -> Polynomials] :
           /\ rest[0] = Polynomial(data)
           /\ \A n \in 1 .. last : rest[n] = Divide(rest[n - 1], last + 8 - n)
           /\ Remainder(data) = rest[last]
    <2>1. Polynomial(data) \in Polynomials
      BY <1>2, <1>3
    <2>2. last = 8 * Len(data)
      OBVIOUS
    <2> HIDE DEF last
    <2>3. QED
      BY <1>1, <2>1, <2>2, RemainderUnfold
  <1> DEFINE Taken == {i \in 0 .. len :
                         rest[8 * i] = Plus(Powers(crc[i], 8 * (len - i) + 7), Behind(data, i))}
  <1>6. 0 \in Taken
    <2>1. Powers({}, 8 * (len - 0) + 7) = {}
      BY DEF Powers
    <2>2. 0 \in 0 .. len /\ 8 * 0 = 0
      BY <1>1
    <2>3. QED
      BY <1>2, <1>4, <1>5, <2>1, <2>2, PlusNothing
  <1>7. ASSUME NEW i \in 1 .. len, i - 1 \in Taken
        PROVE  i \in Taken
    <2> DEFINE top == 8 * (len - i) + 15
               first == 8 * i - 8
               tail == Behind(data, i)
               fed == Plus(crc[i - 1], Bits(data[i]))
    <2>1. /\ i \in 0 .. len
          /\ i - 1 \in 0 .. len
          /\ top \in Int
          /\ first \in Nat
          /\ 8 * (i - 1) = first
          /\ 8 * (len - (i - 1)) + 7 = top
          /\ first + 8 = 8 * i
          /\ top - 8 = 8 * (len - i) + 7
          /\ top - 7 = 8 * (len - i) + 8
      BY <1>1
    <2>2. crc[i - 1] \in Registers /\ Bits(data[i]) \in Registers
      BY <1>4, <2>1 DEF Bits, Registers
    <2>3. rest[first] = Plus(Powers(fed, top), tail)
      <3>1. rest[first] = Plus(Powers(crc[i - 1], top), Behind(data, i - 1))
        BY <1>7, <2>1
      <3>2. Behind(data, i - 1) = Plus(Powers(Bits(data[i]), top), tail)
        BY <1>1, BehindSplits
      <3>3. Powers(fed, top) = Plus(Powers(crc[i - 1], top), Powers(Bits(data[i]), top))
        BY <2>1, <2>2, PowersPlus
      <3> HIDE DEF first, top, fed, tail
      <3>4. QED
        BY <3>1, <3>2, <3>3, PlusAssociates
    <2>4. tail \in Polynomials /\ \A p \in tail : p < top - 7
      BY <1>1, <1>3, <2>1, BehindBelow
    <2>5. ASSUME NEW r \in 1 .. 8
          PROVE  rest[first + r] = Divide(rest[first + r - 1], top + 1 - r)
      <3>1. first + r \in 1 .. last /\ last + 8 - (first + r) = top + 1 - r
        BY <1>1
      <3>2. QED
        BY <1>5, <3>1
    <2>6. fed \in Registers
      BY <2>2, FeedType
    <2>7. rest[first + 8] = Plus(Powers(Rounds[fed], top - 8), tail)
      <3> HIDE DEF first, top, fed, tail
      <3>1. QED
        BY <2>1, <2>3, <2>4, <2>5, <2>6, RoundsDivide
    <2>8. Rounds[fed] = crc[i]
      BY <1>4
    <2>9. QED
      BY <2>1, <2>7, <2>8
  <1>8. len \in Taken
    <2> HIDE DEF Taken
    <2>1. \A i \in 1 .. len : i - 1 \in Taken => i \in Taken
      BY <1>7
    <2>2. \A i \in 0 .. len : i \in Taken
      BY <1>1, <1>6, <2>1, InductionUpto
    <2>3. QED
      BY <1>1, <2>2
  <1>9. Remainder(data) = Powers(crc[len], 7)
    <2>1. 8 * (len - len) + 7 = 7
      BY <1>1
    <2>2. Behind(data, len) = {}
      BY <1>1 DEF Behind
    <2>3. QED
      BY <1>5, <1>8, <2>1, <2>2, PlusNothing
  <1>10. MaximCrc(data) = crc[len]
    <2>1. \A k \in crc[len] : k \in Int /\ 7 - (7 - k) = k
      BY <1>1, <1>4 DEF Registers, BitNumbers
    <2>2. QED
      BY <1>9, <2>1 DEF MaximCrc, Powers
  <1>11. QED
    BY <1>4, <1>10

(* crc8_maxim_ is CRC-8/MAXIM, as its comment has it, for data of any length  *)
(* (lines 230-245 of protocol_v2.cpp).                                        *)
THEOREM Crc8IsMaxim ==
    ASSUME NEW S, NEW data \in Seq(S)
    PROVE  Crc8(data) = MaximCrc(data)
  BY Crc8Divides

(* So it is for the six bytes of every frame to be checked (line 368).        *)
THEOREM ChecksumIsMaxim == Spec => []ChecksumAsDocumented
  <1>1. ChecksumAsDocumented
    <2> DEFINE data == <<frame[1], frame[2], frame[3], frame[4], frame[5], frame[6]>>
               S == {frame[1], frame[2], frame[3], frame[4], frame[5], frame[6]}
    <2>1. data \in Seq(S)
      OBVIOUS
    <2> HIDE DEF data, S
    <2>2. Crc8(data) = MaximCrc(data)
      BY <2>1, Crc8IsMaxim
    <2>3. QED
      BY <2>2 DEF ChecksumAsDocumented, data
  <1>2. QED
    BY <1>1, PTL
================================================================================
