----------------------------- MODULE V2Driver_proofs -----------------------------
(* What holds of the V2 driver for every set of zones and controllers, every  *)
(* configuration and every length of its time limits.                         *)
EXTENDS V2Driver, WellFoundedInduction, TLAPS

LEMMA HorizonType == Horizon \in [Clocks -> Nat]
BY TimesAssumption DEF Horizon, Clocks

LEMMA BootAgesType == BootAges \in Ages
BY HorizonType DEF BootAges, Ages

(* Ages stay below their horizons when time passes or an event restarts them. *)
LEMMA OlderInAges ==
    ASSUME NEW a \in Ages
    PROVE  [c \in Clocks |-> Older(a[c], Horizon[c])] \in Ages
BY HorizonType DEF Ages, Older

LEMMA RestartInAges ==
    ASSUME NEW a \in Ages, NEW k \in Clocks, NEW l \in Clocks, NEW n \in {0, a[l]}
    PROVE  /\ [a EXCEPT ![k] = 0] \in Ages
           /\ [a EXCEPT ![k] = 0, ![l] = 0] \in Ages
           /\ k # l => [a EXCEPT ![k] = 0, ![l] = n] \in Ages
<1>1. /\ [a EXCEPT ![k] = 0] \in [Clocks -> Nat]
      /\ [a EXCEPT ![k] = 0, ![l] = 0] \in [Clocks -> Nat]
      /\ [a EXCEPT ![k] = 0, ![l] = n] \in [Clocks -> Nat]
  BY DEF Ages
<1>2. ASSUME NEW c \in Clocks
      PROVE  /\ [a EXCEPT ![k] = 0][c] <= Horizon[c]
             /\ [a EXCEPT ![k] = 0, ![l] = 0][c] <= Horizon[c]
             /\ k # l => [a EXCEPT ![k] = 0, ![l] = n][c] <= Horizon[c]
  BY HorizonType DEF Ages
<1>3. QED
  BY <1>1, <1>2 DEF Ages

(* A nonempty set of zones has a lowest one, which is one of them.            *)
LEMMA LowestZoneIn ==
    ASSUME NEW zones \in SUBSET Zones, zones # {}
    PROVE  LowestZone(zones) \in zones
<1> DEFINE Less == {p \in Nat \X Nat : p[1] < p[2]}
<1>1. zones \subseteq Nat
  BY ZonesAssumption
<1>2. IsWellFoundedOn(Less, Nat)
  BY NatLessThanWellFounded DEF OpToRel
<1>3. \A z, other \in zones : other < z => <<other, z>> \in Less
  BY <1>1
<1> HIDE DEF Less
<1>4. PICK z \in zones : \A other \in zones : ~ (<<other, z>> \in Less)
  BY <1>1, <1>2, WFMin
<1>5. \A other \in zones : ~(other < z)
  BY <1>3, <1>4
<1>6. \A other \in zones : z <= other
  BY <1>1, <1>5
<1>7. QED
  BY <1>6 DEF LowestZone

(* What may be toggled is a zone whose requested state is not its last one.   *)
LEMMA DiffDiffers ==
    ASSUME NEW zone \in Diff
    PROVE  (zone \in desired) # (zone \in lastMask)
BY DEF Diff, SpillGuard, Flip

LEMMA DiffInZones ==
    ASSUME desired \in Masks, lastMask \in Masks
    PROVE  Diff \in SUBSET Zones
BY DEF Diff, SpillGuard, Flip, Masks

(* What is stored is an identity, and so is what a restart makes of it.       *)
LEMMA LoadedType ==
    ASSUME NEW flash \in Storable \cup {NoSource}, NEW loaded \in Loadable(flash)
    PROVE  /\ loaded \in Storable \cup {NoSource}
           /\ loaded \in Identities
           /\ loaded.node \in Nat
           /\ loaded # NoSource => loaded = flash
BY SourcesAssumption DEF Loadable, Storable, Identities, NoSource

LEMMA SourceType ==
    ASSUME NEW f \in Statuses
    PROVE  /\ f.source \in Identities
           /\ f.source.node \in Nat /\ f.source.arg0 \in Nat
           /\ f.source = [node |-> f.source.node, arg0 |-> f.source.arg0]
           /\ f.seq \in Seqs /\ f.mask \in Masks
<1>1. f.source \in Sources /\ f.seq \in Seqs /\ f.mask \in Masks
  BY DEF Statuses
<1>2. f.source \in [node : Nat, arg0 : Nat]
  BY <1>1, SourcesAssumption
<1>3. QED
  BY <1>1, <1>2 DEF Identities

(* What the history may record keeps its shape.                               *)
LEMMA FreshType == Fresh \in Histories
<1>1. 0 \in 0 .. Confirmations
  BY V2NumbersAssumption
<1>2. QED
  BY <1>1 DEF Fresh, Histories, Identities

LEMMA GivenUpType ==
    ASSUME NEW g \in Histories
    PROVE  [g EXCEPT !.toggle = GivenUp(@)] \in Histories
BY DEF Histories, GivenUp

LEMMA SettledType ==
    ASSUME NEW g \in Histories, NEW b \in BOOLEAN
    PROVE  Settled(g.toggle, b) \in {"settled", "flying", "lost"}
BY DEF Histories, Settled

LEMMA HeardType ==
    ASSUME h \in Histories, NEW f \in Statuses
    PROVE  /\ HeardWith(f) \in 0 .. Confirmations
           /\ [h EXCEPT !.heard = HeardWith(f), !.from = f.source] \in Histories
           /\ \A t \in {"settled", "flying", "lost"} :
                 [h EXCEPT !.heard = HeardWith(f), !.from = f.source, !.toggle = t] \in Histories
<1>1. h.heard \in 0 .. Confirmations
  BY DEF Histories
<1>2. HeardWith(f) \in 0 .. Confirmations
  BY <1>1, V2NumbersAssumption DEF HeardWith
<1>3. QED
  BY <1>2, SourceType DEF Histories

--------------------------------------------------------------------------------

(* The first and the lowest value of each counter.                            *)
LEMMA FirstCounts ==
    /\ 0 \in 0 .. RxCap /\ 0 \in 0 .. OfflineThreshold /\ 0 \in 0 .. (MismatchThreshold - 1)
    /\ 0 \in 0 .. Confirmations /\ 1 \in 0 .. Confirmations
    /\ 1 \in Seqs /\ 0 \in Seqs \cup {0} /\ 0 \in Nat /\ 1 \in Nat
    /\ {} \in Masks
BY V2NumbersAssumption DEF Seqs, Masks

LEMMA TakeFrameType ==
    ASSUME TypeOK, TakeFrame
    PROVE  buffered' \in 0 .. RxCap
BY V2NumbersAssumption DEF TakeFrame, TypeOK

(* Type correctness, of the first state and of every step.                    *)
LEMMA InitType == Init => TypeOK
<1> SUFFICES ASSUME Init PROVE TypeOK
  OBVIOUS
<1>1. /\ restored \in Storable \cup {NoSource} /\ candidate \in Identities /\ nodeAddr \in Nat
      /\ stored \in Storable \cup {NoSource}
  BY LoadedType DEF Init
<1>2. age \in Ages /\ h \in Histories
  BY BootAgesType, FreshType DEF Init
<1>3. timeLeft \in [{"retry", "de"} -> Nat]
  BY DEF Init
<1>4. QED
  BY <1>1, <1>2, <1>3, FirstCounts DEF Init, TypeOK, PCs

(* A restart, like the first start, leaves every field in its type.           *)
LEMMA RebootType == TypeOK /\ Reboot => TypeOK'
<1> SUFFICES ASSUME TypeOK, Reboot PROVE TypeOK'
  OBVIOUS
<1>1. /\ restored' \in Storable \cup {NoSource} /\ candidate' \in Identities /\ nodeAddr' \in Nat
      /\ stored' \in Storable \cup {NoSource}
  BY LoadedType DEF Reboot, TypeOK
<1>2. age' \in Ages /\ h' \in Histories
  BY BootAgesType, FreshType DEF Reboot
<1>3. timeLeft' \in [{"retry", "de"} -> Nat]
  BY DEF Reboot
<1>4. QED
  BY <1>1, <1>2, <1>3, FirstCounts DEF Reboot, TypeOK, PCs

(* What send_request_ does to the fields it writes.                           *)
LEMMA SendType ==
    ASSUME TypeOK, NEW bits \in Masks, Send(bits)
    PROVE  /\ txBits' \in Masks /\ txSeq' \in Seqs /\ lastTxSeq' \in Seqs \cup {0}
           /\ de' \in BOOLEAN /\ dePending' \in BOOLEAN
           /\ timeLeft' \in [{"retry", "de"} -> Nat]
           /\ pc' \in PCs
<1>1. txSeq' \in Seqs
  BY V2NumbersAssumption DEF Send, NextSeq, Seqs, TypeOK
<1>2. timeLeft' \in [{"retry", "de"} -> Nat]
  BY V2NumbersAssumption DEF Send, TypeOK
<1>3. QED
  BY <1>1, <1>2 DEF Send, TypeOK, PCs, direction

LEMMA DeferType ==
    ASSUME TypeOK, Defer
    PROVE  /\ txBits' \in Masks /\ txSeq' \in Seqs /\ lastTxSeq' \in Seqs \cup {0}
           /\ de' \in BOOLEAN /\ dePending' \in BOOLEAN
           /\ timeLeft' \in [{"retry", "de"} -> Nat]
           /\ pc' \in PCs
BY V2NumbersAssumption DEF Defer, TypeOK, PCs, direction

(* What locking on a controller, and saving it, does to the identity.         *)
LEMMA LockType ==
    ASSUME TypeOK, NEW f \in Statuses, LockOn(f)
    PROVE  /\ candidate' \in Identities /\ confirmations' \in Nat
           /\ locked' = TRUE /\ nodeAddr' \in Nat /\ learnedArg0' \in Nat
           /\ restored' \in Storable \cup {NoSource} /\ stored' \in Storable \cup {NoSource}
<1>1. restored' \in Storable \cup {NoSource} /\ stored' \in Storable \cup {NoSource}
  BY DEF LockOn, Save, TypeOK, memory
<1>2. candidate' \in Identities /\ nodeAddr' \in Nat /\ learnedArg0' \in Nat
  BY SourceType DEF LockOn
<1>3. confirmations' \in Nat
  BY DEF LockOn, ConfirmationsWith, TypeOK
<1>4. QED
  BY <1>1, <1>2, <1>3 DEF LockOn

LEMMA StepType == TypeOK /\ [Next]_vars => TypeOK'
<1> SUFFICES ASSUME TypeOK, [Next]_vars PROVE TypeOK'
  OBVIOUS
<1> USE DEF TypeOK, link, intent, view, identity, memory, direction, clocks
<1>1. CASE UNCHANGED vars
  BY <1>1 DEF vars
<1>2. CASE RequestRefresh
  BY <1>2 DEF RequestRefresh
<1>3. ASSUME NEW zone \in Zones, NEW on \in BOOLEAN, QueueZoneState(zone, on) PROVE TypeOK'
  <2>1. h' \in Histories
    BY <1>3 DEF QueueZoneState, Histories
  <2>2. desired' \in Masks
    BY <1>3 DEF QueueZoneState, Masks
  <2>3. QED
    BY <1>3, <2>1, <2>2 DEF QueueZoneState
<1>4. CASE LoopExpires
  BY <1>4, GivenUpType DEF LoopExpires, ServiceFlowControl, PastTimeouts, PCs, Masks
<1>5. CASE LoopStart
  BY <1>5 DEF LoopStart, ServiceFlowControl, PastTimeouts, PCs
<1>6. CASE ResponseMissed
  <2>1. misses' \in 0 .. OfflineThreshold
    BY <1>6, V2NumbersAssumption DEF ResponseMissed
  <2>2. QED
    BY <1>6, <2>1, GivenUpType DEF ResponseMissed, FreshAfterMiss, PastTimeouts, PCs, Masks
<1>7. CASE PollToggle
  <2>1. {LowestZone(Diff)} \in Masks
    BY <1>7, DiffInZones, LowestZoneIn DEF PollToggle, Masks
  <2>2. h' \in Histories
    BY <1>7 DEF PollToggle, Histories
  <2>3. CASE Send({LowestZone(Diff)})
    BY <1>7, <2>1, <2>2, <2>3, SendType DEF PollToggle
  <2>4. CASE Defer
    BY <1>7, <2>2, <2>4, DeferType DEF PollToggle
  <2>5. QED
    BY <1>7, <2>3, <2>4 DEF PollToggle
<1>8. CASE PollQuery
  <2>1. {} \in Masks
    BY DEF Masks
  <2>2. h' \in Histories
    BY <1>8 DEF PollQuery, Histories
  <2>3. pending' \in BOOLEAN
    BY <1>8 DEF PollQuery
  <2>4. CASE Send({}) /\ age' = [age EXCEPT !["poll"] = 0]
    <3>1. age' \in Ages
      BY <2>4, RestartInAges DEF Clocks
    <3>2. QED
      BY <1>8, <2>1, <2>2, <2>3, <2>4, <3>1, SendType DEF PollQuery
  <2>5. CASE Defer /\ UNCHANGED age
    BY <1>8, <2>2, <2>3, <2>5, DeferType DEF PollQuery
  <2>6. CASE ~QueryDue
    BY <1>8, <2>2, <2>3, <2>6 DEF PollQuery, PCs
  <2>7. QED
    BY <1>8, <2>4, <2>5, <2>6 DEF PollQuery
<1>9. CASE RecordSent
  <2>1. age' \in Ages
    BY <1>9, RestartInAges DEF RecordSent, Clocks
  <2>2. QED
    BY <1>9, <2>1 DEF RecordSent, AwaitsWrite, PCs
<1>10. CASE ReceiveOther
  <2>1. age' \in Ages /\ buffered' \in 0 .. RxCap
    BY <1>10, RestartInAges, TakeFrameType DEF ReceiveOther, Clocks
  <2>2. QED
    BY <1>10, <2>1 DEF ReceiveOther
<1>11. ASSUME NEW f \in Statuses, ReceiveUnconfirmed(f) PROVE TypeOK'
  <2>1. age' \in Ages /\ buffered' \in 0 .. RxCap
    BY <1>11, RestartInAges, TakeFrameType DEF ReceiveUnconfirmed, Clocks
  <2>2. h' \in Histories
    BY <1>11, HeardType DEF ReceiveUnconfirmed
  <2>3. candidate' \in Identities /\ nodeAddr' \in Nat
    BY <1>11, SourceType DEF ReceiveUnconfirmed
  <2>4. confirmations' \in Nat
    BY <1>11 DEF ReceiveUnconfirmed, ConfirmationsWith
  <2>5. QED
    BY <1>11, <2>1, <2>2, <2>3, <2>4 DEF ReceiveUnconfirmed
<1>12. ASSUME NEW f \in Statuses, ReceiveStatus(f) PROVE TypeOK'
  <2>1. age' \in Ages /\ buffered' \in 0 .. RxCap
    BY <1>12, RestartInAges, TakeFrameType DEF ReceiveStatus, Clocks
  <2>2. h' \in Histories
    BY <1>12, HeardType, SettledType DEF ReceiveStatus, Matches
  <2>3. /\ candidate' \in Identities /\ confirmations' \in Nat
        /\ locked' \in BOOLEAN /\ nodeAddr' \in Nat /\ learnedArg0' \in Nat
        /\ restored' \in Storable \cup {NoSource} /\ stored' \in Storable \cup {NoSource}
    BY <1>12, LockType DEF ReceiveStatus
  <2>4. /\ waiting' \in BOOLEAN /\ waitingWrite' \in BOOLEAN /\ txBits' \in Masks
        /\ requireFresh' \in BOOLEAN /\ misses' \in 0 .. OfflineThreshold /\ online' \in BOOLEAN
        /\ pc' \in PCs
    <3>1. CASE waiting /\ Matches(f.seq)
      BY <1>12, <3>1 DEF ReceiveStatus, PCs
    <3>2. CASE ~(waiting /\ Matches(f.seq))
      <4>1. pc' = "drain" /\ Conclude(Matches(f.seq))
        BY <1>12, <3>2 DEF ReceiveStatus
      <4>2. QED
        BY <4>1, FirstCounts DEF Conclude, PCs
    <3>3. QED
      BY <3>1, <3>2
  <2>5. /\ lastMask' \in Masks /\ desired' \in Masks /\ hasStatus' \in BOOLEAN
        /\ mismatches' \in 0 .. (MismatchThreshold - 1)
    BY <1>12, SourceType, FirstCounts DEF ReceiveStatus
  <2>6. QED
    BY <1>12, <2>1, <2>2, <2>3, <2>4, <2>5 DEF ReceiveStatus
<1>13. ASSUME NEW f \in Statuses, ReceiveMismatch(f) PROVE TypeOK'
  <2>1. age' \in Ages /\ buffered' \in 0 .. RxCap
    BY <1>13, RestartInAges, TakeFrameType DEF ReceiveMismatch, Clocks
  <2>2. h' \in Histories
    BY <1>13, HeardType DEF ReceiveMismatch
  <2>3. mismatches' \in 0 .. (MismatchThreshold - 1)
    BY <1>13, V2NumbersAssumption DEF ReceiveMismatch
  <2>4. QED
    BY <1>13, <2>1, <2>2, <2>3 DEF ReceiveMismatch
<1>14. ASSUME NEW f \in Statuses, ReceiveUnlock(f) PROVE TypeOK'
  <2>1. age' \in Ages /\ buffered' \in 0 .. RxCap
    BY <1>14, RestartInAges, TakeFrameType DEF ReceiveUnlock, Clocks
  <2>2. h' \in Histories
    <3>1. h' = [toggle |-> GivenUp(h.toggle), asked |-> {}, heard |-> 1, from |-> f.source]
      BY <1>14 DEF ReceiveUnlock
    <3>2. GivenUp(h.toggle) \in {"settled", "flying", "lost"}
      BY DEF GivenUp, Histories
    <3>3. QED
      BY <3>1, <3>2, SourceType, FirstCounts DEF Histories
  <2>3. candidate' \in Identities /\ confirmations' \in Nat /\ nodeAddr' \in Nat
        /\ learnedArg0' \in Nat /\ mismatches' \in 0 .. (MismatchThreshold - 1)
    BY <1>14, SourceType, FirstCounts DEF ReceiveUnlock
  <2>4. QED
    BY <1>14, <2>1, <2>2, <2>3, FirstCounts DEF ReceiveUnlock, LoseStatus
<1>15. CASE ConcludeMatch
  <2>1. pc' \in PCs
    BY <1>15 DEF ConcludeMatch, PCs
  <2>2. /\ waiting' \in BOOLEAN /\ waitingWrite' \in BOOLEAN /\ txBits' \in Masks
        /\ requireFresh' \in BOOLEAN /\ misses' \in 0 .. OfflineThreshold /\ online' \in BOOLEAN
    BY <1>15, FirstCounts DEF ConcludeMatch, Conclude
  <2>3. QED
    BY <1>15, <2>1, <2>2 DEF ConcludeMatch
<1>16. CASE LoopEnd
  BY <1>16 DEF LoopEnd, PCs
<1>17. CASE Arrive
  BY <1>17, V2NumbersAssumption DEF Arrive
<1>18. CASE Tick
  <2>1. age' \in Ages
    BY <1>18, OlderInAges DEF Tick
  <2>2. timeLeft' \in [{"retry", "de"} -> Nat]
    BY <1>18 DEF Tick
  <2>3. QED
    BY <1>18, <2>1, <2>2 DEF Tick
<1>19. CASE Reboot
  BY <1>19, RebootType
<1>20. QED
  BY <1>1, <1>2, <1>3, <1>4, <1>5, <1>6, <1>7, <1>8, <1>9, <1>10, <1>11, <1>12, <1>13,
     <1>14, <1>15, <1>16, <1>17, <1>18, <1>19 DEF Next, LoopStep, Request

(* Every reachable value of every variable is one its field can hold.  In     *)
(* particular no sequence number is ever 0, which means "none sent yet", and  *)
(* only a storable identity is in RAM as restored or in the flash.            *)
THEOREM TypeCorrect == Spec => []TypeOK
BY InitType, StepType, PTL DEF Spec

--------------------------------------------------------------------------------

LEMMA InitIInv == Init => IInv
<1> SUFFICES ASSUME Init PROVE IInv
  OBVIOUS
<1>1. OnlineIsKnown /\ DirectionAgrees /\ WriteAgrees /\ StatusAgrees /\ ListenerAgrees
  BY DEF Init, OnlineIsKnown, DirectionAgrees, WriteAgrees, StatusAgrees, ListenerAgrees, Fresh, Open
<1>2. LockAgrees
  BY DEF Init, LockAgrees
<1>3. QED
  BY <1>1, <1>2, InitType DEF IInv

LEMMA RebootIInv == TypeOK /\ Reboot => IInv'
<1> SUFFICES ASSUME TypeOK, Reboot PROVE IInv'
  OBVIOUS
<1>1. OnlineIsKnown' /\ DirectionAgrees' /\ WriteAgrees' /\ StatusAgrees' /\ ListenerAgrees'
  BY DEF Reboot, OnlineIsKnown, DirectionAgrees, WriteAgrees, StatusAgrees, ListenerAgrees, Fresh,
         Open
<1>2. LockAgrees'
  BY DEF Reboot, LockAgrees
<1>3. QED
  BY <1>1, <1>2, RebootType DEF IInv

(* What a status in the history is counted as, when the source is the same.   *)
LEMMA HeardAgain ==
    ASSUME TypeOK, NEW f \in Statuses, ~locked,
           (confirmations > 0 => candidate = h.from /\ confirmations <= h.heard)
    PROVE  ConfirmationsWith(f) < Confirmations \/ HeardWith(f) >= Confirmations
<1>1. h.heard \in 0 .. Confirmations /\ confirmations \in Nat /\ Confirmations \in Nat \ {0}
  BY V2NumbersAssumption DEF TypeOK, Histories
<1>2. QED
  BY <1>1 DEF ConfirmationsWith, HeardWith

LEMMA CountedAreHeard ==
    ASSUME TypeOK, NEW f \in Statuses, ConfirmationsWith(f) < Confirmations,
           (confirmations > 0 => candidate = h.from /\ confirmations <= h.heard)
    PROVE  ConfirmationsWith(f) <= HeardWith(f)
<1>1. h.heard \in 0 .. Confirmations /\ confirmations \in Nat /\ Confirmations \in Nat \ {0}
  BY V2NumbersAssumption DEF TypeOK, Histories
<1>2. QED
  BY <1>1 DEF ConfirmationsWith, HeardWith

(* What recording a status leaves in the history.                             *)
LEMMA HeardFields ==
    ASSUME h \in Histories, NEW f \in Statuses, NEW t,
           h' = [h EXCEPT !.heard = HeardWith(f), !.from = f.source, !.toggle = t]
    PROVE  h'.heard = HeardWith(f) /\ h'.from = f.source /\ h'.toggle = t /\ h'.asked = h.asked
BY DEF Histories

(* Every step preserves the inductive invariant, action by action.            *)
LEMMA StepIInv == IInv /\ [Next]_vars => IInv'
<1> SUFFICES ASSUME IInv, [Next]_vars PROVE IInv'
  OBVIOUS
<1>0. TypeOK /\ TypeOK'
  BY StepType DEF IInv
<1> USE <1>0 DEF IInv, OnlineIsKnown, DirectionAgrees, WriteAgrees,
            StatusAgrees, LockAgrees, ListenerAgrees,
            Open, link, intent, view, identity, memory, direction, clocks
<1>1. CASE UNCHANGED vars
  BY <1>1 DEF vars
<1>2. CASE RequestRefresh
  BY <1>2 DEF RequestRefresh, Admitted
<1>3. ASSUME NEW zone \in Zones, NEW on \in BOOLEAN, QueueZoneState(zone, on) PROVE IInv'
  <2>1. h'.toggle = h.toggle /\ h'.heard = h.heard /\ h'.from = h.from
    BY <1>3 DEF QueueZoneState, TypeOK, Histories
  <2>2. QED
    BY <1>3, <2>1 DEF QueueZoneState, Admitted
<1>4. CASE LoopExpires
  <2>1. h'.toggle = GivenUp(h.toggle) /\ h'.heard = h.heard /\ h'.from = h.from
    BY <1>4 DEF LoopExpires, TypeOK, Histories
  <2>2. online /\ (h.toggle # "settled" => pending) /\ h'.toggle # "flying"
    BY <1>4, <2>1 DEF LoopExpires, StatusExpired, TypeOK, Histories, GivenUp
  <2>3. WriteAgrees'
    BY <1>4, <2>1, <2>2 DEF LoopExpires, PastTimeouts, GivenUp, TypeOK, Histories
  <2>4. DirectionAgrees'
    BY <1>4 DEF LoopExpires, ServiceFlowControl
  <2>5. StatusAgrees' /\ ListenerAgrees' /\ OnlineIsKnown' /\ LockAgrees'
    BY <1>4, <2>1 DEF LoopExpires, PastTimeouts
  <2>6. QED
    BY <2>3, <2>4, <2>5
<1>5. CASE LoopStart
  <2>1. (online /\ StatusTimeout # 0) => age["status"] < StatusTimeout
    BY <1>5, TimesAssumption DEF LoopStart, StatusExpired, TypeOK, Ages, Clocks
  <2>2. QED
    BY <1>5, <2>1 DEF LoopStart, ServiceFlowControl, PastTimeouts
<1>6. CASE ResponseMissed
  <2>1. h'.toggle = GivenUp(h.toggle) /\ h'.heard = h.heard /\ h'.from = h.from
    BY <1>6 DEF ResponseMissed, TypeOK, Histories
  <2>2. online' => online
    BY <1>6 DEF ResponseMissed
  <2>3. waiting /\ (h.toggle = "flying" => pending) /\ h'.toggle # "flying"
    BY <1>6, <2>1 DEF ResponseMissed, GivenUp
  <2>4. requireFresh' = (requireFresh \/ pending) /\ pc' = PastTimeouts /\ pending' = pending
    BY <1>6 DEF ResponseMissed, FreshAfterMiss
  <2>5. ~waiting' /\ ~waitingWrite'
    BY <1>6 DEF ResponseMissed
  <2>6. WriteAgrees'
    BY <2>1, <2>2, <2>3, <2>4, <2>5 DEF PastTimeouts, GivenUp
  <2>7. StatusAgrees' /\ ListenerAgrees'
    BY <1>6, <2>2, <2>4, <2>5 DEF ResponseMissed, PastTimeouts
  <2>8. OnlineIsKnown' /\ LockAgrees' /\ DirectionAgrees'
    BY <1>6, <2>1, <2>2, <2>4 DEF ResponseMissed, PastTimeouts
  <2>9. QED
    BY <2>6, <2>7, <2>8
<1>7. CASE PollToggle
  <2>1. h'.heard = h.heard /\ h'.from = h.from /\ h'.toggle \in {h.toggle, "flying"}
    BY <1>7 DEF PollToggle, TypeOK, Histories
  <2>2. CASE Send({LowestZone(Diff)}) /\ h' = [h EXCEPT !.toggle = "flying"]
    BY <1>7, <2>1, <2>2 DEF PollToggle, Send, WriteDue, TypeOK, Histories
  <2>3. CASE Defer /\ UNCHANGED h
    BY <1>7, <2>3 DEF PollToggle, Defer, WriteDue
  <2>4. QED
    BY <1>7, <2>2, <2>3 DEF PollToggle
<1>8. CASE PollQuery
  <2>1. h'.heard = h.heard /\ h'.from = h.from /\ h'.toggle = h.toggle
    BY <1>8 DEF PollQuery, TypeOK, Histories
  <2>2. WriteDue => h.toggle = "settled"
    BY <1>8 DEF PollQuery, WriteDue, TypeOK, Histories
  <2>3. CASE Send({})
    BY <1>8, <2>1, <2>2, <2>3 DEF PollQuery, Send, QueryDue
  <2>4. CASE Defer
    BY <1>8, <2>1, <2>2, <2>4 DEF PollQuery, Defer
  <2>5. CASE ~QueryDue
    BY <1>8, <2>1, <2>2, <2>5 DEF PollQuery
  <2>6. QED
    BY <1>8, <2>3, <2>4, <2>5 DEF PollQuery
<1>9. CASE RecordSent
  BY <1>9 DEF RecordSent, AwaitsWrite
<1>10. CASE ReceiveOther
  BY <1>10 DEF ReceiveOther, TakeFrame
<1>11. ASSUME NEW f \in Statuses, ReceiveUnconfirmed(f) PROVE IInv'
  <2>1. h'.toggle = h.toggle /\ h'.heard = HeardWith(f) /\ h'.from = f.source
    BY <1>11 DEF ReceiveUnconfirmed, TypeOK, Histories
  <2>2. ConfirmationsWith(f) <= HeardWith(f)
    BY <1>11, CountedAreHeard DEF ReceiveUnconfirmed
  <2>3. QED
    BY <1>11, <2>1, <2>2 DEF ReceiveUnconfirmed, TakeFrame
<1>12. ASSUME NEW f \in Statuses, ReceiveStatus(f) PROVE IInv'
  <2>1. h'.toggle = Settled(h.toggle, Matches(f.seq))
    BY <1>12 DEF ReceiveStatus, TypeOK, Histories
  <2>2. LockAgrees' /\ locked'
    <3>1. hasStatus'
      BY <1>12 DEF ReceiveStatus
    <3>2. CASE LockOn(f)
      BY <3>1, <3>2, SourceType DEF LockOn
    <3>3. CASE Known(f) /\ UNCHANGED <<candidate, confirmations, locked, nodeAddr, learnedArg0>>
      BY <3>1, <3>3 DEF Known
    <3>4. QED
      BY <1>12, <3>2, <3>3 DEF ReceiveStatus
  <2>3. /\ pc = "drain" /\ hasStatus' /\ pending' = pending /\ refresh' = refresh
        /\ de' = de /\ dePending' = dePending /\ lastTxSeq' = lastTxSeq
    BY <1>12 DEF ReceiveStatus, TakeFrame
  <2>4. CASE waiting /\ Matches(f.seq)
    <3>1. /\ pc' = "match" /\ waiting' = waiting /\ waitingWrite' = waitingWrite
          /\ txBits' = txBits /\ requireFresh' = requireFresh /\ online' = online
      BY <1>12, <2>4 DEF ReceiveStatus
    <3>2. h'.toggle = "settled"
      BY <2>1, <2>4 DEF Settled
    <3>3. QED
      BY <2>2, <2>3, <2>4, <3>1, <3>2
  <2>5. CASE ~(waiting /\ Matches(f.seq))
    <3>1. pc' = "drain" /\ Conclude(Matches(f.seq))
      BY <1>12, <2>5 DEF ReceiveStatus
    <3>2. WriteAgrees'
      BY <2>1, <2>3, <2>5, <3>1 DEF Conclude, Answers, Settled, TypeOK, Histories
    <3>3. ListenerAgrees' /\ StatusAgrees'
      BY <2>3, <3>1 DEF Conclude
    <3>4. QED
      BY <2>2, <2>3, <3>1, <3>2, <3>3 DEF Conclude
  <2>6. QED
    BY <2>4, <2>5
<1>13. ASSUME NEW f \in Statuses, ReceiveMismatch(f) PROVE IInv'
  <2>1. h'.toggle = h.toggle
    BY <1>13 DEF ReceiveMismatch, TypeOK, Histories
  <2>2. QED
    BY <1>13, <2>1 DEF ReceiveMismatch, TakeFrame
<1>14. ASSUME NEW f \in Statuses, ReceiveUnlock(f) PROVE IInv'
  <2>1. h'.toggle = GivenUp(h.toggle) /\ h'.heard = 1 /\ h'.from = f.source
    BY <1>14 DEF ReceiveUnlock
  <2>2. QED
    BY <1>14, <2>1 DEF ReceiveUnlock, TakeFrame, LoseStatus, GivenUp
<1>15. CASE ConcludeMatch
  <2>1. /\ pc' = "drain" /\ ~waiting' /\ ~waitingWrite' /\ h' = h /\ h.toggle = "settled"
        /\ locked' /\ hasStatus'
    BY <1>15 DEF ConcludeMatch, Conclude, Answers
  <2>2. QED
    BY <1>15, <2>1 DEF ConcludeMatch
<1>16. CASE LoopEnd
  BY <1>16 DEF LoopEnd
<1>17. CASE Arrive
  BY <1>17 DEF Arrive
<1>18. CASE Tick
  BY <1>18 DEF Tick
<1>19. CASE Reboot
  BY <1>19, RebootIInv
<1>20. QED
  BY <1>1, <1>2, <1>3, <1>4, <1>5, <1>6, <1>7, <1>8, <1>9, <1>10, <1>11, <1>12, <1>13,
     <1>14, <1>15, <1>16, <1>17, <1>18, <1>19 DEF Next, LoopStep, Request

THEOREM Invariance == Spec => []IInv
BY InitIInv, StepIInv, PTL DEF Spec

(* Only a driver that has locked a controller and holds a status of it is     *)
(* online and takes requests.                                                 *)
THEOREM OnlineKnown == Spec => []OnlineIsKnown
<1>1. IInv => OnlineIsKnown
  BY DEF IInv
<1>2. QED
  BY <1>1, Invariance, PTL

(* The direction pin is up only while a transmission is being seen out, and   *)
(* never on a listen-only driver.                                             *)
THEOREM DirectionHonest == Spec => []DirectionAgrees
<1>1. IInv => DirectionAgrees
  BY DEF IInv
<1>2. QED
  BY <1>1, Invariance, PTL

--------------------------------------------------------------------------------

(* The only steps that transmit are those two of run_poll_cycle_.             *)
LEMMA SendsPoll == [Next]_vars /\ Sends => PollToggle \/ PollQuery
<1> SUFFICES ASSUME [Next]_vars, Sends PROVE PollToggle \/ PollQuery
  OBVIOUS
<1>1. pc = "poll" /\ pc' = "sent"
  BY DEF Sends
<1>2. ~LoopExpires /\ ~LoopStart /\ ~ResponseMissed /\ ~RecordSent
  BY <1>1 DEF LoopExpires, LoopStart, ResponseMissed, RecordSent
<1>3. ~ReceiveOther /\ ~ConcludeMatch /\ ~LoopEnd /\ ~Arrive /\ ~Tick /\ ~Reboot
  BY <1>1 DEF ReceiveOther, TakeFrame, ConcludeMatch, LoopEnd, Arrive, Tick, Reboot
<1>4. \A f \in Statuses : ~ReceiveUnconfirmed(f) /\ ~ReceiveStatus(f) /\ ~ReceiveMismatch(f)
                          /\ ~ReceiveUnlock(f)
  BY <1>1 DEF ReceiveUnconfirmed, ReceiveStatus, ReceiveMismatch, ReceiveUnlock, TakeFrame
<1>5. ~Request /\ ~UNCHANGED vars
  BY <1>1 DEF Request, RequestRefresh, QueueZoneState, vars
<1>6. QED
  BY <1>2, <1>3, <1>4, <1>5 DEF Next, LoopStep

LEMMA TogglesPoll ==
    ASSUME [Next]_vars, Toggles
    PROVE  pc = "poll" /\ WriteDue /\ Diff # {} /\ txBits' = {LowestZone(Diff)} /\ CanSend
<1>1. Sends /\ txBits' # {}
  BY DEF Toggles
<1>2. ~PollQuery
  BY <1>1 DEF Sends, PollQuery, Send, Defer
<1>3. PollToggle
  BY <1>1, <1>2, SendsPoll
<1>4. Send({LowestZone(Diff)})
  BY <1>1, <1>3 DEF PollToggle, Defer, Sends
<1>5. QED
  BY <1>3, <1>4 DEF PollToggle, Send

(* A toggle is only sent when a status has settled what became of the last.   *)
THEOREM NoneBlind == Spec => NoBlindToggle
<1>1. ASSUME IInv, [Next]_vars, Toggles
      PROVE  h.toggle = "settled"
  <2>1. pc = "poll" /\ ~waiting /\ online /\ ~requireFresh
    BY <1>1, TogglesPoll DEF WriteDue
  <2>2. h.toggle \in {"settled", "flying", "lost"}
    BY <1>1 DEF IInv, TypeOK, Histories
  <2>3. QED
    BY <1>1, <2>1, <2>2 DEF IInv, WriteAgrees
<1>2. QED
  BY <1>1, Invariance, PTL DEF Spec, NoBlindToggle

(* It goes to the locked controller, for one zone that differs, and rests on  *)
(* a status the status timeout still trusts.                                  *)
THEOREM TogglesFromLiveStatus == Spec => ToggleFromLiveStatus
<1>1. ASSUME IInv, [Next]_vars, Toggles
      PROVE  /\ locked
             /\ \E z \in Zones : txBits' = {z} /\ (z \in desired) # (z \in lastMask)
             /\ StatusTimeout # 0 => age["status"] < StatusTimeout
  <2>1. pc = "poll" /\ online /\ Diff # {} /\ txBits' = {LowestZone(Diff)}
    BY <1>1, TogglesPoll DEF WriteDue
  <2>2. locked
    BY <1>1, <2>1 DEF IInv, OnlineIsKnown
  <2>3. Diff \in SUBSET Zones
    BY <1>1, DiffInZones DEF IInv, TypeOK
  <2>4. LowestZone(Diff) \in Diff
    BY <2>1, <2>3, LowestZoneIn
  <2>5. QED
    BY <1>1, <2>1, <2>2, <2>3, <2>4, DiffDiffers DEF IInv, StatusAgrees
<1>2. QED
  BY <1>1, Invariance, PTL DEF Spec, ToggleFromLiveStatus

(* Nothing is transmitted while the direction pin is still held.              *)
THEOREM SendsReleased == Spec => SendsAfterRelease
<1>1. ASSUME IInv, [Next]_vars, Sends
      PROVE  ~de
  <2>1. CanSend
    BY <1>1, SendsPoll DEF Sends, PollToggle, PollQuery, Send, Defer
  <2>2. QED
    BY <1>1, <2>1 DEF IInv, DirectionAgrees, CanSend
<1>2. QED
  BY <1>1, Invariance, PTL DEF Spec, SendsAfterRelease

(* Only a status can lock a controller or get it stored, by locking it.       *)
LEMMA LockingStep ==
    ASSUME [Next]_vars, (~locked /\ locked') \/ (stored' # stored)
    PROVE  \E f \in Statuses : ReceiveStatus(f) /\ LockOn(f)
<1>1. ~UNCHANGED vars /\ ~Request /\ ~Arrive /\ ~Tick /\ ~Reboot
  BY DEF vars, identity, memory, Request, RequestRefresh, QueueZoneState, Arrive, Tick, Reboot
<1>2. ~LoopExpires /\ ~LoopStart /\ ~ResponseMissed /\ ~PollToggle /\ ~PollQuery
      /\ ~RecordSent /\ ~ReceiveOther /\ ~ConcludeMatch /\ ~LoopEnd
  BY DEF identity, memory, LoopExpires, LoopStart, ResponseMissed, PollToggle, PollQuery,
         RecordSent, ReceiveOther, ConcludeMatch, LoopEnd
<1>3. \A f \in Statuses : ~ReceiveUnconfirmed(f) /\ ~ReceiveMismatch(f) /\ ~ReceiveUnlock(f)
  BY DEF memory, ReceiveUnconfirmed, ReceiveMismatch, ReceiveUnlock
<1>4. PICK f \in Statuses : ReceiveStatus(f)
  BY <1>1, <1>2, <1>3 DEF Next, LoopStep
<1>5. LockOn(f)
  BY <1>4 DEF ReceiveStatus, Known, memory
<1>6. QED
  BY <1>4, <1>5

(* The confirmations that lock have all been heard.                           *)
LEMMA LockingIsHeard ==
    ASSUME IInv, NEW f \in Statuses, ReceiveStatus(f), LockOn(f)
    PROVE  /\ locked' /\ h'.heard >= Confirmations
           /\ h'.from = f.source
           /\ h'.from = [node |-> nodeAddr', arg0 |-> learnedArg0']
<1>1. h'.heard = HeardWith(f) /\ h'.from = f.source
  BY DEF ReceiveStatus, IInv, TypeOK, Histories
<1>2. ~(ConfirmationsWith(f) < Confirmations)
  BY V2NumbersAssumption DEF LockOn, ConfirmationsWith, IInv, TypeOK
<1>3. HeardWith(f) >= Confirmations
  BY <1>2, HeardAgain DEF IInv, LockAgrees, LockOn
<1>4. QED
  BY <1>1, <1>3, SourceType DEF LockOn

(* A controller is locked after enough statuses of it in a row, all of them   *)
(* heard since the restart or the unlock.                                     *)
THEOREM LocksEarned == Spec => LockIsEarned
<1>1. ASSUME IInv, [Next]_vars, ~locked, locked'
      PROVE  /\ h'.heard >= Confirmations
             /\ h'.from = [node |-> nodeAddr', arg0 |-> learnedArg0']
  BY <1>1, LockingStep, LockingIsHeard
<1>2. QED
  BY <1>1, Invariance, PTL DEF Spec, LockIsEarned

(* The flash never gets a controller that was not locked that way.            *)
THEOREM StoresEarned == Spec => StoredIsEarned
<1>1. ASSUME IInv, [Next]_vars, stored' # stored
      PROVE  locked' /\ h'.heard >= Confirmations /\ h'.from = stored'
  <2>1. PICK f \in Statuses : ReceiveStatus(f) /\ LockOn(f)
    BY <1>1, LockingStep
  <2>2. stored' = f.source
    BY <1>1, <2>1 DEF LockOn, Save, memory
  <2>3. QED
    BY <1>1, <2>1, <2>2, LockingIsHeard
<1>2. QED
  BY <1>1, Invariance, PTL DEF Spec, StoredIsEarned

--------------------------------------------------------------------------------

(* The driver implements the promise of Toggler.                              *)

Sure == pc = "match" \/ (online /\ ~requireFresh /\ Open = {})

LEMMA InitPromised == Init => Promise!Init
BY DEF Init, BootAges, Open, Clocks, Promise!Init

\* Steps that neither open nor close a toggle, nor change what is known.
LEMMA Unnoticed ==
    ASSUME Open' = Open, online' = online, requireFresh' = requireFresh,
           pc # "match", pc' # "match", age'["status"] = age["status"]
    PROVE  UNCHANGED <<Open, Sure, age["status"]>>
BY DEF Sure

LEMMA ToggleStep == IInv /\ PollToggle => (\E zone \in Zones : Promise!Toggle(zone))
                                         \/ UNCHANGED <<Open, Sure, age["status"]>>
<1> SUFFICES ASSUME IInv, PollToggle
             PROVE  (\E zone \in Zones : Promise!Toggle(zone))
                    \/ UNCHANGED <<Open, Sure, age["status"]>>
  OBVIOUS
<1>1. /\ pc = "poll" /\ ~waiting /\ online /\ ~requireFresh /\ Diff # {}
      /\ online' = online /\ requireFresh' = requireFresh /\ age' = age
      /\ waitingWrite' = waitingWrite
  BY DEF PollToggle, WriteDue, intent, view
<1>2. Open = {} /\ ~waitingWrite
  BY <1>1 DEF IInv, WriteAgrees, Open
<1>3. CASE Send({LowestZone(Diff)})
  <2>1. LowestZone(Diff) \in Zones
    BY <1>1, LowestZoneIn, DiffInZones DEF IInv, TypeOK
  <2>2. pc' = "sent" /\ Open' = {LowestZone(Diff)}
    BY <1>3 DEF Send, Open
  <2>3. StatusTimeout # 0 => age["status"] < StatusTimeout
    BY <1>1 DEF IInv, StatusAgrees
  <2>4. Promise!Toggle(LowestZone(Diff))
    BY <1>1, <1>2, <2>2, <2>3 DEF Promise!Toggle
  <2>5. QED
    BY <2>1, <2>4
<1>4. CASE Defer
  <2>1. pc' = "drain" /\ Open' = {}
    BY <1>1, <1>2, <1>4 DEF Defer, Open
  <2>2. QED
    BY <1>1, <1>2, <2>1, Unnoticed
<1>5. QED
  BY <1>3, <1>4 DEF PollToggle

\* A status either settles what is open or, with a foreign number, does not.
LEMMA StatusStep ==
    ASSUME IInv, NEW f \in Statuses, ReceiveStatus(f)
    PROVE  Promise!Learn \/ Promise!Hear
<1>1. pc = "drain" /\ age'["status"] = 0
  BY DEF ReceiveStatus, TakeFrame, IInv, TypeOK, Ages, Clocks
<1>2. CASE waiting /\ Matches(f.seq)
  BY <1>1, <1>2 DEF ReceiveStatus, Open, Promise!Learn
<1>3. CASE ~(waiting /\ Matches(f.seq))
  <2>1. pc' = "drain" /\ Conclude(Matches(f.seq))
    BY <1>3 DEF ReceiveStatus
  <2>2. CASE Answers(Matches(f.seq))
    BY <1>1, <2>1, <2>2 DEF Conclude, Open, Promise!Learn
  <2>3. CASE ~Answers(Matches(f.seq))
    <3>1. waitingWrite /\ Open' = Open /\ Open = txBits
      BY <1>1, <2>1, <2>3 DEF Conclude, Answers, Open
    <3>2. Open # {}
      BY <1>1, <3>1 DEF IInv, WriteAgrees
    <3>3. QED
      BY <1>1, <2>1, <3>1, <3>2 DEF Promise!Hear
  <2>4. QED
    BY <2>2, <2>3
<1>4. QED
  BY <1>2, <1>3

\* An answer given up: of a toggle it leaves doubt, of a query nothing.
LEMMA MissStep == IInv /\ ResponseMissed => Promise!Doubt \/ UNCHANGED <<Open, Sure, age["status"]>>
<1> SUFFICES ASSUME IInv, ResponseMissed
             PROVE  Promise!Doubt \/ UNCHANGED <<Open, Sure, age["status"]>>
  OBVIOUS
<1>1. /\ pc = "missed" /\ pc' \in {"drain", "poll"} /\ Open' = {} /\ age' = age
      /\ requireFresh' = (requireFresh \/ pending)
  BY DEF ResponseMissed, PastTimeouts, Open, FreshAfterMiss, clocks
<1>2. CASE Open # {}
  <2>1. requireFresh'
    BY <1>1, <1>2 DEF IInv, WriteAgrees
  <2>2. QED
    BY <1>1, <2>1 DEF Promise!Doubt
<1>3. CASE Open = {}
  <2>1. CASE online' /\ ~requireFresh'
    <3>1. online /\ ~requireFresh
      BY <1>1, <2>1 DEF ResponseMissed
    <3>2. QED
      BY <1>1, <1>3, <2>1, <3>1 DEF Sure
  <2>2. CASE ~(online' /\ ~requireFresh')
    BY <1>1, <2>2 DEF Promise!Doubt
  <2>3. QED
    BY <2>1, <2>2
<1>4. QED
  BY <1>2, <1>3

LEMMA StepPromised == IInv /\ [Next]_vars => [Promise!Next]_<<Open, Sure, age["status"]>>
<1> SUFFICES ASSUME IInv, [Next]_vars
             PROVE  Promise!Next \/ UNCHANGED <<Open, Sure, age["status"]>>
  OBVIOUS
<1>0. TypeOK
  BY DEF IInv
<1> USE DEF link, intent, view, identity, memory, direction, clocks
<1>1. CASE UNCHANGED vars
  BY <1>1 DEF vars, Open, Sure
<1>2. CASE RequestRefresh
  BY <1>2 DEF RequestRefresh, Open, Sure
<1>3. ASSUME NEW zone \in Zones, NEW on \in BOOLEAN, QueueZoneState(zone, on)
      PROVE  UNCHANGED <<Open, Sure, age["status"]>>
  BY <1>3 DEF QueueZoneState, Open, Sure
<1>4. CASE LoopExpires
  BY <1>4 DEF LoopExpires, PastTimeouts, Open, Promise!Doubt, Promise!Next
<1>5. CASE LoopStart
  BY <1>5, Unnoticed DEF LoopStart, PastTimeouts, Open
<1>6. CASE ResponseMissed
  BY <1>6, MissStep DEF Promise!Next
<1>7. CASE PollToggle
  BY <1>7, ToggleStep DEF Promise!Next
<1>8. CASE PollQuery
  <2>1. /\ pc = "poll" /\ pc' \in {"sent", "drain"} /\ waitingWrite' = waitingWrite
        /\ online' = online /\ requireFresh' = requireFresh
    BY <1>8 DEF PollQuery, Send, Defer
  <2>2. age'["status"] = age["status"]
    BY <1>0, <1>8 DEF PollQuery, TypeOK, Ages, Clocks
  <2>3. CASE QueryDue /\ Send({})
    <3>1. ~waitingWrite
      BY <2>3 DEF QueryDue, IInv, WriteAgrees
    <3>2. Open = {} /\ Open' = {}
      BY <2>1, <2>3, <3>1 DEF Send, Open
    <3>3. QED
      BY <2>1, <2>2, <3>2, Unnoticed
  <2>4. CASE ~(QueryDue /\ Send({}))
    <3>1. txBits' = txBits /\ pc' = "drain"
      BY <1>8, <2>4 DEF PollQuery, Defer
    <3>2. Open' = Open
      BY <2>1, <3>1 DEF Open
    <3>3. QED
      BY <2>1, <2>2, <3>1, <3>2, Unnoticed
  <2>5. QED
    BY <2>3, <2>4
<1>9. CASE RecordSent
  <2>1. age'["status"] = age["status"]
    BY <1>0, <1>9 DEF RecordSent, TypeOK, Ages, Clocks
  <2>2. QED
    BY <1>9, <2>1, Unnoticed DEF RecordSent, AwaitsWrite, Open
<1>10. CASE ReceiveOther
  <2>1. age'["status"] = age["status"]
    BY <1>0, <1>10 DEF ReceiveOther, TypeOK, Ages, Clocks
  <2>2. QED
    BY <1>10, <2>1, Unnoticed DEF ReceiveOther, TakeFrame, Open
<1>11. ASSUME NEW f \in Statuses, ReceiveUnconfirmed(f)
       PROVE  UNCHANGED <<Open, Sure, age["status"]>>
  <2>1. age'["status"] = age["status"]
    BY <1>0, <1>11 DEF ReceiveUnconfirmed, TypeOK, Ages, Clocks
  <2>2. QED
    BY <1>11, <2>1, Unnoticed DEF ReceiveUnconfirmed, TakeFrame, Open
<1>12. ASSUME NEW f \in Statuses, ReceiveStatus(f) PROVE Promise!Next
  BY <1>12, StatusStep DEF Promise!Next
<1>13. ASSUME NEW f \in Statuses, ReceiveMismatch(f)
       PROVE  UNCHANGED <<Open, Sure, age["status"]>>
  <2>1. age'["status"] = age["status"]
    BY <1>0, <1>13 DEF ReceiveMismatch, TypeOK, Ages, Clocks
  <2>2. QED
    BY <1>13, <2>1, Unnoticed DEF ReceiveMismatch, TakeFrame, Open
<1>14. ASSUME NEW f \in Statuses, ReceiveUnlock(f) PROVE Promise!Next
  <2>1. age'["status"] = age["status"]
    BY <1>0, <1>14 DEF ReceiveUnlock, TypeOK, Ages, Clocks
  <2>2. QED
    BY <1>14, <2>1 DEF ReceiveUnlock, LoseStatus, TakeFrame, Open, Promise!Doubt, Promise!Next
<1>15. CASE ConcludeMatch
  BY <1>15 DEF ConcludeMatch, Conclude, Answers, Open, Sure
<1>16. CASE LoopEnd
  BY <1>16, Unnoticed DEF LoopEnd, Open
<1>17. CASE Arrive
  BY <1>17 DEF Arrive, Open, Sure
<1>18. CASE Tick
  <2>1. age'["status"] \in {age["status"], age["status"] + 1}
    BY <1>0, <1>18, HorizonType DEF Tick, Older, TypeOK, Ages, Clocks
  <2>2. Open' = Open /\ Sure' = Sure
    BY <1>18 DEF Tick, Open, Sure
  <2>3. QED
    BY <2>1, <2>2 DEF Promise!Wait, Promise!Next, Sure
<1>19. CASE Reboot
  <2>1. age'["status"] = 0
    BY <1>19 DEF Reboot, BootAges, Clocks
  <2>2. QED
    BY <1>19, <2>1 DEF Reboot, Open, Promise!Doubt, Promise!Next
<1>20. QED
  BY <1>1, <1>2, <1>3, <1>4, <1>5, <1>6, <1>7, <1>8, <1>9, <1>10, <1>11, <1>12, <1>13,
     <1>14, <1>15, <1>16, <1>17, <1>18, <1>19 DEF Next, LoopStep, Request

(* The V2 driver is a Toggler: it toggles one zone at a time, from a state it *)
(* is sure of, and only a status ends its doubt.                              *)
THEOREM PromiseKept == Spec => KeepsPromise
BY InitPromised, StepPromised, Invariance, PTL DEF Spec, KeepsPromise, Promise!Spec, Sure
================================================================================
