---------------------------------- MODULE Hub ----------------------------------
(* What the V1 and V2 drivers share: the ZoneSwitch base class.               *)
(*                                                                            *)
(* A zone mask of the code (six bits of a uint8_t) is the set of the zones    *)
(* whose bit is set.  A timestamp of the code (a uint32_t of milliseconds) is *)
(* the age of the event it records, in ticks, which stops growing at the      *)
(* largest threshold the code compares it with: its horizon.                  *)
(*                                                                            *)
(* Here and in the drivers, a definition marked "Faulty" is the one below it  *)
(* with a mistake a maintainer could make.  No specification uses it: put in  *)
(* place of the right one, it makes a property fail.                          *)
EXTENDS Naturals

CONSTANTS
    Zones,          \* the zones a mask has a bit for: 1..6 in the code
    SpillZone,      \* spill_zone_; any value outside Zones turns the guard off
    ListenOnly,     \* listen_only_
    EnablePolling,  \* enable_polling_
    PollInterval,   \* poll_interval_ms_, in ticks
    TxIdleGuard,    \* tx_idle_guard_ms_, in ticks
    StatusTimeout   \* status_timeout_ms_, in ticks; 0 turns it off

ASSUME ZonesAssumption == Zones \subseteq (Nat \ {0}) /\ Zones # {}
ASSUME SpillAssumption == SpillZone \in Nat
ASSUME FlagsAssumption == ListenOnly \in BOOLEAN /\ EnablePolling \in BOOLEAN
ASSUME TimesAssumption ==
    /\ PollInterval \in Nat
    /\ TxIdleGuard \in Nat
    /\ StatusTimeout \in Nat

NoZone == 0
Masks == SUBSET Zones

Flip(mask, bits) == (mask \ bits) \cup (bits \ mask)

Larger(a, b) == IF a < b THEN b ELSE a

\* One more tick: elapsed time is counted up to its horizon.
Older(age, horizon) == IF age < horizon THEN age + 1 ELSE age

\* Faulty: the test of the desired bit of the spill zone is inverted.
SpillGuardForOpening(diff, desired, last) ==
    IF SpillZone \in Zones \cap diff \cap desired /\ SpillZone \in last THEN diff \ {SpillZone} ELSE diff

(* apply_spill_guard_: the toggles that remain of diff when desired would     *)
(* close the spill zone with no other zone left open.                         *)
SpillGuard(diff, desired, last) ==
    IF /\ SpillZone \in Zones \cap diff \cap last
       /\ desired = {}
    THEN diff \ {SpillZone}
    ELSE diff

\* Faulty: one tick too late.
StatusExpiredLate(online, hasStatus, statusAge) ==
    StatusTimeout # 0 /\ online /\ hasStatus /\ statusAge > StatusTimeout

(* The condition of service_status_timeout_: statusAge is the time since the  *)
(* last accepted status.                                                      *)
StatusExpired(online, hasStatus, statusAge) ==
    /\ StatusTimeout # 0
    /\ online
    /\ hasStatus
    /\ statusAge >= StatusTimeout
================================================================================
