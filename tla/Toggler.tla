-------------------------------- MODULE Toggler --------------------------------
(* What a driver of either generation promises about its toggles.             *)
(*                                                                            *)
(* A toggle is relative: it is right only if the state it starts from is      *)
(* known, and repeating it undoes it.  So one zone is toggled at a time, from *)
(* a state the driver is sure of; from then on it is unsure, until a status   *)
(* tells what became of the toggle.  Whatever goes wrong only adds doubt, and *)
(* nothing but a status takes doubt away.                                     *)
EXTENDS Naturals

CONSTANTS Zones, StatusTimeout

VARIABLES
    out,   \* the zones toggled by a request whose outcome is open
    sure,  \* whether the state the last status showed can be built on
    age    \* time since the last status, up to StatusTimeout

Init == out = {} /\ sure = FALSE /\ age = 0

Toggle(zone) ==
    /\ sure
    /\ out = {}
    /\ StatusTimeout # 0 => age < StatusTimeout
    /\ out' = {zone}
    /\ sure' = FALSE
    /\ UNCHANGED age

\* A status that settles what became of the last toggle.
Learn == out' = {} /\ sure' = TRUE /\ age' = 0

\* A status that does not: it may be older than the toggle.
Hear == age' = 0 /\ UNCHANGED <<out, sure>>

\* A lost answer, a failure, a lost controller, a restart.
Doubt == out' = {} /\ sure' = FALSE /\ age' \in {age, 0}

Wait == age' = age + 1 /\ UNCHANGED <<out, sure>>

Next == (\E zone \in Zones : Toggle(zone)) \/ Learn \/ Hear \/ Doubt \/ Wait

Spec == Init /\ [][Next]_<<out, sure, age>>
================================================================================
