---------------------------- MODULE LightLevels ----------------------------
(***************************************************************************)
(* The level code of the virtual light.  The hub's automations write a     *)
(* brightness to the light for every lock event; the add-on decodes it     *)
(* (addon/app/lib/lightBridge.server.ts).  A label text is represented by  *)
(* the level it belongs to, so that decoding keeps what the properties     *)
(* need: which labels are equal and which are not.                         *)
(***************************************************************************)
EXTENDS Integers

\* Labels that are not the label of a level.
NoLabel             == 0
OUTSIDE_GENERIC     == 100    \* "Mở từ bên ngoài"
FromHomeAssistant   == 101    \* "Mở từ Home Assistant"
LockedByHA          == 102    \* "Khóa từ Home Assistant"
HALabels            == {FromHomeAssistant, LockedByHA}

\* "Đã khóa": the label of level 5, which applyLockState publishes as well.
LockedLabel         == 5

\* LEVEL_INDEX: the state each static level stands for.
EVENT_LEVELS ==
    [level \in {5} \cup 11..13 \cup 20..22 \cup 30..33 \cup {40, 41, 50, 51} |->
        IF level = 5 THEN "locked"
        ELSE IF level \in 11..13 THEN "unlocked-in"
        ELSE IF level \in 20..22 THEN "unlocked-out"
        ELSE "event"]

\* The levels of per-person automations, registered while the add-on runs.
CredentialLevels == 60..99

\* dyn: the levels DYNAMIC_INDEX knows; every entry is an opening from outside.
levelState(level, dyn) ==
    IF level \in DOMAIN EVENT_LEVELS THEN EVENT_LEVELS[level]
    ELSE IF level \in dyn THEN "unlocked-out" ELSE "unknown"

lockStateFromLevel(level, dyn) ==
    IF level <= 1 THEN "unknown"
    ELSE IF levelState(level, dyn) \in {"unlocked-in", "unlocked-out"} THEN "unlocked"
    ELSE levelState(level, dyn)

decodeLevel(level, dyn) ==
    IF level > 1 /\ levelState(level, dyn) # "unknown" THEN level ELSE NoLabel

opensFromOutside(level, dyn) == levelState(level, dyn) = "unlocked-out"

\* awayModeFromLevel: "none" when the level says nothing of the away mode.
awayModeFromLevel(level) ==
    IF level = 40 THEN "ON" ELSE IF level = 41 THEN "OFF" ELSE "none"

\* What the event topic may hold.
AllLabels == {NoLabel, OUTSIDE_GENERIC} \cup HALabels \cup DOMAIN EVENT_LEVELS
                \cup CredentialLevels
=============================================================================
