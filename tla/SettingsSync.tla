---------------------------- MODULE SettingsSync ----------------------------
(***************************************************************************)
(* One of the three switches of SettingsScreen.tsx (motion detection,       *)
(* motion alerts, auto-lock: the same code three times, on separate keys    *)
(* and separate query parameters).  Its value lives in three places: on the *)
(* screen, in the phone's AsyncStorage, and in a global of the Pi that is   *)
(* reset whenever the back end starts.  The screen asks the Pi, lets the    *)
(* stored value override the answer, and from then on an effect stores and  *)
(* pushes every change without waiting for the push.                        *)
(*                                                                          *)
(* Abstracted: a write to AsyncStorage takes effect at once (the library    *)
(* runs them in order); reading the Pi's value and showing it are one step. *)
(***************************************************************************)
EXTENDS Naturals

CONSTANTS Push,  \* pushes that may be in flight at once
          Null   \* no value: nothing stored yet, no push in flight

ASSUME SettingsAssumption == Null \notin BOOLEAN \union Push

VARIABLES
  onPi,      \* the Pi's global
  stored,    \* the phone's AsyncStorage entry, Null before the first write
  onScreen,  \* the screen's state
  stage,     \* of the mount effect
  push,      \* push[k]: a POST of that value in flight, or Null
  newest,    \* the push sent last, Null once it was handled or lost
  astray     \* history: the Pi's value is not that of the push sent last

settingsVars == <<onPi, stored, onScreen, stage, push, newest, astray>>

\* "away": the app runs, the tab was not visited yet; "ready": prefsReady.
Stage == {"away", "asking", "restoring", "ready"}

SettingsTypeOK ==
  /\ onPi \in BOOLEAN
  /\ stored \in BOOLEAN \union {Null}
  /\ onScreen \in BOOLEAN
  /\ stage \in Stage
  /\ push \in [Push -> BOOLEAN \union {Null}]
  /\ newest \in Push \union {Null}
  /\ astray \in BOOLEAN

\* A new phone and a Pi that has just started; all three switches default to on.
SettingsInit ==
  /\ onPi = TRUE
  /\ stored = Null
  /\ onScreen = TRUE
  /\ stage = "away"
  /\ push = [k \in Push |-> Null]
  /\ newest = Null
  /\ astray = TRUE

-----------------------------------------------------------------------------
(* The app.                                                                 *)

\* Mutant: the value is stored and pushed before the stored one was read.
EffectAtOnce(value) ==
  \E k \in Push :
    /\ push[k] = Null
    /\ push' = [push EXCEPT ![k] = value]
    /\ newest' = k
    /\ stored' = value
    /\ UNCHANGED <<onPi, astray>>

\* The switch's effect: once prefsReady, store the value and push it.
Effect(value) ==
  IF stage' # "ready" THEN UNCHANGED <<onPi, stored, push, newest, astray>>
  ELSE \E k \in Push :
         /\ push[k] = Null
         /\ push' = [push EXCEPT ![k] = value]
         /\ newest' = k
         /\ stored' = value
         /\ UNCHANGED <<onPi, astray>>

\* The tab's first visit: the mount effect starts with a ping.
OpenSettings ==
  /\ stage = "away"
  /\ stage' = "asking"
  /\ Effect(onScreen)
  /\ UNCHANGED onScreen

\* The Pi's value, if the Pi is online and answers.
AskPi ==
  /\ stage = "asking"
  /\ stage' = "restoring"
  /\ onScreen' \in {onScreen, onPi}
  /\ UNCHANGED <<onPi, stored, push, newest, astray>>

\* Mutant: an entry that was never written is taken for a value.
RestoredUnchecked == stored

Restored == IF stored = Null THEN onScreen ELSE stored

\* The stored value overrides, and prefsReady lets the effect run.
Restore ==
  /\ stage = "restoring"
  /\ stage' = "ready"
  /\ onScreen' = Restored
  /\ Effect(Restored)

\* The user flips the switch, which is never disabled.
FlipSwitch ==
  /\ stage # "away"
  /\ onScreen' = ~onScreen
  /\ UNCHANGED stage
  /\ Effect(~onScreen)

\* The app ends and starts anew; a push that was sent may still arrive.
AppRestart ==
  /\ stage # "away"
  /\ stage' = "away"
  /\ onScreen' = TRUE
  /\ UNCHANGED <<onPi, stored, push, newest, astray>>

-----------------------------------------------------------------------------
(* The Pi.                                                                  *)

\* Mutant: the handler leaves a value it is sent alone if it is false.
IgnoresFalse(value) == onPi' = (onPi \/ value)

\* `if detection is not None`, and the like.
SetOnPi(value) == onPi' = value

\* A push is handled.
PushLands(k) ==
  /\ push[k] # Null
  /\ SetOnPi(push[k])
  /\ push' = [push EXCEPT ![k] = Null]
  /\ newest' = IF newest = k THEN Null ELSE newest
  /\ astray' = (newest # k)
  /\ UNCHANGED <<stored, onScreen, stage>>

\* It is not: `.catch(() => {})`, and nobody tries again.
PushLost(k) ==
  /\ push[k] # Null
  /\ push' = [push EXCEPT ![k] = Null]
  /\ newest' = IF newest = k THEN Null ELSE newest
  /\ astray' = (astray \/ newest = k)
  /\ UNCHANGED <<onPi, stored, onScreen, stage>>

\* The back end restarts: the global has its default again.
PiRestart ==
  /\ onPi' = TRUE
  /\ astray' = TRUE
  /\ UNCHANGED <<stored, onScreen, stage, push, newest>>

\* Another phone pushes its own value.
PushFromElsewhere ==
  /\ onPi' \in BOOLEAN
  /\ astray' = TRUE
  /\ UNCHANGED <<stored, onScreen, stage, push, newest>>

-----------------------------------------------------------------------------

SettingsNext ==
  \/ OpenSettings \/ AskPi \/ Restore \/ FlipSwitch \/ AppRestart
  \/ PiRestart \/ PushFromElsewhere
  \/ \E k \in Push : PushLands(k) \/ PushLost(k)

SettingsSpec == SettingsInit /\ [][SettingsNext]_settingsVars

-----------------------------------------------------------------------------
(* Properties.                                                              *)

\* Only the user changes a stored choice: neither the defaults the screen
\* starts with, nor the value of a Pi that has restarted or was set by another
\* phone, ever overwrites it.
StoredIsUsers ==
  [][stored # Null /\ stored' # stored => FlipSwitch]_settingsVars

\* The Pi does what the switch shows whenever the push sent last is the one it
\* handled last, however many pushes were lost, overtaken or sent before a
\* restart.
InStep ==
  stage = "ready" /\ newest = Null /\ ~astray => onPi = onScreen

=============================================================================
